------------------------------ MODULE Attempt ------------------------------
(***************************************************************************)
(* The request pipeline (crates/hypellm-router/src/pipeline.rs and         *)
(* dispatch.rs): one request goes through passes; a pass routes it and     *)
(* tries the candidates one after the other; an attempt takes a breaker    *)
(* permit, the inbound bytes, an admission reservation, a hold on the      *)
(* key's budget, a running model and a dispatch hold, one after another,   *)
(* sends, and gives each of them back on whichever path it leaves by.      *)
(* Between passes a request may park for a cold model or wait for an       *)
(* unreachable one.  The breaker, the scopes and the budgets themselves    *)
(* are the modules Breaker, AdmissionQueue and KeyBudget; here each is a   *)
(* count of what is out and the decision it may answer with.               *)
(***************************************************************************)
EXTENDS Naturals, Sequences, FiniteSets

CONSTANTS
  Requests, Targets,
  Family,       \* [Targets -> families]: the provider family of a target
  max_attempts, \* settings max_attempts
  max_concurrency,       \* slots of a target's scope
  max_parked_requests, max_recovery_waiters,
  MaxRounds,    \* bound: passes of one request
  Scenes        \* the situations explored: see SceneType

\* What the outside does in one situation.  who comes, who has a key with a
\* budget, who sent an idempotency key, who is a queued job; whether the
\* alias allows a change of family; the candidate lists routing may return;
\* the gates that may refuse; how an activation may end; what an upstream
\* may answer; whether the credential is rotated.
SceneType ==
  [who : SUBSET Requests, keyed : SUBSET Requests, idempotent : SUBSET Requests,
   job : SUBSET Requests, allow_family_failover : BOOLEAN,
   routes : SUBSET Seq([target : Targets, residency : {"warm", "coming", "cold"}]),
   refuses : SUBSET {"circuit", "bytes", "rate", "memory", "funds", "ledger", "claimed", "time", "park"},
   starts : SUBSET {"ready", "queued", "agent", "refused"},
   answers : SUBSET {"served", "unreachable", "limited", "rejected", "lost", "cut", "left", "leftLate"},
   rotates : BOOLEAN]

ASSUME AttemptAssumption ==
  /\ IsFiniteSet(Requests) /\ Scenes \subseteq SceneType

VARIABLES
  scene,
  req,          \* [Requests -> record]: a request's thread, see Fresh
  permit,       \* [Targets -> Nat]: breaker permits out
  slot,         \* [Targets -> Nat]: admission reservations out
  hold,         \* [Requests -> Nat]: holds on the key's budget out
  dispatch,     \* [Targets -> Nat]: DispatchBook.in_flight
  inflight,     \* [Targets -> Nat]: TargetHealth.in_flight
  parked, recovering,    \* parked_requests, recovery_waiters
  secret,       \* CredentialStore: the current secret, the superseded one or "none"
  \* what the world has seen of each request
  worked,       \* attempts an upstream accepted
  heard,        \* attempts whose output reached the client
  charged,      \* attempts charged to the caller's tokens, and to the key
  spent

shared == <<permit, slot, hold, dispatch, inflight, parked, recovering, secret>>
seen == <<worked, heard, charged, spent>>
vars == <<scene, req, shared, seen>>

Keyed(r) == r \in scene.keyed
Job(r) == r \in scene.job

(***************************************************************************)
(* What an attempt's end says (dispatch.rs).                               *)
(***************************************************************************)
Ends == {"served", "unreachable", "limited", "rejected", "auth",
         "lost", "cut", "left", "leftLate"}

\* AttemptPhase of an end.  A status that is not a success is a refusal, so
\* it is before acceptance whatever the body says.
Phase(e) ==
  CASE e \in {"unreachable", "limited", "rejected", "auth"} -> "before"
    [] e \in {"lost", "left"} -> "accepted"
    [] e \in {"cut", "leftLate", "served"} -> "output"

client_cancelled(e) == e \in {"left", "leftLate"}

\* UpstreamErrorClass::is_retriable
is_retriable(e) == e \in {"unreachable", "limited", "lost", "cut", "left", "leftLate"}

\* Mutant: an accepted request moves on with or without a key.
permits_failover_Accepted(phase, idempotent) == phase # "output"

permits_failover(phase, idempotent) ==
  phase = "before" \/ (phase = "accepted" /\ idempotent)

may_failover(e, idempotent) ==
  /\ ~client_cancelled(e)
  /\ permits_failover(Phase(e), idempotent)
  /\ is_retriable(e)

\* The client error of an end, in the classes awaits_recovery tells apart.
CodeOf(e) ==
  CASE e \in {"limited", "rejected", "auth", "left", "leftLate"} -> "refusal"
    [] OTHER -> "outage"

(***************************************************************************)
(* One request's thread.                                                   *)
(***************************************************************************)
\* pc: where it is; mode: which loop the pass runs under; left: candidates
\* still to try, n of them gone by; first_family; what the pass recorded:
\* excl (exclusion reasons, in classes), tried (attempts so far), err, saw;
\* sent: the secret the exchange presents and how it ended; late: its
\* deadline has passed; rounds: passes so far.
Fresh ==
  [pc |-> "idle", mode |-> "first", left |-> <<>>, n |-> 0, first_family |-> "none",
   excl |-> {}, tried |-> {}, err |-> "none", saw |-> FALSE,
   sent |-> "none", fallback |-> FALSE, end |-> "none", late |-> FALSE, rounds |-> 0]

Init ==
  /\ scene \in Scenes
  /\ req = [r \in Requests |-> Fresh]
  /\ permit = [t \in Targets |-> 0] /\ slot = [t \in Targets |-> 0]
  /\ dispatch = [t \in Targets |-> 0] /\ inflight = [t \in Targets |-> 0]
  /\ hold = [r \in Requests |-> 0]
  /\ parked = 0 /\ recovering = 0
  /\ secret = [current |-> "old", previous |-> "none"]
  /\ worked = [r \in Requests |-> 0] /\ heard = [r \in Requests |-> 0]
  /\ charged = [r \in Requests |-> 0] /\ spent = [r \in Requests |-> 0]

At(r, pc) == r \in scene.who /\ req[r].pc = pc
Here(r) == Head(req[r].left).target
Residency(r) == Head(req[r].left).residency
Inc(f, x) == [f EXCEPT ![x] = @ + 1]
Dec(f, x) == [f EXCEPT ![x] = @ - 1]

\* The thread as its pass returns to whichever loop called it.
Return(r, err) == [req[r] EXCEPT !.pc = "out", !.err = err, !.left = <<>>]

\* `continue`: the next candidate, with what this one left in the trace.
Continue(r, why) ==
  [req[r] EXCEPT !.pc = "gate", !.left = Tail(@), !.n = @ + 1, !.excl = @ \cup why]

Goto(r, pc) == [req EXCEPT ![r].pc = pc]

(***************************************************************************)
(* execute_once                                                            *)
(***************************************************************************)
\* Routing: the candidates of this pass, and a fresh trace.  No candidate is
\* an error at once (no_candidate_error); its exclusions may be an outage's.
Route(r, list) ==
  /\ list \in scene.routes
  /\ req' = [req EXCEPT ![r] = [req[r] EXCEPT !.pc = IF list = <<>> THEN "out" ELSE "gate",
               !.left = list, !.n = 0, !.first_family = "none",
               !.excl = IF list = <<>> THEN {"unreachable"} ELSE {},
               !.tried = {}, !.saw = FALSE, !.err = IF list = <<>> THEN "outage" ELSE "none",
               !.rounds = @ + 1]]
  /\ UNCHANGED <<scene, shared, seen>>

execute_for_key(r) ==
  At(r, "idle") /\ \E list \in scene.routes : Route(r, list)

\* The loop's head: out of candidates or attempts, out of time, a family the
\* alias does not allow, the breaker.
OutOfCandidates(r) ==
  /\ At(r, "gate")
  /\ req[r].left = <<>> \/ req[r].n >= max_attempts
  /\ req' = [req EXCEPT ![r] = Return(r, IF req[r].err = "none" THEN "outage" ELSE req[r].err)]
  /\ UNCHANGED <<scene, shared, seen>>

More(r) == At(r, "gate") /\ req[r].left # <<>> /\ req[r].n < max_attempts

OutOfTime(r) ==
  /\ More(r)
  /\ req[r].late \/ "time" \in scene.refuses
  /\ req' = [req EXCEPT ![r] = [Return(r, "outage") EXCEPT !.tried = @ \cup {"deadline"}]]
  /\ UNCHANGED <<scene, shared, seen>>

OtherFamily(r) ==
  /\ ~scene.allow_family_failover
  /\ req[r].first_family \notin {"none", Family[Here(r)]}

FamilyRefused(r) ==
  /\ More(r) /\ ~req[r].late /\ OtherFamily(r)
  /\ req' = [req EXCEPT ![r] = Continue(r, {"other"})]
  /\ UNCHANGED <<scene, shared, seen>>

Gate(r) ==
  /\ More(r) /\ ~req[r].late /\ ~OtherFamily(r)
  /\ \/ /\ "circuit" \in scene.refuses
        /\ req' = [req EXCEPT ![r] = Continue(r, {"unreachable"})]
        /\ UNCHANGED permit
     \/ req' = Goto(r, "bytes") /\ permit' = Inc(permit, Here(r))
  /\ UNCHANGED <<scene, slot, hold, dispatch, inflight, parked, recovering, secret, seen>>

\* Mutant: the refusal keeps the probe permit.
Bytes_KeepsPermit(r) ==
  /\ At(r, "bytes")
  /\ req' = Goto(r, "reserve") \/ ("bytes" \in scene.refuses /\ req' = [req EXCEPT ![r] = Continue(r, {"budget"})])
  /\ UNCHANGED <<scene, shared, seen>>

\* try_admit_bytes: a refusal leaves no failure behind, only an exclusion.
Bytes(r) ==
  /\ At(r, "bytes")
  /\ \/ req' = Goto(r, "reserve") /\ UNCHANGED permit
     \/ /\ "bytes" \in scene.refuses
        /\ req' = [req EXCEPT ![r] = Continue(r, {"budget"})]
        /\ permit' = Dec(permit, Here(r))
  /\ UNCHANGED <<scene, slot, hold, dispatch, inflight, parked, recovering, secret, seen>>

\* reserve_queued_as: a free slot is taken; with none a job is refused at
\* once and a request waits until one is free or its wait is over.
Reserve(r) ==
  /\ At(r, "reserve")
  /\ \/ /\ slot[Here(r)] < max_concurrency
        /\ slot' = Inc(slot, Here(r)) /\ req' = Goto(r, "fund")
        /\ UNCHANGED permit
     \/ \E why \in {w \in {"capacity", "budget"} :
                      \/ w = "capacity" /\ (slot[Here(r)] >= max_concurrency \/ "memory" \in scene.refuses)
                      \/ w = "budget" /\ "rate" \in scene.refuses} :
          /\ req' = [req EXCEPT ![r] = [Continue(r, {why}) EXCEPT
                       !.err = IF why = "budget" THEN "refusal" ELSE "outage"]]
          /\ permit' = Dec(permit, Here(r))
          /\ UNCHANGED slot
  /\ UNCHANGED <<scene, hold, dispatch, inflight, parked, recovering, secret, seen>>

\* The key's budget: a refusal ends the request, never moves it on.
Fund(r) ==
  /\ At(r, "fund")
  /\ \/ ~Keyed(r) /\ req' = Goto(r, "ready") /\ UNCHANGED <<hold, slot, permit>>
     \/ /\ Keyed(r)
        /\ hold' = Inc(hold, r) /\ req' = Goto(r, "ready")
        /\ UNCHANGED <<slot, permit>>
     \/ /\ Keyed(r) /\ scene.refuses \cap {"funds", "ledger"} # {}
        /\ slot' = Dec(slot, Here(r)) /\ permit' = Dec(permit, Here(r))
        /\ req' = [req EXCEPT ![r] = [Return(r, "refusal") EXCEPT !.excl = @ \cup {"budget"}]]
        /\ UNCHANGED hold
  /\ UNCHANGED <<scene, dispatch, inflight, parked, recovering, secret, seen>>

\* Everything taken so far goes back, nothing was sent.
GiveBack(r) ==
  /\ slot' = Dec(slot, Here(r)) /\ permit' = Dec(permit, Here(r))
  /\ hold' = IF Keyed(r) THEN Dec(hold, r) ELSE hold

\* wait_for and activate_for.  Riding somebody else's start and starting one
\* fail alike; only the latter leaves a failure to report.
StartFailed(r, why) ==
  /\ why \in scene.starts \ {"ready"}
  /\ GiveBack(r)
  /\ LET reason == CASE why = "queued" -> "queued"
                     [] why = "agent" -> "unreachable"
                     [] why = "refused" -> "other"
         rode == Residency(r) = "coming"
     IN  /\ rode => why # "queued"
         /\ req' = [req EXCEPT ![r] = [Continue(r, {IF rode THEN "other" ELSE reason}) EXCEPT
                      !.err = IF rode THEN @ ELSE "outage"]]

Ready(r) ==
  /\ At(r, "ready")
  /\ \/ /\ Residency(r) = "warm" \/ "ready" \in scene.starts
        /\ req' = Goto(r, "enter")
        /\ UNCHANGED <<slot, permit, hold>>
     \/ /\ Residency(r) # "warm"
        /\ \E why \in scene.starts : StartFailed(r, why)
  /\ UNCHANGED <<scene, dispatch, inflight, parked, recovering, secret, seen>>

\* enter_dispatch, and health.enter: from here the target carries the
\* request.  A target claimed for a stop sends the request on.
Enter(r) ==
  /\ At(r, "enter")
  /\ \/ /\ dispatch' = Inc(dispatch, Here(r)) /\ inflight' = Inc(inflight, Here(r))
        /\ req' = [req EXCEPT ![r] = [req[r] EXCEPT !.pc = "send",
                     !.first_family = IF @ = "none" THEN Family[Here(r)] ELSE @,
                     !.sent = secret.current, !.fallback = FALSE]]
        /\ UNCHANGED <<slot, permit, hold>>
     \/ /\ "claimed" \in scene.refuses
        /\ GiveBack(r)
        /\ req' = [req EXCEPT ![r] = Continue(r, {"queued"})]
        /\ UNCHANGED <<dispatch, inflight>>
  /\ UNCHANGED <<scene, parked, recovering, secret, seen>>

\* What an upstream does with an exchange.  An exchange it accepted is work
\* done; output reaches the client as it is decoded.
Upstream(r, e) ==
  /\ worked' = IF Phase(e) = "before" THEN worked ELSE Inc(worked, r)
  /\ heard' = IF Phase(e) = "output" THEN Inc(heard, r) ELSE heard

\* dispatch::attempt.  While a rotation is in its window the provider may
\* not accept the new secret yet.
Exchange(r) ==
  /\ At(r, "send") /\ ~req[r].fallback
  /\ \E e \in scene.answers \cup (IF req[r].sent = "new" THEN {"auth"} ELSE {}) :
       /\ Upstream(r, e)
       /\ req' = IF e = "auth"
                 THEN [req EXCEPT ![r].fallback = TRUE]
                 ELSE [req EXCEPT ![r] = [req[r] EXCEPT !.pc = "leave", !.end = e]]
  /\ UNCHANGED <<scene, shared, charged, spent>>

\* The superseded secret, once, after an authentication failure: only a
\* success replaces the failure the attempt ended with.
attempt_superseded(r) ==
  /\ At(r, "send") /\ req[r].fallback
  /\ IF secret.previous = "none"
     THEN /\ req' = [req EXCEPT ![r] = [req[r] EXCEPT !.pc = "leave", !.end = "auth"]]
          /\ UNCHANGED <<worked, heard>>
     ELSE \E e \in scene.answers :
            /\ Upstream(r, e)
            /\ req' = [req EXCEPT ![r] = [req[r] EXCEPT !.pc = "leave",
                         !.end = IF e = "served" THEN e ELSE "auth"]]
  /\ UNCHANGED <<scene, shared, charged, spent>>

\* After the exchange, whatever it said: a success with the current secret
\* retires the superseded one; the target and the deployment are let go.
Leave(r) ==
  /\ At(r, "leave")
  /\ secret' = IF req[r].end = "served" /\ ~req[r].fallback
               THEN [secret EXCEPT !.previous = "none"] ELSE secret
  /\ inflight' = Dec(inflight, Here(r)) /\ dispatch' = Dec(dispatch, Here(r))
  /\ req' = Goto(r, "settle")
  /\ UNCHANGED <<scene, permit, slot, hold, parked, recovering, seen>>

\* Mutant: only an exchange that brought output is charged.
Charged_Output(e) == Phase(e) = "output"

\* Whether the attempt is charged.
Charged(e) == Phase(e) # "before"

\* The reservation and the hold: refunded when nothing was accepted, charged
\* otherwise, and the permit finished.  Then the request is over or goes on.
Settle(r) ==
  LET e == req[r].end
      accepted == Charged(e)
      outcome == IF e = "unreachable" THEN "curable" ELSE "failed"
      \* the next candidate, if the failure may fail over
      moved == Continue(r, {})
      next == IF e = "served" THEN Return(r, "none")
              ELSE IF may_failover(e, r \in scene.idempotent) THEN moved
              ELSE Return(r, CodeOf(e))
  IN  /\ At(r, "settle")
      /\ GiveBack(r)
      /\ charged' = IF accepted THEN Inc(charged, r) ELSE charged
      /\ spent' = IF accepted /\ Keyed(r) THEN Inc(spent, r) ELSE spent
      /\ req' = [req EXCEPT ![r] = [next EXCEPT !.end = "none", !.sent = "none", !.fallback = FALSE,
                   !.err = IF e = "served" THEN "none" ELSE CodeOf(e),
                   !.saw = @ \/ Phase(e) = "output",
                   !.tried = IF e = "served" THEN @ ELSE @ \cup {outcome}]]
      /\ UNCHANGED <<scene, dispatch, inflight, parked, recovering, secret, worked, heard>>

(***************************************************************************)
(* Between passes.                                                         *)
(***************************************************************************)
\* "the one thing in the way is an activation that is coming"
awaits_activation(q) ==
  /\ q.err # "none" /\ ~q.saw
  /\ "queued" \in q.excl /\ "budget" \notin q.excl

\* An outage: something was unreachable, and nothing failed otherwise.
awaits_recovery(q) ==
  /\ q.err = "outage" /\ ~q.saw
  /\ q.tried \subseteq {"curable"}
  /\ "unreachable" \in q.excl \/ q.tried # {}
  /\ q.excl \cap {"capacity", "budget"} = {}

Finished(r) == [req EXCEPT ![r].pc = "done"]

\* Out of a first pass: park, wait for a recovery, or answer.  A queued job
\* answers at once: its waiting is the job queue's.
Park(r, mode) ==
  /\ parked < max_parked_requests
  /\ parked' = parked + 1
  /\ req' = [req EXCEPT ![r] = [req[r] EXCEPT !.pc = "wait", !.mode = mode]]

AwaitRecovery(r) ==
  IF ~Job(r) /\ awaits_recovery(req[r]) /\ recovering < max_recovery_waiters
  THEN /\ recovering' = recovering + 1
       /\ req' = [req EXCEPT ![r] = [req[r] EXCEPT !.pc = "wait", !.mode = "recovery"]]
  ELSE req' = Finished(r) /\ UNCHANGED recovering

AfterFirst(r) ==
  /\ At(r, "out") /\ req[r].mode = "first"
  /\ \/ /\ ~Job(r) /\ awaits_activation(req[r])
        /\ Park(r, "parked") /\ UNCHANGED recovering
     \/ /\ \/ Job(r) \/ ~awaits_activation(req[r])
           \/ parked >= max_parked_requests \/ "park" \in scene.refuses
        /\ AwaitRecovery(r) /\ UNCHANGED parked
  /\ UNCHANGED <<scene, permit, slot, hold, dispatch, inflight, secret, seen>>

\* Out of a later pass: back to the wait, or out of the loop it ran under.
\* A pass of a recovery wait may find the machine back and its model cold.
AfterParked(r) ==
  /\ At(r, "out") /\ req[r].mode \in {"parked", "recpark"}
  /\ IF awaits_activation(req[r])
     THEN req' = Goto(r, "wait") /\ UNCHANGED parked
     ELSE /\ parked' = parked - 1
          /\ req' = Goto(r, "unparked")
  /\ UNCHANGED <<scene, permit, slot, hold, dispatch, inflight, recovering, secret, seen>>

AfterRecovery(r) ==
  /\ At(r, "out") /\ req[r].mode = "recovery"
  /\ \/ awaits_activation(req[r]) /\ Park(r, "recpark") /\ UNCHANGED recovering
     \/ /\ \/ ~awaits_activation(req[r])
           \/ parked >= max_parked_requests \/ "park" \in scene.refuses
        /\ IF awaits_recovery(req[r])
           THEN req' = Goto(r, "wait") /\ UNCHANGED recovering
           ELSE req' = Finished(r) /\ recovering' = recovering - 1
        /\ UNCHANGED parked
  /\ UNCHANGED <<scene, permit, slot, hold, dispatch, inflight, secret, seen>>

\* A request that has unparked returns to what parked it.
Unparked(r) ==
  /\ At(r, "unparked")
  /\ IF req[r].mode = "parked"
     THEN AwaitRecovery(r)
     ELSE IF awaits_recovery(req[r])
     THEN req' = [req EXCEPT ![r] = [req[r] EXCEPT !.pc = "wait", !.mode = "recovery"]] /\ UNCHANGED recovering
     ELSE req' = Finished(r) /\ recovering' = recovering - 1
  /\ UNCHANGED <<scene, permit, slot, hold, dispatch, inflight, parked, secret, seen>>

\* Mutant: the wait does not look at the deadline.
GiveUp_NoDeadline(r) ==
  /\ At(r, "wait") /\ "left" \in scene.answers
  /\ IF req[r].mode = "recovery"
     THEN req' = Finished(r) /\ recovering' = recovering - 1 /\ UNCHANGED parked
     ELSE req' = Goto(r, "unparked") /\ parked' = parked - 1 /\ UNCHANGED recovering
  /\ UNCHANGED <<scene, permit, slot, hold, dispatch, inflight, secret, seen>>

\* Each round of a wait: out of time, the client gone, or another pass.
GiveUp(r) ==
  /\ At(r, "wait")
  /\ req[r].late \/ "left" \in scene.answers
  /\ IF req[r].mode = "recovery"
     THEN req' = Finished(r) /\ recovering' = recovering - 1 /\ UNCHANGED parked
     ELSE req' = Goto(r, "unparked") /\ parked' = parked - 1 /\ UNCHANGED recovering
  /\ UNCHANGED <<scene, permit, slot, hold, dispatch, inflight, secret, seen>>

Again(r) ==
  /\ At(r, "wait") /\ ~req[r].late /\ req[r].rounds < MaxRounds
  /\ \E list \in scene.routes : Route(r, list)

(***************************************************************************)
(* The outside.                                                            *)
(***************************************************************************)
\* The request's deadline passes; it is looked at between attempts and
\* between rounds, and an exchange it cuts short ends as one of the answers.
Expire(r) ==
  /\ At(r, "gate") \/ At(r, "wait")
  /\ ~req[r].late
  /\ req' = [req EXCEPT ![r].late = TRUE]
  /\ UNCHANGED <<scene, shared, seen>>

\* CredentialStore::rotate, and the end of its overlap window.
rotate ==
  /\ scene.rotates /\ secret.current = "old"
  /\ secret' = [current |-> "new", previous |-> "old"]
  /\ UNCHANGED <<scene, req, permit, slot, hold, dispatch, inflight, parked, recovering, seen>>

WindowOver ==
  /\ secret.previous # "none"
  /\ secret' = [secret EXCEPT !.previous = "none"]
  /\ UNCHANGED <<scene, req, permit, slot, hold, dispatch, inflight, parked, recovering, seen>>

Step(r) ==
  \/ execute_for_key(r)
  \/ OutOfCandidates(r) \/ OutOfTime(r) \/ FamilyRefused(r) \/ Gate(r)
  \/ Bytes(r) \/ Reserve(r) \/ Fund(r) \/ Ready(r) \/ Enter(r)
  \/ Exchange(r) \/ attempt_superseded(r) \/ Leave(r) \/ Settle(r)
  \/ AfterFirst(r) \/ AfterParked(r) \/ AfterRecovery(r) \/ Unparked(r)
  \/ GiveUp(r) \/ Again(r)

Next ==
  \/ \E r \in Requests : Step(r) \/ Expire(r)
  \/ rotate \/ WindowOver

Spec == Init /\ [][Next]_vars

\* A thread that can go on does, and time passes: every wait in the code is
\* bounded by the deadline and every exchange by a timeout derived from it.
FairSpec ==
  /\ Spec
  /\ \A r \in Requests : WF_vars(Step(r)) /\ WF_vars(Expire(r))

(***************************************************************************)
(* Properties                                                              *)
(***************************************************************************)
Holding(r, where) == r \in scene.who /\ req[r].pc \in where
Holders(t, where) == {r \in Requests : Holding(r, where) /\ Here(r) = t}

AfterPermit == {"bytes", "reserve", "fund", "ready", "enter", "send", "leave", "settle"}
AfterSlot == AfterPermit \ {"bytes", "reserve"}
AfterFunds == AfterSlot \ {"fund"}

\* What is out is what somebody still has: whichever of its many paths a
\* request leaves an attempt by (refused bytes, no slot, no funds, a model
\* that does not start, a claimed deployment, any end of an exchange), it has
\* given back the probe permit, the slot, the hold, the dispatch hold and the
\* in-flight count, and every loop its place among the waiters.
HoldsExact ==
  /\ \A t \in Targets :
       /\ permit[t] = Cardinality(Holders(t, AfterPermit))
       /\ slot[t] = Cardinality(Holders(t, AfterSlot))
       /\ dispatch[t] = Cardinality(Holders(t, {"send", "leave"}))
       /\ inflight[t] = dispatch[t]
  /\ \A r \in Requests :
       hold[r] = IF Keyed(r) /\ Holding(r, AfterFunds) THEN 1 ELSE 0
  /\ parked = Cardinality({r \in scene.who :
                /\ req[r].mode \in {"parked", "recpark"} /\ req[r].pc \notin {"unparked", "done"}})
  /\ recovering = Cardinality({r \in scene.who :
                    req[r].mode \in {"recovery", "recpark"} /\ req[r].pc # "done"})

\* Between attempts the caller's tokens, and a keyed caller's budget, have
\* been charged for exactly the exchanges an upstream accepted: a refusal
\* costs nothing however many candidates it took, an accepted exchange is
\* paid for even when it broke off or its client left.
PaidForWork ==
  \A r \in Requests : ~Holding(r, {"send", "leave", "settle"}) =>
    /\ charged[r] = worked[r]
    /\ spent[r] = IF Keyed(r) THEN worked[r] ELSE 0

\* A request whose work an upstream accepted is not sent again unless it
\* carries an idempotency key, and once output reached the client nothing
\* more is sent at all: no pass, failover or wait splices a second answer.
NoSecondAnswer ==
  \A r \in Requests :
    /\ worked[r] > 1 => r \in scene.idempotent
    /\ heard[r] <= 1
    /\ heard[r] = 1 => ~Holding(r, {"gate", "bytes", "reserve", "fund", "ready", "enter", "wait"})

\* Every request is answered: no path of the attempt loop, the park and the
\* recovery wait strands a thread.
EveryRequestEnds ==
  \A r \in Requests : (r \in scene.who) ~> (req[r].pc = "done")

=============================================================================
