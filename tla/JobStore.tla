------------------------------ MODULE JobStore ------------------------------
(***************************************************************************)
(* Asynchronous jobs (crates/hypellm-router/src/jobs.rs), the run of an    *)
(* artifact job (job_exchange.rs) and the spool of results (spool.rs).     *)
(*                                                                         *)
(* Three locks are never held over a step: the job table, the queue and    *)
(* the spool's counter.  Every action below is one stretch under one lock  *)
(* (submit's rollback and the sweep take a second one inside), so a thread *)
(* that lets go of one lock to take another may be overtaken.  Times are   *)
(* choices: a deadline or a backoff may end at any moment, a recovery or a *)
(* retention window be over whenever it is looked at.  The wake generation *)
(* is unbounded in the code and only compared with an entry's stamp: it is *)
(* kept as the entry's "blocked" bit and the worker's "fresh" bit, both    *)
(* cleared when it moves.                                                  *)
(***************************************************************************)
EXTENDS Naturals, Sequences, FiniteSets

CONSTANTS
  Jobs, Workers,
  TenantOf, PrincipalOf, AliasOf,   \* of each job
  BatchJobs, ArtifactJobs,          \* the jobs of the batch class; with parts to spool
  Locality,          \* how an alias's model stands, or "off" for no reordering
  MaxPerTenant, MaxPerPrincipal,   \* job_caps, per tenant
  MaxQueued, MaxQueuedBatch,       \* JobLimits
  MaxAttempts,       \* MAX_JOB_ATTEMPTS
  MaxParked,         \* MAX_JOBS_QUEUED_PER_CAPABILITY
  SpoolRoom,         \* max_total_bytes, each artifact's parts being one unit
  Waits,             \* the ways a pass may find its job waiting
  Scenes             \* the scenarios: which jobs come, which may be cancelled, run
                     \* out of patience or meet an outage, whether the store stops

ASSUME JobAssumption ==
  /\ IsFiniteSet(Jobs) /\ IsFiniteSet(Workers)
  /\ BatchJobs \subseteq Jobs /\ ArtifactJobs \subseteq Jobs
  /\ Waits \subseteq {"slot", "activation", "recovery", "backoff"}
  /\ \A j \in Jobs : {MaxPerTenant[TenantOf[j]], MaxPerPrincipal[TenantOf[j]]} \subseteq Nat
  /\ {MaxQueued, MaxQueuedBatch, MaxAttempts, MaxParked, SpoolRoom} \subseteq Nat
  /\ Scenes \subseteq [come : SUBSET Jobs, cancel : SUBSET Jobs, patience : SUBSET Jobs,
                       outage : SUBSET Jobs, stop : BOOLEAN]

VARIABLES
  scene,     \* the scenario, chosen once
  table,     \* per job, its state as its owner sees it, or "absent"
  asking,    \* per job, how far its submission is
  holding,   \* the submissions that hold parked demand
  queue,     \* the waiting jobs, in submission order
  entry,     \* per job, its entry in the queue
  cancelled, \* the jobs whose flag is set
  stopping,  \* "no", "set", or "told" once the queue was flagged
  expired,   \* the jobs whose patience has run out
  worker,    \* what each worker is doing
  demand,    \* how many jobs the fleet counts as parked demand
  used,      \* the spool's bytes reserved or written
  spooled,   \* per job, the spool bytes its record holds
  lost       \* history: bytes whose run was cancelled once they were spooled

store == <<table, spooled, used>>
line == <<queue, entry>>
times == <<scene, expired, cancelled, stopping>>
vars == <<store, asking, holding, line, times, worker, demand, lost>>

Terminal == {"succeeded", "failed", "cancelled"}

NoEntry == [trying |-> FALSE, started |-> FALSE, blocked |-> FALSE, backing |-> FALSE,
            attempts |-> 0, recovery |-> FALSE, parked |-> FALSE,
            principal_round |-> 0, tenant_round |-> 0]

Idle == [at |-> "take", job |-> "none", fresh |-> FALSE, counted |-> FALSE, parked |-> FALSE,
         admitted |-> FALSE, result |-> "none", bytes |-> 0]

Init ==
  /\ scene \in Scenes
  /\ table = [j \in Jobs |-> "absent"] /\ spooled = [j \in Jobs |-> 0]
  /\ used = 0 /\ lost = 0
  /\ asking = [j \in Jobs |-> IF j \in scene.come THEN "new" ELSE "never"]
  /\ holding = {}
  /\ queue = <<>> /\ entry = [j \in Jobs |-> NoEntry]
  /\ cancelled = {} /\ stopping = "no" /\ expired = {}
  /\ worker = [w \in Workers |-> Idle] /\ demand = 0

Queued(j) == \E i \in 1 .. Len(queue) : queue[i] = j
Place(j) == CHOOSE i \in 1 .. Len(queue) : queue[i] = j
Stopping == stopping # "no"
Without(j) ==
  IF Queued(j)
  THEN SubSeq(queue, 1, Place(j) - 1) \o SubSeq(queue, Place(j) + 1, Len(queue))
  ELSE queue
Set(w, w1) == worker' = [worker EXCEPT ![w] = w1]
Go(w, point) == Set(w, [worker[w] EXCEPT !.at = point])
One(b) == IF b THEN 1 ELSE 0

\* left_queue: the generation moves on, for the entries and for the passes under way.
Unblocked(e) == [j \in Jobs |-> [e[j] EXCEPT !.blocked = FALSE]]
Moved(ws) == [w \in Workers |-> [ws[w] EXCEPT !.fresh = FALSE]]

\* sweep_locked: the finished jobs whose window has closed go, and their parts.
Finished == {j \in Jobs : table[j] \in Terminal}
Swept(t, gone) == [j \in Jobs |-> IF j \in gone THEN "absent" ELSE t[j]]
Sweep(gone) ==
  /\ spooled' = [j \in Jobs |-> IF j \in gone THEN 0 ELSE spooled[j]]
  /\ used' = used - Cardinality({j \in gone : spooled[j] = 1})

-----------------------------------------------------------------------------
(* accept_job and submit *)

\* park, then submit's look at stopping: the fleet counts the job as demand,
\* unless jobs hold their share already.
Ask(j) ==
  /\ asking[j] = "new"
  /\ IF demand < MaxParked THEN demand' = demand + 1 /\ holding' = holding \cup {j}
     ELSE UNCHANGED <<demand, holding>>
  /\ asking' = [asking EXCEPT ![j] = IF Stopping THEN "refused" ELSE "insert"]
  /\ UNCHANGED <<store, line, times, worker, lost>>

\* The sweep, the caps and the insertion, under the table's lock.
Insert(j) ==
  \E gone \in SUBSET Finished :
    LET now  == Swept(table, gone)
        held == {k \in Jobs : now[k] # "absent" /\ TenantOf[k] = TenantOf[j]}
        full == \/ Cardinality(held) >= MaxPerTenant[TenantOf[j]]
                \/ Cardinality({k \in held : PrincipalOf[k] = PrincipalOf[j]})
                     >= MaxPerPrincipal[TenantOf[j]]
    IN
    /\ asking[j] = "insert"
    /\ Sweep(gone)
    /\ table' = [now EXCEPT ![j] = IF full THEN @ ELSE "queued"]
    /\ asking' = [asking EXCEPT ![j] = IF full THEN "refused" ELSE "enqueue"]
    /\ UNCHANGED <<holding, line, times, worker, demand, lost>>

Batch == {j \in BatchJobs : Queued(j)}

\* rounds: the jobs of the same class, tenant and principal that wait now.
SameClass(j) ==
  {k \in Jobs : Queued(k) /\ ~entry[k].started /\ TenantOf[k] = TenantOf[j]
                /\ (k \in BatchJobs <=> j \in BatchJobs)}

\* A mutant: the submission's demand is not handed to the entry.
Enqueue_NotHanded(j) ==
  /\ asking[j] = "enqueue" /\ Len(queue) < MaxQueued
  /\ queue' = Append(queue, j)
  /\ entry' = [entry EXCEPT ![j] = NoEntry]
  /\ holding' = holding \ {j}
  /\ asking' = [asking EXCEPT ![j] = "accepted"]
  /\ UNCHANGED <<store, times, worker, demand, lost>>

\* Under the queue's lock: the entry, or the table's record rolled back.
Enqueue(j) ==
  LET full == \/ Len(queue) >= MaxQueued
              \/ j \in BatchJobs /\ Cardinality(Batch) >= MaxQueuedBatch
  IN
  /\ asking[j] = "enqueue"
  /\ IF full
     THEN /\ table' = [table EXCEPT ![j] = "absent"]
          /\ asking' = [asking EXCEPT ![j] = "refused"]
          /\ UNCHANGED <<line, holding>>
     ELSE /\ queue' = Append(queue, j)
          /\ entry' = [entry EXCEPT ![j] =
               [NoEntry EXCEPT !.parked = j \in holding,
                 !.principal_round = Cardinality({k \in SameClass(j) : PrincipalOf[k] = PrincipalOf[j]}),
                 !.tenant_round = Cardinality(SameClass(j))]]
          /\ holding' = holding \ {j}
          /\ asking' = [asking EXCEPT ![j] = "accepted"]
          /\ UNCHANGED table
  /\ UNCHANGED <<spooled, used, times, worker, demand, lost>>

\* release_parked, when the submission was refused.
Refused(j) ==
  /\ asking[j] = "refused"
  /\ asking' = [asking EXCEPT ![j] = "done"]
  /\ demand' = demand - One(j \in holding)
  /\ holding' = holding \ {j}
  /\ UNCHANGED <<store, line, times, worker, lost>>

-----------------------------------------------------------------------------
(* The owner, and the clock *)

\* A mutant: a finished job is cancelled too.
Cancel_Finished(j) ==
  /\ j \in scene.cancel /\ asking[j] = "accepted" /\ table[j] # "absent"
  /\ cancelled' = cancelled \cup {j}
  /\ table' = [table EXCEPT ![j] = IF @ = "running" THEN @ ELSE "cancelled"]
  /\ UNCHANGED <<spooled, used, asking, holding, line, scene, expired, stopping, worker, demand, lost>>

\* A queued job is cancelled at once, a running one only flagged.
Cancel(j) ==
  /\ j \in scene.cancel /\ asking[j] = "accepted" /\ table[j] \in {"queued", "running"}
  /\ cancelled' = cancelled \cup {j}
  /\ table' = [table EXCEPT ![j] = IF @ = "queued" THEN "cancelled" ELSE @]
  /\ UNCHANGED <<spooled, used, asking, holding, line, scene, expired, stopping, worker, demand, lost>>

\* get, list, result, part: whoever reads the table sweeps it first.
Read ==
  \E gone \in SUBSET Finished \ {{}} :
    /\ Sweep(gone) /\ table' = Swept(table, gone)
    /\ UNCHANGED <<asking, holding, line, times, worker, demand, lost>>

PatienceOver(j) ==
  /\ j \in scene.patience /\ j \notin expired /\ Queued(j)
  /\ expired' = expired \cup {j}
  /\ UNCHANGED <<store, asking, holding, line, scene, cancelled, stopping, worker, demand, lost>>

BackoffOver(j) ==
  /\ Queued(j) /\ entry[j].backing
  /\ entry' = [entry EXCEPT ![j].backing = FALSE]
  /\ UNCHANGED <<store, asking, holding, queue, times, worker, demand, lost>>

\* shutdown: no more submissions, then what has not started is flagged.
Stop ==
  /\ scene.stop /\ stopping = "no"
  /\ stopping' = "set"
  /\ UNCHANGED <<store, asking, holding, line, scene, expired, cancelled, worker, demand, lost>>

FlagQueue ==
  /\ stopping = "set"
  /\ stopping' = "told"
  /\ cancelled' = cancelled \cup {j \in Jobs : Queued(j) /\ ~entry[j].started}
  /\ UNCHANGED <<store, asking, holding, line, scene, expired, worker, demand, lost>>

-----------------------------------------------------------------------------
(* take: what a worker does next, under the queue's lock *)

\* A mutant: only a flag makes a job leave the queue untried.
Dead_Patient == {j \in Jobs : Queued(j) /\ ~entry[j].trying /\ j \in cancelled}

\* The entries to discard: flagged or out of patience, and not being tried.
Dead == {j \in Jobs : Queued(j) /\ ~entry[j].trying /\ (j \in cancelled \/ j \in expired)}

\* pick: one try at a time per alias, until it starts.
Contested == {AliasOf[j] : j \in {k \in Jobs : Queued(k) /\ entry[k].trying /\ ~entry[k].started}}

Due ==
  {j \in Jobs : /\ Queued(j) /\ ~entry[j].trying /\ ~entry[j].backing /\ ~entry[j].blocked
                /\ AliasOf[j] \notin Contested}

\* share_key, compared left to right.
ShareBefore(j, k) ==
  LET e == entry[j] f == entry[k] IN
  \/ e.principal_round < f.principal_round
  \/ e.principal_round = f.principal_round /\ e.tenant_round < f.tenant_round
  \/ e.principal_round = f.principal_round /\ e.tenant_round = f.tenant_round /\ Place(j) < Place(k)

IsFirst(j, S) == j \in S /\ \A k \in S \ {j} : ShareBefore(j, k)

\* The cold model that the most due jobs wait for, the oldest of them first.
Group(S, a) == {j \in S : AliasOf[j] = a}
Oldest(S) == CHOOSE i \in {Place(j) : j \in S} : \A j \in S : i <= Place(j)
Bigger(S, a, b) ==
  \/ Cardinality(Group(S, a)) > Cardinality(Group(S, b))
  \/ /\ Cardinality(Group(S, a)) = Cardinality(Group(S, b))
     /\ Oldest(Group(S, a)) < Oldest(Group(S, b))
InBiggestGroup(j, S) ==
  \A b \in {AliasOf[k] : k \in S} \ {AliasOf[j]} : Bigger(S, AliasOf[j], b)

(***************************************************************************)
(* pick_job among the due jobs, of which the ones in starving have waited  *)
(* past the reordering bound: whether it is job j that it picks.           *)
(***************************************************************************)
pick_job(j, starving) ==
  LET top      == IF Due \subseteq BatchJobs THEN Due ELSE Due \ BatchJobs
      is(class) == {k \in top : Locality[AliasOf[k]] = class}
  IN
  IF is("off") # {} THEN IsFirst(j, top)
  ELSE IF top \cap starving # {} THEN IsFirst(j, top \cap starving)
  ELSE IF is("warm") # {} THEN IsFirst(j, is("warm"))
  ELSE IF is("activating") # {} THEN IsFirst(j, is("activating"))
  ELSE InBiggestGroup(j, top) /\ IsFirst(j, Group(top, AliasOf[j]))

\* The first dead entry is removed, and what it held goes with the worker.
TakeDead(w) ==
  /\ worker[w].at = "take"
  /\ \E j \in Dead :
       /\ \A k \in Dead : Place(j) <= Place(k)
       /\ queue' = Without(j)
       /\ entry' = Unblocked([entry EXCEPT ![j] = NoEntry])
       /\ worker' = Moved([worker EXCEPT ![w] =
                      [Idle EXCEPT !.at = "discard", !.job = j, !.parked = entry[j].parked]])
  /\ UNCHANGED <<store, asking, holding, times, demand, lost>>

\* The oldest jobs, up to some age, have waited past the reordering bound.
TakeDue(w) ==
  /\ worker[w].at = "take" /\ Dead = {}
  /\ \E age \in 0 .. Len(queue), j \in Due :
       /\ pick_job(j, {queue[i] : i \in 1 .. age})
       /\ entry' = [entry EXCEPT ![j].trying = TRUE]
       /\ Set(w, [Idle EXCEPT !.at = "pass", !.job = j, !.fresh = TRUE, !.counted = entry[j].parked])
  /\ UNCHANGED <<store, asking, holding, queue, times, demand, lost>>

Quit(w) ==
  /\ worker[w].at = "take" /\ Dead = {} /\ Due = {} /\ Stopping
  /\ Go(w, "gone")
  /\ UNCHANGED <<store, asking, holding, line, times, demand, lost>>

(***************************************************************************)
(* Nothing to do while something waits: the worker sleeps, a tick at most, *)
(* and blocked work may be tried again when it wakes.  A worker that       *)
(* sleeps for a backoff, or on an empty queue, changes nothing and is at   *)
(* "take" all the while.                                                   *)
(***************************************************************************)
Waiting == {j \in Jobs : Queued(j) /\ ~entry[j].trying}
Nap(w) ==
  /\ worker[w].at = "take" /\ Dead = {} /\ Due = {} /\ ~Stopping /\ Waiting # {}
  /\ (\E j \in Waiting : entry[j].backing) => \E j \in Waiting : entry[j].blocked
  /\ Go(w, "tick")
  /\ UNCHANGED <<store, asking, holding, line, times, demand, lost>>

Tick(w) ==
  /\ worker[w].at = "tick"
  /\ entry' = Unblocked(entry)
  /\ worker' = Moved([worker EXCEPT ![w].at = "take"])
  /\ UNCHANGED <<store, asking, holding, queue, times, demand, lost>>

\* finish and finish_parts, which look for the record and not at its state.
Record(j, state) == table' = [table EXCEPT ![j] = IF @ = "absent" THEN @ ELSE state]

\* worker_loop's Discard: the demand goes back; only an expired job is finished.
Discard(w) ==
  LET j == worker[w].job IN
  /\ worker[w].at = "discard"
  /\ demand' = demand - One(worker[w].parked)
  /\ Set(w, IF j \in cancelled THEN Idle ELSE [worker[w] EXCEPT !.at = "write", !.parked = FALSE,
                                                  !.result = "failed"])
  /\ UNCHANGED <<store, asking, holding, line, times, lost>>

-----------------------------------------------------------------------------
(* run_pass *)

\* JobSink::admitted: every reservation is held, for one candidate or another.
Started(w) ==
  LET j == worker[w].job IN
  /\ worker[w].at = "pass" /\ ~worker[w].admitted
  /\ Set(w, [worker[w] EXCEPT !.admitted = TRUE])
  /\ entry' = [entry EXCEPT ![j].started = Queued(j)]
  /\ table' = [table EXCEPT ![j] = IF @ = "queued" /\ j \notin cancelled THEN "running" ELSE @]
  /\ UNCHANGED <<spooled, used, asking, holding, queue, times, demand, lost>>

Ended(w, result, bytes) ==
  Set(w, [worker[w] EXCEPT !.at = "ended", !.result = result, !.admitted = FALSE, !.bytes = bytes])

\* The pass finds the job waiting, fails, or (a chat job) answers it.
PassEnds(w) ==
  /\ worker[w].at = "pass"
  /\ \E result \in Waits \cup {"failed", "succeeded"} :
       /\ result = "recovery" => worker[w].job \in scene.outage
       /\ result = "succeeded" => worker[w].admitted /\ worker[w].job \notin ArtifactJobs
       /\ Ended(w, result, 0)
  /\ UNCHANGED <<store, asking, holding, line, times, demand, lost>>

\* fetch_parts: room for all the parts at once, before the first is fetched.
Reserve(w) ==
  LET j == worker[w].job IN
  /\ worker[w].at = "pass" /\ worker[w].admitted /\ j \in ArtifactJobs
  /\ IF j \in cancelled THEN Ended(w, "failed", 0) /\ UNCHANGED used
     ELSE IF used >= SpoolRoom THEN Ended(w, "backoff", 0) /\ UNCHANGED used
     ELSE used' = used + 1 /\ Set(w, [worker[w] EXCEPT !.at = "fetch", !.bytes = 1])
  /\ UNCHANGED <<table, spooled, asking, holding, line, times, demand, lost>>

\* A mutant: a part that failed leaves the reservation.
Fetch_Keeps(w) ==
  /\ worker[w].at = "fetch"
  /\ \E result \in {"succeeded", "failed"} :
       Ended(w, result, One(result = "succeeded"))
  /\ UNCHANGED <<store, asking, holding, line, times, demand, lost>>

\* All the parts, or none and the room given back.
Fetch(w) ==
  /\ worker[w].at = "fetch"
  /\ \/ Ended(w, "succeeded", 1) /\ UNCHANGED used
     \/ Ended(w, "failed", 0) /\ used' = used - 1
  /\ UNCHANGED <<table, spooled, asking, holding, line, times, demand, lost>>

(***************************************************************************)
(* The pass is over.  A job found waiting is put back unless it was        *)
(* cancelled, ran out of patience, out of attempts or out of its outage    *)
(* window; a model still to be started is demand from here on.             *)
(***************************************************************************)
Decide(w) ==
  \E over \in BOOLEAN :
    LET j     == worker[w].job
        why   == worker[w].result
        waits == /\ why \in Waits \cup {"backoff"} /\ j \notin cancelled /\ j \notin expired
                 /\ why = "recovery" => Queued(j) /\ ~over
                 /\ why = "backoff" => entry[j].attempts + 1 < MaxAttempts
        parks == waits /\ why = "activation" /\ ~worker[w].counted /\ demand < MaxParked
    IN
    /\ worker[w].at = "ended"
    /\ over => entry[j].recovery /\ why = "recovery"
    /\ entry' = [entry EXCEPT ![j].recovery = @ \/ (why = "recovery" /\ Queued(j))]
    /\ demand' = demand + One(parks)
    /\ Set(w, IF waits THEN [worker[w] EXCEPT !.at = "put_back", !.counted = FALSE, !.parked = parks]
              ELSE [worker[w] EXCEPT !.at = "leave", !.counted = FALSE,
                      !.result = IF @ = "succeeded" THEN @ ELSE "failed"])
    /\ UNCHANGED <<store, asking, holding, queue, times, lost>>

\* Back in its place; or, cancelled or stopping, let go of and then left.
put_back(w) ==
  LET j == worker[w].job
      e == [entry[j] EXCEPT !.trying = FALSE, !.parked = @ \/ worker[w].parked]
      s == worker[w].result
  IN
  /\ worker[w].at = "put_back"
  /\ IF ~Queued(j) THEN Go(w, "judge") /\ UNCHANGED entry
     ELSE IF Stopping \/ j \in cancelled
     THEN /\ entry' = [entry EXCEPT ![j] = e]
          /\ Set(w, [worker[w] EXCEPT !.at = "leave", !.parked = FALSE, !.result = "failed"])
     ELSE /\ entry' = [entry EXCEPT ![j] =
               [e EXCEPT !.started = FALSE,
                  !.recovery = @ /\ s = "recovery",
                  !.blocked = s \in {"slot", "activation"} /\ worker[w].fresh,
                  !.backing = s \in {"recovery", "backoff"},
                  !.attempts = @ + One(s = "backoff")]]
          /\ Set(w, [worker[w] EXCEPT !.at = "show", !.parked = FALSE])
  /\ UNCHANGED <<store, asking, holding, queue, times, demand, lost>>

\* put_back, having let go of the queue: the owner sees it queued again.
Show(w) ==
  LET j == worker[w].job IN
  /\ worker[w].at = "show"
  /\ table' = [table EXCEPT ![j] = IF @ \in Terminal \cup {"absent"} THEN @ ELSE "queued"]
  /\ Set(w, Idle)
  /\ UNCHANGED <<spooled, used, asking, holding, line, times, demand, lost>>

\* leave: out of the queue, if another worker has not discarded it meanwhile.
leave(w) ==
  LET j == worker[w].job IN
  /\ worker[w].at = "leave"
  /\ queue' = Without(j)
  /\ entry' = Unblocked([entry EXCEPT ![j] = NoEntry])
  /\ worker' = Moved([worker EXCEPT ![w] = [worker[w] EXCEPT !.at = "judge", !.parked = entry[j].parked]])
  /\ UNCHANGED <<store, asking, holding, times, demand, lost>>

(***************************************************************************)
(* The demand goes back, and the flag is read once more: a cancelled run   *)
(* keeps nothing of its output, not even the room its parts have taken.    *)
(* An answer that cannot be rendered, or is too large, fails.              *)
(***************************************************************************)
Judge(w) ==
  LET j    == worker[w].job
      done == worker[w].result = "succeeded" IN
  /\ worker[w].at = "judge"
  /\ demand' = demand - One(worker[w].parked)
  /\ IF j \in cancelled
     THEN /\ Set(w, [worker[w] EXCEPT !.at = "write", !.parked = FALSE,
                       !.result = "cancelled", !.bytes = 0])
          /\ lost' = lost + worker[w].bytes
     ELSE /\ \E result \in {"succeeded", "failed"} :
               /\ result = "succeeded" => done
               /\ result = "failed" => ~done \/ j \notin ArtifactJobs
               /\ Set(w, [worker[w] EXCEPT !.at = "write", !.parked = FALSE, !.result = result])
          /\ UNCHANGED lost
  /\ UNCHANGED <<store, asking, holding, line, times>>

\* finish, or finish_parts: parts whose record is gone are removed.
Write(w) ==
  LET j == worker[w].job IN
  /\ worker[w].at = "write"
  /\ Record(j, worker[w].result)
  /\ IF table[j] = "absent"
     THEN used' = used - worker[w].bytes /\ UNCHANGED spooled
     ELSE /\ spooled' = [spooled EXCEPT ![j] = IF worker[w].bytes > 0 THEN worker[w].bytes ELSE @]
          /\ UNCHANGED used
  /\ Set(w, Idle)
  /\ UNCHANGED <<asking, holding, line, times, demand, lost>>

-----------------------------------------------------------------------------

Submit(j) == Ask(j) \/ Insert(j) \/ Enqueue(j) \/ Refused(j)

Clock(j) == PatienceOver(j) \/ BackoffOver(j)

Work(w) ==
  \/ TakeDead(w) \/ TakeDue(w) \/ Quit(w) \/ Nap(w) \/ Tick(w) \/ Discard(w)
  \/ PassEnds(w) \/ Reserve(w) \/ Fetch(w) \/ Decide(w) \/ put_back(w)
  \/ Show(w) \/ leave(w) \/ Judge(w) \/ Write(w)

Next ==
  \/ \E j \in Jobs : Submit(j) \/ Cancel(j) \/ Clock(j)
  \/ \E w \in Workers : Started(w) \/ Work(w)
  \/ Read \/ Stop \/ FlagQueue

Spec == Init /\ [][Next]_vars

\* Workers run, passes end, and patience runs out in the end.
FairSpec ==
  /\ Spec
  /\ \A w \in Workers : WF_vars(Work(w))
  /\ \A j \in Jobs : WF_vars(PatienceOver(j))

-----------------------------------------------------------------------------
(* Properties *)

At(j, points) == {w \in Workers : worker[w].job = j /\ worker[w].at \in points}
InPass(j) == At(j, {"pass", "fetch", "ended", "put_back"})

(***************************************************************************)
(* Entry::parked is released exactly once: what the fleet counts as parked *)
(* demand is held by a submission under way, an entry of the queue or a    *)
(* worker about to give it back, through refusals, discards, retries and   *)
(* a discard that overtakes put_back.                                      *)
(***************************************************************************)
DemandExact ==
  demand = Cardinality(holding) + Cardinality({j \in Jobs : Queued(j) /\ entry[j].parked})
           + Cardinality({w \in Workers : worker[w].parked})

(***************************************************************************)
(* Spool::used is what the records in the table and the runs under way     *)
(* have reserved, and what runs cancelled after their parts were spooled   *)
(* have left behind; it never passes the spool's bound.                    *)
(***************************************************************************)
SpoolExact ==
  /\ used = Cardinality({j \in Jobs : spooled[j] = 1})
            + Cardinality({w \in Workers : worker[w].bytes = 1}) + lost
  /\ used <= SpoolRoom
  /\ \A j \in Jobs : spooled[j] = 1 => table[j] # "absent"

(***************************************************************************)
(* take and put_back: an entry marked as being tried is in the hands of a  *)
(* worker, or nobody would ever try it again; and until the store stops no *)
(* two workers run the same job, nor one that has left the queue.          *)
(***************************************************************************)
TryingIsHeld ==
  \A j \in Jobs :
    /\ Queued(j) /\ entry[j].trying => InPass(j) \cup At(j, {"leave"}) # {}
    /\ InPass(j) # {} /\ ~Stopping => Queued(j) /\ Cardinality(InPass(j)) = 1

(***************************************************************************)
(* The queue and the spool are what they say: demand, entries and reserved *)
(* bytes agree with what the jobs and the workers are doing.               *)
(***************************************************************************)
QueueExact == DemandExact /\ TryingIsHeld /\ SpoolExact

(***************************************************************************)
(* finish: until the store stops, a result its owner may have read stays   *)
(* until its retention window closes.                                      *)
(***************************************************************************)
ResultKept ==
  [][\A j \in Jobs : table[j] \in {"succeeded", "failed"} /\ ~Stopping =>
       table'[j] \in {table[j], "absent"}]_vars

(***************************************************************************)
(* take: every job that was queued leaves the queue again, run, failed,    *)
(* cancelled or out of patience, unless the store stops.                   *)
(***************************************************************************)
JobSettles == \A j \in Jobs : Queued(j) /\ j \in scene.patience ~> (~Queued(j) \/ Stopping)

(***************************************************************************)
(* submit: leaving a job that is not queued visible as queued would be a   *)
(* lie that consumes the tenant's cap.  While the store runs, a job its    *)
(* owner sees as queued or running is in the queue, or a thread is about   *)
(* to queue or to finish it.                                               *)
(***************************************************************************)
VisibleIsReal ==
  \A j \in Jobs : table[j] \in {"queued", "running"} /\ ~Stopping =>
    \/ Queued(j) \/ asking[j] = "enqueue"
    \/ At(j, {"discard", "leave", "judge", "write"}) # {}
=============================================================================
