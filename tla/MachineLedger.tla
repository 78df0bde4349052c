--------------------------- MODULE MachineLedger ----------------------------
(***************************************************************************)
(* The ledger one machine shares among its targets                         *)
(* (crates/hypellm-core/src/machine.rs, MachineLedger).                    *)
(*                                                                         *)
(* Requests wait on the ledger itself (hold_waiting); jobs are refused and *)
(* come back on a later pass of the job queue, holding their place with a  *)
(* leased claim.  Every operation is one critical section of the ledger's  *)
(* mutex, and the notify_all that follows it is part of the step: a waiter *)
(* in between has not gone to sleep without seeing the change.             *)
(*                                                                         *)
(* Time advances in ticks of a quarter of a lease; a claim carries the     *)
(* ticks left of its lease, lapses at none, and is removed by the next     *)
(* operation that looks.  Claim::seq is kept as the order it puts claims   *)
(* in, <<v, w>> \in ahead for v's claim having come before w's, and        *)
(* w \in stale stands for the changes counter differing from what w read.  *)
(***************************************************************************)
EXTENDS Integers, FiniteSets

CONSTANTS
  Synchronous, Jobs, \* the work, each asking again and again
  bytes,           \* what each needs
  Class,           \* the class each waits in, smaller is served first
  Targets, TargetOf,  \* the target each runs on
  Capacities,      \* the capacities the machine may be given
  MAX_CLAIMS,      \* the most claims the machine keeps
  Ticking,         \* whether time passes
  Watched,         \* whether the management API looks at the ledger
  Impatient        \* the requests whose budget may run out

Work == Synchronous \cup Jobs

ASSUME WorkAssumption ==
  /\ Synchronous \cap Jobs = {} /\ Impatient \subseteq Synchronous
  /\ bytes \in [Work -> Nat] /\ Class \in [Work -> Nat] /\ TargetOf \in [Work -> Targets]
ASSUME MachineAssumption ==
  /\ Capacities \subseteq Nat /\ Capacities # {} /\ MAX_CLAIMS \in Nat
  /\ Ticking \in BOOLEAN /\ Watched \in BOOLEAN

\* A claim lasts four ticks, a waiting request renews its own after two.
CLAIM_TTL == 4
RENEW_EVERY == 2

VARIABLES
  capacity_bytes, held_bytes,
  holders,  \* per target, how many holds and how many bytes
  claims,   \* the work that has a claim
  left,     \* per claim, the ticks left of its lease
  ahead,    \* the order in which the claims arrived
  open,     \* holds acquired less holds released
  phase,    \* where each piece of work is
  stale,    \* the requests that a change came by since they read the counter
  nap       \* per sleeping request, the ticks it sleeps on

ledger == <<capacity_bytes, held_bytes, holders, open>>
queued == <<claims, left, ahead>>
ledgerVars == <<ledger, queued, phase, stale, nap>>

LedgerInit ==
  /\ capacity_bytes \in Capacities /\ held_bytes = 0
  /\ holders = [t \in Targets |-> [n |-> 0, bytes |-> 0]]
  /\ claims = {} /\ left = [w \in Work |-> 0] /\ ahead = {}
  /\ open = 0
  /\ phase = [w \in Work |-> "idle"]
  /\ stale = {}
  /\ nap = [w \in Synchronous |-> 0]

\* The claims that are left once what has lapsed is expired.
Live == {w \in claims : left[w] > 0}

Retain(cs) ==
  /\ claims' = cs /\ ahead' = ahead \cap (cs \X cs)
  /\ left' = [w \in Work |-> IF w \in cs THEN left[w] ELSE 0]

\* Another claim, one that can fit at all, comes first by class and arrival.
outranked(w, cs) ==
  \E v \in cs \ {w} :
    /\ bytes[v] <= capacity_bytes
    /\ \/ Class[v] < Class[w]
       \/ Class[v] = Class[w] /\ (w \in cs => <<v, w>> \in ahead)

Fits(w) == held_bytes + bytes[w] <= capacity_bytes

Grantable(w, cs) == bytes[w] = 0 \/ (Fits(w) /\ ~outranked(w, cs))

Asleep == {w \in Synchronous : phase[w] = "asleep"}

\* What the step changed (the changes counter), whom it wakes (notify_all).
Changed(yes) == stale' = IF yes THEN Synchronous ELSE stale
Awakened(yes, w, point) ==
  phase' = [v \in Work |-> IF v = w THEN point
                        ELSE IF yes /\ v \in Asleep THEN "read" ELSE phase[v]]

-----------------------------------------------------------------------------
(* The ledger's operations, by work w that goes on at the given points *)

try_hold(w, granted, refused) ==
  LET expired == Live # claims
      used    == w \in Live
      t       == TargetOf[w]
  IN
  IF Grantable(w, Live)
  THEN /\ held_bytes' = held_bytes + bytes[w]
       /\ holders' = IF bytes[w] = 0 THEN holders
                     ELSE [holders EXCEPT ![t] = [n |-> @.n + 1, bytes |-> @.bytes + bytes[w]]]
       /\ open' = open + 1
       /\ Retain(Live \ {w})
       /\ Changed(expired \/ used) /\ Awakened(expired \/ used, w, granted)
       /\ UNCHANGED <<capacity_bytes, nap>>
  ELSE /\ Retain(Live)
       /\ Changed(expired) /\ Awakened(expired, w, refused)
       /\ UNCHANGED <<ledger, nap>>

\* The claim renewed in its place, or made at the back.
Recorded(w) ==
  /\ claims' = Live \cup {w} /\ left' = [left EXCEPT ![w] = CLAIM_TTL]
  /\ ahead' = (ahead \cap (Live \X Live)) \cup (IF w \in Live THEN {} ELSE Live \X {w})

ClaimRoom(w) == w \in Live \/ Cardinality(Live) < MAX_CLAIMS

\* claim expires what has lapsed, which counts as a change but wakes nobody.
claim(w) ==
  /\ IF ClaimRoom(w) THEN Recorded(w) ELSE Retain(Live)
  /\ Changed(Live # claims)

drop_claim(w, point) ==
  /\ Retain(claims \ {w})
  /\ Changed(w \in claims) /\ Awakened(w \in claims, w, point)

\* A mutant: only the target's own entry is lowered.
give_back_TargetOnly(w) ==
  LET t == TargetOf[w] IN
  /\ phase[w] = "holding"
  /\ holders' = IF bytes[w] = 0 THEN holders
                ELSE [holders EXCEPT ![t] = [n |-> @.n - 1, bytes |-> @.bytes - bytes[w]]]
  /\ open' = open - 1
  /\ Changed(TRUE) /\ Awakened(TRUE, w, "idle")
  /\ UNCHANGED <<capacity_bytes, held_bytes, queued, nap>>

\* The hold ends, released or dropped.
give_back(w) ==
  LET t == TargetOf[w] IN
  /\ phase[w] = "holding"
  /\ held_bytes' = held_bytes - bytes[w]
  /\ holders' = IF bytes[w] = 0 THEN holders
                ELSE [holders EXCEPT ![t] = [n |-> @.n - 1, bytes |-> @.bytes - bytes[w]]]
  /\ open' = open - 1
  /\ Changed(TRUE) /\ Awakened(TRUE, w, "idle")
  /\ UNCHANGED <<capacity_bytes, queued, nap>>

reconfigure(c) ==
  /\ c # capacity_bytes
  /\ capacity_bytes' = c
  /\ Changed(TRUE)
  /\ phase' = [v \in Work |-> IF v \in Asleep THEN "read" ELSE phase[v]]
  /\ UNCHANGED <<held_bytes, holders, open, queued, nap>>

\* The management API's look removes what has lapsed, and wakes nobody.
view ==
  /\ Watched
  /\ Live # claims /\ Retain(Live)
  /\ Changed(TRUE)
  /\ UNCHANGED <<ledger, phase, nap>>

-----------------------------------------------------------------------------
(* hold_waiting: a request that keeps its connection open *)

Ask(w) ==
  /\ phase[w] = "idle"
  /\ phase' = [phase EXCEPT ![w] = "read"]
  /\ UNCHANGED <<ledger, queued, stale, nap>>

ReadChanges(w) ==
  /\ phase[w] = "read"
  /\ stale' = stale \ {w}
  /\ phase' = [phase EXCEPT ![w] = "try"]
  /\ UNCHANGED <<ledger, queued, nap>>

TryWaiting(w) == phase[w] = "try" /\ try_hold(w, "holding", "refused")

ClaimWaiting(w) ==
  /\ phase[w] = "refused"
  /\ claim(w)
  /\ phase' = [phase EXCEPT ![w] = IF ClaimRoom(w) THEN "doze" ELSE "giveUp"]
  /\ UNCHANGED <<ledger, nap>>

\* The budget ran out, or there was no room for a claim.
BudgetRunsOut(w) ==
  /\ phase[w] = "refused" /\ w \in Impatient
  /\ phase' = [phase EXCEPT ![w] = "giveUp"]
  /\ UNCHANGED <<ledger, queued, stale, nap>>

GiveUp(w) ==
  /\ phase[w] = "giveUp"
  /\ drop_claim(w, "idle")
  /\ UNCHANGED <<ledger, nap>>

\* Under the mutex: a change since the read is looked at, not slept through.
Doze(w) ==
  /\ phase[w] = "doze"
  /\ IF w \in stale
     THEN phase' = [phase EXCEPT ![w] = "read"] /\ UNCHANGED nap
     ELSE phase' = [phase EXCEPT ![w] = "asleep"] /\ nap' = [nap EXCEPT ![w] = RENEW_EVERY]
  /\ UNCHANGED <<ledger, queued, stale>>

\* The slice is over: look again, and renew the claim.
NapEnds(w) ==
  /\ phase[w] = "asleep" /\ nap[w] = 0
  /\ phase' = [phase EXCEPT ![w] = "read"]
  /\ UNCHANGED <<ledger, queued, stale, nap>>

-----------------------------------------------------------------------------
(* a job, refused for memory, claims and comes back (reserve_queued_as) *)

Pass(j) ==
  /\ phase[j] \in {"idle", "waiting"}
  /\ try_hold(j, "holding", "refused")

ClaimJob(j) ==
  /\ phase[j] = "refused"
  /\ claim(j)
  /\ phase' = [phase EXCEPT ![j] = "waiting"]
  /\ UNCHANGED <<ledger, nap>>

\* A pass that ended otherwise (drop_machine_claims).
CancelJob(j) ==
  /\ phase[j] = "waiting"
  /\ drop_claim(j, "idle")
  /\ UNCHANGED <<ledger, nap>>

\* A job that just stops coming back.
ForgetJob(j) ==
  /\ phase[j] = "waiting"
  /\ phase' = [phase EXCEPT ![j] = "idle"]
  /\ UNCHANGED <<ledger, queued, stale, nap>>

-----------------------------------------------------------------------------

(***************************************************************************)
(* A tick is a quarter lease, long against any thread's step: no slice is  *)
(* overslept, and neither a request that is awake nor a job that waits     *)
(* lets the last tick of its lease go by.                                  *)
(***************************************************************************)
Prompt ==
  /\ \A w \in Synchronous : phase[w] # "doze" /\ (phase[w] = "asleep" => nap[w] > 0)
  /\ \A w \in Work :
       phase[w] \notin {"idle", "asleep"} /\ w \in claims => left[w] > 1

LeaseTick ==
  /\ Ticking /\ Prompt
  /\ left' = [w \in Work |-> IF left[w] = 0 THEN 0 ELSE left[w] - 1]
  /\ nap' = [w \in Synchronous |-> IF phase[w] = "asleep" THEN nap[w] - 1 ELSE nap[w]]
  /\ UNCHANGED <<ledger, claims, ahead, phase, stale>>

RequestStep(w) ==
  ReadChanges(w) \/ TryWaiting(w) \/ ClaimWaiting(w) \/ Doze(w) \/ NapEnds(w) \/ GiveUp(w)

JobStep(j) == (phase[j] = "waiting" /\ Pass(j)) \/ ClaimJob(j)

LedgerNext ==
  \/ \E w \in Synchronous : Ask(w) \/ RequestStep(w) \/ BudgetRunsOut(w)
  \/ \E j \in Jobs : Pass(j) \/ ClaimJob(j) \/ CancelJob(j) \/ ForgetJob(j)
  \/ \E w \in Work : give_back(w)
  \/ \E c \in Capacities : reconfigure(c)
  \/ view \/ LeaseTick

LedgerSpec == LedgerInit /\ [][LedgerNext]_ledgerVars

-----------------------------------------------------------------------------
(* Properties *)

Holding(t) == {w \in Work : phase[w] = "holding" /\ TargetOf[w] = t}
Units(ws) == UNION {{w} \X (1 .. bytes[w]) : w \in ws}
BytesOf(ws) == Cardinality(Units(ws))

(***************************************************************************)
(* MachineHold: what the ledger says is held, in all and per target, is    *)
(* what the running work needs; nothing is returned twice or forgotten.    *)
(***************************************************************************)
MemoryAccounted ==
  /\ held_bytes = BytesOf({w \in Work : phase[w] = "holding"})
  /\ open = Cardinality({w \in Work : phase[w] = "holding"})
  /\ \A t \in Targets :
       /\ holders[t].bytes = BytesOf(Holding(t))
       /\ holders[t].n = Cardinality({w \in Holding(t) : bytes[w] > 0})

(***************************************************************************)
(* changes and freed: no request sleeps on while its memory is free and    *)
(* nobody comes before it, unless the last that came before it was a       *)
(* lapsed claim which view or claim removed: those count the change, and   *)
(* leave the sleeper to the end of its slice.                              *)
(***************************************************************************)
NoSleepingOnFreeMemory ==
  \A w \in Asleep : w \notin stale => ~Grantable(w, claims)

(***************************************************************************)
(* The ledger is exact, and what it has to give is not slept on.           *)
(***************************************************************************)
MemorySound == MemoryAccounted /\ NoSleepingOnFreeMemory

=============================================================================
