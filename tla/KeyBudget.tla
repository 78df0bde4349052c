----------------------------- MODULE KeyBudget -----------------------------
(***************************************************************************)
(* The token budget of one API key (crates/hypellm-core/src/budget.rs),    *)
(* the journal it is kept in and the two management calls that edit it     *)
(* (crates/hypellm-admin-api/src/handlers.rs).                             *)
(*                                                                         *)
(* The ledger's mutex makes each operation on an entry one step; the       *)
(* management calls look first and apply later, so other steps fall in     *)
(* between.  A commit succeeds or fails without leaving a record behind    *)
(* (Store, FailedStaysGone).  A process that dies inside a commit is one   *)
(* that dies right after it.  Refusals change nothing and are not steps.   *)
(* The payment instructions, edited together with the limit, are left out. *)
(***************************************************************************)
EXTENDS Naturals, FiniteSets, FiniteSetsExt

CONSTANTS
  Spenders,     \* the attempts that may be in flight at once
  Estimates,    \* tokens an attempt may reserve
  Usages,       \* tokens a provider may report for one attempt
  Allowances,   \* limits an operator may set
  Unlimited,    \* the limit of a key that has none
  Operators,    \* callers of PUT budget
  Deliveries,   \* callers of POST budget:credit
  Payments,     \* the idempotency keys they carry
  CreditTokens, \* tokens one payment may add
  MAX_TOKENS,   \* the largest quantity the ledger represents
  draw_tokens,  \* headroom drawn when the mark is raised
  None,         \* an attempt that holds nothing, a call without a tag
  MaxReserves,  \* bound: reservations granted
  MaxRevision,  \* bound: edits of the budget
  MaxRestarts   \* bound: restarts

Quantities == 0 .. MAX_TOKENS

Callers == Operators \cup Deliveries

ASSUME BudgetAssumption ==
  /\ MAX_TOKENS \in Nat /\ draw_tokens \in Quantities
  /\ Estimates \subseteq Nat /\ Usages \subseteq Nat
  /\ Allowances \subseteq Quantities \cup {Unlimited}
  /\ CreditTokens \subseteq Quantities \ {0}
  /\ Unlimited \notin Nat /\ None \notin Nat
  /\ Operators \cap Deliveries = {}
  /\ None \notin Payments
  /\ IsFiniteSet(Spenders)

VARIABLES
  entry,      \* the ledger's entry for the key
  disk,       \* the entry that replaying the log into a new ledger gives
  holds,      \* the tokens each attempt's BudgetReservation holds, or None
  call,       \* each management call: what its caller saw and was told
  charged,    \* history: tokens settled, retained or in flight at a crash
  overruns,   \* history: tokens charged above their reservations
  forgotten,  \* history: overruns no journal took, lost at a restart
  peak,       \* history: the highest limit a reservation was granted under
  applied,    \* history: how often each payment raised the limit
  reserves,   \* reservations granted so far
  restarts    \* restarts so far

history == <<charged, overruns, forgotten, peak, applied>>

budgetVars == <<entry, disk, holds, call, history, reserves, restarts>>

NewEntry ==
  [limit |-> Unlimited, drawn |-> 0, revision |-> 0, consumed |-> 0, reserved |-> 0,
   undurable |-> FALSE, receipts |-> [p \in Payments |-> None]]

NoCall == [at |-> "idle", seen |-> None, expected |-> None,
           payment |-> None, tokens |-> 0]

BudgetInit ==
  /\ entry = NewEntry
  /\ disk = NewEntry
  /\ holds = [r \in Spenders |-> None]
  /\ call = [c \in Callers |-> NoCall]
  /\ charged = 0 /\ overruns = 0 /\ forgotten = 0 /\ peak = 0
  /\ applied = [p \in Payments |-> 0]
  /\ reserves = 0 /\ restarts = 0

-----------------------------------------------------------------------------
(* Entries and their durable records *)

Capped(n) == IF n > MAX_TOKENS THEN MAX_TOKENS ELSE n

Monus(m, n) == IF m > n THEN m - n ELSE 0

Larger(m, n) == IF m > n THEN m ELSE n

Smaller(m, n) == IF m < n THEN m ELSE n

held_tokens(e) == Capped(e.consumed + e.reserved)

\* Mutant: a restart resumes at what had been settled.
restore_Settled(record) ==
  [record EXCEPT !.reserved = 0, !.undurable = FALSE]

(***************************************************************************)
(* Replaying a record replaces the entry, keeps every receipt so far and   *)
(* takes what was drawn to be consumed.  A record is written here as the   *)
(* entry it describes; of its fields the log carries the limit, the mark,  *)
(* the revision and one receipt, the older ones being in older records.    *)
(***************************************************************************)
restore(record) ==
  [record EXCEPT !.consumed = record.drawn, !.reserved = 0, !.undurable = FALSE]

headroom(e, needed) ==
  IF e.limit = Unlimited THEN draw_tokens
  ELSE Smaller(draw_tokens, Monus(e.limit, needed) \div 8)

\* The mark a reservation that does not fit under the old one is drawn to.
Mark(e, needed) == Larger(Capped(needed + headroom(e, needed)), e.drawn)

\* Mutant: only the consumption is covered by the mark of an edit.
Exact_Settled(e) == [e EXCEPT !.drawn = e.consumed, !.undurable = FALSE]

\* The entry with the exact mark, as every edit and flush commits it.
Exact(e) == [e EXCEPT !.drawn = held_tokens(e), !.undurable = FALSE]

commit(record) == disk' = restore(record)

-----------------------------------------------------------------------------
(* Reservations *)

\* Mutant: the tokens other attempts hold are not counted.
Funded_Alone(tokens) ==
  /\ held_tokens(entry) + tokens <= MAX_TOKENS
  /\ entry.limit # Unlimited =>
       entry.consumed < entry.limit /\ entry.consumed + tokens <= entry.limit

Funded(tokens) ==
  /\ held_tokens(entry) + tokens <= MAX_TOKENS
  /\ entry.limit # Unlimited =>
       held_tokens(entry) < entry.limit /\ held_tokens(entry) + tokens <= entry.limit

(***************************************************************************)
(* A reservation above the durable mark raises it first; when that commit  *)
(* fails the attempt is refused and nothing changes.                       *)
(***************************************************************************)
Reserve(r, tokens) ==
  /\ holds[r] = None /\ reserves < MaxReserves /\ Funded(tokens)
  /\ LET needed == held_tokens(entry) + tokens
         raise  == needed > entry.drawn \/ entry.undurable
         drawn  == IF raise
                   THEN [entry EXCEPT !.drawn = Mark(entry, needed), !.undurable = FALSE]
                   ELSE entry
     IN  /\ entry' = [drawn EXCEPT !.reserved = @ + tokens]
         /\ IF raise THEN commit(drawn) ELSE UNCHANGED disk
  /\ holds' = [holds EXCEPT ![r] = tokens]
  /\ peak' = Larger(peak, IF entry.limit = Unlimited THEN MAX_TOKENS ELSE entry.limit)
  /\ reserves' = reserves + 1
  /\ UNCHANGED <<call, charged, overruns, forgotten, applied, restarts>>

Finished(e, tokens, used) ==
  [e EXCEPT !.reserved = Monus(@, tokens), !.consumed = Capped(@ + used)]

(***************************************************************************)
(* The end of an attempt: released (0), retained or dropped (what it       *)
(* held), or settled against the usage its provider reported.  Usage above *)
(* the mark raises it; when that commit fails the entry is marked instead. *)
(***************************************************************************)
EndAttempt(r, used) ==
  /\ holds[r] # None
  /\ used \in {0, holds[r]} \cup Usages
  /\ LET done == Finished(entry, holds[r], used)
         mark == [done EXCEPT !.drawn = held_tokens(done)]
     IN  \/ /\ held_tokens(done) <= entry.drawn
            /\ entry' = done
            /\ UNCHANGED disk
         \/ /\ held_tokens(done) > entry.drawn
            /\ \/ entry' = [mark EXCEPT !.undurable = FALSE] /\ commit(mark)
               \/ entry' = [mark EXCEPT !.undurable = TRUE] /\ UNCHANGED disk
  /\ holds' = [holds EXCEPT ![r] = None]
  /\ charged' = charged + used
  /\ overruns' = overruns + Monus(used, holds[r])
  /\ UNCHANGED <<call, forgotten, peak, applied, reserves, restarts>>

-----------------------------------------------------------------------------
(* The management calls *)

\* The editable state an ETag stands for.
Tag(e) == <<e.revision, e.limit>>

\* A caller reads the budget and sends its ETag as If-Match, or sends "*"
\* (None); a delivery carries the idempotency key of its payment and the
\* tokens it is for.
Send(c) ==
  /\ call[c].at = "idle"
  /\ \E tag \in {Tag(entry), None} :
       LET sent == [NoCall EXCEPT !.at = "sent", !.seen = tag]
       IN  \/ /\ c \in Operators
              /\ call' = [call EXCEPT ![c] = sent]
           \/ /\ c \in Deliveries
              /\ \E p \in Payments, tokens \in CreditTokens :
                   call' = [call EXCEPT ![c] = [sent EXCEPT !.payment = p, !.tokens = tokens]]
  /\ UNCHANGED <<entry, disk, holds, history, reserves, restarts>>

\* A payment whose key has a receipt is answered from it, whatever its tag.
Answered(c) == c \in Deliveries /\ entry.receipts[call[c].payment] # None

(***************************************************************************)
(* The handler looks at the budget: a replay or a conflict is answered at  *)
(* once; otherwise the tag must be current, or "*", and the revision seen  *)
(* here goes with the edit.  A credit to an unlimited key is refused, and  *)
(* so is a call that cannot be audited.                                    *)
(***************************************************************************)
Precheck(c) ==
  /\ call[c].at = "sent"
  /\ \/ /\ ~Answered(c)
        /\ c \in Deliveries => entry.limit # Unlimited
        /\ call[c].seen \in {None, Tag(entry)}
        /\ call' = [call EXCEPT ![c] = [call[c] EXCEPT !.at = "checked",
             !.expected = IF call[c].seen = None THEN None ELSE entry.revision]]
     \/ call' = [call EXCEPT ![c] = NoCall]
  /\ UNCHANGED <<entry, disk, holds, history, reserves, restarts>>

Current(c) == call[c].expected \in {None, entry.revision}

\* An edit that was not applied: its guard failed or the journal did.
Refused(c) ==
  /\ call[c].at = "checked"
  /\ call' = [call EXCEPT ![c] = NoCall]
  /\ UNCHANGED <<entry, disk, holds, history, reserves, restarts>>

Edited(limit) == [Exact(entry) EXCEPT !.limit = limit, !.revision = entry.revision + 1]

Set(c, limit) ==
  /\ c \in Operators /\ call[c].at = "checked"
  /\ Current(c) /\ entry.revision < MaxRevision
  /\ entry' = Edited(limit)
  /\ commit(entry')
  /\ call' = [call EXCEPT ![c] = NoCall]
  /\ UNCHANGED <<holds, history, reserves, restarts>>

\* Mutant: the receipt is only looked for before the edit.
Credit_Again(c) ==
  /\ c \in Deliveries /\ call[c].at = "checked"
  /\ Current(c) /\ entry.revision < MaxRevision
  /\ entry.limit # Unlimited /\ entry.limit + call[c].tokens <= MAX_TOKENS
  /\ entry' = [Edited(entry.limit + call[c].tokens) EXCEPT
                  !.receipts = [@ EXCEPT ![call[c].payment] = call[c].tokens]]
  /\ commit(entry')
  /\ call' = [call EXCEPT ![c] = NoCall]
  /\ applied' = [applied EXCEPT ![call[c].payment] = @ + 1]
  /\ UNCHANGED <<holds, charged, overruns, forgotten, peak, reserves, restarts>>

(***************************************************************************)
(* The credit and its receipt are one record.  A payment that meanwhile    *)
(* has a receipt is answered from it (Refused).                            *)
(***************************************************************************)
Credit(c) ==
  /\ c \in Deliveries /\ call[c].at = "checked"
  /\ ~Answered(c)
  /\ Current(c) /\ entry.revision < MaxRevision
  /\ entry.limit # Unlimited /\ entry.limit + call[c].tokens <= MAX_TOKENS
  /\ entry' = [Edited(entry.limit + call[c].tokens) EXCEPT
                  !.receipts = [@ EXCEPT ![call[c].payment] = call[c].tokens]]
  /\ commit(entry')
  /\ call' = [call EXCEPT ![c] = NoCall]
  /\ applied' = [applied EXCEPT ![call[c].payment] = @ + 1]
  /\ UNCHANGED <<holds, charged, overruns, forgotten, peak, reserves, restarts>>

-----------------------------------------------------------------------------
(* The end of the process *)

\* A clean shutdown; attempts the drain abandoned may still be in flight.
flush ==
  /\ entry.drawn # held_tokens(entry) \/ entry.undurable
  /\ entry' = Exact(entry)
  /\ commit(entry')
  /\ UNCHANGED <<holds, call, history, reserves, restarts>>

(***************************************************************************)
(* The process ends, in good order or not, and a new one replays the log.  *)
(* What was in flight counts as charged: its providers may have done the   *)
(* work.                                                                   *)
(***************************************************************************)
Restart ==
  /\ restarts < MaxRestarts
  /\ entry' = disk
  /\ holds' = [r \in Spenders |-> None]
  /\ call' = [c \in Callers |-> NoCall]
  /\ charged' = charged + entry.reserved
  /\ forgotten' = forgotten + Monus(held_tokens(entry), disk.drawn)
  /\ restarts' = restarts + 1
  /\ UNCHANGED <<disk, overruns, peak, applied, reserves>>

BudgetNext ==
  \/ \E r \in Spenders :
       \/ \E tokens \in Estimates : Reserve(r, tokens)
       \/ \E used \in Usages \cup Estimates \cup {0} : EndAttempt(r, used)
  \/ \E c \in Callers :
       \/ Send(c) \/ Precheck(c) \/ Refused(c) \/ Credit(c)
       \/ \E limit \in Allowances : Set(c, limit)
  \/ flush \/ Restart

BudgetSpec == BudgetInit /\ [][BudgetNext]_budgetVars

-----------------------------------------------------------------------------
(* Properties *)

Entries ==
  [limit : Quantities \cup {Unlimited}, drawn : Quantities, revision : Nat,
   consumed : Quantities, reserved : Nat, undurable : BOOLEAN,
   receipts : [Payments -> CreditTokens \cup {None}]]

Calls ==
  [at : {"idle", "sent", "checked"},
   seen : (Nat \X (Quantities \cup {Unlimited})) \cup {None},
   expected : Nat \cup {None}, payment : Payments \cup {None},
   tokens : CreditTokens \cup {0}]

\* Every variable holds what its declaration says; in particular a mark and a
\* consumption never pass MAX_TOKENS.
BudgetTypeOK ==
  /\ entry \in Entries /\ disk \in Entries
  /\ holds \in [Spenders -> Estimates \cup {None}]
  /\ call \in [Callers -> Calls]
  /\ charged \in Nat /\ overruns \in Nat /\ forgotten \in Nat /\ peak \in Nat
  /\ applied \in [Payments -> Nat]
  /\ reserves \in Nat /\ restarts \in Nat

\* There is never a token consumed or in flight that a restart would not
\* count, unless the entry says so (undurable, and then admits nothing).
DurablyCovered == entry.undurable \/ disk.drawn >= held_tokens(entry)

\* "Restart cannot restore spent credit or settle twice": whatever crashes,
\* failed commits and edits happen, what was charged is in the ledger, except
\* for overruns that no journal took before the process ended.
NothingForgiven == Capped(charged) <= entry.consumed + forgotten

\* A key never spends more than the highest limit it was admitted under, plus
\* what its providers used above their reservations.
WithinAllowance == charged + entry.reserved <= peak + overruns + forgotten

\* A payment raises the limit at most once, however often it is delivered and
\* whatever crashes in between; one that did has a receipt that will survive.
CreditOnce ==
  \A p \in Payments : applied[p] <= 1 /\ (applied[p] = 1 <=> disk.receipts[p] # None)

\* A step that changes a limit is an edit, and if the edit carries an ETag it
\* changes the very limit its caller had read.
LimitEdit ==
  entry'.limit # entry.limit =>
    /\ entry'.revision = entry.revision + 1
    /\ \E c \in Callers :
         /\ call[c].at = "checked" /\ call'[c].at = "idle"
         /\ call[c].expected # None => call[c].seen = Tag(entry)

\* An edit with an ETag is applied to the very limit its caller had read,
\* whatever was edited or restarted after the handler's look, and no step but
\* an edit changes a limit.
IfMatchHonoured == [][LimitEdit]_budgetVars
=============================================================================
