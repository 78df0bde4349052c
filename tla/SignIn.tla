------------------------------- MODULE SignIn -------------------------------
(***************************************************************************)
(* The sign-in endpoints, which run before any session: the password       *)
(* endpoint with its per-account window and its bound on verifications at  *)
(* once, break-glass, and the identity provider's call-back with its       *)
(* single-use transaction.  Each has a budget of its own for the audit     *)
(* records its failures may write; past it, failures are counted and the   *)
(* count is written once, when the window ends.                            *)
(*                                                                         *)
(* Every atomic operation of the budget is a step, so the threads of a     *)
(* flood interleave inside `admit`.                                        *)
(***************************************************************************)
EXTENDS Integers, FiniteSets, FiniteSetsExt

CONSTANTS
  Attempts,                         \* threads of the listener, one attempt after another
  MAX_PASSWORD_FAILURES,
  PASSWORD_LOCKOUT_WINDOW_MILLIS,
  MAX_CONCURRENT_PASSWORD_CHECKS,
  MAX_ANONYMOUS_AUDITS_PER_WINDOW,
  ANONYMOUS_AUDIT_WINDOW_MILLIS,
  Mixes,                            \* which endpoints are called together
  MaxFailed,                        \* bound: failures in all
  MaxClock                          \* bound: time

Endpoints == {"password", "break_glass", "oidc"}

ASSUME SignAssumption ==
  /\ IsFiniteSet(Attempts) /\ Mixes \subseteq SUBSET Endpoints
  /\ {MAX_PASSWORD_FAILURES, PASSWORD_LOCKOUT_WINDOW_MILLIS, MAX_CONCURRENT_PASSWORD_CHECKS,
      MAX_ANONYMOUS_AUDITS_PER_WINDOW, ANONYMOUS_AUDIT_WINDOW_MILLIS, MaxFailed, MaxClock} \subseteq Nat

VARIABLES
  served,         \* the endpoints called in this behaviour
  clock,
  account,        \* AccountFailures: [window_start, failures]; failures = 0: no entry
  in_flight,      \* verifications running
  budget,         \* [endpoint -> AnonymousAuditBudget]
  transaction,    \* whether the sign-in transaction is open
  attempt,        \* [thread -> where it is]
  failed,         \* [endpoint -> attempts that failed]
  written,        \* [endpoint -> failures written one by one, reported in summaries; windows begun]
  signed_in       \* sessions the call-back has issued for the transaction

signVars == <<served, clock, account, in_flight, budget, transaction, attempt, failed, written, signed_in>>
throttle == <<account, in_flight>>

AtRest == [pc |-> "idle", at |-> "password", now |-> 0, slot |-> FALSE, start |-> 0,
           rolled |-> 0, record |-> FALSE]

SignInit ==
  /\ served \in Mixes
  /\ clock = ANONYMOUS_AUDIT_WINDOW_MILLIS
  /\ account = [window_start |-> 0, failures |-> 0]
  /\ in_flight = 0
  /\ budget = [e \in Endpoints |-> [window_start |-> 0, recorded |-> 0, suppressed |-> 0]]
  /\ transaction = TRUE
  /\ attempt = [a \in Attempts |-> AtRest]
  /\ failed = [e \in Endpoints |-> 0]
  /\ written = [e \in Endpoints |-> [single |-> 0, summed |-> 0, windows |-> 0]]
  /\ signed_in = 0

In(a, pc) == attempt[a].pc = pc
E(a) == attempt[a].at
Failing(a) == failed' = [failed EXCEPT ![E(a)] = @ + 1]
Sum_(f) == MapThenSumSet(LAMBDA e : f[e], Endpoints)

----------------------------------------------------------------------------
(* The endpoints, up to a session or a failure. *)

Begin(a, e) ==
  /\ In(a, "idle") /\ Sum_(failed) < MaxFailed
  /\ attempt' = [attempt EXCEPT ![a] = [AtRest EXCEPT !.at = e, !.now = clock,
                   !.pc = IF e = "password" THEN "locked" ELSE "present"]]
  /\ UNCHANGED <<served, clock, throttle, budget, transaction, failed, written, signed_in>>

\* A wrong break-glass token or reason, or a provider error.
Refused(a) ==
  /\ In(a, "present")
  /\ attempt' = [attempt EXCEPT ![a].pc = "load_window"]
  /\ Failing(a)
  /\ UNCHANGED <<served, clock, throttle, budget, transaction, written, signed_in>>

BreakGlass(a) ==
  /\ In(a, "present") /\ E(a) = "break_glass"
  /\ attempt' = [attempt EXCEPT ![a] = AtRest]
  /\ UNCHANGED <<served, clock, throttle, budget, transaction, failed, written, signed_in>>

\* TransactionStore::take removes the transaction before it looks at it.
Take(a) ==
  /\ In(a, "present") /\ E(a) = "oidc"
  /\ transaction' = FALSE
  /\ IF transaction
     THEN attempt' = [attempt EXCEPT ![a].pc = "exchange"] /\ UNCHANGED failed
     ELSE attempt' = [attempt EXCEPT ![a].pc = "load_window"] /\ Failing(a)
  /\ UNCHANGED <<served, clock, throttle, budget, written, signed_in>>

\* The code is redeemed and the claims are checked, or not.
Exchange(a, good) ==
  /\ In(a, "exchange")
  /\ IF good THEN /\ attempt' = [attempt EXCEPT ![a] = AtRest]
                  /\ signed_in' = signed_in + 1 /\ UNCHANGED failed
     ELSE /\ attempt' = [attempt EXCEPT ![a].pc = "load_window"]
          /\ Failing(a) /\ UNCHANGED signed_in
  /\ UNCHANGED <<served, clock, throttle, budget, transaction, written>>

\* A transaction is opened by oidc_start.
Start ==
  /\ ~transaction /\ "oidc" \in served
  /\ transaction' = TRUE
  /\ signed_in' = 0
  /\ \A a \in Attempts : ~In(a, "exchange")
  /\ UNCHANGED <<served, clock, throttle, budget, attempt, failed, written>>

\* PasswordThrottle::locked, before anything is computed.
Locked(now) ==
  /\ now - account.window_start < PASSWORD_LOCKOUT_WINDOW_MILLIS
  /\ account.failures >= MAX_PASSWORD_FAILURES

CheckLocked(a) ==
  /\ In(a, "locked")
  /\ IF Locked(attempt[a].now)
     THEN attempt' = [attempt EXCEPT ![a].pc = "load_window"] /\ Failing(a)
     ELSE attempt' = [attempt EXCEPT ![a].pc = "enter"] /\ UNCHANGED failed
  /\ UNCHANGED <<served, clock, throttle, budget, transaction, written, signed_in>>

\* PasswordThrottle::enter: a permit or a refusal, never a wait.
Enter(a) ==
  /\ In(a, "enter")
  /\ IF in_flight < MAX_CONCURRENT_PASSWORD_CHECKS
     THEN /\ in_flight' = in_flight + 1
          /\ attempt' = [attempt EXCEPT ![a] = [attempt[a] EXCEPT !.pc = "verify", !.slot = TRUE]]
          /\ UNCHANGED failed
     ELSE /\ attempt' = [attempt EXCEPT ![a].pc = "load_window"]
          /\ Failing(a) /\ UNCHANGED in_flight
  /\ UNCHANGED <<served, clock, account, budget, transaction, written, signed_in>>

\* record_failure, at the time the attempt began.
RecordFailure(now) ==
  IF account.failures = 0 \/ now - account.window_start >= PASSWORD_LOCKOUT_WINDOW_MILLIS
  THEN [window_start |-> now, failures |-> 1]
  ELSE [account EXCEPT !.failures = @ + 1]

WrongPassword(a) ==
  /\ In(a, "verify")
  /\ account' = RecordFailure(attempt[a].now)
  /\ attempt' = [attempt EXCEPT ![a].pc = "load_window"]
  /\ Failing(a)
  /\ UNCHANGED <<served, clock, in_flight, budget, transaction, written, signed_in>>

\* The window is forgotten and the permit dropped; or the user has no role,
\* which is a failure that leaves the window as it is.
RightPassword(a, bound) ==
  /\ In(a, "verify")
  /\ IF bound
     THEN /\ account' = [account EXCEPT !.failures = 0]
          /\ in_flight' = in_flight - 1
          /\ attempt' = [attempt EXCEPT ![a] = AtRest] /\ UNCHANGED failed
     ELSE /\ attempt' = [attempt EXCEPT ![a].pc = "load_window"]
          /\ Failing(a) /\ UNCHANGED throttle
  /\ UNCHANGED <<served, clock, budget, transaction, written, signed_in>>

----------------------------------------------------------------------------
(* AnonymousAuditBudget::admit, one atomic operation a step. *)

LoadWindow(a) ==
  LET b == budget[E(a)] IN
  /\ In(a, "load_window")
  /\ attempt' = [attempt EXCEPT ![a] = [attempt[a] EXCEPT !.start = b.window_start, !.now = clock,
                   !.pc = IF clock - b.window_start >= ANONYMOUS_AUDIT_WINDOW_MILLIS
                             THEN "roll" ELSE "count"]]
  /\ UNCHANGED <<served, clock, throttle, budget, transaction, failed, written, signed_in>>

\* Exactly one thread rolls the window.
Roll(a) ==
  /\ In(a, "roll")
  /\ IF budget[E(a)].window_start = attempt[a].start
     THEN /\ budget' = [budget EXCEPT ![E(a)].window_start = attempt[a].now]
          /\ written' = [written EXCEPT ![E(a)].windows = @ + 1]
          /\ attempt' = [attempt EXCEPT ![a].pc = "swap"]
     ELSE /\ attempt' = [attempt EXCEPT ![a].pc = "count"] /\ UNCHANGED <<budget, written>>
  /\ UNCHANGED <<served, clock, throttle, transaction, failed, signed_in>>

\* Mutant: the count is read and left where it is.
SwapSuppressed_Loaded(a) ==
  /\ In(a, "swap")
  /\ attempt' = [attempt EXCEPT ![a] = [attempt[a] EXCEPT !.pc = "reset", !.rolled = budget[E(a)].suppressed]]
  /\ UNCHANGED <<served, clock, throttle, budget, transaction, failed, written, signed_in>>

SwapSuppressed(a) ==
  /\ In(a, "swap")
  /\ attempt' = [attempt EXCEPT ![a] = [attempt[a] EXCEPT !.pc = "reset", !.rolled = budget[E(a)].suppressed]]
  /\ budget' = [budget EXCEPT ![E(a)].suppressed = 0]
  /\ UNCHANGED <<served, clock, throttle, transaction, failed, written, signed_in>>

ResetRecorded(a) ==
  /\ In(a, "reset")
  /\ budget' = [budget EXCEPT ![E(a)].recorded = 0]
  /\ attempt' = [attempt EXCEPT ![a].pc = "count"]
  /\ UNCHANGED <<served, clock, throttle, transaction, failed, written, signed_in>>

CountFailure(a) ==
  /\ In(a, "count")
  /\ budget' = [budget EXCEPT ![E(a)].recorded = @ + 1]
  /\ attempt' = IF budget[E(a)].recorded < MAX_ANONYMOUS_AUDITS_PER_WINDOW
                THEN [attempt EXCEPT ![a] = [attempt[a] EXCEPT !.pc = "write", !.record = TRUE]]
                ELSE [attempt EXCEPT ![a].pc = "suppress"]
  /\ UNCHANGED <<served, clock, throttle, transaction, failed, written, signed_in>>

Suppress(a) ==
  /\ In(a, "suppress")
  /\ budget' = [budget EXCEPT ![E(a)].suppressed = @ + 1]
  /\ attempt' = [attempt EXCEPT ![a].pc = "write"]
  /\ UNCHANGED <<served, clock, throttle, transaction, failed, written, signed_in>>

\* audit_*_failure: the summary of the window that ended, the record of this
\* failure, and the permit goes back as the handler returns.
WriteRecords(a) ==
  LET one == IF attempt[a].record THEN 1 ELSE 0 IN
  /\ In(a, "write")
  /\ written' = [written EXCEPT ![E(a)] = [written[E(a)] EXCEPT !.single = @ + one,
                                !.summed = @ + attempt[a].rolled]]
  /\ in_flight' = IF attempt[a].slot THEN in_flight - 1 ELSE in_flight
  /\ attempt' = [attempt EXCEPT ![a] = AtRest]
  /\ UNCHANGED <<served, clock, account, budget, transaction, failed, signed_in>>

Tick == /\ clock < MaxClock
        /\ clock' = clock + 1
        /\ UNCHANGED <<served, throttle, budget, transaction, attempt, failed, written, signed_in>>

SignStep(a) ==
  \/ \E e \in served : Begin(a, e)
  \/ Refused(a) \/ BreakGlass(a) \/ Take(a) \/ \E good \in BOOLEAN : Exchange(a, good)
  \/ CheckLocked(a) \/ Enter(a) \/ WrongPassword(a) \/ \E bound \in BOOLEAN : RightPassword(a, bound)
  \/ LoadWindow(a) \/ Roll(a) \/ SwapSuppressed(a) \/ ResetRecorded(a)
  \/ CountFailure(a) \/ Suppress(a) \/ WriteRecords(a)

SignNext == (\E a \in Attempts : SignStep(a)) \/ Start \/ Tick

SignSpec == SignInit /\ [][SignNext]_signVars

----------------------------------------------------------------------------
(* Properties. *)

Uncounted == {"load_window", "roll", "swap", "reset", "count", "suppress"}
Here(e, pcs) == {a \in Attempts : E(a) = e /\ attempt[a].pc \in pcs}
Rolled(e) == Cardinality(UNION {{a} \X (1 .. attempt[a].rolled) : a \in Here(e, {"reset", "count", "suppress", "write"})})

\* Every failure is in the trail once, as a record or in a summary, or on its
\* way there.
FailuresCounted ==
  \A e \in Endpoints :
    failed[e] = written[e].single + written[e].summed + budget[e].suppressed + Rolled(e)
                + Cardinality(Here(e, Uncounted))
                + Cardinality({a \in Here(e, {"write"}) : attempt[a].record})

\* The trail grows with time and not with failures: there are as many records
\* as the windows begun allow, and a window is begun when the last is over.
TrailBounded ==
  \A e \in Endpoints :
    /\ written[e].single <= MAX_ANONYMOUS_AUDITS_PER_WINDOW * (written[e].windows + 1)
    /\ written[e].windows * ANONYMOUS_AUDIT_WINDOW_MILLIS <= clock

\* However the threads of a flood interleave while a window ends, the audit
\* trail tells how many attempts failed and does not grow with them (admit:
\* "Two threads rolling concurrently would report the same suppressed count
\* twice, which is an audit trail that overstates what happened"), every permit
\* comes back, and one transaction signs in one session.
FloodHandled ==
  /\ FailuresCounted /\ TrailBounded
  /\ in_flight = Cardinality({a \in Attempts : attempt[a].slot})
  /\ in_flight <= MAX_CONCURRENT_PASSWORD_CHECKS
  /\ signed_in <= 1
=============================================================================
