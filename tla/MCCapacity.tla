----------------------------- MODULE MCCapacity -----------------------------
(***************************************************************************)
(* What a request has to get before it is sent, for TLC.  A behaviour is   *)
(* one of two parts, the other at rest: two requests through a tenant's    *)
(* and a target's scope, or the threads at a target's breaker.             *)
(***************************************************************************)
EXTENDS AdmissionQueue, Breaker

VARIABLE part

parts == <<vars, breakerVars, part>>

(* the chain: b1 is of a higher class, and a publication may widen or drop *)
(* a line                                                                  *)
MCTenantOf == [r \in Requests |-> IF r = "b1" THEN "b" ELSE "a"]
MCTwoClasses == [r \in Requests |-> IF r = "b1" THEN 0 ELSE 1]
MCChain == [r \in Requests |-> <<"tenant", "target">>]
Limit(concurrency, queued) == [max_concurrency |-> concurrency, max_queued |-> queued]
MCNarrow == {Limit(1, 2), Limit(2, 2), Limit(2, 0)}
MCFirst == [s \in Scopes |-> IF s = "tenant" THEN Limit(2, 2) ELSE Limit(1, 2)]

-----------------------------------------------------------------------------

PartInit ==
  /\ part \in {"chain", "breaker"}
  /\ Init /\ BreakerInit

PartNext ==
  /\ \/ part = "chain" /\ Next /\ UNCHANGED breakerVars
     \/ part = "breaker" /\ BreakerNext /\ UNCHANGED vars
  /\ UNCHANGED part

\* The fairness of each module, in its own part.
InChain(A) == part = "chain" /\ A /\ UNCHANGED <<breakerVars, part>>
AtBreaker(A) == part = "breaker" /\ A /\ UNCHANGED <<vars, part>>

PartSpec ==
  /\ PartInit /\ [][PartNext]_parts
  /\ \A r \in Requests : WF_parts(InChain(Step(r))) /\ WF_parts(InChain(DeadlinePasses(r)))
  /\ WF_parts(InChain(WakeAfterPublishing))
  /\ WF_parts(AtBreaker(Tick))
=============================================================================
