------------------------------ MODULE MCFleet ------------------------------
(***************************************************************************)
(* Fleet on one host with two models, of which the memory holds one.       *)
(***************************************************************************)
EXTENDS Fleet

CONSTANTS a, b, r1, r2, r3

MCMemory == [d \in Deployments |-> 1]

Wants(x, y, z) == [r \in Requests |-> CASE r = r1 -> x [] r = r2 -> y [] OTHER -> z]
Scene(wants, who, running, passes, may) ==
  [wants |-> wants, who |-> who, starts |-> {}, stops |-> {}, running |-> running,
   max_concurrent_activations |-> 1, passes |-> passes, may |-> may]

\* Two requests for a model that must displace one another request uses.
Swap == Scene(Wants(a, a, b), {r1, r2, r3}, {b}, 0, {"infeasible"})
\* The swap fails at the agent, in its start, or in time.
Faults == Scene(Wants(a, a, b), {r1, r2}, {b}, 0, {"agent_down", "start_fails", "deadline", "age"})
\* Two models contend for one host.
Rivals == [Scene(Wants(a, b, a), {r1, r2}, {}, 0, {"append_fails", "age", "outranked"})
             EXCEPT !.max_concurrent_activations = 2]
\* A lease expires under its plan; the memory it counted is planned for again.
Expiry == [Scene(Wants(a, b, a), {r1, r2}, {b}, 1, {"expire", "age", "starving"})
             EXCEPT !.starts = {r2}]
\* The idle stop meets a request for the model it stops, and a plan that displaces it.
Winding == [Scene(Wants(b, a, a), {r1, r2}, {b}, 1, {"idle", "age"}) EXCEPT !.starts = {r2}]
\* An operator stops one model and starts another; housekeeping starts one on a guess.
Operated == [Scene(Wants(b, b, a), {r1, r2, r3}, {b}, 1, {"prewarm"})
                EXCEPT !.stops = {r2}, !.starts = {r3}, !.who = {r2, r3}]
\* An operator's stop that fails at any step.
Failing == [Scene(Wants(b, b, a), {r2}, {b}, 0, {"agent_down", "append_fails", "deadline", "start_fails"})
              EXCEPT !.stops = {r2}]
\* More wait than the queue holds.
Crowd == Scene(Wants(a, a, a), {r1, r2, r3}, {}, 0, {})

\* Nothing fails: two models and one slot.
Busy == [Rivals EXCEPT !.max_concurrent_activations = 1, !.may = {"age"}]
TriggerScenes == {Busy}

MCScenes == {Swap, Faults, Rivals, Expiry, Winding, Operated, Failing, Crowd}

=============================================================================
