----------------------------- MODULE MCRequest ------------------------------
(***************************************************************************)
(* One request's way, for TLC.  A behaviour is one of three parts, the     *)
(* others at rest: where the request may go, the attempts of two requests, *)
(* or one streamed answer.                                                 *)
(***************************************************************************)
EXTENDS MCAttempt, Stream, MCRouting

VARIABLE part

parts == <<vars, streamVars, routeVars, part>>

W(kinds) == {[kind |-> k, tool |-> 0] : k \in kinds}
Calls == {[kind |-> k, tool |-> t] : k \in {"head", "args"}, t \in Tools}
StreamScene(up, client, wire, ends, max_tries, budgeted) ==
  [upstream |-> up, client |-> client, budgeted |-> budgeted, max_tries |-> max_tries,
   wire |-> wire, ends |-> ends]
Dialects == {"chat", "responses", "anthropic"}

\* Content in any order, calls interleaved.
Content ==
  {StreamScene("chat", client, W({"text", "reasoning", "stop"}) \cup Calls, {"close"}, 1, FALSE) :
     client \in Dialects}
\* Every way an attempt may end, and another after it.
Endings ==
  {StreamScene(up, client, W({"start", "text", "args", "stop_usage", "usage", "unrecognized"}
                             \cup (IF up = "chat" THEN {"done"} ELSE {"error"})),
               {"close", "broken", "malformed", "gone", "unfunded"}, 2, client = up) :
     up \in Dialects, client \in Dialects}
Silence == StreamScene("chat", "chat", {}, {"close"}, 1, FALSE)
MCStreamScenes == Content \cup Endings \cup {Silence}

\* No policy while requests are attempted or answered.
Settled == [RouteScene({}, {}, {}, {Open}, AllFit) EXCEPT !.first.grants = <<>>, !.first.bindings = <<>>]
MCRequestRoutes == MCRouteScenes \cup {Settled}

\* No request is attempted while an answer streams or the policy changes.
Idle == [Plain EXCEPT !.who = {}]
MCRequestScenes == MCScenes \cup {Idle}

-----------------------------------------------------------------------------

PartInit ==
  /\ part \in {"route", "attempt", "stream"}
  /\ Init /\ StreamInit /\ RouteInit
  /\ (part # "attempt") <=> (scene = Idle)
  /\ part # "stream" => sc = Silence
  /\ part # "route" => rscene = Settled /\ key = Open

PartNext ==
  /\ \/ part = "attempt" /\ Next /\ UNCHANGED <<streamVars, routeVars>>
     \/ part = "stream" /\ StreamNext /\ UNCHANGED <<vars, routeVars>>
     \/ part = "route" /\ RouteNext /\ UNCHANGED <<vars, streamVars>>
  /\ UNCHANGED part

\* The fairness of Attempt, in its own part.
Attempting(A) == part = "attempt" /\ A /\ UNCHANGED <<streamVars, routeVars, part>>

PartSpec ==
  /\ PartInit /\ [][PartNext]_parts
  /\ \A q \in Requests : WF_parts(Attempting(Step(q))) /\ WF_parts(Attempting(Expire(q)))
=============================================================================
