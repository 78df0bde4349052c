----------------------------- MODULE MCAttempt -----------------------------
(* The situations the request pipeline is checked in. *)
EXTENDS Attempt

MCFamily == [t \in Targets |-> IF t = "t1" THEN "openai" ELSE "anthropic"]

On(t, residency) == [target |-> t, residency |-> residency]
Warm == <<On("t1", "warm"), On("t2", "warm")>>

\* One request, nothing refuses, everything is served; the scenes below say
\* what is different.
Plain ==
  [who |-> {"a", "b"}, keyed |-> {"a"}, idempotent |-> {}, job |-> {},
   allow_family_failover |-> TRUE, routes |-> {Warm}, refuses |-> {},
   starts |-> {}, answers |-> {"served"}, rotates |-> FALSE]

\* Two requests fail over past every gate that may refuse.
Failover ==
  [Plain EXCEPT !.idempotent = {"b"}, !.refuses = {"circuit", "bytes", "funds"},
                !.answers = {"served", "unreachable", "lost", "cut"}]
\* One alias that may not change family, one client that may leave.
OneFamily ==
  [Plain EXCEPT !.who = {"a"}, !.idempotent = {"a"}, !.allow_family_failover = FALSE,
                !.refuses = {"time", "ledger", "rate"},
                !.answers = {"served", "limited", "lost", "left", "leftLate"}]
\* Every target down: one of two requests may wait for a recovery.
Outage ==
  [Plain EXCEPT !.routes = {<<>>, <<On("t1", "warm")>>},
                !.answers = {"served", "unreachable", "left"}]
\* Cold models: park, ride, start, be refused, with nothing accepted and lost.
Cold ==
  [Plain EXCEPT !.routes = {<<On("t1", "cold")>>, <<On("t1", "coming"), On("t2", "warm")>>},
                !.refuses = {"claimed", "park"},
                !.starts = {"ready", "queued", "agent", "refused"},
                !.answers = {"served", "unreachable"}]
\* A credential rotated under two requests.
Rotation ==
  [Plain EXCEPT !.routes = {<<On("t1", "warm")>>}, !.rotates = TRUE,
                !.answers = {"served", "unreachable", "rejected"}]
\* A queued job beside a request.
Jobs ==
  [Plain EXCEPT !.job = {"a"}, !.routes = {<<On("t1", "cold"), On("t2", "warm")>>},
                !.refuses = {"memory"},
                !.starts = {"ready", "queued", "refused"}, !.answers = {"served"}]

MCScenes == {Failover, OneFamily, Outage, Cold, Rotation, Jobs}

\* The first target is claimed for a stop, which counts as an activation to
\* come, and the second takes the request and loses it.
MCLost ==
  {[Plain EXCEPT !.who = {"a"}, !.refuses = {"claimed"}, !.answers = {"served", "lost"}]}

=============================================================================
