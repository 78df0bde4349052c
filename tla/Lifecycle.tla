------------------------------ MODULE Lifecycle ------------------------------
(***************************************************************************)
(* The listeners, their connections, and how the process stops (server.rs, *)
(* startup.rs serve, main.rs control thread).  Each listener has one accept *)
(* loop and a thread per connection; the control thread signals them one   *)
(* after another while the main thread, which is the inference listener's  *)
(* accept loop, goes on to wait for the others and to close the books.     *)
(*                                                                         *)
(* A request is three pieces: the first line, the rest of its head, and    *)
(* its body; a client may send several requests at once and may leave at   *)
(* any point.                                                              *)
(***************************************************************************)
EXTENDS Naturals, Sequences, FiniteSets

CONSTANTS
  Clients,
  ListenerOf,                   \* the listener each one connects to
  HasMetrics,                   \* whether `metrics_listen` names an address
  max_connections,
  max_requests_per_connection,
  MaxPieces                     \* what one client sends at most

VARIABLES
  server,   \* per listener: Server, its accept loop and what waits for it
  conn,     \* per client: its connection, and the thread that serves it
  ctl,      \* the control thread: how many handles it has signalled
  aide,     \* housekeeping, probe, job worker
  main      \* where `serve` is in startup.rs

lifeVars == <<server, conn, ctl, aide, main>>

Listeners == {"inference", "management"} \cup (IF HasMetrics THEN {"metrics"} ELSE {})
Aides == {"housekeeping", "probe", "job_worker"}
Nobody == "nobody"
ASSUME LifeAssumption ==
  /\ max_connections \in Nat \ {0} /\ Nobody \notin Clients
  /\ IsFiniteSet(Clients) /\ ListenerOf \in [Clients -> Listeners]

HeadPieces == 2
BodyPieces == 1

Untouched(at) == [at |-> at, sent |-> 0, inbox |-> 0, buffer |-> 0, served |-> 0, open |-> TRUE]

\* poke: the connection `shutdown` makes to the listener itself is waiting.
LifeInit ==
  /\ server = [l \in Listeners |-> [at |-> "accept", flag |-> FALSE, poke |-> FALSE, hand |-> Nobody,
                                    active |-> 0]]
  /\ conn = [c \in Clients |-> Untouched("away")]
  /\ ctl = [ordered |-> FALSE, done |-> 0]
  /\ aide = [a \in Aides |-> "running"]
  /\ main = [at |-> "inference", abandoned |-> 0, jobs_stopping |-> FALSE]

\* The threads that serve a connection.
Serving == {"top", "head", "body", "handle", "closing"}
ThreadsOf(l) == {c \in Clients : ListenerOf[c] = l /\ conn[c].at \in Serving}

(***************************************************************************)
(* The accept loop                                                         *)
(***************************************************************************)
\* Somebody, or the poke, is taken from the backlog; the flag is looked at
\* before anything else, and what was taken is dropped when it is set.
Accept(l) ==
  /\ server[l].at = "accept"
  /\ \/ /\ server[l].poke
        /\ server' = [server EXCEPT ![l] = [server[l] EXCEPT !.poke = FALSE,
                                                             !.at = IF server[l].flag THEN "drain" ELSE "accept"]]
        /\ UNCHANGED conn
     \/ \E c \in Clients :
          /\ ListenerOf[c] = l /\ conn[c].at = "backlog"
          /\ IF server[l].flag
             THEN /\ server' = [server EXCEPT ![l].at = "drain"]
                  /\ conn' = [conn EXCEPT ![c] = Untouched("gone")]
             ELSE /\ server' = [server EXCEPT ![l] = [server[l] EXCEPT !.at = "admit", !.hand = c]]
                  /\ conn' = [conn EXCEPT ![c].at = "accepted"]
  /\ UNCHANGED <<ctl, aide, main>>

\* The bound: beyond it the client is answered 429 by the accept loop itself.
Admit(l) ==
  /\ server[l].at = "admit"
  /\ IF server[l].active >= max_connections
     THEN /\ server' = [server EXCEPT ![l] = [server[l] EXCEPT !.at = "accept", !.hand = Nobody]]
          /\ conn' = [conn EXCEPT ![server[l].hand] = Untouched("gone")]
     ELSE /\ server' = [server EXCEPT ![l] = [server[l] EXCEPT !.at = "spawn", !.active = @ + 1]]
          /\ UNCHANGED conn
  /\ UNCHANGED <<ctl, aide, main>>

\* Mutant: a thread the system refuses stays counted.
SpawnFails_Kept(l) ==
  /\ server[l].at = "spawn"
  /\ server' = [server EXCEPT ![l] = [server[l] EXCEPT !.at = "accept", !.hand = Nobody]]
  /\ conn' = [conn EXCEPT ![server[l].hand] = Untouched("gone")]
  /\ UNCHANGED <<ctl, aide, main>>

SpawnFails(l) ==
  /\ server[l].at = "spawn"
  /\ server' = [server EXCEPT ![l] = [server[l] EXCEPT !.at = "accept", !.hand = Nobody, !.active = @ - 1]]
  /\ conn' = [conn EXCEPT ![server[l].hand] = Untouched("gone")]
  /\ UNCHANGED <<ctl, aide, main>>

Spawn(l) ==
  /\ server[l].at = "spawn"
  /\ server' = [server EXCEPT ![l] = [server[l] EXCEPT !.at = "accept", !.hand = Nobody]]
  /\ conn' = [conn EXCEPT ![server[l].hand].at = "top"]
  /\ UNCHANGED <<ctl, aide, main>>

\* drain: nobody is left, or the deadline passed with somebody left.
DrainConnections(l) ==
  /\ server[l].at = "drain"
  /\ server' = [server EXCEPT ![l].at = "returned"]
  /\ UNCHANGED <<conn, ctl, aide, main>>

AcceptLoop(l) == Accept(l) \/ Admit(l) \/ SpawnFails(l) \/ Spawn(l) \/ DrainConnections(l)

(***************************************************************************)
(* A connection's thread                                                   *)
(***************************************************************************)
Goes(c, at) == conn' = [conn EXCEPT ![c].at = at]

\* The top of serve_connection's loop.
Top(c) ==
  /\ conn[c].at = "top"
  /\ Goes(c, IF server[ListenerOf[c]].flag \/ conn[c].served >= max_requests_per_connection
             THEN "closing" ELSE "head")
  /\ UNCHANGED <<server, ctl, aide, main>>

\* One read, of whatever has arrived; nothing means that the client has left.
ReadSome(c, eof) ==
  \/ \E n \in 1..conn[c].inbox :
       conn' = [conn EXCEPT ![c] = [conn[c] EXCEPT !.inbox = @ - n, !.buffer = @ + n]]
  \/ conn[c].inbox = 0 /\ ~conn[c].open /\ Goes(c, eof)

read_head(c) ==
  /\ conn[c].at = "head"
  /\ IF conn[c].buffer >= HeadPieces
     THEN conn' = [conn EXCEPT ![c] = [conn[c] EXCEPT !.at = "body", !.buffer = @ - HeadPieces]]
     ELSE \/ Goes(c, "closing") \* the request's deadline, or a failed read
          \/ server[ListenerOf[c]].flag /\ conn[c].buffer = 0 /\ Goes(c, "closing")
          \/ ReadSome(c, "closing")
  /\ UNCHANGED <<server, ctl, aide, main>>

read_body(c) ==
  /\ conn[c].at = "body"
  /\ IF conn[c].buffer >= BodyPieces
     THEN conn' = [conn EXCEPT ![c] = [conn[c] EXCEPT !.at = "handle", !.buffer = @ - BodyPieces, !.served = @ + 1]]
     ELSE Goes(c, "closing") \/ ReadSome(c, "closing")
  /\ UNCHANGED <<server, ctl, aide, main>>

\* The handler returns: keep the connection, or close it.
Handle(c) ==
  /\ conn[c].at = "handle"
  /\ \E at \in {"top", "closing"} : Goes(c, at)
  /\ UNCHANGED <<server, ctl, aide, main>>

\* Only then is the thread counted out.
CountOut(c) ==
  /\ conn[c].at = "closing"
  /\ conn' = [conn EXCEPT ![c] = Untouched("gone")]
  /\ server' = [server EXCEPT ![ListenerOf[c]].active = @ - 1]
  /\ UNCHANGED <<ctl, aide, main>>

Thread(c) == Top(c) \/ read_head(c) \/ read_body(c) \/ Handle(c) \/ CountOut(c)

(***************************************************************************)
(* The clients                                                             *)
(***************************************************************************)
Connect(c) == conn[c].at = "away" /\ server[ListenerOf[c]].at # "returned" /\ Goes(c, "backlog")
SendPiece(c) ==
  /\ conn[c].at \in Serving /\ conn[c].open /\ conn[c].sent < MaxPieces
  /\ conn' = [conn EXCEPT ![c] = [conn[c] EXCEPT !.sent = @ + 1, !.inbox = @ + 1]]
Disconnect(c) ==
  /\ conn[c].at \in Serving /\ conn[c].open
  /\ conn' = [conn EXCEPT ![c].open = FALSE]

Client(c) == (Connect(c) \/ SendPiece(c) \/ Disconnect(c)) /\ UNCHANGED <<server, ctl, aide, main>>

(***************************************************************************)
(* The stop                                                                *)
(***************************************************************************)
\* Mutant: the planes only, the optional listener forgotten.
shutdown_handles_Planes == <<"inference", "management">>

shutdown_handles == <<"inference", "management">> \o (IF HasMetrics THEN <<"metrics">> ELSE <<>>)

OrderStop ==
  /\ ~ctl.ordered
  /\ ctl' = [ctl EXCEPT !.ordered = TRUE]
  /\ UNCHANGED <<server, conn, aide, main>>

\* ShutdownHandle::shutdown: the flag, and then a connection to wake accept.
Signal ==
  /\ ctl.ordered /\ ctl.done < Len(shutdown_handles)
  /\ ctl' = [ctl EXCEPT !.done = @ + 1]
  /\ LET l == shutdown_handles[ctl.done + 1]
     IN  server' = [server EXCEPT ![l] = [server[l] EXCEPT !.flag = TRUE, !.poke = TRUE]]
  /\ UNCHANGED <<conn, aide, main>>

\* housekeeping_loop and probe_loop look at the inference listener's flag, a
\* job worker at the job store's.
AideEnds(a) ==
  /\ aide[a] = "running"
  /\ IF a = "job_worker" THEN main.jobs_stopping ELSE server["inference"].flag
  /\ aide' = [aide EXCEPT ![a] = "ended"]
  /\ UNCHANGED <<server, conn, ctl, main>>

\* serve, after its own accept loop: the joins one by one, the jobs, and the
\* books.  What was abandoned is read off after the drain.
JoinListener(l, next) == server[l].at = "returned" /\ main' = [main EXCEPT !.at = next]
JoinAide(a, next) == aide[a] = "ended" /\ main' = [main EXCEPT !.at = next]
MainStep ==
  /\ \/ /\ main.at = "inference" /\ server["inference"].at = "returned"
        /\ main' = [main EXCEPT !.at = "management", !.abandoned = server["inference"].active]
     \/ main.at = "management" /\ JoinListener("management", IF HasMetrics THEN "metrics" ELSE "housekeeping")
     \/ main.at = "metrics" /\ JoinListener("metrics", "housekeeping")
     \/ main.at = "housekeeping" /\ JoinAide("housekeeping", "probe")
     \/ main.at = "probe" /\ JoinAide("probe", "jobs")
     \/ main.at = "jobs" /\ main' = [main EXCEPT !.at = "job_worker", !.jobs_stopping = TRUE]
     \/ main.at = "job_worker" /\ JoinAide("job_worker", "closing_books")
     \/ main.at = "closing_books" /\ main' = [main EXCEPT !.at = "exited"]
  /\ UNCHANGED <<server, conn, ctl, aide>>

LifeNext ==
  /\ main.at # "exited"
  /\ \/ \E l \in Listeners : AcceptLoop(l)
     \/ \E c \in Clients : Thread(c) \/ Client(c)
     \/ OrderStop \/ Signal
     \/ \E a \in Aides : AideEnds(a)
     \/ MainStep

\* The loops, the control thread and the main thread run; a job's work and a
\* probe end by their deadlines.  Of the connections nothing is asked.
Running(A) == main.at # "exited" /\ A

LifeSpec ==
  /\ LifeInit /\ [][LifeNext]_lifeVars
  /\ \A l \in Listeners : WF_lifeVars(Running(AcceptLoop(l)))
  /\ WF_lifeVars(Running(Signal)) /\ WF_lifeVars(Running(MainStep))
  /\ \A a \in Aides : WF_lifeVars(Running(AideEnds(a)))

-----------------------------------------------------------------------------

\* The count the admission bound, the drain and the exit report go by is the
\* threads that really run, and within the bound; and a process that reports
\* nothing abandoned has no inference exchange under way when it closes its
\* books, however the last connections raced the stop.
HonestStop ==
  /\ \A l \in Listeners :
       /\ server[l].active = Cardinality(ThreadsOf(l)) + (IF server[l].at = "spawn" THEN 1 ELSE 0)
       /\ server[l].active <= max_connections
  /\ main.at # "inference" /\ main.abandoned = 0 => ThreadsOf("inference") = {}

\* Whatever the connections do, hang included, a process told to stop exits.
StopsInTheEnd == ctl.ordered ~> (main.at = "exited")

=============================================================================
