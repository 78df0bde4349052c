-------------------------------- MODULE Pool --------------------------------
(***************************************************************************)
(* Upstream connections and their reuse (net/pool.rs, net/client.rs,       *)
(* net/lib.rs, and the exchange in dispatch.rs and job_exchange.rs).  A    *)
(* connection that answered one call is kept and answers the next, so that *)
(* the next may find it closed by the peer, or holding what is left of     *)
(* somebody else's answer.                                                 *)
(*                                                                         *)
(* What the peer sends is a script of pieces: "bit" is part of a head,     *)
(* "data" some payload, "done" the stream's sentinel, "end" the end of the *)
(* framing, and a "+" says that more bytes came with it.  The peer may     *)
(* close anywhere in it.  A peer that starts on a request sends something  *)
(* before it closes, and is silent while nothing is asked of it: a router  *)
(* cannot tell otherwise.                                                  *)
(***************************************************************************)
EXTENDS Naturals, Sequences, FiniteSets, SequencesExt, FiniteSetsExt

CONSTANTS
  Sockets,       \* the connections ever opened
  Calls,         \* the exchanges, in whatever order
  PoolKey,       \* each one's endpoint, credential class and egress profile
  Idempotent,    \* those that may run twice (a job's polls and fetches)
  Scripts,       \* the answers a peer may give
  max_idle_per_key, max_idle_total

VARIABLES
  sock,   \* UpstreamConnection, and the peer's end of it
  idle,   \* per key, the connections at rest, newest last
  call    \* the exchanges under way

poolVars == <<sock, idle, call>>

Keys == {PoolKey[c] : c \in Calls}
NoCall == 0
NoSock == 0
PieceKinds == {"bit", "head", "head_close", "head_delim", "refused", "data", "done", "done+", "end", "end+"}
ASSUME PoolAssumption ==
  /\ NoCall \notin Calls /\ NoSock \notin Sockets /\ IsFiniteSet(Calls) /\ max_idle_total \in Nat
  /\ Scripts \subseteq Seq(PieceKinds)
  /\ \A script \in Scripts : \A i \in DOMAIN script : script[i] \in {"end", "end+"} => i = Len(script)

Heads == {"head", "head_close", "head_delim", "refused"}

\* A connection not opened yet.
Unused == [key |-> CHOOSE k \in Keys : TRUE, life |-> "unopened", reusable |-> FALSE, eof |-> FALSE,
           response_open |-> FALSE, pending |-> FALSE, heard |-> FALSE, pooled |-> FALSE, delimited |-> FALSE,
           old |-> FALSE, script |-> <<>>, answering |-> NoCall, wire |-> <<>>, peer_open |-> FALSE]
Dialed(key) == [Unused EXCEPT !.key = key, !.life = "open", !.reusable = TRUE, !.peer_open = TRUE]
Waiting == [at |-> "acquire", on |-> NoSock, retried |-> FALSE, stream |-> FALSE, read |-> {}, runs |-> 0]

PoolInit ==
  /\ sock = [s \in Sockets |-> Unused]
  /\ idle = [k \in Keys |-> <<>>]
  /\ call = [c \in Calls |-> Waiting]

(***************************************************************************)
(* The pool                                                                *)
(***************************************************************************)
\* Mutant: the connection is reusable as soon as nothing is buffered.
is_reusable_Unread(x) == x.reusable /\ ~x.eof /\ ~x.pending

is_reusable(x) == x.reusable /\ ~x.eof /\ ~x.response_open /\ ~x.pending

\* close, or drop: what the peer still does with it reaches nobody.
Closed(x) == [Unused EXCEPT !.key = x.key, !.life = "closed"]

\* take: the newest that is fresh and usable; those found wanting are closed.
\* <<0>> if there is none.
Usable(key) == {i \in DOMAIN idle[key] : ~sock[idle[key][i]].old /\ is_reusable(sock[idle[key][i]])}
take(key) ==
  LET top == IF Usable(key) = {} THEN 0 ELSE Max(Usable(key))
  IN  [on |-> IF top = 0 THEN NoSock ELSE idle[key][top],
       left |-> IF top = 0 THEN <<>> ELSE SubSeq(idle[key], 1, top - 1),
       shut |-> {idle[key][i] : i \in (top + 1)..Len(idle[key])}]

\* put: what becomes of connection x, named s, when it is given back.
Total == Cardinality(UNION {{k} \X DOMAIN idle[k] : k \in Keys})
Fits(x) == is_reusable(x) /\ Total < max_idle_total /\ Len(idle[x.key]) < max_idle_per_key
put(s, x) ==
  /\ sock' = [sock EXCEPT ![s] = IF Fits(x) THEN [x EXCEPT !.old = FALSE] ELSE Closed(x)]
  /\ idle' = IF Fits(x) THEN [idle EXCEPT ![x.key] = Append(@, s)] ELSE idle

\* An idle connection passes its idle timeout.
GrowsOld(s) ==
  /\ \E k \in Keys : s \in Range(idle[k])
  /\ ~sock[s].old
  /\ sock' = [sock EXCEPT ![s].old = TRUE]
  /\ UNCHANGED <<idle, call>>

\* drain_where: a credential is rotated, and what is idle under it is closed.
Drain(key) ==
  /\ idle[key] # <<>>
  /\ sock' = [s \in Sockets |-> IF s \in Range(idle[key]) THEN Closed(sock[s]) ELSE sock[s]]
  /\ idle' = [idle EXCEPT ![key] = <<>>]
  /\ UNCHANGED call

(***************************************************************************)
(* One exchange: connect, send, read the head, read the body, give back    *)
(***************************************************************************)
Ended(c, how) == [call[c] EXCEPT !.at = how, !.on = NoSock]
Ends(c, how) == [call EXCEPT ![c] = Ended(c, how)]

Unopened == {s \in Sockets : sock[s] = Unused}

\* acquire, or dial_fresh the second time.
Obtain(c) ==
  /\ call[c].at = "acquire"
  /\ LET key == PoolKey[c]
         taken == IF call[c].retried THEN [on |-> NoSock, left |-> idle[key], shut |-> {}] ELSE take(key)
         shut == [s \in Sockets |-> IF s \in taken.shut THEN Closed(sock[s]) ELSE sock[s]]
     IN  /\ idle' = [idle EXCEPT ![key] = taken.left]
         /\ \/ /\ taken.on # NoSock
               /\ sock' = [shut EXCEPT ![taken.on].pooled = TRUE]
               /\ call' = [call EXCEPT ![c] = [call[c] EXCEPT !.at = "send", !.on = taken.on]]
            \/ /\ taken.on = NoSock
               /\ Unopened # {}
               /\ LET s == CHOOSE s \in Unopened : TRUE
                  IN  /\ sock' = [shut EXCEPT ![s] = Dialed(key)]
                      /\ call' = [call EXCEPT ![c] = [call[c] EXCEPT !.at = "send", !.on = s]]
            \/ /\ taken.on = NoSock
               /\ sock' = shut /\ call' = Ends(c, "failed")

\* A pass that got no head is made again once, if it cannot have run: its
\* sending failed, or the peer closed without a byte.
replayable(c, x, before, truncated) ==
  x.pooled /\ ~call[c].retried /\ (before \/ c \in Idempotent \/ (truncated /\ ~x.heard))

NoHead(c, x, before, truncated) ==
  /\ put(call[c].on, [x EXCEPT !.reusable = FALSE])
  /\ call' = IF replayable(c, x, before, truncated)
             THEN [call EXCEPT ![c] = [Ended(c, "acquire") EXCEPT !.retried = TRUE]]
             ELSE Ends(c, "failed")

\* send: from its first byte the connection owes an answer.
Send(c) ==
  /\ call[c].at = "send"
  /\ LET s == call[c].on
         x == [sock[s] EXCEPT !.response_open = TRUE, !.heard = FALSE]
     IN  \/ /\ x.peer_open
            /\ \E script \in Scripts :
                 sock' = [sock EXCEPT ![s] = [x EXCEPT !.script = @ \o [i \in DOMAIN script |->
                                                                        [kind |-> script[i], of |-> c]]]]
            /\ call' = [call EXCEPT ![c].at = "head"]
            /\ UNCHANGED idle
         \/ /\ ~x.peer_open \* the kernel takes the bytes, nobody reads them
            /\ sock' = [sock EXCEPT ![s] = x]
            /\ call' = [call EXCEPT ![c].at = "head"]
            /\ UNCHANGED idle
         \/ ~x.peer_open /\ NoHead(c, x, TRUE, FALSE)

\* The next piece for c, taken off its connection.
Piece(c) == Head(sock[call[c].on].wire)
Rest(c) == [sock[call[c].on] EXCEPT !.wire = Tail(@)]
HavingRead(c) == [call[c] EXCEPT !.read = @ \cup {Piece(c).of}]
Reads(c) == [call EXCEPT ![c] = HavingRead(c)]
Eof(c) == sock[call[c].on].wire = <<>> /\ ~sock[call[c].on].peer_open

ReadHead(c) ==
  /\ call[c].at = "head"
  /\ LET s == call[c].on
     IN  \/ /\ sock[s].wire # <<>> /\ Piece(c).kind \notin Heads
            /\ sock' = [sock EXCEPT ![s] = [Rest(c) EXCEPT !.heard = TRUE]]
            /\ call' = Reads(c) /\ UNCHANGED idle
         \/ /\ sock[s].wire # <<>> /\ Piece(c).kind \in Heads \ {"refused"}
            /\ sock' = [sock EXCEPT ![s] = [Rest(c) EXCEPT !.heard = TRUE,
                          !.reusable = @ /\ Piece(c).kind # "head_close",
                          !.delimited = Piece(c).kind = "head_delim"]]
            /\ \E stream \in BOOLEAN :
                 call' = [call EXCEPT ![c] = [HavingRead(c) EXCEPT !.at = "body", !.stream = stream]]
            /\ UNCHANGED idle
         \/ \* an error status: its body is read, the connection is not kept
            /\ sock[s].wire # <<>> /\ Piece(c).kind = "refused"
            /\ put(s, [Rest(c) EXCEPT !.reusable = FALSE])
            /\ call' = [call EXCEPT ![c] = [HavingRead(c) EXCEPT !.at = "failed", !.on = NoSock]]
         \/ Eof(c) /\ NoHead(c, [sock[s] EXCEPT !.eof = TRUE], FALSE, TRUE)
         \/ NoHead(c, sock[s], FALSE, FALSE) \* the deadline, or a reset

\* Given back, or dropped, which closes it.
Leave(c, s, x, how) ==
  /\ put(s, x)
  /\ call' = [call EXCEPT ![c] = [(IF x.wire # sock[s].wire THEN HavingRead(c) ELSE call[c])
                                   EXCEPT !.at = how, !.on = NoSock]]
Drop(c, s) ==
  /\ sock' = [sock EXCEPT ![s] = Closed(@)]
  /\ call' = Ends(c, "failed") /\ UNCHANGED idle

ReadBody(c) ==
  /\ call[c].at = "body"
  /\ LET s == call[c].on
         Next_(kinds) == sock[s].wire # <<>> /\ Piece(c).kind \in kinds
         complete == [Rest(c) EXCEPT !.response_open = FALSE]
     IN  \/ /\ Next_({"data"}) \/ (~call[c].stream /\ Next_({"done", "done+"}))
            /\ sock' = [sock EXCEPT ![s] = Rest(c)] /\ call' = Reads(c) /\ UNCHANGED idle
         \/ \* the client is gone: a stream gives its connection back as it is
            /\ Next_({"data"})
            /\ IF call[c].stream THEN Leave(c, s, Rest(c), "failed") ELSE Drop(c, s)
         \/ /\ call[c].stream /\ Next_({"done+"})
            /\ Leave(c, s, [Rest(c) EXCEPT !.reusable = FALSE], "done")
         \/ /\ call[c].stream /\ Next_({"done"})
            /\ IF sock[s].delimited THEN Leave(c, s, [Rest(c) EXCEPT !.reusable = FALSE], "done")
               ELSE /\ sock' = [sock EXCEPT ![s] = Rest(c)]
                    /\ call' = [call EXCEPT ![c] = [HavingRead(c) EXCEPT !.at = "drain"]] /\ UNCHANGED idle
         \/ Next_({"end"}) /\ Leave(c, s, complete, "done")
         \/ Next_({"end+"}) /\ Leave(c, s, [complete EXCEPT !.pending = TRUE], "done")
         \/ \* finish_body: what ends with the connection is whole, the rest is cut short
            /\ Eof(c)
            /\ IF sock[s].delimited \/ call[c].stream
               THEN Leave(c, s, [sock[s] EXCEPT !.eof = TRUE, !.reusable = FALSE,
                                   !.response_open = ~sock[s].delimited],
                          IF sock[s].delimited THEN "done" ELSE "failed")
               ELSE Drop(c, s)
         \/ \* the deadline, or a reset
            IF call[c].stream THEN Leave(c, s, sock[s], "failed") ELSE Drop(c, s)

\* drain_after_terminator: up to the end of the framing and not a byte more.
DrainTail(c) ==
  /\ call[c].at = "drain"
  /\ LET s == call[c].on
         Poisoned(x) == [x EXCEPT !.reusable = FALSE]
     IN  \/ /\ sock[s].wire # <<>>
            /\ Leave(c, s, IF Piece(c).kind \in {"end", "end+"}
                           THEN [Rest(c) EXCEPT !.response_open = FALSE, !.pending = Piece(c).kind = "end+"]
                           ELSE Poisoned(Rest(c)), "done")
         \/ \* closed, or DRAIN_MAX_MS
            /\ sock[s].wire = <<>>
            /\ put(s, Poisoned(sock[s])) /\ call' = Ends(c, "done")

(***************************************************************************)
(* The peer                                                                *)
(***************************************************************************)
Answers(s) ==
  /\ sock[s].life = "open" /\ sock[s].peer_open /\ sock[s].script # <<>>
  /\ LET piece == Head(sock[s].script)
     IN  /\ sock' = [sock EXCEPT ![s] = [sock[s] EXCEPT !.wire = Append(@, piece), !.script = Tail(@),
                                                         !.answering = piece.of]]
         /\ call' = IF sock[s].answering = piece.of THEN call ELSE [call EXCEPT ![piece.of].runs = @ + 1]
  /\ UNCHANGED idle

\* Also while idle.
PeerCloses(s) ==
  /\ sock[s].life = "open" /\ sock[s].peer_open
  /\ sock' = [sock EXCEPT ![s] = [sock[s] EXCEPT !.peer_open = FALSE, !.script = <<>>]]
  /\ UNCHANGED <<idle, call>>

Exchange(c) == Obtain(c) \/ Send(c) \/ ReadHead(c) \/ ReadBody(c) \/ DrainTail(c)

PoolNext ==
  \/ \E c \in Calls : Exchange(c)
  \/ \E s \in Sockets : GrowsOld(s) \/ Answers(s) \/ PeerCloses(s)
  \/ \E k \in Keys : Drain(k)

PoolSpec == PoolInit /\ [][PoolNext]_poolVars

-----------------------------------------------------------------------------

\* Nobody reads a byte of another call's answer, whatever was left on the
\* connection it was given; a call that may not run twice does not, though it is
\* sent twice; and a connection is at rest once, or in one hand.
ExchangeSound ==
  /\ \A c \in Calls : call[c].read \subseteq {c}
  /\ \A c \in Calls : c \notin Idempotent => call[c].runs <= 1
  /\ \A s \in Sockets :
       Cardinality({c \in Calls : call[c].on = s}) + Cardinality({k \in Keys : s \in Range(idle[k])}) <= 1
  /\ Total <= max_idle_total

=============================================================================
