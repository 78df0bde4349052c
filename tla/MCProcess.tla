----------------------------- MODULE MCProcess ------------------------------
(***************************************************************************)
(* What one process holds from its start to its stop, for TLC.  A          *)
(* behaviour is one of five parts, the others at rest: the lock of the     *)
(* state directory, the store under it, the listeners and the stop, the  *)
(* upstream connections, or what is read from one.                         *)
(***************************************************************************)
EXTENDS ProcessLock, Store, Lifecycle, Pool, Framing

VARIABLE part

parts == <<vars, storeVars, lifeVars, poolVars, wireVars, part>>

MCListenerOf == [c \in Clients |-> "inference"]

MCPoolKey == [c \in Calls |-> "upstream"]
MCScripts == {<<"head", "data", "done", "end">>, <<"bit", "head", "data", "end">>, <<"head", "done+", "end">>,
              <<"head", "done", "data", "end">>, <<"head_close", "end">>, <<"head_delim", "data", "done">>,
              <<"head", "end+">>, <<"refused", "end">>}

Some(kind, tokens, longest) ==
  [kind |-> kind, tokens |-> tokens, longest |-> longest, length |-> 2, sent |-> <<>>, said |-> <<>>]
Bytes(kind, bytes) == [Some(kind, {}, 0) EXCEPT !.sent = bytes]
Silence == Some("none", {}, 0)
\* Two events, the text of the first with line ends in it.
Own(text) ==
  LET said == <<[event |-> <<"x">>, data |-> text], [event |-> <<"LF">>, data |-> <<"x">>]>>
  IN  [Bytes("sse", encode_event(said[1].event, said[1].data) \o encode_event(said[2].event, said[2].data))
         EXCEPT !.said = said]
\* Two chunks, a trailer, and the start of what follows, with one byte replaced.
Intact == encode_chunk(<<"x">>) \o encode_chunk(<<"x", "LF">>)
            \o <<"0", "CR", "LF", "x", ":", "CR", "LF", "CR", "LF", "1", "CR">>
MCWireScenes ==
  {Some("sse", {"CR", "LF", "data", ":"}, 7), Some("sse", {"B1", "B2", "LF", "data", ":"}, 5),
   Some("sse", {" ", ":", "data", "event", "LF"}, 5),
   Some("chunked", {"0", "1", "CR", "LF", "x"}, 6), Some("chunked", {"0", "CR", "LF", ";"}, 6),
   Some("fixed", {"x"}, 4), Some("close", {"x"}, 4), Silence}
  \cup {Own(d) : d \in UNION {[1..n -> {"CR", "LF", "x", " "}] : n \in 0..3}}
  \cup {Bytes("chunked", [Intact EXCEPT ![i] = t]) : i \in DOMAIN Intact, t \in {"0", "1", "CR", "LF", "x", ";"}}

PartInit ==
  /\ part \in {"lock", "store", "stop", "pool", "wire"}
  /\ Init /\ StoreInit /\ LifeInit /\ PoolInit /\ WireInit
  /\ part # "lock" => \A f \in Files : file[f] = NoFile
  /\ part # "wire" => ws = Silence

PartNext ==
  /\ \/ part = "lock" /\ Next /\ UNCHANGED <<storeVars, lifeVars, poolVars, wireVars>>
     \/ part = "store" /\ StoreNext /\ UNCHANGED <<vars, lifeVars, poolVars, wireVars>>
     \/ part = "stop" /\ LifeNext /\ UNCHANGED <<vars, storeVars, poolVars, wireVars>>
     \/ part = "pool" /\ PoolNext /\ UNCHANGED <<vars, storeVars, lifeVars, wireVars>>
     \/ part = "wire" /\ WireNext /\ UNCHANGED <<vars, storeVars, lifeVars, poolVars>>
  /\ UNCHANGED part

\* The fairness of the lock and of the stop, each in its own part.
Locking(A) == part = "lock" /\ A /\ UNCHANGED <<left, storeVars, lifeVars, poolVars, wireVars, part>>
Stopping(A) == part = "stop" /\ Running(A) /\ UNCHANGED <<vars, storeVars, poolVars, wireVars, part>>

PartSpec ==
  /\ PartInit /\ [][PartNext]_parts
  /\ \A p \in Procs : WF_parts(Locking(Acquire(p)))
  /\ \A f \in Files : WF_parts(Locking(GraceElapses(f)))
  /\ \A l \in Listeners : WF_parts(Stopping(AcceptLoop(l)))
  /\ WF_parts(Stopping(Signal)) /\ WF_parts(Stopping(MainStep))
  /\ \A a \in Aides : WF_parts(Stopping(AideEnds(a)))

\* Nothing left behind by a dead process wedges the directory: as long as a
\* process that does not die keeps being restarted, somebody keeps holding it.
NeverWedges == part = "lock" => NeverWedged
=============================================================================
