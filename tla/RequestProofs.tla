--------------------------- MODULE RequestProofs ---------------------------
(***************************************************************************)
(* Attempt for any requests, targets, candidate lists, gates, endings and  *)
(* passes: everything an attempt takes is given back on whichever path it  *)
(* leaves by, what is charged is what was accepted, and nothing is         *)
(* answered twice.  Stream for any words of any provider, any number of    *)
(* events and of attempts: what the client reads is of one attempt, and is *)
(* a stream its dialect allows.  Routing for any records in any order: who *)
(* may use the alias, and whose machines, is as the strongest record says. *)
(***************************************************************************)
EXTENDS Attempt, Stream, Routing, FiniteSetTheorems, WellFoundedInduction, TLAPS

Pcs == {"idle", "gate", "bytes", "reserve", "fund", "ready", "enter", "send", "leave", "settle",
        "out", "wait", "unparked", "done"}

Candidates == [target : Targets, residency : {"warm", "coming", "cold"}]

Exclusions == {"unreachable", "other", "budget", "capacity", "queued"}

Threads ==
  [pc : Pcs, mode : {"first", "parked", "recpark", "recovery"}, left : Seq(Candidates), n : Nat,
   first_family : {Family[t] : t \in Targets} \cup {"none"},
   excl : SUBSET Exclusions, tried : SUBSET {"deadline", "curable", "failed"},
   err : {"none", "refusal", "outage"}, saw : BOOLEAN, sent : {"none", "old", "new"},
   fallback : BOOLEAN, end : Ends \cup {"none"}, late : BOOLEAN, rounds : Nat]

\* Every variable holds what its declaration says.
AttemptTypeOK ==
  /\ scene \in Scenes
  /\ req \in [Requests -> Threads]
  /\ permit \in [Targets -> Int] /\ slot \in [Targets -> Int]
  /\ dispatch \in [Targets -> Int] /\ inflight \in [Targets -> Int]
  /\ hold \in [Requests -> Int]
  /\ parked \in Int /\ recovering \in Int
  /\ secret \in [current : {"old", "new"}, previous : {"none", "old"}]

(***************************************************************************)
(* A thread inside an attempt has the candidate it is on, one that waits   *)
(* was sent there by a loop, and one that unparked was parked.  An end is  *)
(* one an upstream may give, and a model to wait for is one that something *)
(* holds back.                                                             *)
(***************************************************************************)
Formed(q) ==
  /\ q.pc \in AfterPermit => q.left # <<>>
  /\ q.pc = "wait" => q.mode # "first"
  /\ q.pc = "unparked" => q.mode \in {"parked", "recpark"}
  /\ q.pc \in {"leave", "settle"} => q.end \in scene.answers \cup {"auth"}
  /\ "queued" \in q.excl => "claimed" \in scene.refuses \/ "queued" \in scene.starts

\* There is a superseded secret only where the credential is rotated.
RotationKnown == secret.previous # "none" => scene.rotates

\* Nobody attempts for a request that did not come.
OnlyWhoCame == \A r \in Requests : r \notin scene.who => req[r].pc = "idle"

HoldInv ==
  /\ AttemptTypeOK /\ RotationKnown /\ OnlyWhoCame
  /\ \A r \in Requests : Formed(req[r])
  /\ HoldsExact

-----------------------------------------------------------------------------
(* What a thread's step does to the books *)

\* A count that goes up when a thread comes to hold one and down when it no
\* longer does.
Moved(f, x, was, is) == IF was = is THEN f ELSE IF is THEN Inc(f, x) ELSE Dec(f, x)

One(b) == IF b THEN 1 ELSE 0

ParkedIn(q) == q.mode \in {"parked", "recpark"} /\ q.pc \notin {"unparked", "done"}
RecoversIn(q) == q.mode \in {"recovery", "recpark"} /\ q.pc # "done"

Carried(r, q, h) ==
  /\ permit' = Moved(permit, h, req[r].pc \in AfterPermit, q.pc \in AfterPermit)
  /\ slot' = Moved(slot, h, req[r].pc \in AfterSlot, q.pc \in AfterSlot)
  /\ dispatch' = Moved(dispatch, h, req[r].pc \in {"send", "leave"}, q.pc \in {"send", "leave"})
  /\ inflight' = Moved(inflight, h, req[r].pc \in {"send", "leave"}, q.pc \in {"send", "leave"})
  /\ hold' = Moved(hold, r, Keyed(r) /\ req[r].pc \in AfterFunds, Keyed(r) /\ q.pc \in AfterFunds)

Books(r, q, h) ==
  /\ Carried(r, q, h)
  /\ parked' = parked + One(ParkedIn(q)) - One(ParkedIn(req[r]))
  /\ recovering' = recovering + One(RecoversIn(q)) - One(RecoversIn(req[r]))

\* A step of thread r: it becomes q, at candidate h before and after.
Turn(r, q, h) ==
  /\ r \in scene.who /\ scene' = scene
  /\ req' = [req EXCEPT ![r] = q]
  /\ q \in Threads /\ Formed(q)
  /\ req[r].pc \in AfterPermit => h = Here(r)
  /\ q.pc \in AfterPermit => q.left # <<>> /\ h = Head(q.left).target
  /\ secret' \in {secret, [secret EXCEPT !.previous = "none"]}
  /\ Books(r, q, h)

-----------------------------------------------------------------------------
(* Counting *)

\* Two sets that differ at most in one request.
LEMMA Recount ==
  ASSUME NEW A \in SUBSET Requests, NEW B \in SUBSET Requests, NEW r \in Requests,
         A \ {r} = B \ {r}
  PROVE  /\ Cardinality(A) \in Nat /\ Cardinality(B) \in Nat
         /\ Cardinality(B) = Cardinality(A) + One(r \in B) - One(r \in A)
<1>1. IsFiniteSet(A) /\ IsFiniteSet(B)
    BY FS_Subset, AttemptAssumption
<1>2. /\ Cardinality(A) \in Nat /\ Cardinality(B) \in Nat
    BY <1>1, FS_CardinalityType
<1>3. Cardinality(A \ {r}) = Cardinality(A) - One(r \in A)
    <2>1. Cardinality(A \ {r}) = IF r \in A THEN Cardinality(A) - 1 ELSE Cardinality(A)
        BY <1>1, FS_RemoveElement
    <2> QED
        BY <1>2, <2>1 DEF One
<1>4. Cardinality(B \ {r}) = Cardinality(B) - One(r \in B)
    <2>1. Cardinality(B \ {r}) = IF r \in B THEN Cardinality(B) - 1 ELSE Cardinality(B)
        BY <1>1, FS_RemoveElement
    <2> QED
        BY <1>2, <2>1 DEF One
<1> QED
    BY <1>2, <1>3, <1>4 DEF One

HoldersIn(rq, who, t, where) ==
  {r \in Requests : r \in who /\ rq[r].pc \in where /\ Head(rq[r].left).target = t}

\* The books still agree after a step of any thread.
LEMMA TurnKeeps ==
  ASSUME HoldInv, NEW r \in Requests, NEW q, NEW h, Turn(r, q, h)
  PROVE  HoldInv'
<1>0. /\ AttemptTypeOK /\ HoldsExact /\ \A x \in Requests : Formed(req[x])
      /\ req \in [Requests -> Threads] /\ q \in Threads /\ scene' = scene /\ r \in scene.who
      /\ req' = [req EXCEPT ![r] = q] /\ Books(r, q, h) /\ Formed(q)
    BY DEF HoldInv, AttemptTypeOK, Turn
<1>1. req' \in [Requests -> Threads]
    BY <1>0
<1>2. \A x \in Requests : Formed(req'[x])
    BY <1>0
<1>3. \A x \in Requests : Formed(req[x])'
    BY <1>0, <1>2 DEF Formed
<1>4. req[r].pc \in AfterPermit => h = Head(req[r].left).target /\ h \in Targets
    <2>1. SUFFICES ASSUME req[r].pc \in AfterPermit PROVE Head(req[r].left).target \in Targets
        BY DEF Turn, Here
    <2>2. req[r].left \in Seq(Candidates) /\ req[r].left # <<>>
        BY <1>0, <2>1 DEF Formed, Threads
    <2>3. Head(req[r].left) \in Candidates
        BY <2>2
    <2> QED
        BY <2>3 DEF Candidates
<1>5. q.pc \in AfterPermit => h = Head(q.left).target /\ h \in Targets
    <2>1. SUFFICES ASSUME q.pc \in AfterPermit PROVE Head(q.left).target \in Targets
        BY DEF Turn
    <2>2. q.left \in Seq(Candidates) /\ q.left # <<>>
        BY <1>0, <2>1 DEF Formed, Threads
    <2>3. Head(q.left) \in Candidates
        BY <2>2
    <2> QED
        BY <2>3 DEF Candidates
<1>6. AfterSlot \subseteq AfterPermit /\ {"send", "leave"} \subseteq AfterPermit
    BY DEF AfterSlot, AfterPermit
<1>7. \A t, where : Holders(t, where) = HoldersIn(req, scene.who, t, where)
    BY DEF Holders, Holding, HoldersIn, Here
<1>8. \A t, where : Holders(t, where)' = HoldersIn([req EXCEPT ![r] = q], scene.who, t, where)
    BY <1>0 DEF Holders, Holding, HoldersIn, Here
<1>9. ASSUME NEW f \in [Targets -> Int], NEW where, where \subseteq AfterPermit,
             \A t \in Targets : f[t] = Cardinality(Holders(t, where)),
             NEW g, g = Moved(f, h, req[r].pc \in where, q.pc \in where)
      PROVE  /\ g \in [Targets -> Int]
             /\ \A t \in Targets : g[t] = Cardinality(HoldersIn([req EXCEPT ![r] = q], scene.who, t, where))
    <2>1. \A t \in Targets : f[t] = Cardinality(HoldersIn(req, scene.who, t, where))
        BY <1>7, <1>9
    <2>2. /\ req[r].pc \in where => h = Head(req[r].left).target /\ h \in Targets
          /\ q.pc \in where => h = Head(q.left).target /\ h \in Targets
        BY <1>4, <1>5, <1>9
    <2>3. g \in [Targets -> Int]
        BY <1>9, <2>2 DEF Moved, Inc, Dec
    <2>4. ASSUME NEW t \in Targets
          PROVE  g[t] = Cardinality(HoldersIn([req EXCEPT ![r] = q], scene.who, t, where))
        <3> DEFINE A == HoldersIn(req, scene.who, t, where)
                   B == HoldersIn([req EXCEPT ![r] = q], scene.who, t, where)
        <3>1. A \in SUBSET Requests /\ B \in SUBSET Requests /\ A \ {r} = B \ {r}
            BY <1>0 DEF HoldersIn
        <3>2. (r \in A) = (req[r].pc \in where /\ h = t)
            BY <1>0, <2>2 DEF HoldersIn
        <3>3. (r \in B) = (q.pc \in where /\ h = t)
            BY <1>0, <2>2 DEF HoldersIn
        <3>4. f[t] = Cardinality(A) /\ f[t] \in Int
            BY <2>1
        <3> HIDE DEF A, B
        <3>5. Cardinality(B) = f[t] + One(r \in B) - One(r \in A)
            BY <3>1, <3>4, Recount
        <3>6. g[t] = f[t] + One(r \in B) - One(r \in A)
            BY <1>9, <2>2, <3>2, <3>3, <3>4 DEF One, Moved, Inc, Dec
        <3> QED
            BY <3>5, <3>6 DEF B
    <2> QED
        BY <2>3, <2>4
<1>10. /\ permit' \in [Targets -> Int]
       /\ \A t \in Targets : permit'[t] = Cardinality(Holders(t, AfterPermit)')
    <2>1. permit \in [Targets -> Int] /\ \A t \in Targets : permit[t] = Cardinality(Holders(t, AfterPermit))
        BY <1>0 DEF AttemptTypeOK, HoldsExact
    <2>2. permit' = Moved(permit, h, req[r].pc \in AfterPermit, q.pc \in AfterPermit)
        BY <1>0 DEF Books, Carried
    <2> QED
        BY <1>8, <1>9, <2>1, <2>2
<1>11. /\ slot' \in [Targets -> Int]
       /\ \A t \in Targets : slot'[t] = Cardinality(Holders(t, AfterSlot)')
    <2>1. slot \in [Targets -> Int] /\ \A t \in Targets : slot[t] = Cardinality(Holders(t, AfterSlot))
        BY <1>0 DEF AttemptTypeOK, HoldsExact
    <2>2. slot' = Moved(slot, h, req[r].pc \in AfterSlot, q.pc \in AfterSlot)
        BY <1>0 DEF Books, Carried
    <2> QED
        BY <1>6, <1>8, <1>9, <2>1, <2>2
<1>12. /\ dispatch' \in [Targets -> Int]
       /\ \A t \in Targets : dispatch'[t] = Cardinality(Holders(t, {"send", "leave"})')
    <2>1. /\ dispatch \in [Targets -> Int]
          /\ \A t \in Targets : dispatch[t] = Cardinality(Holders(t, {"send", "leave"}))
        BY <1>0 DEF AttemptTypeOK, HoldsExact
    <2>2. dispatch' = Moved(dispatch, h, req[r].pc \in {"send", "leave"}, q.pc \in {"send", "leave"})
        BY <1>0 DEF Books, Carried
    <2> QED
        BY <1>6, <1>8, <1>9, <2>1, <2>2
<1>13. inflight' = dispatch'
    <2>1. inflight = dispatch
        BY <1>0 DEF AttemptTypeOK, HoldsExact
    <2> QED
        BY <1>0, <2>1 DEF Books, Carried
<1>14. /\ hold' \in [Requests -> Int]
       /\ \A x \in Requests : hold'[x] = (IF Keyed(x) /\ Holding(x, AfterFunds) THEN 1 ELSE 0)'
    <2>1. /\ hold \in [Requests -> Int]
          /\ \A x \in Requests : hold[x] = IF Keyed(x) /\ Holding(x, AfterFunds) THEN 1 ELSE 0
        BY <1>0 DEF AttemptTypeOK, HoldsExact
    <2>2. hold' = Moved(hold, r, Keyed(r) /\ req[r].pc \in AfterFunds, Keyed(r) /\ q.pc \in AfterFunds)
        BY <1>0 DEF Books, Carried
    <2>3. hold' \in [Requests -> Int] /\ \A x \in Requests \ {r} : hold'[x] = hold[x]
        BY <2>1, <2>2 DEF Moved, Inc, Dec
    <2>4. hold'[r] = IF Keyed(r) /\ q.pc \in AfterFunds THEN 1 ELSE 0
        <3> DEFINE was == Keyed(r) /\ req[r].pc \in AfterFunds
                   is == Keyed(r) /\ q.pc \in AfterFunds
        <3>1. hold[r] = IF was THEN 1 ELSE 0
            BY <1>0, <2>1 DEF Holding
        <3>2. hold' = Moved(hold, r, was, is)
            BY <2>2
        <3> HIDE DEF was, is
        <3>3. was \in BOOLEAN /\ is \in BOOLEAN
            BY DEF was, is
        <3>4. CASE was = is
            BY <2>1, <3>1, <3>2, <3>4 DEF Moved, is
        <3>5. CASE was # is /\ is
            <4>1. hold' = [hold EXCEPT ![r] = hold[r] + 1] /\ hold[r] = 0
                BY <3>1, <3>2, <3>3, <3>5 DEF Moved, Inc
            <4> QED
                BY <2>1, <3>5, <4>1 DEF is
        <3>6. CASE was # is /\ ~is
            <4>1. hold' = [hold EXCEPT ![r] = hold[r] - 1] /\ hold[r] = 1
                BY <3>1, <3>2, <3>3, <3>6 DEF Moved, Dec
            <4> QED
                BY <2>1, <3>6, <4>1 DEF is
        <3> QED
            BY <3>4, <3>5, <3>6
    <2> QED
        BY <1>0, <2>1, <2>3, <2>4 DEF Holding, Keyed
<1>15. ASSUME NEW A, NEW B, A = {x \in scene.who : ParkedIn(req[x])}, B = {x \in scene.who : ParkedIn(req'[x])}
       PROVE  Cardinality(B) = Cardinality(A) + One(ParkedIn(q)) - One(ParkedIn(req[r])) /\ Cardinality(A) \in Nat
    <2>1. scene.who \in SUBSET Requests
        BY <1>0, AttemptAssumption DEF AttemptTypeOK, SceneType
    <2>2. A \in SUBSET Requests /\ B \in SUBSET Requests /\ A \ {r} = B \ {r}
        BY <1>0, <1>15, <2>1
    <2>3. (r \in A) = ParkedIn(req[r]) /\ (r \in B) = ParkedIn(q)
        BY <1>0, <1>15 DEF ParkedIn
    <2> QED
        BY <2>2, <2>3, Recount
<1>16. ASSUME NEW A, NEW B, A = {x \in scene.who : RecoversIn(req[x])}, B = {x \in scene.who : RecoversIn(req'[x])}
       PROVE  Cardinality(B) = Cardinality(A) + One(RecoversIn(q)) - One(RecoversIn(req[r])) /\ Cardinality(A) \in Nat
    <2>1. scene.who \in SUBSET Requests
        BY <1>0, AttemptAssumption DEF AttemptTypeOK, SceneType
    <2>2. A \in SUBSET Requests /\ B \in SUBSET Requests /\ A \ {r} = B \ {r}
        BY <1>0, <1>16, <2>1
    <2>3. (r \in A) = RecoversIn(req[r]) /\ (r \in B) = RecoversIn(q)
        BY <1>0, <1>16 DEF RecoversIn
    <2> QED
        BY <2>2, <2>3, Recount
<1>17. /\ parked = Cardinality({x \in scene.who : ParkedIn(req[x])})
       /\ recovering = Cardinality({x \in scene.who : RecoversIn(req[x])})
    BY <1>0 DEF HoldsExact, ParkedIn, RecoversIn
<1>18. /\ parked' = Cardinality({x \in scene.who : ParkedIn(req'[x])}) /\ parked' \in Int
       /\ recovering' = Cardinality({x \in scene.who : RecoversIn(req'[x])}) /\ recovering' \in Int
    BY <1>0, <1>15, <1>16, <1>17 DEF Books, One
<1>19. AttemptTypeOK'
    <2>1. secret' \in [current : {"old", "new"}, previous : {"none", "old"}]
        BY <1>0 DEF AttemptTypeOK, Turn
    <2> QED
        BY <1>0, <1>1, <1>10, <1>11, <1>12, <1>13, <1>14, <1>18, <2>1 DEF AttemptTypeOK
<1>20. HoldsExact'
    BY <1>0, <1>10, <1>11, <1>12, <1>13, <1>14, <1>18 DEF HoldsExact, ParkedIn, RecoversIn
<1>21. RotationKnown'
    BY <1>0 DEF HoldInv, RotationKnown, Turn, AttemptTypeOK
<1>22. OnlyWhoCame'
    BY <1>0 DEF HoldInv, OnlyWhoCame
<1> QED
    BY <1>3, <1>19, <1>20, <1>21, <1>22 DEF HoldInv

-----------------------------------------------------------------------------
(* Each step is a turn *)

\* `continue` leaves the candidate behind and its reason in the trace.
LEMMA OnwardFacts ==
  ASSUME req \in [Requests -> Threads], NEW r \in Requests, NEW why \in SUBSET Exclusions,
         req[r].left # <<>>
  PROVE  \E q \in Threads : /\ Continue(r, why) = q
                            /\ q.pc = "gate" /\ q.mode = req[r].mode
                            /\ q.excl = req[r].excl \cup why
<1> DEFINE q == [req[r] EXCEPT !.pc = "gate", !.left = Tail(@), !.n = @ + 1, !.excl = @ \cup why]
<1>1. req[r] \in Threads /\ req[r].left \in Seq(Candidates)
    BY DEF Threads
<1>2. Tail(req[r].left) \in Seq(Candidates)
    BY <1>1
<1>3. Continue(r, why) = q
    BY DEF Continue
<1>4. req[r].n + 1 \in Nat /\ req[r].excl \cup why \in SUBSET Exclusions /\ "gate" \in Pcs
    BY <1>1 DEF Threads, Pcs
<1>5. q \in Threads
    BY <1>1, <1>2, <1>4 DEF Threads
<1>6. q.pc = "gate" /\ q.mode = req[r].mode /\ q.excl = req[r].excl \cup why
    BY <1>1 DEF Threads
<1> HIDE DEF q
<1> QED
    BY <1>3, <1>5, <1>6

\* A thread that goes to the next stage keeps everything else.
LEMMA GotoFacts ==
  ASSUME req \in [Requests -> Threads], NEW r \in Requests, NEW pc \in Pcs
  PROVE  \E q \in Threads : /\ Goto(r, pc) = [req EXCEPT ![r] = q]
                            /\ q.pc = pc /\ q.mode = req[r].mode /\ q.left = req[r].left
                            /\ q.end = req[r].end /\ q.excl = req[r].excl /\ q.err = req[r].err
                            /\ q.saw = req[r].saw /\ q.tried = req[r].tried
<1> DEFINE q == [req[r] EXCEPT !.pc = pc]
<1>1. req[r] \in Threads
    OBVIOUS
<1>2. /\ Goto(r, pc) = [req EXCEPT ![r] = q] /\ q \in Threads
      /\ q.pc = pc /\ q.mode = req[r].mode /\ q.left = req[r].left
      /\ q.end = req[r].end /\ q.excl = req[r].excl /\ q.err = req[r].err
      /\ q.saw = req[r].saw /\ q.tried = req[r].tried
    BY <1>1 DEF Goto, Threads
<1> HIDE DEF q
<1> QED
    BY <1>2

(***************************************************************************)
(* The four kinds of turns.  Outside an exchange nobody outside sees       *)
(* anything, and a thread that is out of a pass goes on only if it awaits  *)
(* something.                                                              *)
(***************************************************************************)
Quiet(r, q) ==
  /\ UNCHANGED seen
  /\ req[r].pc \notin {"send", "leave", "settle", "done"} /\ q.pc \notin {"leave", "settle"}
  /\ req[r].pc \in {"out", "unparked"} =>
       \/ q.pc = "done"
       \/ q.pc = "wait" /\ (awaits_activation(req[r]) \/ awaits_recovery(req[r]))
       \/ /\ q.pc = "unparked" /\ q.err = req[r].err /\ q.saw = req[r].saw
          /\ q.tried = req[r].tried /\ q.excl = req[r].excl

Exchanged(r, q) ==
  /\ req[r].pc = "send" /\ UNCHANGED <<charged, spent>>
  /\ \/ q.pc = "send" /\ UNCHANGED <<worked, heard>>
     \/ /\ q.pc = "leave"
        /\ \E e \in scene.answers \cup {"auth"} :
             /\ Upstream(r, e)
             /\ q.end = e \/ (scene.rotates /\ e \in scene.answers \ {"served"} /\ q.end = "auth")

Left(r, q) ==
  req[r].pc = "leave" /\ q.pc = "settle" /\ q.end = req[r].end /\ UNCHANGED seen

Settled(r, q) ==
  LET e == req[r].end
  IN  /\ req[r].pc = "settle" /\ UNCHANGED <<worked, heard>>
      /\ charged' = IF Charged(e) THEN Inc(charged, r) ELSE charged
      /\ spent' = IF Charged(e) /\ Keyed(r) THEN Inc(spent, r) ELSE spent
      /\ \/ q.pc = "gate" /\ may_failover(e, r \in scene.idempotent)
         \/ /\ q.pc = "out" /\ q.excl = req[r].excl
            /\ q.saw = (req[r].saw \/ Phase(e) = "output")
            /\ q.err = IF e = "served" THEN "none" ELSE CodeOf(e)
            /\ e \notin {"served", "unreachable"} => "failed" \in q.tried

Turns(r) ==
  \E q, h : Turn(r, q, h) /\ (Quiet(r, q) \/ Exchanged(r, q) \/ Left(r, q) \/ Settled(r, q))

\* What every proof about a step of a thread starts from.
LEMMA Thread ==
  ASSUME HoldInv, NEW r \in Requests
  PROVE  /\ scene \in SceneType /\ req \in [Requests -> Threads] /\ req[r] \in Threads
         /\ Formed(req[r]) /\ parked \in Int /\ recovering \in Int
         /\ req[r].left \in Seq(Candidates) /\ req[r].excl \in SUBSET Exclusions
         /\ req[r].n \in Nat /\ req[r].rounds \in Nat
BY AttemptAssumption DEF HoldInv, AttemptTypeOK, Threads

\* A turn that stays outside the attempt and in its loop.
LEMMA OutsideTurn ==
  ASSUME HoldInv, NEW r \in Requests, r \in scene.who, NEW q \in Threads,
         UNCHANGED <<scene, shared>>, req' = [req EXCEPT ![r] = q],
         req[r].pc \in {"idle", "gate", "out", "wait"}, q.pc \in {"gate", "out", "wait"},
         q.mode = req[r].mode, q.pc = "wait" => q.mode # "first",
         "queued" \in q.excl => "claimed" \in scene.refuses \/ "queued" \in scene.starts
  PROVE  Turn(r, q, Here(r))
<1>1. parked \in Int /\ recovering \in Int
    BY Thread
<1> QED
    BY <1>1 DEF Turn, Books, Carried, Moved, One, ParkedIn, RecoversIn, Formed, AfterPermit, AfterSlot, AfterFunds, shared

\* Routing, and the head of the loop.
LEMMA RouteTurn ==
  ASSUME HoldInv, NEW r \in Requests, At(r, "idle") \/ At(r, "wait"), NEW list \in scene.routes,
         Route(r, list)
  PROVE  Turns(r)
<1>0. /\ scene \in SceneType /\ req \in [Requests -> Threads] /\ req[r] \in Threads
      /\ Formed(req[r]) /\ req[r].rounds \in Nat
    BY Thread
<1> DEFINE q == [req[r] EXCEPT !.pc = IF list = <<>> THEN "out" ELSE "gate",
                   !.left = list, !.n = 0, !.first_family = "none",
                   !.excl = IF list = <<>> THEN {"unreachable"} ELSE {},
                   !.tried = {}, !.saw = FALSE, !.err = IF list = <<>> THEN "outage" ELSE "none",
                   !.rounds = @ + 1]
<1>1. list \in Seq(Candidates)
    BY <1>0 DEF SceneType, Candidates
<1>2. q \in Threads
    <2>1. /\ (IF list = <<>> THEN "out" ELSE "gate") \in Pcs
          /\ (IF list = <<>> THEN {"unreachable"} ELSE {}) \in SUBSET Exclusions
          /\ (IF list = <<>> THEN "outage" ELSE "none") \in {"none", "refusal", "outage"}
          /\ req[r].rounds + 1 \in Nat
        BY <1>0 DEF Pcs, Exclusions
    <2> QED
        BY <1>0, <1>1, <2>1 DEF Threads
<1>3. q.pc \in {"gate", "out"} /\ q.mode = req[r].mode /\ "queued" \notin q.excl
    BY <1>0 DEF Threads
<1>4. req' = [req EXCEPT ![r] = q]
    BY <1>0 DEF Route
<1>5. UNCHANGED <<scene, shared, seen>>
    BY DEF Route
<1> HIDE DEF q
<1>6. Turn(r, q, Here(r))
    BY <1>2, <1>3, <1>4, <1>5, OutsideTurn DEF At
<1>7. Quiet(r, q)
    BY <1>3, <1>5 DEF Quiet, At
<1> QED
    BY <1>6, <1>7 DEF Turns

LEMMA HeadTurn ==
  ASSUME HoldInv, NEW r \in Requests, OutOfCandidates(r) \/ OutOfTime(r) \/ FamilyRefused(r)
  PROVE  Turns(r)
<1>0. /\ scene \in SceneType /\ req \in [Requests -> Threads] /\ req[r] \in Threads
      /\ Formed(req[r])
    BY Thread
<1>1. /\ At(r, "gate") /\ UNCHANGED <<scene, shared, seen>>
    BY DEF OutOfCandidates, OutOfTime, FamilyRefused, More
<1>2. \E q \in Threads : /\ q.pc \in {"gate", "out"} /\ q.mode = req[r].mode
                         /\ req' = [req EXCEPT ![r] = q]
                         /\ q.excl = req[r].excl \/ q.excl = req[r].excl \cup {"other"}
    <2>1. CASE OutOfCandidates(r)
        <3> DEFINE err == IF req[r].err = "none" THEN "outage" ELSE req[r].err
                   q == [req[r] EXCEPT !.pc = "out", !.err = err, !.left = <<>>]
        <3>1. err \in {"none", "refusal", "outage"} /\ <<>> \in Seq(Candidates) /\ "out" \in Pcs
            BY <1>0 DEF Threads, Pcs
        <3>2. req' = [req EXCEPT ![r] = q]
            BY <1>0, <2>1 DEF OutOfCandidates, Return
        <3> HIDE DEF err
        <3>3. q \in Threads /\ q.pc = "out" /\ q.mode = req[r].mode /\ q.excl = req[r].excl
            BY <1>0, <3>1 DEF Threads
        <3> QED
            BY <3>2, <3>3
    <2>2. CASE OutOfTime(r)
        <3> DEFINE q == [req[r] EXCEPT !.pc = "out", !.err = "outage", !.left = <<>>,
                                       !.tried = @ \cup {"deadline"}]
        <3>1. <<>> \in Seq(Candidates) /\ "out" \in Pcs
              /\ req[r].tried \cup {"deadline"} \in SUBSET {"deadline", "curable", "failed"}
            BY <1>0 DEF Threads, Pcs
        <3>2. req' = [req EXCEPT ![r] = q]
            BY <1>0, <2>2 DEF OutOfTime, Return
        <3>3. q \in Threads /\ q.pc = "out" /\ q.mode = req[r].mode /\ q.excl = req[r].excl
            BY <1>0, <3>1 DEF Threads
        <3> QED
            BY <3>2, <3>3
    <2>3. CASE FamilyRefused(r)
        <3>1. req' = [req EXCEPT ![r] = Continue(r, {"other"})] /\ req[r].left # <<>> /\ {"other"} \in SUBSET Exclusions
            BY <2>3 DEF FamilyRefused, More, Exclusions
        <3> QED
            BY <1>0, <3>1, OnwardFacts
    <2> QED
        BY <2>1, <2>2, <2>3
<1>3. PICK q \in Threads : /\ q.pc \in {"gate", "out"} /\ q.mode = req[r].mode
                           /\ req' = [req EXCEPT ![r] = q]
                           /\ q.excl = req[r].excl \/ q.excl = req[r].excl \cup {"other"}
    BY <1>2
<1>4. "queued" \in q.excl => "claimed" \in scene.refuses \/ "queued" \in scene.starts
    BY <1>0, <1>3 DEF Formed
<1>5. Turn(r, q, Here(r))
    BY <1>1, <1>3, <1>4, OutsideTurn DEF At
<1>6. Quiet(r, q)
    BY <1>1, <1>3 DEF Quiet, At
<1> QED
    BY <1>5, <1>6 DEF Turns

\* A turn inside the attempt: the next stage, with one more thing held.
LEMMA InsideTurn ==
  ASSUME HoldInv, NEW r \in Requests, r \in scene.who, NEW q \in Threads,
         req' = [req EXCEPT ![r] = q], UNCHANGED <<scene, parked, recovering>>,
         secret' \in {secret, [secret EXCEPT !.previous = "none"]},
         req[r].pc \in AfterPermit \cup {"gate"}, q.pc \in AfterPermit, req[r].left # <<>>,
         q.mode = req[r].mode, q.left = req[r].left,
         q.pc \in {"leave", "settle"} => q.end \in scene.answers \cup {"auth"},
         q.excl = req[r].excl,
         Carried(r, q, Here(r))
  PROVE  Turn(r, q, Here(r))
<1>0. parked \in Int /\ recovering \in Int /\ Formed(req[r])
    BY Thread
<1>1. req[r].pc \notin {"unparked", "done", "wait"} /\ q.pc \notin {"unparked", "done", "wait"}
    BY DEF AfterPermit
<1>2. Formed(q)
    BY <1>0, <1>1 DEF Formed
<1>3. ParkedIn(q) = ParkedIn(req[r]) /\ RecoversIn(q) = RecoversIn(req[r])
    BY <1>1 DEF ParkedIn, RecoversIn
<1>4. /\ parked' = parked + One(ParkedIn(q)) - One(ParkedIn(req[r]))
      /\ recovering' = recovering + One(RecoversIn(q)) - One(RecoversIn(req[r]))
    BY <1>0, <1>3 DEF One
<1>5. Books(r, q, Here(r))
    BY <1>4 DEF Books
<1> QED
    BY <1>2, <1>5 DEF Turn, Here

\* A turn out of the attempt: everything held is given back.
LEMMA BackTurn ==
  ASSUME HoldInv, NEW r \in Requests, r \in scene.who, NEW q \in Threads,
         req' = [req EXCEPT ![r] = q], UNCHANGED <<scene, dispatch, inflight, parked, recovering, secret>>,
         req[r].pc \in AfterPermit \ {"send", "leave"}, q.pc \in {"gate", "out"}, q.mode = req[r].mode,
         "queued" \in q.excl => "claimed" \in scene.refuses \/ "queued" \in scene.starts,
         permit' = Dec(permit, Here(r)),
         slot' = IF req[r].pc \in AfterSlot THEN Dec(slot, Here(r)) ELSE slot,
         hold' = IF Keyed(r) /\ req[r].pc \in AfterFunds THEN Dec(hold, r) ELSE hold
  PROVE  Turn(r, q, Here(r))
<1>0. parked \in Int /\ recovering \in Int
    BY Thread
<1>1. req[r].pc \notin {"unparked", "done", "wait"}
    BY DEF AfterPermit
<1>2. Formed(q)
    BY DEF Formed, AfterPermit
<1>3. ParkedIn(q) = ParkedIn(req[r]) /\ RecoversIn(q) = RecoversIn(req[r])
    BY <1>1 DEF ParkedIn, RecoversIn
<1>4. /\ parked' = parked + One(ParkedIn(q)) - One(ParkedIn(req[r]))
      /\ recovering' = recovering + One(RecoversIn(q)) - One(RecoversIn(req[r]))
    BY <1>0, <1>3 DEF One
<1>5. q.pc \notin AfterPermit /\ q.pc \notin AfterSlot /\ q.pc \notin AfterFunds /\ q.pc \notin {"send", "leave"}
    BY DEF AfterPermit, AfterSlot, AfterFunds
<1>6. Books(r, q, Here(r))
    BY <1>4, <1>5 DEF Books, Carried, Moved
<1> QED
    BY <1>2, <1>5, <1>6 DEF Turn

\* The breaker, the bytes, the slot, the funds.
LEMMA GateTurn ==
  ASSUME HoldInv, NEW r \in Requests, Gate(r)
  PROVE  Turns(r)
<1>0. /\ req \in [Requests -> Threads] /\ Formed(req[r])
    BY Thread
<1>1. /\ At(r, "gate") /\ req[r].left # <<>>
      /\ UNCHANGED <<scene, slot, hold, dispatch, inflight, parked, recovering, secret, seen>>
    BY DEF Gate, More
<1>2. CASE req' = [req EXCEPT ![r] = Continue(r, {"unreachable"})] /\ permit' = permit
    <2>1. PICK q \in Threads : /\ Continue(r, {"unreachable"}) = q
                               /\ q.pc = "gate" /\ q.mode = req[r].mode
                               /\ q.excl = req[r].excl \cup {"unreachable"}
        BY <1>0, <1>1, OnwardFacts DEF Exclusions
    <2>2. "queued" \in q.excl => "claimed" \in scene.refuses \/ "queued" \in scene.starts
        BY <1>0, <2>1 DEF Formed
    <2>3. Turn(r, q, Here(r))
        BY <1>1, <1>2, <2>1, <2>2, OutsideTurn DEF At, shared
    <2>4. Quiet(r, q)
        BY <1>1, <2>1 DEF Quiet, At
    <2> QED
        BY <2>3, <2>4 DEF Turns
<1>3. CASE req' = Goto(r, "bytes") /\ permit' = Inc(permit, Here(r))
    <2>1. PICK q \in Threads : /\ Goto(r, "bytes") = [req EXCEPT ![r] = q]
                               /\ q.pc = "bytes" /\ q.mode = req[r].mode /\ q.left = req[r].left
                               /\ q.excl = req[r].excl
        BY <1>0, GotoFacts DEF Pcs
    <2>2. Carried(r, q, Here(r))
        BY <1>1, <1>3, <2>1 DEF At, Carried, Moved, AfterPermit, AfterSlot, AfterFunds
    <2>3. Turn(r, q, Here(r))
        BY <1>1, <1>3, <2>1, <2>2, InsideTurn DEF At, AfterPermit
    <2>4. Quiet(r, q)
        BY <1>1, <2>1 DEF Quiet, At
    <2> QED
        BY <2>3, <2>4 DEF Turns
<1> QED
    BY <1>2, <1>3 DEF Gate

LEMMA BytesTurn ==
  ASSUME HoldInv, NEW r \in Requests, Bytes(r)
  PROVE  Turns(r)
<1>0. /\ req \in [Requests -> Threads] /\ Formed(req[r])
    BY Thread
<1>1. /\ At(r, "bytes") /\ req[r].left # <<>>
      /\ UNCHANGED <<scene, slot, hold, dispatch, inflight, parked, recovering, secret, seen>>
    BY <1>0 DEF Bytes, At, Formed, AfterPermit
<1>2. CASE req' = [req EXCEPT ![r] = Continue(r, {"budget"})] /\ permit' = Dec(permit, Here(r))
    <2>1. PICK q \in Threads : /\ Continue(r, {"budget"}) = q
                               /\ q.pc = "gate" /\ q.mode = req[r].mode
                               /\ q.excl = req[r].excl \cup {"budget"}
        BY <1>0, <1>1, OnwardFacts DEF Exclusions
    <2>2. "queued" \in q.excl => "claimed" \in scene.refuses \/ "queued" \in scene.starts
        BY <1>0, <2>1 DEF Formed
    <2>3. Turn(r, q, Here(r))
        BY <1>1, <1>2, <2>1, <2>2, BackTurn DEF At, AfterPermit, AfterSlot, AfterFunds
    <2>4. Quiet(r, q)
        BY <1>1, <2>1 DEF Quiet, At
    <2> QED
        BY <2>3, <2>4 DEF Turns
<1>3. CASE req' = Goto(r, "reserve") /\ permit' = permit
    <2>1. PICK q \in Threads : /\ Goto(r, "reserve") = [req EXCEPT ![r] = q]
                               /\ q.pc = "reserve" /\ q.mode = req[r].mode /\ q.left = req[r].left
                               /\ q.excl = req[r].excl
        BY <1>0, GotoFacts DEF Pcs
    <2>2. Carried(r, q, Here(r))
        BY <1>1, <1>3, <2>1 DEF At, Carried, Moved, AfterPermit, AfterSlot, AfterFunds
    <2>3. Turn(r, q, Here(r))
        BY <1>1, <1>3, <2>1, <2>2, InsideTurn DEF At, AfterPermit
    <2>4. Quiet(r, q)
        BY <1>1, <2>1 DEF Quiet, At
    <2> QED
        BY <2>3, <2>4 DEF Turns
<1> QED
    BY <1>2, <1>3 DEF Bytes

LEMMA ReserveTurn ==
  ASSUME HoldInv, NEW r \in Requests, Reserve(r)
  PROVE  Turns(r)
<1>0. /\ req \in [Requests -> Threads] /\ Formed(req[r])
    BY Thread
<1>1. /\ At(r, "reserve") /\ req[r].left # <<>>
      /\ UNCHANGED <<scene, hold, dispatch, inflight, parked, recovering, secret, seen>>
    BY <1>0 DEF Reserve, At, Formed, AfterPermit
<1>2. ASSUME NEW why \in {"capacity", "budget"}, NEW err \in {"refusal", "outage"},
             req' = [req EXCEPT ![r] = [Continue(r, {why}) EXCEPT !.err = err]],
             permit' = Dec(permit, Here(r)), slot' = slot
      PROVE  Turns(r)
    <2>1. PICK p \in Threads : /\ Continue(r, {why}) = p
                               /\ p.pc = "gate" /\ p.mode = req[r].mode
                               /\ p.excl = req[r].excl \cup {why}
        BY <1>0, <1>1, OnwardFacts DEF Exclusions
    <2>2. PICK q : q = [p EXCEPT !.err = err]
        OBVIOUS
    <2>3. q \in Threads /\ q.pc = p.pc /\ q.mode = p.mode /\ q.excl = p.excl
        BY <2>2 DEF Threads
    <2>4. req' = [req EXCEPT ![r] = q]
        BY <1>0, <1>2, <2>1, <2>2
    <2>5. "queued" \in q.excl => "claimed" \in scene.refuses \/ "queued" \in scene.starts
        BY <1>0, <2>1, <2>3 DEF Formed
    <2>6. Turn(r, q, Here(r))
        BY <1>1, <1>2, <2>1, <2>3, <2>4, <2>5, BackTurn DEF At, AfterPermit, AfterSlot, AfterFunds
    <2>7. Quiet(r, q)
        BY <1>1, <2>1, <2>3 DEF Quiet, At
    <2> QED
        BY <2>6, <2>7 DEF Turns
<1>3. CASE slot' = Inc(slot, Here(r)) /\ req' = Goto(r, "fund") /\ permit' = permit
    <2>1. PICK q \in Threads : /\ Goto(r, "fund") = [req EXCEPT ![r] = q]
                               /\ q.pc = "fund" /\ q.mode = req[r].mode /\ q.left = req[r].left
                               /\ q.excl = req[r].excl
        BY <1>0, GotoFacts DEF Pcs
    <2>2. Carried(r, q, Here(r))
        BY <1>1, <1>3, <2>1 DEF At, Carried, Moved, AfterPermit, AfterSlot, AfterFunds
    <2>3. Turn(r, q, Here(r))
        BY <1>1, <1>3, <2>1, <2>2, InsideTurn DEF At, AfterPermit
    <2>4. Quiet(r, q)
        BY <1>1, <2>1 DEF Quiet, At
    <2> QED
        BY <2>3, <2>4 DEF Turns
<1> QED
    BY <1>2, <1>3 DEF Reserve

LEMMA FundTurn ==
  ASSUME HoldInv, NEW r \in Requests, Fund(r)
  PROVE  Turns(r)
<1>0. /\ req \in [Requests -> Threads] /\ req[r] \in Threads /\ Formed(req[r])
    BY Thread
<1>1. /\ At(r, "fund") /\ req[r].left # <<>>
      /\ UNCHANGED <<scene, dispatch, inflight, parked, recovering, secret, seen>>
    BY <1>0 DEF Fund, At, Formed, AfterPermit
<1>2. CASE /\ req' = [req EXCEPT ![r] = [Return(r, "refusal") EXCEPT !.excl = @ \cup {"budget"}]]
           /\ slot' = Dec(slot, Here(r)) /\ permit' = Dec(permit, Here(r)) /\ hold' = hold
    <2>1. PICK q : q = [req[r] EXCEPT !.pc = "out", !.err = "refusal", !.left = <<>>, !.excl = @ \cup {"budget"}]
        OBVIOUS
    <2>2. <<>> \in Seq(Candidates) /\ "out" \in Pcs /\ req[r].excl \cup {"budget"} \in SUBSET Exclusions
        BY <1>0 DEF Threads, Pcs, Exclusions
    <2>3. q \in Threads /\ q.pc = "out" /\ q.mode = req[r].mode /\ q.excl = req[r].excl \cup {"budget"}
        BY <1>0, <2>1, <2>2 DEF Threads
    <2>4. req' = [req EXCEPT ![r] = q]
        BY <1>0, <1>2, <2>1 DEF Return
    <2>5. "queued" \in q.excl => "claimed" \in scene.refuses \/ "queued" \in scene.starts
        BY <1>0, <2>3 DEF Formed
    <2>6. Turn(r, q, Here(r))
        BY <1>1, <1>2, <2>3, <2>4, <2>5, BackTurn DEF At, AfterPermit, AfterSlot, AfterFunds
    <2>7. Quiet(r, q)
        BY <1>1, <2>3 DEF Quiet, At
    <2> QED
        BY <2>6, <2>7 DEF Turns
<1>3. CASE /\ req' = Goto(r, "ready") /\ slot' = slot /\ permit' = permit
           /\ hold' = IF Keyed(r) THEN Inc(hold, r) ELSE hold
    <2>1. PICK q \in Threads : /\ Goto(r, "ready") = [req EXCEPT ![r] = q]
                               /\ q.pc = "ready" /\ q.mode = req[r].mode /\ q.left = req[r].left
                               /\ q.excl = req[r].excl
        BY <1>0, GotoFacts DEF Pcs
    <2>2. Carried(r, q, Here(r))
        BY <1>1, <1>3, <2>1 DEF At, Carried, Moved, AfterPermit, AfterSlot, AfterFunds
    <2>3. Turn(r, q, Here(r))
        BY <1>1, <1>3, <2>1, <2>2, InsideTurn DEF At, AfterPermit
    <2>4. Quiet(r, q)
        BY <1>1, <2>1 DEF Quiet, At
    <2> QED
        BY <2>3, <2>4 DEF Turns
<1> QED
    BY <1>2, <1>3 DEF Fund

\* The model and the deployment: refused, everything goes back.
LEMMA GiveBackTurn ==
  ASSUME HoldInv, NEW r \in Requests, At(r, "ready") \/ At(r, "enter"), GiveBack(r),
         UNCHANGED <<scene, dispatch, inflight, parked, recovering, secret, seen>>,
         NEW why \in Exclusions, why = "queued" => "claimed" \in scene.refuses \/ "queued" \in scene.starts,
         NEW err \in {"none", "refusal", "outage"},
         req' = [req EXCEPT ![r] = [Continue(r, {why}) EXCEPT !.err = err]]
  PROVE  Turns(r)
<1>0. /\ req \in [Requests -> Threads] /\ Formed(req[r]) /\ req[r].left # <<>>
    BY Thread DEF Formed, At, AfterPermit
<1>1. PICK p \in Threads : /\ Continue(r, {why}) = p
                           /\ p.pc = "gate" /\ p.mode = req[r].mode
                           /\ p.excl = req[r].excl \cup {why}
    <2>1. {why} \in SUBSET Exclusions
        OBVIOUS
    <2> QED
        BY <1>0, <2>1, OnwardFacts
<1>2. PICK q : q = [p EXCEPT !.err = err]
    OBVIOUS
<1>3. q \in Threads /\ q.pc = p.pc /\ q.mode = p.mode /\ q.excl = p.excl
    BY <1>2 DEF Threads
<1>4. req' = [req EXCEPT ![r] = q]
    BY <1>0, <1>1, <1>2
<1>5. "queued" \in q.excl => "claimed" \in scene.refuses \/ "queued" \in scene.starts
    BY <1>0, <1>1, <1>3 DEF Formed
<1>6. Turn(r, q, Here(r))
    BY <1>1, <1>3, <1>4, <1>5, BackTurn DEF At, GiveBack, AfterPermit, AfterSlot, AfterFunds
<1>7. Quiet(r, q)
    BY <1>1, <1>3 DEF Quiet, At
<1> QED
    BY <1>6, <1>7 DEF Turns

LEMMA ReadyTurn ==
  ASSUME HoldInv, NEW r \in Requests, Ready(r)
  PROVE  Turns(r)
<1>0. /\ req \in [Requests -> Threads] /\ req[r] \in Threads /\ Formed(req[r])
    BY Thread
<1>1. /\ At(r, "ready") /\ req[r].left # <<>>
      /\ UNCHANGED <<scene, dispatch, inflight, parked, recovering, secret, seen>>
    BY <1>0 DEF Ready, At, Formed, AfterPermit
<1>2. ASSUME NEW why \in scene.starts, StartFailed(r, why) PROVE Turns(r)
    <2> DEFINE reason == CASE why = "queued" -> "queued"
                           [] why = "agent" -> "unreachable"
                           [] why = "refused" -> "other"
               rode == Residency(r) = "coming"
               given == IF rode THEN "other" ELSE reason
               err == IF rode THEN req[r].err ELSE "outage"
    <2>1. why \in {"queued", "agent", "refused"}
        <3>1. scene \in SceneType
            BY Thread
        <3>2. why \in {"ready", "queued", "agent", "refused"}
            BY <3>1 DEF SceneType
        <3> QED
            BY <1>2, <3>2 DEF StartFailed
    <2>2. GiveBack(r) /\ req' = [req EXCEPT ![r] = [Continue(r, {given}) EXCEPT !.err = IF rode THEN @ ELSE "outage"]]
        BY <1>2 DEF StartFailed
    <2>3. given \in Exclusions /\ (given = "queued" => "queued" \in scene.starts)
        BY <2>1 DEF Exclusions
    <2>4. err \in {"none", "refusal", "outage"}
        BY <1>0 DEF Threads
    <2>5. req' = [req EXCEPT ![r] = [Continue(r, {given}) EXCEPT !.err = err]]
        <3>1. Continue(r, {given}).err = req[r].err
            BY <1>0 DEF Continue, Threads
        <3>2. CASE rode
            BY <2>2, <3>1, <3>2
        <3>3. CASE ~rode
            BY <2>2, <3>3
        <3> QED
            BY <3>2, <3>3
    <2> HIDE DEF given, err
    <2> QED
        BY <1>1, <2>2, <2>3, <2>4, <2>5, GiveBackTurn
<1>3. CASE req' = Goto(r, "enter") /\ UNCHANGED <<slot, permit, hold>>
    <2>1. PICK q \in Threads : /\ Goto(r, "enter") = [req EXCEPT ![r] = q]
                               /\ q.pc = "enter" /\ q.mode = req[r].mode /\ q.left = req[r].left
                               /\ q.excl = req[r].excl
        BY <1>0, GotoFacts DEF Pcs
    <2>2. Carried(r, q, Here(r))
        BY <1>1, <1>3, <2>1 DEF At, Carried, Moved, AfterPermit, AfterSlot, AfterFunds
    <2>3. Turn(r, q, Here(r))
        BY <1>1, <1>3, <2>1, <2>2, InsideTurn DEF At, AfterPermit
    <2>4. Quiet(r, q)
        BY <1>1, <2>1 DEF Quiet, At
    <2> QED
        BY <2>3, <2>4 DEF Turns
<1> QED
    BY <1>2, <1>3 DEF Ready

LEMMA EnterTurn ==
  ASSUME HoldInv, NEW r \in Requests, Enter(r)
  PROVE  Turns(r)
<1>0. /\ req \in [Requests -> Threads] /\ req[r] \in Threads /\ Formed(req[r])
      /\ req[r].left \in Seq(Candidates)
    BY Thread
<1>1. /\ At(r, "enter") /\ req[r].left # <<>> /\ UNCHANGED <<scene, parked, recovering, secret, seen>>
    BY <1>0 DEF Enter, At, Formed, AfterPermit
<1>2. CASE /\ "claimed" \in scene.refuses /\ GiveBack(r) /\ req' = [req EXCEPT ![r] = Continue(r, {"queued"})]
           /\ UNCHANGED <<dispatch, inflight>>
    <2>1. req[r].err \in {"none", "refusal", "outage"} /\ "queued" \in Exclusions
        BY <1>0 DEF Threads, Exclusions
    <2>2. req' = [req EXCEPT ![r] = [Continue(r, {"queued"}) EXCEPT !.err = req[r].err]]
        <3>1. PICK p \in Threads : Continue(r, {"queued"}) = p /\ p.err = req[r].err
            <4>1. PICK p \in Threads : Continue(r, {"queued"}) = p
                BY <1>0, <1>1, OnwardFacts DEF Exclusions
            <4>2. Continue(r, {"queued"}).err = req[r].err
                BY <1>0 DEF Continue, Threads
            <4> QED
                BY <1>0, <4>1, <4>2
        <3>2. [p EXCEPT !.err = req[r].err] = p
            BY <3>1 DEF Threads
        <3> QED
            BY <1>0, <1>2, <3>1, <3>2
    <2> QED
        BY <1>1, <1>2, <2>1, <2>2, GiveBackTurn
<1>3. CASE /\ dispatch' = Inc(dispatch, Here(r)) /\ inflight' = Inc(inflight, Here(r))
           /\ req' = [req EXCEPT ![r] = [req[r] EXCEPT !.pc = "send",
                        !.first_family = IF @ = "none" THEN Family[Here(r)] ELSE @,
                        !.sent = secret.current, !.fallback = FALSE]]
           /\ UNCHANGED <<slot, permit, hold>>
    <2>1. PICK q : q = [req[r] EXCEPT !.pc = "send",
                          !.first_family = IF @ = "none" THEN Family[Here(r)] ELSE @,
                          !.sent = secret.current, !.fallback = FALSE]
        OBVIOUS
    <2>2. Here(r) \in Targets
        <3>1. Head(req[r].left) \in Candidates
            BY <1>0, <1>1
        <3> QED
            BY <3>1 DEF Here, Candidates
    <2>3. /\ (IF req[r].first_family = "none" THEN Family[Here(r)] ELSE req[r].first_family)
               \in {Family[t] : t \in Targets} \cup {"none"}
          /\ secret.current \in {"none", "old", "new"} /\ "send" \in Pcs
        BY <1>0, <2>2 DEF HoldInv, AttemptTypeOK, Threads, Pcs
    <2>4. q \in Threads /\ q.pc = "send" /\ q.mode = req[r].mode /\ q.left = req[r].left /\ q.excl = req[r].excl
        BY <1>0, <2>1, <2>3 DEF Threads
    <2>5. req' = [req EXCEPT ![r] = q]
        BY <1>0, <1>3, <2>1
    <2>6. Carried(r, q, Here(r))
        BY <1>1, <1>3, <2>4 DEF At, Carried, Moved, AfterPermit, AfterSlot, AfterFunds
    <2>7. Turn(r, q, Here(r))
        BY <1>1, <1>3, <2>4, <2>5, <2>6, InsideTurn DEF At, AfterPermit
    <2>8. Quiet(r, q)
        BY <1>1, <2>4 DEF Quiet, At
    <2> QED
        BY <2>7, <2>8 DEF Turns
<1> QED
    BY <1>2, <1>3 DEF Enter

\* The exchange, with the current secret and then the superseded one.
LEMMA SendTurn ==
  ASSUME HoldInv, NEW r \in Requests, At(r, "send"), UNCHANGED <<scene, shared, charged, spent>>,
         NEW q \in Threads, req' = [req EXCEPT ![r] = q], q.pc \in {"send", "leave"},
         q.mode = req[r].mode, q.left = req[r].left, q.excl = req[r].excl,
         q.pc = "leave" => q.end \in scene.answers \cup {"auth"}
  PROVE  Turn(r, q, Here(r))
<1>1. req[r].left # <<>> /\ req[r].pc = "send" /\ r \in scene.who
    BY Thread DEF Formed, At, AfterPermit
<1>2. Carried(r, q, Here(r))
    BY <1>1 DEF Carried, Moved, AfterPermit, AfterSlot, AfterFunds, shared
<1> QED
    BY <1>1, <1>2, InsideTurn DEF AfterPermit, shared

LEMMA ExchangeTurn ==
  ASSUME HoldInv, NEW r \in Requests, Exchange(r) \/ attempt_superseded(r)
  PROVE  Turns(r)
<1>0. /\ req \in [Requests -> Threads] /\ req[r] \in Threads /\ scene.answers \subseteq Ends
    <2>1. scene \in SceneType /\ req \in [Requests -> Threads] /\ req[r] \in Threads
        BY Thread
    <2> QED
        BY <2>1 DEF SceneType, Ends
<1>1. At(r, "send") /\ UNCHANGED <<scene, shared, charged, spent>> /\ req[r].pc = "send"
    BY DEF Exchange, attempt_superseded, At
<1>2. ASSUME NEW e \in scene.answers \cup {"auth"}, NEW end \in scene.answers \cup {"auth"}, Upstream(r, e),
             end = e \/ (scene.rotates /\ e \in scene.answers \ {"served"} /\ end = "auth"),
             req' = [req EXCEPT ![r] = [req[r] EXCEPT !.pc = "leave", !.end = end]]
      PROVE  Turns(r)
    <2>1. PICK q : q = [req[r] EXCEPT !.pc = "leave", !.end = end]
        OBVIOUS
    <2>2. "leave" \in Pcs /\ end \in Ends \cup {"none"}
        BY <1>0 DEF Pcs, Ends
    <2>3. /\ q \in Threads /\ q.pc = "leave" /\ q.mode = req[r].mode /\ q.left = req[r].left
          /\ q.excl = req[r].excl /\ q.end = end
        BY <1>0, <2>1, <2>2 DEF Threads
    <2>4. req' = [req EXCEPT ![r] = q]
        BY <1>0, <1>2, <2>1
    <2>5. Turn(r, q, Here(r))
        BY <1>1, <2>3, <2>4, SendTurn
    <2>6. Exchanged(r, q)
        BY <1>1, <1>2, <2>3 DEF Exchanged
    <2> QED
        BY <2>5, <2>6 DEF Turns
<1>3. CASE req' = [req EXCEPT ![r].fallback = TRUE] /\ UNCHANGED <<worked, heard>>
    <2>1. PICK q : q = [req[r] EXCEPT !.fallback = TRUE]
        OBVIOUS
    <2>2. /\ q \in Threads /\ q.pc = req[r].pc /\ q.mode = req[r].mode /\ q.left = req[r].left
          /\ q.excl = req[r].excl
        BY <1>0, <2>1 DEF Threads
    <2>3. req' = [req EXCEPT ![r] = q]
        BY <1>0, <1>3, <2>1
    <2>4. Turn(r, q, Here(r))
        BY <1>1, <2>2, <2>3, SendTurn
    <2>5. Exchanged(r, q)
        BY <1>1, <1>3, <2>2 DEF Exchanged
    <2> QED
        BY <2>4, <2>5 DEF Turns
<1>4. CASE Exchange(r)
    <2>1. PICK e \in scene.answers \cup {"auth"} :
            /\ Upstream(r, e)
            /\ req' = IF e = "auth" THEN [req EXCEPT ![r].fallback = TRUE]
                      ELSE [req EXCEPT ![r] = [req[r] EXCEPT !.pc = "leave", !.end = e]]
        BY <1>4 DEF Exchange
    <2>2. CASE e = "auth"
        BY <1>3, <2>1, <2>2 DEF Upstream, Phase
    <2>3. CASE e # "auth"
        BY <1>2, <2>1, <2>3
    <2> QED
        BY <2>2, <2>3
<1>5. CASE attempt_superseded(r)
    <2>1. CASE secret.previous = "none"
        <3>1. req' = [req EXCEPT ![r] = [req[r] EXCEPT !.pc = "leave", !.end = "auth"]] /\ UNCHANGED <<worked, heard>>
            BY <1>5, <2>1 DEF attempt_superseded
        <3>2. Upstream(r, "auth")
            BY <3>1 DEF Upstream, Phase
        <3> QED
            BY <1>2, <3>1, <3>2
    <2>2. CASE secret.previous # "none"
        <3>1. PICK e \in scene.answers :
                /\ Upstream(r, e)
                /\ req' = [req EXCEPT ![r] = [req[r] EXCEPT !.pc = "leave", !.end = IF e = "served" THEN e ELSE "auth"]]
            BY <1>5, <2>2 DEF attempt_superseded
        <3>2. scene.rotates
            BY <2>2 DEF HoldInv, RotationKnown
        <3>3. CASE e = "served"
            BY <1>2, <3>1, <3>3
        <3>4. CASE e # "served"
            BY <1>2, <3>1, <3>2, <3>4
        <3> QED
            BY <3>3, <3>4
    <2> QED
        BY <2>1, <2>2
<1> QED
    BY <1>4, <1>5

LEMMA LeaveTurn ==
  ASSUME HoldInv, NEW r \in Requests, Leave(r)
  PROVE  Turns(r)
<1>0. /\ req \in [Requests -> Threads] /\ Formed(req[r])
    BY Thread
<1>1. /\ At(r, "leave") /\ req[r].left # <<>> /\ UNCHANGED <<scene, permit, slot, hold, parked, recovering, seen>>
      /\ req[r].end \in scene.answers \cup {"auth"} /\ req' = Goto(r, "settle")
      /\ secret' \in {secret, [secret EXCEPT !.previous = "none"]}
      /\ inflight' = Dec(inflight, Here(r)) /\ dispatch' = Dec(dispatch, Here(r))
    BY <1>0 DEF Leave, At, Formed, AfterPermit
<1>2. PICK q \in Threads : /\ Goto(r, "settle") = [req EXCEPT ![r] = q]
                           /\ q.pc = "settle" /\ q.mode = req[r].mode /\ q.left = req[r].left
                           /\ q.end = req[r].end /\ q.excl = req[r].excl
    BY <1>0, GotoFacts DEF Pcs
<1>3. Carried(r, q, Here(r))
    BY <1>1, <1>2 DEF At, Carried, Moved, AfterPermit, AfterSlot, AfterFunds
<1>4. Turn(r, q, Here(r))
    BY <1>1, <1>2, <1>3, InsideTurn DEF At, AfterPermit
<1>5. Left(r, q)
    BY <1>1, <1>2 DEF Left, At
<1> QED
    BY <1>4, <1>5 DEF Turns

LEMMA SettleTurn ==
  ASSUME HoldInv, NEW r \in Requests, Settle(r)
  PROVE  Turns(r)
<1> DEFINE e == req[r].end
<1>0. /\ req \in [Requests -> Threads] /\ req[r] \in Threads /\ Formed(req[r])
      /\ scene \in SceneType /\ req[r].left \in Seq(Candidates) /\ req[r].n \in Nat
    BY Thread
<1>1. /\ At(r, "settle") /\ req[r].left # <<>> /\ e \in Ends
      /\ UNCHANGED <<scene, dispatch, inflight, parked, recovering, secret, worked, heard>>
      /\ GiveBack(r)
      /\ charged' = IF Charged(e) THEN Inc(charged, r) ELSE charged
      /\ spent' = IF Charged(e) /\ Keyed(r) THEN Inc(spent, r) ELSE spent
    <2>1. scene.answers \subseteq Ends
        BY <1>0 DEF SceneType, Ends
    <2> QED
        BY <1>0, <2>1 DEF Settle, At, Formed, AfterPermit, Ends
<1> DEFINE onto == IF e = "served" THEN "none" ELSE CodeOf(e)
           saw == req[r].saw \/ Phase(e) = "output"
           outcome == IF e = "unreachable" THEN "curable" ELSE "failed"
           tried == IF e = "served" THEN req[r].tried ELSE req[r].tried \cup {outcome}
           done(p) == [p EXCEPT !.end = "none", !.sent = "none", !.fallback = FALSE, !.err = onto,
                                !.saw = saw, !.tried = tried]
<1>2. /\ onto \in {"none", "refusal", "outage"} /\ saw \in BOOLEAN
      /\ tried \in SUBSET {"deadline", "curable", "failed"}
      /\ e \notin {"served", "unreachable"} => "failed" \in tried
    BY <1>0 DEF CodeOf, Threads
<1>3. ASSUME NEW p \in Threads, p.pc \in {"gate", "out"}, p.mode = req[r].mode, p.excl = req[r].excl,
             req' = [req EXCEPT ![r] = done(p)], p.pc = "gate" => may_failover(e, r \in scene.idempotent)
      PROVE  Turns(r)
    <2>1. PICK q : q = done(p)
        OBVIOUS
    <2> HIDE DEF onto, saw, tried
    <2>2. /\ q \in Threads /\ q.pc = p.pc /\ q.mode = p.mode /\ q.excl = p.excl /\ q.saw = saw
          /\ q.err = onto /\ q.tried = tried
        BY <1>2, <1>3, <2>1 DEF Threads
    <2>3. req' = [req EXCEPT ![r] = q]
        BY <1>3, <2>1
    <2>4. "queued" \in q.excl => "claimed" \in scene.refuses \/ "queued" \in scene.starts
        BY <1>0, <1>3, <2>2 DEF Formed
    <2>5. Turn(r, q, Here(r))
        BY <1>1, <1>3, <2>2, <2>3, <2>4, BackTurn DEF At, GiveBack, AfterPermit, AfterSlot, AfterFunds
    <2>6. Settled(r, q)
        BY <1>1, <1>2, <1>3, <2>2 DEF Settled, At, onto, saw
    <2> QED
        BY <2>5, <2>6 DEF Turns
<1>4. CASE e # "served" /\ may_failover(e, r \in scene.idempotent)
    <2>1. PICK p : p = [req[r] EXCEPT !.pc = "gate", !.left = Tail(@), !.n = @ + 1, !.excl = @ \cup {}]
        OBVIOUS
    <2>2. Tail(req[r].left) \in Seq(Candidates) /\ req[r].n + 1 \in Nat /\ "gate" \in Pcs
          /\ req[r].excl \cup {} = req[r].excl
        BY <1>0, <1>1 DEF Pcs
    <2>3. /\ p \in Threads /\ p.pc = "gate" /\ p.mode = req[r].mode /\ p.excl = req[r].excl
          /\ p.saw = req[r].saw /\ p.tried = req[r].tried
        BY <1>0, <2>1, <2>2 DEF Threads
    <2>4. Continue(r, {}) = p
        BY <1>0, <2>1 DEF Continue
    <2>5. req' = [req EXCEPT ![r] = [Continue(r, {}) EXCEPT !.end = "none", !.sent = "none", !.fallback = FALSE,
                    !.err = onto, !.saw = @ \/ Phase(e) = "output",
                    !.tried = @ \cup {outcome}]]
        BY <1>4 DEF Settle
    <2>6. req' = [req EXCEPT ![r] = done(p)]
        BY <1>0, <1>4, <2>3, <2>4, <2>5
    <2> QED
        BY <1>3, <1>4, <2>3, <2>6
<1>5. CASE e = "served" \/ ~may_failover(e, r \in scene.idempotent)
    <2> DEFINE err == IF e = "served" THEN "none" ELSE CodeOf(e)
    <2>1. PICK p : p = [req[r] EXCEPT !.pc = "out", !.err = err, !.left = <<>>]
        OBVIOUS
    <2>2. <<>> \in Seq(Candidates) /\ "out" \in Pcs /\ err \in {"none", "refusal", "outage"}
        BY <1>2 DEF Pcs
    <2> HIDE DEF err
    <2>3. /\ p \in Threads /\ p.pc = "out" /\ p.mode = req[r].mode /\ p.excl = req[r].excl
          /\ p.saw = req[r].saw /\ p.tried = req[r].tried
        BY <1>0, <2>1, <2>2 DEF Threads
    <2>4. Return(r, err) = p
        BY <1>0, <2>1 DEF Return
    <2>5. req' = [req EXCEPT ![r] = [Return(r, err) EXCEPT !.end = "none", !.sent = "none", !.fallback = FALSE,
                    !.err = onto, !.saw = @ \/ Phase(e) = "output",
                    !.tried = IF e = "served" THEN @ ELSE @ \cup {outcome}]]
        BY <1>5 DEF Settle, err
    <2>6. req' = [req EXCEPT ![r] = done(p)]
        BY <1>0, <2>3, <2>4, <2>5
    <2> QED
        BY <1>3, <2>3, <2>6
<1> QED
    BY <1>4, <1>5

\* The waiters, when thread r goes to pc in that loop.
Waits(r, pc, mode) ==
  /\ parked' = parked + One(mode \in {"parked", "recpark"} /\ pc \notin {"unparked", "done"})
                      - One(ParkedIn(req[r]))
  /\ recovering' = recovering + One(mode \in {"recovery", "recpark"} /\ pc # "done")
                              - One(RecoversIn(req[r]))

(***************************************************************************)
(* Between passes a thread changes its loop and its place only; the loop   *)
(* it is in says whether it is among the parked and the recovering.        *)
(***************************************************************************)
LEMMA LoopTurn ==
  ASSUME HoldInv, NEW r \in Requests, r \in scene.who,
         req[r].pc \in {"out", "wait", "unparked"},
         NEW pc \in {"wait", "unparked", "done"},
         NEW mode \in {"first", "parked", "recpark", "recovery"},
         req' = [req EXCEPT ![r] = [req[r] EXCEPT !.pc = pc, !.mode = mode]],
         UNCHANGED <<scene, permit, slot, hold, dispatch, inflight, secret, seen>>,
         pc = "wait" => mode # "first", pc = "unparked" => mode \in {"parked", "recpark"},
         Waits(r, pc, mode),
         pc = "wait" => req[r].pc = "wait" \/ awaits_activation(req[r]) \/ awaits_recovery(req[r])
  PROVE  Turns(r)
<1>0. req[r] \in Threads /\ Formed(req[r])
    BY Thread
<1>1. PICK q : q = [req[r] EXCEPT !.pc = pc, !.mode = mode]
    OBVIOUS
<1>2. /\ q \in Threads /\ q.pc = pc /\ q.mode = mode /\ q.excl = req[r].excl /\ q.err = req[r].err
      /\ q.saw = req[r].saw /\ q.tried = req[r].tried
    BY <1>0, <1>1 DEF Threads, Pcs
<1>3. Formed(q)
    BY <1>0, <1>2 DEF Formed, AfterPermit
<1>4. Carried(r, q, Here(r))
    BY <1>2 DEF Carried, Moved, AfterPermit, AfterSlot, AfterFunds
<1>5. ParkedIn(q) = (mode \in {"parked", "recpark"} /\ pc \notin {"unparked", "done"})
      /\ RecoversIn(q) = (mode \in {"recovery", "recpark"} /\ pc # "done")
    BY <1>2 DEF ParkedIn, RecoversIn
<1>6. Books(r, q, Here(r))
    BY <1>4, <1>5 DEF Books, Waits
<1>7. Turn(r, q, Here(r))
    BY <1>1, <1>2, <1>3, <1>6 DEF Turn, AfterPermit
<1>8. Quiet(r, q)
    BY <1>2 DEF Quiet
<1> QED
    BY <1>7, <1>8 DEF Turns

LEMMA LoopsTurn ==
  ASSUME HoldInv, NEW r \in Requests,
         AfterFirst(r) \/ AfterParked(r) \/ AfterRecovery(r) \/ Unparked(r) \/ GiveUp(r)
  PROVE  Turns(r)
<1>0. /\ req \in [Requests -> Threads] /\ req[r] \in Threads /\ Formed(req[r])
      /\ parked \in Int /\ recovering \in Int
    BY Thread
<1>i. parked \in Int /\ recovering \in Int
    BY Thread
<1>1. /\ r \in scene.who /\ req[r].pc \in {"out", "wait", "unparked"}
      /\ UNCHANGED <<scene, permit, slot, hold, dispatch, inflight, secret, seen>>
    BY DEF AfterFirst, AfterParked, AfterRecovery, Unparked, GiveUp, At
<1>2. req[r].mode \in {"first", "parked", "recpark", "recovery"}
    BY <1>0 DEF Threads
<1>3. \A pc : Goto(r, pc) = [req EXCEPT ![r] = [req[r] EXCEPT !.pc = pc, !.mode = req[r].mode]]
    BY <1>0 DEF Goto, Threads
<1>4. \A pc, mode : [req EXCEPT ![r] = [req[r] EXCEPT !.pc = pc, !.mode = mode]]
                      = [req EXCEPT ![r] = [req[r] EXCEPT !.pc = pc, !.mode = mode]]
    BY <1>0
<1>5. Finished(r) = Goto(r, "done")
    BY DEF Finished, Goto
<1>6. \A mode : Park(r, mode) =>
        /\ parked' = parked + 1
        /\ req' = [req EXCEPT ![r] = [req[r] EXCEPT !.pc = "wait", !.mode = mode]]
    BY <1>4 DEF Park
<1>7. ASSUME AwaitRecovery(r), req[r].mode \in {"first", "parked"}, req[r].pc \in {"out", "unparked"},
             req[r].mode = "parked" => req[r].pc = "unparked", parked' = parked
      PROVE  Turns(r)
    <2>1. CASE /\ recovering' = recovering + 1 /\ awaits_recovery(req[r])
               /\ req' = [req EXCEPT ![r] = [req[r] EXCEPT !.pc = "wait", !.mode = "recovery"]]
        <3>1. Waits(r, "wait", "recovery")
            BY <1>i, <1>7, <2>1 DEF Waits, One, ParkedIn, RecoversIn
        <3> QED
            BY <1>0, <1>1, <1>7, <2>1, <3>1, LoopTurn
    <2>2. CASE recovering' = recovering /\ req' = Goto(r, "done")
        <3>1. Waits(r, "done", req[r].mode)
            BY <1>i, <1>7, <2>2 DEF Waits, One, ParkedIn, RecoversIn
        <3> QED
            BY <1>0, <1>1, <1>2, <1>3, <1>7, <2>2, <3>1, LoopTurn
    <2> QED
        BY <1>4, <1>5, <1>7, <2>1, <2>2 DEF AwaitRecovery
<1>8. CASE AfterFirst(r)
    <2>0. req[r].mode = "first" /\ req[r].pc = "out"
        BY <1>8 DEF AfterFirst, At
    <2>1. CASE awaits_activation(req[r]) /\ Park(r, "parked") /\ recovering' = recovering
        <3>0. parked' = parked + 1
            BY <1>6, <2>1
        <3>1. Waits(r, "wait", "parked")
            BY <1>i, <2>0, <2>1, <3>0 DEF Waits, One, ParkedIn, RecoversIn
        <3> QED
            BY <1>0, <1>1, <1>6, <2>0, <2>1, <3>1, LoopTurn
    <2>2. CASE AwaitRecovery(r) /\ parked' = parked
        BY <1>7, <2>0, <2>2
    <2> QED
        BY <1>8, <2>1, <2>2 DEF AfterFirst
<1>9. CASE AfterParked(r)
    <2>0. req[r].mode \in {"parked", "recpark"} /\ req[r].pc = "out" /\ recovering' = recovering
        BY <1>9 DEF AfterParked, At
    <2>1. CASE awaits_activation(req[r]) /\ req' = Goto(r, "wait") /\ parked' = parked
        <3>1. Waits(r, "wait", req[r].mode)
            BY <1>i, <2>0, <2>1 DEF Waits, One, ParkedIn, RecoversIn
        <3> QED
            BY <1>0, <1>1, <1>2, <1>3, <2>0, <2>1, <3>1, LoopTurn
    <2>2. CASE req' = Goto(r, "unparked") /\ parked' = parked - 1
        <3>1. Waits(r, "unparked", req[r].mode)
            BY <1>i, <2>0, <2>2 DEF Waits, One, ParkedIn, RecoversIn
        <3> QED
            BY <1>0, <1>1, <1>2, <1>3, <2>0, <2>2, <3>1, LoopTurn
    <2> QED
        BY <1>9, <2>1, <2>2 DEF AfterParked
<1>10. CASE AfterRecovery(r)
    <2>0. req[r].mode = "recovery" /\ req[r].pc = "out"
        BY <1>10 DEF AfterRecovery, At
    <2>1. CASE awaits_activation(req[r]) /\ Park(r, "recpark") /\ recovering' = recovering
        <3>0. parked' = parked + 1
            BY <1>6, <2>1
        <3>1. Waits(r, "wait", "recpark")
            BY <1>i, <2>0, <2>1, <3>0 DEF Waits, One, ParkedIn, RecoversIn
        <3> QED
            BY <1>0, <1>1, <1>6, <2>0, <2>1, <3>1, LoopTurn
    <2>2. CASE awaits_recovery(req[r]) /\ req' = Goto(r, "wait") /\ recovering' = recovering /\ parked' = parked
        <3>1. Waits(r, "wait", req[r].mode)
            BY <1>i, <2>0, <2>2 DEF Waits, One, ParkedIn, RecoversIn
        <3> QED
            BY <1>0, <1>1, <1>2, <1>3, <2>0, <2>2, <3>1, LoopTurn
    <2>3. CASE req' = Goto(r, "done") /\ recovering' = recovering - 1 /\ parked' = parked
        <3>1. Waits(r, "done", req[r].mode)
            BY <1>i, <2>0, <2>3 DEF Waits, One, ParkedIn, RecoversIn
        <3> QED
            BY <1>0, <1>1, <1>2, <1>3, <2>0, <2>3, <3>1, LoopTurn
    <2> QED
        BY <1>5, <1>10, <2>1, <2>2, <2>3 DEF AfterRecovery
<1>11. CASE Unparked(r)
    <2>0. req[r].mode \in {"parked", "recpark"} /\ req[r].pc = "unparked" /\ parked' = parked
        BY <1>0, <1>11 DEF Unparked, At, Formed
    <2>1. CASE req[r].mode = "parked" /\ AwaitRecovery(r)
        BY <1>7, <2>0, <2>1
    <2>2. CASE /\ req[r].mode # "parked" /\ awaits_recovery(req[r]) /\ recovering' = recovering
               /\ req' = [req EXCEPT ![r] = [req[r] EXCEPT !.pc = "wait", !.mode = "recovery"]]
        <3>1. Waits(r, "wait", "recovery")
            BY <1>i, <2>0, <2>2 DEF Waits, One, ParkedIn, RecoversIn
        <3> QED
            BY <1>0, <1>1, <1>4, <2>0, <2>2, <3>1, LoopTurn
    <2>3. CASE req[r].mode # "parked" /\ req' = Goto(r, "done") /\ recovering' = recovering - 1
        <3>1. Waits(r, "done", req[r].mode)
            BY <1>i, <2>0, <2>3 DEF Waits, One, ParkedIn, RecoversIn
        <3> QED
            BY <1>0, <1>1, <1>2, <1>3, <2>0, <2>3, <3>1, LoopTurn
    <2> QED
        BY <1>5, <1>11, <2>1, <2>2, <2>3 DEF Unparked
<1>12. CASE GiveUp(r)
    <2>0. req[r].mode \in {"parked", "recpark", "recovery"} /\ req[r].pc = "wait"
        BY <1>0, <1>2, <1>12 DEF GiveUp, At, Formed
    <2>1. CASE req[r].mode = "recovery" /\ req' = Goto(r, "done") /\ recovering' = recovering - 1 /\ parked' = parked
        <3>1. Waits(r, "done", req[r].mode)
            BY <1>i, <2>0, <2>1 DEF Waits, One, ParkedIn, RecoversIn
        <3> QED
            BY <1>0, <1>1, <1>2, <1>3, <2>0, <2>1, <3>1, LoopTurn
    <2>2. CASE /\ req[r].mode # "recovery" /\ req' = Goto(r, "unparked") /\ parked' = parked - 1
               /\ recovering' = recovering
        <3>1. Waits(r, "unparked", req[r].mode)
            BY <1>i, <2>0, <2>2 DEF Waits, One, ParkedIn, RecoversIn
        <3> QED
            BY <1>0, <1>1, <1>2, <1>3, <2>0, <2>2, <3>1, LoopTurn
    <2> QED
        BY <1>5, <1>12, <2>1, <2>2 DEF GiveUp
<1> QED
    BY <1>8, <1>9, <1>10, <1>11, <1>12

LEMMA ExpireTurn ==
  ASSUME HoldInv, NEW r \in Requests, Expire(r)
  PROVE  Turns(r)
<1>0. req \in [Requests -> Threads] /\ req[r] \in Threads /\ Formed(req[r])
    BY Thread
<1>1. /\ r \in scene.who /\ req[r].pc \in {"gate", "wait"} /\ UNCHANGED <<scene, shared, seen>>
      /\ req' = [req EXCEPT ![r].late = TRUE]
    BY DEF Expire, At
<1>2. PICK q : q = [req[r] EXCEPT !.late = TRUE]
    OBVIOUS
<1>3. q \in Threads /\ q.pc = req[r].pc /\ q.mode = req[r].mode /\ q.excl = req[r].excl
    BY <1>0, <1>2 DEF Threads
<1>4. req' = [req EXCEPT ![r] = q]
    BY <1>0, <1>1, <1>2
<1>5. Turn(r, q, Here(r))
    BY <1>0, <1>1, <1>3, <1>4, OutsideTurn DEF Formed
<1>6. Quiet(r, q)
    BY <1>1, <1>3 DEF Quiet
<1> QED
    BY <1>5, <1>6 DEF Turns

LEMMA StepTurns ==
  ASSUME HoldInv, NEW r \in Requests, Step(r) \/ Expire(r)
  PROVE  Turns(r)
BY RouteTurn, HeadTurn, GateTurn, BytesTurn, ReserveTurn, FundTurn, ReadyTurn, EnterTurn, ExchangeTurn,
   LeaveTurn, SettleTurn, LoopsTurn, ExpireTurn DEF Step, execute_for_key, Again

-----------------------------------------------------------------------------
(* Everything taken is given back *)

LEMMA HoldStep == HoldInv /\ [Next]_vars => HoldInv'
<1> SUFFICES ASSUME HoldInv, [Next]_vars PROVE HoldInv'
    OBVIOUS
<1>1. ASSUME NEW r \in Requests, Step(r) \/ Expire(r) PROVE HoldInv'
    BY <1>1, StepTurns, TurnKeeps DEF Turns
<1>2. ASSUME UNCHANGED <<scene, req, permit, slot, hold, dispatch, inflight, parked, recovering>>,
             secret' \in [current : {"old", "new"}, previous : {"none", "old"}],
             RotationKnown'
      PROVE  HoldInv'
    <2>1. AttemptTypeOK' /\ OnlyWhoCame'
        BY <1>2 DEF HoldInv, AttemptTypeOK, OnlyWhoCame
    <2>2. \A r \in Requests : Formed(req[r])'
        BY <1>2 DEF HoldInv, Formed
    <2>3. \A t, where : Holders(t, where)' = Holders(t, where)
        BY <1>2 DEF Holders, Holding, Here
    <2>4. HoldsExact'
        BY <1>2, <2>3 DEF HoldInv, HoldsExact, Holding, Keyed
    <2> QED
        BY <1>2, <2>1, <2>2, <2>4 DEF HoldInv
<1>3. CASE rotate
    <2>1. secret' = [current |-> "new", previous |-> "old"] /\ scene.rotates
        BY <1>3 DEF rotate
    <2> QED
        BY <1>2, <1>3, <2>1 DEF rotate, RotationKnown
<1>4. CASE WindowOver
    <2>1. secret' = [secret EXCEPT !.previous = "none"]
        BY <1>4 DEF WindowOver
    <2>2. /\ secret' \in [current : {"old", "new"}, previous : {"none", "old"}]
          /\ secret'.previous = "none"
        BY <2>1 DEF HoldInv, AttemptTypeOK
    <2> QED
        BY <1>2, <1>4, <2>2 DEF WindowOver, RotationKnown
<1>5. CASE UNCHANGED vars
    BY <1>2, <1>5 DEF vars, shared, HoldInv, AttemptTypeOK, RotationKnown
<1> QED
    BY <1>1, <1>3, <1>4, <1>5 DEF Next

LEMMA HoldInit == Init => HoldInv
<1> SUFFICES ASSUME Init PROVE HoldInv
    OBVIOUS
<1>1. Fresh \in Threads /\ Fresh.pc = "idle" /\ Fresh.mode = "first" /\ Fresh.excl = {}
    BY DEF Fresh, Threads, Pcs
<1>2. AttemptTypeOK
    BY <1>1 DEF Init, AttemptTypeOK
<1>3. \A r \in Requests : Formed(req[r])
    BY <1>1 DEF Init, Formed, AfterPermit
<1>4. RotationKnown
    BY DEF Init, RotationKnown
<1>5. HoldsExact
    <2>1. Cardinality({}) = 0
        BY FS_EmptySet
    <2>2. scene.who \in SUBSET Requests
        BY AttemptAssumption DEF Init, SceneType
    <2>3. ASSUME NEW t, NEW where, "idle" \notin where PROVE Holders(t, where) = {}
        BY <1>1, <2>3 DEF Holders, Holding, Init
    <2>4. "idle" \notin AfterPermit /\ "idle" \notin AfterSlot /\ "idle" \notin AfterFunds
          /\ "idle" \notin {"send", "leave"}
        BY DEF AfterPermit, AfterSlot, AfterFunds
    <2>5. \A r \in scene.who : req[r].mode = "first"
        BY <1>1, <2>2 DEF Init
    <2>6. /\ {r \in scene.who : req[r].mode \in {"parked", "recpark"} /\ req[r].pc \notin {"unparked", "done"}} = {}
          /\ {r \in scene.who : req[r].mode \in {"recovery", "recpark"} /\ req[r].pc # "done"} = {}
        BY <2>5
    <2>7. \A t \in Targets : /\ Holders(t, AfterPermit) = {} /\ Holders(t, AfterSlot) = {}
                             /\ Holders(t, {"send", "leave"}) = {}
        BY <2>3, <2>4
    <2>8. \A r \in Requests : ~Holding(r, AfterFunds)
        BY <1>1, <2>4 DEF Holding, Init
    <2> QED
        BY <2>1, <2>6, <2>7, <2>8 DEF HoldsExact, Init
<1>6. OnlyWhoCame
    BY <1>1 DEF Init, OnlyWhoCame
<1> QED
    BY <1>2, <1>3, <1>4, <1>5, <1>6 DEF HoldInv

LEMMA HoldInvariant == Spec => []HoldInv
BY HoldInit, HoldStep, PTL DEF Spec

\* For any requests, targets, candidate lists, refusals, starts, answers and
\* rotations: at every moment the permits, slots, holds, dispatch holds and
\* waiters that are out are exactly those of the threads that still have them.
THEOREM GivenBack == Spec => []HoldsExact
BY HoldInvariant, PTL DEF HoldInv

-----------------------------------------------------------------------------
(* What is charged *)

(***************************************************************************)
(* The superseded secret's attempt keeps the first failure unless it is    *)
(* served, so that work it lost would go unpaid; the theorems about        *)
(* charges and answers are about scenes where a rotated credential's       *)
(* exchanges are served or refused.                                        *)
(***************************************************************************)
RotationsRefuse ==
  \A s \in Scenes : s.rotates => \A e \in s.answers \ {"served"} : Phase(e) = "before"

Owed(r) == IF req[r].pc \in {"leave", "settle"} THEN One(Phase(req[r].end) # "before") ELSE 0

PaidSoFar ==
  /\ worked \in [Requests -> Nat] /\ heard \in [Requests -> Nat]
  /\ charged \in [Requests -> Nat] /\ spent \in [Requests -> Nat]
  /\ \A r \in Requests : worked[r] = charged[r] + Owed(r)
  /\ \A r \in Requests : spent[r] = IF Keyed(r) THEN charged[r] ELSE 0

\* What an exchange an upstream accepted owes is what its end says it does.
LEMMA EndTrue ==
  ASSUME RotationsRefuse, HoldInv, NEW e \in scene.answers \cup {"auth"}, NEW end,
         end = e \/ (scene.rotates /\ e \in scene.answers \ {"served"} /\ end = "auth")
  PROVE  (Phase(end) # "before") = (Phase(e) # "before") /\ (end # e => Phase(e) = "before")
<1>1. CASE end = e
    BY <1>1
<1>2. CASE end # e
    <2>1. scene \in Scenes
        BY DEF HoldInv, AttemptTypeOK
    <2>2. Phase(e) = "before" /\ end = "auth"
        BY <1>2, <2>1 DEF RotationsRefuse
    <2> QED
        BY <2>2 DEF Phase
<1> QED
    BY <1>1, <1>2

LEMMA PaidTurn ==
  ASSUME RotationsRefuse, HoldInv, PaidSoFar, NEW r \in Requests, NEW q, NEW h, Turn(r, q, h),
         Quiet(r, q) \/ Exchanged(r, q) \/ Left(r, q) \/ Settled(r, q)
  PROVE  PaidSoFar'
<1>0. /\ req \in [Requests -> Threads] /\ req' = [req EXCEPT ![r] = q] /\ scene' = scene
      /\ q \in Threads
    BY Thread DEF Turn
<1>1. \A x \in Requests \ {r} : Owed(x)' = Owed(x)
    BY <1>0 DEF Owed
<1>2. Owed(r)' = IF q.pc \in {"leave", "settle"} THEN One(Phase(q.end) # "before") ELSE 0
    BY <1>0 DEF Owed
<1>3. CASE UNCHANGED seen /\ Owed(r)' = Owed(r)
    BY <1>0, <1>1, <1>3 DEF PaidSoFar, seen, Keyed
<1>4. CASE Quiet(r, q)
    <2>1. Owed(r) = 0 /\ Owed(r)' = 0
        BY <1>2, <1>4 DEF Quiet, Owed
    <2> QED
        BY <1>3, <1>4, <2>1 DEF Quiet
<1>5. CASE Left(r, q)
    <2>1. Owed(r)' = Owed(r)
        BY <1>2, <1>5 DEF Left, Owed
    <2> QED
        BY <1>3, <1>5, <2>1 DEF Left
<1>6. CASE Exchanged(r, q)
    <2>0. Owed(r) = 0 /\ UNCHANGED <<charged, spent>>
        BY <1>6 DEF Exchanged, Owed
    <2>1. CASE q.pc = "send" /\ UNCHANGED <<worked, heard>>
        <3>1. Owed(r)' = 0
            BY <1>2, <2>1
        <3> QED
            BY <1>3, <2>0, <2>1, <3>1 DEF seen
    <2>2. CASE q.pc = "leave"
        <3>1. PICK e \in scene.answers \cup {"auth"} :
                /\ Upstream(r, e)
                /\ q.end = e \/ (scene.rotates /\ e \in scene.answers \ {"served"} /\ q.end = "auth")
            BY <1>6, <2>2 DEF Exchanged
        <3>2. (Phase(q.end) # "before") = (Phase(e) # "before")
            BY <3>1, EndTrue
        <3>3. Owed(r)' = IF Phase(e) = "before" THEN 0 ELSE 1
            BY <1>2, <2>2, <3>2 DEF One
        <3>4. /\ worked' = IF Phase(e) = "before" THEN worked ELSE [worked EXCEPT ![r] = worked[r] + 1]
              /\ heard' = IF Phase(e) = "output" THEN [heard EXCEPT ![r] = heard[r] + 1] ELSE heard
            BY <3>1 DEF Upstream, Inc
        <3>5. worked' \in [Requests -> Nat] /\ heard' \in [Requests -> Nat]
            BY <3>4 DEF PaidSoFar
        <3>6. \A x \in Requests : worked'[x] = charged'[x] + Owed(x)'
            BY <1>1, <2>0, <3>3, <3>4 DEF PaidSoFar
        <3> QED
            BY <1>0, <2>0, <3>5, <3>6 DEF PaidSoFar, Keyed
    <2> QED
        BY <1>6, <2>1, <2>2 DEF Exchanged
<1>7. CASE Settled(r, q)
    <2> DEFINE e == req[r].end
    <2>1. /\ UNCHANGED <<worked, heard>> /\ Owed(r)' = 0 /\ Owed(r) = IF Phase(e) = "before" THEN 0 ELSE 1
        BY <1>2, <1>7 DEF Settled, Owed, One
    <2>2. /\ charged' = IF Phase(e) = "before" THEN charged ELSE [charged EXCEPT ![r] = charged[r] + 1]
          /\ spent' = IF Phase(e) # "before" /\ Keyed(r) THEN [spent EXCEPT ![r] = spent[r] + 1] ELSE spent
        BY <1>7 DEF Settled, Charged, Inc
    <2> HIDE DEF e
    <2>3. charged' \in [Requests -> Nat] /\ spent' \in [Requests -> Nat]
        BY <2>2 DEF PaidSoFar
    <2>4. \A x \in Requests : worked'[x] = charged'[x] + Owed(x)'
        BY <1>1, <2>1, <2>2 DEF PaidSoFar
    <2>5. \A x \in Requests : spent'[x] = IF Keyed(x) THEN charged'[x] ELSE 0
        BY <2>2 DEF PaidSoFar
    <2> QED
        BY <1>0, <2>1, <2>3, <2>4, <2>5 DEF PaidSoFar, Keyed
<1> QED
    BY <1>4, <1>5, <1>6, <1>7

LEMMA PaidStep == RotationsRefuse /\ HoldInv /\ PaidSoFar /\ [Next]_vars => PaidSoFar'
<1> SUFFICES ASSUME RotationsRefuse, HoldInv, PaidSoFar, [Next]_vars PROVE PaidSoFar'
    OBVIOUS
<1>1. ASSUME NEW r \in Requests, Step(r) \/ Expire(r) PROVE PaidSoFar'
    BY <1>1, StepTurns, PaidTurn DEF Turns
<1>2. CASE UNCHANGED <<scene, req, seen>>
    BY <1>2 DEF PaidSoFar, Owed, Keyed, seen
<1> QED
    BY <1>1, <1>2 DEF Next, rotate, WindowOver, vars

\* Where a rotated credential's exchanges are served or refused, the caller is
\* charged for exactly the exchanges an upstream accepted, whatever gates,
\* failures, passes and waits a request went through.
THEOREM ChargedForWork == RotationsRefuse /\ Spec => []PaidForWork
<1> SUFFICES ASSUME RotationsRefuse PROVE Spec => []PaidForWork
    OBVIOUS
<1>1. Init => PaidSoFar
    BY DEF Init, PaidSoFar, Owed, Fresh
<1>2. HoldInv /\ PaidSoFar /\ [Next]_vars => PaidSoFar'
    BY PaidStep
<1>3. HoldInv /\ PaidSoFar => PaidForWork
    <2> SUFFICES ASSUME HoldInv, PaidSoFar, NEW r \in Requests, ~Holding(r, {"send", "leave", "settle"})
                 PROVE  charged[r] = worked[r] /\ spent[r] = IF Keyed(r) THEN worked[r] ELSE 0
        BY DEF PaidForWork
    <2>1. req[r].pc \notin {"leave", "settle"}
        BY DEF HoldInv, OnlyWhoCame, Holding
    <2> QED
        BY <2>1 DEF PaidSoFar, Owed
<1> QED
    BY <1>1, <1>2, <1>3, HoldInvariant, PTL DEF Spec

-----------------------------------------------------------------------------
(* No second answer *)

(***************************************************************************)
(* A pass that lost an accepted exchange still parks when one of its       *)
(* candidates is a model to come (run attempt_resend): the theorem is      *)
(* about scenes where nothing accepted is lost, or no model is to come.    *)
(***************************************************************************)
LossesDoNotPark ==
  \A s \in Scenes : \/ s.answers \cap {"lost", "left"} = {}
                    \/ "claimed" \notin s.refuses /\ "queued" \notin s.starts

\* A request that may not be sent again.
Over(r) == heard[r] = 1 \/ (worked[r] >= 1 /\ r \notin scene.idempotent)

\* A pass after which no loop goes on.
Final(q) == q.saw \/ q.err = "none" \/ ("failed" \in q.tried /\ "queued" \notin q.excl)

(***************************************************************************)
(* A request that may not be sent again is past its exchange; what its     *)
(* exchange ended with is what the loop looks at, and what the pass        *)
(* recorded keeps every loop from going on.                                *)
(***************************************************************************)
AnsweredOnce ==
  \A r \in Requests :
    /\ heard[r] <= 1 /\ (worked[r] > 1 => r \in scene.idempotent)
    /\ Over(r) =>
         /\ req[r].pc \in {"leave", "settle", "out", "unparked", "done"}
         /\ req[r].pc \in {"leave", "settle"} =>
              Phase(req[r].end) # "before" /\ (heard[r] = 1 => Phase(req[r].end) = "output")
         /\ req[r].pc \in {"out", "unparked"} => Final(req[r])

LEMMA FinalWaits ==
  ASSUME NEW q, Final(q)
  PROVE  ~awaits_activation(q) /\ ~awaits_recovery(q)
BY DEF Final, awaits_activation, awaits_recovery

LEMMA OnceTurn ==
  ASSUME RotationsRefuse, LossesDoNotPark, HoldInv, PaidSoFar, AnsweredOnce,
         NEW r \in Requests, NEW q, NEW h, Turn(r, q, h),
         Quiet(r, q) \/ Exchanged(r, q) \/ Left(r, q) \/ Settled(r, q)
  PROVE  AnsweredOnce'
<1>0. /\ req \in [Requests -> Threads] /\ req' = [req EXCEPT ![r] = q] /\ scene' = scene
      /\ q \in Threads /\ Formed(req[r]) /\ scene \in Scenes
      /\ worked \in [Requests -> Nat] /\ heard \in [Requests -> Nat]
    BY Thread DEF Turn, PaidSoFar, HoldInv, AttemptTypeOK
<1> DEFINE Good(x, pc, end) ==
       /\ heard'[x] <= 1 /\ (worked'[x] > 1 => x \in scene.idempotent)
       /\ Over(x)' =>
            /\ pc \in {"leave", "settle", "out", "unparked", "done"}
            /\ pc \in {"leave", "settle"} =>
                 Phase(end) # "before" /\ (heard'[x] = 1 => Phase(end) = "output")
<1>1. ASSUME Good(r, q.pc, q.end), Over(r)' /\ q.pc \in {"out", "unparked"} => Final(q),
             \A x \in Requests \ {r} : worked'[x] = worked[x] /\ heard'[x] = heard[x]
      PROVE  AnsweredOnce'
    <2> SUFFICES ASSUME NEW x \in Requests
                 PROVE  /\ Good(x, req'[x].pc, req'[x].end)
                        /\ Over(x)' /\ req'[x].pc \in {"out", "unparked"} => Final(req'[x])
        BY <1>0 DEF AnsweredOnce, Over
    <2>1. CASE x = r
        BY <1>0, <1>1, <2>1
    <2>2. CASE x # r
        <3>1. req'[x] = req[x] /\ worked'[x] = worked[x] /\ heard'[x] = heard[x]
            BY <1>0, <1>1, <2>2
        <3> QED
            BY <1>0, <3>1 DEF AnsweredOnce, Over
    <2> QED
        BY <2>1, <2>2
<1>2. /\ heard[r] <= 1 /\ (worked[r] > 1 => r \in scene.idempotent)
      /\ Over(r) =>
           /\ req[r].pc \in {"leave", "settle", "out", "unparked", "done"}
           /\ req[r].pc \in {"leave", "settle"} =>
                Phase(req[r].end) # "before" /\ (heard[r] = 1 => Phase(req[r].end) = "output")
           /\ req[r].pc \in {"out", "unparked"} => Final(req[r])
    BY DEF AnsweredOnce
<1>3. ASSUME UNCHANGED <<worked, heard>> PROVE Over(r)' = Over(r)
    BY <1>0, <1>3 DEF Over
<1>4. CASE Quiet(r, q)
    <2>1. UNCHANGED <<worked, heard>> /\ Over(r)' = Over(r)
        BY <1>3, <1>4 DEF Quiet, seen
    <2>2. Over(r) => q.pc = "done" \/ (q.pc = "unparked" /\ Final(q))
        <3> SUFFICES ASSUME Over(r) PROVE q.pc = "done" \/ (q.pc = "unparked" /\ Final(q))
            OBVIOUS
        <3>1. req[r].pc \in {"out", "unparked"} /\ Final(req[r])
            BY <1>2, <1>4 DEF Quiet
        <3>2. ~awaits_activation(req[r]) /\ ~awaits_recovery(req[r])
            BY <3>1, FinalWaits
        <3> QED
            BY <1>4, <3>1, <3>2 DEF Quiet, Final
    <2> QED
        BY <1>1, <1>2, <2>1, <2>2
<1>5. CASE Left(r, q)
    <2>1. UNCHANGED <<worked, heard>> /\ Over(r)' = Over(r)
          /\ req[r].pc = "leave" /\ q.pc = "settle" /\ q.end = req[r].end
        BY <1>3, <1>5 DEF Left, seen
    <2> QED
        BY <1>1, <1>2, <2>1
<1>6. CASE Exchanged(r, q)
    <2>0. ~Over(r) /\ heard[r] = 0 /\ (worked[r] = 0 \/ r \in scene.idempotent)
        BY <1>0, <1>2, <1>6 DEF Exchanged, Over
    <2>1. CASE q.pc = "send" /\ UNCHANGED <<worked, heard>>
        BY <1>1, <1>2, <1>3, <2>0, <2>1
    <2>2. CASE q.pc = "leave"
        <3>1. PICK e \in scene.answers \cup {"auth"} :
                /\ Upstream(r, e)
                /\ q.end = e \/ (scene.rotates /\ e \in scene.answers \ {"served"} /\ q.end = "auth")
            BY <1>6, <2>2 DEF Exchanged
        <3>2. /\ (Phase(q.end) # "before") = (Phase(e) # "before")
              /\ q.end # e => Phase(e) = "before"
            BY <3>1, EndTrue
        <3>3. /\ worked' = IF Phase(e) = "before" THEN worked ELSE [worked EXCEPT ![r] = worked[r] + 1]
              /\ heard' = IF Phase(e) = "output" THEN [heard EXCEPT ![r] = heard[r] + 1] ELSE heard
            BY <3>1 DEF Upstream, Inc
        <3>4. \A x \in Requests \ {r} : worked'[x] = worked[x] /\ heard'[x] = heard[x]
            BY <1>0, <3>3
        <3>5. CASE Phase(e) = "before"
            <4>1. UNCHANGED <<worked, heard>>
                BY <3>3, <3>5
            <4> QED
                BY <1>1, <1>2, <1>3, <2>0, <2>2, <4>1
        <3>6. CASE Phase(e) # "before"
            <4>1. q.end = e
                BY <3>2, <3>6
            <4>2. /\ worked'[r] = worked[r] + 1 /\ heard'[r] = IF Phase(e) = "output" THEN 1 ELSE 0
                BY <1>0, <2>0, <3>3, <3>6
            <4>3. worked[r] \in Nat
                BY <1>0
            <4>4. Good(r, q.pc, q.end)
                BY <2>0, <2>2, <3>6, <4>1, <4>2, <4>3
            <4> QED
                BY <1>1, <2>2, <3>4, <4>4
        <3> QED
            BY <3>5, <3>6
    <2> QED
        BY <1>6, <2>1, <2>2 DEF Exchanged
<1>7. CASE Settled(r, q)
    <2> DEFINE e == req[r].end
    <2>1. UNCHANGED <<worked, heard>> /\ Over(r)' = Over(r) /\ req[r].pc = "settle"
        BY <1>3, <1>7 DEF Settled
    <2>2. e \in scene.answers \cup {"auth"}
        BY <1>0, <2>1 DEF Formed
    <2>3. Over(r) => q.pc = "out" /\ Final(q)
        <3> SUFFICES ASSUME Over(r) PROVE q.pc = "out" /\ Final(q)
            OBVIOUS
        <3>1. Phase(e) # "before" /\ (heard[r] = 1 => Phase(e) = "output")
            BY <1>2, <2>1
        <3>2. ~may_failover(e, r \in scene.idempotent)
            BY <3>1 DEF may_failover, permits_failover, Over
        <3>3. /\ q.pc = "out" /\ q.excl = req[r].excl
              /\ q.saw = (req[r].saw \/ Phase(e) = "output")
              /\ e \notin {"served", "unreachable"} => "failed" \in q.tried
            BY <1>7, <3>2 DEF Settled
        <3>4. CASE Phase(e) = "output"
            BY <3>3, <3>4 DEF Final
        <3>5. CASE Phase(e) # "output"
            <4>1. scene.answers \subseteq Ends
                BY <1>0, AttemptAssumption DEF SceneType, Ends
            <4>2. e \in {"lost", "left"} /\ e \in scene.answers
                BY <2>2, <3>1, <3>5, <4>1 DEF Phase, Ends
            <4>3. "claimed" \notin scene.refuses /\ "queued" \notin scene.starts
                BY <1>0, <4>2 DEF LossesDoNotPark
            <4>4. "queued" \notin req[r].excl
                BY <1>0, <4>3 DEF Formed
            <4> QED
                BY <3>3, <4>2, <4>4 DEF Final
        <3> QED
            BY <3>4, <3>5
    <2> QED
        BY <1>1, <1>2, <2>1, <2>3
<1> QED
    BY <1>4, <1>5, <1>6, <1>7

LEMMA OnceStep ==
  ASSUME RotationsRefuse, LossesDoNotPark, HoldInv, PaidSoFar, AnsweredOnce, [Next]_vars
  PROVE  AnsweredOnce'
<1>1. ASSUME NEW r \in Requests, Step(r) \/ Expire(r) PROVE AnsweredOnce'
    BY <1>1, StepTurns, OnceTurn DEF Turns
<1>2. CASE UNCHANGED <<scene, req, seen>>
    BY <1>2 DEF AnsweredOnce, Over, Final, seen
<1> QED
    BY <1>1, <1>2 DEF Next, rotate, WindowOver, vars

\* Where losses do not park and a rotated credential's exchanges are served or
\* refused: for any requests, candidates, refusals and passes, an accepted
\* request without an idempotency key is never sent again, and nothing at all
\* is sent once output has reached the client.
THEOREM OneAnswer == RotationsRefuse /\ LossesDoNotPark /\ Spec => []NoSecondAnswer
<1> SUFFICES ASSUME RotationsRefuse, LossesDoNotPark PROVE Spec => []NoSecondAnswer
    OBVIOUS
<1>1. Init => PaidSoFar /\ AnsweredOnce
    BY DEF Init, PaidSoFar, Owed, Fresh, AnsweredOnce, Over
<1>2. HoldInv /\ PaidSoFar /\ AnsweredOnce /\ [Next]_vars => PaidSoFar' /\ AnsweredOnce'
    BY PaidStep, OnceStep
<1>3. HoldInv /\ PaidSoFar /\ AnsweredOnce => NoSecondAnswer
    BY DEF AnsweredOnce, NoSecondAnswer, Over, Holding
<1> QED
    BY <1>1, <1>2, <1>3, HoldInvariant, PTL DEF Spec

-----------------------------------------------------------------------------
(* Sequences of anything *)

IsSeq(s) == s \in Seq(Range(s))

LEMMA IsSeqOf ==
  ASSUME NEW S, NEW u \in Seq(S)
  PROVE  IsSeq(u)
<1>1. DOMAIN u = 1..Len(u) /\ Len(u) \in Nat /\ u = [i \in 1..Len(u) |-> u[i]]
  OBVIOUS
<1>2. \A i \in 1..Len(u) : u[i] \in Range(u)
  BY <1>1 DEF Range
<1>3. u \in Seq(Range(u))
  BY <1>1, <1>2
<1> QED
  BY <1>3 DEF IsSeq

LEMMA AppendIs ==
  ASSUME NEW s, IsSeq(s), NEW f
  PROVE  /\ IsSeq(Append(s, f)) /\ Len(Append(s, f)) = Len(s) + 1
         /\ Len(s) \in Nat /\ DOMAIN s = 1..Len(s) /\ DOMAIN Append(s, f) = 1..(Len(s) + 1)
         /\ \A i \in 1..Len(s) : Append(s, f)[i] = s[i]
         /\ Append(s, f)[Len(s) + 1] = f
<1> DEFINE S == Range(s) \cup {f}
<1>1. s \in Seq(S) /\ f \in S
  <2>1. s \in Seq(Range(s))
    BY DEF IsSeq
  <2> HIDE DEF S
  <2>2. Range(s) \subseteq S /\ f \in S
    BY DEF S
  <2>3. Len(s) \in Nat /\ DOMAIN s = 1..Len(s) /\ s = [i \in 1..Len(s) |-> s[i]]
    BY <2>1
  <2>4. \A i \in 1..Len(s) : s[i] \in S
    BY <2>1, <2>2
  <2> QED
    BY <2>2, <2>3, <2>4
<1> HIDE DEF S
<1>2. /\ Append(s, f) \in Seq(S) /\ Len(Append(s, f)) = Len(s) + 1
      /\ Len(s) \in Nat /\ DOMAIN s = 1..Len(s) /\ DOMAIN Append(s, f) = 1..(Len(s) + 1)
      /\ \A i \in 1..Len(s) : Append(s, f)[i] = s[i]
      /\ Append(s, f)[Len(s) + 1] = f
  BY <1>1
<1>3. IsSeq(Append(s, f))
  BY <1>2, IsSeqOf
<1> QED
  BY <1>2, <1>3

LEMMA ConcatIs ==
  ASSUME NEW s, IsSeq(s), NEW v, IsSeq(v)
  PROVE  /\ IsSeq(s \o v) /\ Len(s \o v) = Len(s) + Len(v)
         /\ Len(s) \in Nat /\ DOMAIN s = 1..Len(s) /\ Len(v) \in Nat /\ DOMAIN v = 1..Len(v)
         /\ DOMAIN (s \o v) = 1..(Len(s) + Len(v))
         /\ \A i \in 1..Len(s) : (s \o v)[i] = s[i]
         /\ \A i \in 1..Len(v) : (s \o v)[Len(s) + i] = v[i]
         /\ \A i \in 1..(Len(s) + Len(v)) : i > Len(s) => (s \o v)[i] = v[i - Len(s)]
<1> DEFINE S == Range(s) \cup Range(v)
<1>1. s \in Seq(S) /\ v \in Seq(S)
  <2>1. s \in Seq(Range(s)) /\ v \in Seq(Range(v))
    BY DEF IsSeq
  <2> HIDE DEF S
  <2>2. Range(s) \subseteq S /\ Range(v) \subseteq S
    BY DEF S
  <2>3. Len(s) \in Nat /\ DOMAIN s = 1..Len(s) /\ s = [i \in 1..Len(s) |-> s[i]]
        /\ Len(v) \in Nat /\ DOMAIN v = 1..Len(v) /\ v = [i \in 1..Len(v) |-> v[i]]
    BY <2>1
  <2>4. (\A i \in 1..Len(s) : s[i] \in S) /\ (\A i \in 1..Len(v) : v[i] \in S)
    BY <2>1, <2>2
  <2> QED
    BY <2>3, <2>4
<1> HIDE DEF S
<1>2. /\ s \o v \in Seq(S) /\ Len(s \o v) = Len(s) + Len(v)
      /\ Len(s) \in Nat /\ DOMAIN s = 1..Len(s) /\ Len(v) \in Nat /\ DOMAIN v = 1..Len(v)
      /\ DOMAIN (s \o v) = 1..(Len(s) + Len(v))
  BY <1>1
<1>3. /\ \A i \in 1..Len(s) : (s \o v)[i] = s[i]
      /\ \A i \in 1..(Len(s) + Len(v)) : i > Len(s) => (s \o v)[i] = v[i - Len(s)]
  BY <1>1, <1>2
<1>4. \A i \in 1..Len(v) : (s \o v)[Len(s) + i] = v[i]
  BY <1>2, <1>3
<1>5. IsSeq(s \o v)
  BY <1>2, IsSeqOf
<1> QED
  BY <1>2, <1>3, <1>4, <1>5

LEMMA NothingIs == IsSeq(<<>>) /\ Len(<<>>) = 0 /\ DOMAIN <<>> = {}
  BY DEF IsSeq, Range


-----------------------------------------------------------------------------
(* What one attempt's events are made of, and what is rendered from them *)

\* What was read in attempt t.
Frags(t) == {t} \X Nat
UsageType == [input : Nat, output : Nat, source : {"reported", "output"}]

\* The canonical events attempt t can give.
Events(t) ==
  [type : {"start"}] \cup [type : {"text", "reasoning"}, frag : Frags(t)]
  \cup [type : {"tool"}, tool : Tools, named : BOOLEAN, args : Seq(Frags(t))]
  \cup [type : {"usage"}, usage : UsageType] \cup [type : {"finish"}, reason : Reasons]

\* A frame with a part of the answer in it.
Carries(f) == f.type \in {"text", "reasoning", "tool", "delta"}

\* A frame rendered from e carries what e said, or nothing.
FrameOf(e, f) == Carries(f) => is_semantic_output(e) /\ f.body = Body(e)

\* A renderer's result: its state and frames of e.
IsSheet(x, e) ==
  /\ "st" \in DOMAIN x /\ "out" \in DOMAIN x
  /\ IsSeq(x.out) /\ \A i \in DOMAIN x.out : FrameOf(e, x.out[i])

LEMMA EmitSheet ==
  ASSUME NEW x, NEW e, IsSheet(x, e), NEW f, FrameOf(e, f)
  PROVE  IsSheet(Emit(x, f), e)
<1>1. /\ "st" \in DOMAIN Emit(x, f) /\ "out" \in DOMAIN Emit(x, f)
      /\ Emit(x, f).out = Append(x.out, f)
  BY DEF Emit, IsSheet
<1>2. IsSeq(x.out) /\ \A i \in DOMAIN x.out : FrameOf(e, x.out[i])
  BY DEF IsSheet
<1>3. \A i \in DOMAIN Append(x.out, f) : FrameOf(e, Append(x.out, f)[i])
  BY <1>2, AppendIs
<1> QED
  BY <1>1, <1>2, <1>3, AppendIs DEF IsSheet

LEMMA StateSheet ==
  ASSUME NEW x, NEW e, IsSheet(x, e), NEW y, DOMAIN y = DOMAIN x, y.out = x.out
  PROVE  IsSheet(y, e)
  BY DEF IsSheet

LEMMA StartSheet ==
  ASSUME NEW x, NEW e, IsSheet(x, e)
  PROVE  IsSheet(ensure_started(x), e)
<1> DEFINE y == [x EXCEPT !.st.started = TRUE]
<1>1. IsSheet(y, e)
  <2>1. DOMAIN y = DOMAIN x /\ y.out = x.out
    BY DEF IsSheet
  <2> QED
    BY <2>1, StateSheet
<1>2. FrameOf(e, [type |-> "start"])
  BY DEF FrameOf, Carries
<1> HIDE DEF y
<1>3. IsSheet(Emit(y, [type |-> "start"]), e)
  BY <1>1, <1>2, EmitSheet
<1> QED
  BY <1>3 DEF ensure_started, y

LEMMA CloseSheet ==
  ASSUME NEW x, NEW e, IsSheet(x, e)
  PROVE  IsSheet(close_open(x), e)
<1> DEFINE y == [x EXCEPT !.st.open = <<>>, !.st.items = Append(@, x.st.open[1])]
           f == [type |-> "close", index |-> x.st.open[1].index]
<1>1. IsSheet(y, e)
  <2>1. DOMAIN y = DOMAIN x /\ y.out = x.out
    BY DEF IsSheet
  <2> QED
    BY <2>1, StateSheet
<1>2. FrameOf(e, f)
  BY DEF FrameOf, Carries
<1> HIDE DEF y, f
<1>3. IsSheet(Emit(y, f), e)
  BY <1>1, <1>2, EmitSheet
<1> QED
  BY <1>3 DEF close_open, y, f

LEMMA EnterSheet ==
  ASSUME NEW x, NEW e, IsSheet(x, e)
  PROVE  IsSheet(enter_block(x, e), e)
<1> DEFINE y == close_open(x)
           b == [index |-> y.st.next, kind |-> Kind(e), named |-> Named(e), body |-> <<>>]
           z == [y EXCEPT !.st.open = <<b>>, !.st.next = @ + 1]
           f == [type |-> "open", index |-> b.index, kind |-> b.kind.of, named |-> b.named]
<1>1. IsSheet(y, e)
  BY CloseSheet
<1> HIDE DEF y
<1>2. IsSheet(z, e)
  <2>1. DOMAIN z = DOMAIN y /\ z.out = y.out
    BY <1>1 DEF IsSheet
  <2> QED
    BY <1>1, <2>1, StateSheet
<1>3. FrameOf(e, f)
  BY DEF FrameOf, Carries
<1> HIDE DEF z, f
<1>4. IsSheet(Emit(z, f), e)
  BY <1>2, <1>3, EmitSheet
<1> QED
  BY <1>4 DEF enter_block, y, b, z, f

LEMMA WriteSheet ==
  ASSUME NEW x, NEW e, IsSheet(x, e), is_semantic_output(e)
  PROVE  IsSheet(Write(x, e), e)
<1> DEFINE y == [x EXCEPT !.st.open[1].body = @ \o Body(e)]
           f == [type |-> "delta", index |-> x.st.open[1].index, body |-> Body(e)]
<1>1. IsSheet(y, e)
  <2>1. DOMAIN y = DOMAIN x /\ y.out = x.out
    BY DEF IsSheet
  <2> QED
    BY <2>1, StateSheet
<1>2. FrameOf(e, f)
  BY DEF FrameOf, Carries
<1> HIDE DEF y, f
<1>3. IsSheet(Emit(y, f), e)
  BY <1>1, <1>2, EmitSheet
<1> QED
  BY <1>3 DEF Write, y, f

LEMMA FailSheet ==
  ASSUME NEW x, NEW e, IsSheet(x, e)
  PROVE  IsSheet(fail(x), e)
<1> DEFINE y == [x EXCEPT !.st.stopped = TRUE]
           f == [type |-> "error"]
<1>1. IsSheet(y, e)
  <2>1. DOMAIN y = DOMAIN x /\ y.out = x.out
    BY DEF IsSheet
  <2> QED
    BY <2>1, StateSheet
<1>2. FrameOf(e, f)
  BY DEF FrameOf, Carries
<1> HIDE DEF y, f
<1>3. IsSheet(Emit(y, f), e)
  BY <1>1, <1>2, EmitSheet
<1> QED
  BY <1>3 DEF fail, y, f

LEMMA EndSheet ==
  ASSUME NEW x, NEW e, IsSheet(x, e)
  PROVE  IsSheet(close_message(x), e)
<1> DEFINE y == [x EXCEPT !.st.stopped = TRUE]
           f == message_delta(x.st)
<1>1. IsSheet(y, e)
  <2>1. DOMAIN y = DOMAIN x /\ y.out = x.out
    BY DEF IsSheet
  <2> QED
    BY <2>1, StateSheet
<1>2. FrameOf(e, f)
  BY DEF FrameOf, Carries, message_delta
<1> HIDE DEF y, f
<1>3. IsSheet(Emit(y, f), e)
  BY <1>1, <1>2, EmitSheet
<1> QED
  BY <1>3 DEF close_message, y, f


EventTypes == {"start", "text", "reasoning", "tool", "usage", "finish"}

LEMMA MessagesSheet ==
  ASSUME NEW st, NEW e, e.type \in EventTypes
  PROVE  IsSheet(render_messages(st, e), e)
<1> DEFINE x == [st |-> st, out |-> <<>>]
           s == ensure_started(x)
<1>1. IsSheet(x, e) /\ x.st = st
  BY NothingIs DEF IsSheet
<1> HIDE DEF x
<1>2. IsSheet(s, e)
  BY <1>1, StartSheet
<1> HIDE DEF s
<1>3. CASE st.stopped
  <2>1. render_messages(st, e) = x
    BY <1>3 DEF render_messages, x
  <2> QED
    BY <1>1, <2>1
<1>4. CASE ~st.stopped /\ st.finish # "none"
  <2> DEFINE y == [x EXCEPT !.st.usage = merge_usage(@, e.usage)]
  <2>1. render_messages(st, e) = IF e.type = "usage" THEN close_message(y) ELSE x
    BY <1>4 DEF render_messages, x
  <2>2. IsSheet(y, e)
    <3>1. DOMAIN y = DOMAIN x /\ y.out = x.out
      BY <1>1 DEF IsSheet
    <3> QED
      BY <1>1, <3>1, StateSheet
  <2> HIDE DEF y
  <2>3. IsSheet(close_message(y), e)
    BY <2>2, EndSheet
  <2> QED
    BY <1>1, <2>1, <2>3
<1>5. CASE ~st.stopped /\ ~(st.finish # "none")
  <2>1. CASE e.type = "start"
    <3>1. render_messages(st, e) = s
      BY <1>5, <2>1 DEF render_messages, s, x
    <3> QED
      BY <1>2, <3>1
  <2>2. CASE e.type \in {"text", "reasoning"}
    <3>1. render_messages(st, e) = Write(enter_block(s, e), e)
      BY <1>5, <2>2 DEF render_messages, s, x
    <3>2. is_semantic_output(e)
      BY <2>2 DEF is_semantic_output
    <3> QED
      BY <1>2, <3>1, <3>2, EnterSheet, WriteSheet
  <2>3. CASE e.type = "tool"
    <3> DEFINE y == [s EXCEPT !.st.seen = @ \cup {e.tool}]
    <3>1. render_messages(st, e) = IF OpenIs(st, Kind(e)) THEN Write(s, e)
                                   ELSE IF e.tool \in st.seen THEN fail(s)
                                   ELSE Write(enter_block(y, e), e)
      BY <1>5, <2>3 DEF render_messages, s, x
    <3>2. is_semantic_output(e)
      BY <2>3 DEF is_semantic_output
    <3>3. IsSheet(y, e)
      <4>1. DOMAIN y = DOMAIN s /\ y.out = s.out
        BY <1>2 DEF IsSheet
      <4> QED
        BY <1>2, <4>1, StateSheet
    <3> HIDE DEF y
    <3>4. IsSheet(Write(s, e), e) /\ IsSheet(fail(s), e) /\ IsSheet(Write(enter_block(y, e), e), e)
      BY <1>2, <3>2, <3>3, WriteSheet, FailSheet, EnterSheet
    <3> QED
      BY <3>1, <3>4
  <2>4. CASE e.type = "usage"
    <3> DEFINE y == [s EXCEPT !.st.usage = merge_usage(@, e.usage)]
    <3>1. render_messages(st, e) = y
      BY <1>5, <2>4 DEF render_messages, s, x
    <3>2. DOMAIN y = DOMAIN s /\ y.out = s.out
      BY <1>2 DEF IsSheet
    <3> HIDE DEF y
    <3> QED
      BY <1>2, <3>1, <3>2, StateSheet
  <2>5. CASE e.type = "finish"
    <3> DEFINE c == close_open(s)
               y == [c EXCEPT !.st.finish = e.reason]
    <3>1. render_messages(st, e) = y
      BY <1>5, <2>5 DEF render_messages, s, x
    <3>2. IsSheet(c, e)
      BY <1>2, CloseSheet
    <3> HIDE DEF c
    <3>3. DOMAIN y = DOMAIN c /\ y.out = c.out
      BY <3>2 DEF IsSheet
    <3> HIDE DEF y
    <3> QED
      BY <3>1, <3>2, <3>3, StateSheet
  <2> QED
    BY <2>1, <2>2, <2>3, <2>4, <2>5 DEF EventTypes
<1> QED
  BY <1>3, <1>4, <1>5

LEMMA ResponsesSheet ==
  ASSUME NEW st, NEW e, e.type \in EventTypes
  PROVE  IsSheet(render_responses(st, e), e)
<1> DEFINE x == [st |-> st, out |-> <<>>]
           s == ensure_started(x)
<1>1. IsSheet(x, e) /\ x.st = st
  BY NothingIs DEF IsSheet
<1> HIDE DEF x
<1>2. IsSheet(s, e)
  BY <1>1, StartSheet
<1> HIDE DEF s
<1>3. CASE st.stopped
  <2>1. render_responses(st, e) = x
    BY <1>3 DEF render_responses, x
  <2> QED
    BY <1>1, <2>1
<1>4. CASE ~st.stopped /\ e.type \in {"text", "reasoning", "tool"}
  <2>1. render_responses(st, e) = IF st.finish # "none" THEN x ELSE Write(enter_block(s, e), e)
    BY <1>4 DEF render_responses, ensure_item, s, x
  <2>2. is_semantic_output(e)
    BY <1>4 DEF is_semantic_output
  <2>3. IsSheet(Write(enter_block(s, e), e), e)
    BY <1>2, <2>2, EnterSheet, WriteSheet
  <2> QED
    BY <1>1, <2>1, <2>3
<1>5. CASE ~st.stopped /\ e.type = "start"
  <2>1. render_responses(st, e) = s
    BY <1>5 DEF render_responses, s, x
  <2> QED
    BY <1>2, <2>1
<1>6. CASE ~st.stopped /\ e.type = "usage"
  <2> DEFINE y == [x EXCEPT !.st.usage = <<e.usage>>]
  <2>1. render_responses(st, e) = y
    BY <1>6 DEF render_responses, x
  <2>2. DOMAIN y = DOMAIN x /\ y.out = x.out
    BY <1>1 DEF IsSheet
  <2> HIDE DEF y
  <2> QED
    BY <1>1, <2>1, <2>2, StateSheet
<1>7. CASE ~st.stopped /\ e.type = "finish"
  <2> DEFINE c == close_open(s)
             y == [c EXCEPT !.st.finish = e.reason]
  <2>1. render_responses(st, e) = y
    BY <1>7 DEF render_responses, s, x
  <2>2. IsSheet(c, e)
    BY <1>2, CloseSheet
  <2> HIDE DEF c
  <2>3. DOMAIN y = DOMAIN c /\ y.out = c.out
    BY <2>2 DEF IsSheet
  <2> HIDE DEF y
  <2> QED
    BY <2>1, <2>2, <2>3, StateSheet
<1> QED
  BY <1>3, <1>4, <1>5, <1>6, <1>7 DEF EventTypes

LEMMA ChatSheet ==
  ASSUME NEW st, NEW e, e.type \in EventTypes
  PROVE  IsSheet([st |-> st, out |-> <<render_chat_chunk(e)>>], e)
<1> DEFINE f == render_chat_chunk(e)
<1>1. FrameOf(e, f)
  <2>1. CASE e.type = "start"
    BY <2>1 DEF FrameOf, Carries, render_chat_chunk
  <2>2. CASE e.type \in {"text", "reasoning"}
    BY <2>2 DEF FrameOf, Carries, render_chat_chunk, is_semantic_output, Body
  <2>3. CASE e.type = "tool"
    BY <2>3 DEF FrameOf, Carries, render_chat_chunk, is_semantic_output, Body
  <2>4. CASE e.type = "usage"
    BY <2>4 DEF FrameOf, Carries, render_chat_chunk
  <2>5. CASE e.type = "finish"
    BY <2>5 DEF FrameOf, Carries, render_chat_chunk
  <2> QED
    BY <2>1, <2>2, <2>3, <2>4, <2>5 DEF EventTypes
<1> HIDE DEF f
<1>2. IsSeq(<<f>>) /\ DOMAIN <<f>> = {1} /\ <<f>>[1] = f
  <2>1. <<f>> \in Seq({f})
    OBVIOUS
  <2>2. IsSeq(<<f>>)
    BY <2>1, IsSeqOf
  <2>3. DOMAIN <<f>> = {1} /\ <<f>>[1] = f
    OBVIOUS
  <2> QED
    BY <2>2, <2>3
<1> DEFINE y == [st |-> st, out |-> <<f>>]
<1>3. y.out = <<f>> /\ "st" \in DOMAIN y /\ "out" \in DOMAIN y
  OBVIOUS
<1> HIDE DEF y
<1>4. IsSheet(y, e)
  BY <1>1, <1>2, <1>3 DEF IsSheet
<1> QED
  BY <1>4 DEF y, f


LEMMA RenderedSheet ==
  ASSUME sc.client \in {"chat", "responses", "anthropic"}, NEW e, e.type \in EventTypes
  PROVE  IsSheet(Rendered(e), e)
<1>1. CASE sc.client = "anthropic"
  BY <1>1, MessagesSheet DEF Rendered
<1>2. CASE sc.client = "responses"
  BY <1>2, ResponsesSheet DEF Rendered
<1>3. CASE sc.client = "chat"
  BY <1>3, ChatSheet DEF Rendered
<1> QED
  BY <1>1, <1>2, <1>3

\* Everything an event is decoded into was read in this attempt.
LEMMA DecodedOwn ==
  ASSUME tries \in Nat, read \in Nat, sc.upstream \in {"chat", "responses", "anthropic"},
         NEW w, w.tool \in Tools
  PROVE  Decoded(w) \in Seq(Events(tries))
<1> DEFINE E == Events(tries)
<1>0. Frag \in Frags(tries) /\ Out \in Nat /\ In \in Nat
  BY DEF Frag, Frags, Out, In
<1>1. /\ TextDelta(Frag) \in E /\ ReasoningDelta(Frag) \in E
      /\ Start \in E
  BY <1>0 DEF TextDelta, ReasoningDelta, Start, Events
<1>2. /\ ToolCallDelta(w.tool, TRUE, <<>>) \in E
      /\ ToolCallDelta(w.tool, FALSE, <<Frag>>) \in E
  <2>1. <<>> \in Seq(Frags(tries)) /\ <<Frag>> \in Seq(Frags(tries))
    BY <1>0
  <2> QED
    BY <2>1 DEF ToolCallDelta, Events
<1>3. \A k \in Reasons : Finish(k) \in E
  BY DEF Finish, Events
<1>4. Finish("stop") \in E
  BY DEF Finish, Events, Reasons
<1>5. Usage(Reported(In, Out)) \in E /\ Usage(output_only(Out)) \in E
  BY <1>0 DEF Usage, Reported, output_only, Events, UsageType
<1> DEFINE T == TextDelta(Frag)
           D == ReasoningDelta(Frag)
           H == ToolCallDelta(w.tool, TRUE, <<>>)
           A == ToolCallDelta(w.tool, FALSE, <<Frag>>)
           U == Usage(Reported(In, Out))
           O == Usage(output_only(Out))
           F == Finish("stop")
           K == Finish(w.kind)
           B == Start
<1>6. T \in E /\ D \in E /\ H \in E /\ A \in E /\ U \in E /\ O \in E /\ F \in E /\ B \in E
      /\ (w.kind \in Reasons => K \in E)
  BY <1>1, <1>2, <1>3, <1>4, <1>5
<1>7. decode_stream_event(w) =
        CASE w.kind = "text" -> <<T>> [] w.kind = "reasoning" -> <<D>> [] w.kind = "head" -> <<H>>
          [] w.kind = "args" -> <<A>> [] w.kind \in Reasons -> <<K>>
          [] w.kind = "stop_usage" -> <<F, U>> [] w.kind = "usage" -> <<U>> [] OTHER -> <<>>
  BY DEF decode_stream_event
<1>8. decode_responses_stream_event(w) =
        CASE w.kind = "start" -> <<B>> [] w.kind = "text" -> <<T>> [] w.kind = "reasoning" -> <<D>>
          [] w.kind = "head" -> <<H>> [] w.kind = "args" -> <<A>> [] w.kind \in Reasons -> <<K>>
          [] w.kind = "stop_usage" -> <<U, F>> [] OTHER -> <<>>
  BY DEF decode_responses_stream_event
<1>9. decode_messages_stream_event(w) =
        CASE w.kind = "start" -> <<B, U>> [] w.kind = "text" -> <<T>> [] w.kind = "reasoning" -> <<D>>
          [] w.kind = "head" -> <<H>> [] w.kind = "args" -> <<A>> [] w.kind \in Reasons -> <<K>>
          [] w.kind = "usage" -> <<O>> [] w.kind = "stop_usage" -> <<O, F>> [] OTHER -> <<>>
  BY DEF decode_messages_stream_event
<1> HIDE DEF E, T, D, H, A, U, O, F, K, B
<1>10. decode_stream_event(w) \in Seq(E)
  BY <1>6, <1>7
<1>11. decode_responses_stream_event(w) \in Seq(E)
  BY <1>6, <1>8
<1>12. decode_messages_stream_event(w) \in Seq(E)
  BY <1>6, <1>9
<1> QED
  BY <1>10, <1>11, <1>12 DEF Decoded, E


LEMMA EventSays ==
  ASSUME NEW t \in Nat, NEW e \in Events(t)
  PROVE  /\ e.type \in EventTypes
         /\ is_semantic_output(e) => \A k \in DOMAIN Body(e) : Body(e)[k][1] = t
<1>1. CASE e \in [type : {"start"}]
  BY <1>1 DEF EventTypes, is_semantic_output
<1>2. CASE e \in [type : {"text", "reasoning"}, frag : Frags(t)]
  <2>1. Body(e) = <<e.frag>> /\ e.frag[1] = t /\ e.type \in {"text", "reasoning"}
    BY <1>2 DEF Body, Frags
  <2> QED
    BY <2>1 DEF EventTypes
<1>3. CASE e \in [type : {"tool"}, tool : Tools, named : BOOLEAN, args : Seq(Frags(t))]
  <2>1. Body(e) = e.args /\ e.args \in Seq(Frags(t)) /\ e.type = "tool"
    BY <1>3 DEF Body
  <2>2. \A k \in DOMAIN Body(e) : Body(e)[k] \in Frags(t)
    BY <2>1
  <2> QED
    BY <2>1, <2>2 DEF Frags, EventTypes
<1>4. CASE e \in [type : {"usage"}, usage : UsageType]
  BY <1>4 DEF EventTypes, is_semantic_output
<1>5. CASE e \in [type : {"finish"}, reason : Reasons]
  BY <1>5 DEF EventTypes, is_semantic_output
<1> QED
  BY <1>1, <1>2, <1>3, <1>4, <1>5 DEF Events

\* What is written at the end carries nothing of an answer.
Silent(s) == IsSeq(s) /\ \A i \in DOMAIN s : ~Carries(s[i])

LEMMA SilentSheet ==
  ASSUME NEW x, IsSheet(x, Start)
  PROVE  Silent(x.out)
  BY DEF IsSheet, Silent, FrameOf, is_semantic_output, Start

LEMMA SilentWords ==
  /\ Silent(<<>>) /\ Silent(<<[type |-> "done"]>>) /\ Silent(<<[type |-> "error"]>>)
  /\ Silent(<<[type |-> "error"], [type |-> "done"]>>)
<1> DEFINE d == [type |-> "done"]
           f == [type |-> "error"]
<1>1. ~Carries(d) /\ ~Carries(f)
  BY DEF Carries
<1> HIDE DEF d, f
<1>2. <<d>> \in Seq({d, f}) /\ <<f>> \in Seq({d, f}) /\ <<f, d>> \in Seq({d, f})
  OBVIOUS
<1>3. IsSeq(<<d>>) /\ IsSeq(<<f>>) /\ IsSeq(<<f, d>>)
  BY <1>2, IsSeqOf
<1>4. Silent(<<d>>) /\ Silent(<<f>>)
  BY <1>1, <1>3 DEF Silent
<1>5. Silent(<<f, d>>)
  BY <1>1, <1>3 DEF Silent
<1>6. Silent(<<>>)
  BY NothingIs DEF Silent
<1> QED
  BY <1>4, <1>5, <1>6 DEF d, f

LEMMA ClosingSilent ==
  ASSUME NEW client \in {"chat", "responses", "anthropic"}, NEW st
  PROVE  Silent(Closing(client, st)) /\ Silent(Refused(client, st))
<1> DEFINE x == [st |-> Given(st), out |-> <<>>]
<1>1. IsSheet(x, Start)
  BY NothingIs DEF IsSheet
<1> HIDE DEF x
<1>2. Silent(finish_messages(st))
  <2>1. IsSheet(close_message(close_open(x)), Start)
    BY <1>1, CloseSheet, EndSheet
  <2>2. Silent(close_message(close_open(x)).out)
    BY <2>1, SilentSheet
  <2> QED
    BY <2>2, SilentWords DEF finish_messages, x
<1>3. Silent(finish_responses(st))
  <2> DEFINE y == close_open(ensure_started(x))
             f == response_object(y.st)
  <2>1. IsSheet(y, Start)
    BY <1>1, CloseSheet, StartSheet
  <2>2. FrameOf(Start, f)
    BY DEF response_object, FrameOf, Carries
  <2> HIDE DEF y, f
  <2>3. Silent(Emit(y, f).out) /\ Emit(y, f).out = Append(y.out, f)
    <3>1. IsSheet(Emit(y, f), Start)
      BY <2>1, <2>2, EmitSheet
    <3>2. Emit(y, f).out = Append(y.out, f)
      BY <2>1 DEF Emit, IsSheet
    <3> QED
      BY <3>1, <3>2, SilentSheet
  <2>4. finish_responses(st) = IF st.stopped THEN <<>> ELSE Append(y.out, f)
    BY DEF finish_responses, x, y, f
  <2> QED
    BY <2>3, <2>4, SilentWords
<1>4. Silent(Closing(client, st))
  BY <1>2, <1>3, SilentWords DEF Closing
<1>5. Silent(Refused(client, st))
  BY SilentWords DEF Refused
<1> QED
  BY <1>4, <1>5


-----------------------------------------------------------------------------
(* The invariant, and that every step keeps it *)

StreamTypeOK ==
  /\ sc \in StreamScenes
  /\ at \in {"admit", "reading", "ok", "failed", "over"}
  /\ tries \in Nat /\ read \in Nat
  /\ inbox \in Seq(Events(tries))
  /\ saw_output \in BOOLEAN /\ ended \in BOOLEAN
  /\ sink \in {"withheld", "open", "closed", "402"}
  /\ IsSeq(frames)

\* Events are waiting only while an attempt is read, an attempt is followed by
\* another only without output, and all that was sent is of this attempt, which
\* has then had output.
VoiceInv ==
  /\ StreamTypeOK
  /\ inbox # <<>> => at = "reading"
  /\ at = "admit" => ~saw_output
  /\ \A i \in DOMAIN frames : Carries(frames[i]) =>
       saw_output /\ \A k \in DOMAIN frames[i].body : frames[i].body[k][1] = tries

LEMMA SceneFacts ==
  ASSUME sc \in StreamScenes
  PROVE  /\ sc.client \in {"chat", "responses", "anthropic"}
         /\ sc.upstream \in {"chat", "responses", "anthropic"}
         /\ \A w \in sc.wire : w.tool \in Tools
  BY StreamAssumption DEF StreamSceneType

LEMMA VoiceStarts == StreamInit => VoiceInv
<1> SUFFICES ASSUME StreamInit
             PROVE  VoiceInv
  OBVIOUS
<1>1. IsSeq(frames) /\ DOMAIN frames = {}
  BY NothingIs DEF StreamInit
<1>2. inbox = <<>> /\ inbox \in Seq(Events(tries))
  BY DEF StreamInit
<1>3. /\ sc \in StreamScenes /\ at = "admit" /\ tries = 0 /\ read = 0
      /\ saw_output = FALSE /\ ended = FALSE /\ sink \in {"withheld", "open"}
  BY DEF StreamInit
<1> QED
  BY <1>1, <1>2, <1>3 DEF VoiceInv, StreamTypeOK

\* Frames that carry nothing may follow whatever happens.
LEMMA SilenceKeeps ==
  ASSUME VoiceInv, NEW s, Silent(s)
  PROVE  /\ IsSeq(frames \o s)
         /\ \A i \in DOMAIN (frames \o s) : Carries((frames \o s)[i]) =>
              saw_output /\ \A k \in DOMAIN (frames \o s)[i].body : (frames \o s)[i].body[k][1] = tries
<1>1. IsSeq(frames) /\ IsSeq(s)
  BY DEF VoiceInv, StreamTypeOK, Silent
<1>2. IsSeq(frames \o s)
  BY <1>1, ConcatIs
<1> DEFINE u == frames \o s
<1> HIDE DEF u
<1>5. SUFFICES ASSUME NEW i \in DOMAIN u, Carries(u[i])
               PROVE  i \in DOMAIN frames /\ u[i] = frames[i]
  BY <1>2 DEF VoiceInv, u
<1>3. CASE i \in 1..Len(frames)
  BY <1>1, <1>3, ConcatIs DEF u
<1>4. CASE i \notin 1..Len(frames)
  <2>1. i \in 1..(Len(frames) + Len(s)) /\ Len(frames) \in Nat /\ Len(s) \in Nat
    BY <1>1, ConcatIs DEF u
  <2>2. i > Len(frames) /\ i - Len(frames) \in 1..Len(s)
    BY <1>4, <2>1
  <2>3. u[i] = s[i - Len(frames)] /\ i - Len(frames) \in DOMAIN s
    BY <1>1, <2>1, <2>2, ConcatIs DEF u
  <2> QED
    BY <1>5, <2>3 DEF Silent
<1> QED
  BY <1>3, <1>4

LEMMA DeliverKeeps ==
  ASSUME VoiceInv, Deliver
  PROVE  VoiceInv'
<1> DEFINE e == Head(inbox)
           x == Rendered(e)
           s == x.out
<1>1. /\ StreamTypeOK /\ at = "reading" /\ inbox # <<>> /\ e \in Events(tries) /\ tries \in Nat
      /\ Tail(inbox) \in Seq(Events(tries)) /\ <<>> \in Seq(Events(tries))
  BY DEF VoiceInv, StreamTypeOK, Deliver
<1>2. /\ e.type \in EventTypes
      /\ is_semantic_output(e) => \A k \in DOMAIN Body(e) : Body(e)[k][1] = tries
  BY <1>1, EventSays
<1>3. IsSheet(x, e)
  BY <1>1, <1>2, SceneFacts, RenderedSheet DEF StreamTypeOK
<1>4. IsSeq(frames) /\ IsSeq(s) /\ \A i \in DOMAIN s : FrameOf(e, s[i])
  BY <1>1, <1>3 DEF StreamTypeOK, IsSheet
<1>5. /\ saw_output' = (saw_output \/ is_semantic_output(e)) /\ ended' = (ended \/ e.type = "finish")
      /\ sc' = sc /\ tries' = tries /\ read' = read
      /\ \/ frames' = frames \o s /\ inbox' = Tail(inbox) /\ at' = at /\ sink' = sink
         \/ frames' = frames /\ sink' = "closed" /\ at' = "failed" /\ inbox' = <<>>
  BY DEF Deliver
<1> HIDE DEF e, x, s
<1>6. saw_output' \in BOOLEAN /\ ended' \in BOOLEAN
  BY <1>1, <1>5 DEF StreamTypeOK, is_semantic_output
<1>7. IsSeq(frames') /\ \A i \in DOMAIN frames' : Carries(frames'[i]) =>
        saw_output' /\ \A k \in DOMAIN frames'[i].body : frames'[i].body[k][1] = tries'
  <2>1. CASE frames' = frames
    BY <1>4, <1>5, <2>1 DEF VoiceInv
  <2>2. CASE frames' = frames \o s
    <3>1. SUFFICES ASSUME NEW i \in DOMAIN (frames \o s), Carries((frames \o s)[i])
                   PROVE  /\ saw_output \/ is_semantic_output(e)
                          /\ \A k \in DOMAIN (frames \o s)[i].body : (frames \o s)[i].body[k][1] = tries
      BY <1>4, <1>5, <2>2, ConcatIs
    <3>2. CASE i \in 1..Len(frames)
      <4>1. i \in DOMAIN frames /\ (frames \o s)[i] = frames[i]
        BY <1>4, <3>2, ConcatIs
      <4> QED
        BY <3>1, <4>1 DEF VoiceInv
    <3>3. CASE i \notin 1..Len(frames)
      <4>1. i \in 1..(Len(frames) + Len(s)) /\ Len(frames) \in Nat /\ Len(s) \in Nat
        BY <1>4, ConcatIs
      <4>2. i > Len(frames) /\ i - Len(frames) \in 1..Len(s)
        BY <3>3, <4>1
      <4>3. (frames \o s)[i] = s[i - Len(frames)] /\ i - Len(frames) \in DOMAIN s
        BY <1>4, <4>1, <4>2, ConcatIs
      <4> QED
        BY <1>2, <1>4, <3>1, <4>3 DEF FrameOf
    <3> QED
      BY <3>2, <3>3
  <2> QED
    BY <1>5, <2>1, <2>2
<1>8. inbox' \in Seq(Events(tries')) /\ at' \in {"admit", "reading", "ok", "failed", "over"}
      /\ sink' \in {"withheld", "open", "closed", "402"} /\ (inbox' # <<>> => at' = "reading") /\ at' # "admit"
  BY <1>1, <1>5 DEF StreamTypeOK
<1> QED
  BY <1>1, <1>5, <1>6, <1>7, <1>8 DEF VoiceInv, StreamTypeOK

LEMMA VoiceStep == VoiceInv /\ [StreamNext]_streamVars => VoiceInv'
<1> SUFFICES ASSUME VoiceInv, [StreamNext]_streamVars
             PROVE  VoiceInv'
  OBVIOUS
<1>0. <<>> \in Seq(Events(tries)) /\ \A t \in Nat : <<>> \in Seq(Events(t))
  OBVIOUS
<1>1. CASE Admit
  <2>1. inbox = <<>> /\ ~saw_output /\ tries + 1 \in Nat
    BY <1>1 DEF VoiceInv, StreamTypeOK, Admit
  <2>2. \A i \in DOMAIN frames : ~Carries(frames[i])
    BY <2>1 DEF VoiceInv
  <2> QED
    BY <1>0, <1>1, <2>1, <2>2 DEF VoiceInv, StreamTypeOK, Admit
<1>2. CASE Unfunded
  BY <1>2 DEF VoiceInv, StreamTypeOK, Unfunded
<1>3. CASE Malformed
  BY <1>0, <1>3 DEF VoiceInv, StreamTypeOK, Malformed, Failed, Reading
<1>4. CASE stream_end
  BY <1>0, <1>4 DEF VoiceInv, StreamTypeOK, stream_end, Failed, Reading
<1>5. CASE Deliver
  BY <1>5, DeliverKeeps
<1>6. CASE Close
  <2>1. Silent(Closing(sc.client, renderer)) /\ Silent(Refused(sc.client, renderer))
    BY ClosingSilent, SceneFacts DEF VoiceInv, StreamTypeOK
  <2>2. /\ inbox = <<>> /\ inbox' = inbox /\ at' = "over" /\ sink' \in {"open", "closed"}
        /\ saw_output' = saw_output /\ tries' = tries /\ read' = read /\ ended' = ended /\ sc' = sc
        /\ \/ frames' = frames
           \/ frames' = frames \o Closing(sc.client, renderer)
           \/ frames' = frames \o Refused(sc.client, renderer)
    BY <1>6 DEF Close, VoiceInv, StreamTypeOK
  <2>3. IsSeq(frames') /\ \A i \in DOMAIN frames' : Carries(frames'[i]) =>
          saw_output /\ \A k \in DOMAIN frames'[i].body : frames'[i].body[k][1] = tries
    <3>1. CASE frames' = frames
      BY <3>1 DEF VoiceInv, StreamTypeOK
    <3>2. ASSUME NEW s, Silent(s), frames' = frames \o s
          PROVE  IsSeq(frames') /\ \A i \in DOMAIN frames' : Carries(frames'[i]) =>
                   saw_output /\ \A k \in DOMAIN frames'[i].body : frames'[i].body[k][1] = tries
      BY <3>2, SilenceKeeps
    <3> QED
      BY <2>1, <2>2, <3>1, <3>2
  <2> QED
    BY <2>2, <2>3 DEF VoiceInv, StreamTypeOK
<1>7. ASSUME NEW w \in sc.wire, Read(w)
      PROVE  VoiceInv'
  <2>1. Decoded(w) \in Seq(Events(tries))
    BY <1>7, DecodedOwn, SceneFacts DEF VoiceInv, StreamTypeOK
  <2> QED
    BY <1>7, <2>1 DEF VoiceInv, StreamTypeOK, Read, Reading
<1>8. ASSUME NEW w \in sc.wire, Sentinel(w)
      PROVE  VoiceInv'
  BY <1>8 DEF VoiceInv, StreamTypeOK, Sentinel, Reading
<1>9. ASSUME NEW w \in sc.wire, Breaks(w)
      PROVE  VoiceInv'
  BY <1>0, <1>9 DEF VoiceInv, StreamTypeOK, Breaks, Failed, Reading
<1>10. CASE UNCHANGED streamVars
  BY <1>10 DEF streamVars, VoiceInv, StreamTypeOK
<1> QED
  BY <1>1, <1>2, <1>3, <1>4, <1>5, <1>6, <1>7, <1>8, <1>9, <1>10 DEF StreamNext

LEMMA VoiceFromInv == VoiceInv => OneVoice
<1> SUFFICES ASSUME VoiceInv, NEW i \in DOMAIN frames, KindAt(i) # "none"
             PROVE  \A k \in DOMAIN frames[i].body : frames[i].body[k][1] = tries
  BY DEF OneVoice
<1>1. Carries(frames[i])
  BY DEF KindAt, Carries
<1> QED
  BY <1>1 DEF VoiceInv

\* Every reachable state of a streamed answer has VoiceInv: what waits to be
\* delivered is of the attempt being read, and another attempt is made only
\* while nothing of an answer is out.
THEOREM VoiceInvariant == StreamSpec => []VoiceInv
  BY VoiceStarts, VoiceStep, PTL DEF StreamSpec

\* No answer is spliced from two attempts: however the attempts of a request
\* fail, in whichever pair of dialects, all the client ever reads was read in
\* the last one made.
THEOREM SpokenOnce == StreamSpec => []OneVoice
  BY VoiceInvariant, VoiceFromInv, PTL


-----------------------------------------------------------------------------
(* Frames counted by their type *)

\* How many of the first n frames are of a type; Before(i, ty) is the count
\* of the first i - 1.
CountIn(s, n, ty) == Cardinality({j \in 1..n : s[j].type = ty})

LEMMA CountFacts ==
  ASSUME NEW s, NEW n \in Nat, NEW ty
  PROVE  /\ IsFiniteSet({j \in 1..n : s[j].type = ty}) /\ CountIn(s, n, ty) \in Nat
         /\ s[n + 1].type = ty => CountIn(s, n + 1, ty) = CountIn(s, n, ty) + 1
         /\ s[n + 1].type # ty => CountIn(s, n + 1, ty) = CountIn(s, n, ty)
<1> DEFINE A == {j \in 1..n : s[j].type = ty}
           B == {j \in 1..(n + 1) : s[j].type = ty}
<1>1. IsFiniteSet(A)
  <2>1. IsFiniteSet(1..n)
    BY FS_Interval
  <2> QED
    BY <2>1, FS_Subset
<1>2. Cardinality(A) \in Nat
  BY <1>1, FS_CardinalityType
<1>3. CASE s[n + 1].type = ty
  <2>1. B = A \cup {n + 1} /\ n + 1 \notin A
    BY <1>3
  <2>2. Cardinality(B) = Cardinality(A) + 1
    BY <1>1, <2>1, FS_AddElement
  <2> QED
    BY <1>1, <1>2, <1>3, <2>2 DEF CountIn
<1>4. CASE s[n + 1].type # ty
  <2>1. B = A
    BY <1>4
  <2>2. CountIn(s, n + 1, ty) = CountIn(s, n, ty)
    BY <2>1 DEF CountIn
  <2> QED
    BY <1>1, <1>2, <1>4, <2>2 DEF CountIn
<1> QED
  BY <1>3, <1>4

LEMMA CountNone == ASSUME NEW s, NEW ty PROVE CountIn(s, 0, ty) = 0
<1>1. {j \in 1..0 : s[j].type = ty} = {}
  OBVIOUS
<1> QED
  BY <1>1, FS_EmptySet DEF CountIn

\* Two sequences that begin alike are counted alike.
LEMMA CountSame ==
  ASSUME NEW s, NEW u, NEW n \in Nat, \A j \in 1..n : u[j] = s[j], NEW ty
  PROVE  CountIn(u, n, ty) = CountIn(s, n, ty)
<1>1. {j \in 1..n : u[j].type = ty} = {j \in 1..n : s[j].type = ty}
  OBVIOUS
<1> QED
  BY <1>1 DEF CountIn

LEMMA CountAppend ==
  ASSUME NEW s, IsSeq(s), NEW f, NEW ty
  PROVE  /\ \A n \in 0..Len(s) : CountIn(Append(s, f), n, ty) = CountIn(s, n, ty)
         /\ CountIn(Append(s, f), Len(s) + 1, ty) =
              CountIn(s, Len(s), ty) + (IF f.type = ty THEN 1 ELSE 0)
         /\ CountIn(s, Len(s), ty) \in Nat
<1> DEFINE u == Append(s, f)
<1>1. Len(s) \in Nat /\ (\A i \in 1..Len(s) : u[i] = s[i]) /\ u[Len(s) + 1] = f
  BY AppendIs
<1> HIDE DEF u
<1>2. \A n \in 0..Len(s) : CountIn(u, n, ty) = CountIn(s, n, ty)
  <2>1. TAKE n \in 0..Len(s)
  <2>2. n \in Nat /\ \A j \in 1..n : u[j] = s[j]
    BY <1>1
  <2> QED
    BY <2>2, CountSame
<1>3. CountIn(u, Len(s) + 1, ty) = CountIn(u, Len(s), ty) + (IF f.type = ty THEN 1 ELSE 0)
  <2>1. /\ u[Len(s) + 1].type = ty => CountIn(u, Len(s) + 1, ty) = CountIn(u, Len(s), ty) + 1
        /\ u[Len(s) + 1].type # ty => CountIn(u, Len(s) + 1, ty) = CountIn(u, Len(s), ty)
        /\ CountIn(u, Len(s), ty) \in Nat
    BY <1>1, CountFacts, Zenon
  <2> QED
    BY <1>1, <2>1
<1>4. CountIn(u, Len(s), ty) = CountIn(s, Len(s), ty) /\ CountIn(s, Len(s), ty) \in Nat
  <2>1. Len(s) \in 0..Len(s)
    BY <1>1
  <2>2. CountIn(s, Len(s), ty) \in Nat
    BY <1>1, CountFacts, Zenon
  <2> QED
    BY <1>2, <2>1, <2>2
<1> QED
  BY <1>2, <1>3, <1>4 DEF u

-----------------------------------------------------------------------------
(* A stream of blocks, frame by frame *)

Ending == {"end", "error"}

\* Each frame stands where it may.
Well(s) ==
  /\ IsSeq(s)
  /\ \A i \in DOMAIN s :
       /\ s[i].type = "start" => i = 1
       /\ s[i].type = "open" => s[i].index = CountIn(s, i - 1, "open") /\ s[i].index = CountIn(s, i - 1, "close")
       /\ s[i].type \in {"delta", "close"} =>
            s[i].index + 1 = CountIn(s, i - 1, "open") /\ s[i].index = CountIn(s, i - 1, "close")
       /\ s[i].type = "end" => CountIn(s, i - 1, "open") = CountIn(s, i - 1, "close")
       /\ s[i].type \in Ending => i = Len(s)
       /\ s[i].type # "done"

Unended(s) == \A i \in DOMAIN s : s[i].type \notin Ending

\* f may be the next frame.
Legal(s, f) ==
  LET opened == CountIn(s, Len(s), "open")
      closed == CountIn(s, Len(s), "close")
  IN  /\ f.type = "start" => Len(s) = 0
      /\ f.type = "open" => f.index = opened /\ f.index = closed
      /\ f.type \in {"delta", "close"} => f.index + 1 = opened /\ f.index = closed
      /\ f.type = "end" => opened = closed
      /\ f.type # "done"

LEMMA WellAppend ==
  ASSUME NEW s, Well(s), Unended(s), NEW f, Legal(s, f)
  PROVE  /\ Well(Append(s, f))
         /\ f.type \notin Ending => Unended(Append(s, f))
<1> DEFINE u == Append(s, f)
<1>1. IsSeq(s)
  BY DEF Well
<1>2. /\ IsSeq(u) /\ Len(u) = Len(s) + 1 /\ Len(s) \in Nat /\ DOMAIN s = 1..Len(s)
      /\ DOMAIN u = 1..(Len(s) + 1) /\ (\A i \in 1..Len(s) : u[i] = s[i]) /\ u[Len(s) + 1] = f
  BY <1>1, AppendIs
<1>3. \A n \in 0..Len(s), ty \in {"open", "close"} : CountIn(u, n, ty) = CountIn(s, n, ty)
  BY <1>1, CountAppend
<1> HIDE DEF u
<1>4. ASSUME NEW i \in 1..Len(s)
      PROVE  i \in DOMAIN u /\ i \in DOMAIN s /\ u[i] = s[i] /\ i - 1 \in 0..Len(s)
             /\ CountIn(u, i - 1, "open") = CountIn(s, i - 1, "open")
             /\ CountIn(u, i - 1, "close") = CountIn(s, i - 1, "close")
             /\ u[i].type \notin Ending
  BY <1>2, <1>3, <1>4 DEF Unended
<1>5. ASSUME NEW i \in DOMAIN u
      PROVE  /\ u[i].type = "start" => i = 1
             /\ u[i].type = "open" => u[i].index = CountIn(u, i - 1, "open") /\ u[i].index = CountIn(u, i - 1, "close")
             /\ u[i].type \in {"delta", "close"} =>
                  u[i].index + 1 = CountIn(u, i - 1, "open") /\ u[i].index = CountIn(u, i - 1, "close")
             /\ u[i].type = "end" => CountIn(u, i - 1, "open") = CountIn(u, i - 1, "close")
             /\ u[i].type \in Ending => i = Len(u)
             /\ u[i].type # "done"
  <2>1. CASE i \in 1..Len(s)
    <3>1. /\ s[i].type = "start" => i = 1
          /\ s[i].type = "open" => s[i].index = CountIn(s, i - 1, "open") /\ s[i].index = CountIn(s, i - 1, "close")
          /\ s[i].type \in {"delta", "close"} =>
               s[i].index + 1 = CountIn(s, i - 1, "open") /\ s[i].index = CountIn(s, i - 1, "close")
          /\ s[i].type = "end" => CountIn(s, i - 1, "open") = CountIn(s, i - 1, "close")
          /\ s[i].type # "done"
      BY <1>4, <2>1 DEF Well
    <3> QED
      BY <1>4, <2>1, <3>1
  <2>2. CASE i = Len(s) + 1
    <3>1. /\ u[i] = f /\ i - 1 = Len(s)
          /\ CountIn(u, i - 1, "open") = CountIn(s, Len(s), "open")
          /\ CountIn(u, i - 1, "close") = CountIn(s, Len(s), "close")
      BY <1>2, <1>3, <2>2
    <3> QED
      BY <1>2, <2>2, <3>1 DEF Legal
  <2> QED
    BY <1>2, <2>1, <2>2
<1>6. Well(u)
  BY <1>2, <1>5 DEF Well
<1>7. f.type \notin Ending => Unended(u)
  <2>1. SUFFICES ASSUME f.type \notin Ending, NEW i \in DOMAIN u
                 PROVE  u[i].type \notin Ending
    BY DEF Unended
  <2>2. CASE i \in 1..Len(s)
    BY <1>4, <2>2
  <2>3. CASE i = Len(s) + 1
    BY <1>2, <2>1, <2>3
  <2> QED
    BY <1>2, <2>2, <2>3
<1> QED
  BY <1>6, <1>7 DEF u


-----------------------------------------------------------------------------
(* The renderer of blocks agrees with the frames that are out *)

RendererFields == {"started", "open", "next", "seen", "items", "usage", "finish", "stopped"}

\* As many blocks were opened as were numbered, and all but the open one are
\* closed, which has the last number.
OpenMatch(st, s) ==
  /\ CountIn(s, Len(s), "open") = st.next
  /\ st.open = <<>> => CountIn(s, Len(s), "close") = st.next
  /\ st.open # <<>> =>
       /\ DOMAIN st.open = {1} /\ "index" \in DOMAIN st.open[1] /\ st.open[1].index \in Nat
       /\ st.open[1].index + 1 = st.next /\ CountIn(s, Len(s), "close") = st.open[1].index
       /\ s # <<>>

Match(st, s) ==
  /\ DOMAIN st = RendererFields /\ st.next \in Nat
  /\ st.started \in BOOLEAN /\ st.stopped \in BOOLEAN
  /\ Well(s) /\ OpenMatch(st, s)
  /\ st.started <=> s # <<>>
  /\ s # <<>> => s[1].type = "start"
  /\ st.stopped => s # <<>> /\ s[Len(s)].type \in Ending
  /\ ~st.stopped => Unended(s)

\* One more frame, and what the renderer is after it.
LEMMA MatchAppend ==
  ASSUME NEW st, NEW s, Match(st, s), ~st.stopped, NEW f, Legal(s, f),
         s = <<>> => f.type = "start",
         NEW v, DOMAIN v = RendererFields, v.next \in Nat, v.started = TRUE,
         v.stopped \in BOOLEAN, v.stopped <=> f.type \in Ending,
         v.next = st.next + (IF f.type = "open" THEN 1 ELSE 0),
         v.open = <<>> => CountIn(s, Len(s), "close") + (IF f.type = "close" THEN 1 ELSE 0) = v.next,
         v.open # <<>> =>
           /\ DOMAIN v.open = {1} /\ "index" \in DOMAIN v.open[1] /\ v.open[1].index \in Nat
           /\ v.open[1].index + 1 = v.next
           /\ CountIn(s, Len(s), "close") + (IF f.type = "close" THEN 1 ELSE 0) = v.open[1].index
  PROVE  Match(v, Append(s, f))
<1> DEFINE u == Append(s, f)
<1>1. IsSeq(s) /\ Well(s) /\ Unended(s) /\ CountIn(s, Len(s), "open") = st.next
      /\ (s # <<>> => s[1].type = "start")
  BY DEF Match, Well, OpenMatch
<1>2. Well(u) /\ (f.type \notin Ending => Unended(u))
  BY <1>1, WellAppend
<1>3. /\ IsSeq(u) /\ Len(u) = Len(s) + 1 /\ Len(s) \in Nat /\ DOMAIN s = 1..Len(s)
      /\ DOMAIN u = 1..(Len(s) + 1) /\ (\A i \in 1..Len(s) : u[i] = s[i]) /\ u[Len(s) + 1] = f
  BY <1>1, AppendIs
<1>4. /\ CountIn(u, Len(u), "open") = CountIn(s, Len(s), "open") + (IF f.type = "open" THEN 1 ELSE 0)
      /\ CountIn(u, Len(u), "close") = CountIn(s, Len(s), "close") + (IF f.type = "close" THEN 1 ELSE 0)
  BY <1>1, <1>3, CountAppend
<1> HIDE DEF u
<1>5. u # <<>> /\ u[1].type = "start"
  <2>1. u # <<>>
    BY <1>3
  <2>2. CASE s = <<>>
    <3>1. Len(s) = 0 /\ f.type = "start"
      BY <2>2
    <3>2. u[1] = f
      BY <1>3, <3>1
    <3> QED
      BY <2>1, <3>1, <3>2
  <2>3. CASE s # <<>>
    <3>1. Len(s) # 0
      <4>1. s \in Seq(Range(s))
        BY <1>1 DEF IsSeq
      <4> QED
        BY <2>3, <4>1
    <3> QED
      BY <1>1, <1>3, <2>3, <3>1
  <2> QED
    BY <2>1, <2>2, <2>3
<1>6. OpenMatch(v, u)
  BY <1>1, <1>4, <1>5 DEF OpenMatch
<1>7. v.stopped => u[Len(u)].type \in Ending
  BY <1>3
<1>8. ~v.stopped => Unended(u)
  BY <1>2
<1> QED
  BY <1>2, <1>5, <1>6, <1>7, <1>8 DEF Match, u

\* A sheet on top of what is out.
OnTop(x, base) ==
  /\ "st" \in DOMAIN x /\ "out" \in DOMAIN x
  /\ IsSeq(x.out) /\ Match(x.st, base \o x.out)

LEMMA ConcatAppend ==
  ASSUME NEW base, IsSeq(base), NEW o, IsSeq(o), NEW f
  PROVE  base \o Append(o, f) = Append(base \o o, f)
<1> DEFINE S == Range(base) \cup Range(o) \cup {f}
<1>1. base \in Seq(Range(base)) /\ o \in Seq(Range(o))
  BY DEF IsSeq
<1>2. Range(base) \subseteq S /\ Range(o) \subseteq S /\ f \in S
  OBVIOUS
<1> HIDE DEF S
<1>3. Len(base) \in Nat /\ DOMAIN base = 1..Len(base) /\ base = [i \in 1..Len(base) |-> base[i]]
  BY <1>1
<1>4. Len(o) \in Nat /\ DOMAIN o = 1..Len(o) /\ o = [i \in 1..Len(o) |-> o[i]]
  BY <1>1
<1>5. (\A i \in 1..Len(base) : base[i] \in S) /\ (\A i \in 1..Len(o) : o[i] \in S)
  BY <1>1, <1>2
<1>6. base \in Seq(S) /\ o \in Seq(S)
  BY <1>3, <1>4, <1>5
<1> QED
  BY <1>2, <1>6

LEMMA EmitOnTop ==
  ASSUME NEW base, IsSeq(base), NEW y, "st" \in DOMAIN y, "out" \in DOMAIN y, IsSeq(y.out),
         NEW f, Match(y.st, Append(base \o y.out, f))
  PROVE  OnTop(Emit(y, f), base) /\ Emit(y, f).st = y.st /\ Emit(y, f).out = Append(y.out, f)
<1>1. /\ "st" \in DOMAIN Emit(y, f) /\ "out" \in DOMAIN Emit(y, f)
      /\ Emit(y, f).out = Append(y.out, f) /\ Emit(y, f).st = y.st
  BY DEF Emit
<1>2. IsSeq(Append(y.out, f))
  BY AppendIs
<1>3. base \o Append(y.out, f) = Append(base \o y.out, f)
  BY ConcatAppend
<1> QED
  BY <1>1, <1>2, <1>3 DEF OnTop


LEMMA OnTopFacts ==
  ASSUME NEW base, IsSeq(base), NEW x, OnTop(x, base)
  PROVE  /\ "st" \in DOMAIN x /\ "out" \in DOMAIN x /\ IsSeq(x.out) /\ IsSeq(base \o x.out)
         /\ Match(x.st, base \o x.out) /\ DOMAIN x.st = RendererFields /\ x.st.next \in Nat
         /\ x.st.started \in BOOLEAN /\ x.st.stopped \in BOOLEAN
         /\ x.st.started <=> base \o x.out # <<>>
         /\ OpenMatch(x.st, base \o x.out)
  BY ConcatIs DEF OnTop, Match

\* The same frames, the renderer otherwise changed.
LEMMA OnTopState ==
  ASSUME NEW base, NEW x, OnTop(x, base), NEW y, DOMAIN y = DOMAIN x, y.out = x.out,
         DOMAIN y.st = RendererFields, y.st.started = x.st.started, y.st.stopped = x.st.stopped,
         y.st.next = x.st.next, y.st.open = x.st.open
  PROVE  OnTop(y, base)
<1>1. Match(y.st, base \o y.out)
  BY DEF OnTop, Match, OpenMatch
<1> QED
  BY <1>1 DEF OnTop

LEMMA StartOnTop ==
  ASSUME NEW base, IsSeq(base), NEW x, OnTop(x, base), ~x.st.stopped
  PROVE  LET y == ensure_started(x)
         IN  /\ OnTop(y, base) /\ y.st.started /\ ~y.st.stopped
             /\ y.st.open = x.st.open /\ y.st.next = x.st.next /\ y.st.finish = x.st.finish
             /\ y.st.seen = x.st.seen
<1>1. CASE x.st.started
  BY <1>1 DEF ensure_started
<1>2. CASE ~x.st.started
  <2> DEFINE y == [x EXCEPT !.st.started = TRUE]
             v == [x.st EXCEPT !.started = TRUE]
             f == [type |-> "start"]
             s == base \o x.out
  <2>0. /\ "st" \in DOMAIN x /\ "out" \in DOMAIN x /\ IsSeq(x.out)
        /\ Match(x.st, s) /\ DOMAIN x.st = RendererFields /\ x.st.next \in Nat
        /\ x.st.started \in BOOLEAN /\ x.st.stopped \in BOOLEAN /\ OpenMatch(x.st, s) /\ s = <<>>
    BY <1>2, OnTopFacts
  <2>1. "st" \in DOMAIN y /\ "out" \in DOMAIN y /\ y.st = v /\ y.out = x.out
    BY <2>0
  <2>2. /\ DOMAIN v = RendererFields /\ v.started = TRUE /\ v.stopped = x.st.stopped
        /\ v.open = x.st.open /\ v.next = x.st.next /\ v.finish = x.st.finish /\ v.seen = x.st.seen
    BY <2>0 DEF RendererFields
  <2>3. ensure_started(x) = Emit(y, f)
    BY <1>2 DEF ensure_started
  <2>4. f.type = "start"
    OBVIOUS
  <2> HIDE DEF y, v, f
  <2>5. Legal(s, f)
    BY <2>0, <2>4, NothingIs DEF Legal
  <2> HIDE DEF s
  <2>6. Match(v, Append(s, f))
    <3>1. x.st.open = <<>>
      BY <2>0 DEF OpenMatch
    <3>2. CountIn(s, Len(s), "close") + 0 = v.next /\ v.next = x.st.next + 0
      BY <2>0, <2>2, <3>1 DEF OpenMatch
    <3> QED
      BY <2>0, <2>2, <2>4, <2>5, <3>1, <3>2, MatchAppend DEF Ending
  <2>7. OnTop(Emit(y, f), base) /\ Emit(y, f).st = v
    BY <2>0, <2>1, <2>6, EmitOnTop DEF s
  <2> QED
    BY <2>2, <2>3, <2>7
<1> QED
  BY <1>1, <1>2

LEMMA CloseOnTop ==
  ASSUME NEW base, IsSeq(base), NEW x, OnTop(x, base), ~x.st.stopped
  PROVE  LET y == close_open(x)
         IN  /\ OnTop(y, base) /\ y.st.started = x.st.started /\ ~y.st.stopped
             /\ y.st.open = <<>> /\ y.st.next = x.st.next /\ y.st.finish = x.st.finish
             /\ y.st.seen = x.st.seen
<1>1. CASE x.st.open = <<>>
  BY <1>1 DEF close_open
<1>2. CASE x.st.open # <<>>
  <2> DEFINE y == [x EXCEPT !.st.open = <<>>, !.st.items = Append(@, x.st.open[1])]
             v == [x.st EXCEPT !.open = <<>>, !.items = Append(@, x.st.open[1])]
             f == [type |-> "close", index |-> x.st.open[1].index]
             s == base \o x.out
  <2>0. /\ "st" \in DOMAIN x /\ "out" \in DOMAIN x /\ IsSeq(x.out)
        /\ Match(x.st, s) /\ DOMAIN x.st = RendererFields /\ x.st.next \in Nat
        /\ x.st.started \in BOOLEAN /\ x.st.stopped \in BOOLEAN /\ OpenMatch(x.st, s)
        /\ (x.st.started <=> s # <<>>)
    BY <1>2, OnTopFacts
  <2>1. "st" \in DOMAIN y /\ "out" \in DOMAIN y /\ y.st = v /\ y.out = x.out
    BY <2>0
  <2>2. /\ DOMAIN v = RendererFields /\ v.started = x.st.started /\ v.stopped = x.st.stopped
        /\ v.open = <<>> /\ v.next = x.st.next /\ v.finish = x.st.finish /\ v.seen = x.st.seen
    BY <2>0 DEF RendererFields
  <2>3. close_open(x) = Emit(y, f)
    BY <1>2 DEF close_open
  <2>4. f.type = "close" /\ f.index = x.st.open[1].index
    OBVIOUS
  <2> HIDE DEF y, v, f
  <2>5. /\ s # <<>> /\ x.st.open[1].index \in Nat /\ x.st.open[1].index + 1 = x.st.next
        /\ CountIn(s, Len(s), "close") = x.st.open[1].index /\ CountIn(s, Len(s), "open") = x.st.next
    BY <1>2, <2>0 DEF OpenMatch
  <2>6. Legal(s, f)
    BY <2>4, <2>5 DEF Legal
  <2>7. v.started = TRUE
    BY <2>0, <2>2, <2>5
  <2> HIDE DEF s
  <2>8. Match(v, Append(s, f))
    <3>1. CountIn(s, Len(s), "close") + 1 = v.next /\ v.next = x.st.next + 0
      BY <2>0, <2>2, <2>5
    <3> QED
      BY <2>0, <2>2, <2>4, <2>5, <2>6, <2>7, <3>1, MatchAppend DEF Ending
  <2>9. OnTop(Emit(y, f), base) /\ Emit(y, f).st = v
    BY <2>0, <2>1, <2>8, EmitOnTop DEF s
  <2> QED
    BY <2>2, <2>3, <2>9
<1> QED
  BY <1>1, <1>2


LEMMA EnterOnTop ==
  ASSUME NEW base, IsSeq(base), NEW x, OnTop(x, base), ~x.st.stopped, x.st.started, NEW e
  PROVE  LET y == enter_block(x, e)
         IN  /\ OnTop(y, base) /\ y.st.started /\ ~y.st.stopped
             /\ y.st.open # <<>> /\ y.st.finish = x.st.finish
<1>1. CASE OpenIs(x.st, Kind(e))
  BY <1>1 DEF enter_block, OpenIs
<1>2. CASE ~OpenIs(x.st, Kind(e))
  <2> DEFINE c == close_open(x)
             b == [index |-> c.st.next, kind |-> Kind(e), named |-> Named(e), body |-> <<>>]
             y == [c EXCEPT !.st.open = <<b>>, !.st.next = @ + 1]
             v == [c.st EXCEPT !.open = <<b>>, !.next = @ + 1]
             f == [type |-> "open", index |-> b.index, kind |-> b.kind.of, named |-> b.named]
             s == base \o c.out
  <2>0. /\ OnTop(c, base) /\ c.st.started = x.st.started /\ ~c.st.stopped
        /\ c.st.open = <<>> /\ c.st.finish = x.st.finish
    BY CloseOnTop
  <2>1. enter_block(x, e) = Emit(y, f)
    BY <1>2 DEF enter_block
  <2> HIDE DEF c
  <2>2. /\ "st" \in DOMAIN c /\ "out" \in DOMAIN c /\ IsSeq(c.out)
        /\ Match(c.st, s) /\ DOMAIN c.st = RendererFields /\ c.st.next \in Nat
        /\ c.st.started \in BOOLEAN /\ c.st.stopped \in BOOLEAN /\ OpenMatch(c.st, s)
        /\ (c.st.started <=> s # <<>>)
    BY <2>0, OnTopFacts
  <2>3. "st" \in DOMAIN y /\ "out" \in DOMAIN y /\ y.st = v /\ y.out = c.out
    BY <2>2
  <2>4. b.index = c.st.next /\ "index" \in DOMAIN b
    OBVIOUS
  <2>5. f.type = "open" /\ f.index = b.index
    OBVIOUS
  <2> HIDE DEF b, f
  <2>6. /\ DOMAIN v = RendererFields /\ v.started = c.st.started /\ v.stopped = c.st.stopped
        /\ v.open = <<b>> /\ v.next = c.st.next + 1 /\ v.finish = c.st.finish
    BY <2>2 DEF RendererFields
  <2> HIDE DEF y, v
  <2>7. s # <<>> /\ CountIn(s, Len(s), "close") = c.st.next /\ CountIn(s, Len(s), "open") = c.st.next
    BY <2>0, <2>2 DEF OpenMatch
  <2>8. Legal(s, f)
    BY <2>4, <2>5, <2>7 DEF Legal
  <2> HIDE DEF s
  <2>9. v.open # <<>> /\ DOMAIN v.open = {1} /\ v.open[1] = b
    BY <2>6
  <2>10. Match(v, Append(s, f))
    <3>1. CountIn(s, Len(s), "close") + 0 = v.open[1].index /\ v.open[1].index + 1 = v.next
          /\ v.next \in Nat /\ v.started = TRUE /\ v.open[1].index \in Nat /\ "index" \in DOMAIN v.open[1]
      BY <2>0, <2>2, <2>4, <2>6, <2>7, <2>9
    <3> QED
      BY <2>0, <2>2, <2>5, <2>6, <2>7, <2>8, <2>9, <3>1, MatchAppend DEF Ending
  <2>11. OnTop(Emit(y, f), base) /\ Emit(y, f).st = v
    BY <2>2, <2>3, <2>10, EmitOnTop DEF s
  <2> QED
    BY <2>0, <2>1, <2>6, <2>9, <2>11
<1> QED
  BY <1>1, <1>2

LEMMA WriteOnTop ==
  ASSUME NEW base, IsSeq(base), NEW x, OnTop(x, base), ~x.st.stopped, x.st.open # <<>>, NEW e
  PROVE  LET y == Write(x, e)
         IN  OnTop(y, base) /\ y.st.started = x.st.started /\ ~y.st.stopped /\ y.st.finish = x.st.finish
<1>1. CASE Body(e) = <<>>
  BY <1>1 DEF Write
<1>2. CASE Body(e) # <<>>
  <2> DEFINE o == [x.st.open EXCEPT ![1] = [x.st.open[1] EXCEPT !.body = @ \o Body(e)]]
             y == [x EXCEPT !.st.open[1].body = @ \o Body(e)]
             v == [x.st EXCEPT !.open = o]
             f == [type |-> "delta", index |-> x.st.open[1].index, body |-> Body(e)]
             s == base \o x.out
  <2>0. /\ "st" \in DOMAIN x /\ "out" \in DOMAIN x /\ IsSeq(x.out)
        /\ Match(x.st, s) /\ DOMAIN x.st = RendererFields /\ x.st.next \in Nat
        /\ x.st.started \in BOOLEAN /\ x.st.stopped \in BOOLEAN /\ OpenMatch(x.st, s)
        /\ (x.st.started <=> s # <<>>)
    BY <1>2, OnTopFacts
  <2>1. "st" \in DOMAIN y /\ "out" \in DOMAIN y /\ y.st = v /\ y.out = x.out
    BY <2>0
  <2>2. /\ s # <<>> /\ x.st.open[1].index \in Nat /\ x.st.open[1].index + 1 = x.st.next
        /\ CountIn(s, Len(s), "close") = x.st.open[1].index /\ CountIn(s, Len(s), "open") = x.st.next
        /\ DOMAIN x.st.open = {1} /\ "index" \in DOMAIN x.st.open[1]
    BY <2>0 DEF OpenMatch
  <2>3. DOMAIN o = {1} /\ "index" \in DOMAIN o[1] /\ o[1].index = x.st.open[1].index
    BY <2>2
  <2>4. f.type = "delta" /\ f.index = x.st.open[1].index
    OBVIOUS
  <2>5. Write(x, e) = Emit(y, f)
    BY <1>2 DEF Write
  <2> HIDE DEF o, f
  <2>6. /\ DOMAIN v = RendererFields /\ v.started = x.st.started /\ v.stopped = x.st.stopped
        /\ v.open = o /\ v.next = x.st.next /\ v.finish = x.st.finish
    BY <2>0 DEF RendererFields
  <2> HIDE DEF y, v
  <2>7. o # <<>>
    BY <2>3, NothingIs
  <2>8. Legal(s, f)
    BY <2>2, <2>4 DEF Legal
  <2> HIDE DEF s
  <2>9. Match(v, Append(s, f))
    <3>1. CountIn(s, Len(s), "close") + 0 = v.open[1].index /\ v.open[1].index + 1 = v.next
          /\ v.next = x.st.next + 0 /\ v.next \in Nat /\ v.started = TRUE /\ v.open[1].index \in Nat
      BY <2>0, <2>2, <2>3, <2>6
    <3> QED
      BY <2>0, <2>2, <2>3, <2>4, <2>6, <2>7, <2>8, <3>1, MatchAppend DEF Ending
  <2>10. OnTop(Emit(y, f), base) /\ Emit(y, f).st = v
    BY <2>0, <2>1, <2>9, EmitOnTop DEF s
  <2> QED
    BY <2>5, <2>6, <2>10
<1> QED
  BY <1>1, <1>2

\* The last frame: an error, or an ending with every block closed.
LEMMA LastOnTop ==
  ASSUME NEW base, IsSeq(base), NEW x, OnTop(x, base), ~x.st.stopped, x.st.started,
         NEW f, f.type \in Ending, f.type = "end" => x.st.open = <<>>
  PROVE  LET y == Emit([x EXCEPT !.st.stopped = TRUE], f)
         IN  OnTop(y, base) /\ y.st.started /\ y.st.stopped /\ y.st.open = x.st.open /\ y.st.finish = x.st.finish
<1> DEFINE y == [x EXCEPT !.st.stopped = TRUE]
           v == [x.st EXCEPT !.stopped = TRUE]
           s == base \o x.out
<1>0. /\ "st" \in DOMAIN x /\ "out" \in DOMAIN x /\ IsSeq(x.out)
      /\ Match(x.st, s) /\ DOMAIN x.st = RendererFields /\ x.st.next \in Nat
      /\ x.st.started \in BOOLEAN /\ x.st.stopped \in BOOLEAN /\ OpenMatch(x.st, s)
      /\ (x.st.started <=> s # <<>>)
  BY OnTopFacts
<1>1. "st" \in DOMAIN y /\ "out" \in DOMAIN y /\ y.st = v /\ y.out = x.out
  BY <1>0
<1>2. /\ DOMAIN v = RendererFields /\ v.started = x.st.started /\ v.stopped = TRUE
      /\ v.open = x.st.open /\ v.next = x.st.next /\ v.finish = x.st.finish
  BY <1>0 DEF RendererFields
<1> HIDE DEF y, v
<1>3. Legal(s, f)
  BY <1>0 DEF Legal, OpenMatch, Ending
<1> HIDE DEF s
<1>4. v.started = TRUE /\ s # <<>> /\ v.next = x.st.next + 0
  BY <1>0, <1>2
<1>5. v.open = <<>> => CountIn(s, Len(s), "close") + 0 = v.next
  BY <1>0, <1>2 DEF OpenMatch
<1>6. v.open # <<>> => /\ DOMAIN v.open = {1} /\ "index" \in DOMAIN v.open[1] /\ v.open[1].index \in Nat
                       /\ v.open[1].index + 1 = v.next /\ CountIn(s, Len(s), "close") + 0 = v.open[1].index
  BY <1>0, <1>2 DEF OpenMatch
<1>7. Match(v, Append(s, f))
  BY <1>0, <1>2, <1>3, <1>4, <1>5, <1>6, MatchAppend DEF Ending
<1>8. OnTop(Emit(y, f), base) /\ Emit(y, f).st = v
  BY <1>0, <1>1, <1>7, EmitOnTop DEF s
<1> QED
  BY <1>2, <1>4, <1>8 DEF y


\* Once the reason is known, no block is open.
FinishSettled(st) == st.finish # "none" => st.started /\ st.open = <<>>

LEMMA BareOnTop ==
  ASSUME NEW base, IsSeq(base), NEW st, Match(st, base)
  PROVE  OnTop([st |-> st, out |-> <<>>], base)
<1> DEFINE x == [st |-> st, out |-> <<>>]
<1>1. "st" \in DOMAIN x /\ "out" \in DOMAIN x /\ x.st = st /\ x.out = <<>>
  OBVIOUS
<1>2. base \o <<>> = base
  BY DEF IsSeq
<1> HIDE DEF x
<1>3. OnTop(x, base)
  BY <1>1, <1>2, NothingIs DEF OnTop
<1> QED
  BY <1>3 DEF x

LEMMA MessagesOnTop ==
  ASSUME NEW base, IsSeq(base), NEW st, Match(st, base), FinishSettled(st), NEW e, e.type \in EventTypes
  PROVE  LET y == render_messages(st, e)
         IN  OnTop(y, base) /\ FinishSettled(y.st) /\ y.st.started
<1> DEFINE x == [st |-> st, out |-> <<>>]
           s == ensure_started(x)
<1>1. OnTop(x, base) /\ x.st = st
  BY BareOnTop
<1>0. /\ "st" \in DOMAIN x /\ "out" \in DOMAIN x /\ DOMAIN st = RendererFields
      /\ st.started \in BOOLEAN /\ st.stopped \in BOOLEAN
  BY <1>1, OnTopFacts
<1> HIDE DEF x
<1>2. ~st.stopped => /\ OnTop(s, base) /\ s.st.started /\ ~s.st.stopped
                     /\ s.st.open = st.open /\ s.st.finish = st.finish
  BY <1>1, StartOnTop
<1>3. CASE st.stopped
  <2>1. render_messages(st, e) = x
    BY <1>3 DEF render_messages, x
  <2>2. st.started
    BY <1>3, <1>0 DEF Match
  <2> QED
    BY <1>1, <2>1, <2>2
<1>4. CASE ~st.stopped /\ st.finish # "none"
  <2> DEFINE y == [x EXCEPT !.st.usage = merge_usage(@, e.usage)]
  <2>1. render_messages(st, e) = IF e.type = "usage" THEN close_message(y) ELSE x
    BY <1>4 DEF render_messages, x
  <2>2. st.started /\ st.open = <<>>
    BY <1>4 DEF FinishSettled
  <2>3. /\ DOMAIN y = DOMAIN x /\ y.out = x.out /\ DOMAIN y.st = RendererFields
        /\ y.st.started = st.started /\ y.st.stopped = st.stopped
        /\ y.st.next = st.next /\ y.st.open = st.open /\ y.st.finish = st.finish
    BY <1>0, <1>1 DEF RendererFields
  <2> HIDE DEF y
  <2>4. OnTop(y, base)
    BY <1>1, <2>3, OnTopState
  <2> DEFINE f == message_delta(y.st)
             z == Emit([y EXCEPT !.st.stopped = TRUE], f)
  <2>5. f.type = "end"
    BY DEF message_delta
  <2>6. close_message(y) = z
    BY DEF close_message
  <2> HIDE DEF f
  <2>8. ~y.st.stopped /\ y.st.started /\ y.st.open = <<>> /\ f.type \in Ending
    BY <1>4, <2>2, <2>3, <2>5 DEF Ending
  <2>7. OnTop(z, base) /\ z.st.started /\ z.st.open = <<>>
    BY <2>4, <2>8, LastOnTop
  <2> HIDE DEF z
  <2> QED
    BY <1>1, <2>1, <2>2, <2>6, <2>7 DEF FinishSettled
<1>5. CASE ~st.stopped /\ ~(st.finish # "none")
  <2> HIDE DEF s
  <2>0. OnTop(s, base) /\ s.st.started /\ ~s.st.stopped /\ s.st.open = st.open /\ s.st.finish = "none"
    BY <1>2, <1>5
  <2>6. "st" \in DOMAIN s /\ "out" \in DOMAIN s /\ DOMAIN s.st = RendererFields
    BY <2>0, OnTopFacts
  <2>1. CASE e.type = "start"
    <3>1. render_messages(st, e) = s
      BY <1>5, <2>1 DEF render_messages, s, x
    <3> QED
      BY <2>0, <3>1 DEF FinishSettled
  <2>2. CASE e.type \in {"text", "reasoning"}
    <3> DEFINE b == enter_block(s, e)
    <3>1. render_messages(st, e) = Write(b, e)
      BY <1>5, <2>2 DEF render_messages, s, x
    <3>2. OnTop(b, base) /\ b.st.started /\ ~b.st.stopped /\ b.st.open # <<>> /\ b.st.finish = "none"
      BY <2>0, EnterOnTop
    <3> HIDE DEF b
    <3>3. OnTop(Write(b, e), base) /\ Write(b, e).st.started /\ Write(b, e).st.finish = "none"
      BY <3>2, WriteOnTop
    <3> QED
      BY <3>1, <3>3 DEF FinishSettled
  <2>3. CASE e.type = "tool"
    <3> DEFINE y == [s EXCEPT !.st.seen = @ \cup {e.tool}]
               b == enter_block(y, e)
    <3>1. render_messages(st, e) = IF OpenIs(st, Kind(e)) THEN Write(s, e)
                                   ELSE IF e.tool \in st.seen THEN fail(s)
                                   ELSE Write(b, e)
      BY <1>5, <2>3 DEF render_messages, s, x
    <3>2. /\ DOMAIN y = DOMAIN s /\ y.out = s.out /\ DOMAIN y.st = RendererFields
          /\ y.st.started = s.st.started /\ y.st.stopped = s.st.stopped
          /\ y.st.next = s.st.next /\ y.st.open = s.st.open /\ y.st.finish = s.st.finish
      BY <2>6 DEF RendererFields
    <3> HIDE DEF y
    <3>3. OnTop(y, base)
      BY <2>0, <3>2, OnTopState
    <3>4. OnTop(b, base) /\ b.st.started /\ ~b.st.stopped /\ b.st.open # <<>> /\ b.st.finish = "none"
      BY <2>0, <3>2, <3>3, EnterOnTop
    <3> HIDE DEF b
    <3>5. OnTop(Write(b, e), base) /\ Write(b, e).st.started /\ Write(b, e).st.finish = "none"
      BY <3>4, WriteOnTop
    <3>6. CASE OpenIs(st, Kind(e))
      <4>1. s.st.open # <<>>
        BY <2>0, <3>6 DEF OpenIs
      <4>2. OnTop(Write(s, e), base) /\ Write(s, e).st.started /\ Write(s, e).st.finish = "none"
        BY <2>0, <4>1, WriteOnTop
      <4> QED
        BY <3>1, <3>6, <4>2 DEF FinishSettled
    <3>7. CASE ~OpenIs(st, Kind(e)) /\ e.tool \in st.seen
      <4> DEFINE f == [type |-> "error"]
                 z == Emit([s EXCEPT !.st.stopped = TRUE], f)
      <4>1. f.type = "error"
        OBVIOUS
      <4>2. fail(s) = z
        BY DEF fail
      <4> HIDE DEF f
      <4>3. OnTop(z, base) /\ z.st.started /\ z.st.finish = "none"
        BY <2>0, <4>1, LastOnTop DEF Ending
      <4> HIDE DEF z
      <4> QED
        BY <3>1, <3>7, <4>2, <4>3 DEF FinishSettled
    <3>8. CASE ~OpenIs(st, Kind(e)) /\ e.tool \notin st.seen
      BY <3>1, <3>5, <3>8 DEF FinishSettled
    <3> QED
      BY <3>6, <3>7, <3>8
  <2>4. CASE e.type = "usage"
    <3> DEFINE y == [s EXCEPT !.st.usage = merge_usage(@, e.usage)]
    <3>1. render_messages(st, e) = y
      BY <1>5, <2>4 DEF render_messages, s, x
    <3>2. /\ DOMAIN y = DOMAIN s /\ y.out = s.out /\ DOMAIN y.st = RendererFields
          /\ y.st.started = s.st.started /\ y.st.stopped = s.st.stopped
          /\ y.st.next = s.st.next /\ y.st.open = s.st.open /\ y.st.finish = s.st.finish
      BY <2>6 DEF RendererFields
    <3> HIDE DEF y
    <3>3. OnTop(y, base)
      BY <2>0, <3>2, OnTopState
    <3> QED
      BY <2>0, <3>1, <3>2, <3>3 DEF FinishSettled
  <2>5. CASE e.type = "finish"
    <3> DEFINE c == close_open(s)
               y == [c EXCEPT !.st.finish = e.reason]
    <3>1. render_messages(st, e) = y
      BY <1>5, <2>5 DEF render_messages, s, x
    <3>2. OnTop(c, base) /\ c.st.started = s.st.started /\ ~c.st.stopped /\ c.st.open = <<>>
      BY <2>0, CloseOnTop
    <3> HIDE DEF c
    <3>3. "st" \in DOMAIN c /\ "out" \in DOMAIN c /\ DOMAIN c.st = RendererFields
      BY <3>2, OnTopFacts
    <3>4. /\ DOMAIN y = DOMAIN c /\ y.out = c.out /\ DOMAIN y.st = RendererFields
          /\ y.st.started = c.st.started /\ y.st.stopped = c.st.stopped
          /\ y.st.next = c.st.next /\ y.st.open = c.st.open
      BY <3>3 DEF RendererFields
    <3> HIDE DEF y
    <3>5. OnTop(y, base)
      BY <3>2, <3>4, OnTopState
    <3> QED
      BY <2>0, <3>1, <3>2, <3>4, <3>5 DEF FinishSettled
  <2> QED
    BY <2>1, <2>2, <2>3, <2>4, <2>5 DEF EventTypes
<1> QED
  BY <1>3, <1>4, <1>5

LEMMA ResponsesOnTop ==
  ASSUME NEW base, IsSeq(base), NEW st, Match(st, base), FinishSettled(st), NEW e, e.type \in EventTypes
  PROVE  LET y == render_responses(st, e)
         IN  OnTop(y, base) /\ FinishSettled(y.st)
<1> DEFINE x == [st |-> st, out |-> <<>>]
           s == ensure_started(x)
<1>1. OnTop(x, base) /\ x.st = st
  BY BareOnTop
<1>0. /\ "st" \in DOMAIN x /\ "out" \in DOMAIN x /\ DOMAIN st = RendererFields
      /\ st.started \in BOOLEAN /\ st.stopped \in BOOLEAN
  BY <1>1, OnTopFacts
<1> HIDE DEF x
<1>2. ~st.stopped => /\ OnTop(s, base) /\ s.st.started /\ ~s.st.stopped
                     /\ s.st.open = st.open /\ s.st.finish = st.finish
  BY <1>1, StartOnTop
<1> HIDE DEF s
<1>3. CASE st.stopped
  <2>1. render_responses(st, e) = x
    BY <1>3 DEF render_responses, x
  <2> QED
    BY <1>1, <2>1
<1>4. CASE ~st.stopped /\ e.type \in {"text", "reasoning", "tool"} /\ st.finish # "none"
  <2>1. render_responses(st, e) = x
    BY <1>4 DEF render_responses, x
  <2> QED
    BY <1>1, <2>1
<1>5. CASE ~st.stopped /\ e.type \in {"text", "reasoning", "tool"} /\ ~(st.finish # "none")
  <2> DEFINE b == enter_block(s, e)
  <2>1. render_responses(st, e) = Write(b, e)
    BY <1>5 DEF render_responses, ensure_item, s, x
  <2>2. OnTop(b, base) /\ b.st.started /\ ~b.st.stopped /\ b.st.open # <<>> /\ b.st.finish = "none"
    BY <1>2, <1>5, EnterOnTop
  <2> HIDE DEF b
  <2>3. OnTop(Write(b, e), base) /\ Write(b, e).st.finish = "none"
    BY <2>2, WriteOnTop
  <2> QED
    BY <2>1, <2>3 DEF FinishSettled
<1>6. CASE ~st.stopped /\ e.type = "start"
  <2>1. render_responses(st, e) = s
    BY <1>6 DEF render_responses, s, x
  <2> QED
    BY <1>2, <1>6, <2>1 DEF FinishSettled
<1>7. CASE ~st.stopped /\ e.type = "usage"
  <2> DEFINE y == [x EXCEPT !.st.usage = <<e.usage>>]
  <2>1. render_responses(st, e) = y
    BY <1>7 DEF render_responses, x
  <2>2. /\ DOMAIN y = DOMAIN x /\ y.out = x.out /\ DOMAIN y.st = RendererFields
        /\ y.st.started = st.started /\ y.st.stopped = st.stopped
        /\ y.st.next = st.next /\ y.st.open = st.open /\ y.st.finish = st.finish
    BY <1>0, <1>1 DEF RendererFields
  <2> HIDE DEF y
  <2>3. OnTop(y, base)
    BY <1>1, <2>2, OnTopState
  <2> QED
    BY <2>1, <2>2, <2>3 DEF FinishSettled
<1>8. CASE ~st.stopped /\ e.type = "finish"
  <2> DEFINE c == close_open(s)
             y == [c EXCEPT !.st.finish = e.reason]
  <2>1. render_responses(st, e) = y
    BY <1>8 DEF render_responses, s, x
  <2>2. OnTop(c, base) /\ c.st.started = s.st.started /\ ~c.st.stopped /\ c.st.open = <<>>
    BY <1>2, <1>8, CloseOnTop
  <2> HIDE DEF c
  <2>3. "st" \in DOMAIN c /\ "out" \in DOMAIN c /\ DOMAIN c.st = RendererFields
    BY <2>2, OnTopFacts
  <2>4. /\ DOMAIN y = DOMAIN c /\ y.out = c.out /\ DOMAIN y.st = RendererFields
        /\ y.st.started = c.st.started /\ y.st.stopped = c.st.stopped
        /\ y.st.next = c.st.next /\ y.st.open = c.st.open
    BY <2>3 DEF RendererFields
  <2> HIDE DEF y
  <2>5. OnTop(y, base)
    BY <2>2, <2>4, OnTopState
  <2> QED
    BY <1>2, <1>8, <2>1, <2>2, <2>4, <2>5 DEF FinishSettled
<1> QED
  BY <1>3, <1>4, <1>5, <1>6, <1>7, <1>8 DEF EventTypes


-----------------------------------------------------------------------------
(* The last frames *)

\* A stream of blocks that is over.
StreamOver(u, st, client) ==
  /\ Well(u) /\ u # <<>> /\ u[Len(u)].type \in Ending
  /\ u[1].type \in {"start", "error"} \/ (~st.started /\ client = "anthropic")

LEMMA StoppedIsOver ==
  ASSUME NEW base, IsSeq(base), NEW st, Match(st, base), st.stopped, NEW client
  PROVE  StreamOver(base \o <<>>, st, client)
<1>1. base \o <<>> = base
  BY DEF IsSeq
<1>2. StreamOver(base, st, client)
  BY DEF Match, StreamOver
<1> QED
  BY <1>1, <1>2

LEMMA LastIsOver ==
  ASSUME NEW base, IsSeq(base), NEW x, OnTop(x, base), ~x.st.stopped,
         NEW f, f.type \in Ending, f.type = "end" => x.st.open = <<>>,
         NEW st, NEW client,
         x.st.started \/ f.type = "error" \/ (~st.started /\ client = "anthropic")
  PROVE  StreamOver(base \o Append(x.out, f), st, client)
<1> DEFINE s == base \o x.out
           u == Append(s, f)
<1>1. /\ IsSeq(x.out) /\ IsSeq(s) /\ Match(x.st, s) /\ OpenMatch(x.st, s) /\ (x.st.started <=> s # <<>>)
  BY OnTopFacts
<1>2. base \o Append(x.out, f) = u
  BY <1>1, ConcatAppend
<1> HIDE DEF s
<1>3. Well(s) /\ Unended(s) /\ (s # <<>> => s[1].type = "start")
  BY <1>1 DEF Match
<1>4. Legal(s, f)
  BY <1>1 DEF Legal, OpenMatch, Ending
<1>5. Well(u)
  BY <1>3, <1>4, WellAppend
<1>6. /\ Len(u) = Len(s) + 1 /\ Len(s) \in Nat
      /\ DOMAIN u = 1..(Len(s) + 1) /\ (\A i \in 1..Len(s) : u[i] = s[i]) /\ u[Len(s) + 1] = f
  BY <1>1, AppendIs
<1> HIDE DEF u
<1>7. u # <<>> /\ u[Len(u)].type \in Ending
  BY <1>6, NothingIs
<1>8. u[1].type \in {"start", "error"} \/ (~st.started /\ client = "anthropic")
  <2>1. CASE s = <<>>
    <3>1. Len(s) = 0
      BY <2>1
    <3>2. u[1] = f
      BY <1>6, <3>1
    <3> QED
      BY <1>1, <2>1, <3>2
  <2>2. CASE s # <<>>
    <3>1. Len(s) # 0
      BY <1>1, <2>2 DEF IsSeq
    <3>2. u[1] = s[1]
      BY <1>6, <3>1
    <3> QED
      BY <1>3, <2>2, <3>2
  <2> QED
    BY <2>1, <2>2
<1> QED
  BY <1>2, <1>5, <1>7, <1>8 DEF StreamOver

LEMMA RefusedIsOver ==
  ASSUME NEW base, IsSeq(base), NEW st, Match(st, base), NEW client \in {"responses", "anthropic"}
  PROVE  StreamOver(base \o Refused(client, st), st, client)
<1>1. CASE st.stopped
  BY <1>1, StoppedIsOver DEF Refused
<1>2. CASE ~st.stopped
  <2> DEFINE x == [st |-> st, out |-> <<>>]
             f == [type |-> "error"]
  <2>1. Refused(client, st) = <<f>>
    BY <1>2 DEF Refused
  <2>2. OnTop(x, base) /\ x.st = st /\ x.out = <<>>
    BY BareOnTop
  <2>3. f.type = "error"
    OBVIOUS
  <2> HIDE DEF x, f
  <2>4. Append(x.out, f) = <<f>>
    BY <2>2
  <2>5. StreamOver(base \o Append(x.out, f), st, client)
    <3>1. f.type \in Ending /\ ~(f.type = "end") /\ ~x.st.stopped
      BY <1>2, <2>2, <2>3 DEF Ending
    <3> QED
      BY <2>2, <2>3, <3>1, LastIsOver, Zenon
  <2> QED
    BY <2>1, <2>4, <2>5
<1> QED
  BY <1>1, <1>2

LEMMA ClosingIsOver ==
  ASSUME NEW base, IsSeq(base), NEW st, Match(st, base), NEW client \in {"responses", "anthropic"}
  PROVE  StreamOver(base \o Closing(client, st), st, client)
<1>1. CASE st.stopped
  <2>1. Closing(client, st) = <<>>
    BY <1>1 DEF Closing, finish_messages, finish_responses
  <2> QED
    BY <1>1, <2>1, StoppedIsOver
<1>2. CASE ~st.stopped
  <2> DEFINE g == Given(st)
             x == [st |-> g, out |-> <<>>]
  <2>1. /\ DOMAIN g = RendererFields /\ g.started = st.started /\ g.stopped = st.stopped
        /\ g.next = st.next /\ g.open = st.open
    BY DEF Given, Match, RendererFields
  <2>2. Match(g, base)
    BY <2>1 DEF Match, OpenMatch
  <2>3. x = [st |-> Given(st), out |-> <<>>]
    OBVIOUS
  <2> HIDE DEF g
  <2>4. OnTop(x, base) /\ x.st = g /\ ~x.st.stopped
    BY <1>2, <2>1, <2>2, BareOnTop
  <2> HIDE DEF x
  <2>5. CASE client = "anthropic"
    <3> DEFINE c == close_open(x)
               f == message_delta(c.st)
               d == [c EXCEPT !.st.stopped = TRUE]
    <3>1. OnTop(c, base) /\ ~c.st.stopped /\ c.st.open = <<>> /\ c.st.started = st.started
      BY <2>1, <2>4, CloseOnTop
    <3>2. Closing(client, st) = Emit(d, f).out
      BY <1>2, <2>3, <2>5 DEF Closing, finish_messages, close_message
    <3>3. f.type = "end"
      BY DEF message_delta
    <3> HIDE DEF c, f
    <3>4. "out" \in DOMAIN c /\ "st" \in DOMAIN c
      BY <3>1, OnTopFacts
    <3>5. d.out = c.out /\ "out" \in DOMAIN d
      BY <3>4
    <3> HIDE DEF d
    <3>6. Emit(d, f).out = Append(c.out, f)
      BY <3>5 DEF Emit
    <3>7. c.st.started \in BOOLEAN
      BY <3>1, OnTopFacts
    <3>8. StreamOver(base \o Append(c.out, f), st, client)
      <4>1. f.type \in Ending /\ (c.st.started \/ (~st.started /\ client = "anthropic"))
        BY <2>5, <3>1, <3>3, <3>7 DEF Ending
      <4> QED
        BY <3>1, <4>1, LastIsOver, Zenon
    <3> QED
      BY <3>2, <3>6, <3>8
  <2>6. CASE client = "responses"
    <3> DEFINE s == ensure_started(x)
               c == close_open(s)
               f == response_object(c.st)
    <3>1. OnTop(s, base) /\ s.st.started /\ ~s.st.stopped
      BY <2>4, StartOnTop
    <3>2. Closing(client, st) = Append(c.out, f)
      BY <1>2, <2>3, <2>6 DEF Closing, finish_responses
    <3> HIDE DEF s
    <3>3. OnTop(c, base) /\ ~c.st.stopped /\ c.st.open = <<>> /\ c.st.started = s.st.started
      BY <3>1, CloseOnTop
    <3>4. f.type = "end"
      BY DEF response_object
    <3> HIDE DEF c, f
    <3>5. StreamOver(base \o Append(c.out, f), st, client)
      <4>1. f.type \in Ending /\ c.st.started
        BY <3>1, <3>3, <3>4 DEF Ending
      <4> QED
        BY <3>3, <4>1, LastIsOver, Zenon
    <3> QED
      BY <3>2, <3>5
  <2> QED
    BY <2>5, <2>6
<1> QED
  BY <1>1, <1>2


-----------------------------------------------------------------------------
(* The invariant of the frames *)

\* A stream of chunks, before its end and after it.
Chunks(s) == IsSeq(s) /\ \A i \in DOMAIN s : s[i].type \in EventTypes
ChunksOver(s) ==
  /\ IsSeq(s) /\ s # <<>> /\ s[Len(s)].type = "done"
  /\ \A i \in DOMAIN s : s[i].type \in EventTypes \cup {"error", "done"} /\ (s[i].type = "done" => i = Len(s))

\* While the client is there and the stream is not over, the renderer knows
\* what is out: the numbers of the blocks, the one that is open, and whether
\* the stream has started and ended.
FrameInv ==
  /\ VoiceInv
  /\ IsSeq(canon)
  /\ sink = "withheld" => at = "admit" /\ frames = <<>>
  /\ sink = "402" => at = "over" /\ frames = <<>>
  /\ sink = "closed" => at \in {"failed", "over"}
  /\ Blocks /\ sc.client = "anthropic" /\ canon # <<>> /\ sink # "closed" => renderer.started
  /\ Blocks /\ at # "over" /\ sink # "closed" => Match(renderer, frames) /\ FinishSettled(renderer)
  /\ Blocks /\ sink = "closed" => Well(frames) /\ (frames # <<>> => frames[1].type = "start")
  /\ Blocks /\ at = "over" /\ sink = "open" => StreamOver(frames, renderer, sc.client)
  /\ ~Blocks /\ (at # "over" \/ sink = "closed") => Chunks(frames)
  /\ ~Blocks /\ at = "over" /\ sink = "open" => ChunksOver(frames)

LEMMA FramesStart == StreamInit => FrameInv
<1> SUFFICES ASSUME StreamInit
             PROVE  FrameInv
  OBVIOUS
<1>1. VoiceInv
  BY VoiceStarts
<1>2. /\ at = "admit" /\ sink \in {"withheld", "open"} /\ frames = <<>> /\ canon = <<>> /\ renderer = Renderer
  BY DEF StreamInit
<1>3. IsSeq(canon) /\ IsSeq(frames) /\ DOMAIN frames = {} /\ Len(frames) = 0
  BY <1>2, NothingIs
<1>4. Match(renderer, frames) /\ FinishSettled(renderer)
  <2>1. /\ DOMAIN renderer = RendererFields /\ renderer.next = 0 /\ renderer.started = FALSE
        /\ renderer.stopped = FALSE /\ renderer.open = <<>> /\ renderer.finish = "none"
    BY <1>2 DEF Renderer, RendererFields
  <2>2. Well(frames) /\ Unended(frames)
    BY <1>3 DEF Well, Unended
  <2>3. OpenMatch(renderer, frames)
    BY <1>3, <2>1, CountNone DEF OpenMatch
  <2>4. renderer.next \in Nat /\ renderer.started \in BOOLEAN /\ renderer.stopped \in BOOLEAN
    <3>1. renderer.next \in Nat
      BY <2>1
    <3>2. renderer.started \in BOOLEAN /\ renderer.stopped \in BOOLEAN
      BY <2>1, Zenon
    <3> QED
      BY <3>1, <3>2
  <2>5. Match(renderer, frames)
    BY <1>2, <2>1, <2>2, <2>3, <2>4 DEF Match
  <2>6. FinishSettled(renderer)
    BY <2>1 DEF FinishSettled
  <2> QED
    BY <2>5, <2>6
<1>5. Chunks(frames)
  BY <1>3 DEF Chunks
<1> QED
  BY <1>1, <1>2, <1>3, <1>4, <1>5 DEF FrameInv

LEMMA BlocksDeliver ==
  ASSUME FrameInv, Blocks, at = "reading", NEW e, e.type \in EventTypes
  PROVE  LET x == Rendered(e)
         IN  /\ Match(renderer, frames) /\ Match(x.st, frames \o x.out) /\ FinishSettled(x.st)
             /\ sc.client = "anthropic" => x.st.started
<1>1. /\ sc.client \in {"responses", "anthropic"} /\ IsSeq(frames)
      /\ Match(renderer, frames) /\ FinishSettled(renderer)
  BY SceneFacts DEF FrameInv, VoiceInv, StreamTypeOK, Blocks
<1>2. CASE sc.client = "anthropic"
  <2>1. Rendered(e) = render_messages(renderer, e)
    BY <1>2 DEF Rendered
  <2> QED
    BY <1>1, <2>1, MessagesOnTop DEF OnTop
<1>3. CASE sc.client = "responses"
  <2>1. Rendered(e) = render_responses(renderer, e)
    BY <1>3 DEF Rendered
  <2> QED
    BY <1>1, <1>3, <2>1, ResponsesOnTop DEF OnTop
<1> QED
  BY <1>1, <1>2, <1>3

LEMMA ChunkDeliver ==
  ASSUME FrameInv, ~Blocks, at = "reading", NEW e, e.type \in EventTypes
  PROVE  Chunks(frames) /\ Chunks(frames \o Rendered(e).out)
<1> DEFINE f == render_chat_chunk(e)
<1>1. Rendered(e).out = <<f>> /\ Chunks(frames)
  BY DEF FrameInv, Blocks, Rendered
<1>2. f.type \in EventTypes
  BY DEF render_chat_chunk, EventTypes
<1> HIDE DEF f
<1>3. IsSeq(frames) /\ frames \o <<f>> = Append(frames, f)
  BY <1>1 DEF Chunks, IsSeq
<1>4. Chunks(Append(frames, f))
  BY <1>1, <1>2, <1>3, AppendIs DEF Chunks
<1> QED
  BY <1>1, <1>3, <1>4

LEMMA ChunksEnd ==
  ASSUME NEW s, Chunks(s), NEW st
  PROVE  ChunksOver(s \o Closing("chat", st)) /\ ChunksOver(s \o Refused("chat", st))
<1> DEFINE d == [type |-> "done"]
           f == [type |-> "error"]
           u == Append(s, f)
<1>1. Closing("chat", st) = <<d>> /\ Refused("chat", st) = <<f, d>>
  BY DEF Closing, Refused
<1>2. d.type = "done" /\ f.type = "error"
  OBVIOUS
<1> HIDE DEF d, f
<1>3. IsSeq(s) /\ s \o <<d>> = Append(s, d) /\ \A i \in DOMAIN s : s[i].type \in EventTypes
  BY DEF Chunks, IsSeq
<1>4. s \o <<f, d>> = Append(u, d)
  <2>1. <<f, d>> = Append(<<f>>, d) /\ IsSeq(<<f>>) /\ s \o <<f>> = Append(s, f)
    <3>1. <<f>> \in Seq({f})
      OBVIOUS
    <3>2. IsSeq(<<f>>)
      BY <3>1, IsSeqOf
    <3>3. s \o <<f>> = Append(s, f)
      BY <1>3 DEF IsSeq
    <3> QED
      BY <3>2, <3>3
  <2> QED
    BY <1>3, <2>1, ConcatAppend
<1>5. IsSeq(u) /\ \A i \in DOMAIN u : u[i].type \in EventTypes \cup {"error"}
  BY <1>2, <1>3, AppendIs
<1> HIDE DEF u
<1>6. ASSUME NEW v, IsSeq(v), \A i \in DOMAIN v : v[i].type \in EventTypes \cup {"error"}
      PROVE  ChunksOver(Append(v, d))
  <2> DEFINE w == Append(v, d)
  <2>1. /\ IsSeq(w) /\ Len(w) = Len(v) + 1 /\ Len(v) \in Nat /\ DOMAIN v = 1..Len(v)
        /\ DOMAIN w = 1..(Len(v) + 1) /\ (\A i \in 1..Len(v) : w[i] = v[i]) /\ w[Len(v) + 1] = d
    BY <1>6, AppendIs
  <2> HIDE DEF w
  <2>2. w # <<>> /\ w[Len(w)].type = "done"
    BY <1>2, <2>1, NothingIs
  <2>3. ASSUME NEW i \in DOMAIN w
        PROVE  w[i].type \in EventTypes \cup {"error", "done"} /\ (w[i].type = "done" => i = Len(w))
    <3>1. CASE i \in 1..Len(v)
      <4>1. w[i].type \in EventTypes \cup {"error"}
        BY <1>6, <2>1, <3>1
      <4> QED
        BY <4>1 DEF EventTypes
    <3>2. CASE i = Len(v) + 1
      BY <1>2, <2>1, <3>2
    <3> QED
      BY <2>1, <3>1, <3>2
  <2> QED
    BY <2>1, <2>2, <2>3 DEF ChunksOver, w
<1> QED
  BY <1>1, <1>3, <1>4, <1>5, <1>6


LEMMA FramesDeliver ==
  ASSUME FrameInv, Deliver
  PROVE  FrameInv'
<1> DEFINE e == Head(inbox)
           x == Rendered(e)
<1>1. VoiceInv'
  BY DeliverKeeps DEF FrameInv
<1>2. /\ at = "reading" /\ sc' = sc /\ renderer' = x.st /\ canon' = Append(canon, e)
      /\ \/ frames' = frames \o x.out /\ at' = at /\ sink' = sink
         \/ frames' = frames /\ sink' = "closed" /\ at' = "failed"
  BY DEF Deliver
<1>3. e.type \in EventTypes
  <2>1. e \in Events(tries) /\ tries \in Nat
    BY DEF FrameInv, VoiceInv, StreamTypeOK, Deliver
  <2> QED
    BY <2>1, EventSays
<1>4. IsSeq(canon') /\ sink \notin {"withheld", "402", "closed"} /\ sink = "open"
  <2>1. IsSeq(canon)
    BY DEF FrameInv
  <2> QED
    BY <1>2, <2>1, AppendIs DEF FrameInv, VoiceInv, StreamTypeOK
<1>5. Blocks' <=> Blocks
  BY <1>2 DEF Blocks
<1>6. Blocks => /\ Match(renderer, frames) /\ Match(x.st, frames \o x.out) /\ FinishSettled(x.st)
                /\ sc.client = "anthropic" => x.st.started
  BY <1>2, <1>3, BlocksDeliver
<1>7. ~Blocks => Chunks(frames) /\ Chunks(frames \o x.out)
  BY <1>2, <1>3, ChunkDeliver
<1>8. Blocks => Well(frames) /\ (frames # <<>> => frames[1].type = "start")
  BY <1>6 DEF Match
<1> HIDE DEF e, x
<1>9. CASE frames' = frames \o x.out /\ at' = at /\ sink' = sink
  BY <1>1, <1>2, <1>4, <1>5, <1>6, <1>7, <1>9 DEF FrameInv
<1>10. CASE frames' = frames /\ sink' = "closed" /\ at' = "failed"
  BY <1>1, <1>2, <1>4, <1>5, <1>7, <1>8, <1>10 DEF FrameInv
<1> QED
  BY <1>2, <1>9, <1>10

LEMMA FramesClose ==
  ASSUME FrameInv, Close
  PROVE  FrameInv'
<1>1. VoiceInv'
  BY VoiceStep DEF FrameInv, StreamNext
<1>2. /\ at \in {"ok", "failed"} /\ at' = "over" /\ sc' = sc /\ renderer' = renderer /\ canon' = canon
      /\ IsSeq(canon) /\ sink \in {"open", "closed"}
  BY DEF Close, FrameInv, VoiceInv, StreamTypeOK
<1>3. Blocks' <=> Blocks
  BY <1>2 DEF Blocks
<1>4. CASE sink = "closed"
  <2>1. frames' = frames /\ sink' = "closed"
    BY <1>4 DEF Close
  <2> QED
    BY <1>1, <1>2, <1>3, <1>4, <2>1 DEF FrameInv
<1>5. CASE sink = "open"
  <2> DEFINE s == IF at = "ok" THEN Closing(sc.client, renderer) ELSE Refused(sc.client, renderer)
  <2>1. frames' = frames \o s /\ sink' = "open"
    BY <1>5 DEF Close
  <2>2. CASE Blocks
    <3>1. sc.client \in {"responses", "anthropic"} /\ IsSeq(frames) /\ Match(renderer, frames)
      BY <1>2, <1>5, <2>2, SceneFacts DEF FrameInv, VoiceInv, StreamTypeOK, Blocks
    <3>2. StreamOver(frames \o s, renderer, sc.client)
      BY <3>1, ClosingIsOver, RefusedIsOver
    <3> HIDE DEF s
    <3>3. StreamOver(frames', renderer', sc'.client)
      BY <1>2, <2>1, <3>2
    <3> QED
      BY <1>1, <1>2, <1>3, <1>5, <2>1, <2>2, <3>3 DEF FrameInv
  <2>3. CASE ~Blocks
    <3>1. sc.client = "chat" /\ Chunks(frames)
      BY <1>2, <1>5, <2>3 DEF FrameInv, Blocks
    <3>2. ChunksOver(frames \o s)
      BY <3>1, ChunksEnd
    <3> HIDE DEF s
    <3> QED
      BY <1>1, <1>2, <1>3, <1>5, <2>1, <2>3, <3>2 DEF FrameInv
  <2> QED
    BY <2>2, <2>3
<1> QED
  BY <1>2, <1>4, <1>5

LEMMA FramesStep == FrameInv /\ [StreamNext]_streamVars => FrameInv'
<1> SUFFICES ASSUME FrameInv, [StreamNext]_streamVars
             PROVE  FrameInv'
  OBVIOUS
<1>1. VoiceInv'
  BY VoiceStep DEF FrameInv
<1>2. CASE Deliver
  BY <1>2, FramesDeliver
<1>3. CASE Close
  BY <1>3, FramesClose
<1>4. CASE UNCHANGED streamVars
  BY <1>1, <1>4 DEF streamVars, FrameInv, Blocks
<1>5. ASSUME sc' = sc, renderer' = renderer, frames' = frames, canon' = canon, at \in {"admit", "reading"},
             sink # "402", sink # "closed",
             \/ sink' = sink /\ at' \in {"reading", "ok", "failed", "admit"} /\ (sink = "withheld" => at' = "admit")
             \/ sink' = "open" /\ at' = "reading"
             \/ sink = "withheld" /\ sink' = "402" /\ at' = "over"
      PROVE  FrameInv'
  <2>1. Blocks' <=> Blocks
    BY <1>5 DEF Blocks
  <2> QED
    BY <1>1, <1>5, <2>1 DEF FrameInv, VoiceInv, StreamTypeOK
<1>6. at \in {"admit", "reading"} => sink # "402" /\ sink # "closed" /\ (at = "reading" => sink # "withheld")
      /\ sink \in {"withheld", "open", "402", "closed"}
  BY DEF FrameInv, VoiceInv, StreamTypeOK
<1>7. CASE Admit
  BY <1>5, <1>6, <1>7 DEF Admit
<1>8. CASE Unfunded
  BY <1>5, <1>6, <1>8 DEF Unfunded
<1>9. CASE Malformed
  BY <1>5, <1>6, <1>9 DEF Malformed, Failed, Reading
<1>10. CASE stream_end
  BY <1>5, <1>6, <1>10 DEF stream_end, Failed, Reading
<1>11. CASE \E w \in sc.wire : Read(w) \/ Sentinel(w) \/ Breaks(w)
  BY <1>5, <1>6, <1>11 DEF Read, Sentinel, Breaks, Failed, Reading
<1> QED
  BY <1>2, <1>3, <1>4, <1>7, <1>8, <1>9, <1>10, <1>11 DEF StreamNext

LEMMA FramesFromInv == FrameInv => FramesWellFormed
<1> SUFFICES ASSUME FrameInv
             PROVE  FramesWellFormed
  OBVIOUS
<1>0. /\ IsSeq(frames) /\ at \in {"admit", "reading", "ok", "failed", "over"}
      /\ sink \in {"withheld", "open", "closed", "402"}
  BY DEF FrameInv, VoiceInv, StreamTypeOK
<1>1. DOMAIN frames = 1..Len(frames) /\ Len(frames) \in Nat
  BY <1>0 DEF IsSeq
<1>2. \A i \in DOMAIN frames, ty \in {"open", "close"} : Before(i, ty) = CountIn(frames, i - 1, ty)
  BY DEF Before, CountIn
<1>3. CASE Blocks
  <2>1. Well(frames)
    <3>1. CASE frames = <<>>
      BY <3>1, NothingIs DEF Well
    <3> QED
      BY <1>0, <1>3, <3>1 DEF FrameInv, Match, StreamOver
  <2>2. frames # <<>> /\ canon # <<>> => frames[1].type \in {"start", "error"}
    BY <1>0, <1>3 DEF FrameInv, Match, StreamOver
  <2>3. at = "over" /\ sink = "open" => frames # <<>> /\ frames[Len(frames)].type \in {"end", "error"}
    BY <1>3 DEF FrameInv, StreamOver, Ending
  <2>4. ASSUME NEW i \in DOMAIN frames
        PROVE  LET f == frames[i]
               IN  /\ f.type = "start" /\ Blocks => i = 1
                   /\ i = 1 /\ Blocks /\ canon # <<>> => f.type \in {"start", "error"}
                   /\ f.type = "open" => f.index = Before(i, "open") /\ f.index = Before(i, "close")
                   /\ f.type \in {"delta", "close"} =>
                        f.index + 1 = Before(i, "open") /\ f.index = Before(i, "close")
                   /\ f.type = "end" => Before(i, "open") = Before(i, "close")
                   /\ f.type = "done" \/ (Blocks /\ f.type \in {"end", "error"}) => i = Len(frames)
    <3>1. frames # <<>>
      BY NothingIs
    <3>2. Before(i, "open") = CountIn(frames, i - 1, "open") /\ Before(i, "close") = CountIn(frames, i - 1, "close")
      BY <1>2
    <3> QED
      BY <2>1, <2>2, <3>1, <3>2 DEF Well, Ending
  <2>5. sink \in {"withheld", "402"} => frames = <<>>
    BY DEF FrameInv
  <2> QED
    BY <1>3, <2>3, <2>4, <2>5 DEF FramesWellFormed, Last
<1>4. CASE ~Blocks
  <2>1. at = "over" /\ sink = "open" => frames # <<>> /\ frames[Len(frames)].type = "done"
    BY <1>4 DEF FrameInv, ChunksOver
  <2>2. ASSUME NEW i \in DOMAIN frames
        PROVE  frames[i].type \in EventTypes \cup {"error", "done"} /\ (frames[i].type = "done" => i = Len(frames))
    <3>1. frames # <<>>
      BY NothingIs
    <3>2. Chunks(frames) \/ ChunksOver(frames)
      BY <1>0, <1>4, <3>1 DEF FrameInv
    <3>3. CASE Chunks(frames)
      BY <3>3 DEF Chunks, EventTypes
    <3>4. CASE ChunksOver(frames)
      BY <3>4 DEF ChunksOver
    <3> QED
      BY <3>2, <3>3, <3>4
  <2>3. sink \in {"withheld", "402"} => frames = <<>>
    BY DEF FrameInv
  <2> QED
    BY <1>4, <2>1, <2>2, <2>3 DEF FramesWellFormed, Last, EventTypes
<1> QED
  BY <1>3, <1>4

\* Every reachable state of a streamed answer has FrameInv: as long as it has a
\* client, the renderer's own state describes the frames that are out.
THEOREM FrameInvariant == StreamSpec => []FrameInv
  BY FramesStart, FramesStep, PTL DEF StreamSpec

\* What the client was sent is a stream its SDK accepts (FramesWellFormed),
\* whatever the provider says in whatever order, however often the request is
\* sent again and wherever it breaks off.
THEOREM FramesAccepted == StreamSpec => []FramesWellFormed
  BY FrameInvariant, FramesFromInv, PTL

-----------------------------------------------------------------------------
(* Routing: who may use the alias, and whose machines *)

LEMMA LeastNat ==
  ASSUME NEW T \in SUBSET Nat, T # {}
  PROVE  \E n \in T : \A m \in T : n <= m
<1> DEFINE R == {x \in Nat \X Nat : x[1] < x[2]}
<1>1. IsWellFoundedOn(R, Nat)
  <2>1. IsWellFoundedOn(OpToRel(<, Nat), Nat)
    BY NatLessThanWellFounded
  <2> QED
    BY <2>1 DEF OpToRel, IsWellFoundedOn
<1>2. PICK n \in T : \A m \in T : ~(<<m, n>> \in R)
  <2> HIDE DEF R
  <2> QED
    BY <1>1, WFMin
<1>3. ASSUME NEW m \in T PROVE n <= m
  <2>1. <<m, n>> \in Nat \X Nat /\ <<m, n>> \notin R /\ m \in Nat /\ n \in Nat
    BY <1>2
  <2>2. <<m, n>>[1] = m /\ <<m, n>>[2] = n
    OBVIOUS
  <2>3. ~(m < n)
    BY <2>1, <2>2
  <2> HIDE DEF R
  <2> QED
    BY <2>1, <2>3
<1> QED
  BY <1>3

\* A set of numbers with 0 and the next after each is all of them.
LEMMA NatInd ==
  ASSUME NEW P \in SUBSET Nat, 0 \in P, \A n \in P : n + 1 \in P
  PROVE  P = Nat
<1> SUFFICES ASSUME Nat \ P # {} PROVE FALSE
  OBVIOUS
<1>1. PICK n \in Nat \ P : \A m \in Nat \ P : n <= m
  BY LeastNat
<1>2. n # 0 /\ n - 1 \in Nat
  BY <1>1
<1>3. n - 1 \in P
  BY <1>1, <1>2
<1> QED
  BY <1>1, <1>2, <1>3

\* What one record says to the request at hand.
Verdict == [applies : BOOLEAN, level : Int, allow : BOOLEAN]

\* A pass over verdicts: what is in hand after each of them.
Judge(best, v) == IF v.applies THEN Better(best, v.level, v.allow) ELSE best
Passing(e, f) == f = [i \in 0 .. Len(e) |-> IF i = 0 THEN None ELSE Judge(f[i - 1], e[i])]

\* After n verdicts, what is in hand is the least level that applies, and
\* whether all of that level allow.
Decided(e, n, b) ==
  /\ (\A i \in 1 .. n : ~e[i].applies) => b = None
  /\ (\E i \in 1 .. n : e[i].applies) =>
       /\ b # None /\ b[1] \in Int /\ b[2] \in BOOLEAN
       /\ \E i \in 1 .. n : e[i].applies /\ e[i].level = b[1]
       /\ \A i \in 1 .. n : e[i].applies => b[1] <= e[i].level
       /\ b[2] <=> \A i \in 1 .. n : e[i].applies /\ e[i].level = b[1] => e[i].allow

LEMMA BetterIs ==
  ASSUME NEW b, NEW l \in Int, NEW a \in BOOLEAN
  PROVE  /\ b = None \/ (b # None /\ l < b[1]) => Better(b, l, a) = <<l, a>>
         /\ b # None /\ b[1] \in Int /\ l = b[1] => Better(b, l, a) = <<l, b[2] /\ a>>
         /\ b # None /\ b[1] \in Int /\ b[1] < l => Better(b, l, a) = b
  BY DEF Better

\* One verdict more.
LEMMA JudgeDecides ==
  ASSUME NEW e \in Seq(Verdict), NEW n \in Nat, n + 1 <= Len(e), NEW b, Decided(e, n, b)
  PROVE  Decided(e, n + 1, Judge(b, e[n + 1]))
<1>. DEFINE v == e[n + 1]
            c == Judge(b, v)
<1>. SUFFICES Decided(e, n + 1, c)
  OBVIOUS
<1>v. ASSUME NEW i \in 1 .. Len(e)
      PROVE  e[i].applies \in BOOLEAN /\ e[i].level \in Int /\ e[i].allow \in BOOLEAN
  <2>1. e[i] \in Verdict
    OBVIOUS
  <2>2. \A x \in Verdict : x.applies \in BOOLEAN /\ x.level \in Int /\ x.allow \in BOOLEAN
    BY DEF Verdict
  <2>. QED  BY <2>1, <2>2
<1>1. v.applies \in BOOLEAN /\ v.level \in Int /\ v.allow \in BOOLEAN
  <2>1. n + 1 \in 1 .. Len(e)
    OBVIOUS
  <2>. QED  BY <1>v, <2>1
<1>i. \A i \in 1 .. n : e[i].applies \in BOOLEAN /\ e[i].level \in Int /\ e[i].allow \in BOOLEAN
  <2>1. \A i \in 1 .. n : i \in 1 .. Len(e)
    OBVIOUS
  <2>. QED  BY <1>v, <2>1
<1>2. \A i : i \in 1 .. (n + 1) <=> i \in 1 .. n \/ i = n + 1
  OBVIOUS
<1>p. \A x, y : <<x, y>> # None /\ <<x, y>>[1] = x /\ <<x, y>>[2] = y
  BY DEF None
<1>e. e[n + 1] = v
  OBVIOUS
<1>. HIDE DEF v
<1>3. CASE ~v.applies
  <2>1. c = b
    BY <1>3 DEF Judge
  <2>. HIDE DEF c
  <2>. QED  BY <1>2, <1>3, <1>e, <2>1 DEF Decided
<1>4. CASE v.applies /\ (\A i \in 1 .. n : ~e[i].applies)
  <2>1. c = <<v.level, v.allow>>
    BY <1>1, <1>4, BetterIs DEF Judge, Decided
  <2>2. c # None /\ c[1] = v.level /\ c[2] = v.allow
    BY <1>p, <2>1
  <2>. HIDE DEF c
  <2>. QED  BY <1>1, <1>2, <1>4, <1>e, <2>2 DEF Decided
<1>5. CASE v.applies /\ ~(\A i \in 1 .. n : ~e[i].applies)
  <2>0. /\ b # None /\ b[1] \in Int /\ b[2] \in BOOLEAN
        /\ \E i \in 1 .. n : e[i].applies /\ e[i].level = b[1]
        /\ \A i \in 1 .. n : e[i].applies => b[1] <= e[i].level
        /\ b[2] <=> \A i \in 1 .. n : e[i].applies /\ e[i].level = b[1] => e[i].allow
    BY <1>5 DEF Decided
  <2>1. CASE v.level < b[1]
    <3>1. c = <<v.level, v.allow>>
      BY <1>1, <1>5, <2>0, <2>1, BetterIs DEF Judge
    <3>2. c # None /\ c[1] = v.level /\ c[2] = v.allow
      BY <1>p, <3>1
    <3>3. \A i \in 1 .. n : e[i].applies => v.level < e[i].level
      BY <1>1, <1>i, <2>0, <2>1
    <3>. HIDE DEF c
    <3>4. \A i \in 1 .. (n + 1) : e[i].applies => c[1] <= e[i].level /\ (e[i].level = c[1] => i = n + 1)
      BY <1>1, <1>2, <1>e, <1>i, <3>2, <3>3
    <3>5. n + 1 \in 1 .. (n + 1) /\ e[n + 1].applies /\ e[n + 1].level = c[1] /\ e[n + 1].allow = c[2]
      BY <1>2, <1>5, <1>e, <3>2
    <3>6. c[2] <=> \A i \in 1 .. (n + 1) : e[i].applies /\ e[i].level = c[1] => e[i].allow
      BY <3>4, <3>5
    <3>. QED  BY <1>1, <3>2, <3>4, <3>5, <3>6 DEF Decided
  <2>2. CASE v.level = b[1]
    <3>1. c = <<v.level, b[2] /\ v.allow>>
      BY <1>1, <1>5, <2>0, <2>2, BetterIs DEF Judge
    <3>2. c # None /\ c[1] = b[1] /\ c[2] = (b[2] /\ v.allow)
      BY <1>p, <2>2, <3>1
    <3>. HIDE DEF c
    <3>3. \A i \in 1 .. (n + 1) : e[i].applies => c[1] <= e[i].level
      BY <1>1, <1>2, <1>e, <2>0, <2>2, <3>2
    <3>4. n + 1 \in 1 .. (n + 1) /\ e[n + 1].applies /\ e[n + 1].level = c[1] /\ e[n + 1].allow = v.allow
      BY <1>2, <1>5, <1>e, <2>2, <3>2
    <3>5. c[2] <=> \A i \in 1 .. (n + 1) : e[i].applies /\ e[i].level = c[1] => e[i].allow
      BY <1>2, <2>0, <3>2, <3>4
    <3>. QED  BY <1>1, <2>0, <3>2, <3>3, <3>4, <3>5 DEF Decided
  <2>3. CASE b[1] < v.level
    <3>1. c = b
      BY <1>1, <1>5, <2>0, <2>3, BetterIs DEF Judge
    <3>. HIDE DEF c
    <3>2. \A i \in 1 .. (n + 1) : e[i].applies =>
            b[1] <= e[i].level /\ (e[i].level = b[1] => i \in 1 .. n)
      BY <1>1, <1>2, <1>e, <2>0, <2>3
    <3>3. b[2] <=> \A i \in 1 .. (n + 1) : e[i].applies /\ e[i].level = b[1] => e[i].allow
      BY <1>2, <2>0, <3>2
    <3>. QED  BY <1>2, <2>0, <3>1, <3>2, <3>3 DEF Decided
  <2>. QED  BY <1>1, <2>0, <2>1, <2>2, <2>3
<1>. QED  BY <1>1, <1>3, <1>4, <1>5

\* A pass ends with the decision over all of them, and there is such a pass.
LEMMA PassDecides ==
  ASSUME NEW e \in Seq(Verdict)
  PROVE  /\ \E f : Passing(e, f)
         /\ \A f : Passing(e, f) => Decided(e, Len(e), f[Len(e)])
<1>1. ASSUME NEW f, Passing(e, f) PROVE Decided(e, Len(e), f[Len(e)])
  <2>. DEFINE P == {n \in Nat : n <= Len(e) => Decided(e, n, f[n])}
  <2>0. \A n \in 0 .. Len(e) : f[n] = IF n = 0 THEN None ELSE Judge(f[n - 1], e[n])
    BY <1>1 DEF Passing
  <2>1. 0 \in P
    <3>1. Decided(e, 0, None)
      BY DEF Decided
    <3>. QED  BY <2>0, <3>1
  <2>2. ASSUME NEW n \in P PROVE n + 1 \in P
    <3>. SUFFICES ASSUME n + 1 <= Len(e) PROVE Decided(e, n + 1, f[n + 1])
      OBVIOUS
    <3>1. n \in Nat /\ Decided(e, n, f[n]) /\ n + 1 \in 0 .. Len(e) /\ n + 1 # 0 /\ (n + 1) - 1 = n
      BY <2>2
    <3>2. f[n + 1] = Judge(f[n], e[n + 1])
      BY <2>0, <3>1
    <3>. QED  BY <3>1, <3>2, JudgeDecides
  <2>3. P = Nat
    <3>. HIDE DEF P
    <3>1. P \in SUBSET Nat
      BY DEF P
    <3>. QED  BY <2>1, <2>2, <3>1, NatInd
  <2>4. Len(e) \in P
    BY <2>3
  <2>. QED  BY <2>4
<1>2. \E f : Passing(e, f)
  <2>. DEFINE Upto(n, f) == /\ DOMAIN f = 0 .. n
                            /\ f = [i \in 0 .. n |-> f[i]]
                            /\ \A i \in 0 .. n : f[i] = IF i = 0 THEN None ELSE Judge(f[i - 1], e[i])
              P == {n \in Nat : \E f : Upto(n, f)}
  <2>1. 0 \in P
    <3>. DEFINE f == [i \in 0 .. 0 |-> None]
    <3>1. Upto(0, f)
      OBVIOUS
    <3>. QED  BY <3>1
  <2>2. ASSUME NEW n \in P PROVE n + 1 \in P
    <3>1. PICK f : Upto(n, f)
      BY <2>2
    <3>. DEFINE g == [i \in 0 .. (n + 1) |-> IF i = n + 1 THEN Judge(f[n], e[n + 1]) ELSE f[i]]
    <3>2. n \in Nat /\ DOMAIN g = 0 .. (n + 1) /\ g = [i \in 0 .. (n + 1) |-> g[i]]
      BY <2>2
    <3>3. g[n + 1] = Judge(f[n], e[n + 1]) /\ \A i \in 0 .. n : g[i] = f[i]
      BY <3>2
    <3>4. ASSUME NEW i \in 0 .. (n + 1) PROVE g[i] = IF i = 0 THEN None ELSE Judge(g[i - 1], e[i])
      <4>. HIDE DEF g
      <4>1. CASE i = n + 1
        <5>1. i # 0 /\ i - 1 = n /\ n \in 0 .. n
          BY <3>2, <4>1
        <5>. QED  BY <3>3, <4>1, <5>1
      <4>2. CASE i # n + 1 /\ i # 0
        <5>1. i \in 0 .. n /\ i - 1 \in 0 .. n
          BY <3>2, <4>2
        <5>. QED  BY <3>1, <3>3, <4>2, <5>1
      <4>3. CASE i = 0
        <5>1. 0 \in 0 .. n
          BY <3>2
        <5>. QED  BY <3>1, <3>3, <4>3, <5>1
      <4>. QED  BY <4>1, <4>2, <4>3
    <3>5. Upto(n + 1, g)
      BY <3>2, <3>4
    <3>. HIDE DEF g, Upto
    <3>. QED  BY <3>2, <3>5
  <2>3. P = Nat
    <3>. HIDE DEF P
    <3>1. P \in SUBSET Nat
      BY DEF P
    <3>. QED  BY <2>1, <2>2, <3>1, NatInd
  <2>4. PICK f : Upto(Len(e), f)
    BY <2>3
  <2>5. Passing(e, f)
    BY <2>4 DEF Passing
  <2>. QED  BY <2>5
<1>. QED  BY <1>1, <1>2

LEMMA LevelsAreNumbers ==
  ASSUME NEW rec, NEW f, NEW t
  PROVE  precedence(rec) \in Int /\ level(f, t) \in Int
<1>1. precedence(rec) \in Int
  BY DEF precedence
<1>2. level(f, t) \in Int
  <2>. DEFINE scope == CASE f.scope = "principal" -> 0 [] f.scope = "group" -> 1
                         [] f.scope = "tenant" -> 2 [] f.scope = "global" -> 3 [] OTHER -> -1
              host == IF f.host = "any" THEN 0 ELSE 4
              model == CASE f.model = "target" -> 3 [] f.model = "exact" -> 2
                         [] f.model = "prefix" -> 1 [] OTHER -> 0
              matches == /\ f.host \in {"any", HostOf[t]}
                         /\ CASE f.model = "target" -> f.target = t [] OTHER -> f.model # "other"
  <2>1. scope \in Int /\ host \in Int /\ model \in Int
    OBVIOUS
  <2>2. level(f, t) = IF matches /\ scope >= 0 THEN scope * 8 + (7 - (host + model)) ELSE -1
    BY Zenon DEF level
  <2>. HIDE DEF scope, host, model, matches
  <2>. QED  BY <2>1, <2>2
<1>. QED  BY <1>1, <1>2

\* What a pass over verdicts ends with: whether every strongest one allows.
LEMMA PassRules ==
  ASSUME NEW e \in Seq(Verdict), NEW f, Passing(e, f)
  PROVE  /\ f[Len(e)] = None <=> \A i \in 1 .. Len(e) : ~e[i].applies
         /\ f[Len(e)] # None =>
              (f[Len(e)][2] <=> \A i \in 1 .. Len(e) :
                 e[i].applies /\ (\A j \in 1 .. Len(e) : e[j].applies => e[i].level <= e[j].level) => e[i].allow)
<1>. DEFINE n == Len(e)
            b == f[n]
<1>1. Decided(e, n, b)
  BY PassDecides
<1>2. \A i \in 1 .. n : e[i] \in Verdict
  OBVIOUS
<1>3. \A v \in Verdict : v.level \in Int
  BY DEF Verdict
<1>. HIDE DEF b
<1>4. CASE \A i \in 1 .. n : ~e[i].applies
  BY <1>1, <1>4 DEF Decided, b
<1>5. CASE \E i \in 1 .. n : e[i].applies
  <2>1. /\ b # None /\ b[1] \in Int
        /\ \E i \in 1 .. n : e[i].applies /\ e[i].level = b[1]
        /\ \A i \in 1 .. n : e[i].applies => b[1] <= e[i].level
        /\ b[2] <=> \A i \in 1 .. n : e[i].applies /\ e[i].level = b[1] => e[i].allow
    BY <1>1, <1>5 DEF Decided
  <2>2. \A i \in 1 .. n : e[i].applies =>
          ((\A j \in 1 .. n : e[j].applies => e[i].level <= e[j].level) <=> e[i].level = b[1])
    BY <1>2, <1>3, <2>1
  <2>. QED  BY <1>5, <2>1, <2>2 DEF b
<1>. QED  BY <1>4, <1>5

\* A caller may use the alias if the grants say so, in whatever order.
LEMMA AliasAsRuled ==
  ASSUME grants \in Seq(GrantRecord), NEW k
  PROVE  authorizes(k) <=> Granted(k)
<1>. DEFINE n == Len(grants)
            says(g) == g.covers /\ Reaches(g)
            e == [i \in 1 .. n |-> [applies |-> says(grants[i]), level |-> precedence(grants[i]),
                                    allow |-> grants[i].allow]]
            step(f, i) == CHOOSE next \in {(IF says(grants[i]) THEN Better(b, precedence(grants[i]), grants[i].allow)
                                            ELSE b) : b \in {f[i - 1]}} : TRUE
            c == CHOOSE f : f = [i \in 0 .. n |-> IF i = 0 THEN None ELSE step(f, i)]
            S == {g \in Range(grants) : says(g)}
<1>1. authorizes(k) <=> k.models /\ \E best \in {c[n]} : best # None /\ best[2]
  BY Zenon DEF Pass, authorizes, permits_alias
<1>2. Granted(k) <=> k.models /\ S # {} /\ \A g \in S : (\A y \in S : precedence(g) <= precedence(y)) => g.allow
  BY Zenon DEF Granted, Strongest
<1>3. n \in Nat /\ \A g : g \in S <=> \E i \in 1 .. n : says(grants[i]) /\ g = grants[i]
  BY DEF Range
<1>4. \A i \in 1 .. n : says(grants[i]) \in BOOLEAN /\ precedence(grants[i]) \in Int /\ grants[i].allow \in BOOLEAN
  <2>1. \A i \in 1 .. n : grants[i] \in GrantRecord
    OBVIOUS
  <2>2. \A g \in GrantRecord : g.covers \in BOOLEAN /\ g.allow \in BOOLEAN
    BY DEF GrantRecord
  <2>. QED  BY <2>1, <2>2, LevelsAreNumbers DEF Reaches
<1>5. /\ e \in Seq(Verdict) /\ Len(e) = n
      /\ \A i \in 1 .. n : /\ e[i].applies = says(grants[i]) /\ e[i].level = precedence(grants[i])
                           /\ e[i].allow = grants[i].allow
  BY <1>3, <1>4 DEF Verdict
<1>6. ASSUME NEW f, NEW i \in 1 .. n
      PROVE  step(f, i) = Judge(f[i - 1], e[i])
  <2>1. step(f, i) = IF says(grants[i]) THEN Better(f[i - 1], precedence(grants[i]), grants[i].allow) ELSE f[i - 1]
    OBVIOUS
  <2>. HIDE DEF step
  <2>. QED  BY <1>5, <1>6, <2>1 DEF Judge
<1>. HIDE DEF step, e
<1>7. ASSUME NEW f
      PROVE  [i \in 0 .. n |-> IF i = 0 THEN None ELSE step(f, i)]
              = [i \in 0 .. n |-> IF i = 0 THEN None ELSE Judge(f[i - 1], e[i])]
  <2>1. \A i \in 0 .. n : i # 0 => i \in 1 .. n
    BY <1>3
  <2>. QED  BY <1>6, <2>1
<1>8. PICK f : f = [i \in 0 .. n |-> IF i = 0 THEN None ELSE step(f, i)]
  BY <1>5, <1>7, PassDecides DEF Passing
<1>9. c = [i \in 0 .. n |-> IF i = 0 THEN None ELSE step(c, i)]
  BY <1>8
<1>. HIDE DEF c
<1>10. Passing(e, c)
  BY <1>5, <1>7, <1>9 DEF Passing
<1>. HIDE DEF S, says
<1>11. /\ c[n] = None <=> \A i \in 1 .. n : ~says(grants[i])
       /\ c[n] # None =>
            (c[n][2] <=> \A i \in 1 .. n :
               says(grants[i]) /\ (\A j \in 1 .. n : says(grants[j]) => precedence(grants[i]) <= precedence(grants[j]))
                 => grants[i].allow)
  BY <1>5, <1>10, PassRules
<1>12. c[n] = None <=> S = {}
  BY <1>3, <1>11
<1>13. c[n] # None =>
         (c[n][2] <=> \A g \in S : (\A y \in S : precedence(g) <= precedence(y)) => g.allow)
  BY <1>3, <1>11
<1>. QED  BY <1>1, <1>2, <1>12, <1>13

\* The same of a machine, where the fleet's default stands in for no record.
LEMMA MachineAsRuled ==
  ASSUME fleet_grants \in Seq(FleetRecord), NEW k, NEW t
  PROVE  fleet_access_permits(k, t) <=> FleetGranted(k, t)
<1>. DEFINE n == Len(fleet_grants)
            says(f) == level(f, t) >= 0
            e == [i \in 1 .. n |-> [applies |-> says(fleet_grants[i]), level |-> level(fleet_grants[i], t),
                                    allow |-> fleet_grants[i].allow]]
            step(f, i) == CHOOSE next \in {(IF says(fleet_grants[i])
                                            THEN Better(b, level(fleet_grants[i], t), fleet_grants[i].allow)
                                            ELSE b) : b \in {f[i - 1]}} : TRUE
            c == CHOOSE f : f = [i \in 0 .. n |-> IF i = 0 THEN None ELSE step(f, i)]
            S == {f \in Range(fleet_grants) : says(f)}
            allowed == \A g \in S : (\A y \in S : level(g, t) <= level(y, t)) => g.allow
            default == rscene.default = "allow"
<1>1. fleet_access_permits(k, t) <=>
        (HostOf[t] # "none" => /\ HostOf[t] \in k.hosts
                               /\ \E best \in {c[n]} : IF best = None THEN default ELSE best[2])
  BY Zenon DEF Pass, permits, fleet_access_permits, permits_host
<1>2. FleetGranted(k, t) <=>
        (HostOf[t] # "none" => HostOf[t] \in k.hosts /\ IF S = {} THEN default ELSE allowed)
  BY Zenon DEF FleetGranted, Strongest
<1>3. n \in Nat /\ \A g : g \in S <=> \E i \in 1 .. n : says(fleet_grants[i]) /\ g = fleet_grants[i]
  BY DEF Range
<1>4. \A i \in 1 .. n : /\ says(fleet_grants[i]) \in BOOLEAN /\ level(fleet_grants[i], t) \in Int
                        /\ fleet_grants[i].allow \in BOOLEAN
  <2>1. \A i \in 1 .. n : fleet_grants[i] \in FleetRecord
    OBVIOUS
  <2>2. \A g \in FleetRecord : g.allow \in BOOLEAN
    BY DEF FleetRecord
  <2>. QED  BY <2>1, <2>2, LevelsAreNumbers
<1>. HIDE DEF says
<1>5. /\ e \in Seq(Verdict) /\ Len(e) = n
      /\ \A i \in 1 .. n : /\ e[i].applies = says(fleet_grants[i]) /\ e[i].level = level(fleet_grants[i], t)
                           /\ e[i].allow = fleet_grants[i].allow
  BY <1>3, <1>4 DEF Verdict
<1>6. ASSUME NEW f, NEW i \in 1 .. n
      PROVE  step(f, i) = Judge(f[i - 1], e[i])
  <2>1. step(f, i) = IF says(fleet_grants[i])
                     THEN Better(f[i - 1], level(fleet_grants[i], t), fleet_grants[i].allow) ELSE f[i - 1]
    OBVIOUS
  <2>. HIDE DEF step
  <2>. QED  BY <1>5, <1>6, <2>1 DEF Judge
<1>. HIDE DEF step, e
<1>7. ASSUME NEW f
      PROVE  [i \in 0 .. n |-> IF i = 0 THEN None ELSE step(f, i)]
              = [i \in 0 .. n |-> IF i = 0 THEN None ELSE Judge(f[i - 1], e[i])]
  <2>1. \A i \in 0 .. n : i # 0 => i \in 1 .. n
    BY <1>3
  <2>. QED  BY <1>6, <2>1
<1>8. PICK f : f = [i \in 0 .. n |-> IF i = 0 THEN None ELSE step(f, i)]
  BY <1>5, <1>7, PassDecides DEF Passing
<1>9. c = [i \in 0 .. n |-> IF i = 0 THEN None ELSE step(c, i)]
  BY <1>8
<1>. HIDE DEF c
<1>10. Passing(e, c)
  BY <1>5, <1>7, <1>9 DEF Passing
<1>. HIDE DEF S
<1>11. /\ c[n] = None <=> \A i \in 1 .. n : ~says(fleet_grants[i])
       /\ c[n] # None =>
            (c[n][2] <=> \A i \in 1 .. n :
               /\ says(fleet_grants[i])
               /\ \A j \in 1 .. n : says(fleet_grants[j]) => level(fleet_grants[i], t) <= level(fleet_grants[j], t)
               => fleet_grants[i].allow)
  <2>1. /\ c[n] = None <=> \A i \in 1 .. n : ~e[i].applies
        /\ c[n] # None =>
             (c[n][2] <=> \A i \in 1 .. n :
                e[i].applies /\ (\A j \in 1 .. n : e[j].applies => e[i].level <= e[j].level) => e[i].allow)
    BY <1>5, <1>10, PassRules
  <2>. QED  BY <1>5, <2>1
<1>12. c[n] = None <=> S = {}
  BY <1>3, <1>11
<1>13. c[n] # None => (c[n][2] <=> allowed)
  BY <1>3, <1>11
<1>. HIDE DEF allowed, default
<1>. QED  BY <1>1, <1>2, <1>12, <1>13

\* A publication puts one more record of its kind into a file.
LEMMA InsertKeeps ==
  ASSUME NEW T, NEW s \in Seq(T), NEW x \in T, NEW s2 \in Insert(s, x)
  PROVE  s2 \in Seq(T)
<1>1. PICK i \in 1 .. (Len(s) + 1) : s2 = InsertAt(s, i, x)
  BY DEF Insert
<1>2. s2 = SubSeq(s, 1, i - 1) \o <<x>> \o SubSeq(s, i, Len(s))
  BY <1>1 DEF InsertAt
<1>3. SubSeq(s, 1, i - 1) \in Seq(T) /\ SubSeq(s, i, Len(s)) \in Seq(T) /\ <<x>> \in Seq(T)
  BY <1>1
<1>. QED  BY <1>2, <1>3

\* For any records, inserted in any order, and any key: the passes of
\* authorizes and of permits decide as the strongest records rule.
THEOREM AccessRuled == RouteSpec => []AccessAsRuled
<1>. DEFINE Inv == rscene \in RouteScenes /\ grants \in Seq(GrantRecord) /\ fleet_grants \in Seq(FleetRecord)
<1>1. RouteInit => Inv
  BY RouteAssumption DEF RouteInit
<1>2. Inv /\ [RouteNext]_routeVars => Inv'
  <2>. SUFFICES ASSUME Inv, [RouteNext]_routeVars PROVE Inv'
    OBVIOUS
  <2>0. /\ rscene.grants \subseteq GrantRecord /\ rscene.fleet_grants \subseteq FleetRecord
    BY RouteAssumption
  <2>1. CASE PublishGrant
    BY <2>0, <2>1, InsertKeeps DEF PublishGrant
  <2>2. CASE PublishBinding
    BY <2>2 DEF PublishBinding
  <2>3. CASE PublishFleetGrant
    BY <2>0, <2>3, InsertKeeps DEF PublishFleetGrant
  <2>4. CASE UNCHANGED routeVars
    BY <2>4 DEF routeVars
  <2>. QED  BY <2>1, <2>2, <2>3, <2>4 DEF RouteNext
<1>3. Inv => AccessAsRuled
  BY AliasAsRuled, MachineAsRuled DEF AccessAsRuled
<1>. QED  BY <1>1, <1>2, <1>3, PTL DEF RouteSpec
=============================================================================
