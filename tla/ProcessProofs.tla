--------------------------- MODULE ProcessProofs ----------------------------
(***************************************************************************)
(* What holds of one process whatever the number of rivals and clients.    *)
(* ProcessLock, for any number of starters: the type invariant always, and *)
(* exclusion until the first shutdown or death.  Lifecycle, for any number *)
(* of clients on any of the listeners: the count of the connections is the *)
(* threads, and the exit reports honestly what was abandoned.  Pool, for   *)
(* any number of calls and connections and any answers: what a call reads  *)
(* is its own.                                                             *)
(***************************************************************************)
EXTENDS ProcessLock, Lifecycle, Pool, FiniteSetTheorems, WellFoundedInduction, TLAPS


\* Every action keeps the variables in their declared types and removes a
\* process from alive exactly when it exits or dies.
LEMMA TypeStep == TypeOK /\ [Next]_vars => TypeOK'
<1> SUFFICES ASSUME TypeOK, [Next]_vars PROVE TypeOK'
    OBVIOUS
<1>f. "lock" \in Files /\ "claim" \in Files
    BY DEF Files
<1>l. left' = left
    BY DEF Next, vars
<1> USE <1>f, <1>l DEF TypeOK, Points, Goto, try_create, remove_file, Fill, NoFileChange
<1>1. ASSUME NEW p \in Procs, Start(p) PROVE TypeOK'
    BY <1>1 DEF Start
<1>2. ASSUME NEW p \in Procs, CreateLock(p) PROVE TypeOK'
    BY <1>2 DEF CreateLock
<1>3. ASSUME NEW p \in Procs, FillLock(p) \/ FillClaim(p) \/ RefillLock(p) PROVE TypeOK'
    BY <1>3 DEF FillLock, FillClaim, RefillLock
<1>4. ASSUME NEW p \in Procs, ReadLock(p) \/ ReadClaim(p) \/ RecheckLock(p) PROVE TypeOK'
    BY <1>4 DEF ReadLock, ReadClaim, RecheckLock
<1>5. ASSUME NEW p \in Procs, CreateClaim(p) PROVE TypeOK'
    BY <1>5 DEF CreateClaim
<1>6. ASSUME NEW p \in Procs, SweepClaim(p) PROVE TypeOK'
    BY <1>6 DEF SweepClaim
<1>7. ASSUME NEW p \in Procs, RemoveStale(p) \/ RemoveClaim(p) PROVE TypeOK'
    BY <1>7 DEF RemoveStale, RemoveClaim
<1>8. ASSUME NEW p \in Procs, RecreateLock(p) PROVE TypeOK'
    <2>1. won' \in [Procs -> BOOLEAN]
        BY <1>8, Zenon DEF RecreateLock
    <2> QED
        BY <1>8, <2>1 DEF RecreateLock
<1>9. ASSUME NEW p \in Procs, BeginDrop(p) PROVE TypeOK'
    BY <1>9 DEF BeginDrop
<1>10. ASSUME NEW p \in Procs, EndDrop(p) PROVE TypeOK'
    BY <1>10 DEF EndDrop
<1>11. ASSUME NEW p \in Procs, Retry(p) PROVE TypeOK'
    BY <1>11 DEF Retry
<1>12. ASSUME NEW p \in Procs, Crash(p) PROVE TypeOK'
    BY <1>12 DEF Crash
<1>13. ASSUME NEW f \in Files, GraceElapses(f) PROVE TypeOK'
    BY <1>13 DEF GraceElapses
<1>14. CASE UNCHANGED vars
    BY <1>14 DEF vars
<1> QED
    BY <1>1, <1>2, <1>3, <1>4, <1>5, <1>6, <1>7, <1>8, <1>9, <1>10, <1>11, <1>12,
       <1>13, <1>14 DEF Next, Acquire

\* Type correctness of ProcessLock, for every set of processes, every set of
\* files left behind and every crash point.
THEOREM TypeCorrect == Spec => []TypeOK
<1>1. Init => TypeOK
    BY ProcsAssumption DEF Init, TypeOK, Points, Files
<1> QED
    BY <1>1, TypeStep, PTL DEF Spec

-----------------------------------------------------------------------------
(***************************************************************************)
(* Exclusion while the directory is quiet: any number of starters racing   *)
(* after one crash.  A directory that stopped being quiet never is again,  *)
(* so it is enough to follow the steps between two quiet states.           *)
(***************************************************************************)
Live == file["lock"] \in Procs

Claiming == {"fillClaim", "recheck", "remove", "recreate"}

(***************************************************************************)
(* Nobody has stopped, and an empty file belongs to somebody who runs.     *)
(***************************************************************************)
AllRunning ==
  /\ \A p \in Procs : pc[p] \notin {"drop", "exited", "dead"}
  /\ old = {}
  /\ \A f \in blank : file[f] \in Procs
  /\ file["claim"] # Ghost

(***************************************************************************)
(* Until the lock is live the claim is a mutex over the reclaim, and the   *)
(* lock is missing only before the first start or between the two halves   *)
(* of a reclaim.  Once it is live nobody is about to remove it, so a claim *)
(* swept from under its owner does no harm any more.                       *)
(***************************************************************************)
ClaimIsMutex == ~Live => \A p \in Procs : pc[p] \in Claiming => file["claim"] = p

MissingLock ==
  file["lock"] = NoFile =>
    \/ \E p \in Procs : pc[p] = "recreate"
    \/ \A p \in Procs : pc[p] \in {"idle", "create"}

RemovesOnlyStale ==
  \A p \in Procs :
    /\ pc[p] = "remove" => ~Live
    /\ pc[p] = "recreate" => file["lock"] # Ghost

LiveBehindClaim ==
  \A p \in Procs :
    /\ pc[p] \in {"sweep", "unclaim", "refill", "fill", "holding"} => Live
    /\ pc[p] = "readClaim" /\ file["claim"] = NoFile => Live

HolderRecorded ==
  \A p \in Procs :
    /\ Holds(p) => file["lock"] = p
    /\ won[p] => pc[p] \in {"refill", "unclaim", "holding"}

ExclusionInv ==
  /\ TypeOK /\ AllRunning /\ ClaimIsMutex /\ MissingLock
  /\ RemovesOnlyStale /\ LiveBehindClaim /\ HolderRecorded

\* live_holder answers "stale" only for a file no running process wrote.
LEMMA StaleIsDead ==
  ASSUME TypeOK, AllRunning, NEW f \in Files, live_holder(f) = "stale"
  PROVE  file[f] \notin Procs
BY DEF TypeOK, AllRunning, live_holder, Files

\* A shutdown, a death or a claim left behind is never undone.
LEMMA QuietNeverReturns ==
  ASSUME TypeOK, [Next]_vars, Quiet'
  PROVE  Quiet
<1>1. CASE UNCHANGED vars
    BY <1>1 DEF vars, Quiet
<1>2. CASE Next
    <2>1. UNCHANGED left
        BY <1>2 DEF Next
    <2>2. alive' \subseteq alive
        BY <1>2 DEF Next, Acquire, Start, CreateLock, FillLock, ReadLock, CreateClaim,
           FillClaim, ReadClaim, SweepClaim, RecheckLock, RemoveStale, RecreateLock,
           RefillLock, RemoveClaim, EndDrop, Retry, BeginDrop, Crash, GraceElapses
    <2>3. ASSUME NEW p \in Procs, pc[p] = "drop" PROVE FALSE
        <3>1. pc'[p] = pc[p] \/ p \notin alive'
            BY <1>2, <2>3 DEF Next, Acquire, Start, CreateLock, FillLock, ReadLock,
               CreateClaim, FillClaim, ReadClaim, SweepClaim, RecheckLock, RemoveStale,
               RecreateLock, RefillLock, RemoveClaim, EndDrop, Retry, BeginDrop, Crash,
               GraceElapses, Goto, TypeOK
        <3> QED
            BY <2>3, <3>1 DEF Quiet
    <2> QED
        BY <2>1, <2>2, <2>3 DEF Quiet, TypeOK
<1> QED
    BY <1>1, <1>2

\* Every step that leaves the directory quiet keeps the exclusion invariant.
LEMMA ExclusionStep ==
  ASSUME Quiet', ExclusionInv, [Next]_vars
  PROVE  ExclusionInv'
<1> USE ProcsAssumption DEF ExclusionInv, AllRunning, ClaimIsMutex,
        MissingLock, RemovesOnlyStale, LiveBehindClaim, HolderRecorded, Holds, Live,
        Claiming
<1>0. TypeOK'
    BY TypeStep
<1> USE <1>0
<1>a. alive = Procs
    BY DEF TypeOK
<1>1. ASSUME NEW p \in Procs, Start(p) PROVE ExclusionInv'
    BY <1>1 DEF Start, TypeOK, Goto, NoFileChange
<1>2. ASSUME NEW p \in Procs, CreateLock(p) PROVE ExclusionInv'
    <2>1. CASE file["lock"] # NoFile
        BY <1>2, <2>1 DEF CreateLock, TypeOK, Goto, NoFileChange, try_create
    <2>2. CASE file["lock"] = NoFile
        <3>1. try_create(p, "lock") /\ Goto(p, IF HardLinks THEN "holding" ELSE "fill")
              /\ UNCHANGED <<alive, pass, won>> /\ pc[p] = "create"
            BY <1>2, <2>2 DEF CreateLock
        <3>2. \A q \in Procs : pc[q] # "remove"
            BY <2>2
        <3> QED
            BY <2>2, <3>1, <3>2 DEF TypeOK, Goto, try_create, Files
    <2> QED
        BY <2>1, <2>2
<1>3. ASSUME NEW p \in Procs, FillLock(p) PROVE ExclusionInv'
    BY <1>3 DEF FillLock, TypeOK, Goto, Fill
<1>4. ASSUME NEW p \in Procs, FillClaim(p) PROVE ExclusionInv'
    BY <1>4 DEF FillClaim, TypeOK, Goto, Fill
<1>5. ASSUME NEW p \in Procs, RefillLock(p) PROVE ExclusionInv'
    BY <1>5 DEF RefillLock, TypeOK, Goto, Fill
<1>6. ASSUME NEW p \in Procs, ReadLock(p) PROVE ExclusionInv'
    BY <1>6 DEF ReadLock, TypeOK, Goto, NoFileChange
<1>7. ASSUME NEW p \in Procs, ReadClaim(p) PROVE ExclusionInv'
    <2>1. live_holder("claim") = "stale" => file["claim"] = NoFile
        BY StaleIsDead DEF TypeOK, Files
    <2> QED
        BY <1>7, <2>1 DEF ReadClaim, TypeOK, Goto, NoFileChange
<1>8. ASSUME NEW p \in Procs, RecheckLock(p) PROVE ExclusionInv'
    <2>1. live_holder("lock") = "stale" => ~Live
        BY StaleIsDead DEF Files
    <2>2. live_holder("lock") # "stale" => Live
        BY <1>a DEF live_holder, TypeOK, Files
    <2> QED
        BY <1>8, <2>1, <2>2 DEF RecheckLock, TypeOK, Goto, NoFileChange
<1>9. ASSUME NEW p \in Procs, CreateClaim(p) PROVE ExclusionInv'
    <2>1. CASE file["claim"] # NoFile
        BY <1>9, <2>1 DEF CreateClaim, TypeOK, Goto, NoFileChange, try_create
    <2>2. CASE file["claim"] = NoFile
        BY <1>9, <2>2 DEF CreateClaim, TypeOK, Goto, try_create, Files
    <2> QED
        BY <2>1, <2>2
<1>10. ASSUME NEW p \in Procs, SweepClaim(p) PROVE ExclusionInv'
    BY <1>10 DEF SweepClaim, TypeOK, Goto, remove_file, NoFileChange, Files
<1>11. ASSUME NEW p \in Procs, RemoveStale(p) PROVE ExclusionInv'
    BY <1>11 DEF RemoveStale, TypeOK, Goto, remove_file, Files
<1>12. ASSUME NEW p \in Procs, RecreateLock(p) PROVE ExclusionInv'
    <2>1. CASE file["lock"] # NoFile
        <3>1. Live
            BY <1>12, <2>1 DEF RecreateLock, TypeOK, Files
        <3>2. pc[p] = "recreate" /\ pc' = [pc EXCEPT ![p] = "unclaim"]
              /\ UNCHANGED <<file, blank, old, alive, pass, won>>
            BY <1>12, <2>1 DEF RecreateLock, Goto, NoFileChange, try_create
        <3> QED
            BY <3>1, <3>2 DEF TypeOK
    <2>2. CASE file["lock"] = NoFile
        <3>1. \A q \in Procs : pc[q] # "remove"
            BY <1>12, <2>2 DEF RecreateLock
        <3> QED
            BY <1>12, <2>2, <3>1 DEF RecreateLock, TypeOK, Goto, try_create, Files
    <2> QED
        BY <2>1, <2>2
<1>13. ASSUME NEW p \in Procs, RemoveClaim(p) PROVE ExclusionInv'
    BY <1>13 DEF RemoveClaim, TypeOK, Goto, remove_file, Files
<1>14. ASSUME NEW p \in Procs, EndDrop(p) \/ BeginDrop(p) \/ Crash(p) PROVE FALSE
    <2>1. p \in alive' /\ pc'[p] # "drop"
        BY DEF Quiet
    <2> QED
        BY <1>14, <2>1 DEF EndDrop, BeginDrop, Crash, TypeOK, Goto
<1>15. ASSUME NEW p \in Procs, Retry(p) PROVE ExclusionInv'
    BY <1>15 DEF Retry, TypeOK, Goto, NoFileChange
<1>16. ASSUME NEW f \in Files, GraceElapses(f) PROVE FALSE
    BY <1>16, <1>a DEF GraceElapses
<1>17. CASE UNCHANGED vars
    BY <1>17 DEF vars
<1> QED
    BY <1>1, <1>2, <1>3, <1>4, <1>5, <1>6, <1>7, <1>8, <1>9, <1>10, <1>11, <1>12,
       <1>13, <1>14, <1>15, <1>16, <1>17 DEF Next, Acquire

\* ProcessLock::acquire is exclusive for any number of starters, with and
\* without hard links, until one of them shuts down or dies, when no claim was
\* left behind: reclaiming under lock.claim has exactly one winner.
THEOREM ExclusionWhileQuiet == Spec => []QuietExclusion
<1> DEFINE Inv == TypeOK /\ (Quiet => ExclusionInv)
<1>1. Init => Inv
    BY ProcsAssumption DEF Init, ExclusionInv, TypeOK, Points, Files, AllRunning,
       ClaimIsMutex, MissingLock, RemovesOnlyStale, LiveBehindClaim, HolderRecorded,
       Holds, Live, Claiming, Quiet
<1>2. Inv /\ [Next]_vars => Inv'
    <2> SUFFICES ASSUME Inv, [Next]_vars, Quiet' PROVE ExclusionInv'
        BY TypeStep
    <2>1. Quiet
        BY QuietNeverReturns
    <2> QED
        BY <2>1, ExclusionStep
<1>3. Inv => QuietExclusion
    BY DEF ExclusionInv, HolderRecorded, SingleWriter, QuietExclusion
<1> QED
    BY <1>1, <1>2, <1>3, PTL DEF Spec

-----------------------------------------------------------------------------
(* The listeners and the stop *)

ConnPoints == {"away", "backlog", "accepted", "gone"} \cup Serving

MainPoints == {"inference", "management", "metrics", "housekeeping", "probe", "jobs", "job_worker",
               "closing_books", "exited"}

LifeTypeOK ==
  /\ server \in [Listeners -> [at : {"accept", "admit", "spawn", "drain", "returned"}, flag : BOOLEAN,
                               poke : BOOLEAN, hand : Clients \cup {Nobody}, active : Int]]
  /\ conn \in [Clients -> [at : ConnPoints, sent : Nat, inbox : Nat, buffer : Nat, served : Nat, open : BOOLEAN]]
  /\ ctl \in [ordered : BOOLEAN, done : Nat]
  /\ main \in [at : MainPoints, abandoned : Int, jobs_stopping : BOOLEAN]

\* What an accept loop has in its hand is a connection of its own listener
\* that nobody else moves.
HandFollows ==
  \A l \in Listeners : server[l].at \in {"admit", "spawn"} =>
    /\ server[l].hand \in Clients
    /\ ListenerOf[server[l].hand] = l /\ conn[server[l].hand].at = "accepted"

\* One listener's count: the threads, and the one about to be made.
Counted(l) ==
  /\ server[l].active = Cardinality(ThreadsOf(l)) + (IF server[l].at = "spawn" THEN 1 ELSE 0)
  /\ server[l].active <= max_connections

\* Once serve has gone on, its accept loop makes no more threads.
AfterReturn ==
  main.at # "inference" =>
    /\ server["inference"].at = "returned"
    /\ main.abandoned = 0 => ThreadsOf("inference") = {}

StopInv == LifeTypeOK /\ HandFollows /\ (\A l \in Listeners : Counted(l)) /\ AfterReturn

-----------------------------------------------------------------------------

LEMMA LifeTypeStep == LifeTypeOK /\ HandFollows /\ LifeNext => LifeTypeOK'
<1> SUFFICES ASSUME LifeTypeOK, HandFollows, LifeNext PROVE LifeTypeOK'
    OBVIOUS
<1> DEFINE S == [at : {"accept", "admit", "spawn", "drain", "returned"}, flag : BOOLEAN,
                 poke : BOOLEAN, hand : Clients \cup {Nobody}, active : Int]
           C == [at : ConnPoints, sent : Nat, inbox : Nat, buffer : Nat, served : Nat, open : BOOLEAN]
           M == [at : MainPoints, abandoned : Int, jobs_stopping : BOOLEAN]
<1>s. server \in [Listeners -> S] /\ conn \in [Clients -> C]
    BY DEF LifeTypeOK
<1>c. ctl \in [ordered : BOOLEAN, done : Nat] /\ main \in M
    BY DEF LifeTypeOK
<1>g. ASSUME NEW c \in Clients, NEW at \in ConnPoints, Goes(c, at) PROVE conn' \in [Clients -> C]
    BY <1>s, <1>g DEF Goes
<1>u. ASSUME NEW c \in Clients, conn' = [conn EXCEPT ![c] = Untouched("gone")] PROVE conn' \in [Clients -> C]
    <2>1. Untouched("gone") \in C
        BY DEF Untouched, ConnPoints
    <2> QED
        BY <1>s, <1>u, <2>1
<1>r. ASSUME NEW c \in Clients, ReadSome(c, "closing") PROVE conn' \in [Clients -> C]
    <2>1. ASSUME NEW n \in 1..conn[c].inbox,
                 conn' = [conn EXCEPT ![c] = [conn[c] EXCEPT !.inbox = @ - n, !.buffer = @ + n]]
          PROVE  conn' \in [Clients -> C]
        <3>1. conn[c] \in C
            BY <1>s
        <3>2. conn[c].inbox - n \in Nat /\ conn[c].buffer + n \in Nat
            BY <3>1
        <3> QED
            BY <1>s, <2>1, <3>2
    <2> QED
        BY <1>r, <1>g, <2>1 DEF ReadSome, ConnPoints, Serving
<1>q. server' \in [Listeners -> S] /\ conn' \in [Clients -> C] /\ ctl' = ctl /\ main' = main => LifeTypeOK'
    BY <1>c DEF LifeTypeOK
<1>z. ConnPoints = {"away", "backlog", "accepted", "gone", "top", "head", "body", "handle", "closing"}
    BY DEF ConnPoints, Serving
<1>1. ASSUME NEW l \in Listeners, Accept(l) PROVE LifeTypeOK'
    <2>0. server[l] \in S
        BY <1>s
    <2>1. ASSUME NEW at \in {"drain", "accept"},
                 server' = [server EXCEPT ![l] = [server[l] EXCEPT !.poke = FALSE, !.at = at]]
          PROVE  server' \in [Listeners -> S]
        <3>1. [server[l] EXCEPT !.poke = FALSE, !.at = at] \in S
            BY <2>0
        <3> QED
            BY <1>s, <2>1, <3>1
    <2>2. ASSUME NEW c \in Clients, conn' = [conn EXCEPT ![c].at = "accepted"] PROVE conn' \in [Clients -> C]
        BY <1>g, <1>z, <2>2 DEF Goes
    <2>3. ASSUME NEW c \in Clients,
                 \/ server' = [server EXCEPT ![l].at = "drain"]
                 \/ server' = [server EXCEPT ![l] = [server[l] EXCEPT !.at = "admit", !.hand = c]]
          PROVE  server' \in [Listeners -> S]
        <3>1. [server[l] EXCEPT !.at = "admit", !.hand = c] \in S
            BY <2>0
        <3>2. [server EXCEPT ![l].at = "drain"] \in [Listeners -> S]
            BY <1>s
        <3> QED
            BY <1>s, <2>3, <3>1, <3>2
    <2> HIDE DEF S, C
    <2> QED
        BY <1>s, <1>1, <1>u, <1>q, <2>1, <2>2, <2>3 DEF Accept
<1>2. ASSUME NEW l \in Listeners, Admit(l) PROVE LifeTypeOK'
    <2>1. ASSUME \/ server' = [server EXCEPT ![l] = [server[l] EXCEPT !.at = "accept", !.hand = Nobody]]
                 \/ server' = [server EXCEPT ![l] = [server[l] EXCEPT !.at = "spawn", !.active = @ + 1]]
          PROVE  server' \in [Listeners -> S]
        <3>0. server[l] \in S
            BY <1>s
        <3>1. [server[l] EXCEPT !.at = "accept", !.hand = Nobody] \in S
            BY <3>0
        <3>2. [server[l] EXCEPT !.at = "spawn", !.active = @ + 1] \in S
            <4>1. PICK n \in Int : n = server[l].active + 1
                BY <3>0
            <4>2. [server[l] EXCEPT !.at = "spawn", !.active = n] \in S
                BY <3>0
            <4> QED
                BY <4>1, <4>2
        <3> QED
            BY <1>s, <2>1, <3>1, <3>2
    <2>2. server[l].hand \in Clients
        BY <1>2 DEF Admit, HandFollows
    <2> HIDE DEF S, C
    <2> QED
        BY <1>s, <1>2, <1>u, <1>q, <2>1, <2>2 DEF Admit
<1>3. ASSUME NEW l \in Listeners, SpawnFails(l) \/ Spawn(l) PROVE LifeTypeOK'
    <2>1. server' \in [Listeners -> S]
        <3>0. server[l] \in S
            BY <1>s
        <3>1. PICK n \in Int : n = server[l].active - 1
            BY <3>0
        <3>2. /\ [server[l] EXCEPT !.at = "accept", !.hand = Nobody, !.active = n] \in S
              /\ [server[l] EXCEPT !.at = "accept", !.hand = Nobody] \in S
            BY <3>0
        <3> QED
            BY <1>s, <1>3, <3>1, <3>2 DEF SpawnFails, Spawn
    <2>2. server[l].hand \in Clients
        BY <1>3 DEF SpawnFails, Spawn, HandFollows
    <2>3. ASSUME conn' = [conn EXCEPT ![server[l].hand].at = "top"] PROVE conn' \in [Clients -> C]
        BY <1>g, <1>z, <2>2, <2>3 DEF Goes
    <2> HIDE DEF S, C
    <2> QED
        BY <1>3, <1>u, <1>q, <2>1, <2>2, <2>3 DEF SpawnFails, Spawn
<1>4. ASSUME NEW l \in Listeners, DrainConnections(l) PROVE LifeTypeOK'
    <2>1. server' \in [Listeners -> S]
        BY <1>s, <1>4 DEF DrainConnections
    <2> QED
        BY <1>s, <1>4, <1>q, <2>1 DEF DrainConnections
<1>5. ASSUME NEW c \in Clients, Top(c) \/ Handle(c) PROVE LifeTypeOK'
    <2>1. conn' \in [Clients -> C]
        BY <1>5, <1>g, <1>z DEF Top, Handle
    <2> QED
        BY <1>5, <1>s, <1>q, <2>1 DEF Top, Handle
<1>6. ASSUME NEW c \in Clients, read_head(c) \/ read_body(c) PROVE LifeTypeOK'
    <2>1. conn[c] \in C
        BY <1>s
    <2>2. ASSUME conn[c].buffer >= HeadPieces,
                 conn' = [conn EXCEPT ![c] = [conn[c] EXCEPT !.at = "body", !.buffer = @ - HeadPieces]]
          PROVE  conn' \in [Clients -> C]
        <3>1. conn[c].buffer - HeadPieces \in Nat
            BY <2>1, <2>2 DEF HeadPieces
        <3>2. [conn[c] EXCEPT !.at = "body", !.buffer = @ - HeadPieces] \in C
            BY <1>z, <2>1, <3>1
        <3> QED
            BY <1>s, <2>2, <3>2
    <2>3. ASSUME conn[c].buffer >= BodyPieces,
                 conn' = [conn EXCEPT ![c] = [conn[c] EXCEPT !.at = "handle", !.buffer = @ - BodyPieces,
                                                             !.served = @ + 1]]
          PROVE  conn' \in [Clients -> C]
        <3>1. conn[c].buffer - BodyPieces \in Nat
            BY <2>1, <2>3 DEF BodyPieces
        <3>2. [conn[c] EXCEPT !.at = "handle", !.buffer = @ - BodyPieces, !.served = @ + 1] \in C
            <4>1. PICK n \in Nat, m \in Nat : n = conn[c].buffer - BodyPieces /\ m = conn[c].served + 1
                BY <2>1, <3>1
            <4>2. [conn[c] EXCEPT !.at = "handle", !.buffer = n, !.served = m] \in C
                BY <1>z, <2>1
            <4> QED
                BY <4>1, <4>2
        <3> QED
            BY <1>s, <2>3, <3>2
    <2>4. "closing" \in ConnPoints
        BY <1>z
    <2> HIDE DEF S, C
    <2>5. conn' \in [Clients -> C]
        BY <1>6, <1>g, <1>r, <2>2, <2>3, <2>4 DEF read_head, read_body
    <2> QED
        BY <1>6, <1>s, <1>q, <2>5 DEF read_head, read_body
<1>7. ASSUME NEW c \in Clients, CountOut(c) PROVE LifeTypeOK'
    <2>0. PICK l \in Listeners : l = ListenerOf[c]
        BY LifeAssumption
    <2>1. server' \in [Listeners -> S]
        BY <1>s, <1>7, <2>0 DEF CountOut
    <2> QED
        BY <1>7, <1>u, <1>q, <2>1 DEF CountOut
<1>8. ASSUME NEW c \in Clients, Client(c) PROVE LifeTypeOK'
    <2>1. ASSUME SendPiece(c) PROVE conn' \in [Clients -> C]
        <3>0. conn[c] \in C
            BY <1>s
        <3>1. PICK n \in Nat, m \in Nat : n = conn[c].sent + 1 /\ m = conn[c].inbox + 1
            BY <3>0
        <3>2. [conn[c] EXCEPT !.sent = n, !.inbox = m] \in C
            BY <3>0
        <3> QED
            BY <1>s, <2>1, <3>1, <3>2 DEF SendPiece
    <2>2. ASSUME Disconnect(c) PROVE conn' \in [Clients -> C]
        BY <1>s, <2>2 DEF Disconnect
    <2>3. ASSUME Connect(c) PROVE conn' \in [Clients -> C]
        BY <1>g, <1>z, <2>3 DEF Connect
    <2> HIDE DEF S, C
    <2> QED
        BY <1>8, <1>s, <1>q, <2>1, <2>2, <2>3 DEF Client
<1>9. CASE OrderStop
    <2>1. ctl' \in [ordered : BOOLEAN, done : Nat]
        BY <1>9, <1>c DEF OrderStop
    <2> QED
        BY <1>9, <1>s, <1>c, <2>1 DEF OrderStop, LifeTypeOK
<1>10. CASE Signal
    <2>1. ctl' \in [ordered : BOOLEAN, done : Nat]
        BY <1>10, <1>c DEF Signal
    <2>2. server' \in [Listeners -> S]
        BY <1>10, <1>s DEF Signal
    <2> QED
        BY <1>10, <1>s, <1>c, <2>1, <2>2 DEF Signal, LifeTypeOK
<1>11. ASSUME NEW a \in Aides, AideEnds(a) PROVE LifeTypeOK'
    BY <1>11, <1>s, <1>q DEF AideEnds
<1>12. CASE MainStep
    <2>1. server["inference"].active \in Int
        BY <1>s DEF Listeners
    <2>2. main' \in M
        BY <1>12, <1>c, <2>1 DEF MainStep, JoinListener, JoinAide, MainPoints
    <2> QED
        BY <1>12, <1>s, <1>c, <2>2 DEF MainStep, LifeTypeOK
<1> QED
    BY <1>1, <1>2, <1>3, <1>4, <1>5, <1>6, <1>7, <1>8, <1>9, <1>10, <1>11, <1>12
    DEF LifeNext, AcceptLoop, Thread

-----------------------------------------------------------------------------

\* A thread stays one, and nobody else becomes one or leaves an accept
\* loop's hand.
Calm(c) ==
  \/ conn'[c].at = conn[c].at
  \/ conn[c].at \in Serving /\ conn'[c].at \in Serving
  \/ conn[c].at \in {"away", "backlog"} /\ conn'[c].at \notin Serving

LEMMA SameThreads ==
  ASSUME \A c \in Clients : Calm(c)
  PROVE  \A l \in Listeners : ThreadsOf(l)' = ThreadsOf(l)
BY DEF Calm, ThreadsOf, Serving

\* Steps that make and end no thread and leave accept loops where they are:
\* the connections' own, the clients', the signals and the aides'.
CalmStep ==
  /\ \A c \in Clients : Calm(c)
  /\ \A l \in Listeners : /\ server'[l].at = server[l].at
                          /\ server'[l].hand = server[l].hand
                          /\ server'[l].active = server[l].active
  /\ main' = main

LEMMA CalmKeeps ==
  ASSUME StopInv, CalmStep, LifeTypeOK'
  PROVE  StopInv'
<1>1. \A l \in Listeners : ThreadsOf(l)' = ThreadsOf(l)
    BY SameThreads DEF CalmStep
<1>2. HandFollows'
    BY DEF StopInv, HandFollows, CalmStep, Calm, Serving
<1>3. \A l \in Listeners : Counted(l)'
    BY <1>1 DEF StopInv, Counted, CalmStep
<1>4. AfterReturn'
    BY <1>1 DEF StopInv, AfterReturn, CalmStep, Listeners
<1> QED
    BY <1>2, <1>3, <1>4 DEF StopInv

LEMMA CalmActions ==
  ASSUME StopInv,
         \/ \E c \in Clients : Top(c) \/ read_head(c) \/ read_body(c) \/ Handle(c) \/ Client(c)
         \/ OrderStop \/ Signal
         \/ \E a \in Aides : AideEnds(a)
  PROVE  CalmStep
<1>t. conn \in [Clients -> [at : ConnPoints, sent : Nat, inbox : Nat, buffer : Nat, served : Nat, open : BOOLEAN]]
    BY DEF StopInv, LifeTypeOK
<1>s. server \in [Listeners -> [at : {"accept", "admit", "spawn", "drain", "returned"}, flag : BOOLEAN,
                               poke : BOOLEAN, hand : Clients \cup {Nobody}, active : Int]]
    BY DEF StopInv, LifeTypeOK
<1>1. ASSUME NEW c \in Clients, Top(c) \/ read_head(c) \/ read_body(c) \/ Handle(c) PROVE CalmStep
    <2>1. conn[c].at \in Serving /\ conn'[c].at \in Serving
        BY <1>1, <1>t DEF Top, read_head, read_body, Handle, Goes, ReadSome, Serving
    <2>2. \A d \in Clients \ {c} : conn'[d] = conn[d]
        BY <1>1, <1>t DEF Top, read_head, read_body, Handle, Goes, ReadSome
    <2> QED
        BY <1>1, <2>1, <2>2 DEF Top, read_head, read_body, Handle, CalmStep, Calm
<1>2. ASSUME NEW c \in Clients, Client(c) PROVE CalmStep
    <2>1. Calm(c)
        BY <1>2, <1>t DEF Client, Connect, SendPiece, Disconnect, Goes, Calm, Serving
    <2>2. \A d \in Clients \ {c} : conn'[d] = conn[d]
        BY <1>2, <1>t DEF Client, Connect, SendPiece, Disconnect, Goes
    <2> QED
        BY <1>2, <2>1, <2>2 DEF Client, CalmStep, Calm
<1>3. ASSUME OrderStop \/ \E a \in Aides : AideEnds(a) PROVE CalmStep
    BY <1>3 DEF OrderStop, AideEnds, CalmStep, Calm
<1>4. ASSUME Signal PROVE CalmStep
    BY <1>4, <1>s DEF Signal, CalmStep, Calm
<1> QED
    BY <1>1, <1>2, <1>3, <1>4

\* A step of one accept loop that makes no thread: the others are as they
\* were, and so is the thread count.
LEMMA LoopKeeps ==
  ASSUME StopInv, LifeTypeOK', NEW l \in Listeners,
         \A k \in Listeners \ {l} : server'[k] = server[k],
         \A c \in Clients : Calm(c) \/ (c = server[l].hand /\ conn[c].at = "accepted" /\ conn'[c].at = "gone"),
         \A k \in Listeners \ {l} : server[k].at \in {"admit", "spawn"} => server[k].hand # server[l].hand,
         main' = main, server[l].at # "returned",
         server'[l].at \in {"admit", "spawn"} =>
           server'[l].hand \in Clients /\ ListenerOf[server'[l].hand] = l /\ conn'[server'[l].hand].at = "accepted",
         server'[l].active - server[l].active
           = (IF server'[l].at = "spawn" THEN 1 ELSE 0) - (IF server[l].at = "spawn" THEN 1 ELSE 0),
         server'[l].active <= max_connections
  PROVE  StopInv'
<1>1. \A k \in Listeners : ThreadsOf(k)' = ThreadsOf(k)
    BY DEF Calm, ThreadsOf, Serving
<1>2. HandFollows'
    <2> SUFFICES ASSUME NEW k \in Listeners, server'[k].at \in {"admit", "spawn"}
                 PROVE  /\ server'[k].hand \in Clients
                        /\ ListenerOf[server'[k].hand] = k /\ conn'[server'[k].hand].at = "accepted"
        BY DEF HandFollows
    <2>1. CASE k = l
        BY <2>1
    <2>2. CASE k # l
        BY <2>2 DEF StopInv, HandFollows, Calm, Serving
    <2> QED
        BY <2>1, <2>2
<1>3. \A k \in Listeners : Cardinality(ThreadsOf(k)) \in Int
    <2>1. \A k \in Listeners : IsFiniteSet(ThreadsOf(k))
        BY FS_Subset, LifeAssumption DEF ThreadsOf
    <2> QED
        BY <2>1, FS_CardinalityType
<1>4. \A k \in Listeners : Counted(k)'
    <2> SUFFICES ASSUME NEW k \in Listeners PROVE Counted(k)'
        OBVIOUS
    <2>1. Counted(k) /\ ThreadsOf(k)' = ThreadsOf(k)
        BY <1>1 DEF StopInv
    <2>2. CASE k = l
        <3>1. server[l].active \in Int /\ server'[l].active \in Int
            BY DEF StopInv, LifeTypeOK
        <3> QED
            BY <1>3, <2>1, <2>2, <3>1 DEF Counted
    <2>3. CASE k # l
        BY <2>1, <2>3 DEF Counted
    <2> QED
        BY <2>2, <2>3
<1>5. AfterReturn'
    BY <1>1 DEF StopInv, AfterReturn, Listeners
<1> QED
    BY <1>2, <1>4, <1>5 DEF StopInv

LEMMA LoopActions ==
  ASSUME StopInv, LifeTypeOK', NEW l \in Listeners,
         Accept(l) \/ Admit(l) \/ SpawnFails(l) \/ DrainConnections(l)
  PROVE  StopInv'
<1>t. conn \in [Clients -> [at : ConnPoints, sent : Nat, inbox : Nat, buffer : Nat, served : Nat, open : BOOLEAN]]
    BY DEF StopInv, LifeTypeOK
<1>s. server \in [Listeners -> [at : {"accept", "admit", "spawn", "drain", "returned"}, flag : BOOLEAN,
                               poke : BOOLEAN, hand : Clients \cup {Nobody}, active : Int]]
    BY DEF StopInv, LifeTypeOK
<1>h. server[l].at \in {"admit", "spawn"} =>
        /\ server[l].hand \in Clients
        /\ ListenerOf[server[l].hand] = l /\ conn[server[l].hand].at = "accepted"
    BY DEF StopInv, HandFollows
<1>d. server[l].at \in {"admit", "spawn"} =>
        \A k \in Listeners \ {l} : server[k].at \in {"admit", "spawn"} => server[k].hand # server[l].hand
    BY DEF StopInv, HandFollows
<1>n. server[l].active \in Int /\ server[l].active <= max_connections
    BY <1>s DEF StopInv, Counted
<1>m. max_connections \in Nat
    BY LifeAssumption
<1>o. \A k \in Listeners \ {l} : server'[k] = server[k]
    BY <1>s DEF Accept, Admit, SpawnFails, DrainConnections
<1>1. CASE Accept(l)
    <2>1. CASE /\ server' = [server EXCEPT ![l] = [server[l] EXCEPT !.poke = FALSE,
                                                       !.at = IF server[l].flag THEN "drain" ELSE "accept"]]
               /\ UNCHANGED conn
        <3>1. server'[l].at \in {"drain", "accept"} /\ server'[l].active = server[l].active
            BY <1>s, <2>1
        <3>2. \A c \in Clients : Calm(c)
            BY <2>1 DEF Calm
        <3>3. ThreadsOf(l)' = ThreadsOf(l) /\ server[l].at = "accept" /\ main' = main
            BY <2>1, <1>1 DEF ThreadsOf, Accept
        <3>4. HandFollows'
            BY <1>o, <2>1, <3>1 DEF StopInv, HandFollows
        <3>5. \A k \in Listeners : Counted(k)'
            BY <1>o, <2>1, <3>1, <3>3, SameThreads, <3>2 DEF StopInv, Counted
        <3>6. AfterReturn'
            BY <1>o, <3>2, <3>3, SameThreads DEF StopInv, AfterReturn, Listeners
        <3> QED
            BY <3>4, <3>5, <3>6 DEF StopInv
    <2>2. ASSUME NEW c \in Clients, ListenerOf[c] = l, conn[c].at = "backlog",
                 IF server[l].flag
                 THEN /\ server' = [server EXCEPT ![l].at = "drain"]
                      /\ conn' = [conn EXCEPT ![c] = Untouched("gone")]
                 ELSE /\ server' = [server EXCEPT ![l] = [server[l] EXCEPT !.at = "admit", !.hand = c]]
                      /\ conn' = [conn EXCEPT ![c].at = "accepted"]
          PROVE  StopInv'
        <3>1. server'[l].active = server[l].active
            BY <1>s, <2>2
        <3>2. \/ server'[l].at = "drain"
              \/ server'[l].at = "admit" /\ server'[l].hand = c /\ conn'[c].at = "accepted"
            <4>1. CASE server[l].flag
                BY <1>s, <2>2, <4>1
            <4>2. CASE ~server[l].flag
                <5>1. server'[l] = [server[l] EXCEPT !.at = "admit", !.hand = c]
                    BY <1>s, <2>2, <4>2
                <5>2. server'[l].at = "admit" /\ server'[l].hand = c
                    BY <1>s, <5>1
                <5>3. conn'[c].at = "accepted"
                    BY <1>t, <2>2, <4>2
                <5> QED
                    BY <5>2, <5>3
            <4> QED
                BY <4>1, <4>2
        <3>3. \A d \in Clients : Calm(d)
            BY <1>t, <2>2 DEF Calm, Untouched, Serving
        <3>4. server[l].at = "accept" /\ main' = main
            BY <1>1 DEF Accept
        <3>5. HandFollows'
            BY <1>o, <2>2, <3>2, <3>3 DEF StopInv, HandFollows, Calm, Serving
        <3>6. \A k \in Listeners : Counted(k)'
            BY <1>o, <3>1, <3>2, <3>4, SameThreads, <3>3 DEF StopInv, Counted
        <3>7. AfterReturn'
            BY <1>o, <3>3, <3>4, SameThreads DEF StopInv, AfterReturn, Listeners
        <3> QED
            BY <3>5, <3>6, <3>7 DEF StopInv
    <2> QED
        BY <1>1, <2>1, <2>2 DEF Accept
<1>2. CASE Admit(l)
    <2>1. server[l].at = "admit" /\ main' = main
        BY <1>2 DEF Admit
    <2>2. CASE server[l].active >= max_connections
        <3>1. server'[l].at = "accept" /\ server'[l].active = server[l].active
            BY <1>2, <1>s, <2>2 DEF Admit
        <3>2. \A c \in Clients : Calm(c) \/ (c = server[l].hand /\ conn[c].at = "accepted" /\ conn'[c].at = "gone")
            BY <1>2, <1>t, <1>h, <2>1, <2>2 DEF Admit, Calm, Untouched
        <3> QED
            BY <1>o, <1>d, <1>n, <2>1, <3>1, <3>2, LoopKeeps
    <2>3. CASE ~(server[l].active >= max_connections)
        <3>1. server'[l].at = "spawn" /\ server'[l].active = server[l].active + 1 /\ server'[l].hand = server[l].hand
            <4>1. server'[l] = [server[l] EXCEPT !.at = "spawn", !.active = server[l].active + 1]
                BY <1>2, <1>s, <2>3 DEF Admit
            <4> QED
                BY <1>s, <4>1
        <3>2. conn' = conn /\ server'[l].active <= max_connections
            BY <1>2, <1>n, <1>m, <2>3, <3>1 DEF Admit
        <3>3. \A c \in Clients : Calm(c)
            BY <3>2 DEF Calm
        <3> QED
            BY <1>o, <1>d, <1>h, <1>n, <2>1, <3>1, <3>2, <3>3, LoopKeeps
    <2> QED
        BY <2>2, <2>3
<1>3. CASE SpawnFails(l)
    <2>1. server[l].at = "spawn" /\ main' = main
        BY <1>3 DEF SpawnFails
    <2>2. server'[l].at = "accept" /\ server'[l].active = server[l].active - 1
        BY <1>3, <1>s DEF SpawnFails
    <2>3. \A c \in Clients : Calm(c) \/ (c = server[l].hand /\ conn[c].at = "accepted" /\ conn'[c].at = "gone")
        BY <1>3, <1>t, <1>h, <2>1 DEF SpawnFails, Calm, Untouched
    <2>4. server'[l].active <= max_connections
        BY <1>n, <1>m, <2>2
    <2> QED
        BY <1>o, <1>d, <1>n, <2>1, <2>2, <2>3, <2>4, LoopKeeps
<1>4. CASE DrainConnections(l)
    <2>1. server[l].at = "drain" /\ main' = main /\ conn' = conn
        BY <1>4 DEF DrainConnections
    <2>2. server'[l].at = "returned" /\ server'[l].active = server[l].active
        BY <1>4, <1>s DEF DrainConnections
    <2>3. \A c \in Clients : Calm(c)
        BY <2>1 DEF Calm
    <2>4. HandFollows'
        BY <1>o, <2>1, <2>2 DEF StopInv, HandFollows
    <2>5. \A k \in Listeners : Counted(k)'
        BY <1>o, <2>1, <2>2, <2>3, SameThreads DEF StopInv, Counted
    <2>6. AfterReturn'
        BY <1>o, <2>1, <2>2, <2>3, SameThreads DEF StopInv, AfterReturn, Listeners
    <2> QED
        BY <2>4, <2>5, <2>6 DEF StopInv
<1> QED
    BY <1>1, <1>2, <1>3, <1>4

LEMMA SpawnKeeps ==
  ASSUME StopInv, LifeTypeOK', NEW l \in Listeners, Spawn(l)
  PROVE  StopInv'
<1>t. conn \in [Clients -> [at : ConnPoints, sent : Nat, inbox : Nat, buffer : Nat, served : Nat, open : BOOLEAN]]
    BY DEF StopInv, LifeTypeOK
<1>s. server \in [Listeners -> [at : {"accept", "admit", "spawn", "drain", "returned"}, flag : BOOLEAN,
                               poke : BOOLEAN, hand : Clients \cup {Nobody}, active : Int]]
    BY DEF StopInv, LifeTypeOK
<1>0. PICK c \in Clients : c = server[l].hand /\ ListenerOf[c] = l /\ conn[c].at = "accepted"
    BY DEF Spawn, StopInv, HandFollows
<1>1. /\ server[l].at = "spawn" /\ server'[l].at = "accept" /\ server'[l].active = server[l].active
      /\ \A k \in Listeners \ {l} : server'[k] = server[k]
    BY <1>s DEF Spawn
<1>2. conn'[c].at = "top" /\ \A d \in Clients \ {c} : conn'[d] = conn[d]
    BY <1>t, <1>0 DEF Spawn
<1>3. main' = main
    BY DEF Spawn
<1>4. /\ ThreadsOf(l)' = ThreadsOf(l) \cup {c} /\ c \notin ThreadsOf(l)
      /\ \A k \in Listeners \ {l} : ThreadsOf(k)' = ThreadsOf(k)
    BY <1>0, <1>2 DEF ThreadsOf, Serving
<1>5. IsFiniteSet(ThreadsOf(l))
    BY FS_Subset, LifeAssumption DEF ThreadsOf
<1>6. Cardinality(ThreadsOf(l))' = Cardinality(ThreadsOf(l)) + 1
    BY <1>4, <1>5, FS_AddElement
<1>7. HandFollows'
    BY <1>0, <1>1, <1>2 DEF StopInv, HandFollows
<1>8. \A k \in Listeners : Counted(k)'
    <2>1. Cardinality(ThreadsOf(l)) \in Nat
        BY <1>5, FS_CardinalityType
    <2>2. Counted(l)'
        BY <1>1, <1>6, <2>1 DEF StopInv, Counted
    <2>3. \A k \in Listeners \ {l} : Counted(k)'
        BY <1>1, <1>4 DEF StopInv, Counted
    <2> QED
        BY <2>2, <2>3
<1>9. AfterReturn'
    <2>1. l = "inference" => main.at = "inference"
        BY <1>1 DEF StopInv, AfterReturn
    <2> QED
        BY <1>1, <1>3, <1>4, <2>1 DEF StopInv, AfterReturn, Listeners
<1> QED
    BY <1>7, <1>8, <1>9 DEF StopInv

LEMMA CountOutKeeps ==
  ASSUME StopInv, LifeTypeOK', NEW c \in Clients, CountOut(c)
  PROVE  StopInv'
<1>t. conn \in [Clients -> [at : ConnPoints, sent : Nat, inbox : Nat, buffer : Nat, served : Nat, open : BOOLEAN]]
    BY DEF StopInv, LifeTypeOK
<1>s. server \in [Listeners -> [at : {"accept", "admit", "spawn", "drain", "returned"}, flag : BOOLEAN,
                               poke : BOOLEAN, hand : Clients \cup {Nobody}, active : Int]]
    BY DEF StopInv, LifeTypeOK
<1>0. PICK l \in Listeners : l = ListenerOf[c]
    BY LifeAssumption
<1>1. /\ server'[l].at = server[l].at /\ server'[l].hand = server[l].hand
      /\ server'[l].active = server[l].active - 1
      /\ \A k \in Listeners \ {l} : server'[k] = server[k]
    BY <1>s, <1>0 DEF CountOut
<1>2. /\ conn[c].at = "closing" /\ conn'[c].at = "gone"
      /\ \A d \in Clients \ {c} : conn'[d] = conn[d]
    BY <1>t DEF CountOut, Untouched
<1>3. main' = main
    BY DEF CountOut
<1>4. /\ ThreadsOf(l)' = ThreadsOf(l) \ {c} /\ c \in ThreadsOf(l)
      /\ \A k \in Listeners \ {l} : ThreadsOf(k)' = ThreadsOf(k)
    BY <1>0, <1>2 DEF ThreadsOf, Serving
<1>5. IsFiniteSet(ThreadsOf(l))
    BY FS_Subset, LifeAssumption DEF ThreadsOf
<1>6. Cardinality(ThreadsOf(l))' = Cardinality(ThreadsOf(l)) - 1
    BY <1>4, <1>5, FS_RemoveElement
<1>7. HandFollows'
    BY <1>1, <1>2 DEF StopInv, HandFollows
<1>8. \A k \in Listeners : Counted(k)'
    <2>1. Cardinality(ThreadsOf(l)) \in Nat /\ server[l].active \in Int /\ max_connections \in Nat
        BY <1>5, <1>s, FS_CardinalityType, LifeAssumption
    <2>2. Counted(l)'
        BY <1>1, <1>6, <2>1 DEF StopInv, Counted
    <2>3. \A k \in Listeners \ {l} : Counted(k)'
        BY <1>1, <1>4 DEF StopInv, Counted
    <2> QED
        BY <2>2, <2>3
<1>9. AfterReturn'
    BY <1>1, <1>3, <1>4 DEF StopInv, AfterReturn, Listeners
<1> QED
    BY <1>7, <1>8, <1>9 DEF StopInv

\* serve reads the count off a listener that makes no more threads.
LEMMA MainKeeps ==
  ASSUME StopInv, LifeTypeOK', MainStep
  PROVE  StopInv'
<1>1. server' = server /\ conn' = conn
    BY DEF MainStep
<1>2. HandFollows' /\ \A l \in Listeners : Counted(l)'
    BY <1>1 DEF StopInv, HandFollows, Counted, ThreadsOf
<1>3. main \in [at : MainPoints, abandoned : Int, jobs_stopping : BOOLEAN]
    BY DEF StopInv, LifeTypeOK
<1>4. CASE main.at = "inference"
    <2>1. server["inference"].at = "returned" /\ main'.abandoned = server["inference"].active
        BY <1>3, <1>4 DEF MainStep
    <2>2. server["inference"].active = Cardinality(ThreadsOf("inference"))
        <3>1. Cardinality(ThreadsOf("inference")) \in Nat
            BY FS_Subset, FS_CardinalityType, LifeAssumption DEF ThreadsOf
        <3> QED
            BY <2>1, <3>1 DEF StopInv, Counted, Listeners
    <2>3. Cardinality(ThreadsOf("inference")) = 0 => ThreadsOf("inference") = {}
        BY FS_Subset, FS_EmptySet, LifeAssumption DEF ThreadsOf
    <2> QED
        BY <1>1, <1>2, <2>1, <2>2, <2>3 DEF StopInv, AfterReturn, ThreadsOf
<1>5. CASE main.at # "inference"
    <2>1. main'.abandoned = main.abandoned
        BY <1>3, <1>5 DEF MainStep, JoinListener, JoinAide
    <2> QED
        BY <1>1, <1>2, <1>5, <2>1 DEF StopInv, AfterReturn, ThreadsOf
<1> QED
    BY <1>4, <1>5

\* For any number of clients on any of the listeners, any bound and any order
\* of accepts, refused threads, closings and signals: the count is the
\* threads, within the bound, and what serve reports as abandoned is honest.
THEOREM StopHonest == LifeSpec => []HonestStop
<1>1. LifeInit => StopInv
    <2> SUFFICES ASSUME LifeInit PROVE StopInv
        OBVIOUS
    <2>1. LifeTypeOK
        BY LifeAssumption DEF LifeInit, LifeTypeOK, Untouched, ConnPoints, MainPoints
    <2>2. \A l \in Listeners : ThreadsOf(l) = {}
        BY DEF LifeInit, ThreadsOf, Untouched, Serving
    <2>3. \A l \in Listeners : Counted(l)
        <3>1. \A l \in Listeners : Cardinality(ThreadsOf(l)) = 0
            BY <2>2, FS_EmptySet
        <3> QED
            BY <3>1, LifeAssumption DEF LifeInit, Counted
    <2> QED
        BY <2>1, <2>3 DEF LifeInit, StopInv, HandFollows, AfterReturn
<1>2. StopInv /\ [LifeNext]_lifeVars => StopInv'
    <2> SUFFICES ASSUME StopInv, [LifeNext]_lifeVars PROVE StopInv'
        OBVIOUS
    <2>1. CASE UNCHANGED lifeVars
        BY <2>1 DEF lifeVars, StopInv, LifeTypeOK, HandFollows, Counted, AfterReturn, ThreadsOf
    <2>2. CASE LifeNext
        <3>1. LifeTypeOK'
            BY <2>2, LifeTypeStep DEF StopInv
        <3> QED
            BY <2>2, <3>1, CalmActions, CalmKeeps, LoopActions, SpawnKeeps, CountOutKeeps, MainKeeps
            DEF LifeNext, AcceptLoop, Thread
    <2> QED
        BY <2>1, <2>2
<1>3. StopInv => HonestStop
    BY DEF StopInv, Counted, AfterReturn, HonestStop
<1> QED
    BY <1>1, <1>2, <1>3, PTL DEF LifeSpec

-----------------------------------------------------------------------------
(* Pool.  The inductive invariant PoolInv says of every call what is on the *)
(* connection in its hand, of every connection at rest that it is usable    *)
(* and empty, and of a call that may not run twice which peer started on    *)
(* it.  An exchange's step keeps its connection, closes it or lays it to    *)
(* rest; the rest of the invariant follows from which of the three it is.   *)

SockFields == {"key", "life", "reusable", "eof", "response_open", "pending", "heard", "pooled", "delimited",
               "old", "script", "answering", "wire", "peer_open"}
CallFields == {"at", "on", "retried", "stream", "read", "runs"}

InUse == {"send", "head", "body", "drain"}
PiecesOf(c) == [kind : PieceKinds, of : {c}]
Finals == {"end", "end+"}

\* Connection x in the hand of c: what it carries is c's answer, and the end of
\* the framing is the last of it.
Carries(c, x) ==
  /\ x.life = "open" /\ x.key = PoolKey[c]
  /\ x.wire \in Seq(PiecesOf(c)) /\ x.script \in Seq(PiecesOf(c))
  /\ \A i \in DOMAIN x.wire : x.wire[i].kind \in Finals => i = Len(x.wire) /\ x.script = <<>>
  /\ \A i \in DOMAIN x.script : x.script[i].kind \in Finals => i = Len(x.script)

HandOf(c) ==
  /\ call[c].at \in InUse => call[c].on \in Sockets /\ Carries(c, sock[call[c].on])
  /\ call[c].at \notin InUse => call[c].on = NoSock
  /\ call[c].at = "send" => sock[call[c].on].wire = <<>> /\ sock[call[c].on].script = <<>>
  /\ call[c].at \in InUse \ {"send"} => sock[call[c].on].response_open
  /\ \A d \in Calls \ {c} : call[d].on = call[c].on => call[c].on = NoSock
  /\ call[c].read \subseteq {c}

Clean(k, x) ==
  x.life = "open" /\ x.key = k /\ is_reusable(x) /\ x.wire = <<>> /\ x.script = <<>>

RestOf(k) ==
  /\ idle[k] \in Seq(Sockets)
  /\ \A i \in DOMAIN idle[k] : Clean(k, sock[idle[k][i]]) /\ \A c \in Calls : call[c].on # idle[k][i]
  /\ \A i, j \in DOMAIN idle[k] : idle[k][i] = idle[k][j] => i = j

SockOf(s) ==
  /\ DOMAIN sock[s] = SockFields
  /\ sock[s].script # <<>> => \E c \in Calls : call[c].on = s

\* A call that may not run twice: the peer that starts on it is the one it is
\* now exchanging with, and nobody before it has.
RunOf(c) ==
  /\ call[c].runs \in {0, 1}
  /\ call[c].at \in {"acquire", "send"} => call[c].runs = 0
  /\ \A s \in Sockets : sock[s].answering = c =>
       call[c].at \in {"done", "failed"} \/ (call[c].at \in {"head", "body", "drain"} /\ call[c].on = s)
  /\ call[c].at \in {"head", "body", "drain"} =>
       call[c].runs = IF sock[call[c].on].answering = c THEN 1 ELSE 0
  /\ call[c].at = "head" /\ sock[call[c].on].answering = c =>
       sock[call[c].on].heard \/ sock[call[c].on].wire # <<>>

PoolShape ==
  /\ DOMAIN sock = Sockets /\ DOMAIN idle = Keys /\ DOMAIN call = Calls
  /\ \A c \in Calls : DOMAIN call[c] = CallFields

PoolInv ==
  /\ PoolShape
  /\ \A s \in Sockets : SockOf(s)
  /\ \A c \in Calls : HandOf(c)
  /\ \A k \in Keys : RestOf(k)
  /\ \A c \in Calls \ Idempotent : RunOf(c)
  /\ Total <= max_idle_total

\* What a step of an exchange does with the connection in its hand: keep it,
\* close it, or lay it to rest, usable and empty.
Turned(c, y) ==
  /\ call' = [call EXCEPT ![c] = y]
  /\ DOMAIN y = CallFields /\ y.read \subseteq {c} /\ y.runs = call[c].runs

KeepsIt(c) ==
  \E x, y :
    /\ Turned(c, y) /\ y.on = call[c].on /\ y.at \in {"head", "body", "drain"}
    /\ sock' = [sock EXCEPT ![call[c].on] = x] /\ idle' = idle
    /\ DOMAIN x = SockFields /\ Carries(c, x) /\ x.response_open
    /\ x.answering = sock[call[c].on].answering
    /\ c \notin Idempotent /\ y.at = "head" /\ x.answering = c => x.heard \/ x.wire # <<>>

ClosesIt(c) ==
  \E y :
    /\ Turned(c, y) /\ y.on = NoSock /\ y.at \in {"done", "failed", "acquire"}
    /\ y.at = "acquire" /\ c \notin Idempotent => y.runs = 0
    /\ sock' = [sock EXCEPT ![call[c].on] = Closed(sock[call[c].on])] /\ idle' = idle

RestsIt(c) ==
  \E x, y :
    /\ Turned(c, y) /\ y.on = NoSock /\ y.at \in {"done", "failed"}
    /\ DOMAIN x = SockFields /\ Clean(PoolKey[c], x) /\ x.answering = sock[call[c].on].answering
    /\ Total < max_idle_total
    /\ sock' = [sock EXCEPT ![call[c].on] = x]
    /\ idle' = [idle EXCEPT ![PoolKey[c]] = Append(@, call[c].on)]

\* A piece taken off the wire is the call's own; after the last there is nothing.
Taken(x) == [x EXCEPT !.wire = Tail(@)]
LEMMA TakePiece ==
  ASSUME NEW c, NEW x, DOMAIN x = SockFields, Carries(c, x), x.wire # <<>>
  PROVE  /\ Head(x.wire).of = c /\ Carries(c, Taken(x)) /\ DOMAIN Taken(x) = SockFields
         /\ \A f \in SockFields \ {"wire"} : Taken(x)[f] = x[f]
         /\ Head(x.wire).kind \in Finals => Taken(x).wire = <<>> /\ Taken(x).script = <<>>
<1>0. PICK y : y = Taken(x)
  OBVIOUS
<1>1. x.wire \in Seq(PiecesOf(c)) /\ Len(x.wire) > 0 /\ Len(x.wire) \in Nat
  BY DEF Carries
<1>2. y.wire = Tail(x.wire) /\ DOMAIN y = SockFields /\ \A f \in SockFields \ {"wire"} : y[f] = x[f]
  BY <1>0 DEF SockFields, Taken
<1>3. /\ Tail(x.wire) \in Seq(PiecesOf(c)) /\ Len(Tail(x.wire)) = Len(x.wire) - 1
      /\ \A i \in 1 .. Len(x.wire) - 1 : Tail(x.wire)[i] = x.wire[i + 1]
      /\ Head(x.wire) = x.wire[1] /\ 1 \in DOMAIN x.wire /\ x.wire[1] \in PiecesOf(c)
  BY <1>1
<1>4. Head(x.wire).of = c
  BY <1>3 DEF PiecesOf
<1>5. /\ y.life = x.life /\ y.key = x.key /\ y.script = x.script
  BY <1>2 DEF SockFields
<1>6. \A i \in DOMAIN y.wire : y.wire[i].kind \in Finals => i = Len(y.wire) /\ y.script = <<>>
  <2> SUFFICES ASSUME NEW i \in DOMAIN y.wire, y.wire[i].kind \in Finals
               PROVE  i = Len(y.wire) /\ y.script = <<>>
    OBVIOUS
  <2>1. i \in 1 .. Len(x.wire) - 1
    BY <1>1, <1>2, <1>3
  <2>2. i + 1 \in DOMAIN x.wire /\ x.wire[i + 1].kind \in Finals
    BY <1>1, <1>2, <1>3, <2>1
  <2> QED
    BY <1>1, <1>2, <1>3, <1>5, <2>1, <2>2 DEF Carries
<1>7. Carries(c, y)
  BY <1>2, <1>3, <1>5, <1>6 DEF Carries
<1>8. Head(x.wire).kind \in Finals => y.wire = <<>> /\ y.script = <<>>
  <2> SUFFICES ASSUME Head(x.wire).kind \in Finals PROVE y.wire = <<>> /\ y.script = <<>>
    OBVIOUS
  <2>1. 1 = Len(x.wire) /\ x.script = <<>>
    BY <1>3 DEF Carries
  <2>2. Tail(x.wire) \in Seq(PiecesOf(c)) /\ Len(Tail(x.wire)) = 0
    BY <1>1, <1>3, <2>1
  <2>3. PICK q \in Seq(PiecesOf(c)) : q = Tail(x.wire) /\ Len(q) = 0
    BY <2>2
  <2>4. q = <<>>
    BY <2>3
  <2> QED
    BY <1>2, <1>5, <2>1, <2>3, <2>4
<1> QED
  BY <1>0, <1>2, <1>4, <1>7, <1>8

\* Giving back what is reusable only when nothing is left on it.
LEMMA PutBack ==
  ASSUME PoolInv, NEW c \in Calls, call[c].at \in InUse, NEW x, NEW y,
         DOMAIN x = SockFields, x.life = "open", x.key = PoolKey[c],
         x.answering = sock[call[c].on].answering,
         is_reusable(x) => x.wire = <<>> /\ x.script = <<>> /\ y.at # "acquire",
         put(call[c].on, x), Turned(c, y), y.on = NoSock, y.at \in {"done", "failed", "acquire"},
         y.at = "acquire" /\ c \notin Idempotent => y.runs = 0
  PROVE  ClosesIt(c) \/ RestsIt(c)
<1>1. sock[call[c].on].key = PoolKey[c]
  BY DEF PoolInv, HandOf, Carries
<1>2. CASE Fits(x)
  <2>1. PICK z : z = [x EXCEPT !.old = FALSE]
    OBVIOUS
  <2>2. DOMAIN z = SockFields /\ \A f \in SockFields \ {"old"} : z[f] = x[f]
    BY <2>1 DEF SockFields
  <2>3. is_reusable(x) /\ Total < max_idle_total
    BY <1>2 DEF Fits
  <2>4. Clean(PoolKey[c], z) /\ z.answering = x.answering
    BY <2>2, <2>3 DEF Clean, is_reusable, SockFields
  <2>5. sock' = [sock EXCEPT ![call[c].on] = z] /\ idle' = [idle EXCEPT ![PoolKey[c]] = Append(@, call[c].on)]
    BY <1>2, <2>1 DEF put
  <2> QED
    BY <2>2, <2>3, <2>4, <2>5 DEF RestsIt
<1>3. CASE ~Fits(x)
  <2>1. Closed(x) = Closed(sock[call[c].on])
    BY <1>1 DEF Closed
  <2>2. sock' = [sock EXCEPT ![call[c].on] = Closed(sock[call[c].on])] /\ idle' = idle
    BY <1>3, <2>1 DEF put
  <2> QED
    BY <2>2 DEF ClosesIt
<1> QED
  BY <1>2, <1>3


\* What a call with a connection in its hand knows of it.
LEMMA HandFacts ==
  ASSUME PoolInv, NEW c \in Calls, call[c].at \in InUse
  PROVE  /\ call[c].on \in Sockets /\ call[c].on \in DOMAIN sock /\ DOMAIN call = Calls
         /\ DOMAIN call[c] = {"at", "on", "retried", "stream", "read", "runs"}
         /\ DOMAIN sock[call[c].on] = SockFields /\ Carries(c, sock[call[c].on])
         /\ sock[call[c].on].life = "open" /\ sock[call[c].on].key = PoolKey[c]
         /\ call[c].read \subseteq {c}
         /\ call[c].at # "send" => sock[call[c].on].response_open
  BY DEF PoolInv, PoolShape, SockOf, HandOf, Carries, InUse, CallFields

\* A pass without a head ends, or is made again if it cannot have run.
LEMMA NoHeadStep ==
  ASSUME PoolInv, NEW c \in Calls, call[c].at \in InUse, NEW x, NEW before, NEW truncated,
         DOMAIN x = SockFields, x.life = "open", x.key = PoolKey[c],
         x.answering = sock[call[c].on].answering,
         NoHead(c, x, before, truncated),
         c \notin Idempotent /\ replayable(c, x, before, truncated) => call[c].runs = 0
  PROVE  ClosesIt(c) \/ RestsIt(c)
<1>1. PICK z : z = [x EXCEPT !.reusable = FALSE]
  OBVIOUS
<1>2. /\ DOMAIN z = SockFields /\ z.life = "open" /\ z.key = PoolKey[c]
      /\ z.answering = sock[call[c].on].answering /\ ~is_reusable(z)
  BY <1>1 DEF SockFields, is_reusable
<1>3. put(call[c].on, z)
  BY <1>1 DEF NoHead
<1>4. PICK y : y = IF replayable(c, x, before, truncated)
                   THEN [Ended(c, "acquire") EXCEPT !.retried = TRUE] ELSE Ended(c, "failed")
  OBVIOUS
<1>5. call' = [call EXCEPT ![c] = y]
  BY <1>4 DEF NoHead, Ends
<1>6. /\ DOMAIN y = CallFields /\ y.on = NoSock /\ y.read \subseteq {c} /\ y.runs = call[c].runs
      /\ y.at = IF replayable(c, x, before, truncated) THEN "acquire" ELSE "failed"
  BY <1>4, HandFacts DEF Ended, CallFields
<1>7. Turned(c, y) /\ y.at \in {"done", "failed", "acquire"}
      /\ (y.at = "acquire" /\ c \notin Idempotent => y.runs = 0)
  BY <1>5, <1>6 DEF Turned
<1> QED
  BY <1>2, <1>3, <1>6, <1>7, PutBack

\* Given back after its head.
LEMMA LeaveStep ==
  ASSUME PoolInv, NEW c \in Calls, call[c].at \in InUse, NEW x, NEW how \in {"done", "failed"},
         DOMAIN x = SockFields, x.life = "open", x.key = PoolKey[c],
         x.answering = sock[call[c].on].answering,
         is_reusable(x) => x.wire = <<>> /\ x.script = <<>>,
         sock[call[c].on].wire # <<>> \/ x.wire = sock[call[c].on].wire,
         Leave(c, call[c].on, x, how)
  PROVE  ClosesIt(c) \/ RestsIt(c)
<1>1. PICK w : w = IF x.wire # sock[call[c].on].wire THEN HavingRead(c) ELSE call[c]
  OBVIOUS
<1>2. DOMAIN w = CallFields /\ w.read \subseteq {c} /\ w.runs = call[c].runs
  <2>1. CASE x.wire = sock[call[c].on].wire
    BY <1>1, <2>1, HandFacts DEF CallFields
  <2>2. CASE x.wire # sock[call[c].on].wire
    <3>1. Head(sock[call[c].on].wire).of = c
      BY <2>2, TakePiece, HandFacts
    <3>2. w = [call[c] EXCEPT !.read = call[c].read \cup {c}]
      BY <1>1, <2>2, <3>1 DEF HavingRead, Piece
    <3> QED
      BY <3>2, HandFacts DEF CallFields
  <2> QED
    BY <2>1, <2>2
<1>3. PICK y : y = [w EXCEPT !.at = how, !.on = NoSock]
  OBVIOUS
<1>4. /\ DOMAIN y = CallFields /\ y.on = NoSock /\ y.at = how /\ y.read \subseteq {c}
      /\ y.runs = call[c].runs
  BY <1>2, <1>3 DEF CallFields
<1>5. Turned(c, y) /\ put(call[c].on, x)
  BY <1>1, <1>3, <1>4 DEF Leave, Turned
<1> QED
  BY <1>4, <1>5, PutBack

\* A body that is not streamed drops its connection when it goes wrong.
LEMMA DropStep ==
  ASSUME PoolInv, NEW c \in Calls, call[c].at \in InUse, Drop(c, call[c].on)
  PROVE  ClosesIt(c)
<1>1. PICK y : y = Ended(c, "failed")
  OBVIOUS
<1>2. DOMAIN y = CallFields /\ y.on = NoSock /\ y.at = "failed" /\ y.read \subseteq {c} /\ y.runs = call[c].runs
  BY <1>1, HandFacts DEF Ended, CallFields
<1>3. Turned(c, y)
  BY <1>1, <1>2 DEF Turned, Drop, Ends
<1>4. sock' = [sock EXCEPT ![call[c].on] = Closed(sock[call[c].on])] /\ idle' = idle
  BY DEF Drop
<1> QED
  BY <1>2, <1>3, <1>4 DEF ClosesIt

\* Sending keeps the connection, on which only this answer can now come; or fails.
LEMMA SendStep ==
  ASSUME PoolInv, NEW c \in Calls, Send(c)
  PROVE  KeepsIt(c) \/ ClosesIt(c) \/ RestsIt(c)
<1>0. call[c].at = "send" /\ call[c].at \in InUse
  BY DEF Send, InUse
<1> DEFINE s == call[c].on
<1>1. PICK x : x = [sock[s] EXCEPT !.response_open = TRUE, !.heard = FALSE]
  OBVIOUS
<1>2. DOMAIN x = SockFields /\ x.response_open /\ \A f \in SockFields \ {"response_open", "heard"} : x[f] = sock[s][f]
  BY <1>0, <1>1, HandFacts DEF SockFields
<1>3. x.wire = <<>> /\ x.script = <<>> /\ x.life = "open" /\ x.key = PoolKey[c] /\ x.answering = sock[s].answering
  BY <1>0, <1>2, HandFacts DEF SockFields, PoolInv, HandOf
<1>4. c \notin Idempotent => x.answering # c /\ call[c].runs = 0
  BY <1>0, <1>3, HandFacts DEF PoolInv, RunOf
<1>5. PICK y : y = [call[c] EXCEPT !.at = "head"]
  OBVIOUS
<1>6. DOMAIN y = CallFields /\ y.at = "head" /\ y.on = s /\ y.read \subseteq {c} /\ y.runs = call[c].runs
  BY <1>0, <1>5, HandFacts DEF CallFields
<1>7. ASSUME NEW script \in Scripts,
             sock' = [sock EXCEPT ![s] = [x EXCEPT !.script = @ \o [i \in DOMAIN script |->
                                                                      [kind |-> script[i], of |-> c]]]],
             call' = [call EXCEPT ![c].at = "head"], idle' = idle
      PROVE  KeepsIt(c)
  <2>1. PICK f : f = [i \in DOMAIN script |-> [kind |-> script[i], of |-> c]]
    OBVIOUS
  <2>2. /\ script \in Seq(PieceKinds)
        /\ \A i \in DOMAIN script : script[i] \in {"end", "end+"} => i = Len(script)
    BY <1>7, PoolAssumption
  <2>3. f \in Seq(PiecesOf(c)) /\ Len(f) = Len(script) /\ DOMAIN f = DOMAIN script
    <3>1. PICK n \in Nat : n = Len(script) /\ DOMAIN script = 1 .. n
      BY <2>2
    <3>2. \A i \in 1 .. n : script[i] \in PieceKinds
      BY <2>2, <3>1
    <3>3. f \in [1 .. n -> PiecesOf(c)] /\ DOMAIN f = 1 .. n
      BY <2>1, <3>1, <3>2 DEF PiecesOf
    <3> QED
      BY <3>1, <3>3
  <2>4. <<>> \o f = f
    BY <2>3
  <2>5. \A i \in DOMAIN f : f[i].kind \in Finals => i = Len(f)
    BY <2>1, <2>2, <2>3 DEF Finals
  <2>6. PICK z : z = [x EXCEPT !.script = f]
    OBVIOUS
  <2>7. DOMAIN z = SockFields /\ z.script = f /\ \A g \in SockFields \ {"script"} : z[g] = x[g]
    BY <1>2, <2>6 DEF SockFields
  <2>8. sock' = [sock EXCEPT ![s] = z]
    BY <1>3, <1>7, <2>1, <2>4, <2>6
  <2>9. z.life = "open" /\ z.key = PoolKey[c] /\ z.wire = <<>> /\ z.response_open /\ z.answering = x.answering
    BY <1>2, <1>3, <2>7 DEF SockFields
  <2>10. Carries(c, z)
    BY <2>3, <2>5, <2>7, <2>9 DEF Carries
  <2>11. Turned(c, y)
    BY <1>5, <1>6, <1>7 DEF Turned
  <2>12. c \notin Idempotent => z.answering # c
    BY <1>4, <2>9
  <2> QED
    BY <1>3, <1>6, <1>7, <2>7, <2>8, <2>9, <2>10, <2>11, <2>12 DEF KeepsIt
<1>8. ASSUME sock' = [sock EXCEPT ![s] = x], call' = [call EXCEPT ![c].at = "head"], idle' = idle
      PROVE  KeepsIt(c)
  <2>1. Carries(c, x)
    BY <1>3 DEF Carries
  <2>2. Turned(c, y)
    BY <1>5, <1>6, <1>8 DEF Turned
  <2> QED
    BY <1>2, <1>3, <1>4, <1>6, <1>8, <2>1, <2>2 DEF KeepsIt
<1>9. ASSUME NoHead(c, x, TRUE, FALSE) PROVE ClosesIt(c) \/ RestsIt(c)
  BY <1>0, <1>2, <1>3, <1>4, <1>9, NoHeadStep
<1> HIDE DEF s
<1> QED
  BY <1>1, <1>7, <1>8, <1>9 DEF Send, s


\* The next piece, in the hand of the call it is for.
LEMMA Taking ==
  ASSUME PoolInv, NEW c \in Calls, call[c].at \in InUse, sock[call[c].on].wire # <<>>
  PROVE  /\ DOMAIN HavingRead(c) = CallFields /\ HavingRead(c).read \subseteq {c}
         /\ \A f \in CallFields \ {"read"} : HavingRead(c)[f] = call[c][f]
         /\ Carries(c, Rest(c)) /\ DOMAIN Rest(c) = SockFields
         /\ \A f \in SockFields \ {"wire"} : Rest(c)[f] = sock[call[c].on][f]
         /\ Rest(c).life = "open" /\ Rest(c).key = PoolKey[c]
         /\ Rest(c).answering = sock[call[c].on].answering
         /\ Piece(c).kind \in Finals => Rest(c).wire = <<>> /\ Rest(c).script = <<>>
<1>1. Rest(c) = Taken(sock[call[c].on]) /\ Piece(c) = Head(sock[call[c].on].wire)
  BY DEF Rest, Piece, Taken
<1>3. /\ DOMAIN sock[call[c].on] = SockFields /\ Carries(c, sock[call[c].on])
      /\ sock[call[c].on].life = "open" /\ sock[call[c].on].key = PoolKey[c]
  BY HandFacts
<1>4. /\ Piece(c).of = c /\ Carries(c, Rest(c)) /\ DOMAIN Rest(c) = SockFields
      /\ \A f \in SockFields \ {"wire"} : Rest(c)[f] = sock[call[c].on][f]
      /\ Piece(c).kind \in Finals => Rest(c).wire = <<>> /\ Rest(c).script = <<>>
  BY <1>1, <1>3, TakePiece
<1>5. HavingRead(c) = [call[c] EXCEPT !.read = call[c].read \cup {c}]
  BY <1>4 DEF HavingRead
<1>6. /\ DOMAIN HavingRead(c) = CallFields /\ HavingRead(c).read \subseteq {c}
      /\ \A f \in CallFields \ {"read"} : HavingRead(c)[f] = call[c][f]
  BY <1>5, HandFacts DEF CallFields
<1>7. Rest(c).life = "open" /\ Rest(c).key = PoolKey[c] /\ Rest(c).answering = sock[call[c].on].answering
  BY <1>3, <1>4 DEF SockFields
<1> QED
  BY <1>4, <1>6, <1>7

\* The call keeps the connection, having read from it.
LEMMA KeepStep ==
  ASSUME PoolInv, NEW c \in Calls, call[c].at \in InUse \ {"send"}, sock[call[c].on].wire # <<>>,
         NEW x, DOMAIN x = SockFields, x.response_open,
         \A f \in {"life", "key", "wire", "script", "answering"} : x[f] = Rest(c)[f],
         NEW y, DOMAIN y = CallFields, y.at \in {"head", "body", "drain"}, y.at = "head" => x.heard,
         \A f \in {"on", "runs", "read"} : y[f] = HavingRead(c)[f],
         sock' = [sock EXCEPT ![call[c].on] = x], call' = [call EXCEPT ![c] = y], idle' = idle
  PROVE  KeepsIt(c)
<1>0. call[c].at \in InUse
  OBVIOUS
<1>1. y.on = call[c].on /\ y.runs = call[c].runs /\ y.read \subseteq {c}
  BY <1>0, Taking DEF CallFields
<1>2. Carries(c, Rest(c)) /\ Rest(c).answering = sock[call[c].on].answering
  BY <1>0, Taking
<1>3. x.life = Rest(c).life /\ x.key = Rest(c).key /\ x.wire = Rest(c).wire /\ x.script = Rest(c).script
      /\ x.answering = sock[call[c].on].answering
  BY <1>2
<1>4. Carries(c, x)
  BY <1>2, <1>3 DEF Carries
<1>5. Turned(c, y)
  BY <1>1 DEF Turned
<1> QED
  BY <1>1, <1>3, <1>4, <1>5 DEF KeepsIt

\* Reading the head: the connection stays in the hand, or the pass is over.
LEMMA ReadHeadStep ==
  ASSUME PoolInv, NEW c \in Calls, ReadHead(c)
  PROVE  KeepsIt(c) \/ ClosesIt(c) \/ RestsIt(c)
<1>0. call[c].at = "head" /\ call[c].at \in InUse /\ call[c].at \in InUse \ {"send"}
  BY DEF ReadHead, InUse
<1> DEFINE s == call[c].on
<1>1. /\ DOMAIN sock[s] = SockFields /\ sock[s].life = "open" /\ sock[s].key = PoolKey[c]
      /\ sock[s].response_open /\ DOMAIN call[c] = CallFields /\ call[c].read \subseteq {c}
  BY <1>0, HandFacts DEF CallFields
<1>2. ASSUME sock[s].wire # <<>>, sock' = [sock EXCEPT ![s] = [Rest(c) EXCEPT !.heard = TRUE]],
             call' = Reads(c), idle' = idle
      PROVE  KeepsIt(c)
  <2>1. PICK x : x = [Rest(c) EXCEPT !.heard = TRUE]
    OBVIOUS
  <2>2. PICK y : y = HavingRead(c)
    OBVIOUS
  <2>3. /\ DOMAIN x = SockFields /\ x.response_open /\ x.heard
        /\ \A f \in {"life", "key", "wire", "script", "answering"} : x[f] = Rest(c)[f]
    BY <1>0, <1>1, <1>2, <2>1, Taking DEF SockFields
  <2>4. DOMAIN y = CallFields /\ y.at = "head"
    BY <1>0, <1>2, <2>2, Taking DEF CallFields
  <2>5. sock' = [sock EXCEPT ![s] = x] /\ call' = [call EXCEPT ![c] = y]
    BY <1>2, <2>1, <2>2 DEF Reads
  <2> QED
    BY <1>0, <1>2, <2>2, <2>3, <2>4, <2>5, KeepStep
<1>3. ASSUME sock[s].wire # <<>>, NEW stream \in BOOLEAN, idle' = idle,
             sock' = [sock EXCEPT ![s] = [Rest(c) EXCEPT !.heard = TRUE,
                        !.reusable = @ /\ Piece(c).kind # "head_close",
                        !.delimited = Piece(c).kind = "head_delim"]],
             call' = [call EXCEPT ![c] = [HavingRead(c) EXCEPT !.at = "body", !.stream = stream]]
      PROVE  KeepsIt(c)
  <2>1. PICK x : x = [Rest(c) EXCEPT !.heard = TRUE,
                        !.reusable = @ /\ Piece(c).kind # "head_close",
                        !.delimited = Piece(c).kind = "head_delim"]
    OBVIOUS
  <2>2. PICK y : y = [HavingRead(c) EXCEPT !.at = "body", !.stream = stream]
    OBVIOUS
  <2>3. /\ DOMAIN x = SockFields /\ x.response_open
        /\ \A f \in {"life", "key", "wire", "script", "answering"} : x[f] = Rest(c)[f]
    BY <1>0, <1>1, <1>3, <2>1, Taking DEF SockFields
  <2>4. DOMAIN y = CallFields /\ y.at = "body" /\ \A f \in {"on", "runs", "read"} : y[f] = HavingRead(c)[f]
    BY <1>0, <1>3, <2>2, Taking DEF CallFields
  <2>5. sock' = [sock EXCEPT ![s] = x] /\ call' = [call EXCEPT ![c] = y]
    BY <1>3, <2>1, <2>2
  <2> QED
    BY <1>0, <1>3, <2>3, <2>4, <2>5, KeepStep
<1>4. ASSUME sock[s].wire # <<>>, put(s, [Rest(c) EXCEPT !.reusable = FALSE]),
             call' = [call EXCEPT ![c] = [HavingRead(c) EXCEPT !.at = "failed", !.on = NoSock]]
      PROVE  ClosesIt(c) \/ RestsIt(c)
  <2>1. PICK x : x = [Rest(c) EXCEPT !.reusable = FALSE]
    OBVIOUS
  <2>2. PICK y : y = [HavingRead(c) EXCEPT !.at = "failed", !.on = NoSock]
    OBVIOUS
  <2>3. /\ DOMAIN x = SockFields /\ ~is_reusable(x) /\ x.life = "open" /\ x.key = PoolKey[c]
        /\ x.answering = sock[s].answering
    BY <1>0, <1>4, <2>1, Taking DEF SockFields, is_reusable
  <2>4. /\ DOMAIN y = CallFields /\ y.at = "failed" /\ y.on = NoSock /\ y.read \subseteq {c}
        /\ y.runs = call[c].runs
    BY <1>0, <1>4, <2>2, Taking DEF CallFields
  <2>5. put(call[c].on, x) /\ Turned(c, y)
    BY <1>4, <2>1, <2>2, <2>4 DEF Turned
  <2> QED
    BY <1>0, <2>3, <2>4, <2>5, PutBack
<1>5. ASSUME Eof(c), NoHead(c, [sock[s] EXCEPT !.eof = TRUE], FALSE, TRUE)
      PROVE  ClosesIt(c) \/ RestsIt(c)
  <2>1. PICK x : x = [sock[s] EXCEPT !.eof = TRUE]
    OBVIOUS
  <2>2. DOMAIN x = SockFields /\ \A f \in SockFields \ {"eof"} : x[f] = sock[s][f]
    BY <1>1, <2>1 DEF SockFields
  <2>3. /\ x.life = "open" /\ x.key = PoolKey[c] /\ x.answering = sock[s].answering
        /\ x.heard = sock[s].heard /\ sock[s].wire = <<>>
    BY <1>1, <1>5, <2>2 DEF SockFields, Eof
  <2>4. c \notin Idempotent /\ replayable(c, x, FALSE, TRUE) => call[c].runs = 0
    BY <1>0, <2>3, HandFacts DEF replayable, PoolInv, RunOf
  <2>5. NoHead(c, x, FALSE, TRUE)
    BY <1>5, <2>1
  <2> QED
    BY <1>0, <2>2, <2>3, <2>4, <2>5, NoHeadStep
<1>6. ASSUME NoHead(c, sock[s], FALSE, FALSE) PROVE ClosesIt(c) \/ RestsIt(c)
  <2>1. c \notin Idempotent /\ replayable(c, sock[s], FALSE, FALSE) => call[c].runs = 0
    BY DEF replayable
  <2> QED
    BY <1>0, <1>1, <1>6, <2>1, NoHeadStep
<1> HIDE DEF s
<1> QED
  BY <1>2, <1>3, <1>4, <1>5, <1>6 DEF ReadHead, s

\* Reading the body: only the end of the framing makes the connection reusable.
LEMMA ReadBodyStep ==
  ASSUME PoolInv, NEW c \in Calls, ReadBody(c)
  PROVE  KeepsIt(c) \/ ClosesIt(c) \/ RestsIt(c)
<1>0. call[c].at = "body" /\ call[c].at \in InUse /\ call[c].at \in InUse \ {"send"}
  BY DEF ReadBody, InUse
<1> DEFINE s == call[c].on
           Next_(kinds) == sock[s].wire # <<>> /\ Piece(c).kind \in kinds
           complete == [Rest(c) EXCEPT !.response_open = FALSE]
           Gone == ClosesIt(c) \/ RestsIt(c)
<1>1. /\ DOMAIN sock[s] = SockFields /\ sock[s].life = "open" /\ sock[s].key = PoolKey[c]
      /\ sock[s].response_open /\ DOMAIN call[c] = CallFields
  BY <1>0, HandFacts DEF CallFields
<1>3. ASSUME sock[s].wire # <<>>
      PROVE  /\ DOMAIN HavingRead(c) = CallFields /\ HavingRead(c).at = "body"
             /\ DOMAIN Rest(c) = SockFields /\ Rest(c).life = "open" /\ Rest(c).key = PoolKey[c]
             /\ Rest(c).answering = sock[s].answering /\ Rest(c).response_open
             /\ Piece(c).kind \in Finals => Rest(c).wire = <<>> /\ Rest(c).script = <<>>
  BY <1>0, <1>1, <1>3, Taking DEF CallFields, SockFields
<1>4. ASSUME sock[s].wire # <<>>, sock' = [sock EXCEPT ![s] = Rest(c)], call' = Reads(c), idle' = idle
      PROVE  KeepsIt(c)
  <2>1. PICK y : y = HavingRead(c)
    OBVIOUS
  <2>2. call' = [call EXCEPT ![c] = y]
    BY <1>4, <2>1 DEF Reads
  <2>3. y.at = "body" /\ DOMAIN y = CallFields /\ \A f \in {"on", "runs", "read"} : y[f] = HavingRead(c)[f]
    BY <1>3, <1>4, <2>1
  <2> QED
    BY <1>0, <1>3, <1>4, <2>2, <2>3, KeepStep
<1>5. ASSUME sock[s].wire # <<>>, sock' = [sock EXCEPT ![s] = Rest(c)], idle' = idle,
             call' = [call EXCEPT ![c] = [HavingRead(c) EXCEPT !.at = "drain"]]
      PROVE  KeepsIt(c)
  <2>1. PICK y : y = [HavingRead(c) EXCEPT !.at = "drain"]
    OBVIOUS
  <2>2. y.at = "drain" /\ DOMAIN y = CallFields /\ \A f \in {"on", "runs", "read"} : y[f] = HavingRead(c)[f]
    BY <1>3, <1>5, <2>1 DEF CallFields
  <2>3. call' = [call EXCEPT ![c] = y]
    BY <1>5, <2>1
  <2> QED
    BY <1>0, <1>3, <1>5, <2>2, <2>3, KeepStep
<1>6. ASSUME sock[s].wire # <<>>, Leave(c, s, Rest(c), "failed") PROVE Gone
  <2>1. PICK x : x = Rest(c)
    OBVIOUS
  <2>2. /\ DOMAIN x = SockFields /\ x.life = "open" /\ x.key = PoolKey[c]
        /\ x.answering = sock[s].answering /\ ~is_reusable(x)
    BY <1>3, <1>6, <2>1 DEF is_reusable
  <2>3. Leave(c, s, x, "failed")
    BY <1>6, <2>1
  <2> QED
    BY <1>0, <1>6, <2>2, <2>3, LeaveStep
<1>7. ASSUME sock[s].wire # <<>>, Leave(c, s, [Rest(c) EXCEPT !.reusable = FALSE], "done") PROVE Gone
  <2>1. PICK x : x = [Rest(c) EXCEPT !.reusable = FALSE]
    OBVIOUS
  <2>2. /\ DOMAIN x = SockFields /\ x.life = "open" /\ x.key = PoolKey[c]
        /\ x.answering = sock[s].answering /\ ~is_reusable(x)
    BY <1>3, <1>7, <2>1 DEF is_reusable, SockFields
  <2>3. Leave(c, s, x, "done")
    BY <1>7, <2>1
  <2> QED
    BY <1>0, <1>7, <2>2, <2>3, LeaveStep
<1>8. ASSUME Next_({"end"}), Leave(c, s, complete, "done") PROVE Gone
  <2>1. PICK x : x = [Rest(c) EXCEPT !.response_open = FALSE]
    OBVIOUS
  <2>2. Rest(c).wire = <<>> /\ Rest(c).script = <<>>
    BY <1>3, <1>8 DEF Finals
  <2>3. /\ DOMAIN x = SockFields /\ x.life = "open" /\ x.key = PoolKey[c]
        /\ x.answering = sock[s].answering /\ x.wire = <<>> /\ x.script = <<>>
    BY <1>3, <1>8, <2>1, <2>2 DEF SockFields
  <2>4. Leave(c, s, x, "done")
    BY <1>8, <2>1
  <2> QED
    BY <1>0, <1>8, <2>3, <2>4, LeaveStep
<1>9. ASSUME Next_({"end+"}), Leave(c, s, [complete EXCEPT !.pending = TRUE], "done") PROVE Gone
  <2>1. PICK z : z = [Rest(c) EXCEPT !.response_open = FALSE]
    OBVIOUS
  <2>2. PICK x : x = [z EXCEPT !.pending = TRUE]
    OBVIOUS
  <2>3. /\ DOMAIN z = SockFields /\ z.life = "open" /\ z.key = PoolKey[c]
        /\ z.answering = sock[s].answering
    BY <1>3, <1>9, <2>1 DEF SockFields
  <2>4. /\ DOMAIN x = SockFields /\ x.life = "open" /\ x.key = PoolKey[c]
        /\ x.answering = sock[s].answering /\ ~is_reusable(x)
    BY <2>2, <2>3 DEF SockFields, is_reusable
  <2>5. Leave(c, s, x, "done")
    BY <1>9, <2>1, <2>2
  <2> QED
    BY <1>0, <1>9, <2>4, <2>5, LeaveStep
<1>10. ASSUME NEW how \in {"done", "failed"},
              Leave(c, s, [sock[s] EXCEPT !.eof = TRUE, !.reusable = FALSE,
                                          !.response_open = ~sock[s].delimited], how)
       PROVE  Gone
  <2>1. PICK x : x = [sock[s] EXCEPT !.eof = TRUE, !.reusable = FALSE,
                                     !.response_open = ~sock[s].delimited]
    OBVIOUS
  <2>2. /\ DOMAIN x = SockFields /\ x.life = "open" /\ x.key = PoolKey[c] /\ x.wire = sock[s].wire
        /\ x.answering = sock[s].answering /\ ~is_reusable(x)
    BY <1>1, <2>1 DEF SockFields, is_reusable
  <2>3. Leave(c, s, x, how)
    BY <1>10, <2>1
  <2> QED
    BY <1>0, <1>10, <2>2, <2>3, LeaveStep
<1>11. ASSUME Leave(c, s, sock[s], "failed") PROVE Gone
  <2>1. ~is_reusable(sock[s])
    BY <1>1 DEF is_reusable
  <2> QED
    BY <1>0, <1>1, <1>11, <2>1, LeaveStep
<1>12. ASSUME Drop(c, s) PROVE Gone
  BY <1>0, <1>12, DropStep
<1>13. \/ sock[s].wire # <<>> /\ sock' = [sock EXCEPT ![s] = Rest(c)] /\ call' = Reads(c) /\ idle' = idle
       \/ sock[s].wire # <<>> /\ Leave(c, s, Rest(c), "failed")
       \/ sock[s].wire # <<>> /\ Leave(c, s, [Rest(c) EXCEPT !.reusable = FALSE], "done")
       \/ /\ sock[s].wire # <<>> /\ sock' = [sock EXCEPT ![s] = Rest(c)] /\ idle' = idle
          /\ call' = [call EXCEPT ![c] = [HavingRead(c) EXCEPT !.at = "drain"]]
       \/ Next_({"end"}) /\ Leave(c, s, complete, "done")
       \/ Next_({"end+"}) /\ Leave(c, s, [complete EXCEPT !.pending = TRUE], "done")
       \/ \E how \in {"done", "failed"} :
            Leave(c, s, [sock[s] EXCEPT !.eof = TRUE, !.reusable = FALSE,
                                        !.response_open = ~sock[s].delimited], how)
       \/ Leave(c, s, sock[s], "failed")
       \/ Drop(c, s)
  BY Zenon DEF ReadBody
<1> HIDE DEF s, Next_, complete
<1> QED
  BY <1>4, <1>5, <1>6, <1>7, <1>8, <1>9, <1>10, <1>11, <1>12, <1>13, Zenon

\* Draining after the sentinel ends the exchange, whatever is found.
LEMMA DrainTailStep ==
  ASSUME PoolInv, NEW c \in Calls, DrainTail(c)
  PROVE  ClosesIt(c) \/ RestsIt(c)
<1>0. call[c].at = "drain" /\ call[c].at \in InUse
  BY DEF DrainTail, InUse
<1> DEFINE s == call[c].on
<1>1. /\ DOMAIN sock[s] = SockFields /\ sock[s].life = "open" /\ sock[s].key = PoolKey[c]
      /\ DOMAIN call[c] = CallFields /\ call[c].read \subseteq {c}
  BY <1>0, HandFacts DEF CallFields
<1>2. ASSUME sock[s].wire # <<>>,
             Leave(c, s, IF Piece(c).kind \in {"end", "end+"}
                         THEN [Rest(c) EXCEPT !.response_open = FALSE, !.pending = Piece(c).kind = "end+"]
                         ELSE [Rest(c) EXCEPT !.reusable = FALSE], "done")
      PROVE  ClosesIt(c) \/ RestsIt(c)
  <2>1. /\ DOMAIN Rest(c) = SockFields /\ Rest(c).life = "open" /\ Rest(c).key = PoolKey[c]
        /\ Rest(c).answering = sock[s].answering
        /\ Piece(c).kind \in Finals => Rest(c).wire = <<>> /\ Rest(c).script = <<>>
    BY <1>0, <1>2, Taking
  <2>2. CASE Piece(c).kind \in Finals
    <3>1. PICK x : x = [Rest(c) EXCEPT !.response_open = FALSE, !.pending = Piece(c).kind = "end+"]
      OBVIOUS
    <3>2. /\ DOMAIN x = SockFields /\ x.life = "open" /\ x.key = PoolKey[c]
          /\ x.answering = sock[s].answering /\ x.wire = <<>> /\ x.script = <<>>
      BY <2>1, <2>2, <3>1 DEF SockFields
    <3>3. Leave(c, s, x, "done")
      BY <1>2, <2>2, <3>1 DEF Finals
    <3> QED
      BY <1>0, <1>2, <3>2, <3>3, LeaveStep
  <2>3. CASE Piece(c).kind \notin Finals
    <3>1. PICK x : x = [Rest(c) EXCEPT !.reusable = FALSE]
      OBVIOUS
    <3>2. /\ DOMAIN x = SockFields /\ x.life = "open" /\ x.key = PoolKey[c]
          /\ x.answering = sock[s].answering /\ ~is_reusable(x)
      BY <2>1, <3>1 DEF SockFields, is_reusable
    <3>3. Leave(c, s, x, "done")
      BY <1>2, <2>3, <3>1 DEF Finals
    <3> QED
      BY <1>0, <1>2, <3>2, <3>3, LeaveStep
  <2> QED
    BY <2>2, <2>3
<1>3. ASSUME put(s, [sock[s] EXCEPT !.reusable = FALSE]), call' = Ends(c, "done")
      PROVE  ClosesIt(c) \/ RestsIt(c)
  <2>1. PICK x : x = [sock[s] EXCEPT !.reusable = FALSE]
    OBVIOUS
  <2>2. PICK y : y = Ended(c, "done")
    OBVIOUS
  <2>3. /\ DOMAIN x = SockFields /\ x.life = "open" /\ x.key = PoolKey[c]
        /\ x.answering = sock[s].answering /\ ~is_reusable(x)
    BY <1>1, <2>1 DEF SockFields, is_reusable
  <2>4. DOMAIN y = CallFields /\ y.at = "done" /\ y.on = NoSock /\ y.read \subseteq {c} /\ y.runs = call[c].runs
    BY <1>1, <2>2 DEF Ended, CallFields
  <2>5. put(call[c].on, x) /\ Turned(c, y)
    BY <1>3, <2>1, <2>2, <2>4 DEF Turned, Ends
  <2> QED
    BY <1>0, <2>3, <2>4, <2>5, PutBack
<1> HIDE DEF s
<1> QED
  BY <1>2, <1>3 DEF DrainTail, s

\* The places taken in the pool, which Total counts.
Spots == UNION {{k} \X DOMAIN idle[k] : k \in Keys}

\* As many keys as calls at most.
LEMMA KeysFinite == IsFiniteSet(Keys)
<1>1. [c \in Calls |-> PoolKey[c]] \in Surjection(Calls, Keys)
  BY DEF Surjection, Keys
<1>2. PICK f : f \in Surjection(Calls, Keys)
  BY <1>1
<1> QED
  BY <1>2, PoolAssumption, FS_Surjection, Zenon

\* The places are finite, and Total is their number.
LEMMA SpotsFinite ==
  ASSUME \A k \in Keys : idle[k] \in Seq(Sockets)
  PROVE  IsFiniteSet(Spots) /\ Total = Cardinality(Spots) /\ Total \in Nat
<1> DEFINE g == [k \in Keys |-> {k} \X DOMAIN idle[k]]
           T == {{k} \X DOMAIN idle[k] : k \in Keys}
<1>1. g \in Surjection(Keys, T)
  BY DEF Surjection
<1>2. PICK f : f \in Surjection(Keys, T)
  BY <1>1
<1>3. IsFiniteSet(T)
  <2> HIDE DEF T
  <2> QED
    BY <1>2, KeysFinite, FS_Surjection, Zenon
<1>4. ASSUME NEW U \in T PROVE IsFiniteSet(U)
  <2>1. PICK k \in Keys : U = {k} \X DOMAIN idle[k]
    OBVIOUS
  <2>2. PICK n \in Nat : DOMAIN idle[k] = 1 .. n
    BY <2>1
  <2>3. IsFiniteSet({k}) /\ IsFiniteSet(DOMAIN idle[k])
    <3>1. 1 \in Int /\ n \in Int
      OBVIOUS
    <3>2. IsFiniteSet(1 .. n)
      BY <3>1, FS_Interval, Zenon
    <3> QED
      BY <2>2, <3>2, FS_Singleton
  <2> QED
    BY <2>1, <2>3, FS_Product
<1>5. IsFiniteSet(UNION T)
  <2> HIDE DEF T
  <2> QED
    BY <1>3, <1>4, FS_UNION
<1>6. IsFiniteSet(Spots)
  BY <1>5 DEF Spots
<1> QED
  BY <1>6, FS_CardinalityType DEF Total, Spots

\* What one exchange does to its connection and its own record leaves the other
\* calls, and what every connection owes, as they were.
LEMMA Apart ==
  ASSUME PoolInv, NEW c \in Calls, call[c].at \in InUse, NEW x, NEW y,
         Turned(c, y), DOMAIN x = SockFields, sock' = [sock EXCEPT ![call[c].on] = x],
         x.answering \in {sock[call[c].on].answering, NoCall},
         y.on \in {call[c].on, NoSock}, y.on = NoSock => x.script = <<>>,
         DOMAIN idle' = Keys
  PROVE  /\ PoolShape'
         /\ \A s \in Sockets : SockOf(s)'
         /\ \A d \in Calls \ {c} : HandOf(d)'
         /\ \A d \in Calls \ {c} : d \notin Idempotent => RunOf(d)'
         /\ call'[c] = y /\ sock'[call[c].on] = x
         /\ \A s \in Sockets \ {call[c].on} : sock'[s] = sock[s]
         /\ \A d \in Calls \ {c} : call'[d] = call[d]
<1> DEFINE on == call[c].on
<1>1. /\ on \in Sockets /\ DOMAIN sock = Sockets /\ DOMAIN call = Calls
      /\ \A d \in Calls : DOMAIN call[d] = CallFields
  BY HandFacts DEF PoolInv, PoolShape
<1>2. /\ call'[c] = y /\ sock'[on] = x /\ \A s \in Sockets \ {on} : sock'[s] = sock[s]
      /\ \A d \in Calls \ {c} : call'[d] = call[d] /\ call[d].on # on
  <2>1. \A d \in Calls \ {c} : call[d].on # on
    BY <1>1, PoolAssumption DEF PoolInv, HandOf
  <2> QED
    BY <1>1, <2>1 DEF Turned
<1>3. DOMAIN sock' = Sockets /\ DOMAIN call' = Calls /\ \A d \in Calls : DOMAIN call'[d] = CallFields
  BY <1>1, <1>2 DEF Turned
<1>4. PoolShape'
  BY <1>3 DEF PoolShape
<1>5. ASSUME NEW s \in Sockets PROVE SockOf(s)'
  <2>1. SockOf(s)
    BY DEF PoolInv
  <2>2. CASE s = on
    <3>1. DOMAIN sock'[s] = SockFields
      BY <1>2, <2>2
    <3>2. sock'[s].script # <<>> => call'[c].on = s
      BY <1>2, <2>2
    <3> QED
      BY <3>1, <3>2 DEF SockOf
  <2>3. CASE s # on
    <3>1. sock'[s] = sock[s]
      BY <1>2, <2>3
    <3>2. \A d \in Calls : call[d].on = s => call'[d].on = s
      BY <1>2, <2>3
    <3> QED
      BY <2>1, <3>1, <3>2 DEF SockOf
  <2> QED
    BY <2>2, <2>3
<1>6. ASSUME NEW d \in Calls \ {c} PROVE HandOf(d)'
  <2>1. HandOf(d) /\ call'[d] = call[d] /\ call[d].on # on
    BY <1>2 DEF PoolInv
  <2>2. call[d].at \in InUse => call[d].on \in Sockets /\ sock'[call[d].on] = sock[call[d].on]
    BY <1>2, <2>1 DEF HandOf
  <2>3. \A e \in Calls \ {d} : call'[e].on = call'[d].on => call'[d].on = NoSock
    BY <1>2, <2>1 DEF HandOf
  <2>4. call'[d].at \in InUse => call'[d].on \in Sockets /\ Carries(d, sock'[call'[d].on])
    BY <2>1, <2>2 DEF HandOf
  <2>5. /\ call'[d].at \notin InUse => call'[d].on = NoSock
        /\ call'[d].at = "send" => sock'[call'[d].on].wire = <<>> /\ sock'[call'[d].on].script = <<>>
        /\ call'[d].at \in InUse \ {"send"} => sock'[call'[d].on].response_open
        /\ call'[d].read \subseteq {d}
    BY <2>1, <2>2 DEF HandOf, InUse
  <2> QED
    BY <2>3, <2>4, <2>5 DEF HandOf, Carries
<1>7. ASSUME NEW d \in Calls \ {c}, d \notin Idempotent PROVE RunOf(d)'
  <2>1. RunOf(d) /\ HandOf(d) /\ call'[d] = call[d] /\ call[d].on # on /\ d # NoCall
    BY <1>2, <1>7, PoolAssumption DEF PoolInv
  <2>2. ASSUME NEW s \in Sockets, sock'[s].answering = d PROVE sock[s].answering = d
    BY <1>2, <2>1, <2>2
  <2>3. call[d].at \in {"head", "body", "drain"} => sock'[call[d].on] = sock[call[d].on]
    BY <1>2, <2>1 DEF HandOf, InUse
  <2>4. \A s \in Sockets : sock'[s].answering = d =>
          call[d].at \in {"done", "failed"} \/ (call[d].at \in {"head", "body", "drain"} /\ call[d].on = s)
    BY <2>1, <2>2 DEF RunOf
  <2> QED
    BY <2>1, <2>3, <2>4 DEF RunOf
<1> QED
  BY <1>2, <1>4, <1>5, <1>6, <1>7

\* What is at rest does not change if no place is taken or given.
LEMMA RestApart ==
  ASSUME PoolInv, NEW c \in Calls, call[c].at \in InUse, idle' = idle,
         \A s \in Sockets \ {call[c].on} : sock'[s] = sock[s],
         \A d \in Calls \ {c} : call'[d] = call[d],
         call'[c].on \in {call[c].on, NoSock}
  PROVE  (\A k \in Keys : RestOf(k)') /\ (Total <= max_idle_total)'
<1>1. (Total <= max_idle_total)'
  BY DEF PoolInv, Total
<1>2. ASSUME NEW k \in Keys PROVE RestOf(k)'
  <2>1. RestOf(k) /\ idle'[k] = idle[k]
    BY DEF PoolInv
  <2>2. ASSUME NEW i \in DOMAIN idle[k]
        PROVE  Clean(k, sock'[idle[k][i]]) /\ \A d \in Calls : call'[d].on # idle[k][i]
    <3>1. /\ idle[k][i] \in Sockets /\ idle[k][i] # call[c].on
          /\ Clean(k, sock[idle[k][i]]) /\ \A d \in Calls : call[d].on # idle[k][i]
      BY <2>1 DEF RestOf
    <3>2. idle[k][i] # NoSock
      BY <3>1, PoolAssumption
    <3> QED
      BY <3>1, <3>2
  <2> QED
    BY <2>1, <2>2 DEF RestOf, Clean, is_reusable
<1> QED
  BY <1>1, <1>2

\* A step that keeps its connection preserves the invariant.
LEMMA KeepsInv ==
  ASSUME PoolInv, NEW c \in Calls, call[c].at \in InUse, KeepsIt(c)
  PROVE  PoolInv'
<1> DEFINE on == call[c].on
<1>1. PICK x, y :
        /\ Turned(c, y) /\ y.on = on /\ y.at \in {"head", "body", "drain"}
        /\ sock' = [sock EXCEPT ![on] = x] /\ idle' = idle
        /\ DOMAIN x = SockFields /\ Carries(c, x) /\ x.response_open
        /\ x.answering = sock[on].answering
        /\ c \notin Idempotent /\ y.at = "head" /\ x.answering = c => x.heard \/ x.wire # <<>>
  BY DEF KeepsIt
<1>2. DOMAIN idle' = Keys
  BY <1>1 DEF PoolInv, PoolShape
<1>3. /\ PoolShape'
      /\ \A s \in Sockets : SockOf(s)'
      /\ \A d \in Calls \ {c} : HandOf(d)'
      /\ \A d \in Calls \ {c} : d \notin Idempotent => RunOf(d)'
      /\ call'[c] = y /\ sock'[on] = x
      /\ \A s \in Sockets \ {on} : sock'[s] = sock[s]
      /\ \A d \in Calls \ {c} : call'[d] = call[d]
  <2>1. on # NoSock
    BY HandFacts, PoolAssumption
  <2> QED
    BY <1>1, <1>2, <2>1, Apart
<1>4. (\A k \in Keys : RestOf(k)') /\ (Total <= max_idle_total)'
  BY <1>1, <1>3, RestApart
<1>5. HandOf(c)'
  <2>1. on \in Sockets /\ \A d \in Calls \ {c} : call[d].on # on
    BY HandFacts, PoolAssumption DEF PoolInv, HandOf
  <2>2. \A d \in Calls \ {c} : call'[d].on # call'[c].on
    BY <1>1, <1>3, <2>1
  <2> QED
    BY <1>1, <1>3, <2>1, <2>2 DEF HandOf, Turned, Carries, InUse
<1>6. ASSUME c \notin Idempotent PROVE RunOf(c)'
  <2>1. RunOf(c) /\ on \in Sockets /\ y.runs = call[c].runs
    BY <1>1, <1>6, HandFacts DEF PoolInv, Turned
  <2>2. \A s \in Sockets : sock'[s].answering = c => s = on
    BY <1>3, <2>1 DEF RunOf, InUse
  <2>3. y.runs = IF x.answering = c THEN 1 ELSE 0
    BY <1>1, <2>1 DEF RunOf, InUse
  <2> QED
    BY <1>1, <1>3, <1>6, <2>2, <2>3 DEF RunOf
<1> QED
  BY <1>3, <1>4, <1>5, <1>6 DEF PoolInv

\* A closed connection: nothing is on it, and nobody is being answered.
LEMMA ClosedFacts ==
  ASSUME NEW x
  PROVE  /\ DOMAIN Closed(x) = SockFields /\ Closed(x).script = <<>> /\ Closed(x).wire = <<>>
         /\ Closed(x).answering = NoCall
<1>1. PICK u : u = Unused
  OBVIOUS
<1>2. DOMAIN u = SockFields /\ u.script = <<>> /\ u.wire = <<>> /\ u.answering = NoCall
  BY <1>1 DEF Unused, SockFields
<1>3. Closed(x) = [u EXCEPT !.key = x.key, !.life = "closed"]
  BY <1>1 DEF Closed
<1> QED
  BY <1>2, <1>3 DEF SockFields

\* A step that closes its connection preserves the invariant.
LEMMA ClosesInv ==
  ASSUME PoolInv, NEW c \in Calls, call[c].at \in InUse, ClosesIt(c)
  PROVE  PoolInv'
<1> DEFINE on == call[c].on
<1>1. PICK y :
        /\ Turned(c, y) /\ y.on = NoSock /\ y.at \in {"done", "failed", "acquire"}
        /\ y.at = "acquire" /\ c \notin Idempotent => y.runs = 0
        /\ sock' = [sock EXCEPT ![on] = Closed(sock[on])] /\ idle' = idle
  BY DEF ClosesIt
<1>2. PICK x : x = Closed(sock[on])
  OBVIOUS
<1>3. DOMAIN x = SockFields /\ x.script = <<>> /\ x.answering = NoCall
  BY <1>2, ClosedFacts
<1>4. DOMAIN idle' = Keys /\ sock' = [sock EXCEPT ![on] = x]
  BY <1>1, <1>2 DEF PoolInv, PoolShape
<1>5. /\ PoolShape'
      /\ \A s \in Sockets : SockOf(s)'
      /\ \A d \in Calls \ {c} : HandOf(d)'
      /\ \A d \in Calls \ {c} : d \notin Idempotent => RunOf(d)'
      /\ call'[c] = y /\ sock'[on] = x
      /\ \A s \in Sockets \ {on} : sock'[s] = sock[s]
      /\ \A d \in Calls \ {c} : call'[d] = call[d]
  BY <1>1, <1>3, <1>4, Apart
<1>6. (\A k \in Keys : RestOf(k)') /\ (Total <= max_idle_total)'
  BY <1>1, <1>5, RestApart
<1>7. HandOf(c)'
  BY <1>1, <1>5 DEF HandOf, Turned, InUse
<1>8. ASSUME c \notin Idempotent PROVE RunOf(c)'
  <2>1. RunOf(c) /\ on \in Sockets /\ y.runs = call[c].runs /\ c # NoCall
    BY <1>1, <1>8, HandFacts, PoolAssumption DEF PoolInv, Turned
  <2>2. \A s \in Sockets : sock'[s].answering # c
    BY <1>3, <1>5, <2>1 DEF RunOf, InUse
  <2> QED
    BY <1>1, <1>5, <1>8, <2>1, <2>2 DEF RunOf
<1> QED
  BY <1>5, <1>6, <1>7, <1>8 DEF PoolInv

\* A step that lays its connection to rest preserves the invariant.
LEMMA RestsInv ==
  ASSUME PoolInv, NEW c \in Calls, call[c].at \in InUse, RestsIt(c)
  PROVE  PoolInv'
<1> DEFINE on == call[c].on
           key == PoolKey[c]
<1>1. PICK x, y :
        /\ Turned(c, y) /\ y.on = NoSock /\ y.at \in {"done", "failed"}
        /\ DOMAIN x = SockFields /\ Clean(key, x) /\ x.answering = sock[on].answering
        /\ Total < max_idle_total
        /\ sock' = [sock EXCEPT ![on] = x]
        /\ idle' = [idle EXCEPT ![key] = Append(@, on)]
  BY DEF RestsIt
<1>2. DOMAIN idle = Keys /\ DOMAIN idle' = Keys /\ key \in Keys /\ on \in Sockets /\ on # NoSock
  BY <1>1, HandFacts, PoolAssumption DEF PoolInv, PoolShape, Keys
<1>3. /\ PoolShape'
      /\ \A s \in Sockets : SockOf(s)'
      /\ \A d \in Calls \ {c} : HandOf(d)'
      /\ \A d \in Calls \ {c} : d \notin Idempotent => RunOf(d)'
      /\ call'[c] = y /\ sock'[on] = x
      /\ \A s \in Sockets \ {on} : sock'[s] = sock[s]
      /\ \A d \in Calls \ {c} : call'[d] = call[d]
  <2>1. x.script = <<>>
    BY <1>1 DEF Clean
  <2> QED
    BY <1>1, <1>2, <2>1, Apart
<1>4. /\ idle'[key] = Append(idle[key], on)
      /\ \A k \in Keys \ {key} : idle'[k] = idle[k]
      /\ \A k \in Keys : idle[k] \in Seq(Sockets)
  BY <1>1, <1>2 DEF PoolInv, RestOf
<1>5. PICK n \in Nat : n = Len(idle[key]) /\ DOMAIN idle[key] = 1 .. n
  BY <1>2, <1>4
<1>6. /\ idle'[key] \in Seq(Sockets) /\ DOMAIN idle'[key] = 1 .. n + 1 /\ idle'[key][n + 1] = on
      /\ \A i \in 1 .. n : idle'[key][i] = idle[key][i]
  BY <1>2, <1>4, <1>5
<1>7. ASSUME NEW k \in Keys, NEW i \in DOMAIN idle[k]
      PROVE  /\ idle[k][i] \in Sockets /\ idle[k][i] # on /\ Clean(k, sock'[idle[k][i]])
             /\ \A d \in Calls : call'[d].on # idle[k][i]
  <2>1. RestOf(k)
    BY DEF PoolInv
  <2>2. /\ idle[k][i] \in Sockets /\ Clean(k, sock[idle[k][i]]) /\ \A d \in Calls : call[d].on # idle[k][i]
    BY <2>1 DEF RestOf
  <2>3. idle[k][i] # NoSock
    BY <2>2, PoolAssumption
  <2> QED
    BY <1>1, <1>3, <2>2, <2>3
<1>8. \A d \in Calls : call'[d].on # on
  <2>1. \A d \in Calls \ {c} : call[d].on # on
    BY <1>2 DEF PoolInv, HandOf
  <2> QED
    BY <1>1, <1>2, <1>3, <2>1
<1>9. ASSUME NEW k \in Keys PROVE RestOf(k)'
  <2>1. RestOf(k)
    BY DEF PoolInv
  <2>2. CASE k # key
    <3>1. idle'[k] = idle[k]
      BY <1>4, <2>2
    <3>2. /\ \A i \in DOMAIN idle[k] : Clean(k, sock'[idle[k][i]]) /\ \A d \in Calls : call'[d].on # idle[k][i]
          /\ idle[k] \in Seq(Sockets) /\ \A i, j \in DOMAIN idle[k] : idle[k][i] = idle[k][j] => i = j
      BY <1>7, <2>1 DEF RestOf
    <3> QED
      BY <3>1, <3>2 DEF RestOf, Clean, is_reusable
  <2>3. CASE k = key
    <3>1. \A i \in DOMAIN idle'[k] : Clean(k, sock'[idle'[k][i]]) /\ \A d \in Calls : call'[d].on # idle'[k][i]
      <4> SUFFICES ASSUME NEW i \in DOMAIN idle'[k]
                   PROVE  Clean(k, sock'[idle'[k][i]]) /\ \A d \in Calls : call'[d].on # idle'[k][i]
        OBVIOUS
      <4>1. CASE i = n + 1
        BY <1>1, <1>3, <1>6, <1>8, <2>3, <4>1
      <4>2. CASE i # n + 1
        <5>1. i \in 1 .. n
          BY <1>6, <2>3, <4>2
        <5> QED
          BY <1>5, <1>6, <1>7, <2>3, <5>1
      <4> QED
        BY <4>1, <4>2
    <3>2. \A i, j \in DOMAIN idle'[k] : idle'[k][i] = idle'[k][j] => i = j
      <4> SUFFICES ASSUME NEW i \in 1 .. n + 1, NEW j \in 1 .. n + 1, idle'[k][i] = idle'[k][j] PROVE i = j
        BY <1>6, <2>3
      <4>1. \A a \in 1 .. n : idle[k][a] # on
        BY <1>5, <1>7, <2>3
      <4>2. \A a, b \in 1 .. n : idle[k][a] = idle[k][b] => a = b
        BY <1>5, <2>1, <2>3 DEF RestOf
      <4>3. (i = n + 1 \/ i \in 1 .. n) /\ (j = n + 1 \/ j \in 1 .. n)
        OBVIOUS
      <4> QED
        BY <1>6, <2>3, <4>1, <4>2, <4>3
    <3> QED
      BY <1>6, <2>3, <3>1, <3>2 DEF RestOf, Clean, is_reusable
  <2> QED
    BY <2>2, <2>3
<1>10. (Total <= max_idle_total)'
  <2>1. Spots' = Spots \cup {<<key, n + 1>>}
    <3>1. \A p : p \in Spots <=> \E k \in Keys : \E i \in DOMAIN idle[k] : p = <<k, i>>
      BY DEF Spots
    <3>2. \A p : p \in Spots' <=> \E k \in Keys : \E i \in DOMAIN idle'[k] : p = <<k, i>>
      BY DEF Spots
    <3>3. \A k \in Keys \ {key} : DOMAIN idle'[k] = DOMAIN idle[k]
      BY <1>4
    <3>4. DOMAIN idle'[key] = DOMAIN idle[key] \cup {n + 1}
      BY <1>5, <1>6
    <3> QED
      BY <1>2, <3>1, <3>2, <3>3, <3>4
  <2>2. IsFiniteSet(Spots) /\ Total = Cardinality(Spots) /\ Total \in Nat
    BY <1>4, SpotsFinite
  <2>3. Total' = Cardinality(Spots')
    BY DEF Total, Spots
  <2>4. PICK p : p = <<key, n + 1>>
    OBVIOUS
  <2>5. Cardinality(Spots \cup {p}) = IF p \in Spots THEN Cardinality(Spots) ELSE Cardinality(Spots) + 1
    BY <2>2, FS_AddElement
  <2> QED
    BY <1>1, <2>1, <2>2, <2>3, <2>4, <2>5, PoolAssumption
<1>11. HandOf(c)'
  BY <1>1, <1>3 DEF HandOf, Turned, InUse
<1>12. ASSUME c \notin Idempotent PROVE RunOf(c)'
  <2>1. RunOf(c) /\ y.runs = call[c].runs
    BY <1>1, <1>12 DEF PoolInv, Turned
  <2> QED
    BY <1>1, <1>3, <2>1 DEF RunOf
<1> QED
  BY <1>3, <1>9, <1>10, <1>11, <1>12 DEF PoolInv

\* A key's connections leave the pool from the newest down: some are closed, and
\* the one below them may go to c, or a new one does.
Shuffled(c, m, n, kept, gone, t, x) ==
  LET key == PoolKey[c]
  IN  /\ DOMAIN idle[key] = 1 .. n /\ m <= n
      /\ kept \in Seq(Sockets) /\ DOMAIN kept = 1 .. m /\ \A i \in 1 .. m : kept[i] = idle[key][i]
      /\ idle' = [idle EXCEPT ![key] = kept]
      /\ \A s \in gone : \E i \in m + 1 .. n : s = idle[key][i]
      /\ t # NoSock => /\ t \in Sockets /\ DOMAIN x = SockFields /\ Clean(key, x)
                       /\ x.answering \in {sock[t].answering, NoCall}
                       /\ sock[t].life = "unopened" \/ (m + 1 <= n /\ t = idle[key][m + 1])
      /\ DOMAIN sock' = Sockets
      /\ \A s \in Sockets : sock'[s] = IF s = t THEN x ELSE IF s \in gone THEN Closed(sock[s]) ELSE sock[s]
      /\ DOMAIN call' = Calls /\ \A d \in Calls \ {c} : call'[d] = call[d]
      /\ \/ call'[c] = call[c] /\ t = NoSock
         \/ /\ call[c].at = "acquire" /\ DOMAIN call'[c] = CallFields /\ call'[c].on = t
            /\ call'[c].read \subseteq {c} /\ call'[c].runs = call[c].runs
            /\ call'[c].at = IF t = NoSock THEN "failed" ELSE "send"

\* Such a step preserves the invariant.
LEMMA Reshuffle ==
  ASSUME PoolInv, NEW c \in Calls, NEW m \in Nat, NEW n \in Nat, NEW kept, NEW gone, NEW t, NEW x,
         Shuffled(c, m, n, kept, gone, t, x)
  PROVE  PoolInv'
<1> DEFINE key == PoolKey[c]
<1> USE DEF Shuffled
<1>1. key \in Keys /\ DOMAIN idle = Keys /\ DOMAIN idle' = Keys
  BY DEF PoolInv, PoolShape, Keys
<1>2. idle'[key] = kept /\ \A k \in Keys \ {key} : idle'[k] = idle[k]
  BY <1>1
<1>3. ASSUME NEW k \in Keys, NEW i \in DOMAIN idle[k]
      PROVE  /\ idle[k][i] \in Sockets /\ Clean(k, sock[idle[k][i]]) /\ sock[idle[k][i]].life = "open"
             /\ sock[idle[k][i]].key = k /\ \A d \in Calls : call[d].on # idle[k][i]
             /\ \A j \in DOMAIN idle[k] : idle[k][i] = idle[k][j] => i = j
  BY DEF PoolInv, RestOf, Clean
<1>4. ASSUME NEW d \in Calls, call[d].on # NoSock
      PROVE  /\ call[d].on # t /\ call[d].on \notin gone /\ call[d].on \in Sockets
             /\ sock'[call[d].on] = sock[call[d].on]
  <2>1. call[d].on \in Sockets /\ sock[call[d].on].life = "open"
    BY <1>4 DEF PoolInv, HandOf, Carries
  <2>2. \A i \in 1 .. n : call[d].on # idle[key][i]
    BY <1>1, <1>3
  <2>3. call[d].on \notin gone
    BY <2>2
  <2>4. call[d].on # t
    BY <1>4, <2>1, <2>2
  <2> QED
    BY <2>1, <2>3, <2>4
<1>5. ASSUME NEW k \in Keys, NEW i \in DOMAIN idle'[k]
      PROVE  /\ i \in DOMAIN idle[k] /\ idle'[k][i] = idle[k][i]
             /\ idle[k][i] # t /\ idle[k][i] \notin gone /\ sock'[idle[k][i]] = sock[idle[k][i]]
  <2>1. i \in DOMAIN idle[k] /\ idle'[k][i] = idle[k][i] /\ (k = key => i \in 1 .. m)
    BY <1>2
  <2>2. ASSUME NEW j \in m + 1 .. n PROVE idle[k][i] # idle[key][j]
    <3>1. j \in DOMAIN idle[key] /\ (k = key => i # j)
      BY <2>1
    <3>2. sock[idle[key][j]].key = key
      BY <1>1, <1>3, <3>1
    <3>3. sock[idle[k][i]].key = k
      BY <1>3, <2>1
    <3>4. CASE k = key
      BY <1>1, <1>3, <2>1, <3>1, <3>4
    <3> QED
      BY <3>2, <3>3, <3>4
  <2>3. idle[k][i] \in Sockets /\ sock[idle[k][i]].life = "open"
    BY <1>3, <2>1
  <2>4. idle[k][i] \notin gone
    BY <2>2
  <2>5. idle[k][i] # t
    <3>1. m + 1 <= n => m + 1 \in m + 1 .. n
      OBVIOUS
    <3> QED
      BY <2>2, <2>3, <3>1, PoolAssumption
  <2> QED
    BY <2>1, <2>3, <2>4, <2>5
<1>6. PoolShape'
  BY <1>1 DEF PoolInv, PoolShape
<1>7. ASSUME NEW s \in Sockets
      PROVE  /\ DOMAIN sock'[s] = SockFields
             /\ sock'[s].script # <<>> => sock'[s] = sock[s]
             /\ sock'[s].answering # NoCall => sock'[s].answering = sock[s].answering
  <2>1. DOMAIN sock[s] = SockFields
    BY DEF PoolInv, SockOf
  <2>2. CASE s = t
    <3>1. t # NoSock
      BY <2>2, PoolAssumption
    <3> QED
      BY <2>2, <3>1 DEF Clean
  <2>3. CASE s # t /\ s \in gone
    BY <2>3, ClosedFacts
  <2>4. CASE s # t /\ s \notin gone
    BY <2>1, <2>4
  <2> QED
    BY <2>2, <2>3, <2>4
<1>8. ASSUME NEW s \in Sockets PROVE SockOf(s)'
  <2>1. sock'[s].script # <<>> => \E d \in Calls : call'[d].on = s
    <3> SUFFICES ASSUME sock'[s].script # <<>> PROVE \E d \in Calls : call'[d].on = s
      OBVIOUS
    <3>1. PICK d \in Calls : call[d].on = s
      BY <1>7 DEF PoolInv, SockOf
    <3>2. call[c].at = "acquire" => call[c].on = NoSock
      BY DEF PoolInv, HandOf, InUse
    <3> QED
      BY <3>1, <3>2, PoolAssumption
  <2> QED
    BY <1>7, <2>1 DEF SockOf
<1>9. ASSUME NEW d \in Calls, call'[d] = call[d], d # c \/ t = NoSock PROVE HandOf(d)'
  <2>1. HandOf(d)
    BY DEF PoolInv
  <2>2. \A e \in Calls \ {d} : call'[e].on = call'[d].on => call'[d].on = NoSock
    BY <1>4, <1>9, <2>1 DEF HandOf
  <2>3. call'[d].at \in InUse => /\ call'[d].on \in Sockets /\ Carries(d, sock'[call'[d].on])
                                 /\ sock'[call'[d].on] = sock[call[d].on]
    <3>1. call[d].at \in InUse => call[d].on \in Sockets /\ call[d].on # NoSock /\ Carries(d, sock[call[d].on])
      BY <2>1, PoolAssumption DEF HandOf
    <3> QED
      BY <1>4, <1>9, <3>1
  <2>4. /\ call'[d].at \notin InUse => call'[d].on = NoSock
        /\ call'[d].at = "send" => sock'[call'[d].on].wire = <<>> /\ sock'[call'[d].on].script = <<>>
        /\ call'[d].at \in InUse \ {"send"} => sock'[call'[d].on].response_open
        /\ call'[d].read \subseteq {d}
    BY <1>9, <2>1, <2>3 DEF HandOf, InUse
  <2> QED
    BY <2>2, <2>3, <2>4 DEF HandOf, Carries
<1>10. HandOf(c)'
  <2>1. CASE call'[c] = call[c] /\ t = NoSock
    BY <1>9, <2>1
  <2>2. CASE ~(call'[c] = call[c] /\ t = NoSock)
    <3>1. /\ call'[c].on = t /\ call'[c].read \subseteq {c}
          /\ call'[c].at = IF t = NoSock THEN "failed" ELSE "send"
      BY <2>2
    <3>2. CASE t = NoSock
      BY <3>1, <3>2 DEF HandOf, InUse
    <3>3. CASE t # NoSock
      <4>1. sock'[t] = x /\ t \in Sockets /\ Clean(key, x)
        BY <3>3
      <4>2. Carries(c, x) /\ x.wire = <<>> /\ x.script = <<>>
        BY <4>1 DEF Carries, Clean
      <4>3. \A d \in Calls \ {c} : call'[d].on # t
        BY <1>4, <3>3
      <4>4. Carries(c, sock'[call'[c].on])
        BY <3>1, <4>1, <4>2
      <4> QED
        BY <3>1, <3>3, <4>1, <4>2, <4>3, <4>4 DEF HandOf, InUse, Carries
    <3> QED
      BY <3>2, <3>3
  <2> QED
    BY <2>1, <2>2
<1>11. ASSUME NEW k \in Keys PROVE RestOf(k)'
  <2>1. idle'[k] \in Seq(Sockets)
    BY <1>2 DEF PoolInv, RestOf
  <2>2. ASSUME NEW i \in DOMAIN idle'[k]
        PROVE  Clean(k, sock'[idle'[k][i]]) /\ \A d \in Calls : call'[d].on # idle'[k][i]
    <3>1. /\ i \in DOMAIN idle[k] /\ idle'[k][i] = idle[k][i] /\ idle[k][i] # t
          /\ sock'[idle[k][i]] = sock[idle[k][i]]
      BY <1>5
    <3>2. Clean(k, sock[idle[k][i]]) /\ \A d \in Calls : call[d].on # idle[k][i]
      BY <1>3, <3>1
    <3> QED
      BY <3>1, <3>2
  <2>3. \A i, j \in DOMAIN idle'[k] : idle'[k][i] = idle'[k][j] => i = j
    BY <1>3, <1>5
  <2> QED
    BY <2>1, <2>2, <2>3 DEF RestOf, Clean, is_reusable
<1>12. ASSUME NEW d \in Calls \ Idempotent PROVE RunOf(d)'
  <2>1. RunOf(d) /\ HandOf(d) /\ d # NoCall
    BY PoolAssumption DEF PoolInv
  <2>2. \A s \in Sockets : sock'[s].answering = d => sock[s].answering = d
    BY <1>7, <2>1
  <2>3. CASE call'[d] = call[d]
    <3>1. call[d].at \in {"head", "body", "drain"} => sock'[call[d].on] = sock[call[d].on]
      BY <1>4, <2>1, PoolAssumption DEF HandOf, InUse
    <3>2. \A s \in Sockets : sock'[s].answering = d =>
            call[d].at \in {"done", "failed"} \/ (call[d].at \in {"head", "body", "drain"} /\ call[d].on = s)
      BY <2>1, <2>2 DEF RunOf
    <3> QED
      BY <2>1, <2>3, <3>1, <3>2 DEF RunOf
  <2>4. CASE call'[d] # call[d]
    <3>1. call[d].at = "acquire" /\ call'[d].runs = call[d].runs /\ call'[d].at \in {"failed", "send"}
      BY <2>4
    <3>2. call'[d].runs = 0 /\ \A s \in Sockets : sock'[s].answering # d
      BY <2>1, <2>2, <3>1 DEF RunOf
    <3> QED
      BY <3>1, <3>2 DEF RunOf
  <2> QED
    BY <2>3, <2>4
<1>13. (Total <= max_idle_total)'
  <2>1. \A k \in Keys : idle[k] \in Seq(Sockets)
    BY DEF PoolInv, RestOf
  <2>2. IsFiniteSet(Spots) /\ Total = Cardinality(Spots) /\ Total \in Nat /\ Total <= max_idle_total
    BY <2>1, SpotsFinite DEF PoolInv
  <2>3. Spots' \subseteq Spots
    <3>1. \A p : p \in Spots <=> \E k \in Keys : \E i \in DOMAIN idle[k] : p = <<k, i>>
      BY DEF Spots
    <3>2. \A p : p \in Spots' <=> \E k \in Keys : \E i \in DOMAIN idle'[k] : p = <<k, i>>
      BY DEF Spots
    <3> QED
      BY <1>5, <3>1, <3>2
  <2>4. IsFiniteSet(Spots') /\ Cardinality(Spots') <= Cardinality(Spots)
    BY <2>2, <2>3, FS_Subset
  <2>5. Cardinality(Spots') \in Nat
    BY <2>4, FS_CardinalityType
  <2>6. Total' = Cardinality(Spots')
    BY DEF Total, Spots
  <2> QED
    BY <2>2, <2>4, <2>5, <2>6, PoolAssumption
<1>14. \A d \in Calls \ {c} : HandOf(d)'
  BY <1>9
<1> QED
  BY <1>6, <1>8, <1>10, <1>11, <1>12, <1>13, <1>14 DEF PoolInv

\* The newest usable connection is found: what is at rest is finite.
LEMMA TopMost ==
  ASSUME NEW n \in Nat, NEW T, T \subseteq 1 .. n, T # {}
  PROVE  Max(T) \in T /\ \A i \in T : i <= Max(T)
<1> DEFINE R == {p \in Nat \X Nat : p[1] < p[2]}
           D == {n - i : i \in T}
<1>1. IsWellFoundedOn(R, Nat)
  BY NatLessThanWellFounded DEF OpToRel
<1>2. D \subseteq Nat /\ D # {}
  <2>1. \A i \in T : i \in Nat /\ n - i \in Nat
    OBVIOUS
  <2>2. PICK i : i \in T
    OBVIOUS
  <2>3. n - i \in D
    BY <2>2
  <2> QED
    BY <2>1, <2>3
<1>3. PICK x \in D : \A y \in D : ~(<<y, x>> \in R)
  <2> HIDE DEF R, D
  <2> QED
    BY <1>1, <1>2, WFMin
<1>4. PICK i \in T : x = n - i
  OBVIOUS
<1>5. ASSUME NEW j \in T PROVE i >= j
  <2>1. n - j \in D /\ n - j \in Nat /\ x \in Nat
    BY <1>2
  <2>2. ~(n - j < x)
    BY <1>3, <2>1
  <2> QED
    BY <1>4, <2>1, <2>2
<1>6. \E z \in T : \A y \in T : z >= y
  BY <1>5
<1>7. Max(T) \in T /\ \A y \in T : Max(T) >= y
  BY <1>6 DEF Max
<1> QED
  BY <1>7

\* take splits what is at rest in three: what stays, what is taken, what is closed.
LEMMA TakeFacts ==
  ASSUME PoolInv, NEW key \in Keys, NEW n \in Nat, DOMAIN idle[key] = 1 .. n, NEW q, q = take(key)
  PROVE  /\ \A s \in q.shut : s \in Sockets
         /\ \E m \in Nat :
              /\ m <= n /\ q.left \in Seq(Sockets) /\ DOMAIN q.left = 1 .. m
              /\ \A i \in 1 .. m : q.left[i] = idle[key][i]
              /\ \A s \in q.shut : \E i \in m + 1 .. n : s = idle[key][i]
              /\ q.on # NoSock => /\ m + 1 <= n /\ q.on = idle[key][m + 1] /\ q.on \in Sockets
                                  /\ q.on \notin q.shut /\ Clean(key, sock[q.on])
<1>1. idle[key] \in Seq(Sockets) /\ n = Len(idle[key]) /\ RestOf(key)
  BY DEF PoolInv, RestOf
<1>2. Usable(key) \subseteq 1 .. n
  BY DEF Usable
<1>3. CASE Usable(key) = {}
  <2>1. q.on = NoSock /\ q.left = <<>> /\ q.shut = {idle[key][i] : i \in 1 .. n}
    BY <1>1, <1>3 DEF take
  <2>2. 0 <= n /\ q.left \in Seq(Sockets) /\ DOMAIN q.left = 1 .. 0
    BY <2>1
  <2> QED
    BY <1>1, <2>1, <2>2
<1>4. CASE Usable(key) # {}
  <2>1. PICK top : top = Max(Usable(key))
    OBVIOUS
  <2>2. top \in Usable(key) /\ top \in 1 .. n
    BY <1>2, <1>4, <2>1, TopMost
  <2>3. /\ q.on = idle[key][top] /\ q.left = SubSeq(idle[key], 1, top - 1)
        /\ q.shut = {idle[key][i] : i \in top + 1 .. n}
    <3>1. top # 0 /\ top = (IF Usable(key) = {} THEN 0 ELSE Max(Usable(key)))
      BY <1>4, <2>1, <2>2
    <3>2. q = [on |-> IF top = 0 THEN NoSock ELSE idle[key][top],
               left |-> IF top = 0 THEN <<>> ELSE SubSeq(idle[key], 1, top - 1),
               shut |-> {idle[key][i] : i \in (top + 1) .. Len(idle[key])}]
      BY <3>1, Zenon DEF take
    <3>3. PICK A, B, C : /\ A = idle[key][top] /\ B = SubSeq(idle[key], 1, top - 1)
                         /\ C = {idle[key][i] : i \in (top + 1) .. Len(idle[key])}
      OBVIOUS
    <3>4. q = [on |-> A, left |-> B, shut |-> C]
      BY <3>1, <3>2, <3>3, Zenon
    <3>5. q.on = A /\ q.left = B /\ q.shut = C
      BY <3>4
    <3> QED
      BY <1>1, <3>3, <3>5
  <2>4. PICK m \in Nat : m = top - 1
    BY <2>2
  <2>5. /\ q.left \in Seq(Sockets) /\ DOMAIN q.left = 1 .. m
        /\ \A i \in 1 .. m : q.left[i] = idle[key][i]
    BY <1>1, <2>2, <2>3, <2>4
  <2>6. /\ m + 1 <= n /\ q.on = idle[key][m + 1] /\ q.on \in Sockets /\ Clean(key, sock[q.on])
    BY <1>1, <2>2, <2>3, <2>4 DEF RestOf
  <2>7. q.on \notin q.shut
    <3>1. ASSUME NEW i \in top + 1 .. n PROVE idle[key][i] # idle[key][top]
      <4>1. i \in DOMAIN idle[key] /\ top \in DOMAIN idle[key] /\ i # top
        BY <2>2
      <4> QED
        BY <1>1, <4>1 DEF RestOf
    <3> QED
      BY <2>3, <3>1
  <2>8. \A s \in q.shut : s \in Sockets /\ \E i \in m + 1 .. n : s = idle[key][i]
    BY <1>1, <2>2, <2>3, <2>4
  <2> QED
    BY <2>2, <2>4, <2>5, <2>6, <2>7, <2>8
<1> QED
  BY <1>3, <1>4

\* Obtaining a connection, at rest or new, or none.
LEMMA ObtainInv ==
  ASSUME PoolInv, NEW c \in Calls, Obtain(c)
  PROVE  PoolInv'
<1> DEFINE none(k) == [on |-> NoSock, left |-> idle[k], shut |-> {}]
<1>1. PICK key : key = PoolKey[c]
  OBVIOUS
<1>2. key \in Keys /\ DOMAIN idle = Keys /\ DOMAIN sock = Sockets /\ DOMAIN call = Calls
      /\ DOMAIN call[c] = CallFields /\ call[c].read \subseteq {c} /\ idle[key] \in Seq(Sockets)
      /\ call[c].at = "acquire"
  BY <1>1 DEF PoolInv, PoolShape, HandOf, RestOf, Keys, Obtain
<1>3. PICK n \in Nat : DOMAIN idle[key] = 1 .. n
  BY <1>2
<1>4. PICK q : q = IF call[c].retried THEN none(key) ELSE take(key)
  OBVIOUS
<1>5. PICK m \in Nat :
        /\ m <= n /\ q.left \in Seq(Sockets) /\ DOMAIN q.left = 1 .. m
        /\ \A i \in 1 .. m : q.left[i] = idle[key][i]
        /\ \A s \in q.shut : \E i \in m + 1 .. n : s = idle[key][i]
        /\ q.on # NoSock => /\ m + 1 <= n /\ q.on = idle[key][m + 1] /\ q.on \in Sockets
                            /\ q.on \notin q.shut /\ Clean(key, sock[q.on])
  <2>1. CASE call[c].retried
    <3>1. q.on = NoSock /\ q.left = idle[key] /\ q.shut = {}
      BY <1>4, <2>1
    <3> QED
      BY <1>2, <1>3, <3>1
  <2>2. CASE ~call[c].retried
    <3>1. q = take(key)
      BY <1>4, <2>2
    <3> QED
      BY <1>2, <1>3, <3>1, TakeFacts
  <2> QED
    BY <2>1, <2>2
<1>6. PICK shut : shut = [s \in Sockets |-> IF s \in q.shut THEN Closed(sock[s]) ELSE sock[s]]
  OBVIOUS
<1>7. DOMAIN shut = Sockets /\ \A s \in Sockets : shut[s] = IF s \in q.shut THEN Closed(sock[s]) ELSE sock[s]
  BY <1>6
<1>8. idle' = [idle EXCEPT ![key] = q.left]
  BY <1>1, <1>4 DEF Obtain
<1>9. ASSUME q.on # NoSock, sock' = [shut EXCEPT ![q.on].pooled = TRUE],
             call' = [call EXCEPT ![c] = [call[c] EXCEPT !.at = "send", !.on = q.on]]
      PROVE  PoolInv'
  <2>1. PICK x : x = [shut[q.on] EXCEPT !.pooled = TRUE]
    OBVIOUS
  <2>2. PICK y : y = [call[c] EXCEPT !.at = "send", !.on = q.on]
    OBVIOUS
  <2>3. shut[q.on] = sock[q.on] /\ DOMAIN sock[q.on] = SockFields /\ q.on \in Sockets /\ Clean(key, sock[q.on])
    BY <1>5, <1>7, <1>9 DEF PoolInv, SockOf
  <2>4. DOMAIN x = SockFields /\ \A f \in SockFields \ {"pooled"} : x[f] = sock[q.on][f]
    BY <2>1, <2>3 DEF SockFields
  <2>5. Clean(key, x) /\ x.answering = sock[q.on].answering
    BY <2>3, <2>4 DEF Clean, is_reusable, SockFields
  <2>6. /\ DOMAIN y = CallFields /\ y.on = q.on /\ y.read \subseteq {c} /\ y.runs = call[c].runs
        /\ y.at = "send"
    BY <1>2, <2>2 DEF CallFields
  <2>7. /\ DOMAIN sock' = Sockets /\ DOMAIN call' = Calls /\ call'[c] = y
        /\ \A d \in Calls \ {c} : call'[d] = call[d]
    BY <1>2, <1>7, <1>9, <2>2
  <2>8. \A s \in Sockets : sock'[s] = IF s = q.on THEN x ELSE IF s \in q.shut THEN Closed(sock[s]) ELSE sock[s]
    BY <1>7, <1>9, <2>1
  <2>9. Shuffled(c, m, n, q.left, q.shut, q.on, x)
    <3>1. q.on # NoSock /\ m + 1 <= n /\ q.on = idle[key][m + 1]
      BY <1>5, <1>9
    <3> QED
      BY <1>1, <1>2, <1>3, <1>5, <1>8, <2>3, <2>4, <2>5, <2>6, <2>7, <2>8, <3>1 DEF Shuffled
  <2> QED
    BY <2>9, Reshuffle
<1>10. ASSUME q.on = NoSock, NEW s \in Unopened, sock' = [shut EXCEPT ![s] = Dialed(key)],
              call' = [call EXCEPT ![c] = [call[c] EXCEPT !.at = "send", !.on = s]]
       PROVE  PoolInv'
  <2>1. PICK u : u = Unused
    OBVIOUS
  <2>2. /\ DOMAIN u = SockFields /\ u.script = <<>> /\ u.wire = <<>> /\ u.answering = NoCall /\ ~u.eof
        /\ ~u.response_open /\ ~u.pending /\ u.life = "unopened"
    BY <2>1 DEF Unused, SockFields
  <2>3. PICK x : x = [u EXCEPT !.key = key, !.life = "open", !.reusable = TRUE, !.peer_open = TRUE]
    OBVIOUS
  <2>4. DOMAIN x = SockFields /\ Clean(key, x) /\ x.answering = NoCall /\ x = Dialed(key)
    <3>1. x = Dialed(key)
      BY <2>1, <2>3 DEF Dialed
    <3> QED
      BY <2>2, <2>3, <3>1 DEF Clean, is_reusable, SockFields
  <2>5. PICK y : y = [call[c] EXCEPT !.at = "send", !.on = s]
    OBVIOUS
  <2>6. s \in Sockets /\ s # NoSock /\ sock[s].life = "unopened"
    BY <1>10, <2>1, <2>2, PoolAssumption DEF Unopened
  <2>7. /\ DOMAIN y = CallFields /\ y.on = s /\ y.read \subseteq {c} /\ y.runs = call[c].runs
        /\ y.at = "send"
    BY <1>2, <2>5 DEF CallFields
  <2>8. /\ DOMAIN sock' = Sockets /\ DOMAIN call' = Calls /\ call'[c] = y
        /\ \A d \in Calls \ {c} : call'[d] = call[d]
    BY <1>2, <1>7, <1>10, <2>5
  <2>9. \A r \in Sockets : sock'[r] = IF r = s THEN x ELSE IF r \in q.shut THEN Closed(sock[r]) ELSE sock[r]
    BY <1>7, <1>10, <2>4
  <2>10. Shuffled(c, m, n, q.left, q.shut, s, x)
    BY <1>1, <1>2, <1>3, <1>5, <1>8, <2>4, <2>6, <2>7, <2>8, <2>9 DEF Shuffled
  <2> QED
    BY <2>10, Reshuffle
<1>11. ASSUME q.on = NoSock, sock' = shut, call' = Ends(c, "failed") PROVE PoolInv'
  <2>1. PICK y : y = [call[c] EXCEPT !.at = "failed", !.on = NoSock]
    OBVIOUS
  <2>2. /\ DOMAIN y = CallFields /\ y.on = NoSock /\ y.read \subseteq {c} /\ y.runs = call[c].runs
        /\ y.at = "failed"
    BY <1>2, <2>1 DEF CallFields
  <2>3. /\ DOMAIN sock' = Sockets /\ DOMAIN call' = Calls /\ call'[c] = y
        /\ \A d \in Calls \ {c} : call'[d] = call[d]
    BY <1>2, <1>7, <1>11, <2>1 DEF Ends, Ended
  <2>4. \A r \in Sockets : r # NoSock /\ sock'[r] = IF r \in q.shut THEN Closed(sock[r]) ELSE sock[r]
    BY <1>7, <1>11, PoolAssumption
  <2>5. PICK t, x : t = NoSock /\ x = y
    OBVIOUS
  <2>6. \A r \in Sockets : sock'[r] = IF r = t THEN x ELSE IF r \in q.shut THEN Closed(sock[r]) ELSE sock[r]
    BY <2>4, <2>5
  <2>7. Shuffled(c, m, n, q.left, q.shut, t, x)
    BY <1>1, <1>2, <1>3, <1>5, <1>8, <2>2, <2>3, <2>5, <2>6 DEF Shuffled
  <2> QED
    BY <2>7, Reshuffle
<1>12. \/ /\ q.on # NoSock /\ sock' = [shut EXCEPT ![q.on].pooled = TRUE]
          /\ call' = [call EXCEPT ![c] = [call[c] EXCEPT !.at = "send", !.on = q.on]]
       \/ /\ q.on = NoSock
          /\ \E s \in Unopened : /\ sock' = [shut EXCEPT ![s] = Dialed(key)]
                                 /\ call' = [call EXCEPT ![c] = [call[c] EXCEPT !.at = "send", !.on = s]]
       \/ q.on = NoSock /\ sock' = shut /\ call' = Ends(c, "failed")
  <2>1. Unopened # {} => (CHOOSE s \in Unopened : TRUE) \in Unopened
    OBVIOUS
  <2> QED
    BY <1>1, <1>4, <1>6, <2>1 DEF Obtain
<1> QED
  BY <1>9, <1>10, <1>11, <1>12

\* Draining a key closes all that is at rest under it.
LEMMA DrainInv ==
  ASSUME PoolInv, NEW key \in Keys, Drain(key)
  PROVE  PoolInv'
<1>1. PICK c \in Calls : key = PoolKey[c]
  BY DEF Keys
<1>2. /\ idle[key] \in Seq(Sockets) /\ DOMAIN call = Calls /\ call' = call
      /\ idle' = [idle EXCEPT ![key] = <<>>]
      /\ sock' = [s \in Sockets |-> IF s \in Range(idle[key]) THEN Closed(sock[s]) ELSE sock[s]]
  BY DEF PoolInv, PoolShape, RestOf, Drain
<1>3. PICK n \in Nat : DOMAIN idle[key] = 1 .. n
  BY <1>2
<1>4. PICK kept : kept = <<>>
  OBVIOUS
<1>5. kept \in Seq(Sockets) /\ DOMAIN kept = 1 .. 0 /\ idle' = [idle EXCEPT ![key] = kept]
  BY <1>2, <1>4
<1>6. PICK gone : gone = Range(idle[key])
  OBVIOUS
<1>7. \A s \in gone : \E i \in 0 + 1 .. n : s = idle[key][i]
  BY <1>3, <1>6 DEF Range
<1>8. PICK t, x : t = NoSock /\ x = Unused
  OBVIOUS
<1>9. /\ DOMAIN sock' = Sockets
      /\ \A s \in Sockets : sock'[s] = IF s = t THEN x ELSE IF s \in gone THEN Closed(sock[s]) ELSE sock[s]
  BY <1>2, <1>6, <1>8, PoolAssumption
<1>10. Shuffled(c, 0, n, kept, gone, t, x)
  BY <1>1, <1>2, <1>3, <1>5, <1>7, <1>8, <1>9 DEF Shuffled
<1> QED
  BY <1>10, Reshuffle

\* A connection grows old, or its peer closes it: of what it was to send nothing
\* more comes.
LEMMA QuietInv ==
  ASSUME PoolInv, NEW s \in Sockets, NEW x, DOMAIN x = SockFields,
         \A f \in SockFields \ {"old", "peer_open", "script"} : x[f] = sock[s][f],
         x.script \in {sock[s].script, <<>>},
         sock' = [sock EXCEPT ![s] = x], idle' = idle, call' = call
  PROVE  PoolInv'
<1>1. DOMAIN sock = Sockets /\ sock'[s] = x /\ \A r \in Sockets \ {s} : sock'[r] = sock[r]
  BY DEF PoolInv, PoolShape
<1>2. /\ x.life = sock[s].life /\ x.key = sock[s].key /\ x.wire = sock[s].wire /\ x.answering = sock[s].answering
      /\ x.heard = sock[s].heard /\ x.response_open = sock[s].response_open
      /\ x.reusable = sock[s].reusable /\ x.eof = sock[s].eof /\ x.pending = sock[s].pending
  BY DEF SockFields
<1>3. PoolShape'
  BY <1>1 DEF PoolInv, PoolShape
<1>4. ASSUME NEW r \in Sockets PROVE SockOf(r)'
  BY <1>1 DEF PoolInv, SockOf
<1>5. ASSUME NEW d \in Calls PROVE HandOf(d)'
  <2>1. HandOf(d)
    BY DEF PoolInv
  <2>2. ASSUME call[d].at \in InUse PROVE Carries(d, sock'[call[d].on])
    <3>1. call[d].on \in Sockets /\ Carries(d, sock[call[d].on])
      BY <2>1, <2>2 DEF HandOf
    <3>2. CASE call[d].on = s
      <4>1. Carries(d, sock[s])
        BY <3>1, <3>2
      <4>2. Carries(d, x)
        <5>1. CASE x.script = sock[s].script
          BY <1>2, <4>1, <5>1 DEF Carries
        <5>2. CASE x.script = <<>>
          <6>1. x.script \in Seq(PiecesOf(d)) /\ DOMAIN x.script = {}
            BY <5>2
          <6> QED
            BY <1>2, <4>1, <5>2, <6>1 DEF Carries
        <5> QED
          BY <5>1, <5>2
      <4> QED
        BY <1>1, <3>2, <4>2
    <3>3. CASE call[d].on # s
      BY <1>1, <3>1, <3>3
    <3> QED
      BY <3>2, <3>3
  <2>3. call[d].at \in InUse => call[d].on \in Sockets
    BY <2>1 DEF HandOf
  <2>4. /\ call[d].at = "send" => sock'[call[d].on].wire = <<>> /\ sock'[call[d].on].script = <<>>
        /\ call[d].at \in InUse \ {"send"} => sock'[call[d].on].response_open
    BY <1>1, <1>2, <2>1, <2>3 DEF HandOf, InUse
  <2>5. /\ call[d].at \notin InUse => call[d].on = NoSock
        /\ \A e \in Calls \ {d} : call[e].on = call[d].on => call[d].on = NoSock
        /\ call[d].read \subseteq {d}
    BY <2>1 DEF HandOf
  <2> QED
    BY <2>2, <2>3, <2>4, <2>5 DEF HandOf, Carries
<1>6. ASSUME NEW k \in Keys PROVE RestOf(k)'
  <2>1. RestOf(k)
    BY DEF PoolInv
  <2>2. \A i \in DOMAIN idle[k] : Clean(k, sock'[idle[k][i]])
    BY <1>1, <1>2, <2>1 DEF RestOf, Clean, is_reusable
  <2> QED
    BY <2>1, <2>2 DEF RestOf, Clean, is_reusable
<1>7. ASSUME NEW d \in Calls \ Idempotent PROVE RunOf(d)'
  <2>1. RunOf(d) /\ HandOf(d)
    BY DEF PoolInv
  <2>2. \A r \in Sockets : /\ sock'[r].answering = sock[r].answering /\ sock'[r].heard = sock[r].heard
                           /\ sock'[r].wire = sock[r].wire
    BY <1>1, <1>2
  <2>3. call[d].at \in {"head", "body", "drain"} => call[d].on \in Sockets
    BY <2>1 DEF HandOf, InUse
  <2> QED
    BY <2>1, <2>2, <2>3 DEF RunOf
<1>8. (Total <= max_idle_total)'
  BY DEF PoolInv, Total
<1> QED
  BY <1>3, <1>4, <1>5, <1>6, <1>7, <1>8 DEF PoolInv

\* The peer answers the call that holds the connection: nobody else has asked.
LEMMA AnswersInv ==
  ASSUME PoolInv, NEW s \in Sockets, Answers(s)
  PROVE  PoolInv'
<1>1. PICK c \in Calls : call[c].on = s
  BY DEF PoolInv, SockOf, Answers
<1>2. /\ HandOf(c) /\ call[c].at \in {"head", "body", "drain"} /\ call[c].at \in InUse
      /\ \A d \in Calls \ {c} : call[d].on # s
  BY <1>1, PoolAssumption DEF PoolInv, HandOf, InUse, Answers
<1>3. Carries(c, sock[s]) /\ DOMAIN sock[s] = SockFields /\ sock[s].script # <<>> /\ sock[s].response_open
  BY <1>1, <1>2 DEF HandOf, PoolInv, SockOf, Answers, InUse
<1>4. PICK piece : piece = Head(sock[s].script)
  OBVIOUS
<1>5. /\ sock[s].script \in Seq(PiecesOf(c)) /\ sock[s].wire \in Seq(PiecesOf(c)) /\ piece \in PiecesOf(c)
      /\ piece.of = c
  <2>1. sock[s].script \in Seq(PiecesOf(c)) /\ sock[s].wire \in Seq(PiecesOf(c))
    BY <1>3 DEF Carries
  <2>2. piece \in PiecesOf(c)
    BY <1>3, <1>4, <2>1
  <2> QED
    BY <2>1, <2>2 DEF PiecesOf
<1>6. PICK x : x = [sock[s] EXCEPT !.wire = Append(@, piece), !.script = Tail(@), !.answering = piece.of]
  OBVIOUS
<1>7. /\ DOMAIN x = SockFields /\ x.wire = Append(sock[s].wire, piece) /\ x.script = Tail(sock[s].script)
      /\ x.answering = c /\ \A f \in SockFields \ {"wire", "script", "answering"} : x[f] = sock[s][f]
  BY <1>3, <1>5, <1>6 DEF SockFields
<1>8. /\ sock' = [sock EXCEPT ![s] = x] /\ idle' = idle
      /\ call' = IF sock[s].answering = c THEN call ELSE [call EXCEPT ![c].runs = @ + 1]
  BY <1>4, <1>5, <1>6 DEF Answers
<1>9. PICK y : y = IF sock[s].answering = c THEN call[c] ELSE [call[c] EXCEPT !.runs = @ + 1]
  OBVIOUS
<1>10. DOMAIN sock = Sockets /\ DOMAIN call = Calls /\ DOMAIN call[c] = CallFields /\ DOMAIN idle = Keys
  BY DEF PoolInv, PoolShape
<1>11. /\ DOMAIN y = CallFields /\ y.at = call[c].at /\ y.on = s /\ y.read = call[c].read
       /\ y.runs = IF sock[s].answering = c THEN call[c].runs ELSE call[c].runs + 1
  BY <1>1, <1>9, <1>10 DEF CallFields
<1>12. /\ sock'[s] = x /\ \A r \in Sockets \ {s} : sock'[r] = sock[r]
       /\ call'[c] = y /\ \A d \in Calls \ {c} : call'[d] = call[d]
       /\ DOMAIN sock' = Sockets /\ DOMAIN call' = Calls
  BY <1>8, <1>9, <1>10
<1>13. \A d \in Calls : call'[d].on = call[d].on /\ call'[d].at = call[d].at /\ call'[d].read = call[d].read
  BY <1>1, <1>11, <1>12
<1>14. PoolShape'
  BY <1>8, <1>10, <1>11, <1>12 DEF PoolInv, PoolShape
<1>15. ASSUME NEW r \in Sockets PROVE SockOf(r)'
  <2>1. CASE r = s
    BY <1>1, <1>7, <1>12, <1>13, <2>1 DEF SockOf
  <2>2. CASE r # s
    BY <1>12, <1>13, <2>2 DEF PoolInv, SockOf
  <2> QED
    BY <2>1, <2>2
<1>16. Carries(c, x)
  <2>1. PICK n \in Nat, l \in Nat : /\ n = Len(sock[s].wire) /\ DOMAIN sock[s].wire = 1 .. n
                                     /\ l = Len(sock[s].script) /\ DOMAIN sock[s].script = 1 .. l
    BY <1>5
  <2>2. /\ x.wire \in Seq(PiecesOf(c)) /\ DOMAIN x.wire = 1 .. n + 1 /\ Len(x.wire) = n + 1
        /\ x.wire[n + 1] = piece /\ \A i \in 1 .. n : x.wire[i] = sock[s].wire[i]
    BY <1>5, <1>7, <2>1
  <2>3. /\ l > 0 /\ x.script \in Seq(PiecesOf(c)) /\ DOMAIN x.script = 1 .. l - 1 /\ Len(x.script) = l - 1
        /\ \A i \in 1 .. l - 1 : x.script[i] = sock[s].script[i + 1]
        /\ piece = sock[s].script[1]
    BY <1>3, <1>4, <1>5, <1>7, <2>1
  <2>4. \A i \in 1 .. n : sock[s].wire[i].kind \notin Finals
    BY <1>3, <2>1 DEF Carries
  <2>5. ASSUME piece.kind \in Finals PROVE x.script = <<>>
    <3>1. 1 \in DOMAIN sock[s].script /\ sock[s].script[1].kind \in Finals
      BY <2>1, <2>3, <2>5
    <3>2. 1 = l
      BY <1>3, <2>1, <3>1 DEF Carries
    <3>3. PICK f \in Seq(PiecesOf(c)) : f = x.script /\ Len(f) = 0
      BY <2>3, <3>2
    <3>4. f = <<>>
      BY <3>3
    <3> QED
      BY <3>3, <3>4
  <2>6. \A i \in DOMAIN x.wire : x.wire[i].kind \in Finals => i = Len(x.wire) /\ x.script = <<>>
    <3> SUFFICES ASSUME NEW i \in 1 .. n + 1, x.wire[i].kind \in Finals PROVE i = n + 1 /\ x.script = <<>>
      BY <2>2
    <3>1. i = n + 1
      BY <2>2, <2>4
    <3> QED
      BY <2>2, <2>5, <3>1
  <2>7. \A i \in DOMAIN x.script : x.script[i].kind \in Finals => i = Len(x.script)
    <3> SUFFICES ASSUME NEW i \in 1 .. l - 1, x.script[i].kind \in Finals PROVE i = l - 1
      BY <2>3
    <3>1. i + 1 \in DOMAIN sock[s].script /\ sock[s].script[i + 1].kind \in Finals
      BY <2>1, <2>3
    <3>2. i + 1 = l
      BY <1>3, <2>1, <3>1 DEF Carries
    <3> QED
      BY <3>2
  <2>8. x.life = "open" /\ x.key = PoolKey[c]
    BY <1>3, <1>7 DEF Carries, SockFields
  <2> QED
    BY <2>2, <2>3, <2>6, <2>7, <2>8 DEF Carries
<1>17. HandOf(c)'
  <2>1. x.response_open
    BY <1>3, <1>7 DEF SockFields
  <2>2. /\ call'[c].at \in {"head", "body", "drain"} /\ call'[c].on = s /\ sock'[call'[c].on] = x
        /\ \A d \in Calls \ {c} : call'[d].on # s /\ call'[c].read \subseteq {c}
    BY <1>1, <1>2, <1>12, <1>13 DEF HandOf
  <2>3. call'[c].read \subseteq {c}
    BY <1>2, <1>13 DEF HandOf
  <2>4. Carries(c, sock'[call'[c].on])
    BY <1>16, <2>2
  <2> QED
    BY <2>1, <2>2, <2>3, <2>4 DEF HandOf, Carries, InUse
<1>18. ASSUME NEW d \in Calls \ {c} PROVE HandOf(d)'
  <2>1. HandOf(d) /\ call'[d] = call[d] /\ call[d].on # s
    BY <1>2, <1>12 DEF PoolInv
  <2>2. call[d].at \in InUse => call[d].on \in Sockets /\ sock'[call[d].on] = sock[call[d].on]
    BY <1>12, <2>1 DEF HandOf
  <2>3. \A e \in Calls \ {d} : call'[e].on = call'[d].on => call'[d].on = NoSock
    BY <1>13, <2>1 DEF HandOf
  <2>4. call'[d].at \in InUse => call'[d].on \in Sockets /\ Carries(d, sock'[call'[d].on])
    BY <2>1, <2>2 DEF HandOf
  <2>5. /\ call'[d].at \notin InUse => call'[d].on = NoSock
        /\ call'[d].at = "send" => sock'[call'[d].on].wire = <<>> /\ sock'[call'[d].on].script = <<>>
        /\ call'[d].at \in InUse \ {"send"} => sock'[call'[d].on].response_open
        /\ call'[d].read \subseteq {d}
    BY <2>1, <2>2 DEF HandOf, InUse
  <2> QED
    BY <2>3, <2>4, <2>5 DEF HandOf, Carries
<1>19. ASSUME NEW k \in Keys PROVE RestOf(k)'
  <2>1. RestOf(k)
    BY DEF PoolInv
  <2>2. \A i \in DOMAIN idle[k] : sock'[idle[k][i]] = sock[idle[k][i]]
    BY <1>1, <1>12, <2>1 DEF RestOf
  <2> QED
    BY <1>8, <1>13, <2>1, <2>2 DEF RestOf, Clean, is_reusable
<1>20. ASSUME c \notin Idempotent PROVE RunOf(c)'
  <2>1. RunOf(c)
    BY <1>20 DEF PoolInv
  <2>2. \A r \in Sockets : sock'[r].answering = c => r = s
    BY <1>1, <1>2, <1>12, <2>1 DEF RunOf
  <2>3. call'[c].runs = 1
    BY <1>1, <1>2, <1>11, <1>12, <2>1 DEF RunOf
  <2>4. x.wire # <<>>
    BY <1>5, <1>7
  <2>5. /\ call'[c].at \in {"head", "body", "drain"} /\ call'[c].on = s /\ sock'[call'[c].on] = x
    BY <1>1, <1>2, <1>12, <1>13
  <2> QED
    BY <1>7, <2>2, <2>3, <2>4, <2>5 DEF RunOf
<1>21. ASSUME NEW d \in Calls \ {c}, d \notin Idempotent PROVE RunOf(d)'
  <2>1. RunOf(d) /\ HandOf(d) /\ call'[d] = call[d] /\ call[d].on # s
    BY <1>2, <1>12, <1>21 DEF PoolInv
  <2>2. \A r \in Sockets : sock'[r].answering = d => sock[r].answering = d
    BY <1>7, <1>12
  <2>3. call[d].at \in {"head", "body", "drain"} => sock'[call[d].on] = sock[call[d].on]
    BY <1>12, <2>1 DEF HandOf, InUse
  <2>4. \A r \in Sockets : sock'[r].answering = d =>
          call[d].at \in {"done", "failed"} \/ (call[d].at \in {"head", "body", "drain"} /\ call[d].on = r)
    BY <2>1, <2>2 DEF RunOf
  <2> QED
    BY <2>1, <2>3, <2>4 DEF RunOf
<1>22. (Total <= max_idle_total)'
  BY <1>8 DEF PoolInv, Total
<1> QED
  BY <1>14, <1>15, <1>17, <1>18, <1>19, <1>20, <1>21, <1>22 DEF PoolInv

\* Initially nothing is open.
LEMMA PoolInitially ==
  ASSUME PoolInit
  PROVE  PoolInv
<1>1. DOMAIN Unused = SockFields /\ Unused.script = <<>> /\ Unused.answering = NoCall
  BY DEF Unused, SockFields
<1>2. /\ DOMAIN Waiting = CallFields /\ Waiting.at = "acquire" /\ Waiting.on = NoSock /\ Waiting.read = {}
      /\ Waiting.runs = 0
  BY DEF Waiting, CallFields
<1>3. /\ DOMAIN sock = Sockets /\ DOMAIN idle = Keys /\ DOMAIN call = Calls
      /\ \A s \in Sockets : sock[s] = Unused
      /\ \A k \in Keys : idle[k] = <<>>
      /\ \A c \in Calls : call[c] = Waiting
  BY DEF PoolInit
<1>4. PoolShape
  BY <1>2, <1>3 DEF PoolShape
<1>5. \A s \in Sockets : SockOf(s)
  BY <1>1, <1>3 DEF SockOf
<1>6. \A c \in Calls : HandOf(c)
  BY <1>2, <1>3 DEF HandOf, InUse
<1>7. \A k \in Keys : RestOf(k)
  <2>1. <<>> \in Seq(Sockets) /\ DOMAIN <<>> = {}
    OBVIOUS
  <2>2. \A k \in Keys : idle[k] \in Seq(Sockets) /\ DOMAIN idle[k] = {}
    BY <1>3, <2>1, Zenon
  <2> QED
    BY <2>2 DEF RestOf
<1>8. \A c \in Calls \ Idempotent : RunOf(c)
  BY <1>1, <1>2, <1>3, PoolAssumption DEF RunOf
<1>9. Total <= max_idle_total
  <2>1. \A k \in Keys : DOMAIN idle[k] = {}
    BY <1>3
  <2>2. Spots = {}
    BY <2>1 DEF Spots
  <2>3. Total = 0
    BY <2>2, FS_EmptySet DEF Total, Spots
  <2> QED
    BY <2>3, PoolAssumption
<1> QED
  BY <1>4, <1>5, <1>6, <1>7, <1>8, <1>9 DEF PoolInv

\* Every step preserves the invariant.
LEMMA PoolStep ==
  ASSUME PoolInv, [PoolNext]_poolVars
  PROVE  PoolInv'
<1>1. ASSUME NEW c \in Calls, Obtain(c) PROVE PoolInv'
  BY <1>1, ObtainInv
<1>2. ASSUME NEW c \in Calls, Send(c) \/ ReadHead(c) \/ ReadBody(c) \/ DrainTail(c) PROVE PoolInv'
  <2>1. call[c].at \in InUse
    BY <1>2 DEF Send, ReadHead, ReadBody, DrainTail, InUse
  <2>2. KeepsIt(c) \/ ClosesIt(c) \/ RestsIt(c)
    BY <1>2, SendStep, ReadHeadStep, ReadBodyStep, DrainTailStep
  <2> QED
    BY <2>1, <2>2, KeepsInv, ClosesInv, RestsInv
<1>3. ASSUME NEW s \in Sockets, GrowsOld(s) PROVE PoolInv'
  <2>1. PICK x : x = [sock[s] EXCEPT !.old = TRUE]
    OBVIOUS
  <2>2. DOMAIN sock[s] = SockFields
    BY DEF PoolInv, SockOf
  <2>3. DOMAIN x = SockFields /\ \A f \in SockFields \ {"old"} : x[f] = sock[s][f]
    BY <2>1, <2>2 DEF SockFields
  <2>4. x.script = sock[s].script
    BY <2>3 DEF SockFields
  <2>5. sock' = [sock EXCEPT ![s] = x] /\ idle' = idle /\ call' = call
    BY <1>3, <2>1 DEF GrowsOld
  <2> QED
    BY <2>3, <2>4, <2>5, QuietInv
<1>4. ASSUME NEW s \in Sockets, PeerCloses(s) PROVE PoolInv'
  <2>1. PICK x : x = [sock[s] EXCEPT !.peer_open = FALSE, !.script = <<>>]
    OBVIOUS
  <2>2. DOMAIN sock[s] = SockFields
    BY DEF PoolInv, SockOf
  <2>3. /\ DOMAIN x = SockFields /\ x.script = <<>>
        /\ \A f \in SockFields \ {"peer_open", "script"} : x[f] = sock[s][f]
    BY <2>1, <2>2 DEF SockFields
  <2>4. sock' = [sock EXCEPT ![s] = x] /\ idle' = idle /\ call' = call
    BY <1>4, <2>1 DEF PeerCloses
  <2> QED
    BY <2>3, <2>4, QuietInv
<1>5. ASSUME NEW s \in Sockets, Answers(s) PROVE PoolInv'
  BY <1>5, AnswersInv
<1>6. ASSUME NEW k \in Keys, Drain(k) PROVE PoolInv'
  BY <1>6, DrainInv
<1>7. ASSUME UNCHANGED poolVars PROVE PoolInv'
  BY <1>7 DEF poolVars, PoolInv, PoolShape, SockOf, HandOf, RestOf, RunOf, Total, Carries, Clean, is_reusable
<1> QED
  BY <1>1, <1>2, <1>3, <1>4, <1>5, <1>6, <1>7 DEF PoolNext, Exchange

\* In one hand, or at rest once.
LEMMA OneHolder ==
  ASSUME PoolInv, NEW s \in Sockets
  PROVE  Cardinality({c \in Calls : call[c].on = s}) + Cardinality({k \in Keys : s \in Range(idle[k])}) <= 1
<1> DEFINE A == {c \in Calls : call[c].on = s}
           B == {k \in Keys : s \in Range(idle[k])}
<1>1. s # NoSock
  BY PoolAssumption
<1>2. ASSUME NEW c \in A, NEW d \in A PROVE c = d
  BY <1>1, <1>2 DEF PoolInv, HandOf
<1>3. ASSUME NEW k \in B PROVE sock[s].key = k /\ A = {}
  <2>1. PICK i \in DOMAIN idle[k] : s = idle[k][i]
    BY DEF Range
  <2> QED
    BY <2>1 DEF PoolInv, RestOf, Clean
<1>4. /\ IsFiniteSet({}) /\ Cardinality({}) = 0
      /\ \A z : IsFiniteSet({z}) /\ Cardinality({z}) = 1
  BY FS_EmptySet, FS_Singleton
<1>5. ASSUME NEW T, \A a, b \in T : a = b PROVE Cardinality(T) \in {0, 1}
  <2>1. CASE T = {}
    BY <1>4, <2>1
  <2>2. CASE T # {}
    <3>1. PICK a : a \in T
      BY <2>2
    <3>2. T = {a}
      BY <1>5, <3>1
    <3> QED
      BY <1>4, <3>2
  <2> QED
    BY <2>1, <2>2
<1>6. Cardinality(A) \in {0, 1} /\ Cardinality(B) \in {0, 1}
  <2>1. \A a, b \in B : a = b
    BY <1>3
  <2> HIDE DEF A, B
  <2> QED
    BY <1>2, <1>5, <2>1
<1>7. B # {} => Cardinality(A) = 0
  BY <1>3, <1>4
<1>8. B = {} => Cardinality(B) = 0
  BY <1>4
<1> HIDE DEF A, B
<1>9. Cardinality(A) + Cardinality(B) <= 1
  BY <1>6, <1>7, <1>8
<1> QED
  BY <1>9 DEF A, B

\* ExchangeSound, for every set of calls and connections and whatever the peers
\* send: nobody reads another's answer, however a connection came back to the
\* pool (pool.rs's put and take, client.rs's is_reusable, dispatch.rs's replay).
THEOREM OwnAnswer == PoolSpec => []ExchangeSound
<1>1. PoolInit => PoolInv
  BY PoolInitially
<1>2. PoolInv /\ [PoolNext]_poolVars => PoolInv'
  BY PoolStep
<1>3. PoolInv => ExchangeSound
  <2> SUFFICES ASSUME PoolInv PROVE ExchangeSound
    OBVIOUS
  <2>1. \A c \in Calls : call[c].read \subseteq {c}
    BY DEF PoolInv, HandOf
  <2>2. \A c \in Calls : c \notin Idempotent => call[c].runs <= 1
    BY DEF PoolInv, RunOf
  <2>3. Total <= max_idle_total
    BY DEF PoolInv
  <2> QED
    BY <2>1, <2>2, <2>3, OneHolder DEF ExchangeSound
<1> QED
  BY <1>1, <1>2, <1>3, PTL DEF PoolSpec

=============================================================================
