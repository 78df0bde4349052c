----------------------------- MODULE JobProofs ------------------------------
(***************************************************************************)
(* Proofs about JobStore: for any jobs, workers, caps and scenarios, the   *)
(* parked demand, the entries being tried and the spool's bytes are what   *)
(* the jobs and the workers hold (QueueExact), and a result stays as its   *)
(* owner has read it (ResultKept).                                         *)
(*                                                                         *)
(* The proof looks at the queue and its entries through three sets of jobs *)
(* (in the line, marked as tried, holding demand) and at a worker through  *)
(* the six fields that matter to them.                                     *)
(***************************************************************************)
EXTENDS JobStore, FiniteSetTheorems, SequenceTheorems, TLAPS

Points == {"take", "tick", "gone", "discard", "pass", "fetch", "ended", "put_back", "show",
           "leave", "judge", "write"}
Passing == {"pass", "fetch", "ended", "put_back"}
Closing == {"leave", "judge", "write"}
Handled == Passing \cup Closing \cup {"discard"}

EntryType == [trying : BOOLEAN, started : BOOLEAN, blocked : BOOLEAN, backing : BOOLEAN,
              attempts : Nat, recovery : BOOLEAN, parked : BOOLEAN,
              principal_round : Nat, tenant_round : Nat]

Results == Waits \cup {"none", "backoff", "succeeded", "failed", "cancelled"}

WorkerType == [at : Points, job : Jobs \cup {"none"}, fresh : BOOLEAN, counted : BOOLEAN,
               parked : BOOLEAN, admitted : BOOLEAN, result : Results, bytes : {0, 1}]

\* The types of the job store's variables.
JobTypeOK ==
  /\ scene \in Scenes
  /\ table \in [Jobs -> Terminal \cup {"absent", "queued", "running"}]
  /\ asking \in [Jobs -> {"new", "never", "insert", "enqueue", "accepted", "refused", "done"}]
  /\ holding \subseteq Jobs
  /\ queue \in Seq(Jobs)
  /\ entry \in [Jobs -> EntryType]
  /\ cancelled \subseteq Jobs /\ expired \subseteq Jobs
  /\ stopping \in {"no", "set", "told"}
  /\ worker \in [Workers -> WorkerType]
  /\ demand \in Nat /\ used \in Nat /\ lost \in Nat
  /\ spooled \in [Jobs -> {0, 1}]

Line == {j \in Jobs : Queued(j)}
Tried == {j \in Jobs : entry[j].trying}
EntryDemand == {j \in Jobs : Queued(j) /\ entry[j].parked}
WorkerDemand == {w \in Workers : worker[w].parked}
WorkerBytes == {w \in Workers : worker[w].bytes = 1}
Stored == {j \in Jobs : spooled[j] = 1}
Answered == {j \in Jobs : table[j] \in {"succeeded", "failed"}}

\* A job is in the line once, and only after it was accepted; what the
\* submission, the table and the spool say of it goes together.
Submitted ==
  /\ \A i, k \in 1 .. Len(queue) : queue[i] = queue[k] => i = k
  /\ \A j \in Jobs :
       /\ j \in Line => asking[j] = "accepted"
       /\ j \notin Line => ~entry[j].parked
       /\ j \in holding => asking[j] \in {"insert", "enqueue", "refused"}
       /\ asking[j] \in {"new", "insert"} => table[j] = "absent"
       /\ asking[j] = "enqueue" => table[j] = "queued"
       /\ j \in Stored => asking[j] = "accepted" /\ table[j] # "absent"

\* What a worker with a job in hand knows of it.
Hand(w) ==
  LET at == worker[w].at j == worker[w].job IN
  /\ at \in Handled \cup {"show"} => j \in Jobs /\ asking[j] = "accepted"
  /\ worker[w].parked => at \in {"put_back", "judge", "discard"}
  /\ worker[w].bytes = 1 => at \in {"fetch", "ended"} \cup Closing
  /\ worker[w].bytes = 1 /\ at = "ended" => worker[w].result = "succeeded"
  /\ at = "put_back" => worker[w].result # "succeeded"
  /\ at = "fetch" => worker[w].bytes = 1
  /\ at = "write" => worker[w].result \in Terminal
  /\ at \in {"judge", "write", "discard"} => j \notin Line
  /\ at \in Passing /\ j \in Line => j \in Tried
  /\ at \in {"pass", "fetch", "ended"} /\ j \in Line => worker[w].counted = (j \in EntryDemand)
  /\ at = "put_back" /\ worker[w].parked => j \notin EntryDemand
  /\ worker[w].bytes = 1 /\ at = "leave" /\ j \in Line => j \in Tried
  /\ worker[w].bytes = 1 \/ at \in Passing => j \notin Stored

\* What it knows besides until the store stops.
RunningHand(w) ==
  LET at == worker[w].at j == worker[w].job IN
  /\ at = "leave" /\ j \in Line => j \in Tried \/ j \in cancelled
  /\ at \in Passing => j \in Line
  /\ at \in Handled => j \notin Answered

\* Two workers with the same job in hand: one at most is in a pass or has its
\* parts, and until the store stops they have it because it was cancelled.
Apart(v, w) ==
  /\ ~(worker[v].at \in Passing /\ worker[w].at \in Passing)
  /\ ~(worker[v].at \in Passing /\ worker[w].at \in Closing /\ worker[w].bytes = 1)
  /\ ~(worker[v].bytes = 1 /\ worker[w].bytes = 1)
RunningApart(v, w) ==
  /\ ~(worker[v].at \in Passing /\ worker[w].at = "leave")
  /\ worker[v].at \in Handled /\ worker[w].at \in Handled =>
       /\ worker[v].job \in cancelled
       /\ \/ worker[v].at \in {"leave", "judge", "discard"}
          \/ worker[v].at = "write" /\ worker[v].result = "cancelled"

Hands ==
  /\ \A w \in Workers : Hand(w) /\ (stopping = "no" => RunningHand(w))
  /\ \A v, w \in Workers : v # w /\ worker[v].job = worker[w].job =>
       Apart(v, w) /\ (stopping = "no" => RunningApart(v, w))

\* A job in the line is nobody's result yet, and tried by someone if marked.
Entries ==
  \A j \in Line :
    /\ j \in Tried => \E w \in Workers : worker[w].job = j /\ worker[w].at \in Passing \cup {"leave"}
    /\ j \notin Stored
    /\ stopping = "no" => j \notin Answered

Counts ==
  /\ demand = Cardinality(holding) + Cardinality(EntryDemand) + Cardinality(WorkerDemand)
  /\ used = Cardinality(Stored) + Cardinality(WorkerBytes) + lost
  /\ used <= SpoolRoom

JobInv == JobTypeOK /\ Submitted /\ Hands /\ Entries /\ Counts

-----------------------------------------------------------------------------
(* How a step looks from here *)

\* The step leaves what worker v is doing alone.
Kept(v) ==
  /\ worker'[v].at = worker[v].at /\ worker'[v].job = worker[v].job
  /\ worker'[v].parked = worker[v].parked /\ worker'[v].counted = worker[v].counted
  /\ worker'[v].bytes = worker[v].bytes /\ worker'[v].result = worker[v].result

\* Only worker w moves.
Moves(w) == \A v \in Workers : v # w => Kept(v)

\* Two sets that differ in one element at most differ in size accordingly.
LEMMA OneChange ==
  ASSUME NEW S, NEW T, NEW x, IsFiniteSet(S), \A y : y # x => (y \in T <=> y \in S)
  PROVE  /\ IsFiniteSet(T) /\ Cardinality(S) \in Nat /\ Cardinality(T) \in Nat
         /\ x \in T /\ x \notin S => Cardinality(T) = Cardinality(S) + 1
         /\ x \notin T /\ x \in S => Cardinality(T) = Cardinality(S) - 1
         /\ (x \in T <=> x \in S) => Cardinality(T) = Cardinality(S)
<1>1. Cardinality(S) \in Nat
  BY FS_CardinalityType
<1>2. CASE x \in T /\ x \notin S
  <2>1. T = S \cup {x}
    BY <1>2
  <2> QED
    BY <1>1, <1>2, <2>1, FS_AddElement
<1>3. CASE x \notin T /\ x \in S
  <2>1. T = S \ {x}
    BY <1>3
  <2> QED
    BY <1>1, <1>3, <2>1, FS_RemoveElement, FS_CardinalityType
<1>4. CASE x \in T <=> x \in S
  <2>1. T = S
    BY <1>4
  <2> QED
    BY <1>1, <1>4, <2>1
<1> QED
  BY <1>2, <1>3, <1>4

\* The sets that are counted are finite.
LEMMA CountedFinite ==
  ASSUME JobTypeOK
  PROVE  /\ IsFiniteSet(holding) /\ IsFiniteSet(EntryDemand) /\ IsFiniteSet(Stored)
         /\ IsFiniteSet(WorkerDemand) /\ IsFiniteSet(WorkerBytes)
<1>1. /\ holding \subseteq Jobs /\ EntryDemand \subseteq Jobs /\ Stored \subseteq Jobs
      /\ WorkerDemand \subseteq Workers /\ WorkerBytes \subseteq Workers
  BY DEF JobTypeOK, EntryDemand, Stored, WorkerDemand, WorkerBytes
<1> QED
  BY <1>1, JobAssumption, FS_Subset

\* One worker's move changes the demand and the bytes in the workers' hands
\* by its own.
LEMMA WorkerCounts ==
  ASSUME JobTypeOK, JobTypeOK', NEW w \in Workers, Moves(w)
  PROVE  /\ Cardinality(WorkerDemand) \in Nat /\ Cardinality(WorkerBytes) \in Nat
         /\ Cardinality(WorkerDemand') \in Nat /\ Cardinality(WorkerBytes') \in Nat
         /\ worker'[w].parked /\ ~worker[w].parked =>
              Cardinality(WorkerDemand') = Cardinality(WorkerDemand) + 1
         /\ ~worker'[w].parked /\ worker[w].parked =>
              Cardinality(WorkerDemand') = Cardinality(WorkerDemand) - 1
         /\ worker'[w].parked = worker[w].parked =>
              Cardinality(WorkerDemand') = Cardinality(WorkerDemand)
         /\ Cardinality(WorkerBytes') = (Cardinality(WorkerBytes) + worker'[w].bytes) - worker[w].bytes
<1>1. IsFiniteSet(WorkerDemand) /\ IsFiniteSet(WorkerBytes)
  BY CountedFinite
<1>2. \A y : y # w => (y \in WorkerDemand' <=> y \in WorkerDemand)
  BY DEF Moves, Kept, WorkerDemand
<1>3. \A y : y # w => (y \in WorkerBytes' <=> y \in WorkerBytes)
  BY DEF Moves, Kept, WorkerBytes
<1>4. /\ w \in WorkerDemand <=> worker[w].parked
      /\ w \in WorkerDemand' <=> worker'[w].parked
  BY DEF WorkerDemand
<1>5. /\ w \in WorkerBytes <=> worker[w].bytes = 1
      /\ w \in WorkerBytes' <=> worker'[w].bytes = 1
      /\ worker[w].bytes \in {0, 1} /\ worker'[w].bytes \in {0, 1}
  BY DEF WorkerBytes, JobTypeOK, WorkerType
<1>6. /\ Cardinality(WorkerDemand) \in Nat /\ Cardinality(WorkerDemand') \in Nat
      /\ w \in WorkerDemand' /\ w \notin WorkerDemand =>
           Cardinality(WorkerDemand') = Cardinality(WorkerDemand) + 1
      /\ w \notin WorkerDemand' /\ w \in WorkerDemand =>
           Cardinality(WorkerDemand') = Cardinality(WorkerDemand) - 1
      /\ (w \in WorkerDemand' <=> w \in WorkerDemand) =>
           Cardinality(WorkerDemand') = Cardinality(WorkerDemand)
  BY <1>1, <1>2, OneChange
<1>7. /\ Cardinality(WorkerBytes) \in Nat /\ Cardinality(WorkerBytes') \in Nat
      /\ w \in WorkerBytes' /\ w \notin WorkerBytes =>
           Cardinality(WorkerBytes') = Cardinality(WorkerBytes) + 1
      /\ w \notin WorkerBytes' /\ w \in WorkerBytes =>
           Cardinality(WorkerBytes') = Cardinality(WorkerBytes) - 1
      /\ (w \in WorkerBytes' <=> w \in WorkerBytes) =>
           Cardinality(WorkerBytes') = Cardinality(WorkerBytes)
  BY <1>1, <1>3, OneChange
<1>8. Cardinality(WorkerBytes') = (Cardinality(WorkerBytes) + worker'[w].bytes) - worker[w].bytes
  BY <1>5, <1>7
<1> QED
  BY <1>4, <1>6, <1>7, <1>8

\* A step that leaves every worker alone leaves their counts alone.
LEMMA WorkersStill ==
  ASSUME \A v \in Workers : Kept(v)
  PROVE  WorkerDemand' = WorkerDemand /\ WorkerBytes' = WorkerBytes
BY DEF Kept, WorkerDemand, WorkerBytes

-----------------------------------------------------------------------------
(* The queue and its entries *)

\* An entry taken out leaves the others in the line, each once.
LEMMA TakenOut ==
  ASSUME JobTypeOK, Submitted, NEW j \in Jobs, queue' = Without(j)
  PROVE  /\ queue' \in Seq(Jobs) /\ Line' = Line \ {j}
         /\ \A i, k \in 1 .. Len(queue') : queue'[i] = queue'[k] => i = k
<1>0. queue \in Seq(Jobs) /\ (\A i, k \in 1 .. Len(queue) : queue[i] = queue[k] => i = k)
  BY DEF JobTypeOK, Submitted
<1>1. CASE ~Queued(j)
  BY <1>0, <1>1 DEF Without, Line, Queued
<1>2. CASE Queued(j)
  <2> DEFINE p == Place(j)
  <2>1. p \in 1 .. Len(queue) /\ queue[p] = j
    BY <1>2 DEF Queued, Place
  <2> HIDE DEF p
  <2>2. queue' = SubSeq(queue, 1, p - 1) \o SubSeq(queue, p + 1, Len(queue))
    BY <1>2 DEF Without, p
  <2>3. /\ queue' \in Seq(Jobs) /\ Len(queue') = Len(queue) - 1
        /\ \A i \in 1 .. Len(queue') : queue'[i] = IF i < p THEN queue[i] ELSE queue[i + 1]
    <3> DEFINE a == SubSeq(queue, 1, p - 1)
               b == SubSeq(queue, p + 1, Len(queue))
    <3>0. p \in Int /\ Len(queue) \in Int /\ 1 \in Int /\ p - 1 \in Int /\ p + 1 \in Int
      BY <1>0, <2>1
    <3>1. a \in Seq(Jobs) /\ Len(a) = p - 1 /\ \A i \in 1 .. p - 1 : a[i] = queue[i]
      <4>1. \A i \in 1 .. p - 1 : queue[i] \in Jobs
        BY <1>0, <2>1
      <4>2. /\ a \in Seq(Jobs) /\ Len(a) = (IF 1 <= p - 1 THEN (p - 1) - 1 + 1 ELSE 0)
            /\ \A i \in 1 .. (p - 1) - 1 + 1 : a[i] = queue[1 + i - 1]
        BY <3>0, <4>1, SubSeqProperties
      <4> HIDE DEF a
      <4> QED
        BY <2>1, <3>0, <4>2
    <3>2. b \in Seq(Jobs) /\ Len(b) = Len(queue) - p /\ \A i \in 1 .. Len(queue) - p : b[i] = queue[i + p]
      <4>1. \A i \in p + 1 .. Len(queue) : queue[i] \in Jobs
        BY <1>0, <2>1
      <4>2. /\ b \in Seq(Jobs) /\ Len(b) = (IF p + 1 <= Len(queue) THEN Len(queue) - (p + 1) + 1 ELSE 0)
            /\ \A i \in 1 .. Len(queue) - (p + 1) + 1 : b[i] = queue[(p + 1) + i - 1]
        BY <3>0, <4>1, SubSeqProperties
      <4>3. ASSUME NEW i \in 1 .. Len(queue) - p PROVE b[i] = queue[i + p]
        <5>1. i \in 1 .. Len(queue) - (p + 1) + 1 /\ (p + 1) + i - 1 = i + p
          BY <3>0
        <5> HIDE DEF b
        <5> QED
          BY <4>2, <5>1
      <4> HIDE DEF b
      <4> QED
        BY <2>1, <3>0, <4>2, <4>3
    <3>3. queue' = a \o b
      BY <2>2
    <3> HIDE DEF a, b
    <3>c. /\ a \o b \in Seq(Jobs) /\ Len(a \o b) = Len(a) + Len(b)
          /\ \A i \in 1 .. Len(a) + Len(b) : (a \o b)[i] = IF i <= Len(a) THEN a[i] ELSE b[i - Len(a)]
      BY <3>1, <3>2, ConcatProperties
    <3>4. queue' \in Seq(Jobs) /\ Len(queue') = Len(queue) - 1
      BY <3>0, <3>1, <3>2, <3>3, <3>c
    <3>5. ASSUME NEW i \in 1 .. Len(queue')
          PROVE  queue'[i] = IF i < p THEN queue[i] ELSE queue[i + 1]
      <4>1. queue'[i] = IF i <= Len(a) THEN a[i] ELSE b[i - Len(a)]
        BY <3>3, <3>c
      <4>2. CASE i < p
        BY <1>0, <2>1, <3>1, <3>4, <4>1, <4>2
      <4>3. CASE ~(i < p)
        <5>1. i - (p - 1) \in 1 .. Len(queue) - p /\ (i - (p - 1)) + p = i + 1
          BY <1>0, <2>1, <3>4, <4>3
        <5>2. b[i - (p - 1)] = queue[(i - (p - 1)) + p]
          BY <3>2, <5>1
        <5> QED
          BY <1>0, <2>1, <3>1, <3>4, <4>1, <4>3, <5>1, <5>2
      <4> QED
        BY <4>2, <4>3
    <3> QED
      BY <3>4, <3>5
  <2>4. \A k \in Jobs : Queued(k)' <=> (Queued(k) /\ k # j)
    <3> SUFFICES ASSUME NEW k \in Jobs
                 PROVE  (\E i \in 1 .. Len(queue') : queue'[i] = k)
                          <=> ((\E i \in 1 .. Len(queue) : queue[i] = k) /\ k # j)
      BY DEF Queued
    <3>1. ASSUME NEW i \in 1 .. Len(queue'), queue'[i] = k
          PROVE  (\E n \in 1 .. Len(queue) : queue[n] = k) /\ k # j
      BY <1>0, <2>1, <2>3, <3>1
    <3>2. ASSUME NEW n \in 1 .. Len(queue), queue[n] = k, k # j
          PROVE  \E i \in 1 .. Len(queue') : queue'[i] = k
      <4>1. n # p
        BY <2>1, <3>2
      <4>2. CASE n < p
        BY <2>1, <2>3, <3>2, <4>2
      <4>3. CASE n > p
        <5>1. n - 1 \in 1 .. Len(queue') /\ ~(n - 1 < p) /\ queue'[n - 1] = queue[(n - 1) + 1]
          BY <1>0, <2>1, <2>3, <4>3
        <5> QED
          BY <1>0, <3>2, <5>1
      <4> QED
        BY <2>1, <4>1, <4>2, <4>3
    <3> QED
      BY <3>1, <3>2
  <2>5. \A i, k \in 1 .. Len(queue') : queue'[i] = queue'[k] => i = k
    BY <1>0, <2>1, <2>3
  <2> QED
    BY <2>3, <2>4, <2>5 DEF Line
<1> QED
  BY <1>1, <1>2

\* A job put at the back, that was not in the line.
LEMMA PutAtTheBack ==
  ASSUME JobTypeOK, Submitted, NEW j \in Jobs, j \notin Line, queue' = Append(queue, j)
  PROVE  /\ queue' \in Seq(Jobs) /\ Line' = Line \cup {j}
         /\ \A i, k \in 1 .. Len(queue') : queue'[i] = queue'[k] => i = k
<1>0. queue \in Seq(Jobs) /\ (\A i, k \in 1 .. Len(queue) : queue[i] = queue[k] => i = k)
  BY DEF JobTypeOK, Submitted
<1>1. \A i \in 1 .. Len(queue) : queue[i] # j
  BY DEF Line, Queued
<1>2. /\ queue' \in Seq(Jobs) /\ Len(queue') = Len(queue) + 1
      /\ \A i \in 1 .. Len(queue') : queue'[i] = IF i = Len(queue) + 1 THEN j ELSE queue[i]
  BY <1>0
<1>3. \A k \in Jobs : Queued(k)' <=> (Queued(k) \/ k = j)
  BY <1>0, <1>2 DEF Queued
<1>4. \A i, k \in 1 .. Len(queue') : queue'[i] = queue'[k] => i = k
  BY <1>0, <1>1, <1>2
<1> QED
  BY <1>2, <1>3, <1>4 DEF Line

\* The entry that left takes its mark and its demand along.
LEMMA EntryOut ==
  ASSUME JobTypeOK, Submitted, NEW j \in Jobs, queue' = Without(j),
         entry' = Unblocked([entry EXCEPT ![j] = NoEntry])
  PROVE  /\ entry' \in [Jobs -> EntryType]
         /\ Tried' = Tried \ {j} /\ EntryDemand' = EntryDemand \ {j}
         /\ \A k \in Jobs : entry'[k].parked = IF k = j THEN FALSE ELSE entry[k].parked
<1> DEFINE e == [entry EXCEPT ![j] = NoEntry]
<1>1. NoEntry \in EntryType /\ NoEntry.trying = FALSE /\ NoEntry.parked = FALSE
  BY DEF NoEntry, EntryType
<1>2. e \in [Jobs -> EntryType] /\ \A k \in Jobs : e[k] = IF k = j THEN NoEntry ELSE entry[k]
  BY <1>1 DEF JobTypeOK
<1> HIDE DEF e
<1>3. entry' = [k \in Jobs |-> [e[k] EXCEPT !.blocked = FALSE]]
  BY DEF Unblocked, e
<1>4. \A k \in Jobs : /\ entry'[k] \in EntryType
                      /\ entry'[k].trying = e[k].trying /\ entry'[k].parked = e[k].parked
  <2> SUFFICES ASSUME NEW k \in Jobs
               PROVE  /\ entry'[k] \in EntryType
                      /\ entry'[k].trying = e[k].trying /\ entry'[k].parked = e[k].parked
    OBVIOUS
  <2>1. PICK r \in EntryType : r = e[k]
    BY <1>2
  <2>2. entry'[k] = [r EXCEPT !.blocked = FALSE]
    BY <1>3, <2>1
  <2> QED
    BY <2>1, <2>2 DEF EntryType
<1>5. \A k \in Jobs : /\ entry'[k].parked = IF k = j THEN FALSE ELSE entry[k].parked
                      /\ entry'[k].trying = IF k = j THEN FALSE ELSE entry[k].trying
  BY <1>1, <1>2, <1>4
<1>6. Line' = Line \ {j}
  BY TakenOut
<1>7. entry' \in [Jobs -> EntryType]
  BY <1>3, <1>4
<1>8. Tried' = Tried \ {j}
  BY <1>5 DEF Tried
<1>9. EntryDemand' = EntryDemand \ {j}
  <2>1. EntryDemand = {k \in Line : entry[k].parked} /\ EntryDemand' = {k \in Line' : entry'[k].parked}
    BY DEF EntryDemand, Line
  <2> QED
    BY <1>5, <1>6, <2>1 DEF Line
<1> QED
  BY <1>5, <1>7, <1>8, <1>9

-----------------------------------------------------------------------------
(* The workers *)

\* One worker is given a new record.
LEMMA WorkerSet ==
  ASSUME JobTypeOK, NEW w \in Workers, NEW r \in WorkerType, worker' = [worker EXCEPT ![w] = r]
  PROVE  worker' \in [Workers -> WorkerType] /\ Moves(w) /\ worker'[w] = r
BY DEF JobTypeOK, Moves, Kept

\* The same, while the generation moves on.
LEMMA WorkerSetMoved ==
  ASSUME JobTypeOK, NEW w \in Workers, NEW r \in WorkerType,
         worker' = Moved([worker EXCEPT ![w] = r])
  PROVE  /\ worker' \in [Workers -> WorkerType] /\ Moves(w)
         /\ worker'[w].at = r.at /\ worker'[w].job = r.job /\ worker'[w].parked = r.parked
         /\ worker'[w].counted = r.counted /\ worker'[w].bytes = r.bytes /\ worker'[w].result = r.result
<1> DEFINE n == [worker EXCEPT ![w] = r]
<1>1. n \in [Workers -> WorkerType] /\ \A v \in Workers : n[v] = IF v = w THEN r ELSE worker[v]
  BY DEF JobTypeOK
<1> HIDE DEF n
<1>2. worker' = [v \in Workers |-> [n[v] EXCEPT !.fresh = FALSE]]
  BY DEF Moved, n
<1>3. ASSUME NEW v \in Workers
      PROVE  /\ worker'[v] \in WorkerType
             /\ worker'[v].at = n[v].at /\ worker'[v].job = n[v].job /\ worker'[v].parked = n[v].parked
             /\ worker'[v].counted = n[v].counted /\ worker'[v].bytes = n[v].bytes
             /\ worker'[v].result = n[v].result
  <2>1. PICK x \in WorkerType : x = n[v]
    BY <1>1
  <2>2. worker'[v] = [x EXCEPT !.fresh = FALSE]
    BY <1>2, <2>1
  <2> QED
    BY <2>1, <2>2 DEF WorkerType
<1>4. worker' \in [Workers -> WorkerType]
  BY <1>2, <1>3
<1>5. \A v \in Workers : v # w => Kept(v)
  BY <1>1, <1>3 DEF Kept
<1> QED
  BY <1>1, <1>3, <1>4, <1>5 DEF Moves

\* A job that has an answer keeps it until it is swept.
AnswersKept ==
  stopping = "no" => \A j \in Jobs : j \in Answered => table'[j] \in {table[j], "absent"}

\* What the proof sees of the line, the table and the flags stays.
Quiet ==
  /\ Line' = Line /\ Tried' = Tried /\ EntryDemand' = EntryDemand
  /\ Answered' = Answered /\ Stored' = Stored
  /\ asking' = asking /\ cancelled' = cancelled /\ stopping' = stopping

\* What is to be shown of the one worker that moves.
HandAfter(w) ==
  /\ Hand(w)' /\ (stopping = "no" => RunningHand(w)')
  /\ \A v \in Workers : v # w /\ worker[v].job = worker'[w].job =>
       /\ Apart(v, w)' /\ Apart(w, v)'
       /\ stopping = "no" => RunningApart(v, w)' /\ RunningApart(w, v)'

\* The variables behind it.
LEMMA QuietVars ==
  ASSUME UNCHANGED <<table, spooled, asking, queue, entry, cancelled, stopping>>
  PROVE  Quiet
BY DEF Quiet, Line, Queued, Tried, EntryDemand, Answered, Stored

\* The other workers stay as they were when one moves and the rest is quiet.
LEMMA QuietHands ==
  ASSUME Hands, NEW w \in Workers, Moves(w), Quiet, HandAfter(w)
  PROVE  Hands'
<1>1. ASSUME NEW v \in Workers, v # w
      PROVE  Hand(v)' /\ (stopping = "no" => RunningHand(v)')
  <2>1. Hand(v) /\ (stopping = "no" => RunningHand(v)) /\ Kept(v)
    BY <1>1 DEF Hands, Moves
  <2>2. Hand(v)'
    BY <2>1 DEF Hand, Kept, Quiet
  <2>3. stopping = "no" => RunningHand(v)'
    BY <2>1 DEF RunningHand, Kept, Quiet
  <2> QED
    BY <2>2, <2>3
<1>2. \A v \in Workers : Hand(v)' /\ (stopping' = "no" => RunningHand(v)')
  BY <1>1 DEF HandAfter, Quiet
<1>3. ASSUME NEW v \in Workers, NEW u \in Workers, v # u, worker'[v].job = worker'[u].job
      PROVE  Apart(v, u)' /\ (stopping' = "no" => RunningApart(v, u)')
  <2>1. CASE u = w
    BY <1>3, <2>1 DEF HandAfter, Moves, Kept, Quiet
  <2>2. CASE v = w
    BY <1>3, <2>2 DEF HandAfter, Moves, Kept, Quiet
  <2>3. CASE v # w /\ u # w
    <3>1. Kept(v) /\ Kept(u)
      BY <2>3 DEF Moves
    <3>2. Apart(v, u) /\ (stopping = "no" => RunningApart(v, u))
      BY <1>3, <3>1 DEF Hands, Kept
    <3>3. Apart(v, u)'
      BY <3>1, <3>2 DEF Apart, Kept
    <3>4. stopping = "no" => RunningApart(v, u)'
      BY <3>1, <3>2 DEF RunningApart, Kept, Quiet
    <3> QED
      BY <3>3, <3>4 DEF Quiet
  <2> QED
    BY <2>1, <2>2, <2>3
<1> QED
  BY <1>2, <1>3 DEF Hands

\* A mark needs its worker: it stays with a job that is passed, or left.
LEMMA QuietEntries ==
  ASSUME Entries, NEW w \in Workers, Moves(w), Quiet,
         worker[w].at \in Passing \cup {"leave"} /\ worker[w].job \in Line /\ worker[w].job \in Tried =>
           worker'[w].at \in Passing \cup {"leave"} /\ worker'[w].job = worker[w].job
  PROVE  Entries'
<1>1. ASSUME NEW j \in Line, j \in Tried
      PROVE  \E v \in Workers : worker'[v].job = j /\ worker'[v].at \in Passing \cup {"leave"}
  <2>1. PICK v \in Workers : worker[v].job = j /\ worker[v].at \in Passing \cup {"leave"}
    BY <1>1 DEF Entries
  <2>2. CASE v = w
    BY <1>1, <2>1, <2>2
  <2>3. CASE v # w
    BY <2>1, <2>3 DEF Moves, Kept
  <2> QED
    BY <2>2, <2>3
<1> QED
  BY <1>1 DEF Entries, Quiet

\* The counters follow the worker that moves.
LEMMA QuietCounts ==
  ASSUME JobTypeOK, JobTypeOK', Counts, NEW w \in Workers, Moves(w), Quiet, holding' = holding,
         worker'[w].parked = worker[w].parked => demand' = demand,
         worker'[w].parked /\ ~worker[w].parked => demand' = demand + 1,
         ~worker'[w].parked /\ worker[w].parked => demand' = demand - 1,
         (used' + worker[w].bytes) + lost = (used + worker'[w].bytes) + lost',
         used' <= SpoolRoom
  PROVE  Counts'
<1>1. /\ Cardinality(WorkerDemand) \in Nat /\ Cardinality(WorkerBytes) \in Nat
      /\ Cardinality(WorkerDemand') \in Nat /\ Cardinality(WorkerBytes') \in Nat
      /\ worker'[w].parked /\ ~worker[w].parked =>
           Cardinality(WorkerDemand') = Cardinality(WorkerDemand) + 1
      /\ ~worker'[w].parked /\ worker[w].parked =>
           Cardinality(WorkerDemand') = Cardinality(WorkerDemand) - 1
      /\ worker'[w].parked = worker[w].parked =>
           Cardinality(WorkerDemand') = Cardinality(WorkerDemand)
      /\ Cardinality(WorkerBytes') = (Cardinality(WorkerBytes) + worker'[w].bytes) - worker[w].bytes
  BY WorkerCounts
<1>2. /\ Cardinality(holding) \in Nat /\ Cardinality(EntryDemand) \in Nat /\ Cardinality(Stored) \in Nat
      /\ Cardinality(holding') = Cardinality(holding) /\ Cardinality(EntryDemand') = Cardinality(EntryDemand)
      /\ Cardinality(Stored') = Cardinality(Stored)
  BY CountedFinite, FS_CardinalityType DEF Quiet
<1>3. /\ worker[w].bytes \in {0, 1} /\ worker'[w].bytes \in {0, 1}
      /\ worker[w].parked \in BOOLEAN /\ worker'[w].parked \in BOOLEAN
      /\ used \in Nat /\ used' \in Nat /\ lost \in Nat /\ lost' \in Nat /\ demand \in Nat /\ demand' \in Nat
  BY DEF JobTypeOK, WorkerType
<1>4. demand' = Cardinality(holding') + Cardinality(EntryDemand') + Cardinality(WorkerDemand')
  <2>1. CASE worker'[w].parked = worker[w].parked
    BY <1>1, <1>2, <1>3, <2>1 DEF Counts
  <2>2. CASE worker'[w].parked /\ ~worker[w].parked
    BY <1>1, <1>2, <1>3, <2>2 DEF Counts
  <2>3. CASE ~worker'[w].parked /\ worker[w].parked
    BY <1>1, <1>2, <1>3, <2>3 DEF Counts
  <2> QED
    BY <1>3, <2>1, <2>2, <2>3
<1>5. used' = Cardinality(Stored') + Cardinality(WorkerBytes') + lost'
  BY <1>1, <1>2, <1>3 DEF Counts
<1> QED
  BY <1>4, <1>5 DEF Counts

\* A worker that keeps its job keeps apart from the others.
LEMMA PairsKeep ==
  ASSUME Hands, NEW w \in Workers, Moves(w), cancelled' = cancelled, worker'[w].job = worker[w].job,
         worker[w].at \in Handled, worker'[w].at \in Handled,
         worker'[w].at \in Passing => worker[w].at \in Passing,
         worker'[w].bytes = 1 => worker[w].bytes = 1 \/ worker[w].at \in Passing,
         worker'[w].bytes = 1 /\ worker'[w].at \in Closing => worker[w].at \in Passing \cup Closing,
         worker'[w].at = "leave" => worker[w].at \in Passing \cup {"leave"},
         worker[w].job \in cancelled /\ worker[w].at \in {"leave", "judge", "discard"} =>
           \/ worker'[w].at \in {"leave", "judge", "discard"}
           \/ worker'[w].at = "write" /\ worker'[w].result = "cancelled",
         worker[w].at = "write" => worker'[w].at = "write" /\ worker'[w].result = worker[w].result,
         Hand(w)', stopping = "no" => RunningHand(w)'
  PROVE  HandAfter(w)
<1> SUFFICES ASSUME NEW v \in Workers, v # w, worker[v].job = worker'[w].job
             PROVE  /\ Apart(v, w)' /\ Apart(w, v)'
                    /\ stopping = "no" => RunningApart(v, w)' /\ RunningApart(w, v)'
  BY DEF HandAfter
<1>1. Kept(v) /\ Hand(v) /\ Apart(v, w) /\ Apart(w, v)
      /\ (stopping = "no" => RunningApart(v, w) /\ RunningApart(w, v))
  BY DEF Hands, Moves
<1>2. worker[v].bytes = 1 => worker[v].at \in Passing \cup Closing
  BY <1>1 DEF Hand, Passing, Closing
<1>3. Apart(v, w)' /\ Apart(w, v)'
  BY <1>1, <1>2 DEF Apart, Kept
<1>4. ASSUME stopping = "no" PROVE RunningApart(v, w)' /\ RunningApart(w, v)'
  <2>1. ~(worker'[v].at \in Passing /\ worker'[w].at = "leave")
    BY <1>1, <1>4 DEF RunningApart, Apart, Kept
  <2>2. ~(worker'[w].at \in Passing /\ worker'[v].at = "leave")
    BY <1>1, <1>4 DEF RunningApart, Kept
  <2>3. ASSUME worker'[v].at \in Handled
        PROVE  /\ worker'[v].job \in cancelled' /\ worker'[w].job \in cancelled'
               /\ \/ worker'[v].at \in {"leave", "judge", "discard"}
                  \/ worker'[v].at = "write" /\ worker'[v].result = "cancelled"
               /\ \/ worker'[w].at \in {"leave", "judge", "discard"}
                  \/ worker'[w].at = "write" /\ worker'[w].result = "cancelled"
    BY <1>1, <1>4, <2>3 DEF RunningApart, Kept
  <2> QED
    BY <2>1, <2>2, <2>3 DEF RunningApart
<1> QED
  BY <1>3, <1>4

\* A worker without a job is in nobody's way.
LEMMA AtRest ==
  ASSUME Hands, NEW w \in Workers, Moves(w), worker'[w].at \in {"take", "tick", "gone", "show"},
         ~worker'[w].parked, worker'[w].bytes = 0,
         worker'[w].at = "show" => worker'[w].job \in Jobs /\ asking'[worker'[w].job] = "accepted"
  PROVE  HandAfter(w)
<1>1. Hand(w)'
  BY DEF Hand, Passing, Closing, Handled
<1>2. RunningHand(w)'
  BY DEF RunningHand, Passing, Closing, Handled
<1>3. ASSUME NEW v \in Workers
      PROVE  Apart(v, w)' /\ Apart(w, v)' /\ RunningApart(v, w)' /\ RunningApart(w, v)'
  BY DEF Apart, RunningApart, Passing, Closing, Handled
<1> QED
  BY <1>1, <1>2, <1>3 DEF HandAfter

\* A step of one worker and the counters only.
LEMMA QuietStep ==
  ASSUME JobInv, JobTypeOK', NEW w \in Workers, Moves(w), Quiet, HandAfter(w),
         queue' = queue, \A k \in Jobs : entry'[k].parked = entry[k].parked,
         holding' = holding, table' = table,
         worker[w].at \in Passing \cup {"leave"} /\ worker[w].job \in Line /\ worker[w].job \in Tried =>
           worker'[w].at \in Passing \cup {"leave"} /\ worker'[w].job = worker[w].job,
         worker'[w].parked = worker[w].parked => demand' = demand,
         worker'[w].parked /\ ~worker[w].parked => demand' = demand + 1,
         ~worker'[w].parked /\ worker[w].parked => demand' = demand - 1,
         (used' + worker[w].bytes) + lost = (used + worker'[w].bytes) + lost',
         used' <= SpoolRoom
  PROVE  JobInv' /\ AnswersKept
<1> USE DEF JobInv
<1>1. Submitted'
  BY DEF Submitted, Quiet
<1>2. Hands'
  BY QuietHands
<1>3. Entries'
  BY QuietEntries
<1>4. Counts'
  BY QuietCounts
<1> QED
  BY <1>1, <1>2, <1>3, <1>4 DEF AnswersKept

\* Entries whose mark and demand stay leave the three sets alone.
LEMMA SameMarks ==
  ASSUME queue' = queue,
         \A k \in Jobs : entry'[k].trying = entry[k].trying /\ entry'[k].parked = entry[k].parked
  PROVE  Line' = Line /\ Tried' = Tried /\ EntryDemand' = EntryDemand
BY DEF Line, Queued, Tried, EntryDemand

-----------------------------------------------------------------------------
(* The steps of a worker that leave the line and the table alone *)

\* A worker's record, for the provers, and what its fields may be.
LEMMA WorkerRecord ==
  ASSUME JobTypeOK, NEW w \in Workers
  PROVE  /\ worker[w] \in WorkerType /\ worker[w].bytes \in {0, 1} /\ worker[w].parked \in BOOLEAN
         /\ used \in Nat /\ lost \in Nat /\ demand \in Nat
BY DEF JobTypeOK, WorkerType

\* PassEnds: the pass found the job waiting, failed, or answered it.
LEMMA PassEndsStep ==
  ASSUME JobInv, NEW w \in Workers, PassEnds(w)
  PROVE  JobInv' /\ AnswersKept
<1> USE DEF JobInv
<1>1. PICK result \in Waits \cup {"failed", "succeeded"} :
        worker' = [worker EXCEPT ![w] =
          [worker[w] EXCEPT !.at = "ended", !.result = result, !.admitted = FALSE, !.bytes = 0]]
  BY DEF PassEnds, Ended, Set
<1>2. worker[w].at = "pass" /\ UNCHANGED <<table, spooled, used, asking, holding, queue, entry,
                                scene, expired, cancelled, stopping, demand, lost>>
  BY DEF PassEnds, store, line, times
<1>x. PICK x \in WorkerType : x = worker[w]
  BY WorkerRecord
<1> DEFINE r == [x EXCEPT !.at = "ended", !.result = result, !.admitted = FALSE, !.bytes = 0]
<1>3. /\ r \in WorkerType /\ r.at = "ended" /\ r.job = x.job /\ r.parked = x.parked
      /\ r.counted = x.counted /\ r.bytes = 0 /\ r.result = result
  BY DEF WorkerType, Points, Results
<1>4. worker' \in [Workers -> WorkerType] /\ Moves(w) /\ worker'[w] = r
  BY <1>1, <1>x, <1>3, WorkerSet
<1> HIDE DEF r
<1>5. JobTypeOK'
  BY <1>2, <1>4 DEF JobTypeOK
<1>6. Quiet
  BY <1>2, QuietVars
<1>7. Hand(w) /\ (stopping = "no" => RunningHand(w))
  BY DEF Hands
<1>8. Hand(w)'
  BY <1>2, <1>x, <1>3, <1>4, <1>6, <1>7 DEF Hand, Passing, Closing, Handled, Quiet
<1>9. stopping = "no" => RunningHand(w)'
  BY <1>2, <1>x, <1>3, <1>4, <1>6, <1>7 DEF RunningHand, Passing, Handled, Quiet
<1>10. HandAfter(w)
  BY <1>2, <1>x, <1>3, <1>4, <1>6, <1>8, <1>9, PairsKeep DEF Passing, Closing, Handled, Quiet
<1>11. worker[w].bytes = 0 /\ used <= SpoolRoom
  BY <1>2, <1>7, WorkerRecord DEF Hand, Closing, Counts
<1> QED
  BY <1>2, <1>x, <1>3, <1>4, <1>5, <1>6, <1>10, <1>11, WorkerRecord, QuietStep DEF Passing

\* Reserve: room for the parts is taken, or the pass ends without.
LEMMA ReserveStep ==
  ASSUME JobInv, NEW w \in Workers, Reserve(w)
  PROVE  JobInv' /\ AnswersKept
<1> USE DEF JobInv
<1>x. PICK x \in WorkerType : x = worker[w]
  BY WorkerRecord
<1>1. worker[w].at = "pass" /\ UNCHANGED <<table, spooled, asking, holding, queue, entry,
                                scene, expired, cancelled, stopping, demand, lost>>
  BY DEF Reserve, line, times
<1>2. Hand(w) /\ (stopping = "no" => RunningHand(w))
  BY DEF Hands
<1>3. Quiet
  BY <1>1, QuietVars
<1>4. x.bytes = 0 /\ used <= SpoolRoom /\ used \in Nat /\ lost \in Nat /\ SpoolRoom \in Nat
  BY <1>x, <1>1, <1>2, WorkerRecord, JobAssumption DEF Hand, Closing, Counts
<1>5. CASE \E result \in {"failed", "backoff"} : Ended(w, result, 0) /\ used' = used
  <2>1. PICK result \in {"failed", "backoff"} : Ended(w, result, 0) /\ used' = used
    BY <1>5
  <2> DEFINE r == [x EXCEPT !.at = "ended", !.result = result, !.admitted = FALSE, !.bytes = 0]
  <2>2. /\ r \in WorkerType /\ r.at = "ended" /\ r.job = x.job /\ r.parked = x.parked
        /\ r.counted = x.counted /\ r.bytes = 0 /\ r.result = result
    BY DEF WorkerType, Points, Results
  <2>3. worker' \in [Workers -> WorkerType] /\ Moves(w) /\ worker'[w] = r
    BY <1>x, <2>1, <2>2, WorkerSet DEF Ended, Set
  <2> HIDE DEF r
  <2>4. JobTypeOK'
    BY <1>1, <2>1, <2>3 DEF JobTypeOK
  <2>5. Hand(w)'
    BY <1>x, <1>1, <1>2, <1>3, <2>2, <2>3 DEF Hand, Passing, Closing, Handled, Quiet
  <2>6. stopping = "no" => RunningHand(w)'
    BY <1>x, <1>1, <1>2, <1>3, <2>2, <2>3 DEF RunningHand, Passing, Handled, Quiet
  <2>7. HandAfter(w)
    BY <1>x, <1>1, <1>3, <2>2, <2>3, <2>5, <2>6, PairsKeep DEF Passing, Closing, Handled, Quiet
  <2> QED
    BY <1>x, <1>1, <1>3, <1>4, <2>1, <2>2, <2>3, <2>4, <2>7, QuietStep DEF Passing
<1>6. CASE /\ used < SpoolRoom /\ used' = used + 1
           /\ Set(w, [worker[w] EXCEPT !.at = "fetch", !.bytes = 1])
  <2> DEFINE r == [x EXCEPT !.at = "fetch", !.bytes = 1]
  <2>2. /\ r \in WorkerType /\ r.at = "fetch" /\ r.job = x.job /\ r.parked = x.parked
        /\ r.counted = x.counted /\ r.bytes = 1 /\ r.result = x.result
    BY DEF WorkerType, Points
  <2>3. worker' \in [Workers -> WorkerType] /\ Moves(w) /\ worker'[w] = r
    BY <1>x, <1>6, <2>2, WorkerSet DEF Set
  <2> HIDE DEF r
  <2>4. JobTypeOK'
    BY <1>1, <1>4, <1>6, <2>3 DEF JobTypeOK
  <2>5. Hand(w)'
    BY <1>x, <1>1, <1>2, <1>3, <2>2, <2>3 DEF Hand, Passing, Closing, Handled, Quiet
  <2>6. stopping = "no" => RunningHand(w)'
    BY <1>x, <1>1, <1>2, <1>3, <2>2, <2>3 DEF RunningHand, Passing, Handled, Quiet
  <2>7. HandAfter(w)
    BY <1>x, <1>1, <1>3, <2>2, <2>3, <2>5, <2>6, PairsKeep DEF Passing, Closing, Handled, Quiet
  <2> QED
    BY <1>x, <1>1, <1>3, <1>4, <1>6, <2>2, <2>3, <2>4, <2>7, QuietStep DEF Passing
<1> QED
  BY <1>4, <1>5, <1>6 DEF Reserve

\* Fetch: the parts are there, or their room is given back.
LEMMA FetchStep ==
  ASSUME JobInv, NEW w \in Workers, Fetch(w)
  PROVE  JobInv' /\ AnswersKept
<1> USE DEF JobInv
<1>x. PICK x \in WorkerType : x = worker[w]
  BY WorkerRecord
<1>1. worker[w].at = "fetch" /\ UNCHANGED <<table, spooled, asking, holding, queue, entry,
                                scene, expired, cancelled, stopping, demand, lost>>
  BY DEF Fetch, line, times
<1>2. Hand(w) /\ (stopping = "no" => RunningHand(w))
  BY DEF Hands
<1>3. Quiet
  BY <1>1, QuietVars
<1>4. x.bytes = 1 /\ used <= SpoolRoom /\ used \in Nat /\ lost \in Nat /\ SpoolRoom \in Nat
  BY <1>x, <1>1, <1>2, WorkerRecord, JobAssumption DEF Hand, Closing, Counts
<1>5. used >= 1
  <2>1. w \in WorkerBytes /\ IsFiniteSet(WorkerBytes)
    BY <1>x, <1>4, CountedFinite DEF WorkerBytes
  <2>2. Cardinality(WorkerBytes) # 0 /\ Cardinality(WorkerBytes) \in Nat
    BY <2>1, FS_EmptySet, FS_CardinalityType
  <2>3. Cardinality(Stored) \in Nat
    BY CountedFinite, FS_CardinalityType
  <2> QED
    BY <1>4, <2>2, <2>3 DEF Counts
<1>6. PICK result \in {"succeeded", "failed"}, b \in {0, 1} :
        /\ Ended(w, result, b)
        /\ \/ b = 1 /\ result = "succeeded" /\ used' = used
           \/ b = 0 /\ result = "failed" /\ used' = used - 1
  BY DEF Fetch
<1> DEFINE r == [x EXCEPT !.at = "ended", !.result = result, !.admitted = FALSE, !.bytes = b]
<1>7. /\ r \in WorkerType /\ r.at = "ended" /\ r.job = x.job /\ r.parked = x.parked
      /\ r.counted = x.counted /\ r.bytes = b /\ r.result = result
  BY DEF WorkerType, Points, Results
<1>8. worker' \in [Workers -> WorkerType] /\ Moves(w) /\ worker'[w] = r
  BY <1>x, <1>6, <1>7, WorkerSet DEF Ended, Set
<1> HIDE DEF r
<1>9. JobTypeOK'
  BY <1>1, <1>4, <1>5, <1>6, <1>8 DEF JobTypeOK
<1>10. Hand(w)'
  BY <1>x, <1>1, <1>2, <1>3, <1>6, <1>7, <1>8 DEF Hand, Passing, Closing, Handled, Quiet
<1>11. stopping = "no" => RunningHand(w)'
  BY <1>x, <1>1, <1>2, <1>3, <1>7, <1>8 DEF RunningHand, Passing, Handled, Quiet
<1>12. HandAfter(w)
  BY <1>x, <1>1, <1>3, <1>7, <1>8, <1>10, <1>11, PairsKeep DEF Passing, Closing, Handled, Quiet
<1> QED
  BY <1>x, <1>1, <1>3, <1>4, <1>5, <1>6, <1>7, <1>8, <1>9, <1>12, QuietStep DEF Passing

\* Decide: the job is to be put back, perhaps with demand, or to be left.
LEMMA DecideStep ==
  ASSUME JobInv, NEW w \in Workers, Decide(w)
  PROVE  JobInv' /\ AnswersKept
<1> USE DEF JobInv
<1>x. PICK x \in WorkerType : x = worker[w]
  BY WorkerRecord
<1>1. worker[w].at = "ended" /\ UNCHANGED <<table, spooled, used, asking, holding, queue,
                                scene, expired, cancelled, stopping, lost>>
  BY DEF Decide, store, times
<1>2. Hand(w) /\ (stopping = "no" => RunningHand(w))
  BY DEF Hands
<1>3. x.job \in Jobs /\ x.parked = FALSE
  BY <1>x, <1>1, <1>2, WorkerRecord DEF Hand, Handled, Passing
<1>4. PICK over \in BOOLEAN, waits \in BOOLEAN, parks \in BOOLEAN :
        /\ waits => x.result \in Waits \cup {"backoff"}
        /\ parks => waits /\ ~x.counted
        /\ entry' = [entry EXCEPT ![x.job].recovery = @ \/ (x.result = "recovery" /\ Queued(x.job))]
        /\ demand' = demand + One(parks)
        /\ Set(w, IF waits THEN [x EXCEPT !.at = "put_back", !.counted = FALSE, !.parked = parks]
                  ELSE [x EXCEPT !.at = "leave", !.counted = FALSE,
                          !.result = IF @ = "succeeded" THEN @ ELSE "failed"])
  <2>1. PICK over \in BOOLEAN :
          LET j     == x.job
              why   == x.result
              waits == /\ why \in Waits \cup {"backoff"} /\ j \notin cancelled /\ j \notin expired
                       /\ why = "recovery" => Queued(j) /\ ~over
                       /\ why = "backoff" => entry[j].attempts + 1 < MaxAttempts
              parks == waits /\ why = "activation" /\ ~x.counted /\ demand < MaxParked
          IN
          /\ entry' = [entry EXCEPT ![j].recovery = @ \/ (why = "recovery" /\ Queued(j))]
          /\ demand' = demand + One(parks)
          /\ Set(w, IF waits THEN [x EXCEPT !.at = "put_back", !.counted = FALSE, !.parked = parks]
                    ELSE [x EXCEPT !.at = "leave", !.counted = FALSE,
                            !.result = IF @ = "succeeded" THEN @ ELSE "failed"])
    BY <1>x, Zenon DEF Decide
  <2> DEFINE waits == /\ x.result \in Waits \cup {"backoff"} /\ x.job \notin cancelled /\ x.job \notin expired
                      /\ x.result = "recovery" => Queued(x.job) /\ ~over
                      /\ x.result = "backoff" => entry[x.job].attempts + 1 < MaxAttempts
             parks == waits /\ x.result = "activation" /\ ~x.counted /\ demand < MaxParked
  <2>2. waits \in BOOLEAN /\ parks \in BOOLEAN /\ (waits => x.result \in Waits \cup {"backoff"})
        /\ (parks => waits /\ ~x.counted)
    OBVIOUS
  <2>3. /\ entry' = [entry EXCEPT ![x.job].recovery = @ \/ (x.result = "recovery" /\ Queued(x.job))]
        /\ demand' = demand + One(parks)
        /\ Set(w, IF waits THEN [x EXCEPT !.at = "put_back", !.counted = FALSE, !.parked = parks]
                  ELSE [x EXCEPT !.at = "leave", !.counted = FALSE,
                          !.result = IF @ = "succeeded" THEN @ ELSE "failed"])
    BY <2>1
  <2> HIDE DEF waits, parks
  <2> QED
    BY <2>2, <2>3, Zenon
<1>5. /\ entry' \in [Jobs -> EntryType]
      /\ \A k \in Jobs : entry'[k].trying = entry[k].trying /\ entry'[k].parked = entry[k].parked
  <2>1. PICK e \in EntryType : e = entry[x.job]
    BY <1>3 DEF JobTypeOK
  <2>2. PICK b \in BOOLEAN : b = (e.recovery \/ (x.result = "recovery" /\ Queued(x.job)))
    BY <2>1 DEF EntryType
  <2> DEFINE f == [e EXCEPT !.recovery = b]
  <2>3. f \in EntryType /\ f.trying = e.trying /\ f.parked = e.parked
    BY DEF EntryType
  <2>4. entry' = [entry EXCEPT ![x.job] = f]
    BY <1>4, <2>1, <2>2
  <2> HIDE DEF f
  <2> QED
    BY <1>3, <2>1, <2>3, <2>4 DEF JobTypeOK
<1>6. Quiet
  BY <1>1, <1>5, SameMarks DEF Quiet, Answered, Stored
<1>7. /\ demand \in Nat /\ demand' \in Nat
      /\ parks => demand' = demand + 1
      /\ ~parks => demand' = demand
  BY <1>4, WorkerRecord DEF One
<1>8. used <= SpoolRoom
  BY DEF Counts
<1>9. CASE waits
  <2> DEFINE r == [x EXCEPT !.at = "put_back", !.counted = FALSE, !.parked = parks]
  <2>2. /\ r \in WorkerType /\ r.at = "put_back" /\ r.job = x.job /\ r.parked = parks
        /\ r.counted = FALSE /\ r.bytes = x.bytes /\ r.result = x.result
    BY DEF WorkerType, Points
  <2>3. worker' \in [Workers -> WorkerType] /\ Moves(w) /\ worker'[w] = r
    BY <1>4, <1>9, <2>2, WorkerSet DEF Set
  <2> HIDE DEF r
  <2>4. JobTypeOK'
    BY <1>1, <1>5, <1>7, <2>3 DEF JobTypeOK
  <2>n. x.result # "succeeded" /\ x.bytes = 0
    <3>1. x.result # "succeeded"
      BY <1>4, <1>9, JobAssumption
    <3> QED
      BY <1>x, <1>1, <1>2, <3>1, WorkerRecord DEF Hand
  <2>c. parks => x.job \notin EntryDemand
    BY <1>x, <1>1, <1>2, <1>3, <1>4 DEF Hand, EntryDemand, Line
  <2>5. Hand(w)'
    BY <1>x, <1>1, <1>2, <1>3, <1>6, <2>2, <2>3, <2>n, <2>c DEF Hand, Passing, Closing, Handled, Quiet
  <2>6. stopping = "no" => RunningHand(w)'
    BY <1>x, <1>1, <1>2, <1>6, <2>2, <2>3 DEF RunningHand, Passing, Handled, Quiet
  <2>7. HandAfter(w)
    BY <1>x, <1>1, <1>6, <2>2, <2>3, <2>5, <2>6, <2>n, PairsKeep DEF Passing, Closing, Handled, Quiet
  <2>8. (used' + worker[w].bytes) + lost = (used + worker'[w].bytes) + lost'
    BY <1>x, <1>1, <2>2, <2>3
  <2> QED
    BY <1>x, <1>1, <1>3, <1>5, <1>6, <1>7, <1>8, <2>2, <2>3, <2>4, <2>7, <2>8, QuietStep DEF Passing
<1>10. CASE ~waits
  <2>1. PICK res \in Results : /\ res = (IF x.result = "succeeded" THEN x.result ELSE "failed")
                               /\ x.result = "succeeded" => res = "succeeded"
    BY DEF Results
  <2> DEFINE r == [x EXCEPT !.at = "leave", !.counted = FALSE, !.result = res]
  <2>2. /\ r \in WorkerType /\ r.at = "leave" /\ r.job = x.job /\ r.parked = x.parked
        /\ r.counted = FALSE /\ r.bytes = x.bytes /\ r.result = res
    BY DEF WorkerType, Points
  <2>3. worker' \in [Workers -> WorkerType] /\ Moves(w) /\ worker'[w] = r
    <3>1. worker' = [worker EXCEPT ![w] = r]
      BY <1>4, <1>10, <2>1 DEF Set
    <3> HIDE DEF r
    <3> QED
      BY <2>2, <3>1, WorkerSet
  <2> HIDE DEF r
  <2>4. JobTypeOK'
    BY <1>1, <1>5, <1>7, <2>3 DEF JobTypeOK
  <2>5. Hand(w)'
    BY <1>x, <1>1, <1>2, <1>3, <1>6, <2>1, <2>2, <2>3 DEF Hand, Passing, Closing, Handled, Quiet
  <2>6. stopping = "no" => RunningHand(w)'
    BY <1>x, <1>1, <1>2, <1>6, <2>2, <2>3 DEF Hand, RunningHand, Passing, Closing, Handled, Quiet
  <2>7. HandAfter(w)
    BY <1>x, <1>1, <1>6, <2>2, <2>3, <2>5, <2>6, PairsKeep DEF Passing, Closing, Handled, Quiet
  <2>8. (used' + worker[w].bytes) + lost = (used + worker'[w].bytes) + lost'
    BY <1>x, <1>1, <2>2, <2>3
  <2>9. ~parks
    BY <1>4, <1>10
  <2> QED
    BY <1>x, <1>1, <1>3, <1>5, <1>6, <1>7, <1>8, <2>2, <2>3, <2>4, <2>7, <2>8, <2>9, QuietStep DEF Passing
<1> QED
  BY <1>9, <1>10

\* Idle is a worker's record.
LEMMA IdleRecord ==
  /\ Idle \in WorkerType /\ Idle.at = "take" /\ Idle.job = "none" /\ Idle.parked = FALSE
  /\ Idle.counted = FALSE /\ Idle.bytes = 0 /\ Idle.result = "none"
BY DEF Idle, WorkerType, Points, Results

\* Quit, Nap: a worker stops, or goes to sleep.
LEMMA RestStep ==
  ASSUME JobInv, NEW w \in Workers, Quit(w) \/ Nap(w)
  PROVE  JobInv' /\ AnswersKept
<1> USE DEF JobInv
<1>x. PICK x \in WorkerType : x = worker[w]
  BY WorkerRecord
<1>1. PICK point \in {"gone", "tick"} :
        /\ worker[w].at = "take" /\ worker' = [worker EXCEPT ![w] = [worker[w] EXCEPT !.at = point]]
        /\ UNCHANGED <<table, spooled, used, asking, holding, queue, entry,
                       scene, expired, cancelled, stopping, demand, lost>>
  BY DEF Quit, Nap, Go, Set, store, line, times
<1> DEFINE r == [x EXCEPT !.at = point]
<1>2. r \in WorkerType /\ r.at = point /\ r.job = x.job /\ r.parked = x.parked /\ r.bytes = x.bytes
  BY DEF WorkerType, Points
<1>3. worker' \in [Workers -> WorkerType] /\ Moves(w) /\ worker'[w] = r
  BY <1>x, <1>1, <1>2, WorkerSet
<1> HIDE DEF r
<1>4. JobTypeOK'
  BY <1>1, <1>3 DEF JobTypeOK
<1>5. Quiet
  BY <1>1, QuietVars
<1>6. x.parked = FALSE /\ x.bytes = 0
  BY <1>x, <1>1, WorkerRecord DEF Hands, Hand, Closing
<1>7. HandAfter(w)
  BY <1>1, <1>2, <1>3, <1>6, AtRest
<1>8. used <= SpoolRoom /\ (used' + worker[w].bytes) + lost = (used + worker'[w].bytes) + lost'
  BY <1>x, <1>1, <1>2, <1>3 DEF Counts
<1> QED
  BY <1>x, <1>1, <1>2, <1>3, <1>4, <1>5, <1>7, <1>8, QuietStep DEF Passing

\* Tick: the sleeper wakes and blocked work may be tried again.
LEMMA TickStep ==
  ASSUME JobInv, NEW w \in Workers, Tick(w)
  PROVE  JobInv' /\ AnswersKept
<1> USE DEF JobInv
<1>x. PICK x \in WorkerType : x = worker[w]
  BY WorkerRecord
<1>1. /\ worker[w].at = "tick" /\ entry' = Unblocked(entry)
      /\ worker' = Moved([worker EXCEPT ![w] = [worker[w] EXCEPT !.at = "take"]])
      /\ UNCHANGED <<table, spooled, used, asking, holding, queue,
                     scene, expired, cancelled, stopping, demand, lost>>
  BY DEF Tick, store, times
<1> DEFINE r == [x EXCEPT !.at = "take"]
<1>2. r \in WorkerType /\ r.at = "take" /\ r.job = x.job /\ r.parked = x.parked /\ r.bytes = x.bytes
  BY DEF WorkerType, Points
<1>3. /\ worker' \in [Workers -> WorkerType] /\ Moves(w)
      /\ worker'[w].at = r.at /\ worker'[w].job = r.job /\ worker'[w].parked = r.parked
      /\ worker'[w].bytes = r.bytes
  BY <1>x, <1>1, <1>2, WorkerSetMoved
<1> HIDE DEF r
<1>4. ASSUME NEW k \in Jobs
      PROVE  /\ entry'[k] \in EntryType
             /\ entry'[k].trying = entry[k].trying /\ entry'[k].parked = entry[k].parked
  <2>1. PICK e \in EntryType : e = entry[k]
    BY DEF JobTypeOK
  <2>2. entry'[k] = [e EXCEPT !.blocked = FALSE]
    BY <1>1, <2>1 DEF Unblocked
  <2> QED
    BY <2>1, <2>2 DEF EntryType
<1>5. JobTypeOK'
  <2>1. entry' \in [Jobs -> EntryType]
    BY <1>1, <1>4 DEF Unblocked
  <2> QED
    BY <1>1, <1>3, <2>1 DEF JobTypeOK
<1>6. Quiet
  BY <1>1, <1>4, SameMarks DEF Quiet, Answered, Stored
<1>7. x.parked = FALSE /\ x.bytes = 0
  BY <1>x, <1>1, WorkerRecord DEF Hands, Hand, Closing
<1>8. HandAfter(w)
  BY <1>1, <1>2, <1>3, <1>7, AtRest
<1>9. used <= SpoolRoom /\ (used' + worker[w].bytes) + lost = (used + worker'[w].bytes) + lost'
  BY <1>x, <1>1, <1>2, <1>3 DEF Counts
<1> QED
  BY <1>x, <1>1, <1>2, <1>3, <1>4, <1>5, <1>6, <1>8, <1>9, QuietStep DEF Passing

\* Somebody who holds demand is counted.
LEMMA DemandHeld ==
  ASSUME JobInv, NEW w \in Workers
  PROVE  worker[w].parked => demand >= 1
<1> USE DEF JobInv
<1>1. /\ Cardinality(holding) \in Nat /\ Cardinality(EntryDemand) \in Nat /\ Cardinality(WorkerDemand) \in Nat
  BY CountedFinite, FS_CardinalityType
<1>2. ASSUME worker[w].parked PROVE Cardinality(WorkerDemand) # 0
  <2>1. w \in WorkerDemand /\ IsFiniteSet(WorkerDemand)
    BY <1>2, CountedFinite DEF WorkerDemand
  <2> QED
    BY <2>1, FS_EmptySet
<1> QED
  BY <1>1, <1>2 DEF Counts

\* Discard: the demand of a dead entry is given back.
LEMMA DiscardStep ==
  ASSUME JobInv, NEW w \in Workers, Discard(w)
  PROVE  JobInv' /\ AnswersKept
<1> USE DEF JobInv
<1>x. PICK x \in WorkerType : x = worker[w]
  BY WorkerRecord
<1>1. /\ worker[w].at = "discard" /\ demand' = demand - One(x.parked)
      /\ UNCHANGED <<table, spooled, used, asking, holding, queue, entry,
                     scene, expired, cancelled, stopping, lost>>
  BY <1>x DEF Discard, store, line, times
<1>2. Hand(w) /\ (stopping = "no" => RunningHand(w))
  BY DEF Hands
<1>3. x.job \in Jobs /\ x.bytes = 0
  BY <1>x, <1>1, <1>2, WorkerRecord DEF Hand, Handled, Passing, Closing
<1>4. /\ demand \in Nat /\ demand' \in Nat
      /\ x.parked => demand' = demand - 1
      /\ ~x.parked => demand' = demand
  BY <1>x, <1>1, WorkerRecord, DemandHeld DEF One
<1>5. Quiet
  BY <1>1, QuietVars
<1>6. used <= SpoolRoom
  BY DEF Counts
<1>7. CASE x.job \in cancelled
  <2>1. worker' \in [Workers -> WorkerType] /\ Moves(w) /\ worker'[w] = Idle
    BY <1>x, <1>7, IdleRecord, WorkerSet DEF Discard, Set
  <2>2. JobTypeOK'
    BY <1>1, <1>4, <2>1 DEF JobTypeOK
  <2>3. HandAfter(w)
    BY <2>1, IdleRecord, AtRest
  <2>4. (used' + worker[w].bytes) + lost = (used + worker'[w].bytes) + lost'
    BY <1>x, <1>1, <1>3, <2>1, IdleRecord
  <2> QED
    BY <1>x, <1>1, <1>4, <1>5, <1>6, <2>1, <2>2, <2>3, <2>4, IdleRecord, QuietStep DEF Passing
<1>8. CASE x.job \notin cancelled
  <2> DEFINE r == [x EXCEPT !.at = "write", !.parked = FALSE, !.result = "failed"]
  <2>1. /\ r \in WorkerType /\ r.at = "write" /\ r.job = x.job /\ r.parked = FALSE
        /\ r.counted = x.counted /\ r.bytes = x.bytes /\ r.result = "failed"
    BY DEF WorkerType, Points, Results
  <2>2. worker' \in [Workers -> WorkerType] /\ Moves(w) /\ worker'[w] = r
    BY <1>x, <1>8, <2>1, WorkerSet DEF Discard, Set
  <2> HIDE DEF r
  <2>3. JobTypeOK'
    BY <1>1, <1>4, <2>2 DEF JobTypeOK
  <2>4. Hand(w)'
    BY <1>x, <1>1, <1>2, <1>3, <1>5, <2>1, <2>2 DEF Hand, Passing, Closing, Handled, Quiet, Terminal
  <2>5. stopping = "no" => RunningHand(w)'
    BY <1>x, <1>1, <1>2, <1>5, <2>1, <2>2 DEF RunningHand, Passing, Closing, Handled, Quiet
  <2>6. HandAfter(w)
    BY <1>x, <1>1, <1>3, <1>5, <1>8, <2>1, <2>2, <2>4, <2>5, PairsKeep DEF Passing, Closing, Handled, Quiet
  <2>7. (used' + worker[w].bytes) + lost = (used + worker'[w].bytes) + lost'
    BY <1>x, <1>1, <2>1, <2>2
  <2> QED
    BY <1>x, <1>1, <1>4, <1>5, <1>6, <2>1, <2>2, <2>3, <2>6, <2>7, QuietStep DEF Passing
<1> QED
  BY <1>7, <1>8

\* Judge: the demand goes back, and a cancelled run loses its output.
LEMMA JudgeStep ==
  ASSUME JobInv, NEW w \in Workers, Judge(w)
  PROVE  JobInv' /\ AnswersKept
<1> USE DEF JobInv
<1>x. PICK x \in WorkerType : x = worker[w]
  BY WorkerRecord
<1>1. /\ worker[w].at = "judge" /\ demand' = demand - One(x.parked)
      /\ UNCHANGED <<table, spooled, used, asking, holding, queue, entry,
                     scene, expired, cancelled, stopping>>
  BY <1>x DEF Judge, store, line, times
<1>2. Hand(w) /\ (stopping = "no" => RunningHand(w))
  BY DEF Hands
<1>3. x.job \in Jobs /\ x.bytes \in {0, 1}
  BY <1>x, <1>1, <1>2, WorkerRecord DEF Hand, Handled, Passing, Closing
<1>4. /\ demand \in Nat /\ demand' \in Nat
      /\ x.parked => demand' = demand - 1
      /\ ~x.parked => demand' = demand
  BY <1>x, <1>1, WorkerRecord, DemandHeld DEF One
<1>5. Quiet
  BY <1>1, QuietVars
<1>6. used <= SpoolRoom /\ used \in Nat /\ lost \in Nat
  BY WorkerRecord DEF Counts
<1>7. PICK res \in {"cancelled", "succeeded", "failed"}, b \in {0, 1} :
        /\ worker' = [worker EXCEPT ![w] = [x EXCEPT !.at = "write", !.parked = FALSE,
                                              !.result = res, !.bytes = b]]
        /\ x.job \in cancelled => res = "cancelled" /\ b = 0 /\ lost' = lost + x.bytes
        /\ x.job \notin cancelled => b = x.bytes /\ lost' = lost
  <2>1. CASE x.job \in cancelled
    BY <1>x, <2>1 DEF Judge, Set
  <2>2. CASE x.job \notin cancelled
    <3>1. PICK res \in {"succeeded", "failed"} :
            /\ worker' = [worker EXCEPT ![w] = [x EXCEPT !.at = "write", !.parked = FALSE, !.result = res]]
            /\ lost' = lost
      BY <1>x, <2>2 DEF Judge, Set
    <3>2. [x EXCEPT !.at = "write", !.parked = FALSE, !.result = res]
            = [x EXCEPT !.at = "write", !.parked = FALSE, !.result = res, !.bytes = x.bytes]
      BY DEF WorkerType
    <3> QED
      BY <1>3, <2>2, <3>1, <3>2
  <2> QED
    BY <2>1, <2>2
<1> DEFINE r == [x EXCEPT !.at = "write", !.parked = FALSE, !.result = res, !.bytes = b]
<1>8. /\ r \in WorkerType /\ r.at = "write" /\ r.job = x.job /\ r.parked = FALSE
      /\ r.counted = x.counted /\ r.bytes = b /\ r.result = res
  BY DEF WorkerType, Points, Results
<1>9. worker' \in [Workers -> WorkerType] /\ Moves(w) /\ worker'[w] = r
  BY <1>7, <1>8, WorkerSet
<1> HIDE DEF r
<1>10. JobTypeOK'
  BY <1>1, <1>3, <1>4, <1>6, <1>7, <1>9 DEF JobTypeOK
<1>11. Hand(w)'
  BY <1>x, <1>1, <1>2, <1>3, <1>5, <1>7, <1>8, <1>9 DEF Hand, Passing, Closing, Handled, Quiet, Terminal
<1>12. stopping = "no" => RunningHand(w)'
  BY <1>x, <1>1, <1>2, <1>5, <1>8, <1>9 DEF RunningHand, Passing, Closing, Handled, Quiet
<1>13. HandAfter(w)
  BY <1>x, <1>1, <1>3, <1>5, <1>7, <1>8, <1>9, <1>11, <1>12, PairsKeep DEF Passing, Closing, Handled, Quiet
<1>14. (used' + worker[w].bytes) + lost = (used + worker'[w].bytes) + lost'
  BY <1>x, <1>1, <1>3, <1>6, <1>7, <1>8, <1>9
<1> QED
  BY <1>x, <1>1, <1>4, <1>5, <1>6, <1>8, <1>9, <1>10, <1>13, <1>14, QuietStep DEF Passing

-----------------------------------------------------------------------------
(* The steps of a worker that change the line *)

\* What is left alone by them.
BooksQuiet ==
  /\ table' = table /\ spooled' = spooled /\ Answered' = Answered /\ Stored' = Stored
  /\ asking' = asking /\ cancelled' = cancelled /\ stopping' = stopping /\ holding' = holding

\* Job j leaves the line, with its mark and its demand.
Leaves(j) ==
  /\ Line' = Line \ {j} /\ Tried' = Tried \ {j} /\ EntryDemand' = EntryDemand \ {j}
  /\ \A i, k \in 1 .. Len(queue') : queue'[i] = queue'[k] => i = k
  /\ \A k \in Jobs : entry'[k].parked = IF k = j THEN FALSE ELSE entry[k].parked

\* What is shown of every worker but w, and of w, makes up Hands'.
LEMMA HandsFromParts ==
  ASSUME Hands, NEW w \in Workers, Moves(w), cancelled' = cancelled, stopping' = stopping, HandAfter(w),
         \A v \in Workers : v # w => Hand(v)' /\ (stopping = "no" => RunningHand(v)')
  PROVE  Hands'
<1>2. \A v \in Workers : Hand(v)' /\ (stopping' = "no" => RunningHand(v)')
  BY DEF HandAfter
<1>3. ASSUME NEW v \in Workers, NEW u \in Workers, v # u, worker'[v].job = worker'[u].job
      PROVE  Apart(v, u)' /\ (stopping' = "no" => RunningApart(v, u)')
  <2>1. CASE u = w
    BY <1>3, <2>1 DEF HandAfter, Moves, Kept
  <2>2. CASE v = w
    BY <1>3, <2>2 DEF HandAfter, Moves, Kept
  <2>3. CASE v # w /\ u # w
    <3>1. Kept(v) /\ Kept(u)
      BY <2>3 DEF Moves
    <3>2. Apart(v, u) /\ (stopping = "no" => RunningApart(v, u))
      BY <1>3, <3>1 DEF Hands, Kept
    <3>3. Apart(v, u)'
      BY <3>1, <3>2 DEF Apart, Kept
    <3>4. stopping = "no" => RunningApart(v, u)'
      BY <3>1, <3>2 DEF RunningApart, Kept
    <3> QED
      BY <3>3, <3>4
  <2> QED
    BY <2>1, <2>2, <2>3
<1> QED
  BY <1>2, <1>3 DEF Hands

\* The worker that takes job j out of the line carries its demand.
LEMMA LeavesStep ==
  ASSUME JobInv, JobTypeOK', NEW w \in Workers, NEW j \in Jobs, Moves(w), HandAfter(w),
         BooksQuiet, Leaves(j),
         worker[w].at \in Passing \cup {"leave"} => worker[w].job = j,
         stopping = "no" => \A v \in Workers : v # w /\ worker[v].job = j => worker[v].at \notin Passing,
         worker[w].parked = FALSE, worker'[w].parked <=> (j \in EntryDemand),
         worker'[w].bytes = worker[w].bytes,
         demand' = demand, used' = used, lost' = lost
  PROVE  JobInv' /\ AnswersKept
<1> USE DEF JobInv
<1>1. Submitted'
  BY DEF Submitted, BooksQuiet, Leaves
<1>2. Hands'
  <2>1. ASSUME NEW v \in Workers, v # w
        PROVE  Hand(v)' /\ (stopping = "no" => RunningHand(v)')
    <3>1. Hand(v) /\ (stopping = "no" => RunningHand(v)) /\ Kept(v)
      BY <2>1 DEF Hands, Moves
    <3>2. Hand(v)'
      BY <3>1 DEF Hand, Kept, BooksQuiet, Leaves
    <3>3. stopping = "no" => RunningHand(v)'
      BY <2>1, <3>1 DEF RunningHand, Kept, BooksQuiet, Leaves
    <3> QED
      BY <3>2, <3>3
  <2> QED
    BY <2>1, HandsFromParts DEF BooksQuiet
<1>3. Entries'
  <2>1. ASSUME NEW i \in Line', i \in Tried'
        PROVE  \E v \in Workers : worker'[v].job = i /\ worker'[v].at \in Passing \cup {"leave"}
    <3>1. i \in Line /\ i \in Tried /\ i # j
      BY <2>1 DEF Leaves
    <3>2. PICK v \in Workers : worker[v].job = i /\ worker[v].at \in Passing \cup {"leave"}
      BY <3>1 DEF Entries
    <3> QED
      BY <3>1, <3>2 DEF Moves, Kept
  <2> QED
    BY <2>1 DEF Entries, BooksQuiet, Leaves
<1>4. Counts'
  <2>1. /\ Cardinality(WorkerDemand) \in Nat /\ Cardinality(WorkerBytes) \in Nat
        /\ worker'[w].parked /\ ~worker[w].parked =>
             Cardinality(WorkerDemand') = Cardinality(WorkerDemand) + 1
        /\ worker'[w].parked = worker[w].parked =>
             Cardinality(WorkerDemand') = Cardinality(WorkerDemand)
        /\ Cardinality(WorkerBytes') = (Cardinality(WorkerBytes) + worker'[w].bytes) - worker[w].bytes
    BY WorkerCounts
  <2>2. worker'[w].bytes \in {0, 1}
    BY DEF JobTypeOK, WorkerType
  <2>3. Cardinality(WorkerBytes') = Cardinality(WorkerBytes)
    BY <2>1, <2>2
  <2>4. \A y : y # j => (y \in EntryDemand' <=> y \in EntryDemand)
    BY DEF Leaves
  <2>5. j \notin EntryDemand'
    BY DEF Leaves
  <2>6. IsFiniteSet(EntryDemand) /\ Cardinality(holding) \in Nat
    BY CountedFinite, FS_CardinalityType
  <2>7. /\ Cardinality(EntryDemand) \in Nat
        /\ j \in EntryDemand => Cardinality(EntryDemand') = Cardinality(EntryDemand) - 1
        /\ j \notin EntryDemand => Cardinality(EntryDemand') = Cardinality(EntryDemand)
    BY <2>4, <2>5, <2>6, OneChange
  <2>8. demand' = Cardinality(holding') + Cardinality(EntryDemand') + Cardinality(WorkerDemand')
    <3>0. /\ demand' = Cardinality(holding') + Cardinality(EntryDemand) + Cardinality(WorkerDemand)
          /\ Cardinality(holding') \in Nat
      BY <2>6 DEF Counts, BooksQuiet
    <3>1. CASE j \in EntryDemand
      <4>1. Cardinality(WorkerDemand') = Cardinality(WorkerDemand) + 1
        BY <2>1, <3>1, Zenon
      <4> QED
        BY <2>1, <2>7, <3>0, <3>1, <4>1
    <3>2. CASE j \notin EntryDemand
      <4>0. worker'[w].parked = worker[w].parked
        <5>1. ~worker'[w].parked /\ worker'[w].parked \in BOOLEAN
          BY <3>2 DEF JobTypeOK, WorkerType
        <5> QED
          BY <5>1
      <4>1. Cardinality(WorkerDemand') = Cardinality(WorkerDemand)
        BY <2>1, <4>0, Zenon
      <4> QED
        BY <2>1, <2>7, <3>0, <3>2, <4>1
    <3> QED
      BY <3>1, <3>2
  <2> QED
    BY <2>3, <2>8 DEF Counts, BooksQuiet
<1> QED
  BY <1>1, <1>2, <1>3, <1>4 DEF AnswersKept, BooksQuiet

\* leave: the entry goes, and what it held is in the hands of the worker.
LEMMA leaveStep ==
  ASSUME JobInv, NEW w \in Workers, leave(w)
  PROVE  JobInv' /\ AnswersKept
<1> USE DEF JobInv
<1>x. PICK x \in WorkerType : x = worker[w]
  BY WorkerRecord
<1>1. /\ worker[w].at = "leave" /\ queue' = Without(x.job)
      /\ entry' = Unblocked([entry EXCEPT ![x.job] = NoEntry])
      /\ worker' = Moved([worker EXCEPT ![w] = [x EXCEPT !.at = "judge", !.parked = entry[x.job].parked]])
      /\ UNCHANGED <<table, spooled, used, asking, holding, scene, expired, cancelled, stopping, demand, lost>>
  BY <1>x DEF leave, store, times
<1>2. Hand(w) /\ (stopping = "no" => RunningHand(w))
  BY DEF Hands
<1>3. x.job \in Jobs /\ x.parked = FALSE /\ x.bytes \in {0, 1}
  BY <1>x, <1>1, <1>2, WorkerRecord DEF Hand, Handled, Passing, Closing
<1>4. entry[x.job].parked \in BOOLEAN /\ entry[x.job].parked = (x.job \in EntryDemand)
  BY <1>3 DEF JobTypeOK, EntryType, Submitted, EntryDemand, Line
<1> DEFINE r == [x EXCEPT !.at = "judge", !.parked = entry[x.job].parked]
<1>5. /\ r \in WorkerType /\ r.at = "judge" /\ r.job = x.job /\ r.parked = entry[x.job].parked
      /\ r.counted = x.counted /\ r.bytes = x.bytes /\ r.result = x.result
  BY <1>4 DEF WorkerType, Points
<1>6. /\ worker' \in [Workers -> WorkerType] /\ Moves(w)
      /\ worker'[w].at = r.at /\ worker'[w].job = r.job /\ worker'[w].parked = r.parked
      /\ worker'[w].counted = r.counted /\ worker'[w].bytes = r.bytes /\ worker'[w].result = r.result
  BY <1>1, <1>5, WorkerSetMoved
<1> HIDE DEF r
<1>7. /\ queue' \in Seq(Jobs) /\ Line' = Line \ {x.job}
      /\ \A i, k \in 1 .. Len(queue') : queue'[i] = queue'[k] => i = k
  BY <1>1, <1>3, TakenOut
<1>8. /\ entry' \in [Jobs -> EntryType]
      /\ Tried' = Tried \ {x.job} /\ EntryDemand' = EntryDemand \ {x.job}
      /\ \A k \in Jobs : entry'[k].parked = IF k = x.job THEN FALSE ELSE entry[k].parked
  BY <1>1, <1>3, EntryOut
<1>9. JobTypeOK'
  BY <1>1, <1>6, <1>7, <1>8 DEF JobTypeOK
<1>10. BooksQuiet /\ Leaves(x.job)
  BY <1>1, <1>7, <1>8 DEF BooksQuiet, Leaves, Answered, Stored
<1>11. Hand(w)'
  BY <1>x, <1>1, <1>2, <1>3, <1>5, <1>6, <1>10 DEF Hand, Passing, Closing, Handled, BooksQuiet, Leaves
<1>12. stopping = "no" => RunningHand(w)'
  BY <1>x, <1>1, <1>2, <1>5, <1>6, <1>10 DEF RunningHand, Passing, Closing, Handled, BooksQuiet
<1>13. HandAfter(w)
  BY <1>x, <1>1, <1>5, <1>6, <1>11, <1>12, PairsKeep DEF Passing, Closing, Handled
<1>14. stopping = "no" => \A v \in Workers : v # w /\ worker[v].job = x.job => worker[v].at \notin Passing
  BY <1>x, <1>1 DEF Hands, RunningApart
<1> QED
  BY <1>x, <1>1, <1>3, <1>4, <1>5, <1>6, <1>9, <1>10, <1>13, <1>14, LeavesStep

\* TakeDead: a dead entry goes, and its demand with the worker.
LEMMA TakeDeadStep ==
  ASSUME JobInv, NEW w \in Workers, TakeDead(w)
  PROVE  JobInv' /\ AnswersKept
<1> USE DEF JobInv
<1>1. PICK j \in Dead :
        /\ queue' = Without(j)
        /\ entry' = Unblocked([entry EXCEPT ![j] = NoEntry])
        /\ worker' = Moved([worker EXCEPT ![w] =
                        [Idle EXCEPT !.at = "discard", !.job = j, !.parked = entry[j].parked]])
  BY DEF TakeDead
<1>2. /\ worker[w].at = "take"
      /\ UNCHANGED <<table, spooled, used, asking, holding, scene, expired, cancelled, stopping, demand, lost>>
  BY DEF TakeDead, store, times
<1>3. j \in Jobs /\ j \in Line /\ j \notin Tried
  BY DEF Dead, Line, Tried
<1>4. entry[j].parked \in BOOLEAN /\ entry[j].parked = (j \in EntryDemand)
  BY <1>3 DEF JobTypeOK, EntryType, EntryDemand, Line
<1> DEFINE r == [Idle EXCEPT !.at = "discard", !.job = j, !.parked = entry[j].parked]
<1>5. /\ r \in WorkerType /\ r.at = "discard" /\ r.job = j /\ r.parked = entry[j].parked
      /\ r.counted = FALSE /\ r.bytes = 0 /\ r.result = "none"
  BY <1>3, <1>4 DEF Idle, WorkerType, Points, Results
<1>6. /\ worker' \in [Workers -> WorkerType] /\ Moves(w)
      /\ worker'[w].at = r.at /\ worker'[w].job = r.job /\ worker'[w].parked = r.parked
      /\ worker'[w].counted = r.counted /\ worker'[w].bytes = r.bytes /\ worker'[w].result = r.result
  BY <1>1, <1>5, WorkerSetMoved
<1> HIDE DEF r
<1>7. /\ queue' \in Seq(Jobs) /\ Line' = Line \ {j}
      /\ \A i, k \in 1 .. Len(queue') : queue'[i] = queue'[k] => i = k
  BY <1>1, <1>3, TakenOut
<1>8. /\ entry' \in [Jobs -> EntryType]
      /\ Tried' = Tried \ {j} /\ EntryDemand' = EntryDemand \ {j}
      /\ \A k \in Jobs : entry'[k].parked = IF k = j THEN FALSE ELSE entry[k].parked
  BY <1>1, <1>3, EntryOut
<1>9. JobTypeOK'
  BY <1>2, <1>6, <1>7, <1>8 DEF JobTypeOK
<1>10. BooksQuiet /\ Leaves(j)
  BY <1>2, <1>7, <1>8 DEF BooksQuiet, Leaves, Answered, Stored
<1>11. worker[w].parked = FALSE /\ worker[w].bytes = 0
  BY <1>2, WorkerRecord DEF Hands, Hand, Closing
<1>12. asking[j] = "accepted" /\ j \notin Stored /\ (stopping = "no" => j \notin Answered)
  BY <1>3 DEF Submitted, Entries
<1>13. ASSUME NEW v \in Workers, worker[v].job = j
       PROVE  /\ worker[v].at \notin Passing /\ worker[v].at \notin {"judge", "write", "discard"}
              /\ stopping = "no" /\ worker[v].at \in Handled => worker[v].at = "leave" /\ j \in cancelled
  <2>1. Hand(v) /\ (stopping = "no" => RunningHand(v))
    BY DEF Hands
  <2>2. worker[v].at \notin Passing /\ worker[v].at \notin {"judge", "write", "discard"}
    BY <1>3, <1>13, <2>1 DEF Hand
  <2>3. stopping = "no" /\ worker[v].at = "leave" => j \in cancelled
    BY <1>3, <1>13, <2>1 DEF RunningHand
  <2> QED
    BY <2>2, <2>3 DEF Handled, Closing
<1>14. HandAfter(w)
  <2>1. Hand(w)'
    BY <1>3, <1>5, <1>6, <1>10, <1>12 DEF Hand, Passing, Closing, Handled, BooksQuiet, Leaves
  <2>2. stopping = "no" => RunningHand(w)'
    BY <1>5, <1>6, <1>10, <1>12 DEF RunningHand, Passing, Closing, Handled, BooksQuiet
  <2>3. ASSUME NEW v \in Workers, v # w, worker[v].job = worker'[w].job
        PROVE  /\ Apart(v, w)' /\ Apart(w, v)'
               /\ stopping = "no" => RunningApart(v, w)' /\ RunningApart(w, v)'
    <3>1. Kept(v) /\ worker[v].job = j
      BY <1>5, <1>6, <2>3 DEF Moves
    <3>2. Apart(v, w)' /\ Apart(w, v)'
      BY <1>5, <1>6 DEF Apart, Passing, Closing
    <3>3. stopping = "no" => RunningApart(v, w)' /\ RunningApart(w, v)'
      BY <1>2, <1>5, <1>6, <1>13, <3>1 DEF RunningApart, Kept, Passing
    <3> QED
      BY <3>2, <3>3
  <2> QED
    BY <2>1, <2>2, <2>3 DEF HandAfter
<1> QED
  BY <1>2, <1>3, <1>4, <1>5, <1>6, <1>9, <1>10, <1>11, <1>13, <1>14, LeavesStep DEF Passing

\* TakeDue: an entry nobody tries is marked, and a worker has it.
LEMMA TakeDueStep ==
  ASSUME JobInv, NEW w \in Workers, TakeDue(w)
  PROVE  JobInv' /\ AnswersKept
<1> USE DEF JobInv
<1>1. PICK j \in Due :
        /\ entry' = [entry EXCEPT ![j].trying = TRUE]
        /\ worker' = [worker EXCEPT ![w] =
             [Idle EXCEPT !.at = "pass", !.job = j, !.fresh = TRUE, !.counted = entry[j].parked]]
  BY DEF TakeDue, Set
<1>2. /\ worker[w].at = "take" /\ Dead = {}
      /\ UNCHANGED <<table, spooled, used, asking, holding, queue, scene, expired, cancelled, stopping,
                     demand, lost>>
  BY DEF TakeDue, store, times
<1>3. j \in Jobs /\ j \in Line /\ j \notin Tried /\ j \notin cancelled
  BY <1>2 DEF Due, Dead, Line, Tried
<1>4. entry[j].parked \in BOOLEAN /\ entry[j].parked = (j \in EntryDemand)
  BY <1>3 DEF JobTypeOK, EntryType, EntryDemand, Line
<1> DEFINE r == [Idle EXCEPT !.at = "pass", !.job = j, !.fresh = TRUE, !.counted = entry[j].parked]
<1>5. /\ r \in WorkerType /\ r.at = "pass" /\ r.job = j /\ r.parked = FALSE
      /\ r.counted = entry[j].parked /\ r.bytes = 0 /\ r.result = "none"
  BY <1>3, <1>4 DEF Idle, WorkerType, Points, Results
<1>6. worker' \in [Workers -> WorkerType] /\ Moves(w) /\ worker'[w] = r
  BY <1>1, <1>5, WorkerSet
<1> HIDE DEF r
<1>7. /\ entry' \in [Jobs -> EntryType]
      /\ \A k \in Jobs : /\ entry'[k].parked = entry[k].parked
                         /\ entry'[k].trying = IF k = j THEN TRUE ELSE entry[k].trying
  <2>1. PICK e \in EntryType : e = entry[j]
    BY <1>3 DEF JobTypeOK
  <2> DEFINE f == [e EXCEPT !.trying = TRUE]
  <2>2. f \in EntryType /\ f.trying = TRUE /\ f.parked = e.parked
    BY DEF EntryType
  <2>3. entry' = [entry EXCEPT ![j] = f]
    BY <1>1, <2>1
  <2> HIDE DEF f
  <2> QED
    BY <1>3, <2>1, <2>2, <2>3 DEF JobTypeOK
<1>8. Line' = Line /\ EntryDemand' = EntryDemand /\ Tried' = Tried \cup {j}
  BY <1>2, <1>3, <1>7 DEF Line, Queued, EntryDemand, Tried
<1>9. BooksQuiet
  BY <1>2 DEF BooksQuiet, Answered, Stored
<1>10. JobTypeOK'
  BY <1>2, <1>6, <1>7 DEF JobTypeOK
<1>11. Submitted'
  BY <1>2, <1>7, <1>8, <1>9 DEF Submitted, BooksQuiet
<1>12. worker[w].parked = FALSE /\ worker[w].bytes = 0
  BY <1>2, WorkerRecord DEF Hands, Hand, Closing
<1>13. asking[j] = "accepted" /\ j \notin Stored /\ (stopping = "no" => j \notin Answered)
  BY <1>3 DEF Submitted, Entries
<1>14. ASSUME NEW v \in Workers, worker[v].job = j
       PROVE  /\ worker[v].at \notin Passing /\ worker[v].at \notin {"judge", "write", "discard"}
              /\ worker[v].bytes # 1 /\ (stopping = "no" => worker[v].at \notin Handled)
  <2>1. Hand(v) /\ (stopping = "no" => RunningHand(v))
    BY DEF Hands
  <2>2. worker[v].at \notin Passing /\ worker[v].at \notin {"judge", "write", "discard"} /\ worker[v].bytes # 1
    BY <1>3, <1>14, <2>1 DEF Hand, Passing, Closing
  <2>3. stopping = "no" => worker[v].at # "leave"
    BY <1>3, <1>14, <2>1 DEF RunningHand
  <2> QED
    BY <2>2, <2>3 DEF Handled, Closing
<1>15. HandAfter(w)
  <2>1. Hand(w)'
    BY <1>3, <1>4, <1>5, <1>6, <1>8, <1>9, <1>13 DEF Hand, Passing, Closing, Handled, BooksQuiet
  <2>2. stopping = "no" => RunningHand(w)'
    BY <1>3, <1>5, <1>6, <1>8, <1>9, <1>13 DEF RunningHand, Passing, Closing, Handled, BooksQuiet
  <2>3. ASSUME NEW v \in Workers, v # w, worker[v].job = worker'[w].job
        PROVE  /\ Apart(v, w)' /\ Apart(w, v)'
               /\ stopping = "no" => RunningApart(v, w)' /\ RunningApart(w, v)'
    <3>1. Kept(v) /\ worker[v].job = j
      BY <1>5, <1>6, <2>3 DEF Moves
    <3>2. Apart(v, w)' /\ Apart(w, v)'
      BY <1>5, <1>6, <1>14, <3>1 DEF Apart, Kept, Closing
    <3>3. stopping = "no" => RunningApart(v, w)' /\ RunningApart(w, v)'
      BY <1>5, <1>6, <1>14, <3>1 DEF RunningApart, Kept, Handled, Passing, Closing
    <3> QED
      BY <3>2, <3>3
  <2> QED
    BY <2>1, <2>2, <2>3 DEF HandAfter
<1>16. Hands'
  <2>1. ASSUME NEW v \in Workers, v # w
        PROVE  Hand(v)' /\ (stopping = "no" => RunningHand(v)')
    <3>1. Hand(v) /\ (stopping = "no" => RunningHand(v)) /\ Kept(v)
      BY <1>6, <2>1 DEF Hands, Moves
    <3>2. Hand(v)'
      BY <1>8, <1>9, <3>1 DEF Hand, Kept, BooksQuiet
    <3>3. stopping = "no" => RunningHand(v)'
      BY <1>8, <1>9, <3>1 DEF RunningHand, Kept, BooksQuiet
    <3> QED
      BY <3>2, <3>3
  <2> QED
    BY <1>6, <1>9, <1>15, <2>1, HandsFromParts DEF BooksQuiet
<1>17. Entries'
  <2>1. ASSUME NEW i \in Line, i \in Tried'
        PROVE  \E v \in Workers : worker'[v].job = i /\ worker'[v].at \in Passing \cup {"leave"}
    <3>1. CASE i = j
      BY <1>5, <1>6, <3>1 DEF Passing
    <3>2. CASE i # j
      <4>1. PICK v \in Workers : worker[v].job = i /\ worker[v].at \in Passing \cup {"leave"}
        BY <1>8, <2>1, <3>2 DEF Entries
      <4> QED
        BY <1>2, <1>6, <4>1 DEF Moves, Kept, Passing
    <3> QED
      BY <3>1, <3>2
  <2> QED
    BY <1>8, <1>9, <2>1 DEF Entries, BooksQuiet
<1>18. Counts'
  <2>1. /\ Cardinality(WorkerDemand) \in Nat /\ Cardinality(WorkerBytes) \in Nat
        /\ worker'[w].parked = worker[w].parked =>
             Cardinality(WorkerDemand') = Cardinality(WorkerDemand)
        /\ Cardinality(WorkerBytes') = (Cardinality(WorkerBytes) + worker'[w].bytes) - worker[w].bytes
    BY <1>6, <1>10, WorkerCounts
  <2>2. Cardinality(WorkerDemand') = Cardinality(WorkerDemand)
    BY <1>5, <1>6, <1>12, <2>1
  <2>3. Cardinality(WorkerBytes') = Cardinality(WorkerBytes)
    BY <1>5, <1>6, <1>12, <2>1
  <2> QED
    BY <1>2, <1>8, <1>9, <2>2, <2>3 DEF Counts, BooksQuiet
<1> QED
  BY <1>9, <1>10, <1>11, <1>16, <1>17, <1>18 DEF AnswersKept, BooksQuiet

\* put_back: the mark is cleared as the worker lets go, or leaves the job.
LEMMA put_backStep ==
  ASSUME JobInv, NEW w \in Workers, put_back(w)
  PROVE  JobInv' /\ AnswersKept
<1> USE DEF JobInv
<1>x. PICK x \in WorkerType : x = worker[w]
  BY WorkerRecord
<1>1. /\ worker[w].at = "put_back"
      /\ UNCHANGED <<table, spooled, used, asking, holding, queue, scene, expired, cancelled, stopping,
                     demand, lost>>
  BY DEF put_back, store, times
<1>2. Hand(w) /\ (stopping = "no" => RunningHand(w))
  BY DEF Hands
<1>3. /\ x.job \in Jobs /\ x.bytes = 0 /\ x.parked \in BOOLEAN /\ asking[x.job] = "accepted"
      /\ x.job \notin Stored /\ (x.parked => x.job \notin EntryDemand)
  BY <1>x, <1>1, <1>2, WorkerRecord DEF Hand, Handled, Passing, Closing
<1>4. BooksQuiet
  BY <1>1 DEF BooksQuiet, Answered, Stored
<1>5. CASE ~Queued(x.job)
  <2>1. entry' = entry /\ worker' = [worker EXCEPT ![w] = [x EXCEPT !.at = "judge"]]
    BY <1>x, <1>5 DEF put_back, Go, Set
  <2> DEFINE r == [x EXCEPT !.at = "judge"]
  <2>2. /\ r \in WorkerType /\ r.at = "judge" /\ r.job = x.job /\ r.parked = x.parked
        /\ r.counted = x.counted /\ r.bytes = x.bytes /\ r.result = x.result
    BY DEF WorkerType, Points
  <2>3. worker' \in [Workers -> WorkerType] /\ Moves(w) /\ worker'[w] = r
    BY <2>1, <2>2, WorkerSet
  <2> HIDE DEF r
  <2>4. JobTypeOK'
    BY <1>1, <2>1, <2>3 DEF JobTypeOK
  <2>5. Quiet
    BY <1>1, <2>1, QuietVars
  <2>6. x.job \notin Line
    BY <1>5 DEF Line
  <2>7. Hand(w)'
    BY <1>x, <1>1, <1>2, <1>3, <2>2, <2>3, <2>5, <2>6 DEF Hand, Passing, Closing, Handled, Quiet
  <2>8. stopping = "no" => RunningHand(w)'
    BY <1>x, <1>1, <1>2, <2>6 DEF RunningHand, Passing
  <2>9. HandAfter(w)
    BY <1>x, <1>1, <1>3, <2>2, <2>3, <2>5, <2>7, <2>8, PairsKeep DEF Passing, Closing, Handled, Quiet
  <2>10. used <= SpoolRoom /\ (used' + worker[w].bytes) + lost = (used + worker'[w].bytes) + lost'
    BY <1>x, <1>1, <2>2, <2>3 DEF Counts
  <2> QED
    BY <1>x, <1>1, <1>3, <2>1, <2>2, <2>3, <2>4, <2>5, <2>6, <2>9, <2>10, QuietStep
<1>6. CASE Queued(x.job)
  <2>0. x.job \in Line
    BY <1>3, <1>6 DEF Line
  \* What both ways back have in common.
  <2>1. PICK f \in EntryType, r \in WorkerType :
          /\ entry' = [entry EXCEPT ![x.job] = f] /\ f.trying = FALSE
          /\ f.parked <=> (x.job \in EntryDemand \/ x.parked)
          /\ worker' = [worker EXCEPT ![w] = r]
          /\ r.job = x.job /\ r.parked = FALSE /\ r.bytes = 0
          /\ r.at = "show" \/ (r.at = "leave" /\ r.result = "failed" /\ (stopping # "no" \/ x.job \in cancelled))
    <3>1. PICK y \in EntryType : y = entry[x.job]
      BY <1>3 DEF JobTypeOK
    <3> DEFINE p == y.parked \/ x.parked
               e == [y EXCEPT !.trying = FALSE, !.parked = p]
    <3>2. e \in EntryType /\ e.trying = FALSE /\ (e.parked <=> (x.job \in EntryDemand \/ x.parked))
      <4>1. p \in BOOLEAN /\ (p <=> (x.job \in EntryDemand \/ x.parked))
        BY <1>3, <1>6, <3>1 DEF EntryType, EntryDemand
      <4> HIDE DEF p
      <4> QED
        BY <4>1 DEF EntryType
    <3>3. CASE Stopping \/ x.job \in cancelled
      <4> DEFINE r == [x EXCEPT !.at = "leave", !.parked = FALSE, !.result = "failed"]
      <4>1. entry' = [entry EXCEPT ![x.job] = e] /\ worker' = [worker EXCEPT ![w] = r]
        BY <1>x, <1>6, <3>1, <3>3 DEF put_back, Set
      <4>2. /\ r \in WorkerType /\ r.job = x.job /\ r.parked = FALSE /\ r.bytes = 0
            /\ r.at = "leave" /\ r.result = "failed"
        BY <1>3 DEF WorkerType, Points, Results
      <4>3. stopping # "no" \/ x.job \in cancelled
        BY <3>3 DEF Stopping
      <4> HIDE DEF r, e
      <4> QED
        BY <3>2, <4>1, <4>2, <4>3
    <3>4. CASE ~(Stopping \/ x.job \in cancelled)
      <4> DEFINE r == [x EXCEPT !.at = "show", !.parked = FALSE]
                 s == x.result
                 f == [e EXCEPT !.started = FALSE,
                         !.recovery = @ /\ s = "recovery",
                         !.blocked = s \in {"slot", "activation"} /\ x.fresh,
                         !.backing = s \in {"recovery", "backoff"},
                         !.attempts = @ + One(s = "backoff")]
      <4>1. entry' = [entry EXCEPT ![x.job] = f] /\ worker' = [worker EXCEPT ![w] = r]
        BY <1>x, <1>6, <3>1, <3>4 DEF put_back, Set
      <4>2. /\ r \in WorkerType /\ r.job = x.job /\ r.parked = FALSE /\ r.bytes = 0 /\ r.at = "show"
        BY <1>3 DEF WorkerType, Points
      <4>3. f \in EntryType /\ f.trying = FALSE /\ (f.parked <=> (x.job \in EntryDemand \/ x.parked))
        <5> HIDE DEF e
        <5> DEFINE b1 == e.recovery /\ s = "recovery"
                   b2 == s \in {"slot", "activation"} /\ x.fresh
                   b3 == s \in {"recovery", "backoff"}
                   n == e.attempts + One(s = "backoff")
        <5>1. b1 \in BOOLEAN /\ b2 \in BOOLEAN /\ b3 \in BOOLEAN /\ n \in Nat
          <6>1. e.attempts \in Nat
            BY <3>2 DEF EntryType
          <6>2. One(s = "backoff") \in Nat
            BY DEF One
          <6> QED
            BY <6>1, <6>2
        <5>2. f = [e EXCEPT !.started = FALSE, !.recovery = b1, !.blocked = b2, !.backing = b3, !.attempts = n]
          OBVIOUS
        <5> HIDE DEF f, b1, b2, b3, n
        <5> QED
          BY <3>2, <5>1, <5>2 DEF EntryType
      <4> HIDE DEF r, e, f
      <4> QED
        BY <4>1, <4>2, <4>3
    <3> QED
      BY <3>3, <3>4
  <2>2. worker' \in [Workers -> WorkerType] /\ Moves(w) /\ worker'[w] = r
    BY <2>1, WorkerSet
  <2>3. /\ entry' \in [Jobs -> EntryType]
        /\ \A k \in Jobs : entry'[k] = IF k = x.job THEN f ELSE entry[k]
    BY <1>3, <2>1 DEF JobTypeOK
  <2>4. /\ Line' = Line /\ Tried' = Tried \ {x.job}
        /\ \A k \in Jobs : k # x.job => (k \in EntryDemand' <=> k \in EntryDemand)
        /\ x.job \in EntryDemand' <=> (x.job \in EntryDemand \/ x.parked)
    BY <1>1, <1>3, <1>6, <2>1, <2>3 DEF Line, Queued, Tried, EntryDemand
  <2>5. JobTypeOK'
    BY <1>1, <2>2, <2>3 DEF JobTypeOK
  <2>6. Submitted'
    BY <1>1, <1>4, <2>0, <2>3, <2>4 DEF Submitted, BooksQuiet
  <2>7. ASSUME NEW v \in Workers, v # w, worker[v].job = x.job
        PROVE  /\ worker[v].at \notin Passing /\ worker[v].bytes # 1
               /\ stopping = "no" => worker[v].at \notin Handled
    <3>1. Apart(v, w) /\ Apart(w, v) /\ (stopping = "no" => RunningApart(w, v)) /\ Hand(v)
      BY <1>x, <2>7 DEF Hands
    <3>2. worker[v].at \notin Passing /\ worker[v].bytes # 1
      BY <1>1, <3>1 DEF Apart, Hand, Passing, Closing
    <3>3. stopping = "no" => worker[v].at \notin Handled
      BY <1>1, <3>1 DEF RunningApart, Handled, Passing
    <3> QED
      BY <3>2, <3>3
  <2>8. HandAfter(w)
    <3>1. CASE r.at = "show"
      BY <1>1, <1>3, <2>1, <2>2, <3>1, AtRest
    <3>2. CASE r.at = "leave"
      <4>1. Hand(w)'
        BY <1>1, <1>3, <2>1, <2>2, <2>4, <3>2 DEF Hand, Passing, Closing, Handled
      <4>2. stopping = "no" => RunningHand(w)'
        BY <1>x, <1>1, <1>2, <1>4, <2>1, <2>2, <2>4, <3>2 DEF RunningHand, BooksQuiet, Passing, Closing, Handled
      <4> QED
        BY <1>x, <1>1, <1>3, <2>1, <2>2, <3>2, <4>1, <4>2, PairsKeep DEF Passing, Closing, Handled
    <3> QED
      BY <2>1, <3>1, <3>2
  <2>9. Hands'
    <3>1. ASSUME NEW v \in Workers, v # w
          PROVE  Hand(v)' /\ (stopping = "no" => RunningHand(v)')
      <4>1. Hand(v) /\ (stopping = "no" => RunningHand(v)) /\ Kept(v)
        BY <2>2, <3>1 DEF Hands, Moves
      <4>2. CASE worker[v].job = x.job
        <5>1. Hand(v)'
          BY <1>3, <1>4, <2>4, <2>7, <3>1, <4>1, <4>2 DEF Hand, Kept, BooksQuiet, Passing
        <5>2. stopping = "no" => RunningHand(v)'
          BY <1>4, <2>7, <3>1, <4>1, <4>2 DEF RunningHand, Kept, BooksQuiet, Handled, Closing, Passing
        <5> QED
          BY <5>1, <5>2
      <4>3. CASE worker[v].job # x.job
        <5>1. worker[v].at \in Handled => worker[v].job \in Jobs
          BY <4>1 DEF Hand
        <5>2. Hand(v)'
          BY <1>4, <2>4, <4>1, <4>3, <5>1 DEF Hand, Kept, BooksQuiet, Passing, Closing, Handled
        <5>3. stopping = "no" => RunningHand(v)'
          BY <1>4, <2>4, <4>1, <4>3 DEF RunningHand, Kept, BooksQuiet
        <5> QED
          BY <5>2, <5>3
      <4> QED
        BY <4>2, <4>3
    <3> QED
      BY <1>1, <2>2, <2>8, <3>1, HandsFromParts
  <2>10. Entries'
    <3>1. ASSUME NEW i \in Line, i \in Tried'
          PROVE  \E v \in Workers : worker'[v].job = i /\ worker'[v].at \in Passing \cup {"leave"}
      <4>1. i \in Tried /\ i # x.job
        BY <2>4, <3>1
      <4>2. PICK v \in Workers : worker[v].job = i /\ worker[v].at \in Passing \cup {"leave"}
        BY <4>1 DEF Entries
      <4> QED
        BY <1>x, <2>2, <4>1, <4>2 DEF Moves, Kept
    <3> QED
      BY <1>4, <2>4, <3>1 DEF Entries, BooksQuiet
  <2>11. Counts'
    <3>1. /\ Cardinality(WorkerDemand) \in Nat /\ Cardinality(WorkerBytes) \in Nat
          /\ ~worker'[w].parked /\ worker[w].parked =>
               Cardinality(WorkerDemand') = Cardinality(WorkerDemand) - 1
          /\ worker'[w].parked = worker[w].parked =>
               Cardinality(WorkerDemand') = Cardinality(WorkerDemand)
          /\ Cardinality(WorkerBytes') = (Cardinality(WorkerBytes) + worker'[w].bytes) - worker[w].bytes
      BY <2>2, <2>5, WorkerCounts
    <3>2. \A k : k # x.job => (k \in EntryDemand' <=> k \in EntryDemand)
      BY <2>4 DEF EntryDemand
    <3>3. IsFiniteSet(EntryDemand) /\ Cardinality(holding) \in Nat
      BY CountedFinite, FS_CardinalityType
    <3>4. /\ Cardinality(EntryDemand) \in Nat
          /\ x.parked => Cardinality(EntryDemand') = Cardinality(EntryDemand) + 1
          /\ ~x.parked => Cardinality(EntryDemand') = Cardinality(EntryDemand)
      BY <1>3, <2>4, <3>2, <3>3, OneChange
    <3>5. demand' = Cardinality(holding') + Cardinality(EntryDemand') + Cardinality(WorkerDemand')
      <4>1. CASE x.parked
        BY <1>x, <1>1, <2>1, <2>2, <3>1, <3>3, <3>4, <4>1 DEF Counts
      <4>2. CASE ~x.parked
        <5>1. worker'[w].parked = worker[w].parked
          BY <1>x, <1>3, <2>1, <2>2, <4>2
        <5> QED
          BY <1>1, <3>1, <3>3, <3>4, <4>2, <5>1 DEF Counts
      <4> QED
        BY <4>1, <4>2
    <3>6. Cardinality(WorkerBytes') = Cardinality(WorkerBytes)
      BY <1>x, <1>3, <2>1, <2>2, <3>1
    <3> QED
      BY <1>1, <1>4, <3>5, <3>6 DEF Counts, BooksQuiet
  <2> QED
    BY <1>1, <2>5, <2>6, <2>9, <2>10, <2>11 DEF AnswersKept
<1> QED
  BY <1>5, <1>6

-----------------------------------------------------------------------------
(* The steps of a worker that change the table *)

\* Started: the owner sees the job running, unless it was cancelled.
LEMMA StartedStep ==
  ASSUME JobInv, NEW w \in Workers, Started(w)
  PROVE  JobInv' /\ AnswersKept
<1> USE DEF JobInv
<1>x. PICK x \in WorkerType : x = worker[w]
  BY WorkerRecord
<1>1. /\ worker[w].at = "pass"
      /\ worker' = [worker EXCEPT ![w] = [x EXCEPT !.admitted = TRUE]]
      /\ entry' = [entry EXCEPT ![x.job].started = Queued(x.job)]
      /\ table' = [table EXCEPT ![x.job] = IF @ = "queued" /\ x.job \notin cancelled THEN "running" ELSE @]
      /\ UNCHANGED <<spooled, used, asking, holding, queue, scene, expired, cancelled, stopping, demand, lost>>
  BY <1>x DEF Started, Set, times
<1>2. x.job \in Jobs /\ asking[x.job] = "accepted"
  BY <1>x, <1>1 DEF Hands, Hand, Handled, Passing
<1> DEFINE r == [x EXCEPT !.admitted = TRUE]
<1>3. /\ r \in WorkerType /\ r.at = x.at /\ r.job = x.job /\ r.parked = x.parked
      /\ r.counted = x.counted /\ r.bytes = x.bytes /\ r.result = x.result
  BY DEF WorkerType
<1>4. worker' \in [Workers -> WorkerType] /\ Moves(w) /\ worker'[w] = r
  BY <1>1, <1>3, WorkerSet
<1> HIDE DEF r
<1>5. \A v \in Workers : Kept(v)
  BY <1>x, <1>3, <1>4 DEF Moves, Kept
<1>6. /\ entry' \in [Jobs -> EntryType]
      /\ \A k \in Jobs : entry'[k].trying = entry[k].trying /\ entry'[k].parked = entry[k].parked
  <2>1. PICK e \in EntryType : e = entry[x.job]
    BY <1>2 DEF JobTypeOK
  <2>2. PICK b \in BOOLEAN : b = Queued(x.job)
    BY DEF Queued
  <2> DEFINE f == [e EXCEPT !.started = b]
  <2>3. f \in EntryType /\ f.trying = e.trying /\ f.parked = e.parked
    BY DEF EntryType
  <2>4. entry' = [entry EXCEPT ![x.job] = f]
    BY <1>1, <2>1, <2>2
  <2> HIDE DEF f
  <2> QED
    BY <1>2, <2>1, <2>3, <2>4 DEF JobTypeOK
<1>7. /\ table' \in [Jobs -> Terminal \cup {"absent", "queued", "running"}]
      /\ \A k \in Jobs : k # x.job => table'[k] = table[k]
      /\ table'[x.job] = table[x.job] \/ (table[x.job] = "queued" /\ table'[x.job] = "running")
  BY <1>1, <1>2 DEF JobTypeOK
<1>8. JobTypeOK'
  BY <1>1, <1>4, <1>6, <1>7 DEF JobTypeOK
<1>9. Quiet
  <2>1. Answered' = Answered
    BY <1>7 DEF Answered
  <2>2. Stored' = Stored
    BY <1>1 DEF Stored
  <2> QED
    BY <1>1, <1>6, <2>1, <2>2, SameMarks DEF Quiet
<1>10. Submitted'
  BY <1>1, <1>2, <1>6, <1>7, <1>9 DEF Submitted, Quiet
<1>11. HandAfter(w)
  <2>1. Hand(w)'
    BY <1>5, <1>9 DEF Hands, Hand, Kept, Quiet
  <2>2. stopping = "no" => RunningHand(w)'
    BY <1>5, <1>9 DEF Hands, RunningHand, Kept, Quiet
  <2> QED
    BY <1>x, <1>1, <1>3, <1>4, <1>9, <2>1, <2>2, PairsKeep DEF Passing, Closing, Handled, Quiet
<1>12. Hands' /\ Entries'
  BY <1>x, <1>3, <1>4, <1>9, <1>11, QuietHands, QuietEntries
<1>13. Counts'
  BY <1>1, <1>5, <1>9, WorkersStill DEF Counts, Quiet
<1> QED
  BY <1>7, <1>8, <1>10, <1>12, <1>13 DEF AnswersKept, Answered

\* Show: the owner sees the job queued again, unless it has ended.
LEMMA ShowStep ==
  ASSUME JobInv, NEW w \in Workers, Show(w)
  PROVE  JobInv' /\ AnswersKept
<1> USE DEF JobInv
<1>1. /\ worker[w].at = "show" /\ worker' = [worker EXCEPT ![w] = Idle]
      /\ table' = [table EXCEPT ![worker[w].job] = IF @ \in Terminal \cup {"absent"} THEN @ ELSE "queued"]
      /\ UNCHANGED <<spooled, used, asking, holding, queue, entry, scene, expired, cancelled, stopping,
                     demand, lost>>
  BY DEF Show, Set, line, times
<1>2. worker[w].job \in Jobs /\ asking[worker[w].job] = "accepted"
  BY <1>1 DEF Hands, Hand
<1>3. worker' \in [Workers -> WorkerType] /\ Moves(w) /\ worker'[w] = Idle
  BY <1>1, IdleRecord, WorkerSet
<1>4. /\ table' \in [Jobs -> Terminal \cup {"absent", "queued", "running"}]
      /\ \A k \in Jobs : /\ k # worker[w].job => table'[k] = table[k]
                         /\ table[k] \in {"succeeded", "failed"} \/ table[k] = "absent" => table'[k] = table[k]
                         /\ table[k] \notin {"succeeded", "failed"} => table'[k] \notin {"succeeded", "failed"}
                         /\ table[k] # "absent" => table'[k] # "absent"
  BY <1>1, <1>2 DEF JobTypeOK, Terminal
<1>5. JobTypeOK'
  BY <1>1, <1>3, <1>4 DEF JobTypeOK
<1>6. Quiet
  <2>1. Answered' = Answered
    BY <1>4 DEF Answered
  <2> QED
    BY <1>1, <2>1 DEF Quiet, Line, Queued, Tried, EntryDemand, Stored
<1>7. Submitted'
  BY <1>1, <1>2, <1>4, <1>6 DEF Submitted, Quiet
<1>8. HandAfter(w)
  BY <1>3, IdleRecord, AtRest
<1>9. Hands' /\ Entries'
  BY <1>1, <1>3, <1>6, <1>8, QuietHands, QuietEntries DEF Passing
<1>10. Counts'
  <2>1. worker[w].parked = FALSE /\ worker[w].bytes = 0
    BY <1>1, WorkerRecord DEF Hands, Hand, Closing
  <2> QED
    BY <1>1, <1>3, <1>5, <1>6, <2>1, IdleRecord, QuietCounts DEF Counts
<1> QED
  BY <1>4, <1>5, <1>7, <1>9, <1>10 DEF AnswersKept, Answered

\* Write: the record takes the result and the parts, if it is still there.
LEMMA WriteStep ==
  ASSUME JobInv, NEW w \in Workers, Write(w)
  PROVE  JobInv' /\ AnswersKept
<1> USE DEF JobInv
<1>x. PICK x \in WorkerType : x = worker[w]
  BY WorkerRecord
<1>1. /\ worker[w].at = "write" /\ worker' = [worker EXCEPT ![w] = Idle]
      /\ table' = [table EXCEPT ![x.job] = IF @ = "absent" THEN @ ELSE x.result]
      /\ UNCHANGED <<asking, holding, queue, entry, scene, expired, cancelled, stopping, demand, lost>>
  BY <1>x DEF Write, Record, Set, line, times
<1>2. Hand(w) /\ (stopping = "no" => RunningHand(w))
  BY DEF Hands
<1>3. /\ x.job \in Jobs /\ asking[x.job] = "accepted" /\ x.result \in Terminal /\ x.bytes \in {0, 1}
      /\ x.job \notin Line /\ x.parked = FALSE /\ (x.bytes = 1 => x.job \notin Stored)
      /\ (stopping = "no" => x.job \notin Answered)
  BY <1>x, <1>1, <1>2, WorkerRecord DEF Hand, RunningHand, Handled, Closing
<1>4. worker' \in [Workers -> WorkerType] /\ Moves(w) /\ worker'[w] = Idle
  BY <1>1, IdleRecord, WorkerSet
<1>5. /\ table' \in [Jobs -> Terminal \cup {"absent", "queued", "running"}]
      /\ \A k \in Jobs : k # x.job => table'[k] = table[k]
      /\ table[x.job] = "absent" => table'[x.job] = "absent"
      /\ table[x.job] # "absent" => table'[x.job] = x.result /\ table'[x.job] # "absent"
  BY <1>1, <1>3 DEF JobTypeOK, Terminal
<1>6. /\ Line' = Line /\ Tried' = Tried /\ EntryDemand' = EntryDemand
  BY <1>1 DEF Line, Queued, Tried, EntryDemand
\* The bytes go into the record, or out of the spool.
<1>7. /\ spooled' \in [Jobs -> {0, 1}] /\ used' \in Nat
      /\ \A k \in Jobs : k # x.job => (k \in Stored' <=> k \in Stored)
      /\ x.job \in Stored' <=> (x.job \in Stored \/ (x.bytes = 1 /\ table[x.job] # "absent"))
      /\ used' = used - (IF table[x.job] = "absent" THEN x.bytes ELSE 0)
  <2>1. x.bytes <= used /\ used \in Nat
    <3>1. /\ Cardinality(WorkerBytes) \in Nat /\ Cardinality(Stored) \in Nat /\ used \in Nat /\ lost \in Nat
      BY CountedFinite, FS_CardinalityType, WorkerRecord
    <3>2. ASSUME x.bytes = 1 PROVE Cardinality(WorkerBytes) # 0
      <4>1. w \in WorkerBytes /\ IsFiniteSet(WorkerBytes)
        BY <1>x, <3>2, CountedFinite DEF WorkerBytes
      <4> QED
        BY <4>1, FS_EmptySet
    <3> QED
      BY <1>3, <3>1, <3>2 DEF Counts
  <2>2. CASE table[x.job] = "absent"
    <3>1. used' = used - x.bytes /\ spooled' = spooled
      BY <1>x, <2>2 DEF Write
    <3> QED
      BY <1>3, <2>1, <2>2, <3>1 DEF JobTypeOK, Stored
  <2>3. CASE table[x.job] # "absent"
    <3>1. /\ used' = used
          /\ spooled' = [spooled EXCEPT ![x.job] = IF x.bytes > 0 THEN x.bytes ELSE @]
      BY <1>x, <2>3 DEF Write
    <3>2. /\ spooled \in [Jobs -> {0, 1}] /\ spooled' \in [Jobs -> {0, 1}]
          /\ \A k \in Jobs : k # x.job => spooled'[k] = spooled[k]
          /\ spooled'[x.job] = IF x.bytes = 1 THEN 1 ELSE spooled[x.job]
      BY <1>3, <3>1 DEF JobTypeOK
    <3>3. /\ \A k \in Jobs : k # x.job => (k \in Stored' <=> k \in Stored)
          /\ x.job \in Stored' <=> (x.job \in Stored \/ x.bytes = 1)
      BY <1>3, <3>2 DEF Stored
    <3> QED
      BY <2>1, <2>3, <3>1, <3>2, <3>3
  <2> QED
    BY <2>2, <2>3
<1>8. JobTypeOK'
  BY <1>1, <1>4, <1>5, <1>7 DEF JobTypeOK
<1>9. Submitted'
  BY <1>1, <1>3, <1>5, <1>6, <1>7 DEF Submitted
<1>10. HandAfter(w)
  BY <1>4, IdleRecord, AtRest
<1>11. Hands'
  <2>1. ASSUME NEW v \in Workers, v # w
        PROVE  Hand(v)' /\ (stopping = "no" => RunningHand(v)')
    <3>1. Hand(v) /\ (stopping = "no" => RunningHand(v)) /\ Kept(v)
      BY <1>4, <2>1 DEF Hands, Moves
    <3>2. worker[v].bytes = 1 \/ worker[v].at \in Passing => worker[v].job \notin Stored'
      <4>1. worker[v].job = x.job /\ (worker[v].bytes = 1 \/ worker[v].at \in Passing) => x.bytes # 1
        BY <1>x, <1>1, <2>1 DEF Hands, Apart, Closing
      <4>2. worker[v].bytes = 1 \/ worker[v].at \in Passing => worker[v].job \in Jobs /\ worker[v].job \notin Stored
        BY <3>1 DEF Hand, Handled, Passing, Closing
      <4> QED
        BY <1>7, <4>1, <4>2
    <3>3. Hand(v)'
      BY <1>1, <1>6, <3>1, <3>2 DEF Hand, Kept
    <3>4. ASSUME stopping = "no" PROVE RunningHand(v)'
      <4>1. ASSUME worker[v].at \in Handled PROVE worker[v].job \notin Answered'
        <5>1. worker[v].job \in Jobs /\ worker[v].job \notin Answered
          BY <3>1, <3>4, <4>1 DEF Hand, RunningHand
        <5>2. CASE worker[v].job # x.job
          BY <1>5, <5>1, <5>2 DEF Answered
        <5>3. CASE worker[v].job = x.job
          <6>1. x.result = "cancelled"
            BY <1>x, <1>1, <2>1, <3>4, <4>1, <5>3 DEF Hands, RunningApart, Handled, Closing
          <6> QED
            BY <1>5, <5>3, <6>1 DEF Answered
        <5> QED
          BY <5>2, <5>3
      <4> QED
        BY <1>1, <1>6, <3>1, <3>4, <4>1 DEF RunningHand, Kept
    <3> QED
      BY <3>3, <3>4
  <2> QED
    BY <1>1, <1>4, <1>10, <2>1, HandsFromParts
<1>12. Entries'
  <2>1. ASSUME NEW i \in Line
        PROVE  /\ i \in Tried => \E v \in Workers : worker'[v].job = i /\ worker'[v].at \in Passing \cup {"leave"}
               /\ i \notin Stored' /\ (stopping = "no" => i \notin Answered')
    <3>1. i \in Jobs /\ i # x.job
      BY <1>3 DEF Line
    <3>2. i \notin Stored' /\ (stopping = "no" => i \notin Answered')
      BY <1>5, <1>7, <3>1 DEF Entries, Answered
    <3>3. ASSUME i \in Tried
          PROVE  \E v \in Workers : worker'[v].job = i /\ worker'[v].at \in Passing \cup {"leave"}
      <4>1. PICK v \in Workers : worker[v].job = i /\ worker[v].at \in Passing \cup {"leave"}
        BY <3>3 DEF Entries
      <4> QED
        BY <1>x, <1>4, <3>1, <4>1 DEF Moves, Kept
    <3> QED
      BY <3>2, <3>3
  <2> QED
    BY <1>1, <1>6, <2>1 DEF Entries
<1>13. Counts'
  <2>1. /\ Cardinality(WorkerDemand) \in Nat /\ Cardinality(WorkerBytes) \in Nat
        /\ worker'[w].parked = worker[w].parked =>
             Cardinality(WorkerDemand') = Cardinality(WorkerDemand)
        /\ Cardinality(WorkerBytes') = (Cardinality(WorkerBytes) + worker'[w].bytes) - worker[w].bytes
    BY <1>4, <1>8, WorkerCounts
  <2>2. /\ Cardinality(WorkerDemand') = Cardinality(WorkerDemand)
        /\ Cardinality(WorkerBytes') = Cardinality(WorkerBytes) - x.bytes
    <3>1. worker'[w].parked = FALSE /\ worker[w].parked = FALSE /\ worker'[w].bytes = 0
          /\ worker[w].bytes = x.bytes
      BY <1>x, <1>3, <1>4, IdleRecord
    <3>2. Cardinality(WorkerDemand') = Cardinality(WorkerDemand)
      BY <2>1, <3>1, Zenon
    <3> QED
      BY <1>3, <2>1, <3>1, <3>2
  <2>3. \A k : k # x.job => (k \in Stored' <=> k \in Stored)
    BY <1>7 DEF Stored
  <2>4. IsFiniteSet(Stored)
    BY CountedFinite
  <2>5. /\ Cardinality(Stored) \in Nat
        /\ x.bytes = 1 /\ table[x.job] # "absent" => Cardinality(Stored') = Cardinality(Stored) + 1
        /\ x.bytes = 0 \/ table[x.job] = "absent" => Cardinality(Stored') = Cardinality(Stored)
    BY <1>3, <1>7, <2>3, <2>4, OneChange
  <2>6. used \in Nat /\ lost \in Nat /\ SpoolRoom \in Nat
    BY WorkerRecord, JobAssumption
  <2>7. used' = Cardinality(Stored') + Cardinality(WorkerBytes') + lost' /\ used' <= SpoolRoom
    BY <1>1, <1>3, <1>7, <2>1, <2>2, <2>5, <2>6 DEF Counts
  <2>8. demand' = Cardinality(holding') + Cardinality(EntryDemand') + Cardinality(WorkerDemand')
    BY <1>1, <1>6, <2>2 DEF Counts
  <2> QED
    BY <2>7, <2>8 DEF Counts
<1> QED
  <2>1. AnswersKept
    BY <1>3, <1>5 DEF AnswersKept, Answered
  <2> QED
    BY <1>8, <1>9, <1>11, <1>12, <1>13, <2>1

-----------------------------------------------------------------------------
(* The submission, the owner, the clock and the shutdown *)

\* Steps that leave every worker alone: what they may change of the rest.
LEMMA StillHands ==
  ASSUME Hands, \A v \in Workers : Kept(v),
         Line' = Line, Tried' = Tried, EntryDemand' = EntryDemand,
         Answered' \subseteq Answered, Stored' \subseteq Stored, cancelled \subseteq cancelled',
         stopping' = "no" => stopping = "no",
         \A k \in Jobs : asking[k] = "accepted" => asking'[k] = "accepted"
  PROVE  Hands'
<1>1. ASSUME NEW v \in Workers PROVE Hand(v)' /\ (stopping' = "no" => RunningHand(v)')
  <2>1. Hand(v) /\ (stopping = "no" => RunningHand(v)) /\ Kept(v)
    BY DEF Hands
  <2>2. Hand(v)'
    BY <2>1 DEF Hand, Kept
  <2>3. stopping' = "no" => RunningHand(v)'
    BY <2>1 DEF RunningHand, Kept
  <2> QED
    BY <2>2, <2>3
<1>2. ASSUME NEW v \in Workers, NEW u \in Workers, v # u, worker'[v].job = worker'[u].job
      PROVE  Apart(v, u)' /\ (stopping' = "no" => RunningApart(v, u)')
  <2>1. Kept(v) /\ Kept(u)
    OBVIOUS
  <2>2. Apart(v, u) /\ (stopping = "no" => RunningApart(v, u))
    BY <1>2, <2>1 DEF Hands, Kept
  <2>3. Apart(v, u)'
    BY <2>1, <2>2 DEF Apart, Kept
  <2>4. stopping' = "no" => RunningApart(v, u)'
    BY <2>1, <2>2 DEF RunningApart, Kept
  <2> QED
    BY <2>3, <2>4
<1> QED
  BY <1>1, <1>2 DEF Hands

\* The same for the entries of the line.
LEMMA StillEntries ==
  ASSUME Entries, \A v \in Workers : Kept(v), Line' = Line, Tried' = Tried,
         Answered' \subseteq Answered, Stored' \subseteq Stored, stopping' = "no" => stopping = "no"
  PROVE  Entries'
<1>1. ASSUME NEW j \in Line, j \in Tried
      PROVE  \E v \in Workers : worker'[v].job = j /\ worker'[v].at \in Passing \cup {"leave"}
  BY <1>1 DEF Entries, Kept
<1> QED
  BY <1>1 DEF Entries

\* Workers that are not touched are kept.
LEMMA WorkersKept ==
  ASSUME worker' = worker
  PROVE  \A v \in Workers : Kept(v)
BY DEF Kept

\* Ask: the submission takes demand, if there is room for it.
LEMMA AskStep ==
  ASSUME JobInv, NEW j \in Jobs, Ask(j)
  PROVE  JobInv' /\ AnswersKept
<1> USE DEF JobInv
<1>1. /\ asking[j] = "new"
      /\ UNCHANGED <<table, spooled, used, queue, entry, scene, expired, cancelled, stopping, worker, lost>>
  BY DEF Ask, store, line, times
<1>2. /\ asking' \in [Jobs -> {"new", "never", "insert", "enqueue", "accepted", "refused", "done"}]
      /\ asking'[j] \in {"refused", "insert"} /\ \A k \in Jobs : k # j => asking'[k] = asking[k]
  BY DEF Ask, JobTypeOK
<1>3. \/ demand' = demand + 1 /\ holding' = holding \cup {j}
      \/ demand' = demand /\ holding' = holding
  BY DEF Ask
<1>5. Line' = Line /\ Tried' = Tried /\ EntryDemand' = EntryDemand /\ Answered' = Answered /\ Stored' = Stored
  BY <1>1 DEF Line, Queued, Tried, EntryDemand, Answered, Stored
<1>6. JobTypeOK'
  BY <1>1, <1>2, <1>3 DEF JobTypeOK
<1>7. Submitted'
  BY <1>1, <1>2, <1>3, <1>5 DEF Submitted
<1>8. Hands' /\ Entries'
  BY <1>1, <1>2, <1>5, WorkersKept, StillHands, StillEntries
<1>9. Counts'
  <2>1. WorkerDemand' = WorkerDemand /\ WorkerBytes' = WorkerBytes
    BY <1>1, WorkersKept, WorkersStill
  <2>2. j \notin holding /\ IsFiniteSet(holding)
    BY <1>1, CountedFinite DEF Submitted
  <2>3. Cardinality(holding \cup {j}) = Cardinality(holding) + 1
    BY <2>2, FS_AddElement
  <2>4. /\ Cardinality(holding) \in Nat /\ Cardinality(EntryDemand) \in Nat /\ Cardinality(WorkerDemand) \in Nat
    BY CountedFinite, FS_CardinalityType
  <2>5. demand' = Cardinality(holding') + Cardinality(EntryDemand') + Cardinality(WorkerDemand')
    <3>1. CASE demand' = demand + 1 /\ holding' = holding \cup {j}
      BY <1>5, <2>1, <2>3, <2>4, <3>1 DEF Counts
    <3>2. CASE demand' = demand /\ holding' = holding
      BY <1>5, <2>1, <3>2 DEF Counts
    <3> QED
      BY <1>3, <3>1, <3>2
  <2> QED
    BY <1>1, <1>5, <2>1, <2>5 DEF Counts
<1> QED
  BY <1>1, <1>6, <1>7, <1>8, <1>9 DEF AnswersKept

\* The sweep takes finished jobs off the table, and their parts with them.
LEMMA SweepEffect ==
  ASSUME JobInv, NEW gone \in SUBSET Finished, Sweep(gone), worker' = worker, lost' = lost
  PROVE  /\ gone \subseteq Jobs /\ \A k \in gone : table[k] \in Terminal
         /\ spooled' \in [Jobs -> {0, 1}] /\ used' \in Nat /\ used' <= SpoolRoom
         /\ Stored' = Stored \ gone
         /\ used' = Cardinality(Stored') + Cardinality(WorkerBytes') + lost'
<1> USE DEF JobInv
<1>1. gone \subseteq Jobs /\ \A k \in gone : table[k] \in Terminal
  BY DEF Finished
<1>2. /\ spooled' \in [Jobs -> {0, 1}] /\ Stored' = Stored \ gone
  BY <1>1 DEF Sweep, Stored, JobTypeOK
<1> DEFINE out == {k \in gone : spooled[k] = 1}
<1>3. used' = used - Cardinality(out)
  BY DEF Sweep
<1>4. out = Stored \cap gone
  BY <1>1 DEF Stored
<1> HIDE DEF out
<1>5. IsFiniteSet(Stored) /\ Cardinality(Stored) \in Nat /\ Cardinality(WorkerBytes) \in Nat
  BY CountedFinite, FS_CardinalityType
<1>6. IsFiniteSet(out) /\ IsFiniteSet(Stored') /\ Cardinality(out) \in Nat /\ Cardinality(Stored') \in Nat
  BY <1>2, <1>4, <1>5, FS_Subset, FS_CardinalityType
<1>7. Cardinality(Stored) = Cardinality(out) + Cardinality(Stored')
  <2>1. Stored = out \cup Stored' /\ out \cap Stored' = {}
    BY <1>2, <1>4
  <2>2. Cardinality(out \cup Stored') = Cardinality(out) + Cardinality(Stored') - Cardinality(out \cap Stored')
    BY <1>6, FS_Union
  <2>3. Cardinality(Stored) = Cardinality(out \cup Stored') /\ Cardinality(out \cap Stored') = 0
    BY <2>1, FS_EmptySet
  <2> QED
    BY <1>6, <2>2, <2>3
<1>8. WorkerBytes' = WorkerBytes /\ used \in Nat /\ lost \in Nat /\ SpoolRoom \in Nat
  BY JobAssumption DEF WorkerBytes, JobTypeOK
<1> QED
  BY <1>1, <1>2, <1>3, <1>5, <1>6, <1>7, <1>8 DEF Counts

\* Insert: the sweep, and a record for the job or a refusal.
LEMMA InsertStep ==
  ASSUME JobInv, NEW j \in Jobs, Insert(j)
  PROVE  JobInv' /\ AnswersKept
<1> USE DEF JobInv
<1>1. PICK gone \in SUBSET Finished, full \in BOOLEAN :
        /\ Sweep(gone)
        /\ table' = [Swept(table, gone) EXCEPT ![j] = IF full THEN @ ELSE "queued"]
        /\ asking' = [asking EXCEPT ![j] = IF full THEN "refused" ELSE "enqueue"]
  <2>1. PICK gone \in SUBSET Finished : 
          LET now  == Swept(table, gone)
              held == {k \in Jobs : now[k] # "absent" /\ TenantOf[k] = TenantOf[j]}
              full == \/ Cardinality(held) >= MaxPerTenant[TenantOf[j]]
                      \/ Cardinality({k \in held : PrincipalOf[k] = PrincipalOf[j]})
                           >= MaxPerPrincipal[TenantOf[j]]
          IN
          /\ Sweep(gone)
          /\ table' = [now EXCEPT ![j] = IF full THEN @ ELSE "queued"]
          /\ asking' = [asking EXCEPT ![j] = IF full THEN "refused" ELSE "enqueue"]
    BY Zenon DEF Insert
  <2> DEFINE held == {k \in Jobs : Swept(table, gone)[k] # "absent" /\ TenantOf[k] = TenantOf[j]}
             full == \/ Cardinality(held) >= MaxPerTenant[TenantOf[j]]
                     \/ Cardinality({k \in held : PrincipalOf[k] = PrincipalOf[j]})
                          >= MaxPerPrincipal[TenantOf[j]]
  <2>2. full \in BOOLEAN
    OBVIOUS
  <2>3. /\ Sweep(gone)
        /\ table' = [Swept(table, gone) EXCEPT ![j] = IF full THEN @ ELSE "queued"]
        /\ asking' = [asking EXCEPT ![j] = IF full THEN "refused" ELSE "enqueue"]
    BY <2>1, Zenon
  <2> HIDE DEF full
  <2> QED
    BY <2>2, <2>3, Zenon
<1>2. /\ asking[j] = "insert"
      /\ UNCHANGED <<queue, entry, scene, expired, cancelled, stopping, worker, holding, demand, lost>>
  BY DEF Insert, line, times
<1>3. /\ gone \subseteq Jobs /\ (\A k \in gone : table[k] \in Terminal)
      /\ spooled' \in [Jobs -> {0, 1}] /\ used' \in Nat /\ used' <= SpoolRoom
      /\ Stored' = Stored \ gone
      /\ used' = Cardinality(Stored') + Cardinality(WorkerBytes') + lost'
  BY <1>1, <1>2, SweepEffect
<1>4. j \notin gone /\ j \notin Stored /\ table[j] = "absent" /\ asking[j] # "accepted"
  BY <1>2, <1>3 DEF Submitted, Terminal
<1>5. /\ table' \in [Jobs -> Terminal \cup {"absent", "queued", "running"}]
      /\ \A k \in Jobs : k # j => table'[k] = IF k \in gone THEN "absent" ELSE table[k]
      /\ table'[j] = IF full THEN "absent" ELSE "queued"
  <2>1. Swept(table, gone) = [k \in Jobs |-> IF k \in gone THEN "absent" ELSE table[k]]
    BY DEF Swept
  <2> QED
    BY <1>1, <1>4, <2>1 DEF JobTypeOK
<1>6. /\ asking' \in [Jobs -> {"new", "never", "insert", "enqueue", "accepted", "refused", "done"}]
      /\ \A k \in Jobs : k # j => asking'[k] = asking[k]
      /\ asking'[j] = IF full THEN "refused" ELSE "enqueue"
  BY <1>1 DEF JobTypeOK
<1>7. Line' = Line /\ Tried' = Tried /\ EntryDemand' = EntryDemand
  BY <1>2 DEF Line, Queued, Tried, EntryDemand
<1>8. Answered' \subseteq Answered
  BY <1>4, <1>5 DEF Answered
<1>9. JobTypeOK'
  BY <1>2, <1>3, <1>5, <1>6 DEF JobTypeOK
<1>10. Submitted'
  BY <1>2, <1>3, <1>4, <1>5, <1>6, <1>7 DEF Submitted, Terminal
<1>11. Hands' /\ Entries'
  BY <1>2, <1>3, <1>4, <1>6, <1>7, <1>8, WorkersKept, StillHands, StillEntries
<1>12. Counts'
  <2>1. WorkerDemand' = WorkerDemand
    BY <1>2, WorkersKept, WorkersStill
  <2> QED
    BY <1>2, <1>3, <1>7, <2>1 DEF Counts
<1>13. AnswersKept
  BY <1>4, <1>5 DEF AnswersKept, Answered
<1> QED
  BY <1>9, <1>10, <1>11, <1>12, <1>13

\* Read: only finished records are swept, with what they hold.
LEMMA ReadStep ==
  ASSUME JobInv, Read
  PROVE  JobInv' /\ AnswersKept
<1> USE DEF JobInv
<1>1. PICK gone \in SUBSET Finished : Sweep(gone) /\ table' = Swept(table, gone)
  BY DEF Read
<1>2. UNCHANGED <<queue, entry, scene, expired, cancelled, stopping, worker, asking, holding, demand, lost>>
  BY DEF Read, line, times
<1>3. /\ gone \subseteq Jobs /\ (\A k \in gone : table[k] \in Terminal)
      /\ spooled' \in [Jobs -> {0, 1}] /\ used' \in Nat /\ used' <= SpoolRoom
      /\ Stored' = Stored \ gone
      /\ used' = Cardinality(Stored') + Cardinality(WorkerBytes') + lost'
  BY <1>1, <1>2, SweepEffect
<1>5. /\ table' \in [Jobs -> Terminal \cup {"absent", "queued", "running"}]
      /\ \A k \in Jobs : table'[k] = IF k \in gone THEN "absent" ELSE table[k]
  BY <1>1 DEF JobTypeOK, Swept
<1>7. Line' = Line /\ Tried' = Tried /\ EntryDemand' = EntryDemand
  BY <1>2 DEF Line, Queued, Tried, EntryDemand
<1>8. Answered' \subseteq Answered
  BY <1>5 DEF Answered
<1>9. JobTypeOK'
  BY <1>2, <1>3, <1>5 DEF JobTypeOK
<1>10. Submitted'
  BY <1>2, <1>3, <1>5, <1>7 DEF Submitted, Terminal
<1>11. Hands' /\ Entries'
  BY <1>2, <1>3, <1>7, <1>8, WorkersKept, StillHands, StillEntries
<1>12. Counts'
  <2>1. WorkerDemand' = WorkerDemand
    BY <1>2, WorkersKept, WorkersStill
  <2> QED
    BY <1>2, <1>3, <1>7, <2>1 DEF Counts
<1>13. AnswersKept
  BY <1>5 DEF AnswersKept, Answered
<1> QED
  BY <1>9, <1>10, <1>11, <1>12, <1>13

\* Enqueue: the demand goes from the submission to the entry.
LEMMA EnqueueStep ==
  ASSUME JobInv, NEW j \in Jobs, Enqueue(j)
  PROVE  JobInv' /\ AnswersKept
<1> USE DEF JobInv
<1>1. /\ asking[j] = "enqueue"
      /\ UNCHANGED <<spooled, used, scene, expired, cancelled, stopping, worker, demand, lost>>
  BY DEF Enqueue, times
<1>2. /\ table[j] = "queued" /\ j \notin Line /\ j \notin Stored /\ ~entry[j].parked /\ j \notin EntryDemand
  BY <1>1 DEF Submitted, EntryDemand, Line
<1>3. Stored' = Stored
  BY <1>1 DEF Stored
<1>4. WorkerDemand' = WorkerDemand /\ WorkerBytes' = WorkerBytes /\ \A v \in Workers : Kept(v)
  BY <1>1, WorkersKept, WorkersStill
<1>5. CASE /\ table' = [table EXCEPT ![j] = "absent"] /\ asking' = [asking EXCEPT ![j] = "refused"]
           /\ UNCHANGED <<line, holding>>
  <2>1. /\ table' \in [Jobs -> Terminal \cup {"absent", "queued", "running"}]
        /\ table'[j] = "absent" /\ \A k \in Jobs : k # j => table'[k] = table[k]
    BY <1>5 DEF JobTypeOK
  <2>2. /\ asking' \in [Jobs -> {"new", "never", "insert", "enqueue", "accepted", "refused", "done"}]
        /\ asking'[j] = "refused" /\ \A k \in Jobs : k # j => asking'[k] = asking[k]
    BY <1>5 DEF JobTypeOK
  <2>3. Line' = Line /\ Tried' = Tried /\ EntryDemand' = EntryDemand /\ queue' = queue /\ entry' = entry
        /\ holding' = holding
    BY <1>5 DEF line, Line, Queued, Tried, EntryDemand
  <2>4. Answered' \subseteq Answered
    BY <2>1 DEF Answered
  <2>5. JobTypeOK'
    BY <1>1, <2>1, <2>2, <2>3 DEF JobTypeOK
  <2>6. Submitted'
    BY <1>1, <1>2, <1>3, <2>1, <2>2, <2>3 DEF Submitted
  <2>7. Hands' /\ Entries'
    BY <1>1, <1>3, <1>4, <2>2, <2>3, <2>4, StillHands, StillEntries
  <2>8. Counts'
    BY <1>1, <1>3, <1>4, <2>3 DEF Counts
  <2>9. AnswersKept
    BY <1>2, <2>1 DEF AnswersKept, Answered
  <2> QED
    BY <2>5, <2>6, <2>7, <2>8, <2>9
<1>6. CASE /\ queue' = Append(queue, j)
           /\ entry' = [entry EXCEPT ![j] =
                [NoEntry EXCEPT !.parked = j \in holding,
                  !.principal_round = Cardinality({k \in SameClass(j) : PrincipalOf[k] = PrincipalOf[j]}),
                  !.tenant_round = Cardinality(SameClass(j))]]
           /\ holding' = holding \ {j} /\ asking' = [asking EXCEPT ![j] = "accepted"] /\ UNCHANGED table
  <2>1. /\ queue' \in Seq(Jobs) /\ Line' = Line \cup {j}
        /\ \A i, k \in 1 .. Len(queue') : queue'[i] = queue'[k] => i = k
    BY <1>2, <1>6, PutAtTheBack
  <2>2. /\ asking' \in [Jobs -> {"new", "never", "insert", "enqueue", "accepted", "refused", "done"}]
        /\ asking'[j] = "accepted" /\ \A k \in Jobs : k # j => asking'[k] = asking[k]
    BY <1>6 DEF JobTypeOK
  <2>3. PICK f \in EntryType : entry' = [entry EXCEPT ![j] = f] /\ f.trying = FALSE /\ (f.parked <=> j \in holding)
    <3> DEFINE m == Cardinality({k \in SameClass(j) : PrincipalOf[k] = PrincipalOf[j]})
               n == Cardinality(SameClass(j))
               b == j \in holding
               f == [NoEntry EXCEPT !.parked = b, !.principal_round = m, !.tenant_round = n]
    <3>1. m \in Nat /\ n \in Nat /\ b \in BOOLEAN
      <4>1. SameClass(j) \subseteq Jobs
        BY DEF SameClass
      <4>2. IsFiniteSet(SameClass(j)) /\ IsFiniteSet({k \in SameClass(j) : PrincipalOf[k] = PrincipalOf[j]})
        BY <4>1, JobAssumption, FS_Subset
      <4> QED
        BY <4>2, FS_CardinalityType
    <3>2. entry' = [entry EXCEPT ![j] = f]
      BY <1>6
    <3> HIDE DEF m, n, b
    <3>3. f \in EntryType /\ f.trying = FALSE /\ f.parked = b
      BY <3>1 DEF NoEntry, EntryType
    <3> HIDE DEF f
    <3> QED
      BY <3>2, <3>3 DEF b
  <2>4. /\ entry' \in [Jobs -> EntryType] /\ \A k \in Jobs : entry'[k] = IF k = j THEN f ELSE entry[k]
    BY <2>3 DEF JobTypeOK
  <2>5. /\ Tried' = Tried \ {j}
        /\ j \in EntryDemand' <=> j \in holding
        /\ \A k : k # j => (k \in EntryDemand' <=> k \in EntryDemand)
    <3>1. \A k \in Jobs : (k \in Line <=> Queued(k)) /\ (k \in Line' <=> Queued(k)')
      BY DEF Line
    <3>2. Tried' = Tried \ {j}
      BY <2>3, <2>4 DEF Tried
    <3>3. EntryDemand = {k \in Jobs : k \in Line /\ entry[k].parked} /\ EntryDemand' = {k \in Jobs : k \in Line' /\ entry'[k].parked}
      BY DEF EntryDemand, Line
    <3> QED
      BY <2>1, <2>3, <2>4, <3>2, <3>3
  <2>6. JobTypeOK'
    BY <1>1, <1>6, <2>1, <2>2, <2>4 DEF JobTypeOK
  <2>7. Answered' = Answered /\ j \notin Answered
    BY <1>2, <1>6 DEF Answered
  <2>8. Submitted'
    <3>1. \A k \in Jobs : k \notin Line' => ~entry'[k].parked
      BY <2>1, <2>4 DEF Submitted
    <3> QED
      BY <1>2, <1>3, <1>6, <2>1, <2>2, <3>1 DEF Submitted
  <2>9. Hands'
    <3>1. ASSUME NEW v \in Workers
          PROVE  /\ worker[v].at \in Handled \cup {"show"} => worker[v].job # j
                 /\ worker[v].bytes = 1 => worker[v].at \in Handled
                 /\ Hand(v) /\ (stopping = "no" => RunningHand(v)) /\ Kept(v)
      <4>1. Hand(v) /\ (stopping = "no" => RunningHand(v)) /\ Kept(v)
        BY <1>4 DEF Hands
      <4>2. worker[v].at \in Handled \cup {"show"} => worker[v].job # j
        BY <1>1, <4>1 DEF Hand
      <4> QED
        BY <4>1, <4>2 DEF Hand, Handled, Passing, Closing
    <3>2. ASSUME NEW v \in Workers PROVE Hand(v)' /\ (stopping' = "no" => RunningHand(v)')
      <4>1. Hand(v)'
        BY <1>3, <2>1, <2>2, <2>5, <3>1 DEF Hand, Kept, Handled, Passing, Closing
      <4>2. stopping' = "no" => RunningHand(v)'
        BY <1>1, <2>1, <2>5, <2>7, <3>1 DEF RunningHand, Kept, Handled, Passing, Closing
      <4> QED
        BY <4>1, <4>2
    <3>3. ASSUME NEW v \in Workers, NEW u \in Workers, v # u, worker'[v].job = worker'[u].job
          PROVE  Apart(v, u)' /\ (stopping' = "no" => RunningApart(v, u)')
      BY <1>1, <3>3 DEF Hands, Apart, RunningApart
    <3> QED
      BY <3>2, <3>3 DEF Hands
  <2>10. Entries'
    <3>1. ASSUME NEW i \in Line', i \in Tried'
          PROVE  \E v \in Workers : worker'[v].job = i /\ worker'[v].at \in Passing \cup {"leave"}
      <4>1. i \in Line /\ i \in Tried
        BY <2>1, <2>5, <3>1
      <4> QED
        BY <1>1, <4>1 DEF Entries
    <3> QED
      BY <1>1, <1>2, <1>3, <2>1, <2>7, <3>1 DEF Entries
  <2>11. Counts'
    <3>1. /\ IsFiniteSet(EntryDemand) /\ IsFiniteSet(holding) /\ Cardinality(WorkerDemand) \in Nat
      BY CountedFinite, FS_CardinalityType
    <3>2. /\ Cardinality(EntryDemand) \in Nat
          /\ j \in holding => Cardinality(EntryDemand') = Cardinality(EntryDemand) + 1
          /\ j \notin holding => Cardinality(EntryDemand') = Cardinality(EntryDemand)
      BY <1>2, <2>5, <3>1, OneChange
    <3>3. /\ Cardinality(holding) \in Nat
          /\ j \in holding => Cardinality(holding') = Cardinality(holding) - 1
          /\ j \notin holding => Cardinality(holding') = Cardinality(holding)
      <4>1. \A k : k # j => (k \in holding' <=> k \in holding)
        BY <1>6
      <4>2. j \notin holding'
        BY <1>6
      <4> QED
        BY <3>1, <4>1, <4>2, OneChange
    <3>4. demand' = Cardinality(holding') + Cardinality(EntryDemand') + Cardinality(WorkerDemand')
      BY <1>1, <1>4, <3>1, <3>2, <3>3 DEF Counts
    <3> QED
      BY <1>1, <1>3, <1>4, <3>4 DEF Counts
  <2> QED
    BY <1>6, <2>6, <2>8, <2>9, <2>10, <2>11 DEF AnswersKept
<1> QED
  BY <1>5, <1>6 DEF Enqueue

\* Refused: a refused submission gives its demand back.
LEMMA RefusedStep ==
  ASSUME JobInv, NEW j \in Jobs, Refused(j)
  PROVE  JobInv' /\ AnswersKept
<1> USE DEF JobInv
<1>1. /\ asking[j] = "refused" /\ holding' = holding \ {j} /\ demand' = demand - One(j \in holding)
      /\ UNCHANGED <<table, spooled, used, queue, entry, scene, expired, cancelled, stopping, worker, lost>>
  BY DEF Refused, store, line, times
<1>2. /\ asking' \in [Jobs -> {"new", "never", "insert", "enqueue", "accepted", "refused", "done"}]
      /\ asking'[j] = "done" /\ \A k \in Jobs : k # j => asking'[k] = asking[k]
  BY DEF Refused, JobTypeOK
<1>3. Line' = Line /\ Tried' = Tried /\ EntryDemand' = EntryDemand /\ Answered' = Answered /\ Stored' = Stored
  BY <1>1 DEF Line, Queued, Tried, EntryDemand, Answered, Stored
<1>4. /\ Cardinality(holding) \in Nat /\ Cardinality(holding') \in Nat
      /\ Cardinality(EntryDemand) \in Nat /\ Cardinality(WorkerDemand) \in Nat
      /\ j \in holding => Cardinality(holding') = Cardinality(holding) - 1
      /\ j \notin holding => Cardinality(holding') = Cardinality(holding)
  <2>1. \A k : k # j => (k \in holding' <=> k \in holding)
    BY <1>1
  <2>2. j \notin holding' /\ IsFiniteSet(holding)
    BY <1>1, CountedFinite
  <2> QED
    BY <2>1, <2>2, OneChange, CountedFinite, FS_CardinalityType
<1>5. WorkerDemand' = WorkerDemand /\ WorkerBytes' = WorkerBytes /\ \A v \in Workers : Kept(v)
  BY <1>1, WorkersKept, WorkersStill
<1>6. /\ demand' = Cardinality(holding') + Cardinality(EntryDemand') + Cardinality(WorkerDemand')
      /\ demand' \in Nat
  <2>1. CASE j \in holding
    BY <1>1, <1>3, <1>4, <1>5, <2>1 DEF Counts, One
  <2>2. CASE j \notin holding
    BY <1>1, <1>3, <1>4, <1>5, <2>2 DEF Counts, One
  <2> QED
    BY <2>1, <2>2
<1>7. JobTypeOK'
  BY <1>1, <1>2, <1>6 DEF JobTypeOK
<1>8. Submitted'
  BY <1>1, <1>2, <1>3 DEF Submitted
<1>9. Hands' /\ Entries'
  BY <1>1, <1>2, <1>3, <1>5, StillHands, StillEntries
<1>10. Counts'
  BY <1>1, <1>3, <1>5, <1>6 DEF Counts
<1> QED
  BY <1>1, <1>7, <1>8, <1>9, <1>10 DEF AnswersKept

\* Cancel: no answer is touched, and the flag only grows.
LEMMA CancelStep ==
  ASSUME JobInv, NEW j \in Jobs, Cancel(j)
  PROVE  JobInv' /\ AnswersKept
<1> USE DEF JobInv
<1>1. /\ asking[j] = "accepted" /\ table[j] \in {"queued", "running"} /\ cancelled' = cancelled \cup {j}
      /\ table' = [table EXCEPT ![j] = IF @ = "queued" THEN "cancelled" ELSE @]
      /\ UNCHANGED <<spooled, used, queue, entry, scene, expired, stopping, worker, asking, holding, demand, lost>>
  BY DEF Cancel, line
<1>2. /\ table' \in [Jobs -> Terminal \cup {"absent", "queued", "running"}]
      /\ table'[j] \in {"cancelled", "running"} /\ \A k \in Jobs : k # j => table'[k] = table[k]
  BY <1>1 DEF JobTypeOK, Terminal
<1>3. Line' = Line /\ Tried' = Tried /\ EntryDemand' = EntryDemand /\ Stored' = Stored
  BY <1>1 DEF Line, Queued, Tried, EntryDemand, Stored
<1>4. Answered' = Answered
  BY <1>1, <1>2 DEF Answered
<1>5. WorkerDemand' = WorkerDemand /\ WorkerBytes' = WorkerBytes /\ \A v \in Workers : Kept(v)
  BY <1>1, WorkersKept, WorkersStill
<1>6. JobTypeOK'
  BY <1>1, <1>2 DEF JobTypeOK
<1>7. Submitted'
  BY <1>1, <1>2, <1>3 DEF Submitted
<1>8. Hands' /\ Entries'
  BY <1>1, <1>3, <1>4, <1>5, StillHands, StillEntries
<1>9. Counts'
  BY <1>1, <1>3, <1>5 DEF Counts
<1>10. AnswersKept
  BY <1>1, <1>2 DEF AnswersKept, Answered
<1> QED
  BY <1>6, <1>7, <1>8, <1>9, <1>10

\* the clock and the shutdown
LEMMA TimesStep ==
  ASSUME JobInv, (\E j \in Jobs : PatienceOver(j)) \/ Stop \/ FlagQueue
  PROVE  JobInv' /\ AnswersKept
<1> USE DEF JobInv
<1>1. /\ UNCHANGED <<table, spooled, used, queue, entry, scene, worker, asking, holding, demand, lost>>
      /\ expired' \subseteq Jobs /\ cancelled' \subseteq Jobs /\ cancelled \subseteq cancelled'
      /\ stopping' \in {"no", "set", "told"} /\ (stopping' = "no" => stopping = "no")
  BY DEF PatienceOver, Stop, FlagQueue, line, store, JobTypeOK
<1>2. Line' = Line /\ Tried' = Tried /\ EntryDemand' = EntryDemand /\ Stored' = Stored /\ Answered' = Answered
  BY <1>1 DEF Line, Queued, Tried, EntryDemand, Stored, Answered
<1>3. WorkerDemand' = WorkerDemand /\ WorkerBytes' = WorkerBytes /\ \A v \in Workers : Kept(v)
  BY <1>1, WorkersKept, WorkersStill
<1>4. JobTypeOK'
  BY <1>1 DEF JobTypeOK
<1>5. Submitted'
  BY <1>1, <1>2 DEF Submitted
<1>6. Hands' /\ Entries'
  BY <1>1, <1>2, <1>3, StillHands, StillEntries
<1>7. Counts'
  BY <1>1, <1>2, <1>3 DEF Counts
<1> QED
  BY <1>1, <1>4, <1>5, <1>6, <1>7 DEF AnswersKept

\* BackoffOver: an entry may be tried again.
LEMMA BackoffOverStep ==
  ASSUME JobInv, NEW j \in Jobs, BackoffOver(j)
  PROVE  JobInv' /\ AnswersKept
<1> USE DEF JobInv
<1>1. /\ UNCHANGED <<table, spooled, used, queue, scene, expired, cancelled, stopping, worker, asking, holding,
                     demand, lost>>
      /\ entry' = [entry EXCEPT ![j].backing = FALSE]
  BY DEF BackoffOver, store, times
<1>2. /\ entry' \in [Jobs -> EntryType]
      /\ \A k \in Jobs : entry'[k].trying = entry[k].trying /\ entry'[k].parked = entry[k].parked
  <2>1. PICK e \in EntryType : e = entry[j]
    BY DEF JobTypeOK
  <2> DEFINE f == [e EXCEPT !.backing = FALSE]
  <2>2. f \in EntryType /\ f.trying = e.trying /\ f.parked = e.parked
    BY DEF EntryType
  <2>3. entry' = [entry EXCEPT ![j] = f]
    BY <1>1, <2>1
  <2> HIDE DEF f
  <2> QED
    BY <2>1, <2>2, <2>3 DEF JobTypeOK
<1>3. Line' = Line /\ Tried' = Tried /\ EntryDemand' = EntryDemand /\ Stored' = Stored /\ Answered' = Answered
  BY <1>1, <1>2, SameMarks DEF Stored, Answered
<1>4. WorkerDemand' = WorkerDemand /\ WorkerBytes' = WorkerBytes /\ \A v \in Workers : Kept(v)
  BY <1>1, WorkersKept, WorkersStill
<1>5. JobTypeOK'
  BY <1>1, <1>2 DEF JobTypeOK
<1>6. Submitted'
  BY <1>1, <1>2, <1>3 DEF Submitted
<1>7. Hands' /\ Entries'
  BY <1>1, <1>3, <1>4, StillHands, StillEntries
<1>8. Counts'
  BY <1>1, <1>3, <1>4 DEF Counts
<1> QED
  BY <1>1, <1>5, <1>6, <1>7, <1>8 DEF AnswersKept


-----------------------------------------------------------------------------
(* The theorems *)

\* The store that opens: nothing is queued, held or spooled.
LEMMA InitJobInv ==
  ASSUME Init
  PROVE  JobInv
<1>1. /\ scene \in Scenes /\ table = [j \in Jobs |-> "absent"] /\ spooled = [j \in Jobs |-> 0]
      /\ used = 0 /\ lost = 0 /\ asking = [j \in Jobs |-> IF j \in scene.come THEN "new" ELSE "never"]
      /\ holding = {} /\ queue = <<>> /\ entry = [j \in Jobs |-> NoEntry]
      /\ cancelled = {} /\ stopping = "no" /\ expired = {}
      /\ worker = [w \in Workers |-> Idle] /\ demand = 0
  BY DEF Init
<1>2. NoEntry \in EntryType /\ NoEntry.trying = FALSE /\ NoEntry.parked = FALSE
  BY DEF NoEntry, EntryType
<1>3. /\ \A w \in Workers : /\ worker[w] \in WorkerType /\ worker[w].at = "take"
                            /\ worker[w].parked = FALSE /\ worker[w].bytes = 0
      /\ \A j \in Jobs : entry[j] \in EntryType /\ entry[j].trying = FALSE /\ entry[j].parked = FALSE
  BY <1>1, <1>2, IdleRecord
<1>4. worker \in [Workers -> WorkerType] /\ entry \in [Jobs -> EntryType]
  BY <1>1, <1>2, IdleRecord
<1>5. queue \in Seq(Jobs) /\ Len(queue) = 0
  BY <1>1
<1>6. JobTypeOK
  BY <1>1, <1>4, <1>5 DEF JobTypeOK, Terminal
<1>7. Line = {} /\ EntryDemand = {}
  BY <1>5 DEF Line, EntryDemand, Queued
<1>8. Stored = {} /\ WorkerDemand = {} /\ WorkerBytes = {}
  BY <1>1, <1>3 DEF Stored, WorkerDemand, WorkerBytes
<1>9. Submitted
  BY <1>1, <1>3, <1>5, <1>7, <1>8 DEF Submitted
<1>10. Hands
  BY <1>3 DEF Hands, Hand, RunningHand, Apart, RunningApart, Passing, Closing, Handled
<1>11. Entries
  BY <1>7 DEF Entries
<1>12. Counts
  <2>1. Cardinality(holding) = 0 /\ Cardinality(EntryDemand) = 0 /\ Cardinality(WorkerDemand) = 0
        /\ Cardinality(Stored) = 0 /\ Cardinality(WorkerBytes) = 0
    BY <1>1, <1>7, <1>8, FS_EmptySet
  <2>2. SpoolRoom \in Nat
    BY JobAssumption
  <2> QED
    BY <1>1, <2>1, <2>2 DEF Counts
<1> QED
  BY <1>6, <1>9, <1>10, <1>11, <1>12 DEF JobInv

\* A step of a job's submission, its owner or its clock.
LEMMA JobsStep ==
  ASSUME JobInv, NEW j \in Jobs, Submit(j) \/ Cancel(j) \/ Clock(j)
  PROVE  JobInv' /\ AnswersKept
<1>1. CASE Submit(j)
  BY <1>1, AskStep, InsertStep, EnqueueStep, RefusedStep DEF Submit
<1>2. CASE Cancel(j)
  BY <1>2, CancelStep
<1>3. CASE Clock(j)
  BY <1>3, TimesStep, BackoffOverStep DEF Clock
<1> QED
  BY <1>1, <1>2, <1>3

\* A step of a worker.
LEMMA WorkersStep ==
  ASSUME JobInv, NEW w \in Workers, Started(w) \/ Work(w)
  PROVE  JobInv' /\ AnswersKept
<1>1. CASE Started(w)
  BY <1>1, StartedStep
<1>2. CASE TakeDead(w) \/ TakeDue(w) \/ Quit(w) \/ Nap(w) \/ Tick(w) \/ Discard(w)
  BY <1>2, TakeDeadStep, TakeDueStep, RestStep, TickStep, DiscardStep
<1>3. CASE PassEnds(w) \/ Reserve(w) \/ Fetch(w) \/ Decide(w) \/ put_back(w)
  BY <1>3, PassEndsStep, ReserveStep, FetchStep, DecideStep, put_backStep
<1>4. CASE Show(w) \/ leave(w) \/ Judge(w) \/ Write(w)
  BY <1>4, ShowStep, leaveStep, JudgeStep, WriteStep
<1> QED
  BY <1>1, <1>2, <1>3, <1>4 DEF Work

\* Every step keeps the invariant, and the answers.
LEMMA NextJobInv ==
  ASSUME JobInv, [Next]_vars
  PROVE  JobInv' /\ AnswersKept
<1>1. CASE \E j \in Jobs : Submit(j) \/ Cancel(j) \/ Clock(j)
  BY <1>1, JobsStep
<1>2. CASE \E w \in Workers : Started(w) \/ Work(w)
  BY <1>2, WorkersStep
<1>3. CASE Read
  BY <1>3, ReadStep
<1>4. CASE Stop \/ FlagQueue
  BY <1>4, TimesStep
<1>5. CASE UNCHANGED vars
  <2>1. UNCHANGED <<scene, table, asking, holding, queue, entry, cancelled, stopping, expired, worker,
                    demand, used, spooled, lost>>
    BY <1>5 DEF vars, store, line, times
  <2>2. /\ Line' = Line /\ Tried' = Tried /\ EntryDemand' = EntryDemand /\ Stored' = Stored
        /\ Answered' = Answered /\ WorkerDemand' = WorkerDemand /\ WorkerBytes' = WorkerBytes
    BY <2>1 DEF Line, Queued, Tried, EntryDemand, Stored, Answered, WorkerDemand, WorkerBytes
  <2>3. JobTypeOK' /\ Submitted' /\ Counts'
    BY <2>1, <2>2 DEF JobInv, JobTypeOK, Submitted, Counts
  <2>4. Hands' /\ Entries'
    BY <2>1, <2>2, WorkersKept, StillHands, StillEntries DEF JobInv
  <2> QED
    BY <2>1, <2>3, <2>4 DEF JobInv, AnswersKept
<1> QED
  BY <1>1, <1>2, <1>3, <1>4, <1>5 DEF Next

\* Jobs, workers, demand and spool stay as the inductive invariant has them,
\* whatever is submitted, cancelled, retried, discarded or swept.
THEOREM JobInvariant == Spec => []JobInv
<1>1. Init => JobInv
  BY InitJobInv
<1>2. JobInv /\ [Next]_vars => JobInv'
  BY NextJobInv
<1> QED
  BY <1>1, <1>2, PTL DEF Spec

\* Demand and bytes are the sums over who holds them, and an entry marked as
\* tried is in a worker's hands.
LEMMA JobInvQueueExact ==
  ASSUME JobInv
  PROVE  QueueExact
<1> USE DEF JobInv
<1>1. DemandExact
  BY DEF Counts, DemandExact, EntryDemand, WorkerDemand
<1>2. SpoolExact
  <2>1. \A j \in Jobs : spooled[j] = 1 => table[j] # "absent"
    BY DEF Submitted, Stored
  <2> QED
    BY <2>1 DEF Counts, SpoolExact, Stored, WorkerBytes
<1>3. ASSUME NEW j \in Jobs, Queued(j), entry[j].trying
      PROVE  InPass(j) \cup At(j, {"leave"}) # {}
  <2>1. j \in Line /\ j \in Tried
    BY <1>3 DEF Line, Tried
  <2>2. PICK w \in Workers : worker[w].job = j /\ worker[w].at \in Passing \cup {"leave"}
    BY <2>1 DEF Entries
  <2> QED
    BY <2>2 DEF InPass, At, Passing
<1>4. ASSUME NEW j \in Jobs, InPass(j) # {}, ~Stopping
      PROVE  Queued(j) /\ Cardinality(InPass(j)) = 1
  <2>1. PICK w \in Workers : worker[w].job = j /\ worker[w].at \in Passing
    BY <1>4 DEF InPass, At, Passing
  <2>2. stopping = "no"
    BY <1>4 DEF Stopping
  <2>3. j \in Line
    BY <2>1, <2>2 DEF Hands, RunningHand
  <2>4. InPass(j) = {w}
    BY <2>1 DEF Hands, Apart, InPass, At, Passing
  <2>5. Cardinality({w}) = 1
    BY FS_Singleton
  <2> QED
    BY <2>3, <2>4, <2>5 DEF Line
<1> QED
  BY <1>1, <1>2, <1>3, <1>4 DEF QueueExact, TryingIsHeld

\* QueueExact: parked demand, marks and spooled bytes agree with what jobs
\* and workers hold, in every state of every instance.
THEOREM JobQueueExact == Spec => []QueueExact
BY JobInvariant, JobInvQueueExact, PTL

\* ResultKept: until the store stops, finish, cancel, put_back and Show leave
\* an answer alone; only the sweep removes it.
THEOREM JobResultKept == Spec => ResultKept
<1>1. JobInv /\ [Next]_vars =>
        [\A j \in Jobs : table[j] \in {"succeeded", "failed"} /\ ~Stopping =>
           table'[j] \in {table[j], "absent"}]_vars
  BY NextJobInv DEF AnswersKept, Answered, Stopping
<1> QED
  BY <1>1, JobInvariant, PTL DEF Spec, ResultKept

\* The types of the job store's variables are kept.
THEOREM JobTypes == Spec => []JobTypeOK
BY JobInvariant, PTL DEF JobInv
=============================================================================
