--------------------------- MODULE CapacityProofs ---------------------------
(***************************************************************************)
(* What a request has to get before it is sent, for every instance.        *)
(*                                                                         *)
(* For any number of requests, scopes, chains and publications, the slot   *)
(* counters of AdmissionQueue count exactly the requests inside, nothing   *)
(* is left when all have been answered, no limit is passed, no place in a  *)
(* line is dead, and the line is fair to the tenants.  For any number of   *)
(* threads and any configuration, the probe slots of Breaker are exact and *)
(* a result of an earlier epoch decides nothing.                           *)
(***************************************************************************)
EXTENDS AdmissionQueue, Breaker, FiniteSetTheorems, TLAPS

Types ==
  /\ limits \in [Scopes -> Limits]
  /\ in_flight \in [Scopes -> Int]
  /\ acquired \in [Scopes -> Int] /\ released \in [Scopes -> Int]
  /\ pc \in [Requests -> Points]
  /\ held \in [Requests -> Nat]
  /\ seen \in [Requests -> Limits]
  /\ verdict \in [Requests -> Scopes \cup {"none", "served", "rate", "memory"}]

\* How much of its chain a request holds at each point of its attempt.
Progress ==
  \A r \in Requests :
    /\ held[r] <= Len(ChainOf[r])
    /\ pc[r] \in {"check", "slot", "bucket", "wake"} => held[r] < Len(ChainOf[r])
    /\ pc[r] \in {"unslot", "holding", "memory"} => held[r] > 0
    /\ pc[r] \in {"idle", "decide", "machine", "join", "look", "toSleep", "asleep", "done"}
         => held[r] = 0
    /\ pc[r] = "leave" => (held[r] > 0 <=> verdict[r] = "served")
    /\ pc[r] \in {"decide", "join", "look", "toSleep", "asleep"} => verdict[r] # "served"

\* Every answered request is out of every scope.
NothingLeft ==
  (\A r \in Requests : pc[r] = "done") =>
    \A s \in Scopes : in_flight[s] = 0 /\ acquired[s] = released[s]

SlotInv == Types /\ Progress /\ SlotsAccounted /\ Conservation /\ ConcurrencyBounded

-----------------------------------------------------------------------------

\* The sets that are counted are finite.
LEMMA Finite ==
  ASSUME NEW s
  PROVE  /\ IsFiniteSet(Holders(s)) /\ IsFiniteSet(Releasing(s)) /\ IsFiniteSet(Occupants(s))
         /\ Cardinality(Holders(s)) \in Nat /\ Cardinality(Releasing(s)) \in Nat
         /\ Cardinality(Occupants(s)) \in Nat
<1>1. Holders(s) \subseteq Requests /\ Releasing(s) \subseteq Requests
      /\ Occupants(s) \subseteq Requests
  BY DEF Holders, Releasing, Occupants
<1>2. IsFiniteSet(Requests)
  BY RequestAssumption
<1>3. IsFiniteSet(Holders(s)) /\ IsFiniteSet(Releasing(s)) /\ IsFiniteSet(Occupants(s))
  BY <1>1, <1>2, FS_Subset
<1>. QED  BY <1>3, FS_CardinalityType

\* A chain has a scope at each position.
LEMMA ChainScopes ==
  ASSUME NEW r \in Requests
  PROVE  /\ Len(ChainOf[r]) \in Nat /\ Len(ChainOf[r]) > 0
         /\ \A i \in 1 .. Len(ChainOf[r]) : ChainOf[r][i] \in Scopes
         /\ \A i, j \in 1 .. Len(ChainOf[r]) : ChainOf[r][i] = ChainOf[r][j] => i = j
  BY ChainAssumption

\* A step that moves no request into or out of a scope.
Quiet ==
  /\ UNCHANGED <<in_flight, acquired, released, held>>
  /\ DOMAIN pc' = Requests
  /\ \A q \in Requests : \/ pc'[q] = pc[q]
                         \/ pc[q] \notin {"bucket", "wake"} /\ pc'[q] \notin {"bucket", "wake"}

LEMMA QuietStep ==
  ASSUME Quiet, SlotsAccounted, Conservation, ConcurrencyBounded
  PROVE  SlotsAccounted' /\ Conservation' /\ ConcurrencyBounded'
<1>1. ASSUME NEW s \in Scopes
      PROVE  /\ Holders(s)' = Holders(s) /\ Releasing(s)' = Releasing(s)
             /\ Occupants(s)' = Occupants(s)
  BY DEF Quiet, Holders, Releasing, Occupants, Here
<1>. QED  BY <1>1 DEF Quiet, SlotsAccounted, Conservation, ConcurrencyBounded

LEMMA InitSlots == Init => SlotInv
<1>. SUFFICES ASSUME Init PROVE SlotInv
  OBVIOUS
<1>1. Types
  <2>1. \A r \in Requests : ChainOf[r][1] \in Scopes
    BY ChainScopes
  <2>2. seen \in [Requests -> Limits]
    BY <2>1, LimitAssumption DEF Init
  <2>. QED  BY <2>2, LimitAssumption DEF Init, Types, Points
<1>2. Progress
  BY ChainScopes DEF Init, Progress
<1>3. ASSUME NEW s \in Scopes
      PROVE  Holders(s) = {} /\ Releasing(s) = {} /\ Occupants(s) = {}
  BY DEF Init, Holders, Releasing, Occupants
<1>4. SlotsAccounted /\ Conservation
  <2>1. Cardinality({}) = 0
    BY FS_EmptySet
  <2>2. ASSUME NEW s \in Scopes
        PROVE  /\ in_flight[s] = Cardinality(Occupants(s))
               /\ acquired[s] = released[s] + Cardinality(Holders(s)) + Cardinality(Releasing(s))
    <3>1. /\ Cardinality(Holders(s)) = 0 /\ Cardinality(Releasing(s)) = 0
          /\ Cardinality(Occupants(s)) = 0
      BY <1>3, <2>1, Zenon
    <3>. QED  BY <3>1 DEF Init
  <2>. QED  BY <2>2 DEF SlotsAccounted, Conservation
<1>5. ConcurrencyBounded
  BY LimitAssumption DEF Init, ConcurrencyBounded
<1>. QED  BY <1>1, <1>2, <1>4, <1>5 DEF SlotInv

-----------------------------------------------------------------------------
(* Types and Progress are kept by every step. *)

\* A refused attempt goes to its roll-back, or on if it holds nothing.
LEMMA RefuseStep ==
  ASSUME Types, Progress, NEW r \in Requests, NEW why \in Scopes \cup {"rate", "memory"},
         Refuse(r, why), UNCHANGED <<limits, acquired, released, held>>,
         in_flight' \in [Scopes -> Int], seen' \in [Requests -> Limits]
  PROVE  Types' /\ Progress'
<1>1. why # "served"
  BY NameAssumption
<1>2. verdict' = [verdict EXCEPT ![r] = why]
  BY DEF Refuse
<1>3. verdict' \in [Requests -> Scopes \cup {"none", "served", "rate", "memory"}]
  BY <1>2 DEF Types
<1>4. CASE held[r] > 0
  <2>1. pc' = [pc EXCEPT ![r] = "unslot"]
    BY <1>4 DEF Refuse, Goto
  <2>. QED  BY <1>2, <1>3, <1>4, <2>1, ChainScopes DEF Types, Progress, Points
<1>5. CASE ~(held[r] > 0)
  <2>1. pc' = [pc EXCEPT ![r] = "decide"] /\ held[r] = 0
    BY <1>5 DEF Refuse, Goto, Types
  <2>. QED  BY <1>1, <1>2, <1>3, <2>1, ChainScopes DEF Types, Progress, Points
<1>. QED  BY <1>4, <1>5

LEMMA StepTypes ==
  ASSUME SlotInv, [Next]_vars
  PROVE  Types' /\ Progress'
<1>. USE DEF SlotInv, Types, Progress, ask, plan, slots, line
<1>1. ASSUME NEW r \in Requests, Start(r) PROVE Types' /\ Progress'
  BY <1>1, ChainScopes DEF Start, Goto, Points
<1>2. ASSUME NEW r \in Requests, CheckLine(r) PROVE Types' /\ Progress'
  <2>0. held[r] \in Nat /\ held[r] < Len(ChainOf[r])
    BY <1>2 DEF CheckLine
  <2>1. Here(r) \in Scopes /\ seen' \in [Requests -> Limits]
    BY <1>2, <2>0, ChainScopes DEF CheckLine, Here
  <2>2. CASE Refuse(r, Here(r))
    BY <1>2, <2>1, <2>2, RefuseStep DEF CheckLine
  <2>3. CASE Goto(r, "slot") /\ UNCHANGED verdict
    BY <1>2, <2>1, <2>3, ChainScopes DEF CheckLine, Goto, Points
  <2>. QED  BY <1>2, <2>2, <2>3 DEF CheckLine
<1>3. ASSUME NEW r \in Requests, TakeSlot(r) PROVE Types' /\ Progress'
  <2>0. held[r] \in Nat /\ held[r] < Len(ChainOf[r])
    BY <1>3 DEF TakeSlot
  <2>1. Here(r) \in Scopes
    BY <2>0, ChainScopes DEF Here
  <2>2. CASE Refuse(r, Here(r)) /\ UNCHANGED in_flight
    BY <1>3, <2>1, <2>2, RefuseStep DEF TakeSlot
  <2>3. CASE /\ in_flight' = [in_flight EXCEPT ![Here(r)] = @ + 1]
             /\ Goto(r, "bucket") /\ UNCHANGED verdict
    BY <1>3, <2>1, <2>3, ChainScopes DEF TakeSlot, Goto, Points
  <2>. QED  BY <1>3, <2>2, <2>3 DEF TakeSlot
<1>4. ASSUME NEW r \in Requests, TakeBucket(r) PROVE Types' /\ Progress'
  BY <1>4, ChainScopes DEF TakeBucket, Goto, Here, Points
<1>5. ASSUME NEW r \in Requests, TakeMemory(r) PROVE Types' /\ Progress'
  BY <1>5, ChainScopes DEF TakeMemory, Goto, Points
<1>6. ASSUME NEW r \in Requests, Finish(r) PROVE Types' /\ Progress'
  BY <1>6, ChainScopes DEF Finish, Goto, Points
<1>7. ASSUME NEW r \in Requests, Unslot(r) PROVE Types' /\ Progress'
  BY <1>7, ChainScopes DEF Unslot, Goto, Points
<1>8. ASSUME NEW r \in Requests, Wake(r) PROVE Types' /\ Progress'
  <2>1. /\ Here(r) \in Scopes /\ pc[r] = "wake"
        /\ released' \in [Scopes -> Int] /\ UNCHANGED <<limits, in_flight, acquired, ask>>
    BY <1>8, ChainScopes DEF Wake, Here
  <2>2. PICK next \in {"unslot", "done", "decide"} :
          /\ next = "unslot" => held[r] > 0
          /\ next # "unslot" => held[r] = 0
          /\ next = "decide" => verdict[r] # "served"
          /\ \/ pc' = [pc EXCEPT ![r] = next]
             \/ NotifyAll(Here(r), r, next)
    BY <1>8 DEF Wake, Goto
  <2>3. CASE pc' = [pc EXCEPT ![r] = next]
    BY <2>1, <2>2, <2>3, ChainScopes DEF Points
  <2>4. CASE NotifyAll(Here(r), r, next)
    BY <2>1, <2>2, <2>4, ChainScopes DEF NotifyAll, Sleepers, Points
  <2>. QED  BY <2>2, <2>3, <2>4
<1>9. ASSUME NEW r \in Requests, Decide(r) PROVE Types' /\ Progress'
  BY <1>9, ChainScopes DEF Decide, Goto, Points
<1>10. ASSUME NEW r \in Requests, join_queue(r) PROVE Types' /\ Progress'
  BY <1>10, ChainScopes DEF join_queue, Goto, Points
<1>11. ASSUME NEW r \in Requests, Look(r) PROVE Types' /\ Progress'
  BY <1>11, ChainScopes DEF Look, Goto, Points
<1>12. ASSUME NEW r \in Requests, Sleep(r) \/ TimeOutAsleep(r) PROVE Types' /\ Progress'
  <2>1. CASE Sleep(r)
    BY <2>1, ChainScopes DEF Sleep, Goto, Points
  <2>2. CASE TimeOutAsleep(r)
    BY <2>2, ChainScopes DEF TimeOutAsleep, Goto, Points
  <2>. QED  BY <1>12, <2>1, <2>2
<1>13. ASSUME NEW r \in Requests, leave_queue(r) PROVE Types' /\ Progress'
  BY <1>13, ChainScopes DEF leave_queue, NotifyAll, Sleepers, Points
<1>14. ASSUME NEW r \in Requests, MemoryTimeout(r) \/ MemoryGranted(r) PROVE Types' /\ Progress'
  <2>1. CASE MemoryTimeout(r)
    BY <2>1, ChainScopes DEF MemoryTimeout, Goto, Points
  <2>2. CASE MemoryGranted(r)
    BY <2>2, ChainScopes DEF MemoryGranted, Goto, Points
  <2>. QED  BY <1>14, <2>1, <2>2
<1>15. ASSUME NEW r \in Requests, BudgetRefuses(r) \/ MemoryRefuses(r) PROVE Types' /\ Progress'
  BY <1>15, RefuseStep DEF BudgetRefuses, MemoryRefuses
<1>16. ASSUME NEW r \in Requests, BucketRefuses(r) PROVE Types' /\ Progress'
  BY <1>16, ChainScopes DEF BucketRefuses, Refuse, Goto, Here, Points
<1>17. ASSUME NEW r \in Requests, DeadlinePasses(r) PROVE Types' /\ Progress'
  BY <1>17 DEF DeadlinePasses
<1>18. ASSUME NEW s \in Scopes, NEW l \in Limits, SetLimits(s, l) PROVE Types' /\ Progress'
  BY <1>18 DEF SetLimits
<1>19. ASSUME WakeAfterPublishing PROVE Types' /\ Progress'
  BY <1>19 DEF WakeAfterPublishing, Sleepers, Points
<1>20. ASSUME UNCHANGED vars PROVE Types' /\ Progress'
  BY <1>20 DEF vars
<1>. QED
  BY <1>1, <1>2, <1>3, <1>4, <1>5, <1>6, <1>7, <1>8, <1>9, <1>10, <1>11, <1>12, <1>13, <1>14,
     <1>15, <1>16, <1>17, <1>18, <1>19, <1>20
  DEF Next, Step, Event, AllAnswered

-----------------------------------------------------------------------------
(* The steps that move a request into or out of a scope.  Each states what *)
(* becomes of the three sets at the scope concerned, and that the others   *)
(* stay; the counters follow.                                              *)

\* A request holds a scope of its chain at one position only.
LEMMA OnePlace ==
  ASSUME Types, Progress, NEW r \in Requests
  PROVE  /\ held[r] < Len(ChainOf[r]) => Here(r) \in Scopes /\ r \notin Holders(Here(r))
         /\ held[r] > 0 => /\ ChainOf[r][held[r]] \in Scopes
                           /\ r \in Holders(ChainOf[r][held[r]])
<1>1. held[r] \in Nat /\ held[r] <= Len(ChainOf[r])
  BY DEF Types, Progress
<1>2. ASSUME held[r] < Len(ChainOf[r]) PROVE Here(r) \in Scopes /\ r \notin Holders(Here(r))
  <2>1. held[r] + 1 \in 1 .. Len(ChainOf[r])
    BY <1>1, <1>2, ChainScopes
  <2>2. \A i \in 1 .. held[r] : i \in 1 .. Len(ChainOf[r]) /\ i # held[r] + 1
    BY <1>1, <1>2, ChainScopes
  <2>. QED  BY <2>1, <2>2, ChainScopes DEF Here, Holders
<1>3. ASSUME held[r] > 0
      PROVE  ChainOf[r][held[r]] \in Scopes /\ r \in Holders(ChainOf[r][held[r]])
  <2>1. held[r] \in 1 .. Len(ChainOf[r]) /\ held[r] \in 1 .. held[r]
    BY <1>1, <1>3, ChainScopes
  <2>. QED  BY <2>1, ChainScopes DEF Holders
<1>. QED  BY <1>2, <1>3

LEMMA TakeSlotCounts ==
  ASSUME SlotInv, NEW r \in Requests, TakeSlot(r), Room(seen[r], Here(r))
  PROVE  SlotsAccounted' /\ Conservation' /\ ConcurrencyBounded'
<1>. DEFINE h == Here(r)
<1>0. Types /\ Progress /\ pc[r] = "slot" /\ UNCHANGED <<held, acquired, released>>
      /\ in_flight' = [in_flight EXCEPT ![h] = @ + 1] /\ pc' = [pc EXCEPT ![r] = "bucket"]
  BY DEF SlotInv, TakeSlot, Goto
<1>1. h \in Scopes /\ r \notin Holders(h) /\ r \notin Occupants(h)
  BY <1>0, OnePlace DEF Progress, Occupants
<1>2. ASSUME NEW s \in Scopes
      PROVE  /\ Holders(s)' = Holders(s) /\ Releasing(s)' = Releasing(s)
             /\ Occupants(s)' = IF s = h THEN Occupants(s) \cup {r} ELSE Occupants(s)
  BY <1>0 DEF Types, Holders, Releasing, Occupants, Here
<1>3. Cardinality(Occupants(h) \cup {r}) = Cardinality(Occupants(h)) + 1
  BY <1>1, Finite, FS_AddElement
<1>9. ASSUME NEW s \in Scopes
      PROVE  /\ Cardinality(Holders(s))' = Cardinality(Holders(s))
             /\ Cardinality(Releasing(s))' = Cardinality(Releasing(s))
             /\ s = h => Cardinality(Occupants(s))' = Cardinality(Occupants(s)) + 1
             /\ s # h => Cardinality(Occupants(s))' = Cardinality(Occupants(s))
  BY <1>2, <1>3, Zenon
<1>4. SlotsAccounted' /\ Conservation'
  BY <1>0, <1>1, <1>9 DEF SlotInv, Types, SlotsAccounted, Conservation
<1>5. seen[r] \in Limits /\ seen[r].max_concurrency \in Nat
  BY <1>0, LimitAssumption DEF Types
<1>6. seen[r].max_concurrency = 0 \/ in_flight[h] + 1 <= seen[r].max_concurrency
  BY <1>0, <1>1, <1>5 DEF Room, Types
<1>7. ConcurrencyBounded'
  BY <1>0, <1>1, <1>5, <1>6 DEF SlotInv, Types, ConcurrencyBounded
<1>. QED  BY <1>4, <1>7

LEMMA TakeBucketCounts ==
  ASSUME SlotInv, NEW r \in Requests, TakeBucket(r)
  PROVE  SlotsAccounted' /\ Conservation' /\ ConcurrencyBounded'
<1>. DEFINE h == Here(r)
<1>0. Types /\ Progress /\ pc[r] = "bucket" /\ UNCHANGED <<in_flight, released>>
      /\ acquired' = [acquired EXCEPT ![h] = @ + 1] /\ held' = [held EXCEPT ![r] = @ + 1]
      /\ (pc' = [pc EXCEPT ![r] = "check"] \/ pc' = [pc EXCEPT ![r] = "memory"])
  BY DEF SlotInv, TakeBucket, Goto
<1>1. h \in Scopes /\ r \notin Holders(h)
  BY <1>0, OnePlace DEF Progress
<1>2. ASSUME NEW s \in Scopes
      PROVE  Holders(s)' = IF s = h THEN Holders(s) \cup {r} ELSE Holders(s)
  <2>1. ASSUME NEW q \in Requests
        PROVE  q \in Holders(s)' <=> q \in Holders(s) \/ (q = r /\ s = h)
    BY <1>0 DEF Types, Holders, Here
  <2>. QED  BY <2>1 DEF Holders
<1>3. ASSUME NEW s \in Scopes
      PROVE  Releasing(s)' = Releasing(s) /\ Occupants(s)' = Occupants(s)
  <2>1. Releasing(s)' = Releasing(s)
    BY <1>0 DEF Types, Releasing, Here
  <2>2. {q \in Requests : pc[q] = "bucket" /\ Here(q) = s}'
          = {q \in Requests : pc[q] = "bucket" /\ Here(q) = s} \ {r}
    BY <1>0 DEF Types, Here
  <2>. QED  BY <1>0, <1>2, <2>1, <2>2 DEF Occupants
<1>4. Cardinality(Holders(h) \cup {r}) = Cardinality(Holders(h)) + 1
  BY <1>1, Finite, FS_AddElement
<1>9. ASSUME NEW s \in Scopes
      PROVE  /\ s = h => Cardinality(Holders(s))' = Cardinality(Holders(s)) + 1
             /\ s # h => Cardinality(Holders(s))' = Cardinality(Holders(s))
             /\ Cardinality(Releasing(s))' = Cardinality(Releasing(s))
             /\ Cardinality(Occupants(s))' = Cardinality(Occupants(s))
  BY <1>2, <1>3, <1>4, Zenon
<1>. QED
  BY <1>0, <1>1, <1>9, Finite, LimitAssumption
  DEF SlotInv, Types, SlotsAccounted, Conservation, ConcurrencyBounded

LEMMA BucketRefusesCounts ==
  ASSUME SlotInv, NEW r \in Requests, BucketRefuses(r)
  PROVE  SlotsAccounted' /\ Conservation' /\ ConcurrencyBounded'
<1>. DEFINE h == Here(r)
<1>0. Types /\ Progress /\ pc[r] = "bucket" /\ UNCHANGED <<held, acquired, released>>
      /\ in_flight' = [in_flight EXCEPT ![h] = @ - 1]
      /\ (pc' = [pc EXCEPT ![r] = "unslot"] \/ pc' = [pc EXCEPT ![r] = "decide"])
  BY DEF SlotInv, BucketRefuses, Refuse, Goto
<1>1. h \in Scopes /\ r \notin Holders(h) /\ r \in Occupants(h)
  BY <1>0, OnePlace DEF Progress, Occupants
<1>2. ASSUME NEW s \in Scopes
      PROVE  /\ Holders(s)' = Holders(s) /\ Releasing(s)' = Releasing(s)
             /\ Occupants(s)' = IF s = h THEN Occupants(s) \ {r} ELSE Occupants(s)
  <2>1. Holders(s)' = Holders(s) /\ Releasing(s)' = Releasing(s)
    BY <1>0 DEF Types, Holders, Releasing, Here
  <2>2. {q \in Requests : pc[q] = "bucket" /\ Here(q) = s}'
          = {q \in Requests : pc[q] = "bucket" /\ Here(q) = s} \ {r}
    BY <1>0 DEF Types, Here
  <2>3. s # h => r \notin {q \in Requests : pc[q] = "bucket" /\ Here(q) = s}
    OBVIOUS
  <2>. QED  BY <1>1, <2>1, <2>2, <2>3 DEF Occupants
<1>3. Cardinality(Occupants(h) \ {r}) = Cardinality(Occupants(h)) - 1
  BY <1>1, Finite, FS_RemoveElement
<1>9. ASSUME NEW s \in Scopes
      PROVE  /\ Cardinality(Holders(s))' = Cardinality(Holders(s))
             /\ Cardinality(Releasing(s))' = Cardinality(Releasing(s))
             /\ s = h => Cardinality(Occupants(s))' = Cardinality(Occupants(s)) - 1
             /\ s # h => Cardinality(Occupants(s))' = Cardinality(Occupants(s))
  BY <1>2, <1>3, Zenon
<1>10. SlotsAccounted'
  BY <1>0, <1>1, <1>9 DEF SlotInv, Types, SlotsAccounted
<1>11. Conservation'
  BY <1>0, <1>9 DEF SlotInv, Conservation
<1>12. ConcurrencyBounded'
  BY <1>0, <1>1, LimitAssumption DEF SlotInv, Types, ConcurrencyBounded
<1>. QED  BY <1>10, <1>11, <1>12

LEMMA UnslotCounts ==
  ASSUME SlotInv, NEW r \in Requests, Unslot(r)
  PROVE  SlotsAccounted' /\ Conservation' /\ ConcurrencyBounded'
<1>. DEFINE h == ChainOf[r][held[r]]
<1>0. Types /\ Progress /\ pc[r] = "unslot" /\ UNCHANGED <<acquired, released>>
      /\ in_flight' = [in_flight EXCEPT ![h] = @ - 1] /\ held' = [held EXCEPT ![r] = @ - 1]
      /\ pc' = [pc EXCEPT ![r] = "wake"] /\ held[r] > 0
  BY DEF SlotInv, Unslot, Goto, Progress
<1>1. /\ h \in Scopes /\ r \in Holders(h) /\ r \in Occupants(h) /\ r \notin Releasing(h)
      /\ held[r] \in Nat /\ held'[r] = held[r] - 1
  BY <1>0, OnePlace DEF Types, Occupants, Releasing
<1>2. ASSUME NEW s \in Scopes
      PROVE  Holders(s)' = IF s = h THEN Holders(s) \ {r} ELSE Holders(s)
  <2>1. ASSUME NEW q \in Requests
        PROVE  q \in Holders(s)' <=> q \in Holders(s) /\ ~(q = r /\ s = h)
    <3>1. CASE q # r
      BY <1>0, <3>1 DEF Types, Holders
    <3>2. CASE q = r
      <4>1. r \in Holders(s)' <=> \E i \in 1 .. (held[r] - 1) : ChainOf[r][i] = s
        BY <1>1 DEF Holders
      <4>2. \A i \in 1 .. (held[r] - 1) : ChainOf[r][i] # h
        BY <1>0, <1>1, ChainScopes DEF Progress
      <4>3. r \in Holders(s) <=> s = h \/ \E i \in 1 .. (held[r] - 1) : ChainOf[r][i] = s
        BY <1>0, <1>1 DEF Holders
      <4>. QED  BY <3>2, <4>1, <4>2, <4>3
    <3>. QED  BY <3>1, <3>2
  <2>. QED  BY <2>1 DEF Holders
<1>3. ASSUME NEW s \in Scopes
      PROVE  /\ Releasing(s)' = IF s = h THEN Releasing(s) \cup {r} ELSE Releasing(s)
             /\ Occupants(s)' = IF s = h THEN Occupants(s) \ {r} ELSE Occupants(s)
  <2>1. Releasing(s)' = IF s = h THEN Releasing(s) \cup {r} ELSE Releasing(s)
    BY <1>0, <1>1 DEF Types, Releasing, Here
  <2>2. {q \in Requests : pc[q] = "bucket" /\ Here(q) = s}'
          = {q \in Requests : pc[q] = "bucket" /\ Here(q) = s}
        /\ r \notin {q \in Requests : pc[q] = "bucket" /\ Here(q) = s}
    BY <1>0 DEF Types, Here
  <2>. QED  BY <1>2, <2>1, <2>2 DEF Occupants
<1>4. /\ Cardinality(Occupants(h) \ {r}) = Cardinality(Occupants(h)) - 1
      /\ Cardinality(Holders(h) \ {r}) = Cardinality(Holders(h)) - 1
  BY <1>1, Finite, FS_RemoveElement
<1>5. Cardinality(Releasing(h) \cup {r}) = Cardinality(Releasing(h)) + 1
  BY <1>1, Finite, FS_AddElement
<1>9. ASSUME NEW s \in Scopes
      PROVE  /\ s = h => Cardinality(Holders(s))' = Cardinality(Holders(s)) - 1
             /\ s # h => Cardinality(Holders(s))' = Cardinality(Holders(s))
             /\ s = h => Cardinality(Releasing(s))' = Cardinality(Releasing(s)) + 1
             /\ s # h => Cardinality(Releasing(s))' = Cardinality(Releasing(s))
             /\ s = h => Cardinality(Occupants(s))' = Cardinality(Occupants(s)) - 1
             /\ s # h => Cardinality(Occupants(s))' = Cardinality(Occupants(s))
  BY <1>2, <1>3, <1>4, <1>5, Zenon
<1>10. SlotsAccounted'
  BY <1>0, <1>1, <1>9 DEF SlotInv, Types, SlotsAccounted
<1>11. Conservation'
  <2>. SUFFICES ASSUME NEW s \in Scopes
                PROVE  acquired[s]' = released[s]' + Cardinality(Holders(s))'
                                      + Cardinality(Releasing(s))'
    BY DEF Conservation
  <2>1. acquired[s] = released[s] + Cardinality(Holders(s)) + Cardinality(Releasing(s))
    BY DEF SlotInv, Conservation
  <2>2. /\ acquired[s] \in Int /\ released[s] \in Int
        /\ Cardinality(Holders(s)) \in Nat /\ Cardinality(Releasing(s)) \in Nat
    BY <1>0, Finite DEF Types
  <2>. QED  BY <1>0, <1>1, <1>9, <2>1, <2>2 DEF Types
<1>12. ConcurrencyBounded'
  BY <1>0, <1>1, LimitAssumption DEF SlotInv, Types, ConcurrencyBounded
<1>. QED  BY <1>10, <1>11, <1>12

LEMMA WakeCounts ==
  ASSUME SlotInv, NEW r \in Requests, Wake(r)
  PROVE  SlotsAccounted' /\ Conservation' /\ ConcurrencyBounded'
<1>. DEFINE h == Here(r)
<1>0. Types /\ Progress /\ pc[r] = "wake" /\ UNCHANGED <<held, acquired, in_flight>>
      /\ released' = [released EXCEPT ![h] = @ + 1]
  BY DEF SlotInv, Wake, ask
<1>1. h \in Scopes /\ r \in Releasing(h)
  BY <1>0, OnePlace DEF Progress, Releasing
<1>2. /\ DOMAIN pc' = Requests /\ pc'[r] \notin {"bucket", "wake"}
      /\ \A q \in Requests \ {r} :
           \/ pc'[q] = pc[q]
           \/ pc[q] \notin {"bucket", "wake"} /\ pc'[q] \notin {"bucket", "wake"}
  <2>1. PICK next \in {"unslot", "done", "decide"} :
          pc' = [pc EXCEPT ![r] = next] \/ NotifyAll(h, r, next)
    BY DEF Wake, Goto
  <2>2. CASE pc' = [pc EXCEPT ![r] = next]
    BY <1>0, <2>1, <2>2 DEF Types
  <2>3. CASE NotifyAll(h, r, next)
    BY <1>0, <2>1, <2>3 DEF NotifyAll, Sleepers, Types
  <2>. QED  BY <2>1, <2>2, <2>3
<1>3. ASSUME NEW s \in Scopes
      PROVE  /\ Holders(s)' = Holders(s) /\ Occupants(s)' = Occupants(s)
             /\ Releasing(s)' = IF s = h THEN Releasing(s) \ {r} ELSE Releasing(s)
  BY <1>0, <1>2 DEF Holders, Releasing, Occupants, Here
<1>4. Cardinality(Releasing(h) \ {r}) = Cardinality(Releasing(h)) - 1
  BY <1>1, Finite, FS_RemoveElement
<1>9. ASSUME NEW s \in Scopes
      PROVE  /\ Cardinality(Holders(s))' = Cardinality(Holders(s))
             /\ s = h => Cardinality(Releasing(s))' = Cardinality(Releasing(s)) - 1
             /\ s # h => Cardinality(Releasing(s))' = Cardinality(Releasing(s))
             /\ Cardinality(Occupants(s))' = Cardinality(Occupants(s))
  BY <1>3, <1>4, Zenon
<1>10. SlotsAccounted'
  BY <1>0, <1>1, <1>9 DEF SlotInv, Types, SlotsAccounted
<1>11. Conservation'
  <2>. SUFFICES ASSUME NEW s \in Scopes
                PROVE  acquired[s]' = released[s]' + Cardinality(Holders(s))'
                                      + Cardinality(Releasing(s))'
    BY DEF Conservation
  <2>1. acquired[s] = released[s] + Cardinality(Holders(s)) + Cardinality(Releasing(s))
    BY DEF SlotInv, Conservation
  <2>2. /\ acquired[s] \in Int /\ released[s] \in Int
        /\ Cardinality(Holders(s)) \in Nat /\ Cardinality(Releasing(s)) \in Nat
    BY <1>0, Finite DEF Types
  <2>. QED  BY <1>0, <1>1, <1>9, <2>1, <2>2 DEF Types
<1>12. ConcurrencyBounded'
  BY <1>0, <1>1, LimitAssumption DEF SlotInv, Types, ConcurrencyBounded
<1>. QED  BY <1>10, <1>11, <1>12

-----------------------------------------------------------------------------

LEMMA StepSlots ==
  ASSUME SlotInv, [Next]_vars
  PROVE  SlotInv'
<1>0. Types' /\ Progress' /\ Types
  BY StepTypes DEF SlotInv
<1>. DEFINE Counted == SlotsAccounted' /\ Conservation' /\ ConcurrencyBounded'
<1>1. ASSUME Quiet PROVE Counted
  BY <1>1, QuietStep DEF SlotInv
<1>2. ASSUME NEW r \in Requests, TakeSlot(r) PROVE Counted
  <2>1. CASE Room(seen[r], Here(r))
    BY <1>2, <2>1, TakeSlotCounts
  <2>2. CASE ~Room(seen[r], Here(r))
    BY <1>0, <1>1, <1>2, <2>2 DEF TakeSlot, Refuse, Goto, Quiet, Types
  <2>. QED  BY <2>1, <2>2
<1>3. ASSUME NEW r \in Requests,
             Start(r) \/ CheckLine(r) \/ TakeMemory(r) \/ Finish(r) \/ BudgetRefuses(r)
             \/ MemoryRefuses(r) \/ MemoryGranted(r) \/ MemoryTimeout(r)
      PROVE  Quiet
  BY <1>0, <1>3
  DEF Start, CheckLine, TakeMemory, Finish, BudgetRefuses, MemoryRefuses, MemoryGranted,
      MemoryTimeout, Refuse, Goto, Quiet, Types, slots, ask
<1>4. ASSUME NEW r \in Requests,
             Decide(r) \/ join_queue(r) \/ Look(r) \/ Sleep(r) \/ TimeOutAsleep(r)
             \/ DeadlinePasses(r)
      PROVE  Quiet
  BY <1>0, <1>4
  DEF Decide, join_queue, Look, Sleep, TimeOutAsleep, DeadlinePasses, Goto, Quiet, Types, slots, ask
<1>5. ASSUME NEW r \in Requests, leave_queue(r) PROVE Quiet
  BY <1>0, <1>5 DEF leave_queue, NotifyAll, Sleepers, Quiet, Types, slots
<1>6. ASSUME \/ \E s \in Scopes, l \in Limits : SetLimits(s, l)
             \/ WakeAfterPublishing \/ UNCHANGED vars
      PROVE  Quiet
  BY <1>0, <1>6 DEF SetLimits, WakeAfterPublishing, Sleepers, Quiet, Types, vars, slots, ask
<1>7. Counted
  BY <1>1, <1>2, <1>3, <1>4, <1>5, <1>6, TakeBucketCounts, BucketRefusesCounts, UnslotCounts,
     WakeCounts
  DEF Next, Step, Event, AllAnswered
<1>. QED  BY <1>0, <1>7 DEF SlotInv

LEMMA SlotInvariant == Spec => []SlotInv
<1>1. Init => SlotInv
  BY InitSlots
<1>2. SlotInv /\ [Next]_vars => SlotInv'
  BY StepSlots
<1>. QED  BY <1>1, <1>2, PTL DEF Spec

\* The in_flight counter of Scope is exact, however many requests there are.
THEOREM SlotsExact == Spec => []SlotsAccounted
<1>1. SlotInv => SlotsAccounted
  BY DEF SlotInv
<1>. QED  BY <1>1, SlotInvariant, PTL

\* Scope::conservation holds, however many requests there are.
THEOREM Conserved == Spec => []Conservation
<1>1. SlotInv => Conservation
  BY DEF SlotInv
<1>. QED  BY <1>1, SlotInvariant, PTL

\* try_acquire_as never goes past the largest limit published.
THEOREM Bounded == Spec => []ConcurrencyBounded
<1>1. SlotInv => ConcurrencyBounded
  BY DEF SlotInv
<1>. QED  BY <1>1, SlotInvariant, PTL

(***************************************************************************)
(* Once every request has been answered, whatever way, all slots are free  *)
(* and every reservation was released exactly once.                        *)
(***************************************************************************)
THEOREM AllReturned == Spec => []NothingLeft
<1>1. ASSUME SlotInv PROVE NothingLeft
  <2>. SUFFICES ASSUME \A r \in Requests : pc[r] = "done", NEW s \in Scopes
                PROVE  in_flight[s] = 0 /\ acquired[s] = released[s]
    BY DEF NothingLeft
  <2>1. \A r \in Requests : held[r] = 0
    BY <1>1 DEF SlotInv, Progress
  <2>2. Holders(s) = {} /\ Releasing(s) = {} /\ Occupants(s) = {}
    BY <2>1 DEF Holders, Releasing, Occupants
  <2>3. Cardinality({}) = 0
    BY FS_EmptySet
  <2>4. /\ Cardinality(Holders(s)) = 0 /\ Cardinality(Releasing(s)) = 0
        /\ Cardinality(Occupants(s)) = 0
    BY <2>2, <2>3, Zenon
  <2>. QED
    BY <1>1, <2>4 DEF SlotInv, Types, SlotsAccounted, Conservation
<1>. QED  BY <1>1, SlotInvariant, PTL

-----------------------------------------------------------------------------
(* The waiting line *)

\* The points between joining the line and leaving it.
InLine == {"check", "slot", "bucket", "memory", "unslot", "wake", "decide", "look", "toSleep",
           "asleep", "leave"}

LineTypes ==
  /\ waiting \in [Scopes -> SUBSET [seq : Nat, class : Nat, tenant : Tenants, round : Nat, req : Requests]]
  /\ next_seq \in [Scopes -> Nat]
  /\ lined \in [Requests -> Scopes \cup {NoScope}]

\* A request in line is at one of these points, and is not yet served before
\* it leaves; at the points that only the line has, it is in one; and who is
\* about to join is in none.
Attends ==
  \A r \in Requests :
    /\ lined[r] # NoScope => pc[r] \in InLine /\ (verdict[r] = "served" => pc[r] = "leave")
    /\ pc[r] \in {"look", "toSleep", "asleep", "leave"} => lined[r] # NoScope
    /\ pc[r] = "join" => verdict[r] \in Scopes

\* The tickets of one scope: of requests that know of them, one each, all
\* numbered before the next.
Tickets(s) ==
  /\ \A w \in waiting[s] : lined[w.req] = s /\ w.seq < next_seq[s]
  /\ \A r \in Requests : lined[r] = s => \E w \in waiting[s] : w.req = r
  /\ \A v, w \in waiting[s] : v.req = w.req \/ v.seq = w.seq => v = w

LineInv == LineTypes /\ Attends /\ \A s \in Scopes : Tickets(s)

LEMMA NotAScope == NoScope \notin Scopes
  BY NameAssumption DEF NoScope

\* Steps that leave the lines alone.
LEMMA LineStays ==
  ASSUME LineInv, Attends', UNCHANGED <<waiting, next_seq, lined>>
  PROVE  LineInv'
  BY DEF LineInv, LineTypes, Tickets

\* What NotifyAll does to the others is to move a sleeper to its look.
LEMMA WakesOnly ==
  ASSUME NEW s, NEW r \in Requests, NEW next, NotifyAll(s, r, next)
  PROVE  /\ pc'[r] = next
         /\ \A q \in Requests \ {r} : pc'[q] = pc[q] \/ (pc[q] = "asleep" /\ pc'[q] = "look")
  BY DEF NotifyAll, Sleepers

LEMMA Attending ==
  ASSUME SlotInv, LineInv, Next, UNCHANGED lined
  PROVE  Attends'
<1>. USE DEF Attends, InLine, LineInv
<1>t. pc \in [Requests -> Points] /\ verdict \in [Requests -> Scopes \cup {"none", "served", "rate", "memory"}]
  BY DEF SlotInv, Types
<1>u. Types /\ Progress
  BY DEF SlotInv
<1>r. ASSUME NEW r \in Requests, NEW why \in Scopes \cup {"rate", "memory"}, Refuse(r, why),
             pc[r] \in {"check", "slot", "bucket", "memory"}
      PROVE  Attends'
  <2>1. why # "served" /\ pc'[r] \in {"unslot", "decide"} /\ verdict'[r] = why
    BY <1>t, <1>r, NameAssumption DEF Refuse, Goto
  <2>2. \A q \in Requests \ {r} : pc'[q] = pc[q] /\ verdict'[q] = verdict[q]
    BY <1>t, <1>r DEF Refuse, Goto
  <2>. QED  BY <1>r, <2>1, <2>2
<1>h. ASSUME NEW r \in Requests, pc[r] \in {"check", "slot", "bucket"} PROVE Here(r) \in Scopes
  BY <1>u, <1>h, ChainScopes DEF Progress, Types, Here
<1>1. ASSUME NEW r \in Requests, Start(r) \/ Finish(r) \/ MemoryGranted(r) \/ MemoryTimeout(r) PROVE Attends'
  BY <1>t, <1>1 DEF Start, Finish, MemoryGranted, MemoryTimeout, Goto, ask
<1>2. ASSUME NEW r \in Requests, CheckLine(r) PROVE Attends'
  <2>1. CASE Refuse(r, Here(r))
    BY <1>2, <1>h, <1>r, <2>1 DEF CheckLine
  <2>2. CASE Goto(r, "slot") /\ UNCHANGED verdict
    BY <1>t, <1>2, <2>2 DEF CheckLine, Goto
  <2>. QED  BY <1>2, <2>1, <2>2 DEF CheckLine
<1>3. ASSUME NEW r \in Requests, TakeSlot(r) PROVE Attends'
  <2>1. CASE Refuse(r, Here(r))
    BY <1>3, <1>h, <1>r, <2>1 DEF TakeSlot
  <2>2. CASE Goto(r, "bucket") /\ UNCHANGED verdict
    BY <1>t, <1>3, <2>2 DEF TakeSlot, Goto
  <2>. QED  BY <1>3, <2>1, <2>2 DEF TakeSlot
<1>4. ASSUME NEW r \in Requests, BudgetRefuses(r) \/ BucketRefuses(r) \/ MemoryRefuses(r) PROVE Attends'
  BY <1>4, <1>r DEF BudgetRefuses, BucketRefuses, MemoryRefuses
<1>5. ASSUME NEW r \in Requests, TakeBucket(r) \/ Unslot(r) PROVE Attends'
  BY <1>t, <1>5 DEF TakeBucket, Unslot, Goto
<1>6. ASSUME NEW r \in Requests, TakeMemory(r) PROVE Attends'
  BY <1>t, <1>6 DEF TakeMemory, Goto
<1>7. ASSUME NEW r \in Requests, Wake(r) PROVE Attends'
  <2>1. PICK next \in {"unslot", "done", "decide"} :
          /\ next = "done" => verdict[r] = "served"
          /\ Goto(r, next) \/ NotifyAll(Here(r), r, next)
    BY <1>7 DEF Wake
  <2>2. /\ pc'[r] = next /\ verdict' = verdict /\ pc[r] = "wake"
        /\ \A q \in Requests \ {r} : pc'[q] = pc[q] \/ (pc[q] = "asleep" /\ pc'[q] = "look")
    BY <1>t, <1>7, <2>1, WakesOnly DEF Wake, Goto, ask
  <2>. QED  BY <2>1, <2>2
<1>8. ASSUME NEW r \in Requests, Decide(r) PROVE Attends'
  <2>1. /\ lined[r] # NoScope => pc'[r] \in {"look", "leave"}
        /\ lined[r] = NoScope => pc'[r] \in {"done", "machine"} \/ (pc'[r] = "join" /\ verdict[r] \in Scopes)
    BY <1>t, <1>8 DEF Decide, Goto
  <2>2. \A q \in Requests \ {r} : pc'[q] = pc[q]
    BY <1>t, <1>8 DEF Decide, Goto
  <2>3. verdict' = verdict /\ pc[r] = "decide"
    BY <1>8 DEF Decide
  <2>. QED  BY <2>1, <2>2, <2>3
<1>9. ASSUME NEW r \in Requests, join_queue(r) PROVE Attends'
  <2>1. pc[r] = "join" /\ verdict' = verdict /\ lined[r] = NoScope
    BY <1>9 DEF join_queue
  <2>2. verdict[r] \in Scopes /\ lined \in [Requests -> Scopes \cup {NoScope}]
    BY <2>1 DEF LineTypes
  <2>3. Goto(r, "done")
    BY <1>9, <2>1, <2>2, NotAScope DEF join_queue
  <2>. QED  BY <1>t, <2>1, <2>3 DEF Goto
<1>10. ASSUME NEW r \in Requests, Look(r) \/ Sleep(r) \/ TimeOutAsleep(r) PROVE Attends'
  BY <1>t, <1>10 DEF Look, Sleep, TimeOutAsleep, Goto, ask
<1>11. ASSUME NEW r \in Requests, DeadlinePasses(r) PROVE Attends'
  BY <1>11 DEF DeadlinePasses
<1>12. ASSUME NEW r \in Requests, leave_queue(r) PROVE Attends'
  <2>1. lined[r] # NoScope /\ lined'[r] = NoScope
    BY <1>12 DEF leave_queue, LineTypes
  <2>. QED  BY <2>1
<1>13. ASSUME \E s \in Scopes, l \in Limits : SetLimits(s, l) PROVE Attends'
  BY <1>13 DEF SetLimits, ask
<1>14. CASE WakeAfterPublishing
  BY <1>t, <1>14 DEF WakeAfterPublishing, Sleepers, ask
<1>15. CASE AllAnswered
  BY <1>15 DEF AllAnswered, vars, ask
<1>. QED
  BY <1>1, <1>2, <1>3, <1>4, <1>5, <1>6, <1>7, <1>8, <1>9, <1>10, <1>11, <1>12, <1>13, <1>14, <1>15
  DEF Next, Step, Event

\* A new ticket has a number of its own, at the one line its request is in.
LEMMA Joining ==
  ASSUME SlotInv, LineInv, NEW r \in Requests, join_queue(r), lined' # lined
  PROVE  LineInv'
<1>. DEFINE s == verdict[r]
            new == [seq |-> next_seq[s], class |-> ClassOf[r], tenant |-> TenantOf[r],
                    round |-> next_round(r, s), req |-> r]
<1>1. /\ pc[r] = "join" /\ verdict' = verdict
      /\ waiting' = [waiting EXCEPT ![s] = @ \cup {new}]
      /\ next_seq' = [next_seq EXCEPT ![s] = @ + 1]
      /\ lined' = [lined EXCEPT ![r] = s] /\ pc' = [pc EXCEPT ![r] = "look"]
  BY DEF join_queue, line, Goto
<1>2. s \in Scopes /\ lined[r] = NoScope
  BY <1>1 DEF LineInv, Attends, InLine
<1>t. /\ waiting \in [Scopes -> SUBSET [seq : Nat, class : Nat, tenant : Tenants, round : Nat, req : Requests]]
      /\ next_seq \in [Scopes -> Nat] /\ lined \in [Requests -> Scopes \cup {NoScope}]
  BY DEF LineInv, LineTypes
<1>p. pc \in [Requests -> Points]
  BY DEF SlotInv, Types
<1>3. \A v, w \in waiting[s] : v.req = w.req => v = w
  BY <1>2 DEF LineInv, Tickets
<1>4. next_round(r, s) \in Nat
  <2>. DEFINE mine == {w \in waiting[s] : w.class = ClassOf[r] /\ w.tenant = TenantOf[r]}
  <2>. DEFINE f == [w \in mine |-> w.req]
  <2>1. f \in Injection(mine, Requests)
    <3>1. \A w \in mine : w.req \in Requests
      BY <1>2, <1>t
    <3>2. \A v, w \in mine : v.req = w.req => v = w
      BY <1>3
    <3>. QED  BY <3>1, <3>2 DEF Injection, IsInjective
  <2>2. IsFiniteSet(mine)
    BY <2>1, FS_Injection, RequestAssumption
  <2>. QED  BY <2>2, FS_CardinalityType DEF next_round
<1>. HIDE DEF new, s
<1>5. /\ new \in [seq : Nat, class : Nat, tenant : Tenants, round : Nat, req : Requests]
      /\ new.req = r /\ new.seq = next_seq[s]
  BY <1>2, <1>4, <1>t, RequestAssumption DEF new
<1>6. LineTypes'
  BY <1>1, <1>2, <1>5, <1>t DEF LineTypes
<1>7. Attends'
  <2>1. verdict[r] # "served"
    BY <1>2, NameAssumption DEF s
  <2>. QED  BY <1>1, <1>2, <1>p, <1>t, <2>1, NotAScope DEF LineInv, Attends, InLine, s
<1>8. ASSUME NEW k \in Scopes PROVE Tickets(k)'
  <2>0. Tickets(k)
    BY DEF LineInv
  <2>1. CASE k # s
    <3>1. waiting'[k] = waiting[k] /\ next_seq'[k] = next_seq[k]
      BY <1>1, <1>t, <2>1
    <3>2. \A q \in Requests : lined'[q] = k <=> lined[q] = k
      BY <1>1, <1>2, <1>t, <2>1, NotAScope
    <3>3. \A w \in waiting[k] : w.req \in Requests
      BY <1>t
    <3>. QED  BY <2>0, <3>1, <3>2, <3>3 DEF Tickets
  <2>2. CASE k = s
    <3>1. waiting'[s] = waiting[s] \cup {new} /\ next_seq'[s] = next_seq[s] + 1
      BY <1>1, <1>2, <1>t
    <3>2. lined'[r] = s /\ \A q \in Requests \ {r} : lined'[q] = lined[q]
      BY <1>1, <1>t
    <3>3. \A w \in waiting[s] : w.req \in Requests /\ w.req # r /\ w.seq \in Nat /\ w.seq < next_seq[s]
      BY <1>2, <1>t, <2>0, <2>2, NotAScope DEF Tickets
    <3>4. next_seq[s] \in Nat
      BY <1>2, <1>t
    <3>5. \A w \in waiting'[s] : lined'[w.req] = s /\ w.seq < next_seq'[s]
      BY <1>5, <2>0, <2>2, <3>1, <3>2, <3>3, <3>4 DEF Tickets
    <3>6. \A q \in Requests : lined'[q] = s => \E w \in waiting'[s] : w.req = q
      BY <1>5, <2>0, <2>2, <3>1, <3>2 DEF Tickets
    <3>7. \A v, w \in waiting'[s] : v.req = w.req \/ v.seq = w.seq => v = w
      BY <1>5, <2>0, <2>2, <3>1, <3>3, <3>4 DEF Tickets
    <3>. QED  BY <2>2, <3>5, <3>6, <3>7 DEF Tickets
  <2>. QED  BY <2>1, <2>2
<1>. QED  BY <1>6, <1>7, <1>8 DEF LineInv

\* The one ticket of the request goes, and with it its place.
LEMMA Leaving ==
  ASSUME SlotInv, LineInv, NEW r \in Requests, leave_queue(r)
  PROVE  LineInv'
<1>0. PICK s : s = lined[r]
  OBVIOUS
<1>1. /\ pc[r] = "leave" /\ verdict' = verdict /\ next_seq' = next_seq
      /\ waiting' = [waiting EXCEPT ![s] = {w \in @ : w.req # r}]
      /\ lined' = [lined EXCEPT ![r] = NoScope]
      /\ NotifyAll(s, r, IF verdict[r] = "served" THEN "holding" ELSE "done")
  BY <1>0 DEF leave_queue
<1>t. /\ waiting \in [Scopes -> SUBSET [seq : Nat, class : Nat, tenant : Tenants, round : Nat, req : Requests]]
      /\ next_seq \in [Scopes -> Nat] /\ lined \in [Requests -> Scopes \cup {NoScope}]
  BY DEF LineInv, LineTypes
<1>2. s \in Scopes
  BY <1>0, <1>1, <1>t DEF LineInv, Attends
<1>3. PICK next \in {"holding", "done"} : NotifyAll(s, r, next)
  BY <1>1
<1>4. /\ pc'[r] = next
      /\ \A q \in Requests \ {r} : pc'[q] = pc[q] \/ (pc[q] = "asleep" /\ pc'[q] = "look")
  BY <1>3, WakesOnly
<1>5. lined'[r] = NoScope /\ \A q \in Requests \ {r} : lined'[q] = lined[q]
  BY <1>1, <1>t
<1>6. LineTypes'
  BY <1>1, <1>2, <1>t DEF LineTypes
<1>7. Attends'
  BY <1>1, <1>4, <1>5 DEF LineInv, Attends, InLine
<1>8. ASSUME NEW k \in Scopes PROVE Tickets(k)'
  <2>0. Tickets(k)
    BY DEF LineInv
  <2>1. \A w \in waiting[k] : w.req \in Requests
    BY <1>t
  <2>2. waiting'[k] = {w \in waiting[k] : w.req # r}
    <3>1. CASE k = s
      BY <1>1, <1>2, <1>t, <3>1
    <3>2. CASE k # s
      BY <1>0, <1>1, <1>t, <2>0, <3>2 DEF Tickets
    <3>. QED  BY <3>1, <3>2
  <2>. QED  BY <1>1, <1>5, <2>0, <2>1, <2>2, NotAScope DEF Tickets
<1>. QED  BY <1>6, <1>7, <1>8 DEF LineInv

LEMMA LineInvariant == Spec => []LineInv
<1>1. Init => LineInv
  <2>. SUFFICES ASSUME Init PROVE LineInv
    OBVIOUS
  <2>. QED  BY NotAScope DEF Init, LineInv, LineTypes, Attends, InLine, Tickets
<1>2. SlotInv /\ LineInv /\ [Next]_vars => LineInv'
  <2>. SUFFICES ASSUME SlotInv, LineInv, [Next]_vars PROVE LineInv'
    OBVIOUS
  <2>1. CASE UNCHANGED vars
    BY <2>1 DEF vars, line, ask, LineInv, LineTypes, Attends, Tickets
  <2>2. CASE Next /\ UNCHANGED <<waiting, next_seq, lined>>
    BY <2>2, Attending, LineStays
  <2>3. ASSUME NEW r \in Requests, join_queue(r) PROVE LineInv'
    <3>1. CASE lined' = lined
      <4>1. UNCHANGED <<waiting, next_seq>>
        <5>1. CASE UNCHANGED line
          BY <5>1 DEF line
        <5>2. CASE ~UNCHANGED line
          <6>1. pc[r] = "join" /\ lined' = [lined EXCEPT ![r] = verdict[r]]
            BY <2>3, <5>2 DEF join_queue
          <6>. QED
            BY <3>1, <6>1, NotAScope DEF LineInv, LineTypes, Attends, InLine
        <5>. QED  BY <5>1, <5>2
      <4>. QED  BY <2>3, <3>1, <4>1, Attending, LineStays DEF Next, Step
    <3>2. CASE lined' # lined
      BY <2>3, <3>2, Joining
    <3>. QED  BY <3>1, <3>2
  <2>4. ASSUME NEW r \in Requests, leave_queue(r) PROVE LineInv'
    BY <2>4, Leaving
  <2>5. ASSUME NEW r \in Requests,
               \/ Start(r) \/ CheckLine(r) \/ TakeSlot(r) \/ TakeBucket(r) \/ TakeMemory(r) \/ Finish(r)
               \/ Unslot(r) \/ Wake(r) \/ Decide(r) \/ Look(r) \/ Sleep(r) \/ TimeOutAsleep(r)
               \/ MemoryTimeout(r) \/ Event(r) \/ DeadlinePasses(r)
        PROVE  UNCHANGED <<waiting, next_seq, lined>>
    BY <2>5 DEF Start, CheckLine, TakeSlot, TakeBucket, TakeMemory, Finish, Unslot, Wake, Decide, Look, Sleep,
                TimeOutAsleep, MemoryTimeout, Event, BudgetRefuses, BucketRefuses, MemoryRefuses,
                MemoryGranted, DeadlinePasses, line, ask
  <2>6. ASSUME (\E s \in Scopes, l \in Limits : SetLimits(s, l)) \/ WakeAfterPublishing \/ AllAnswered
        PROVE  UNCHANGED <<waiting, next_seq, lined>>
    BY <2>6 DEF SetLimits, WakeAfterPublishing, AllAnswered, vars, line, ask
  <2>. QED  BY <2>1, <2>2, <2>3, <2>4, <2>5, <2>6 DEF Next, Step
<1>. QED  BY <1>1, <1>2, SlotInvariant, PTL DEF Spec

\* For any number of requests, scopes and publications: every place in a
\* scope's line belongs to a request still asking, one each.
THEOREM NoDeadPlace == Spec => []LineIsLive
<1>1. LineInv => LineIsLive
  BY NotAScope DEF LineInv, LineTypes, Attends, InLine, Tickets, LineIsLive
<1>. QED  BY <1>1, LineInvariant, PTL

-----------------------------------------------------------------------------
(* The fairness of the line *)

\* A ticket carries its request's tenant and class.
Stamped(s) == \A w \in waiting[s] : w.tenant = TenantOf[w.req] /\ w.class = ClassOf[w.req]

\* A tenant has one first waiter in a class: round 0 is given when it has none.
OneFirst(s) ==
  \A v, w \in waiting[s] :
    v.round = 0 /\ w.round = 0 /\ v.class = w.class /\ v.tenant = w.tenant => v = w

\* Who was chosen over a first waiter was the only one of its tenant, and of
\* the tenant's first waiters only it can have come earlier.
ChosenOver(s) ==
  \A w \in waiting[s] : w.round = 0 =>
    \A q \in over[w.req] :
      /\ \A p \in over[w.req] : TenantOf[p] = TenantOf[q] => p = q
      /\ \A v \in waiting[s] :
           v.round = 0 /\ v.class = w.class /\ v.tenant = TenantOf[q] /\ v.seq < w.seq => v.req = q

FairInv ==
  /\ over \in [Requests -> SUBSET Requests]
  /\ \A s \in Scopes : Stamped(s) /\ OneFirst(s) /\ ChosenOver(s)

\* The head is chosen: over a first waiter only another first waiter is, and
\* one that came earlier.
LEMMA Choosing ==
  ASSUME SlotInv, LineInv, FairInv, NEW r \in Requests, CheckLine(r)
  PROVE  FairInv'
<1>. DEFINE s == Here(r)
            behind == {w.req : w \in {v \in waiting[s] : v.class = ClassOf[r] /\ v.req # r}}
<1>t. /\ waiting \in [Scopes -> SUBSET [seq : Nat, class : Nat, tenant : Tenants, round : Nat, req : Requests]]
      /\ over \in [Requests -> SUBSET Requests]
  BY DEF LineInv, LineTypes, FairInv
<1>s. s \in Scopes
  BY ChainScopes DEF SlotInv, Types, Progress, Here, CheckLine
<1>w. waiting' = waiting
  BY DEF CheckLine, line
<1>1. CASE UNCHANGED over
  BY <1>1, <1>w DEF FairInv, Stamped, OneFirst, ChosenOver
<1>2. CASE /\ waiting[s] = {} \/ IsHead(r, s)
           /\ over' = [q \in Requests |-> IF q \in behind THEN over[q] \cup {r} ELSE over[q]]
  <2>1. over' \in [Requests -> SUBSET Requests]
    BY <1>2, <1>t
  <2>2. ASSUME NEW k \in Scopes, NEW w \in waiting[k], w.round = 0, NEW q \in over'[w.req]
        PROVE  /\ \A p \in over'[w.req] : TenantOf[p] = TenantOf[q] => p = q
               /\ \A v \in waiting[k] :
                    v.round = 0 /\ v.class = w.class /\ v.tenant = TenantOf[q] /\ v.seq < w.seq => v.req = q
    <3>0. /\ w.req \in Requests /\ w.seq \in Nat /\ w.class \in Nat
          /\ Tickets(k) /\ Stamped(k) /\ OneFirst(k) /\ ChosenOver(k)
      BY <1>t, <2>2 DEF LineInv, FairInv
    <3>1. CASE w.req \notin behind
      <4>1. over'[w.req] = over[w.req]
        BY <1>2, <3>0, <3>1
      <4>. QED  BY <2>2, <3>0, <4>1 DEF ChosenOver
    <3>2. CASE w.req \in behind
      <4>1. over'[w.req] = over[w.req] \cup {r}
        BY <1>2, <3>0, <3>2
      <4>2. PICK x \in waiting[s] : x.class = ClassOf[r] /\ x.req # r /\ x.req = w.req
        BY <3>2
      <4>3. k = s /\ w = x
        <5>1. Tickets(s)
          BY <1>s DEF LineInv
        <5>2. lined[w.req] = k /\ lined[x.req] = s
          BY <2>2, <3>0, <4>2, <5>1 DEF Tickets
        <5>. QED  BY <2>2, <4>2, <5>1, <5>2 DEF Tickets
      <4>4. PICK u \in waiting[s] : u.req = r /\ \A v \in waiting[s] \ {u} : Before(u, v)
        BY <1>2, <4>2 DEF IsHead
      <4>5. /\ u.class = w.class /\ u.tenant = TenantOf[r] /\ u.class \in Nat
            /\ u.round \in Nat /\ u.seq \in Nat
        <5>1. u.class = ClassOf[r] /\ u.tenant = TenantOf[r]
          BY <3>0, <4>3, <4>4 DEF Stamped
        <5>. QED  BY <1>t, <1>s, <4>2, <4>3, <4>4, <5>1
      <4>6. u.round = 0 /\ u.seq < w.seq
        <5>1. Before(u, w)
          BY <4>2, <4>3, <4>4
        <5>. QED  BY <2>2, <3>0, <4>5, <5>1 DEF Before
      <4>7. \A p \in over[w.req] : TenantOf[p] = TenantOf[r] => p = r
        BY <2>2, <3>0, <4>3, <4>4, <4>5, <4>6 DEF ChosenOver
      <4>8. \A v \in waiting[k] : v.round = 0 /\ v.class = w.class /\ v.tenant = TenantOf[r] => v.req = r
        BY <3>0, <4>3, <4>4, <4>5, <4>6 DEF OneFirst
      <4>9. CASE q = r
        BY <4>1, <4>7, <4>8, <4>9
      <4>10. CASE q \in over[w.req]
        BY <2>2, <3>0, <4>1, <4>7, <4>10 DEF ChosenOver
      <4>. QED  BY <2>2, <4>1, <4>9, <4>10
    <3>. QED  BY <3>1, <3>2
  <2>3. ASSUME NEW k \in Scopes PROVE (Stamped(k) /\ OneFirst(k) /\ ChosenOver(k))'
    <3>1. Stamped(k) /\ OneFirst(k)
      BY DEF FairInv
    <3>2. (Stamped(k) /\ OneFirst(k))'
      BY <1>w, <3>1 DEF Stamped, OneFirst
    <3>. QED  BY <1>w, <2>2, <3>2 DEF ChosenOver
  <2>. QED  BY <2>1, <2>3 DEF FairInv
<1>. QED  BY <1>1, <1>2 DEF CheckLine

\* A new waiter is first of its tenant only if the tenant has none, and comes
\* after all that are in line.
LEMMA Ranking ==
  ASSUME SlotInv, LineInv, FairInv, NEW r \in Requests, join_queue(r)
  PROVE  FairInv'
<1>. DEFINE s == verdict[r]
            new == [seq |-> next_seq[s], class |-> ClassOf[r], tenant |-> TenantOf[r],
                    round |-> next_round(r, s), req |-> r]
<1>t. /\ waiting \in [Scopes -> SUBSET [seq : Nat, class : Nat, tenant : Tenants, round : Nat, req : Requests]]
      /\ next_seq \in [Scopes -> Nat] /\ over \in [Requests -> SUBSET Requests]
  BY DEF LineInv, LineTypes, FairInv
<1>1. CASE UNCHANGED <<waiting, over>>
  BY <1>1 DEF FairInv, Stamped, OneFirst, ChosenOver
<1>2. CASE /\ waiting' = [waiting EXCEPT ![s] = @ \cup {new}]
           /\ over' = [over EXCEPT ![r] = {}]
  <2>1. s \in Scopes /\ lined[r] = NoScope
    BY DEF LineInv, Attends, InLine, join_queue
  <2>2. new.round = 0 =>
          \A w \in waiting[s] : w.class = ClassOf[r] => w.tenant # TenantOf[r]
    <3>. SUFFICES ASSUME next_round(r, s) = 0, NEW w \in waiting[s], w.class = ClassOf[r], w.tenant = TenantOf[r]
                  PROVE  FALSE
      BY DEF new
    <3>. DEFINE mine == {v \in waiting[s] : v.class = ClassOf[r] /\ v.tenant = TenantOf[r]}
    <3>1. IsFiniteSet(mine)
      <4>. DEFINE f == [v \in mine |-> v.req]
      <4>1. \A v \in mine : v.req \in Requests
        BY <1>t, <2>1
      <4>2. \A v, x \in mine : v.req = x.req => v = x
        BY <2>1 DEF LineInv, Tickets
      <4>3. f \in Injection(mine, Requests)
        BY <4>1, <4>2 DEF Injection, IsInjective
      <4>. QED  BY <4>3, FS_Injection, RequestAssumption
    <3>2. mine # {}
      OBVIOUS
    <3>3. Cardinality(mine) = 0
      BY DEF next_round
    <3>. HIDE DEF mine
    <3>. QED  BY <3>1, <3>2, <3>3, FS_EmptySet
  <2>3. /\ new.seq = next_seq[s] /\ new.class = ClassOf[r] /\ new.tenant = TenantOf[r] /\ new.req = r
    BY DEF new
  <2>. HIDE DEF new, s
  <2>4. over' \in [Requests -> SUBSET Requests] /\ over'[r] = {}
    BY <1>2, <1>t
  <2>5. ASSUME NEW k \in Scopes PROVE (Stamped(k) /\ OneFirst(k) /\ ChosenOver(k))'
    <3>0. /\ Tickets(k) /\ Stamped(k) /\ OneFirst(k) /\ ChosenOver(k)
          /\ \A w \in waiting[k] : w.req \in Requests /\ w.seq \in Nat
      BY <1>t DEF LineInv, FairInv
    <3>1. \A w \in waiting[k] : over'[w.req] = over[w.req] /\ w.seq < next_seq[k] /\ w.req # r
      BY <1>2, <1>t, <2>1, <3>0, NotAScope DEF Tickets
    <3>2. CASE k # s
      <4>1. waiting'[k] = waiting[k]
        BY <1>2, <1>t, <3>2
      <4>. QED  BY <3>0, <3>1, <4>1 DEF Stamped, OneFirst, ChosenOver
    <3>3. CASE k = s
      <4>1. waiting'[k] = waiting[k] \cup {new} /\ next_seq[k] \in Nat
        BY <1>2, <1>t, <3>3
      <4>2. Stamped(k)'
        BY <2>3, <3>0, <4>1 DEF Stamped
      <4>3. OneFirst(k)'
        BY <2>2, <2>3, <3>0, <3>3, <4>1 DEF OneFirst
      <4>4. ASSUME NEW w \in waiting'[k], w.round = 0, NEW q \in over'[w.req]
            PROVE  /\ \A p \in over'[w.req] : TenantOf[p] = TenantOf[q] => p = q
                   /\ \A v \in waiting'[k] :
                        v.round = 0 /\ v.class = w.class /\ v.tenant = TenantOf[q] /\ v.seq < w.seq => v.req = q
        <5>1. w \in waiting[k]
          BY <2>3, <2>4, <4>1, <4>4
        <5>2. ~(new.seq < w.seq)
          BY <2>3, <3>0, <3>1, <3>3, <4>1, <5>1
        <5>. QED  BY <3>0, <3>1, <4>1, <4>4, <5>1, <5>2 DEF ChosenOver
      <4>. QED  BY <4>2, <4>3, <4>4 DEF ChosenOver
    <3>. QED  BY <3>2, <3>3
  <2>. QED  BY <2>4, <2>5 DEF FairInv
<1>. QED  BY <1>1, <1>2 DEF join_queue, line

\* For any requests, scopes, slots and publications: of another tenant's
\* requests at most one is chosen over a tenant's first waiter.
THEOREM FairByTenant == Spec => []TenantDelay
<1>1. Init => FairInv
  BY DEF Init, FairInv, Stamped, OneFirst, ChosenOver
<1>2. SlotInv /\ LineInv /\ FairInv /\ [Next]_vars => FairInv'
  <2>. SUFFICES ASSUME SlotInv, LineInv, FairInv, [Next]_vars PROVE FairInv'
    OBVIOUS
  <2>1. CASE UNCHANGED <<waiting, over>>
    BY <2>1 DEF FairInv, Stamped, OneFirst, ChosenOver
  <2>2. ASSUME NEW r \in Requests, leave_queue(r) PROVE FairInv'
    <3>0. PICK s : s = lined[r]
      OBVIOUS
    <3>1. over' = over /\ waiting' = [waiting EXCEPT ![s] = {w \in @ : w.req # r}]
      BY <2>2, <3>0 DEF leave_queue
    <3>2. \A k \in Scopes : waiting'[k] \subseteq waiting[k]
      BY <3>1 DEF LineInv, LineTypes
    <3>. QED  BY <3>1, <3>2 DEF FairInv, Stamped, OneFirst, ChosenOver
  <2>3. ASSUME NEW r \in Requests,
               \/ Start(r) \/ TakeSlot(r) \/ TakeBucket(r) \/ TakeMemory(r) \/ Finish(r)
               \/ Unslot(r) \/ Wake(r) \/ Decide(r) \/ Look(r) \/ Sleep(r) \/ TimeOutAsleep(r)
               \/ MemoryTimeout(r) \/ Event(r) \/ DeadlinePasses(r)
        PROVE  UNCHANGED <<waiting, over>>
    BY <2>3 DEF Start, TakeSlot, TakeBucket, TakeMemory, Finish, Unslot, Wake, Decide, Look, Sleep,
                TimeOutAsleep, MemoryTimeout, Event, BudgetRefuses, BucketRefuses, MemoryRefuses,
                MemoryGranted, DeadlinePasses, line, ask
  <2>4. ASSUME (\E s \in Scopes, l \in Limits : SetLimits(s, l)) \/ WakeAfterPublishing \/ AllAnswered
        PROVE  UNCHANGED <<waiting, over>>
    BY <2>4 DEF SetLimits, WakeAfterPublishing, AllAnswered, vars, line, ask
  <2>5. CASE UNCHANGED vars
    BY <2>1, <2>5 DEF vars, line, ask
  <2>. QED  BY <2>1, <2>2, <2>3, <2>4, <2>5, Choosing, Ranking DEF Next, Step
<1>3. LineInv /\ FairInv => TenantDelay
  <2>. SUFFICES ASSUME LineInv, FairInv, NEW s \in Scopes, NEW w \in waiting[s], w.round = 0, NEW t
                PROVE  Cardinality({q \in over[w.req] : TenantOf[q] = t}) <= 1
    BY DEF TenantDelay
  <2>. DEFINE chosen == {q \in over[w.req] : TenantOf[q] = t}
  <2>1. \A p, q \in chosen : p = q
    BY DEF FairInv, ChosenOver
  <2>2. CASE chosen = {}
    BY <2>2, FS_EmptySet
  <2>3. ASSUME NEW q \in chosen PROVE Cardinality(chosen) = 1
    <3>1. chosen = {q}
      BY <2>1, <2>3
    <3>. HIDE DEF chosen
    <3>. QED  BY <3>1, FS_Singleton
  <2>. QED  BY <2>2, <2>3
<1>. QED  BY <1>1, <1>2, <1>3, SlotInvariant, LineInvariant, PTL DEF Spec

-----------------------------------------------------------------------------
(* The breaker *)

\* The threads admitted since the breaker last moved are those whose permit
\* carries its epoch.
FreshIsCurrent ==
  \A r \in Threads : permit[r] # None => (r \in fresh <=> permit[r].epoch = inner.epoch)

\* A closed breaker's are plain requests, a half-open one's are probes, an open
\* one has none.
FreshKind ==
  \A r \in fresh : inner.state # "open" /\ (permit[r].probe <=> inner.state = "half_open")

\* The permits of past epochs are marked.
EpochsAged == \A r \in Threads : permit[r] # None => permit[r].epoch \in {inner.epoch, Past}

SlotsCounted == inner.state = "half_open" => inner.probes_in_flight = Cardinality(fresh)

BreakerInv == TypeOK /\ FreshIsCurrent /\ FreshKind /\ EpochsAged /\ SlotsCounted

-----------------------------------------------------------------------------
(* The transitions keep the type, and move the epoch when they move the state *)

\* What the records below need of the configuration.
LEMMA ConfigFacts ==
  /\ half_open_probes \in Nat /\ half_open_probes # 0 /\ MAX_SHIFT \in Nat /\ MaxLag \in Nat
  /\ 0 \in 0 .. half_open_probes /\ 0 \in 0 .. MAX_SHIFT + 1
BY ConfigAssumption

LEMMA EpochMoves ==
  ASSUME NEW b \in BreakerInner
  PROVE  NextEpoch(b) \in 0 .. 2 /\ NextEpoch(b) # b.epoch
<1>1. b.epoch = 0 \/ b.epoch = 1 \/ b.epoch = 2
    BY DEF BreakerInner
<1> QED
    BY <1>1 DEF NextEpoch

LEMMA CountsKept ==
  ASSUME NEW c \in CountsType, NEW lag \in Lags, NEW outcome \in Outcomes
  PROVE  /\ NewCounts(lag) \in CountsType
         /\ rotate_if_needed(c, lag) \in CountsType
         /\ Sampled(c, outcome, lag) \in CountsType
<1>0. lag \in Nat /\ U32_MAX \in Nat
    BY ConfigAssumption DEF Lags
<1>1. NewCounts(lag) \in CountsType
    BY <1>0 DEF NewCounts, CountsType
<1>2. \A d \in CountsType : rotate_if_needed(d, lag) \in CountsType
    BY <1>0, <1>1 DEF rotate_if_needed, NewCounts, CountsType
<1>3. \A n \in 0 .. U32_MAX : Least(n + 1, U32_MAX) \in 0 .. U32_MAX
    BY <1>0 DEF Least
<1>4. \A d \in CountsType : /\ [d EXCEPT !.ok = Least(@ + 1, U32_MAX)] \in CountsType
                            /\ [d EXCEPT !.fail = Least(@ + 1, U32_MAX)] \in CountsType
    BY <1>3 DEF CountsType
<1> QED
    BY <1>1, <1>2, <1>4 DEF Sampled

LEMMA CoolFacts ==
  ASSUME NEW b \in BreakerInner, NEW lag \in Lags, NEW c, c = transition_if_cooled(b, lag)
  PROVE  /\ c \in BreakerInner
         /\ \/ c = b
            \/ /\ b.state = "open" /\ c.state = "half_open" /\ c.epoch = NextEpoch(b)
               /\ c.probes_in_flight = 0 /\ c.counts = b.counts
BY EpochMoves, ConfigFacts DEF transition_if_cooled, BreakerInner

LEMMA OpenFacts ==
  ASSUME NEW b \in BreakerInner, NEW lag \in Lags, NEW c, c = opened(b, lag)
  PROVE  c \in BreakerInner /\ c.state = "open" /\ c.epoch = NextEpoch(b)
<1> DEFINE shift == Least(b.consecutive_opens, MAX_SHIFT)
           cooldown == Least(base_cooldown_millis * 2^shift, max_cooldown_millis)
<1>1. shift \in 0 .. MAX_SHIFT
    BY ConfigAssumption DEF Least, BreakerInner
<1>2. 2^shift \in Nat
    BY <1>1, ConfigAssumption
<1>3. cooldown \in Nat
    <2> HIDE DEF shift
    <2>1. base_cooldown_millis * 2^shift \in Nat
        BY <1>2, ConfigAssumption
    <2> QED
        BY <2>1, ConfigAssumption DEF Least
<1> DEFINE opens == Least(b.consecutive_opens + 1, MAX_SHIFT + 1)
           cool  == cooldown - lag
<1>4. c = [b EXCEPT !.state = "open", !.epoch = NextEpoch(b), !.probes_in_flight = 0,
                    !.probe_successes = 0, !.consecutive_opens = opens, !.cool_in = cool]
    BY DEF opened
<1>5. opens \in 0 .. MAX_SHIFT + 1
    BY ConfigFacts DEF Least, BreakerInner
<1>6. cool \in Int
    BY <1>3, ConfigFacts DEF Lags
<1>7. PICK e \in 0 .. 2 : e = NextEpoch(b)
    BY EpochMoves
<1>8. PICK z \in 0 .. half_open_probes : z = 0
    BY ConfigFacts
<1> HIDE DEF cool, opens
<1>9. c = [b EXCEPT !.state = "open", !.epoch = e, !.probes_in_flight = z,
                    !.probe_successes = 0, !.consecutive_opens = opens, !.cool_in = cool]
    BY <1>4, <1>7, <1>8, Zenon
<1>10. c \in BreakerInner
    <2>1. [b EXCEPT !.state = "open", !.epoch = e, !.probes_in_flight = z,
                    !.probe_successes = 0, !.consecutive_opens = opens, !.cool_in = cool]
            \in BreakerInner
        BY <1>5, <1>6 DEF BreakerInner
    <2> QED
        BY <1>9, <2>1
<1> QED
    BY <1>7, <1>9, <1>10 DEF BreakerInner

LEMMA CloseFacts ==
  ASSUME NEW b \in BreakerInner, NEW lag \in Lags, NEW c, c = closed(b, lag)
  PROVE  c \in BreakerInner /\ c.state = "closed" /\ c.epoch = NextEpoch(b)
<1>1. NewCounts(lag) \in CountsType
    BY ConfigAssumption DEF NewCounts, CountsType, Lags
<1> QED
    BY <1>1, EpochMoves, ConfigFacts DEF closed, BreakerInner

LEMMA ReadyFacts ==
  ASSUME NEW b \in BreakerInner, NEW lag \in Lags, NEW c, c = Ready(b, lag)
  PROVE  /\ c \in BreakerInner
         /\ \/ c = b /\ ~LeaseOver(b, lag)
            \/ /\ c.state = "half_open" /\ c.epoch = NextEpoch(b) /\ c.probes_in_flight = 0
               /\ b.state # c.state \/ LeaseOver(b, lag)
<1>1. PICK d \in BreakerInner :
        /\ d = transition_if_cooled(b, lag)
        /\ \/ d = b
           \/ /\ b.state = "open" /\ d.state = "half_open" /\ d.epoch = NextEpoch(b)
              /\ d.probes_in_flight = 0
    BY CoolFacts
<1>2. CASE LeaseOver(d, lag)
    <2>1. d = b
        BY <1>1, <1>2, ConfigAssumption DEF LeaseOver
    <2>2. c = reclaimed(b) /\ b.state = "half_open"
        BY <1>1, <1>2, <2>1 DEF Ready, LeaseOver
    <2>3. PICK e \in 0 .. 2, z \in 0 .. half_open_probes : e = NextEpoch(b) /\ z = 0
        BY EpochMoves, ConfigFacts
    <2>4. c = [b EXCEPT !.probes_in_flight = z, !.probe_successes = 0, !.epoch = e]
        BY <2>2, <2>3 DEF reclaimed
    <2>5. /\ c \in BreakerInner /\ c.state = "half_open"
          /\ c.epoch = NextEpoch(b) /\ c.probes_in_flight = 0
        <3>1. c \in BreakerInner
            <4>1. [b EXCEPT !.probes_in_flight = z, !.probe_successes = 0, !.epoch = e]
                    \in BreakerInner
                BY DEF BreakerInner
            <4> QED
                BY <2>4, <4>1
        <3>2. c.state = b.state
            BY <2>4 DEF BreakerInner
        <3>3. c.epoch = e
            BY <2>4 DEF BreakerInner
        <3>4. c.probes_in_flight = z
            BY <2>4 DEF BreakerInner
        <3> QED
            BY <2>2, <2>3, <3>1, <3>2, <3>3, <3>4
    <2> QED
        BY <1>2, <2>1, <2>5
<1>3. CASE ~LeaseOver(d, lag)
    BY <1>1, <1>3 DEF Ready
<1> QED
    BY <1>2, <1>3

LEMMA ProbeDoneFacts ==
  ASSUME NEW b \in BreakerInner, NEW lag \in Lags, NEW outcome \in Outcomes,
         NEW c, c = ProbeDone(b, outcome, lag)
  PROVE  /\ c \in BreakerInner
         /\ \/ /\ c.state = b.state /\ c.epoch = b.epoch
               /\ c.probes_in_flight = Monus(b.probes_in_flight, 1)
            \/ c.state \in {"open", "closed"} /\ c.epoch = NextEpoch(b)
<1> DEFINE m       == Monus(b.probes_in_flight, 1)
           k       == Sampled(b.counts, outcome, lag)
           n       == b.probe_successes + 1
           back    == [b EXCEPT !.probes_in_flight = m]
           counted == [back EXCEPT !.counts = k]
           proved  == [counted EXCEPT !.probe_successes = n]
<1>1. m \in 0 .. half_open_probes
    BY ConfigFacts DEF Monus, BreakerInner
<1>2. k \in CountsType /\ n \in Nat
    BY CountsKept DEF BreakerInner
<1>3. c = CASE outcome = "none" -> back
            [] outcome = "ok" -> IF n >= half_open_successes_to_close
                                 THEN closed(proved, lag) ELSE proved
            [] outcome = "fail" -> opened(counted, lag)
    <2>1. counted = [back EXCEPT !.counts = Sampled(b.counts, outcome, lag)]
          /\ proved = [counted EXCEPT !.probe_successes = @ + 1] /\ proved.probe_successes = n
        BY DEF BreakerInner
    <2> QED
        BY <2>1 DEF ProbeDone
<1> HIDE DEF m, k, n
<1>4. back \in BreakerInner /\ back.state = b.state /\ back.epoch = b.epoch
      /\ back.probes_in_flight = m
    BY <1>1 DEF BreakerInner
<1> HIDE DEF back
<1>5. counted \in BreakerInner /\ counted.state = b.state /\ counted.epoch = b.epoch
      /\ counted.probes_in_flight = m
    BY <1>2, <1>4 DEF BreakerInner
<1> HIDE DEF counted
<1>6. proved \in BreakerInner /\ proved.state = b.state /\ proved.epoch = b.epoch
      /\ proved.probes_in_flight = m
    BY <1>2, <1>5 DEF BreakerInner
<1> HIDE DEF proved
<1>7. NextEpoch(counted) = NextEpoch(b) /\ NextEpoch(proved) = NextEpoch(b)
    BY <1>5, <1>6 DEF NextEpoch
<1>8. CASE outcome = "none"
    BY <1>3, <1>4, <1>8 DEF m
<1>9. CASE outcome = "ok" /\ n >= half_open_successes_to_close
    <2>1. c = closed(proved, lag)
        BY <1>3, <1>9
    <2> QED
        BY <1>6, <1>7, <2>1, CloseFacts
<1>10. CASE outcome = "ok" /\ ~(n >= half_open_successes_to_close)
    <2>1. c = proved
        BY <1>3, <1>10
    <2> QED
        BY <1>6, <2>1 DEF m
<1>11. CASE outcome = "fail"
    <2>1. c = opened(counted, lag)
        BY <1>3, <1>11
    <2> QED
        BY <1>5, <1>7, <2>1, OpenFacts
<1> QED
    BY <1>8, <1>9, <1>10, <1>11 DEF Outcomes

LEMMA RequestDoneFacts ==
  ASSUME NEW b \in BreakerInner, NEW lag \in Lags, NEW outcome \in Outcomes,
         NEW c, c = RequestDone(b, outcome, lag)
  PROVE  /\ c \in BreakerInner
         /\ \/ c.state = b.state /\ c.epoch = b.epoch
            \/ c.state = "open" /\ c.epoch = NextEpoch(b)
<1> DEFINE k       == Sampled(b.counts, outcome, lag)
           counted == [b EXCEPT !.counts = k]
<1>1. k \in CountsType
    BY CountsKept DEF BreakerInner
<1>2. c = IF outcome = "none" THEN b
          ELSE IF outcome = "fail" /\ OverThreshold(counted.counts) THEN opened(counted, lag)
          ELSE counted
    BY DEF RequestDone
<1> HIDE DEF k
<1>3. counted \in BreakerInner /\ counted.state = b.state /\ counted.epoch = b.epoch
    BY <1>1 DEF BreakerInner
<1> HIDE DEF counted
<1>4. NextEpoch(counted) = NextEpoch(b)
    BY <1>3 DEF NextEpoch
<1>5. CASE outcome = "fail" /\ OverThreshold(counted.counts)
    <2>1. c = opened(counted, lag)
        BY <1>2, <1>5
    <2> QED
        BY <1>3, <1>4, <2>1, OpenFacts
<1>6. CASE ~(outcome = "fail" /\ OverThreshold(counted.counts))
    <2>1. c = b \/ c = counted
        BY <1>2, <1>6
    <2> QED
        BY <1>3, <2>1
<1> QED
    BY <1>5, <1>6

-----------------------------------------------------------------------------
(* Permits, old and new *)

LEMMA AgedFacts ==
  ASSUME inner' \in BreakerInner, NEW ps \in [Threads -> BreakerPermit \cup {None}]
  PROVE  /\ Aged(ps) \in [Threads -> BreakerPermit \cup {None}]
         /\ \A r \in Threads :
              /\ Aged(ps)[r] = None <=> ps[r] = None
              /\ ps[r] # None =>
                   /\ Aged(ps)[r].probe = ps[r].probe
                   /\ Aged(ps)[r].epoch = IF ps[r].epoch = inner'.epoch THEN inner'.epoch ELSE Past
<1>1. None \notin BreakerPermit
    BY ConfigAssumption DEF BreakerPermit
<1>2. ASSUME NEW r \in Threads
      PROVE  /\ Aged(ps)[r] \in BreakerPermit \cup {None}
             /\ Aged(ps)[r] = None <=> ps[r] = None
             /\ ps[r] # None =>
                  /\ Aged(ps)[r].probe = ps[r].probe
                  /\ Aged(ps)[r].epoch = IF ps[r].epoch = inner'.epoch THEN inner'.epoch ELSE Past
    <2>1. CASE ps[r] = None
        BY <2>1 DEF Aged
    <2>2. CASE ps[r] # None /\ ps[r].epoch = inner'.epoch
        BY <2>2 DEF Aged
    <2>3. CASE ps[r] # None /\ ps[r].epoch # inner'.epoch
        <3>1. PICK q \in BreakerPermit : q = ps[r]
            BY <2>3
        <3>2. Aged(ps)[r] = [q EXCEPT !.epoch = Past]
            BY <2>3, <3>1 DEF Aged
        <3>3. [q EXCEPT !.epoch = Past] \in BreakerPermit
              /\ [q EXCEPT !.epoch = Past].probe = q.probe
              /\ [q EXCEPT !.epoch = Past].epoch = Past
            BY DEF BreakerPermit
        <3> QED
            BY <1>1, <2>3, <3>1, <3>2, <3>3
    <2> QED
        BY <2>1, <2>2, <2>3
<1> QED
    BY <1>2 DEF Aged

\* When the epoch moves, every permit given out before is past.
LEMMA EpochStep ==
  ASSUME BreakerInv, inner' \in BreakerInner, inner'.epoch = NextEpoch(inner),
         NEW ps \in [Threads -> BreakerPermit \cup {None}],
         \A r \in Threads : ps[r] \in {permit[r], None},
         permit' = Aged(ps)
  PROVE  /\ permit' \in [Threads -> BreakerPermit \cup {None}]
         /\ \A r \in Threads : permit'[r] # None => permit'[r].epoch = Past
         /\ inner'.epoch # Past
<1>1. inner \in BreakerInner /\ EpochsAged
    BY DEF BreakerInv, TypeOK
<1>2. inner'.epoch # inner.epoch /\ inner'.epoch \in 0 .. 2 /\ Past \notin 0 .. 2
    BY <1>1, EpochMoves, ConfigAssumption
<1>3. \A r \in Threads : ps[r] # None => ps[r].epoch # inner'.epoch
    BY <1>1, <1>2 DEF EpochsAged
<1> QED
    BY <1>2, <1>3, AgedFacts

\* A step that moves the epoch and forgets who was fresh keeps the invariant.
LEMMA MovedKeeps ==
  ASSUME BreakerInv, inner' \in BreakerInner, inner'.epoch = NextEpoch(inner),
         inner'.state = "half_open" => inner'.probes_in_flight = 0,
         NEW ps \in [Threads -> BreakerPermit \cup {None}],
         \A r \in Threads : ps[r] \in {permit[r], None},
         permit' = Aged(ps), fresh' = {}, outcomes' \in Nat
  PROVE  BreakerInv'
<1>1. /\ permit' \in [Threads -> BreakerPermit \cup {None}] /\ inner'.epoch # Past
      /\ \A r \in Threads : permit'[r] # None => permit'[r].epoch = Past
    BY EpochStep
<1>2. Cardinality({}) = 0
    BY FS_EmptySet
<1> QED
    BY <1>1, <1>2 DEF BreakerInv, TypeOK, FreshIsCurrent, FreshKind, EpochsAged, SlotsCounted

\* A step within the epoch that lets go of one permit, if it counts the slot.
LEMMA StayKeeps ==
  ASSUME BreakerInv, inner' \in BreakerInner, inner'.epoch = inner.epoch,
         inner'.state = inner.state,
         NEW r \in Threads, permit[r] # None,
         permit' = Aged([permit EXCEPT ![r] = None]),
         fresh' = fresh \ {r}, outcomes' \in Nat,
         inner.state = "half_open" =>
           inner'.probes_in_flight = inner.probes_in_flight - (IF r \in fresh THEN 1 ELSE 0)
  PROVE  BreakerInv'
<1>1. inner \in BreakerInner /\ FreshIsCurrent /\ FreshKind /\ EpochsAged /\ SlotsCounted
      /\ permit \in [Threads -> BreakerPermit \cup {None}]
      /\ fresh \subseteq {q \in Threads : permit[q] # None}
    BY DEF BreakerInv, TypeOK
<1>2. PICK ps \in [Threads -> BreakerPermit \cup {None}] :
        /\ ps = [permit EXCEPT ![r] = None] /\ ps[r] = None
        /\ \A q \in Threads \ {r} : ps[q] = permit[q]
    <2>1. /\ [permit EXCEPT ![r] = None] \in [Threads -> BreakerPermit \cup {None}]
          /\ [permit EXCEPT ![r] = None][r] = None
          /\ \A q \in Threads \ {r} : [permit EXCEPT ![r] = None][q] = permit[q]
        BY <1>1
    <2> QED
        BY <2>1
<1>3. inner'.epoch \in 0 .. 2 /\ Past \notin 0 .. 2
    BY ConfigAssumption DEF BreakerInner
<1>4. /\ permit' \in [Threads -> BreakerPermit \cup {None}] /\ permit'[r] = None
      /\ \A q \in Threads \ {r} :
           /\ permit'[q] = None <=> permit[q] = None
           /\ permit[q] # None => permit'[q].probe = permit[q].probe
                                  /\ permit'[q].epoch = permit[q].epoch
    <2>1. permit' = Aged(ps)
        BY <1>2
    <2>2. /\ permit' \in [Threads -> BreakerPermit \cup {None}]
          /\ \A q \in Threads :
               /\ permit'[q] = None <=> ps[q] = None
               /\ ps[q] # None =>
                    /\ permit'[q].probe = ps[q].probe
                    /\ permit'[q].epoch = IF ps[q].epoch = inner'.epoch THEN inner'.epoch ELSE Past
        <3>1. /\ Aged(ps) \in [Threads -> BreakerPermit \cup {None}]
              /\ \A q \in Threads :
                   /\ Aged(ps)[q] = None <=> ps[q] = None
                   /\ ps[q] # None =>
                        /\ Aged(ps)[q].probe = ps[q].probe
                        /\ Aged(ps)[q].epoch =
                             IF ps[q].epoch = inner'.epoch THEN inner'.epoch ELSE Past
            BY AgedFacts
        <3> QED
            BY <2>1, <3>1
    <2>3. \A q \in Threads \ {r} : permit[q] # None =>
            permit[q].epoch = IF permit[q].epoch = inner'.epoch THEN inner'.epoch ELSE Past
        BY <1>1 DEF EpochsAged
    <2> QED
        BY <1>2, <2>2, <2>3, Zenon
<1>5. TypeOK'
    BY <1>1, <1>4 DEF TypeOK
<1>6. FreshIsCurrent' /\ FreshKind' /\ EpochsAged'
    BY <1>1, <1>4 DEF FreshIsCurrent, FreshKind, EpochsAged
<1>7. SlotsCounted'
    <2>1. IsFiniteSet(fresh)
        BY <1>1, FS_Subset, ConfigAssumption
    <2>2. Cardinality(fresh) \in Nat
          /\ Cardinality(fresh \ {r}) = IF r \in fresh THEN Cardinality(fresh) - 1
                                        ELSE Cardinality(fresh)
        BY <2>1, FS_RemoveElement, FS_CardinalityType
    <2>3. CASE r \in fresh
        BY <1>1, <2>2, <2>3 DEF SlotsCounted
    <2>4. CASE r \notin fresh
        <3>1. fresh \ {r} = fresh
            BY <2>4
        <3>2. inner.probes_in_flight \in Nat
            BY <1>1, ConfigFacts DEF BreakerInner
        <3> QED
            BY <1>1, <2>2, <2>4, <3>1, <3>2 DEF SlotsCounted
    <2> QED
        BY <2>3, <2>4
<1> QED
    BY <1>5, <1>6, <1>7 DEF BreakerInv

-----------------------------------------------------------------------------
(* The steps *)

\* What the end of a permit does to the breaker: it moves on, or stays in its
\* epoch and takes back the slot of a probe that was still current.
LEMMA FinishFacts ==
  ASSUME BreakerInv, NEW r \in Threads, permit[r] # None, NEW outcome \in Outcomes,
         NEW lag \in Lags, NEW c, c = finish_permit(inner, permit[r], outcome, lag)
  PROVE  /\ c \in BreakerInner
         /\ \/ /\ c.state # inner.state /\ c.epoch = NextEpoch(inner)
               /\ c.state = "half_open" => c.probes_in_flight = 0
            \/ /\ c.state = inner.state /\ c.epoch = inner.epoch
               /\ inner.state = "half_open" => c.probes_in_flight =
                    inner.probes_in_flight - (IF r \in fresh THEN 1 ELSE 0)
         /\ r \notin fresh => c = transition_if_cooled(inner, lag)
<1>0. /\ inner \in BreakerInner /\ FreshIsCurrent /\ FreshKind /\ EpochsAged /\ SlotsCounted
      /\ permit[r] \in BreakerPermit /\ fresh \subseteq Threads
      /\ inner.probes_in_flight \in Nat
    BY ConfigFacts DEF BreakerInv, TypeOK, BreakerInner
<1> DEFINE cooled == transition_if_cooled(inner, lag)
<1>1. /\ cooled \in BreakerInner
      /\ \/ cooled = inner
         \/ /\ inner.state = "open" /\ cooled.state = "half_open"
            /\ cooled.epoch = NextEpoch(inner) /\ cooled.probes_in_flight = 0
    BY <1>0, CoolFacts
<1>2. c = IF ~Counts(cooled, permit[r]) THEN cooled
          ELSE IF permit[r].probe THEN ProbeDone(cooled, outcome, lag)
          ELSE RequestDone(cooled, outcome, lag)
    BY DEF finish_permit
<1> HIDE DEF cooled
<1>3. CASE cooled # inner
    <2>1. cooled.epoch # inner.epoch /\ cooled.epoch # Past
        BY <1>0, <1>1, <1>3, EpochMoves, ConfigAssumption
    <2>2. ~Counts(cooled, permit[r])
        BY <1>0, <2>1 DEF Counts, EpochsAged
    <2>3. c = cooled
        BY <1>2, <2>2
    <2> QED
        BY <1>1, <1>3, <2>3 DEF cooled
<1>4. CASE cooled = inner /\ r \notin fresh
    <2>1. ~Counts(inner, permit[r])
        BY <1>0, <1>4 DEF Counts, FreshIsCurrent
    <2>2. c = inner
        BY <1>2, <1>4, <2>1
    <2> QED
        BY <1>0, <1>4, <2>2 DEF cooled
<1>5. CASE cooled = inner /\ r \in fresh
    <2>1. inner.state # "open" /\ (permit[r].probe <=> inner.state = "half_open")
        BY <1>0, <1>5 DEF FreshKind
    <2>2. Counts(inner, permit[r])
        BY <1>0, <1>5, <2>1 DEF Counts, FreshIsCurrent, BreakerInner
    <2>3. CASE permit[r].probe
        <3>1. c = ProbeDone(inner, outcome, lag)
            BY <1>2, <1>5, <2>2, <2>3
        <3>2. inner.probes_in_flight > 0
            <4>1. IsFiniteSet(fresh)
                BY <1>0, FS_Subset, ConfigAssumption
            <4>2. Cardinality(fresh) # 0 /\ Cardinality(fresh) \in Nat
                BY <1>5, <4>1, FS_EmptySet, FS_CardinalityType
            <4> QED
                BY <1>0, <2>1, <2>3, <4>2 DEF SlotsCounted
        <3>3. Monus(inner.probes_in_flight, 1) = inner.probes_in_flight - 1
            BY <1>0, <3>2 DEF Monus
        <3> QED
            BY <1>0, <1>5, <2>1, <2>3, <3>1, <3>3, ProbeDoneFacts
    <2>4. CASE ~permit[r].probe
        <3>1. c = RequestDone(inner, outcome, lag)
            BY <1>2, <1>5, <2>2, <2>4
        <3> QED
            BY <1>0, <1>5, <2>1, <2>4, <3>1, RequestDoneFacts
    <2> QED
        BY <2>3, <2>4
<1> QED
    BY <1>3, <1>4, <1>5

LEMMA FinishKeeps ==
  ASSUME BreakerInv, NEW r \in Threads, NEW outcome \in Outcomes, NEW lag \in Lags,
         Conclude(r, outcome, lag)
  PROVE  BreakerInv'
<1>0. /\ permit \in [Threads -> BreakerPermit \cup {None}] /\ outcomes \in Nat
      /\ min_samples \in Nat
    BY ConfigAssumption DEF BreakerInv, TypeOK
<1>1. permit[r] # None /\ inner' = finish_permit(inner, permit[r], outcome, lag)
      /\ permit' = Aged([permit EXCEPT ![r] = None])
      /\ fresh' = IF inner'.state # inner.state THEN {} ELSE fresh \ {r}
    BY DEF Conclude
<1>2. outcomes' \in Nat
    BY <1>0 DEF Conclude, Least
<1>3. PICK ps \in [Threads -> BreakerPermit \cup {None}] :
        ps = [permit EXCEPT ![r] = None] /\ \A q \in Threads : ps[q] \in {permit[q], None}
    BY <1>0
<1>4. CASE inner'.state # inner.state
    <2>1. /\ inner' \in BreakerInner /\ inner'.epoch = NextEpoch(inner)
          /\ inner'.state = "half_open" => inner'.probes_in_flight = 0
        BY <1>1, <1>4, FinishFacts
    <2>2. permit' = Aged(ps) /\ fresh' = {}
        BY <1>1, <1>3, <1>4
    <2> QED
        BY <1>2, <1>3, <2>1, <2>2, MovedKeeps
<1>5. CASE inner'.state = inner.state
    <2>1. /\ inner' \in BreakerInner /\ inner'.epoch = inner.epoch
          /\ inner.state = "half_open" => inner'.probes_in_flight =
               inner.probes_in_flight - (IF r \in fresh THEN 1 ELSE 0)
        BY <1>1, <1>5, FinishFacts
    <2> QED
        BY <1>1, <1>2, <1>5, <2>1, StayKeeps
<1> QED
    BY <1>4, <1>5

LEMMA DropKeeps ==
  ASSUME BreakerInv, NEW r \in Threads, Drop(r)
  PROVE  BreakerInv'
<1>0. /\ inner \in BreakerInner /\ FreshIsCurrent /\ FreshKind /\ EpochsAged /\ SlotsCounted
      /\ permit \in [Threads -> BreakerPermit \cup {None}] /\ outcomes \in Nat
      /\ fresh \subseteq {q \in Threads : permit[q] # None}
      /\ inner.probes_in_flight \in 0 .. half_open_probes
    BY DEF BreakerInv, TypeOK, BreakerInner
<1> DEFINE m == Monus(inner.probes_in_flight, 1)
<1>1. /\ permit[r] # None /\ permit' = [permit EXCEPT ![r] = None] /\ fresh' = fresh \ {r}
      /\ outcomes' = outcomes
      /\ inner' = IF Counts(inner, permit[r]) /\ permit[r].probe
                  THEN [inner EXCEPT !.probes_in_flight = m] ELSE inner
    BY DEF Drop
<1>2. m \in 0 .. half_open_probes
    BY <1>0, ConfigFacts DEF Monus
<1>3. Counts(inner, permit[r]) <=> r \in fresh
    BY <1>0, <1>1 DEF Counts, FreshIsCurrent, FreshKind, BreakerInner
<1> HIDE DEF m
<1>4. /\ inner' \in BreakerInner /\ inner'.state = inner.state /\ inner'.epoch = inner.epoch
      /\ inner'.probes_in_flight =
           IF Counts(inner, permit[r]) /\ permit[r].probe THEN m ELSE inner.probes_in_flight
    <2>1. /\ [inner EXCEPT !.probes_in_flight = m] \in BreakerInner
          /\ [inner EXCEPT !.probes_in_flight = m].state = inner.state
          /\ [inner EXCEPT !.probes_in_flight = m].epoch = inner.epoch
          /\ [inner EXCEPT !.probes_in_flight = m].probes_in_flight = m
        BY <1>0, <1>2 DEF BreakerInner
    <2> QED
        BY <1>0, <1>1, <2>1
<1>5. permit' \in [Threads -> BreakerPermit \cup {None}] /\ permit'[r] = None
      /\ \A q \in Threads \ {r} : permit'[q] = permit[q]
    BY <1>0, <1>1
<1>6. TypeOK' /\ FreshIsCurrent' /\ FreshKind' /\ EpochsAged'
    BY <1>0, <1>1, <1>4, <1>5 DEF TypeOK, FreshIsCurrent, FreshKind, EpochsAged
<1>7. SlotsCounted'
    <2> SUFFICES ASSUME inner.state = "half_open"
                 PROVE  inner'.probes_in_flight = Cardinality(fresh \ {r})
        BY <1>1, <1>4 DEF SlotsCounted
    <2>1. IsFiniteSet(fresh)
        BY <1>0, FS_Subset, ConfigAssumption
    <2>2. Cardinality(fresh) \in Nat /\ (r \in fresh => Cardinality(fresh) # 0)
          /\ Cardinality(fresh \ {r}) = IF r \in fresh THEN Cardinality(fresh) - 1
                                        ELSE Cardinality(fresh)
        BY <2>1, FS_RemoveElement, FS_CardinalityType, FS_EmptySet
    <2>3. inner.probes_in_flight = Cardinality(fresh)
        BY <1>0 DEF SlotsCounted
    <2>4. CASE r \in fresh
        <3>1. permit[r].probe
            BY <1>0, <2>4 DEF FreshKind
        <3>2. inner'.probes_in_flight = m
            BY <1>3, <1>4, <2>4, <3>1
        <3> QED
            BY <2>2, <2>3, <2>4, <3>2 DEF m, Monus
    <2>5. CASE r \notin fresh
        BY <1>3, <1>4, <2>2, <2>3, <2>5
    <2> QED
        BY <2>4, <2>5
<1> QED
    BY <1>6, <1>7 DEF BreakerInv

\* A look or a tick moves the epoch by cooling, or leaves all but the counts.
LEMMA IdleKeeps ==
  ASSUME BreakerInv, inner' \in BreakerInner, inner'.state = inner.state,
         inner'.epoch = inner.epoch, inner'.probes_in_flight = inner.probes_in_flight,
         permit' \in {permit, Aged(permit)}, fresh' = fresh, outcomes' \in Nat
  PROVE  BreakerInv'
<1>1. /\ FreshIsCurrent /\ FreshKind /\ EpochsAged /\ SlotsCounted
      /\ permit \in [Threads -> BreakerPermit \cup {None}]
      /\ fresh \subseteq {q \in Threads : permit[q] # None}
    BY DEF BreakerInv, TypeOK
<1>2. PICK ps \in [Threads -> BreakerPermit \cup {None}] : ps = permit
    BY <1>1
<1>3. /\ permit' \in [Threads -> BreakerPermit \cup {None}]
      /\ \A q \in Threads :
           /\ permit'[q] = None <=> permit[q] = None
           /\ permit[q] # None => permit'[q].probe = permit[q].probe
                                  /\ permit'[q].epoch = permit[q].epoch
    <2>1. CASE permit' = permit
        BY <1>1, <2>1
    <2>2. CASE permit' = Aged(ps)
        <3>1. /\ Aged(ps) \in [Threads -> BreakerPermit \cup {None}]
              /\ \A q \in Threads :
                   /\ Aged(ps)[q] = None <=> ps[q] = None
                   /\ ps[q] # None =>
                        /\ Aged(ps)[q].probe = ps[q].probe
                        /\ Aged(ps)[q].epoch =
                             IF ps[q].epoch = inner'.epoch THEN inner'.epoch ELSE Past
            BY AgedFacts
        <3>2. \A q \in Threads : permit[q] # None => permit[q].epoch \in {inner'.epoch, Past}
            BY <1>1 DEF EpochsAged
        <3> QED
            BY <1>2, <2>2, <3>1, <3>2
    <2> QED
        BY <1>2, <2>1, <2>2
<1> QED
    BY <1>1, <1>3 DEF BreakerInv, TypeOK, FreshIsCurrent, FreshKind, EpochsAged, SlotsCounted

LEMMA LookKeeps ==
  ASSUME BreakerInv, NEW lag \in Lags, Glance(lag)
  PROVE  BreakerInv'
<1>0. inner \in BreakerInner /\ permit \in [Threads -> BreakerPermit \cup {None}]
      /\ outcomes \in Nat
    BY DEF BreakerInv, TypeOK
<1>1. /\ permit' = Aged(permit) /\ outcomes' \in Nat
      /\ fresh' = IF inner'.state # inner.state THEN {} ELSE fresh
    BY <1>0 DEF Glance
<1>2. CASE inner' = transition_if_cooled(inner, lag)
    <2>1. /\ inner' \in BreakerInner
          /\ \/ inner' = inner
             \/ /\ inner.state = "open" /\ inner'.state = "half_open"
                /\ inner'.epoch = NextEpoch(inner) /\ inner'.probes_in_flight = 0
        BY <1>0, <1>2, CoolFacts
    <2>2. CASE inner' = inner
        BY <1>0, <1>1, <2>2, IdleKeeps
    <2>3. CASE inner.state = "open" /\ inner'.state = "half_open"
               /\ inner'.epoch = NextEpoch(inner) /\ inner'.probes_in_flight = 0
        <3>1. PICK ps \in [Threads -> BreakerPermit \cup {None}] :
                ps = permit /\ \A q \in Threads : ps[q] \in {permit[q], None}
            BY <1>0
        <3>2. permit' = Aged(ps) /\ fresh' = {}
            BY <1>1, <2>3, <3>1
        <3> QED
            BY <1>1, <2>1, <2>3, <3>1, <3>2, MovedKeeps
    <2> QED
        BY <2>1, <2>2, <2>3
<1>3. CASE inner' = [inner EXCEPT !.counts = rotate_if_needed(@, lag)]
    <2>1. PICK k \in CountsType : k = rotate_if_needed(inner.counts, lag)
        <3>1. inner.counts \in CountsType
            BY <1>0 DEF BreakerInner
        <3> QED
            BY <3>1, CountsKept DEF Outcomes
    <2>2. inner' = [inner EXCEPT !.counts = k]
        BY <1>3, <2>1
    <2>3. [inner EXCEPT !.counts = k] \in BreakerInner
          /\ [inner EXCEPT !.counts = k].state = inner.state
          /\ [inner EXCEPT !.counts = k].epoch = inner.epoch
          /\ [inner EXCEPT !.counts = k].probes_in_flight = inner.probes_in_flight
        BY <1>0 DEF BreakerInner
    <2> QED
        BY <1>1, <2>2, <2>3, IdleKeeps
<1> QED
    BY <1>2, <1>3 DEF Glance

LEMMA TickKeeps ==
  ASSUME BreakerInv, Tick
  PROVE  BreakerInv'
<1>0. inner \in BreakerInner /\ outcomes \in Nat
    BY DEF BreakerInv, TypeOK
<1>1. PICK i \in Int, a \in Nat, g \in Nat :
        inner' = [inner EXCEPT !.cool_in = i, !.probe_age = a, !.counts.age = g]
        /\ UNCHANGED <<permit, fresh, outcomes>>
    <2>1. (IF inner.cool_in > 0 - MaxLag THEN inner.cool_in - 1 ELSE inner.cool_in) \in Int
        BY <1>0 DEF BreakerInner
    <2>2. Least(inner.probe_age + 1, PROBE_LEASE + MaxLag) \in Nat
        BY <1>0, ConfigAssumption DEF BreakerInner, Least
    <2>3. Least(inner.counts.age + 1, 2 * window_millis + MaxLag) \in Nat
        BY <1>0, ConfigAssumption DEF BreakerInner, CountsType, Least
    <2> QED
        BY <2>1, <2>2, <2>3 DEF Tick
<1>2. PICK k \in CountsType : k = [inner.counts EXCEPT !.age = g]
    <2>1. inner.counts \in CountsType
        BY <1>0 DEF BreakerInner
    <2>2. [inner.counts EXCEPT !.age = g] \in CountsType
        BY <2>1 DEF CountsType
    <2> QED
        BY <2>2
<1>3. inner' = [inner EXCEPT !.cool_in = i, !.probe_age = a, !.counts = k]
    BY <1>0, <1>1, <1>2 DEF BreakerInner
<1>4. [inner EXCEPT !.cool_in = i, !.probe_age = a, !.counts = k] \in BreakerInner
      /\ [inner EXCEPT !.cool_in = i, !.probe_age = a, !.counts = k].state = inner.state
      /\ [inner EXCEPT !.cool_in = i, !.probe_age = a, !.counts = k].epoch = inner.epoch
      /\ [inner EXCEPT !.cool_in = i, !.probe_age = a, !.counts = k].probes_in_flight
           = inner.probes_in_flight
    BY <1>0 DEF BreakerInner
<1> QED
    BY <1>0, <1>1, <1>3, <1>4, IdleKeeps

LEMMA AdmitKeeps ==
  ASSUME BreakerInv, NEW r \in Threads, NEW lag \in Lags, admit(r, lag)
  PROVE  BreakerInv'
<1>0. /\ inner \in BreakerInner /\ FreshIsCurrent /\ FreshKind /\ EpochsAged /\ SlotsCounted
      /\ permit \in [Threads -> BreakerPermit \cup {None}] /\ outcomes \in Nat
      /\ fresh \subseteq {q \in Threads : permit[q] # None}
    BY DEF BreakerInv, TypeOK
<1>1. PICK b \in BreakerInner :
        /\ b = Ready(inner, lag)
        /\ \/ b = inner /\ ~LeaseOver(inner, lag)
           \/ /\ b.state = "half_open" /\ b.epoch = NextEpoch(inner) /\ b.probes_in_flight = 0
              /\ inner.state # b.state \/ LeaseOver(inner, lag)
    BY <1>0, ReadyFacts
<1>2. /\ permit[r] = None /\ Granted(b)
      /\ inner' = IF HasRoom(b) THEN [b EXCEPT !.probes_in_flight = @ + 1, !.probe_age = lag] ELSE b
      /\ permit' = Aged([permit EXCEPT ![r] = [probe |-> HasRoom(b), epoch |-> b.epoch]])
      /\ fresh' = (IF Moved(lag) THEN {} ELSE fresh) \cup {r}
      /\ outcomes' = IF Moved(lag) THEN 0 ELSE outcomes
    BY <1>1 DEF admit
<1>3. b.state # "open" /\ (HasRoom(b) <=> b.state = "half_open")
    BY <1>2 DEF Granted, HasRoom
<1>4. /\ inner' \in BreakerInner /\ inner'.state = b.state /\ inner'.epoch = b.epoch
      /\ b.state = "half_open" => inner'.probes_in_flight = b.probes_in_flight + 1
    <2>1. CASE HasRoom(b)
        <3>1. b.probes_in_flight + 1 \in 0 .. half_open_probes /\ lag \in Nat
            BY <2>1, ConfigFacts DEF HasRoom, BreakerInner, Lags
        <3>2. PICK m \in 0 .. half_open_probes : m = b.probes_in_flight + 1
            BY <3>1
        <3>3. inner' = [b EXCEPT !.probes_in_flight = m, !.probe_age = lag]
            BY <1>2, <2>1, <3>2
        <3>4. /\ [b EXCEPT !.probes_in_flight = m, !.probe_age = lag] \in BreakerInner
              /\ [b EXCEPT !.probes_in_flight = m, !.probe_age = lag].state = b.state
              /\ [b EXCEPT !.probes_in_flight = m, !.probe_age = lag].epoch = b.epoch
              /\ [b EXCEPT !.probes_in_flight = m, !.probe_age = lag].probes_in_flight = m
            BY <3>1 DEF BreakerInner
        <3> QED
            BY <3>2, <3>3, <3>4
    <2>2. CASE ~HasRoom(b)
        BY <1>2, <1>3, <2>2
    <2> QED
        BY <2>1, <2>2
<1>5. /\ permit' \in [Threads -> BreakerPermit \cup {None}]
      /\ permit'[r] # None /\ permit'[r].epoch = inner'.epoch
      /\ permit'[r].probe <=> b.state = "half_open"
      /\ \A q \in Threads \ {r} :
           /\ permit'[q] = None <=> permit[q] = None
           /\ permit[q] # None =>
                /\ permit'[q].probe = permit[q].probe
                /\ permit'[q].epoch = IF permit[q].epoch = inner'.epoch THEN inner'.epoch ELSE Past
    <2>1. PICK p \in BreakerPermit :
            /\ p = [probe |-> HasRoom(b), epoch |-> b.epoch]
            /\ (p.probe <=> b.state = "half_open") /\ p.epoch = inner'.epoch
        <3>1. HasRoom(b) \in BOOLEAN
            BY DEF HasRoom
        <3>2. b.epoch \in 0 .. 2 \cup {Past}
            BY DEF BreakerInner
        <3>3. [probe |-> HasRoom(b), epoch |-> b.epoch] \in BreakerPermit
            BY <3>1, <3>2 DEF BreakerPermit
        <3> QED
            BY <1>3, <1>4, <3>3
    <2>2. p # None
        BY ConfigAssumption DEF BreakerPermit
    <2>3. PICK ps \in [Threads -> BreakerPermit \cup {None}] :
            /\ ps = [permit EXCEPT ![r] = p] /\ ps[r] = p
            /\ \A q \in Threads \ {r} : ps[q] = permit[q]
        <3>1. /\ [permit EXCEPT ![r] = p] \in [Threads -> BreakerPermit \cup {None}]
              /\ [permit EXCEPT ![r] = p][r] = p
              /\ \A q \in Threads \ {r} : [permit EXCEPT ![r] = p][q] = permit[q]
            BY <1>0
        <3> QED
            BY <3>1
    <2>4. permit' = Aged(ps)
        BY <1>2, <2>1, <2>3
    <2>5. /\ Aged(ps) \in [Threads -> BreakerPermit \cup {None}]
          /\ \A q \in Threads :
               /\ Aged(ps)[q] = None <=> ps[q] = None
               /\ ps[q] # None =>
                    /\ Aged(ps)[q].probe = ps[q].probe
                    /\ Aged(ps)[q].epoch = IF ps[q].epoch = inner'.epoch THEN inner'.epoch ELSE Past
        BY <1>4, AgedFacts
    <2>6. p.epoch = inner'.epoch /\ (p.probe <=> b.state = "half_open")
        BY <2>1
    <2>7. permit'[r] # None /\ permit'[r].epoch = inner'.epoch /\ permit'[r].probe = p.probe
        BY <2>2, <2>3, <2>4, <2>5, <2>6
    <2>8. permit'[r].probe <=> b.state = "half_open"
        BY <2>6, <2>7
    <2>9. permit' \in [Threads -> BreakerPermit \cup {None}]
        BY <2>4, <2>5
    <2>10. \A q \in Threads \ {r} :
             /\ permit'[q] = None <=> permit[q] = None
             /\ permit[q] # None =>
                  /\ permit'[q].probe = permit[q].probe
                  /\ permit'[q].epoch = IF permit[q].epoch = inner'.epoch THEN inner'.epoch ELSE Past
        <3>1. \A q \in Threads \ {r} : ps[q] = permit[q]
            BY <2>3
        <3> QED
            BY <2>4, <2>5, <3>1
    <2> QED
        BY <2>7, <2>8, <2>9, <2>10
<1>6. PICK base \in SUBSET fresh :
        /\ fresh' = base \cup {r} /\ base = (IF Moved(lag) THEN {} ELSE fresh)
    BY <1>2
<1>7. /\ \A q \in Threads \ {r} : permit[q] # None =>
           (q \in base <=> permit'[q].epoch = inner'.epoch) /\ permit'[q].epoch \in {inner'.epoch, Past}
      /\ \A q \in base : permit'[q].probe <=> b.state = "half_open"
      /\ b.state = "half_open" => b.probes_in_flight = Cardinality(base)
    <2>0. r \notin fresh /\ inner'.epoch # Past
        BY <1>0, <1>2, <1>4, ConfigAssumption DEF BreakerInner
    <2>1. CASE b = inner /\ ~LeaseOver(inner, lag)
        <3>1. base = fresh /\ inner'.epoch = inner.epoch
            BY <1>4, <1>6, <2>1 DEF Moved
        <3> QED
            BY <1>0, <1>5, <2>0, <2>1, <3>1 DEF FreshIsCurrent, FreshKind, EpochsAged, SlotsCounted
    <2>2. CASE /\ b.state = "half_open" /\ b.epoch = NextEpoch(inner) /\ b.probes_in_flight = 0
               /\ inner.state # b.state \/ LeaseOver(inner, lag)
        <3>1. base = {}
            BY <1>4, <1>6, <2>2 DEF Moved
        <3>2. inner'.epoch # inner.epoch
            BY <1>0, <1>4, <2>2, EpochMoves
        <3>3. \A q \in Threads \ {r} : permit[q] # None => permit[q].epoch # inner'.epoch
            BY <1>0, <2>0, <3>2 DEF EpochsAged
        <3> QED
            BY <1>5, <2>0, <2>2, <3>1, <3>3, FS_EmptySet
    <2> QED
        BY <1>1, <2>1, <2>2
<1>8. TypeOK'
    BY <1>0, <1>2, <1>4, <1>5, <1>6 DEF TypeOK
<1>9. FreshIsCurrent' /\ FreshKind' /\ EpochsAged'
    BY <1>0, <1>3, <1>4, <1>5, <1>6, <1>7 DEF FreshIsCurrent, FreshKind, EpochsAged
<1>10. SlotsCounted'
    <2>1. IsFiniteSet(base) /\ r \notin base
        BY <1>0, <1>2, <1>6, FS_Subset, ConfigAssumption
    <2>2. Cardinality(base \cup {r}) = Cardinality(base) + 1
        BY <2>1, FS_AddElement
    <2> QED
        BY <1>4, <1>6, <1>7, <2>2 DEF SlotsCounted
<1> QED
    BY <1>8, <1>9, <1>10 DEF BreakerInv

LEMMA BreakerStep == BreakerInv /\ [BreakerNext]_breakerVars => BreakerInv'
<1> SUFFICES ASSUME BreakerInv, [BreakerNext]_breakerVars PROVE BreakerInv'
    OBVIOUS
<1>1. CASE UNCHANGED breakerVars
    BY <1>1 DEF breakerVars, BreakerInv, TypeOK, FreshIsCurrent, FreshKind, EpochsAged, SlotsCounted
<1> QED
    BY <1>1, AdmitKeeps, FinishKeeps, DropKeeps, LookKeeps, TickKeeps DEF BreakerNext

-----------------------------------------------------------------------------
(* The theorems *)

\* The invariant holds in every state of every run.
THEOREM BreakerInvariant == BreakerSpec => []BreakerInv
<1>1. BreakerInit => BreakerInv
    <2> SUFFICES ASSUME BreakerInit PROVE BreakerInv
        OBVIOUS
    <2>1. NewCounts(0) \in CountsType
        BY ConfigAssumption DEF NewCounts, CountsType
    <2>2. inner \in BreakerInner /\ inner.state = "closed"
        BY <2>1, ConfigFacts DEF BreakerInit, BreakerInner
    <2> QED
        BY <2>2 DEF BreakerInit, BreakerInv, TypeOK, FreshIsCurrent, FreshKind, EpochsAged, SlotsCounted
<1> QED
    BY <1>1, BreakerStep, PTL DEF BreakerSpec

\* The breaker's fields keep their types, and at most half_open_probes probes
\* are in flight, for any number of threads.
THEOREM TypeCorrect == BreakerSpec => []TypeOK
BY BreakerInvariant, PTL DEF BreakerInv

\* No probe slot leaks and none is returned twice, however late or often
\* requests end, are dropped, or are overtaken by a transition or a lease.
THEOREM ProbesExact == BreakerSpec => []ProbeSlotsExact
<1>1. BreakerInv => ProbeSlotsExact
    <2> SUFFICES ASSUME BreakerInv, inner.state = "half_open"
                 PROVE  inner.probes_in_flight = Cardinality({r \in fresh : permit[r].probe})
        BY DEF ProbeSlotsExact
    <2>1. {r \in fresh : permit[r].probe} = fresh
        BY DEF BreakerInv, FreshKind
    <2> QED
        BY <2>1 DEF BreakerInv, SlotsCounted
<1> QED
    BY <1>1, BreakerInvariant, PTL

LEMMA StaleStep == BreakerInv /\ [BreakerNext]_breakerVars => [StaleResult]_breakerVars
<1> SUFFICES ASSUME BreakerInv, BreakerNext, NEW r \in Threads,
                    permit[r] # None, permit'[r] = None, r \notin fresh
             PROVE  \/ inner' = inner
                    \/ inner.state = "open" /\ inner'.state = "half_open"
                       /\ inner'.counts = inner.counts
    BY DEF StaleResult
<1>0. /\ inner \in BreakerInner /\ permit \in [Threads -> BreakerPermit \cup {None}]
      /\ FreshIsCurrent /\ BreakerInv'
    BY BreakerStep DEF BreakerInv, TypeOK
<1>1. ASSUME NEW q \in Threads, NEW ps \in [Threads -> BreakerPermit \cup {None}],
             permit' = Aged(ps), ps[q] # None
      PROVE  permit'[q] # None
    BY <1>0, <1>1, AgedFacts DEF BreakerInv, TypeOK
<1>2. ASSUME NEW q \in Threads, NEW lag \in Lags, admit(q, lag) PROVE FALSE
    <2>1. PICK b \in BreakerInner : b = Ready(inner, lag)
        BY <1>0, ReadyFacts
    <2>2. [probe |-> HasRoom(b), epoch |-> b.epoch] \in BreakerPermit
        BY DEF HasRoom, BreakerInner, BreakerPermit
    <2>3. PICK p \in BreakerPermit : p = [probe |-> HasRoom(b), epoch |-> b.epoch]
        BY <2>2
    <2>4. permit[q] = None /\ permit' = Aged([permit EXCEPT ![q] = p])
        BY <1>2, <2>1, <2>3 DEF admit
    <2>5. /\ [permit EXCEPT ![q] = p] \in [Threads -> BreakerPermit \cup {None}]
          /\ [permit EXCEPT ![q] = p][r] = permit[r]
        BY <1>0, <2>4
    <2>6. PICK ps \in [Threads -> BreakerPermit \cup {None}] :
            ps = [permit EXCEPT ![q] = p] /\ ps[r] = permit[r]
        BY <2>5
    <2>7. permit' = Aged(ps)
        BY <2>4, <2>6
    <2> QED
        BY <1>1, <2>6, <2>7
<1>3. ASSUME NEW q \in Threads, NEW outcome \in Outcomes, NEW lag \in Lags,
             Conclude(q, outcome, lag), q # r
      PROVE  FALSE
    <2>1. PICK ps \in [Threads -> BreakerPermit \cup {None}] :
            ps = [permit EXCEPT ![q] = None] /\ ps[r] = permit[r]
        <3>1. /\ [permit EXCEPT ![q] = None] \in [Threads -> BreakerPermit \cup {None}]
              /\ [permit EXCEPT ![q] = None][r] = permit[r]
            BY <1>0, <1>3
        <3> QED
            BY <3>1
    <2> QED
        BY <1>1, <1>3, <2>1 DEF Conclude
<1>4. ASSUME NEW outcome \in Outcomes, NEW lag \in Lags, Conclude(r, outcome, lag)
      PROVE  \/ inner' = inner
             \/ inner.state = "open" /\ inner'.state = "half_open" /\ inner'.counts = inner.counts
    <2>1. inner' = finish_permit(inner, permit[r], outcome, lag)
        BY <1>4 DEF Conclude
    <2>2. inner' = transition_if_cooled(inner, lag)
        BY <2>1, FinishFacts
    <2> QED
        BY <1>0, <2>2, CoolFacts
<1>5. ASSUME NEW q \in Threads, Drop(q) PROVE inner' = inner
    <2>1. q = r
        BY <1>0, <1>5 DEF Drop
    <2>2. ~Counts(inner, permit[r])
        BY <1>0 DEF Counts, FreshIsCurrent
    <2> QED
        BY <1>5, <2>1, <2>2 DEF Drop
<1>6. ASSUME NEW lag \in Lags, Glance(lag) PROVE FALSE
    <2>1. PICK ps \in [Threads -> BreakerPermit \cup {None}] : ps = permit
        BY <1>0
    <2> QED
        BY <1>1, <1>6, <2>1 DEF Glance
<1>7. CASE Tick
    BY <1>7 DEF Tick
<1> QED
    BY <1>2, <1>3, <1>4, <1>5, <1>6, <1>7 DEF BreakerNext

\* The end of a request admitted before the last transition or reclaim changes
\* nothing that admits, counts, opens or closes, for any interleaving.
THEOREM StaleIgnored == BreakerSpec => StaleResultsIgnored
BY BreakerInvariant, StaleStep, PTL DEF BreakerSpec, StaleResultsIgnored
=============================================================================
