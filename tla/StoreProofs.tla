---------------------------- MODULE StoreProofs -----------------------------
(***************************************************************************)
(* What a power loss may do to the store, for any number of appends and    *)
(* any of the faults but a failed reset of the log, which the run          *)
(* store_reset shows to break it.                                          *)
(***************************************************************************)
EXTENDS Store, SequenceTheorems, WellFoundedInduction, TLAPS

Cell == [seq : Nat, kind : Kinds \cup {"torn", "zero", "none"}, id : Nat, link : Seq(Nat)]
SnapshotType == [seq : Nat, head : Seq(Nat), covers : Seq(Nat)]

\* A log without a flaw: frames only, and each sequence above those before it.
Ascending(b) ==
  /\ \A i \in DOMAIN b : IsFrame(b[i])
  /\ \A i, j \in DOMAIN b : i < j => b[i].seq < b[j].seq

\* What may be appended to it.
Follows(f, b) == f \in Cell /\ IsFrame(f) /\ \A i \in DOMAIN b : b[i].seq < f.seq

-----------------------------------------------------------------------------
(* Replay *)

LEMMA Least ==
  ASSUME NEW T, T \subseteq Nat, T # {}
  PROVE  \E x \in T : \A y \in T : x <= y
<1> DEFINE R == {p \in Nat \X Nat : p[1] < p[2]}
<1>1. IsWellFoundedOn(R, Nat)
  BY NatLessThanWellFounded DEF OpToRel
<1>2. PICK x \in T : \A y \in T : ~(<<y, x>> \in R)
  <2> HIDE DEF R
  <2> QED BY <1>1, WFMin
<1>3. \A y \in T : x <= y
  <2> TAKE y \in T
  <2>1. <<y, x>> \in R <=> y < x
    BY DEF R
  <2> QED BY <1>2, <2>1
<1> QED BY <1>3

LEMMA ConcatAppend ==
  ASSUME NEW p \in Seq(Nat), NEW t \in Seq(Nat), NEW x \in Nat
  PROVE  p \o Append(t, x) = Append(p \o t, x)
<1> DEFINE l == p \o Append(t, x)  r == Append(p \o t, x)
<1>1. l \in Seq(Nat) /\ r \in Seq(Nat) /\ Len(l) = Len(p) + Len(t) + 1 /\ Len(r) = Len(p) + Len(t) + 1
  OBVIOUS
<1>2. ASSUME NEW i \in 1 .. Len(p) + Len(t) + 1 PROVE l[i] = r[i]
  OBVIOUS
<1> HIDE DEF l, r
<1>3. l = r
  BY <1>1, <1>2, SeqEqual
<1> QED BY <1>3 DEF l, r

LEMMA CellFields ==
  ASSUME NEW b \in Seq(Cell)
  PROVE  \A i \in DOMAIN b : b[i] \in Cell /\ b[i].seq \in Nat /\ b[i].id \in Nat /\ b[i].link \in Seq(Nat)
<1>1. \A i \in DOMAIN b : b[i] \in Cell
  OBVIOUS
<1> QED BY <1>1 DEF Cell

LEMMA Neighbours ==
  ASSUME NEW b \in Seq(Cell), Ascending(b)
  PROVE  \A i \in DOMAIN b : i > 1 => ~(b[i].seq <= b[i - 1].seq)
<1> SUFFICES ASSUME NEW i \in DOMAIN b, i > 1
             PROVE  ~(b[i].seq <= b[i - 1].seq)
  OBVIOUS
<1>1. i - 1 \in DOMAIN b /\ i - 1 < i
  OBVIOUS
<1>2. b[i] \in Cell /\ b[i - 1] \in Cell
  BY <1>1
<1>3. b[i - 1].seq < b[i].seq
  BY <1>1 DEF Ascending
<1> QED BY <1>2, <1>3 DEF Cell

LEMMA Greatest ==
  ASSUME NEW n \in Nat, NEW A, A \subseteq 0 .. n, A # {}
  PROVE  Max(A) \in A /\ \A y \in A : y <= Max(A)
<1> DEFINE T == {n - y : y \in A}
<1>1. T \subseteq Nat /\ T # {}
  <2>1. \A y \in A : n - y \in Nat
    OBVIOUS
  <2> QED BY <2>1
<1>2. PICK z \in T : \A w \in T : z <= w
  <2> HIDE DEF T
  <2> QED BY <1>1, Least
<1>3. PICK x \in A : z = n - x
  OBVIOUS
<1>4. ASSUME NEW y \in A PROVE x >= y
  <2>1. n - y \in T
    OBVIOUS
  <2>2. z <= n - y
    BY <1>2, <2>1
  <2> QED BY <1>3, <2>2
<1>5. \E m \in A : \A y \in A : m >= y
  BY <1>4
<1>6. Max(A) \in A /\ \A y \in A : Max(A) >= y
  <2> HIDE DEF T
  <2> QED BY <1>5 DEF Max
<1> QED BY <1>6

\* A flawless log replays whole.
LEMMA ReplayWhole ==
  ASSUME NEW b \in Seq(Cell), Ascending(b)
  PROVE  FirstBad(b) = Len(b) + 1 /\ ValidPrefix(b) = b /\ Startable(b)
<1>1. Flaws(b) = {}
  BY Neighbours DEF Ascending, Flaws
<1>2. FirstBad(b) = Len(b) + 1
  BY <1>1 DEF FirstBad
<1>3. ValidPrefix(b) = b
  BY <1>2, SubSeqFull DEF ValidPrefix
<1>4. ReplayOutcome(b) = "ok"
  BY <1>2 DEF ReplayOutcome
<1> QED BY <1>2, <1>3, <1>4 DEF Startable

LEMMA TornIsNoFrame == Torn \in Cell /\ ~IsFrame(Torn) /\ Torn # Zero
<1>1. <<>> \in Seq(Nat)
  OBVIOUS
<1> QED BY <1>1 DEF Torn, Zero, Frame, Cell, IsFrame, Kinds

\* With the torn beginning of a frame behind it, it replays up to there.
LEMMA ReplayTorn ==
  ASSUME NEW b \in Seq(Cell), Ascending(b)
  PROVE  ValidPrefix(Append(b, Torn)) = b /\ Startable(Append(b, Torn))
<1> DEFINE c == Append(b, Torn)
<1>1. c \in Seq(Cell) /\ Len(c) = Len(b) + 1 /\ c[Len(b) + 1] = Torn /\ \A i \in 1 .. Len(b) : c[i] = b[i]
  BY TornIsNoFrame
<1>2. Flaws(c) = {Len(b) + 1}
  <2>1. \A i \in 1 .. Len(b) : IsFrame(c[i]) /\ (i > 1 => ~(c[i].seq <= c[i - 1].seq))
    <3> SUFFICES ASSUME NEW i \in 1 .. Len(b)
                 PROVE  IsFrame(c[i]) /\ (i > 1 => ~(c[i].seq <= c[i - 1].seq))
      OBVIOUS
    <3>1. i \in DOMAIN b /\ c[i] = b[i] /\ (i > 1 => c[i - 1] = b[i - 1])
      BY <1>1
    <3> HIDE DEF c
    <3> QED BY <3>1, Neighbours DEF Ascending
  <2>2. ~IsFrame(c[Len(b) + 1])
    BY <1>1, TornIsNoFrame
  <2>3. DOMAIN c = 1 .. Len(b) + 1
    BY <1>1
  <2> HIDE DEF c
  <2> QED BY <2>1, <2>2, <2>3 DEF Flaws
<1>3. FirstBad(c) = Len(b) + 1
  <2> HIDE DEF c
  <2>1. \E i \in Flaws(c) : \A j \in Flaws(c) : i <= j
    BY <1>2
  <2>2. FirstBad(c) \in Flaws(c)
    BY <1>2, <2>1 DEF FirstBad, Min
  <2> QED BY <1>2, <2>2
<1>4. ValidPrefix(c) = b
  <2>1. ValidPrefix(c) = SubSeq(c, 1, Len(b))
    BY <1>3 DEF ValidPrefix
  <2> QED BY <2>1, <1>1
<1>5. ReplayOutcome(c) = "torn"
  <2>1. ~IsFrame(c[Len(b) + 1]) /\ c[Len(b) + 1] # Zero
    BY <1>1, TornIsNoFrame
  <2>2. Len(c) = Len(b) + 1 /\ Len(b) \in Nat
    BY <1>1
  <2> HIDE DEF c
  <2> QED BY <1>3, <2>1, <2>2 DEF ReplayOutcome
<1> QED BY <1>4, <1>5 DEF Startable

LEMMA AppendAscends ==
  ASSUME NEW b \in Seq(Cell), Ascending(b), NEW f, Follows(f, b)
  PROVE  Append(b, f) \in Seq(Cell) /\ Ascending(Append(b, f))
<1>1. f \in Cell /\ IsFrame(f)
  BY DEF Follows
<1>2. /\ Append(b, f) \in Seq(Cell) /\ DOMAIN Append(b, f) = 1 .. Len(b) + 1
      /\ Append(b, f)[Len(b) + 1] = f /\ \A i \in DOMAIN b : Append(b, f)[i] = b[i]
  BY <1>1
<1>3. \A i \in 1 .. Len(b) + 1 : i \in DOMAIN b \/ i = Len(b) + 1
  OBVIOUS
<1>4. \A i \in DOMAIN Append(b, f) : IsFrame(Append(b, f)[i])
  BY <1>1, <1>2, <1>3 DEF Ascending
<1>5. ASSUME NEW i \in DOMAIN Append(b, f), NEW j \in DOMAIN Append(b, f), i < j
      PROVE  Append(b, f)[i].seq < Append(b, f)[j].seq
  <2>1. i \in DOMAIN b
    BY <1>2, <1>5
  <2>2. CASE j \in DOMAIN b
    BY <1>2, <1>5, <2>1, <2>2 DEF Ascending
  <2>3. CASE j = Len(b) + 1
    BY <1>2, <2>1, <2>3 DEF Follows
  <2> QED BY <1>2, <1>3, <2>2, <2>3
<1> QED BY <1>2, <1>4, <1>5 DEF Ascending
-----------------------------------------------------------------------------
(* The frames past a sequence *)

LEMMA PastIs ==
  ASSUME NEW b \in Seq(Cell), NEW q \in Nat, NEW k \in 1 .. Len(b) + 1,
         \A i \in DOMAIN b : b[i].seq > q <=> i >= k
  PROVE  FirstPast(q, b) = k
<1> DEFINE P(m) == \A i \in DOMAIN b : b[i].seq > q <=> i >= m
<1>1. \E m \in 1 .. Len(b) + 1 : P(m)
  OBVIOUS
<1>2. FirstPast(q, b) \in 1 .. Len(b) + 1 /\ P(FirstPast(q, b))
  BY <1>1 DEF FirstPast
<1>3. ASSUME NEW m \in 1 .. Len(b) + 1, P(m)
      PROVE  m = k
  <2>1. CASE m < k
    <3>1. m \in DOMAIN b
      BY <2>1
    <3> QED BY <1>3, <2>1, <3>1
  <2>2. CASE m > k
    <3>1. k \in DOMAIN b
      BY <2>2
    <3> QED BY <1>3, <2>2, <3>1
  <2> QED BY <2>1, <2>2
<1> HIDE DEF P
<1> QED BY <1>2, <1>3

LEMMA PastExists ==
  ASSUME NEW b \in Seq(Cell), Ascending(b), NEW q \in Nat
  PROVE  /\ FirstPast(q, b) \in 1 .. Len(b) + 1
         /\ \A i \in DOMAIN b : b[i].seq > q <=> i >= FirstPast(q, b)
<1> DEFINE T == {i \in DOMAIN b : b[i].seq > q} \cup {Len(b) + 1}
<1>1. T \subseteq Nat /\ T # {}
  OBVIOUS
<1>2. PICK k \in T : \A y \in T : k <= y
  <2> HIDE DEF T
  <2> QED BY <1>1, Least
<1>3. k \in 1 .. Len(b) + 1
  OBVIOUS
<1>4. ASSUME NEW i \in DOMAIN b
      PROVE  b[i].seq > q <=> i >= k
  <2>1. b[i].seq > q => i >= k
    BY <1>2
  <2>2. CASE i > k
    <3>1. k \in DOMAIN b /\ b[k].seq > q
      BY <2>2
    <3>2. b[k].seq < b[i].seq
      BY <2>2, <3>1 DEF Ascending
    <3>3. b[k] \in Cell /\ b[i] \in Cell
      BY <3>1
    <3> QED BY <2>2, <3>1, <3>2, <3>3 DEF Cell
  <2>3. CASE i = k
    BY <2>3
  <2> QED BY <2>1, <2>2, <2>3, <1>3
<1>5. FirstPast(q, b) = k
  <2> HIDE DEF T
  <2> QED BY <1>3, <1>4, PastIs
<1> QED BY <1>3, <1>4, <1>5

LEMMA LaterType ==
  ASSUME NEW b \in Seq(Cell), Ascending(b), NEW q \in Nat
  PROVE  Later(q, b) \in Seq(Cell)
BY PastExists, SubSeqProperties DEF Later

LEMMA LaterNone ==
  ASSUME NEW b \in Seq(Cell), NEW q \in Nat, \A i \in DOMAIN b : b[i].seq <= q
  PROVE  Later(q, b) = <<>>
<1>1. \A i \in DOMAIN b : b[i].seq > q <=> i >= Len(b) + 1
  <2>1. \A i \in DOMAIN b : b[i].seq \in Nat /\ ~(i >= Len(b) + 1)
    BY CellFields
  <2> QED BY <2>1
<1>2. FirstPast(q, b) = Len(b) + 1
  BY <1>1, PastIs
<1> QED BY <1>2, SubSeqEmpty DEF Later

LEMMA LaterAppend ==
  ASSUME NEW b \in Seq(Cell), Ascending(b), NEW f, Follows(f, b), NEW q \in Nat
  PROVE  Later(q, Append(b, f)) = IF f.seq > q THEN Append(Later(q, b), f) ELSE Later(q, b)
<1> DEFINE c == Append(b, f)
<1>1. f \in Cell /\ f.seq \in Nat
  BY DEF Follows, Cell
<1>2. /\ c \in Seq(Cell) /\ Len(c) = Len(b) + 1 /\ DOMAIN c = 1 .. Len(b) + 1
      /\ c[Len(b) + 1] = f /\ \A i \in 1 .. Len(b) : c[i] = b[i]
  BY <1>1
<1>3. CASE f.seq > q
  <2> DEFINE k == FirstPast(q, b)
  <2>1. k \in 1 .. Len(b) + 1 /\ \A i \in DOMAIN b : b[i].seq > q <=> i >= k
    BY PastExists
  <2>2. \A i \in DOMAIN c : c[i].seq > q <=> i >= k
    <3> HIDE DEF c, k
    <3> SUFFICES ASSUME NEW i \in 1 .. Len(b) + 1
                 PROVE  c[i].seq > q <=> i >= k
      BY <1>2
    <3>1. CASE i = Len(b) + 1
      BY <1>2, <1>3, <2>1, <3>1
    <3>2. CASE i \in 1 .. Len(b)
      BY <1>2, <2>1, <3>2
    <3> QED BY <3>1, <3>2
  <2>3. FirstPast(q, c) = k
    <3> HIDE DEF c, k
    <3>1. k \in 1 .. Len(c) + 1
      BY <1>2, <2>1
    <3> QED BY <1>2, <2>2, <3>1, PastIs
  <2>4. SubSeq(c, k, Len(b) + 1) = Append(SubSeq(b, k, Len(b)), f)
    <3> HIDE DEF k
    <3> QED BY <1>1, <2>1
  <2> QED BY <1>2, <1>3, <2>3, <2>4 DEF Later
<1>4. CASE ~(f.seq > q)
  <2>1. \A i \in DOMAIN b : b[i].seq <= q
    <3>1. \A i \in DOMAIN b : b[i].seq \in Nat /\ b[i].seq < f.seq
      BY CellFields DEF Follows
    <3> QED BY <1>1, <1>4, <3>1
  <2>2. \A i \in DOMAIN c : c[i].seq <= q
    <3> HIDE DEF c
    <3> SUFFICES ASSUME NEW i \in 1 .. Len(b) + 1
                 PROVE  c[i].seq <= q
      BY <1>2
    <3> QED BY <1>1, <1>2, <1>4, <2>1
  <2>3. Later(q, c) = <<>> /\ Later(q, b) = <<>>
    <3> HIDE DEF c
    <3> QED BY <1>2, <2>1, <2>2, LaterNone
  <2> QED BY <1>4, <2>3
<1> QED BY <1>3, <1>4
-----------------------------------------------------------------------------
(* What a start recovers *)

\* One frame more on disk.
LEMMA RecoverAppend ==
  ASSUME NEW b \in Seq(Cell), Ascending(b), NEW f, Follows(f, b), NEW s \in SnapshotType
  PROVE  /\ Recovered(s, Append(b, f)) = IF f.seq > s.seq THEN Append(Recovered(s, b), f.id) ELSE Recovered(s, b)
         /\ RecoveredHead(s, Append(b, f)) =
              IF f.seq > s.seq /\ f.kind = "audit" THEN link_of(f) ELSE RecoveredHead(s, b)
         /\ ChainBroken(s, Append(b, f)) <=>
              \/ ChainBroken(s, b)
              \/ f.seq > s.seq /\ f.kind = "audit" /\ f.link # RecoveredHead(s, b)
<1> DEFINE c == Append(b, f)  old == Later(s.seq, b)  new == Later(s.seq, c)
<1>0. f \in Cell /\ s.seq \in Nat /\ s.covers \in Seq(Nat) /\ f.id \in Nat
  BY DEF Follows, Cell, SnapshotType
<1>1. /\ RecoveredFrames(s, b) = old /\ old \in Seq(Cell)
      /\ RecoveredFrames(s, c) = new /\ new = IF f.seq > s.seq THEN Append(old, f) ELSE old
  <2>1. ValidPrefix(b) = b /\ ValidPrefix(c) = c
    BY AppendAscends, ReplayWhole
  <2> QED BY <1>0, <2>1, LaterType, LaterAppend DEF RecoveredFrames
<1>2. CASE ~(f.seq > s.seq)
  <2>1. RecoveredFrames(s, c) = RecoveredFrames(s, b)
    BY <1>1, <1>2
  <2> QED BY <1>2, <2>1 DEF Recovered, RecoveredHead, ChainBroken
<1>3. CASE f.seq > s.seq
  <2> DEFINE n == Len(old)
  <2>1. /\ new = Append(old, f) /\ Len(new) = n + 1 /\ new[n + 1] = f
        /\ DOMAIN new = 1 .. n + 1 /\ DOMAIN old = 1 .. n
        /\ \A i \in 1 .. n : new[i] = old[i]
    <3> HIDE DEF old, new
    <3> QED BY <1>0, <1>1, <1>3
  <2>2. Recovered(s, c) = Append(Recovered(s, b), f.id)
    <3> HIDE DEF old, new, c
    <3>1. Ids(new) = Append(Ids(old), f.id)
      <4>1. \A i \in 1 .. n : old[i].id \in Nat
        BY <1>1, <2>1, CellFields
      <4>2. Ids(old) \in Seq(Nat) /\ Len(Ids(old)) = n /\ \A i \in 1 .. n : Ids(old)[i] = old[i].id
        BY <4>1, <1>1 DEF Ids
      <4>3. Append(Ids(old), f.id) = [i \in 1 .. n + 1 |-> IF i <= n THEN old[i].id ELSE f.id]
        BY <4>2, <1>0
      <4>4. Ids(new) = [i \in 1 .. n + 1 |-> new[i].id]
        BY <2>1 DEF Ids
      <4> QED BY <4>3, <4>4, <2>1
    <3>2. Ids(old) \in Seq(Nat)
      <4>1. \A i \in 1 .. n : old[i].id \in Nat
        BY <1>1, <2>1, CellFields
      <4> QED BY <4>1, <1>1 DEF Ids
    <3>3. s.covers \o Append(Ids(old), f.id) = Append(s.covers \o Ids(old), f.id)
      BY <1>0, <3>2, ConcatAppend
    <3> QED BY <1>1, <3>1, <3>3 DEF Recovered
  <2>3. \A i \in 0 .. n : ChainHead(s.head, new, i) = ChainHead(s.head, old, i)
    <3> HIDE DEF old, new
    <3> SUFFICES ASSUME NEW i \in 0 .. n
                 PROVE  ChainHead(s.head, new, i) = ChainHead(s.head, old, i)
      OBVIOUS
    <3>1. {j \in 1 .. i : new[j].kind = "audit"} = {j \in 1 .. i : old[j].kind = "audit"}
      BY <2>1
    <3> DEFINE A == {j \in 1 .. i : old[j].kind = "audit"}
    <3>2. ASSUME A # {} PROVE new[Max(A)] = old[Max(A)]
      <4>1. A \subseteq 0 .. i /\ i \in Nat
        BY <1>1
      <4>2. Max(A) \in A
        <5> HIDE DEF A
        <5> QED BY <3>2, <4>1, Greatest
      <4> QED BY <2>1, <4>2
    <3> QED BY <3>1, <3>2 DEF ChainHead
  <2>4. ChainHead(s.head, new, n + 1) = IF f.kind = "audit" THEN link_of(f) ELSE ChainHead(s.head, old, n)
    <3> HIDE DEF old, new
    <3>1. CASE f.kind = "audit"
      <4> DEFINE A == {j \in 1 .. n + 1 : new[j].kind = "audit"}
      <4>1. n + 1 \in A /\ \A y \in A : y <= n + 1
        BY <1>1, <2>1, <3>1
      <4>2. \A x \in A : (\A y \in A : y <= x) => x = n + 1
        BY <4>1
      <4>3. A \subseteq 0 .. n + 1 /\ A # {} /\ n + 1 \in Nat
        BY <1>1, <4>1
      <4>4. Max(A) = n + 1
        <5> HIDE DEF A
        <5> QED BY <4>1, <4>2, <4>3, Greatest
      <4> QED BY <2>1, <3>1, <4>1, <4>4 DEF ChainHead
    <3>2. CASE f.kind # "audit"
      <4>1. {j \in 1 .. n + 1 : new[j].kind = "audit"} = {j \in 1 .. n : new[j].kind = "audit"}
        BY <1>1, <2>1, <3>2
      <4>2. ChainHead(s.head, new, n + 1) = ChainHead(s.head, new, n)
        BY <4>1 DEF ChainHead
      <4> QED BY <1>1, <2>3, <3>2, <4>2
    <3> QED BY <3>1, <3>2
  <2>5. RecoveredHead(s, c) = IF f.kind = "audit" THEN link_of(f) ELSE RecoveredHead(s, b)
    <3> HIDE DEF old, new, c
    <3> QED BY <1>1, <2>1, <2>4 DEF RecoveredHead
  <2>6. ChainBroken(s, c) <=> ChainBroken(s, b) \/ (f.kind = "audit" /\ f.link # RecoveredHead(s, b))
    <3> HIDE DEF old, new, c
    <3> DEFINE B(fr, i) == fr[i].kind = "audit" /\ fr[i].link # ChainHead(s.head, fr, i - 1)
    <3>1. ChainBroken(s, c) <=> \E i \in 1 .. n + 1 : B(new, i)
      BY <1>1, <2>1 DEF ChainBroken
    <3>2. ChainBroken(s, b) <=> \E i \in 1 .. n : B(old, i)
      BY <1>1, <2>1 DEF ChainBroken
    <3>3. \A i \in 1 .. n : B(new, i) <=> B(old, i)
      <4> SUFFICES ASSUME NEW i \in 1 .. n PROVE B(new, i) <=> B(old, i)
        OBVIOUS
      <4>1. i - 1 \in 0 .. n
        BY <1>1
      <4> QED BY <2>1, <2>3, <4>1
    <3>4. B(new, n + 1) <=> f.kind = "audit" /\ f.link # RecoveredHead(s, b)
      <4>1. n \in 0 .. n /\ n + 1 - 1 = n
        BY <1>1
      <4>2. ChainHead(s.head, new, n + 1 - 1) = RecoveredHead(s, b)
        BY <1>1, <2>3, <4>1 DEF RecoveredHead
      <4> QED BY <2>1, <4>2
    <3>5. n \in Nat
      BY <1>1
    <3> HIDE DEF B, n
    <3>6. (\E i \in 1 .. n + 1 : B(new, i)) <=> (\E i \in 1 .. n : B(new, i)) \/ B(new, n + 1)
      BY <3>5
    <3> QED BY <3>1, <3>2, <3>3, <3>4, <3>6
  <2> QED BY <1>3, <2>2, <2>5, <2>6
<1> QED BY <1>2, <1>3
LEMMA RecoverTorn ==
  ASSUME NEW b \in Seq(Cell), Ascending(b), NEW s \in SnapshotType
  PROVE  /\ Recovered(s, Append(b, Torn)) = Recovered(s, b)
         /\ ChainBroken(s, Append(b, Torn)) <=> ChainBroken(s, b)
<1>1. ValidPrefix(Append(b, Torn)) = b /\ ValidPrefix(b) = b
  BY ReplayTorn, ReplayWhole
<1>2. RecoveredFrames(s, Append(b, Torn)) = RecoveredFrames(s, b)
  BY <1>1 DEF RecoveredFrames
<1> QED BY <1>2 DEF Recovered, ChainBroken

LEMMA IdsType ==
  ASSUME NEW b \in Seq(Cell)
  PROVE  Ids(b) \in Seq(Nat)
<1>1. \A i \in 1 .. Len(b) : b[i].id \in Nat
  BY CellFields
<1> QED BY <1>1 DEF Ids

\* A snapshot that covers the whole log is all that counts.
LEMMA RecoverCovered ==
  ASSUME NEW b \in Seq(Cell), Ascending(b), NEW s \in SnapshotType, \A i \in DOMAIN b : b[i].seq <= s.seq
  PROVE  Recovered(s, b) = s.covers /\ RecoveredHead(s, b) = s.head /\ ~ChainBroken(s, b)
<1>1. s.seq \in Nat /\ s.covers \in Seq(Nat)
  BY DEF SnapshotType
<1>2. RecoveredFrames(s, b) = <<>>
  BY <1>1, ReplayWhole, LaterNone DEF RecoveredFrames
<1>3. Ids(<<>>) = <<>>
  BY DEF Ids
<1>4. Recovered(s, b) = s.covers
  BY <1>1, <1>2, <1>3 DEF Recovered
<1>5. ChainHead(s.head, <<>>, 0) = s.head
  BY DEF ChainHead
<1>6. RecoveredHead(s, b) = s.head
  BY <1>2, <1>5 DEF RecoveredHead
<1>7. ~ChainBroken(s, b)
  BY <1>2 DEF ChainBroken
<1> QED BY <1>4, <1>6, <1>7

LEMMA RecoverType ==
  ASSUME NEW b \in Seq(Cell), Ascending(b), NEW s \in SnapshotType
  PROVE  Recovered(s, b) \in Seq(Nat) /\ RecoveredHead(s, b) \in Seq(Nat)
<1> DEFINE fr == Later(s.seq, b)
<1>1. s.seq \in Nat /\ s.covers \in Seq(Nat) /\ s.head \in Seq(Nat)
  BY DEF SnapshotType
<1>2. RecoveredFrames(s, b) = fr /\ fr \in Seq(Cell)
  BY <1>1, ReplayWhole, LaterType DEF RecoveredFrames
<1> HIDE DEF fr
<1>3. Recovered(s, b) \in Seq(Nat)
  BY <1>1, <1>2, IdsType DEF Recovered
<1>4. ChainHead(s.head, fr, Len(fr)) \in Seq(Nat)
  <2> DEFINE A == {i \in 1 .. Len(fr) : fr[i].kind = "audit"}
  <2>1. ASSUME A # {} PROVE link_of(fr[Max(A)]) \in Seq(Nat)
    <3>1. A \subseteq 0 .. Len(fr) /\ Len(fr) \in Nat
      BY <1>2
    <3>2. Max(A) \in A
      <4> HIDE DEF A
      <4> QED BY <2>1, <3>1, Greatest
    <3>3. fr[Max(A)].link \in Seq(Nat) /\ fr[Max(A)].id \in Nat
      <4>1. Max(A) \in DOMAIN fr
        BY <1>2, <3>2
      <4> QED BY <1>2, <4>1, CellFields
    <3> QED BY <3>3 DEF link_of
  <2> QED BY <1>1, <2>1 DEF ChainHead
<1>5. RecoveredHead(s, b) \in Seq(Nat)
  BY <1>2, <1>4 DEF RecoveredHead
<1> QED BY <1>3, <1>5

LEMMA RecoverSequence ==
  ASSUME NEW b \in Seq(Cell), Ascending(b), NEW s \in SnapshotType
  PROVE  /\ MaxRecovered(s, b) \in Nat /\ s.seq <= MaxRecovered(s, b)
         /\ \A i \in DOMAIN b : b[i].seq <= MaxRecovered(s, b)
<1> DEFINE fr == Later(s.seq, b)  k == FirstPast(s.seq, b)
<1>1. s.seq \in Nat
  BY DEF SnapshotType
<1>2. RecoveredFrames(s, b) = fr
  BY <1>1, ReplayWhole DEF RecoveredFrames
<1>3. k \in 1 .. Len(b) + 1 /\ \A i \in DOMAIN b : b[i].seq > s.seq <=> i >= k
  BY <1>1, PastExists
<1>4. \A i \in DOMAIN b : b[i].seq \in Nat
  BY CellFields
<1>5. CASE k = Len(b) + 1
  <2>1. fr = <<>>
    BY <1>5, SubSeqEmpty DEF Later
  <2>2. \A i \in DOMAIN b : ~(i >= k)
    BY <1>5
  <2>3. \A i \in DOMAIN b : b[i].seq <= s.seq
    BY <1>1, <1>3, <1>4, <2>2
  <2> QED BY <1>1, <1>2, <2>1, <2>3 DEF MaxRecovered
<1>6. CASE k # Len(b) + 1
  <2> DEFINE n == Len(b)
  <2>1. n \in DOMAIN b /\ n >= k
    BY <1>3, <1>6
  <2>2. fr # <<>> /\ Len(fr) = n - k + 1 /\ fr[Len(fr)] = b[n]
    <3>1. fr = SubSeq(b, k, n)
      BY DEF Later
    <3> HIDE DEF fr, k
    <3>2. k \in 1 .. n /\ n \in 1 .. Len(b)
      BY <1>3, <2>1
    <3>3. Len(fr) = n - k + 1 /\ \A i \in 1 .. n - k + 1 : fr[i] = b[k + i - 1]
      BY <3>1, <3>2, SubSeqProperties
    <3>4. n - k + 1 \in 1 .. n - k + 1 /\ k + (n - k + 1) - 1 = n
      BY <3>2
    <3> HIDE DEF n
    <3>5. fr[n - k + 1] = b[n]
      BY <3>3, <3>4
    <3> QED BY <3>2, <3>3, <3>5
  <2>3. MaxRecovered(s, b) = b[n].seq
    <3> HIDE DEF fr, k, n
    <3> QED BY <1>2, <2>2 DEF MaxRecovered
  <2>4. \A i \in DOMAIN b : i = n \/ i < n
    OBVIOUS
  <2>5. \A i \in DOMAIN b : b[i].seq <= b[n].seq
    <3> HIDE DEF n
    <3> QED BY <1>4, <2>1, <2>4 DEF Ascending
  <2>6. b[n].seq > s.seq /\ b[n].seq \in Nat
    <3> HIDE DEF n, k
    <3> QED BY <1>3, <1>4, <2>1
  <2> HIDE DEF n
  <2> QED BY <1>1, <2>3, <2>5, <2>6
<1> QED BY <1>5, <1>6
\* Every checkpoint the snapshot does not cover carries the head of the chain.
CheckpointsTrue(s, b) ==
  \A i \in DOMAIN b : b[i].kind = "checkpoint" /\ b[i].seq > s.seq => b[i].link = RecoveredHead(s, SubSeq(b, 1, i))
Sound(s, b) == ~ChainBroken(s, b) /\ CheckpointsTrue(s, b)

LEMMA SoundCovered ==
  ASSUME NEW b \in Seq(Cell), Ascending(b), NEW s \in SnapshotType, \A i \in DOMAIN b : b[i].seq <= s.seq
  PROVE  Sound(s, b)
<1>1. s.seq \in Nat /\ \A i \in DOMAIN b : b[i].seq \in Nat
  BY CellFields DEF SnapshotType
<1>2. \A i \in DOMAIN b : ~(b[i].seq > s.seq)
  BY <1>1
<1>3. CheckpointsTrue(s, b)
  BY <1>2 DEF CheckpointsTrue
<1> QED BY <1>3, RecoverCovered DEF Sound

LEMMA SoundAppend ==
  ASSUME NEW b \in Seq(Cell), Ascending(b), NEW s \in SnapshotType, Sound(s, b), NEW f, Follows(f, b),
         f.kind # "plain" => f.link = RecoveredHead(s, b)
  PROVE  Sound(s, Append(b, f))
<1> DEFINE c == Append(b, f)
<1>0. f \in Cell /\ IsFrame(f)
  BY DEF Follows
<1>1. ~ChainBroken(s, c)
  <2>1. f.kind = "audit" => f.link = RecoveredHead(s, b)
    OBVIOUS
  <2>2. ~ChainBroken(s, b)
    BY DEF Sound
  <2> QED BY <2>1, <2>2, RecoverAppend
<1>2. /\ DOMAIN c = 1 .. Len(b) + 1 /\ DOMAIN b = 1 .. Len(b) /\ c[Len(b) + 1] = f /\ \A i \in 1 .. Len(b) : c[i] = b[i]
      /\ SubSeq(c, 1, Len(b) + 1) = c /\ \A i \in 1 .. Len(b) : SubSeq(c, 1, i) = SubSeq(b, 1, i)
  <2>1. c \in Seq(Cell) /\ Len(c) = Len(b) + 1
    BY <1>0
  <2>2. SubSeq(c, 1, Len(b) + 1) = c
    BY <2>1, SubSeqFull
  <2>3. ASSUME NEW i \in 1 .. Len(b) PROVE SubSeq(c, 1, i) = SubSeq(b, 1, i)
    BY <1>0
  <2> QED BY <1>0, <2>1, <2>2, <2>3
<1>3. f.kind = "checkpoint" => f.link = RecoveredHead(s, c)
  <2>1. f.kind = "checkpoint" => f.kind # "audit" /\ f.kind # "plain"
    OBVIOUS
  <2> QED BY <2>1, RecoverAppend
<1>4. CheckpointsTrue(s, c)
  <2> HIDE DEF c
  <2>1. \A i \in 1 .. Len(b) + 1 : i \in 1 .. Len(b) \/ i = Len(b) + 1
    OBVIOUS
  <2> SUFFICES ASSUME NEW i \in 1 .. Len(b) + 1, c[i].kind = "checkpoint", c[i].seq > s.seq
               PROVE  c[i].link = RecoveredHead(s, SubSeq(c, 1, i))
    BY <1>2 DEF CheckpointsTrue
  <2>2. CASE i = Len(b) + 1
    BY <1>2, <1>3, <2>2
  <2>3. CASE i \in 1 .. Len(b)
    <3>1. b[i].kind = "checkpoint" /\ b[i].seq > s.seq /\ i \in DOMAIN b /\ c[i] = b[i]
      BY <1>2, <2>3
    <3>2. b[i].link = RecoveredHead(s, SubSeq(b, 1, i))
      BY <3>1 DEF Sound, CheckpointsTrue
    <3> QED BY <1>2, <2>3, <3>1, <3>2
  <2> QED BY <2>1, <2>2, <2>3
<1> QED BY <1>1, <1>4 DEF Sound

\* What a log that is b, possibly with one cell more, gives a start.
Fits(f, b, link) == Follows(f, b) /\ (f.kind # "plain" => f.link = link)

LEMMA ImageFound ==
  ASSUME NEW b \in Seq(Cell), Ascending(b), NEW s \in SnapshotType, Sound(s, b), NEW cells,
         cells = b \/ cells = Append(b, Torn) \/ \E f : cells = Append(b, f) /\ Fits(f, b, RecoveredHead(s, b))
  PROVE  /\ Startable(cells) /\ ~ChainBroken(s, cells)
         /\ cells \in Seq(Cell) /\ ValidPrefix(cells) \in Seq(Cell) /\ Ascending(ValidPrefix(cells))
         /\ cells = ValidPrefix(cells) \/ cells = Append(ValidPrefix(cells), Torn)
         /\ Sound(s, ValidPrefix(cells))
         /\ Recovered(s, cells) = Recovered(s, ValidPrefix(cells))
         /\ \/ Recovered(s, cells) = Recovered(s, b)
            \/ \E f : /\ cells = Append(b, f) /\ Follows(f, b) /\ f.seq > s.seq
                      /\ Recovered(s, cells) = Append(Recovered(s, b), f.id)
<1>1. CASE cells = b
  <2>1. Startable(b) /\ ValidPrefix(b) = b
    BY ReplayWhole
  <2>2. ~ChainBroken(s, b)
    BY DEF Sound
  <2> QED BY <1>1, <2>1, <2>2
<1>2. CASE cells = Append(b, Torn)
  <2>1. Startable(cells) /\ ValidPrefix(cells) = b
    BY <1>2, ReplayTorn
  <2>2. Recovered(s, cells) = Recovered(s, b) /\ ~ChainBroken(s, cells)
    BY <1>2, RecoverTorn DEF Sound
  <2>3. cells \in Seq(Cell)
    BY <1>2, TornIsNoFrame
  <2> QED BY <1>2, <2>1, <2>2, <2>3
<1>3. CASE \E f : cells = Append(b, f) /\ Fits(f, b, RecoveredHead(s, b))
  <2>1. PICK f : cells = Append(b, f) /\ Fits(f, b, RecoveredHead(s, b))
    BY <1>3
  <2>2. Follows(f, b) /\ (f.kind # "plain" => f.link = RecoveredHead(s, b))
    BY <2>1 DEF Fits
  <2>3. cells \in Seq(Cell) /\ Ascending(cells)
    BY <2>1, <2>2, AppendAscends
  <2>4. Startable(cells) /\ ValidPrefix(cells) = cells
    BY <2>3, ReplayWhole
  <2>5. Sound(s, cells)
    BY <2>1, <2>2, SoundAppend
  <2>6. Recovered(s, cells) = IF f.seq > s.seq THEN Append(Recovered(s, b), f.id) ELSE Recovered(s, b)
    BY <2>1, <2>2, RecoverAppend
  <2>7. ~ChainBroken(s, cells)
    BY <2>5 DEF Sound
  <2> QED BY <2>1, <2>2, <2>3, <2>4, <2>5, <2>6, <2>7
<1> QED BY <1>1, <1>2, <1>3
-----------------------------------------------------------------------------
(* The inductive invariant *)

\* What the process knows to be in its log.
Base == SubSeq(log, 1, len)

\* A frame behind it that a power loss may keep or lose: it would fit.
Extra(f) ==
  /\ Fits(f, Base, head) /\ f.seq <= sequence
  /\ f.id \in 1 .. issued /\ f.id \in phantom \cup {inflight.id}

\* Any content the log may be left with is the known part, or one cell more;
\* and there is one frame at most that this cell can be.
ImagesInv ==
  /\ Base \in logImages /\ log \in logImages
  /\ \A cells \in logImages :
       \/ cells = Base \/ cells = Append(Base, Torn)
       \/ \E i \in DOMAIN cells : cells = Append(Base, cells[i]) /\ Extra(cells[i])
  /\ \A c, d \in logImages \ {Base, Append(Base, Torn)} : c = d

\* Whichever snapshot is found, it completes the known part of the log to what
\* is in effect.
SnapshotsInv ==
  /\ snap \in snapImages /\ \E s \in snapImages : s.seq = snapshot_sequence
  /\ \A s \in snapImages :
       /\ s \in SnapshotType /\ s.seq <= sequence
       /\ Recovered(s, Base) = applied /\ RecoveredHead(s, Base) = head
       /\ Sound(s, Base)

\* Where the process is.
OpInv ==
  /\ op \in {"idle", "checkpoint", "reset", "sync", "cut"}
  /\ op \in {"idle", "checkpoint", "reset"} =>
       inflight = NoFrame /\ (~poisoned => log = Base /\ logImages = {Base})
  /\ op \in {"checkpoint", "sync", "cut"} => ~poisoned
  /\ op \in {"sync", "cut"} => Extra(inflight)
  /\ op = "sync" =>
       /\ log = Append(Base, inflight)
       /\ logImages = {Base, Append(Base, inflight), Append(Base, Torn)}
       /\ \A s \in snapImages : s.seq < inflight.seq
  /\ op = "reset" => snapImages = {Snapshot(sequence, head, applied)}

MemoryInv ==
  /\ len \in 0 .. Len(log) /\ sequence \in Nat /\ poisoned \in BOOLEAN
  /\ applied \in Seq(Nat) /\ head \in Seq(Nat)
  /\ Ascending(Base) /\ \A i \in DOMAIN Base : Base[i].seq <= sequence
  /\ \A i \in DOMAIN applied : applied[i] \in 1 .. issued

UpInv == MemoryInv /\ ImagesInv /\ SnapshotsInv /\ OpInv

\* Nothing runs: what is on disk is settled, and it is good.
DownInv ==
  /\ op = "down" /\ inflight = NoFrame
  /\ logImages = {log} /\ snapImages = {snap} /\ snap \in SnapshotType
  /\ Ascending(ValidPrefix(log)) /\ log \in {ValidPrefix(log), Append(ValidPrefix(log), Torn)}
  /\ ValidPrefix(log) \in Seq(Cell)
  /\ Sound(snap, ValidPrefix(log))
  /\ \A i \in DOMAIN Recovered(snap, log) : Recovered(snap, log)[i] \in 1 .. issued

StoreInv ==
  /\ log \in Seq(Cell) /\ logImages \subseteq Seq(Cell) /\ issued \in Nat
  /\ UpInv \/ DownInv

-----------------------------------------------------------------------------
(* Steps *)

LEMMA BaseType ==
  ASSUME StoreInv, UpInv
  PROVE  /\ Base \in Seq(Cell) /\ Len(Base) = len /\ DOMAIN Base = 1 .. len /\ len \in Nat
         /\ Ascending(Base) /\ len <= Len(log) /\ Len(log) \in Nat
<1>1. log \in Seq(Cell) /\ len \in 0 .. Len(log) /\ Ascending(Base)
  BY DEF StoreInv, UpInv, MemoryInv
<1> QED BY <1>1 DEF Base

LEMMA SnapshotFields ==
  ASSUME NEW q \in Nat, NEW h \in Seq(Nat), NEW a \in Seq(Nat)
  PROVE  /\ Snapshot(q, h, a) \in SnapshotType
         /\ Snapshot(q, h, a).seq = q /\ Snapshot(q, h, a).head = h /\ Snapshot(q, h, a).covers = a
BY DEF Snapshot, SnapshotType

\* What any power loss would leave now.
LEMMA UpImage ==
  ASSUME StoreInv, UpInv, NEW cells \in logImages, NEW s \in snapImages
  PROVE  /\ s \in SnapshotType /\ Sound(s, Base) /\ Recovered(s, Base) = applied
         /\ \/ cells = Base \/ cells = Append(Base, Torn)
            \/ \E f : cells = Append(Base, f) /\ Fits(f, Base, RecoveredHead(s, Base))
<1>1. /\ s \in SnapshotType /\ Sound(s, Base) /\ Recovered(s, Base) = applied
      /\ RecoveredHead(s, Base) = head
  BY DEF UpInv, SnapshotsInv
<1>2. \/ cells = Base \/ cells = Append(Base, Torn)
      \/ \E i \in DOMAIN cells : cells = Append(Base, cells[i]) /\ Extra(cells[i])
  BY DEF UpInv, ImagesInv
<1> QED BY <1>1, <1>2 DEF Extra

LEMMA InitStep ==
  ASSUME StoreInit
  PROVE  StoreInv
<1>1. <<>> \in Seq(Cell) /\ Ascending(<<>>)
  BY DEF Ascending
<1>2. ValidPrefix(<<>>) = <<>>
  BY <1>1, ReplayWhole
<1>3. NoSnapshot \in SnapshotType /\ NoSnapshot.seq = 0 /\ NoSnapshot.covers = <<>>
  BY DEF NoSnapshot, Snapshot, SnapshotType
<1>4. \A i \in DOMAIN <<>> : <<>>[i].seq <= NoSnapshot.seq
  OBVIOUS
<1>5. Sound(NoSnapshot, <<>>) /\ Recovered(NoSnapshot, <<>>) = <<>>
  BY <1>1, <1>3, <1>4, SoundCovered, RecoverCovered
<1>6. /\ log = <<>> /\ logImages = {<<>>} /\ snap = NoSnapshot /\ snapImages = {NoSnapshot}
      /\ op = "down" /\ inflight = NoFrame /\ issued = 0
  BY DEF StoreInit
<1>7. \A i \in DOMAIN Recovered(snap, log) : FALSE
  BY <1>5, <1>6
<1>8. DownInv
  BY <1>1, <1>2, <1>3, <1>5, <1>6, <1>7 DEF DownInv
<1> QED BY <1>1, <1>6, <1>8 DEF StoreInv

LEMMA OpenStep ==
  ASSUME StoreInv, Open
  PROVE  StoreInv'
<1> DEFINE b == ValidPrefix(log)
<1>1. /\ op = "down" /\ inflight = NoFrame /\ logImages = {log} /\ snapImages = {snap} /\ snap \in SnapshotType
      /\ Ascending(b) /\ log \in {b, Append(b, Torn)} /\ b \in Seq(Cell) /\ Sound(snap, b)
      /\ issued \in Nat /\ \A i \in DOMAIN Recovered(snap, log) : Recovered(snap, log)[i] \in 1 .. issued
  <2>1. ~UpInv
    BY DEF Open, UpInv, OpInv
  <2> QED BY <2>1 DEF StoreInv, DownInv
<1>2. Startable(log) /\ ~ChainBroken(snap, log) /\ Recovered(snap, log) = Recovered(snap, b)
  <2> HIDE DEF b
  <2> QED BY <1>1, ImageFound, ReplayWhole, ReplayTorn, RecoverTorn DEF Sound
<1>3. RecoveredFrames(snap, log) = RecoveredFrames(snap, b)
  BY <1>1, ReplayWhole DEF RecoveredFrames
<1>4. RecoveredHead(snap, log) = RecoveredHead(snap, b) /\ MaxRecovered(snap, log) = MaxRecovered(snap, b)
  BY <1>3 DEF RecoveredHead, MaxRecovered
<1>5. /\ op' = "idle" /\ log' = b /\ logImages' = {b} /\ len' = Len(b)
      /\ sequence' = MaxRecovered(snap, b) /\ head' = RecoveredHead(snap, b)
      /\ snapshot_sequence' = snap.seq /\ applied' = Recovered(snap, b)
      /\ poisoned' = FALSE /\ inflight' = inflight /\ issued' = issued
      /\ snap' = snap /\ snapImages' = snapImages
  BY <1>2, <1>4 DEF Open, LogSynced, SnapUnchanged, ghosts
<1> HIDE DEF b
<1>6. Base' = b
  BY <1>1, <1>5, SubSeqFull DEF Base
<1>7. MemoryInv'
  <2>1. /\ MaxRecovered(snap, b) \in Nat /\ Recovered(snap, b) \in Seq(Nat) /\ RecoveredHead(snap, b) \in Seq(Nat)
        /\ \A i \in DOMAIN b : b[i].seq <= MaxRecovered(snap, b)
    BY <1>1, RecoverType, RecoverSequence
  <2>2. Len(b) \in 0 .. Len(b)
    BY <1>1
  <2> QED BY <1>1, <1>2, <1>5, <1>6, <2>1, <2>2 DEF MemoryInv
<1>8. ImagesInv'
  BY <1>5, <1>6 DEF ImagesInv
<1>9. SnapshotsInv'
  <2>1. snap.seq <= MaxRecovered(snap, b)
    BY <1>1, RecoverSequence
  <2> QED BY <1>1, <1>5, <1>6, <2>1 DEF SnapshotsInv
<1>10. OpInv'
  BY <1>1, <1>5, <1>6 DEF OpInv
<1> QED BY <1>1, <1>5, <1>7, <1>8, <1>9, <1>10 DEF StoreInv, UpInv

LEMMA RefusedStep ==
  ASSUME StoreInv, NEW kind \in Kinds, AppendRefused(kind)
  PROVE  StoreInv'
<1>1. /\ op = "idle" /\ sequence' = sequence + 1 /\ issued' = issued + 1
      /\ op' = op /\ inflight' = inflight /\ log' = log /\ logImages' = logImages
      /\ snap' = snap /\ snapImages' = snapImages /\ len' = len /\ poisoned' = poisoned
      /\ head' = head /\ snapshot_sequence' = snapshot_sequence /\ applied' = applied /\ phantom' = phantom
  BY DEF AppendRefused, Allocate, disk
<1>2. UpInv /\ log \in Seq(Cell) /\ logImages \subseteq Seq(Cell) /\ issued \in Nat /\ sequence \in Nat
  BY <1>1 DEF StoreInv, DownInv, UpInv, MemoryInv
<1>3. Base' = Base
  BY <1>1 DEF Base
<1>4. \A f : Extra(f) => Extra(f)'
  <2> SUFFICES ASSUME NEW f, Extra(f) PROVE Extra(f)'
    OBVIOUS
  <2>1. f.seq \in Nat
    BY DEF Extra, Fits, Follows, Cell
  <2> QED BY <1>1, <1>2, <1>3, <2>1 DEF Extra
<1>5. MemoryInv'
  <2>1. \A i \in DOMAIN Base : Base[i].seq \in Nat
    BY <1>2, BaseType, CellFields
  <2>2. \A i \in DOMAIN Base : Base[i].seq <= sequence + 1
    BY <1>2, <2>1 DEF UpInv, MemoryInv
  <2>3. \A i \in DOMAIN applied : applied[i] \in 1 .. issued + 1
    BY <1>2 DEF UpInv, MemoryInv
  <2> QED BY <1>1, <1>2, <1>3, <2>2, <2>3 DEF UpInv, MemoryInv
<1>6. ImagesInv'
  BY <1>1, <1>2, <1>3, <1>4 DEF UpInv, ImagesInv
<1>7. SnapshotsInv'
  <2>1. \A s \in snapImages : s.seq \in Nat /\ s.seq <= sequence
    BY <1>2 DEF UpInv, SnapshotsInv, SnapshotType
  <2>2. \A s \in snapImages : s.seq <= sequence + 1
    BY <1>2, <2>1
  <2> QED BY <1>1, <1>2, <1>3, <2>2 DEF UpInv, SnapshotsInv
<1>8. OpInv'
  BY <1>1, <1>2, <1>3 DEF UpInv, OpInv
<1> QED BY <1>1, <1>2, <1>5, <1>6, <1>7, <1>8 DEF StoreInv, UpInv

\* The frame an append makes fits behind what is known to be in the log.
LEMMA NewFrameFits ==
  ASSUME StoreInv, UpInv, NEW kind \in Kinds
  PROVE  /\ NewFrame(kind) \in Cell /\ Fits(NewFrame(kind), Base, head)
         /\ NewFrame(kind).seq = sequence + 1 /\ NewFrame(kind).id = issued + 1
<1>1. /\ sequence \in Nat /\ issued \in Nat /\ head \in Seq(Nat)
      /\ \A i \in DOMAIN Base : Base[i].seq <= sequence
  BY DEF StoreInv, UpInv, MemoryInv
<1> DEFINE l == IF kind = "plain" THEN <<>> ELSE head
<1>2. NewFrame(kind) = [seq |-> sequence + 1, kind |-> kind, id |-> issued + 1, link |-> l]
  BY DEF NewFrame, Frame
<1>3. l \in Seq(Nat) /\ (kind # "plain" => l = head)
  BY <1>1
<1> HIDE DEF l
<1>4. NewFrame(kind) \in Cell /\ IsFrame(NewFrame(kind))
  BY <1>1, <1>2, <1>3 DEF Cell, IsFrame
<1>5. \A i \in DOMAIN Base : Base[i].seq < sequence + 1
  <2>1. \A i \in DOMAIN Base : Base[i].seq \in Nat
    BY BaseType, CellFields
  <2> QED BY <1>1, <2>1
<1> QED BY <1>2, <1>3, <1>4, <1>5 DEF Fits, Follows

LEMMA WriteStep ==
  ASSUME StoreInv, NEW kind \in Kinds, AppendWrite(kind)
  PROVE  StoreInv'
<1>0. PICK f : f = NewFrame(kind)
  OBVIOUS
<1>1. /\ op \in {"idle", "checkpoint"} /\ ~poisoned /\ sequence' = sequence + 1 /\ issued' = issued + 1
      /\ inflight' = f /\ snap' = snap /\ snapImages' = snapImages /\ len' = len /\ poisoned' = poisoned
      /\ head' = head /\ snapshot_sequence' = snapshot_sequence /\ applied' = applied /\ phantom' = phantom
  BY <1>0 DEF AppendWrite, Allocate, SnapUnchanged
<1>2. /\ UpInv /\ log \in Seq(Cell) /\ issued \in Nat /\ sequence \in Nat
      /\ log = Base /\ logImages = {Base}
  BY <1>1 DEF StoreInv, DownInv, UpInv, MemoryInv, OpInv
<1>3. /\ Base \in Seq(Cell) /\ Len(Base) = len /\ len \in Nat
      /\ f \in Cell /\ Fits(f, Base, head) /\ f.seq = sequence + 1 /\ f.id = issued + 1
  BY <1>0, <1>2, BaseType, NewFrameFits
<1>4. \/ log' = Append(Base, f) /\ logImages' = {Base, Append(Base, f), Append(Base, Torn)} /\ op' = "sync"
      \/ log' = Append(Base, Torn) /\ logImages' = {Base, Append(Base, Torn)} /\ op' = "cut"
  <2>1. \/ LogWritten(f) /\ op' = "sync"
        \/ LogWritten(Torn) /\ op' = "cut"
    BY <1>0 DEF AppendWrite
  <2> QED BY <1>2, <2>1 DEF LogWritten
<1>5. Append(Base, f) \in Seq(Cell) /\ Append(Base, Torn) \in Seq(Cell)
  BY <1>3, TornIsNoFrame
<1>6. log' \in Seq(Cell) /\ logImages' \subseteq Seq(Cell) /\ len \in 0 .. Len(log') /\ Base' = Base
  <2>1. \A x \in Cell : len \in 0 .. Len(Append(Base, x)) /\ SubSeq(Append(Base, x), 1, len) = Base
    BY <1>3
  <2>2. f \in Cell /\ Torn \in Cell
    BY <1>3, TornIsNoFrame
  <2> QED BY <1>1, <1>3, <1>4, <1>5, <2>1, <2>2 DEF Base
<1>7. Extra(f)'
  BY <1>1, <1>2, <1>3, <1>6 DEF Extra
<1>8. MemoryInv'
  <2>1. \A i \in DOMAIN Base : Base[i].seq \in Nat
    BY <1>3, CellFields
  <2>2. \A i \in DOMAIN Base : Base[i].seq <= sequence + 1
    BY <1>2, <2>1 DEF UpInv, MemoryInv
  <2>3. \A i \in DOMAIN applied : applied[i] \in 1 .. issued + 1
    BY <1>2 DEF UpInv, MemoryInv
  <2> QED BY <1>1, <1>2, <1>6, <2>2, <2>3 DEF UpInv, MemoryInv
<1>9. ImagesInv'
  <2>1. /\ len + 1 \in DOMAIN Append(Base, f) /\ Append(Base, f)[len + 1] = f
    BY <1>3
  <2>2. Base' \in logImages' /\ log' \in logImages'
    BY <1>4, <1>6
  <2>3. \A cells \in logImages' : cells = Base \/ cells = Append(Base, Torn) \/ cells = Append(Base, f)
    BY <1>4
  <2>4. \E i \in DOMAIN Append(Base, f) : Append(Base, f) = Append(Base', Append(Base, f)[i]) /\ Extra(Append(Base, f)[i])'
    BY <1>6, <1>7, <2>1
  <2> QED BY <1>6, <2>2, <2>3, <2>4 DEF ImagesInv
<1>10. SnapshotsInv' /\ \A s \in snapImages : s.seq < f.seq
  <2>1. \A s \in snapImages : s.seq \in Nat /\ s.seq <= sequence
    BY <1>2 DEF UpInv, SnapshotsInv, SnapshotType
  <2>2. \A s \in snapImages : s.seq <= sequence + 1 /\ s.seq < f.seq
    BY <1>2, <1>3, <2>1
  <2> QED BY <1>1, <1>2, <1>6, <2>2 DEF UpInv, SnapshotsInv
<1>11. OpInv'
  BY <1>1, <1>4, <1>6, <1>7, <1>10 DEF OpInv
<1> QED BY <1>1, <1>2, <1>6, <1>8, <1>9, <1>10, <1>11 DEF StoreInv, UpInv

LEMMA SyncStep ==
  ASSUME StoreInv, AppendSync
  PROVE  StoreInv'
<1> DEFINE f == inflight  b == Append(Base, f)
<1>1. /\ op = "sync" /\ log' = log /\ logImages' = {log} /\ len' = len + 1 /\ applied' = Append(applied, f.id)
      /\ head' = IF f.kind = "audit" THEN link_of(f) ELSE head
      /\ op' \in {"checkpoint", "idle"} /\ inflight' = NoFrame /\ snap' = snap /\ snapImages' = snapImages
      /\ sequence' = sequence /\ poisoned' = poisoned /\ snapshot_sequence' = snapshot_sequence
      /\ issued' = issued /\ phantom' = phantom
  BY DEF AppendSync, LogSynced, SnapUnchanged, ghosts
<1>2. /\ UpInv /\ log \in Seq(Cell) /\ issued \in Nat /\ sequence \in Nat /\ applied \in Seq(Nat) /\ head \in Seq(Nat)
      /\ ~poisoned /\ Extra(f) /\ log = b /\ \A s \in snapImages : s.seq < f.seq
  BY <1>1 DEF StoreInv, DownInv, UpInv, MemoryInv, OpInv
<1>3. /\ Base \in Seq(Cell) /\ Len(Base) = len /\ len \in Nat /\ Ascending(Base)
      /\ Follows(f, Base) /\ f \in Cell /\ f.seq \in Nat /\ f.id \in Nat /\ f.link \in Seq(Nat)
      /\ f.kind # "plain" => f.link = head
  <2>1. Follows(f, Base) /\ f \in Cell /\ (f.kind # "plain" => f.link = head)
    BY <1>2 DEF Extra, Fits, Follows
  <2> QED BY <1>2, <2>1, BaseType DEF Cell
<1> HIDE DEF f
<1>4. Len(b) = len + 1 /\ Base' = b
  <2>1. b \in Seq(Cell) /\ Len(b) = len + 1
    BY <1>3
  <2> HIDE DEF b
  <2> QED BY <1>1, <1>2, <2>1, SubSeqFull DEF Base
<1>5. b \in Seq(Cell) /\ Ascending(b)
  BY <1>3, AppendAscends
<1>6. MemoryInv'
  <2>1. \A i \in DOMAIN b : b[i].seq <= sequence
    <3>1. \A i \in DOMAIN Base : Base[i].seq <= sequence
      BY <1>2 DEF UpInv, MemoryInv
    <3>2. f.seq <= sequence
      BY <1>2 DEF Extra, f
    <3>3. \A i \in DOMAIN b : (i \in DOMAIN Base /\ b[i] = Base[i]) \/ b[i] = f
      BY <1>3
    <3> HIDE DEF b
    <3> QED BY <3>1, <3>2, <3>3
  <2>2. f.id \in 1 .. issued /\ \A i \in DOMAIN applied : applied[i] \in 1 .. issued
    BY <1>2 DEF Extra, UpInv, MemoryInv
  <2>3. \A i \in DOMAIN Append(applied, f.id) : Append(applied, f.id)[i] \in 1 .. issued
    BY <1>2, <1>3, <2>2
  <2>4. Append(applied, f.id) \in Seq(Nat) /\ head' \in Seq(Nat)
    BY <1>1, <1>2, <1>3 DEF link_of
  <2>5. len + 1 \in 0 .. Len(log)
    BY <1>2, <1>3, <1>4
  <2> HIDE DEF b
  <2> QED BY <1>1, <1>2, <1>4, <1>5, <2>1, <2>3, <2>4, <2>5 DEF UpInv, MemoryInv
<1>7. ImagesInv'
  <2> HIDE DEF b
  <2> QED BY <1>1, <1>2, <1>4 DEF ImagesInv
<1>8. SnapshotsInv'
  <2>1. ASSUME NEW s \in snapImages
        PROVE  /\ s \in SnapshotType /\ s.seq <= sequence
               /\ Recovered(s, b) = Append(applied, f.id) /\ RecoveredHead(s, b) = head' /\ Sound(s, b)
    <3>1. /\ s \in SnapshotType /\ s.seq <= sequence /\ Sound(s, Base)
          /\ Recovered(s, Base) = applied /\ RecoveredHead(s, Base) = head
      BY <1>2 DEF UpInv, SnapshotsInv
    <3>2. f.seq > s.seq
      <4>1. s.seq < f.seq /\ s.seq \in Nat
        BY <1>2, <3>1 DEF SnapshotType
      <4> QED BY <1>3, <4>1
    <3>3. Sound(s, b)
      BY <1>3, <3>1, SoundAppend
    <3>4. Recovered(s, b) = Append(applied, f.id) /\ RecoveredHead(s, b) = head'
      BY <1>1, <1>3, <3>1, <3>2, RecoverAppend
    <3> QED BY <3>1, <3>3, <3>4
  <2> HIDE DEF b
  <2> QED BY <1>1, <1>2, <1>4, <2>1 DEF UpInv, SnapshotsInv
<1>9. OpInv'
  <2> HIDE DEF b
  <2> QED BY <1>1, <1>2, <1>4 DEF OpInv
<1> HIDE DEF b
<1> QED BY <1>1, <1>2, <1>6, <1>7, <1>8, <1>9 DEF StoreInv, UpInv

LEMMA SyncFailsStep ==
  ASSUME StoreInv, SyncFails
  PROVE  StoreInv'
<1>1. /\ op = "sync" /\ op' = "cut" /\ inflight' = inflight /\ log' = log /\ logImages' = logImages
      /\ snap' = snap /\ snapImages' = snapImages /\ sequence' = sequence /\ len' = len
      /\ poisoned' = poisoned /\ head' = head /\ snapshot_sequence' = snapshot_sequence
      /\ applied' = applied /\ issued' = issued /\ phantom' = phantom
  BY DEF SyncFails, disk, memory, ghosts
<1>2. UpInv
  BY <1>1 DEF StoreInv, DownInv
<1>3. Base' = Base /\ (\A f : Extra(f) => Extra(f)') /\ Extra(inflight) /\ (Extra(inflight) => Extra(inflight)')
  BY <1>1, <1>2 DEF Base, Extra, UpInv, OpInv
<1>4. MemoryInv' /\ SnapshotsInv'
  BY <1>1, <1>2, <1>3 DEF UpInv, MemoryInv, SnapshotsInv
<1>5. ImagesInv'
  BY <1>1, <1>2, <1>3 DEF UpInv, ImagesInv
<1>6. OpInv'
  BY <1>1, <1>2, <1>3 DEF UpInv, OpInv
<1> QED BY <1>1, <1>4, <1>5, <1>6 DEF StoreInv, UpInv

LEMMA ResizedIsBase ==
  ASSUME StoreInv, UpInv
  PROVE  Resized(log, len) = Base
<1>1. log \in Seq(Cell) /\ len \in 0 .. Len(log)
  BY DEF StoreInv, UpInv, MemoryInv
<1>2. Resized(log, len) = [i \in 1 .. len |-> log[i]]
  BY <1>1 DEF Resized
<1>3. Base = [i \in 1 .. len |-> log[i]]
  BY <1>1 DEF Base
<1> QED BY <1>2, <1>3

LEMMA RollBackStep ==
  ASSUME StoreInv, RollBack
  PROVE  StoreInv'
<1>1. /\ op = "cut" /\ op' = "idle" /\ inflight' = NoFrame
      /\ snap' = snap /\ snapImages' = snapImages /\ sequence' = sequence /\ len' = len /\ head' = head
      /\ snapshot_sequence' = snapshot_sequence /\ applied' = applied /\ issued' = issued
  BY DEF RollBack, SnapUnchanged
<1>2. /\ UpInv /\ log \in Seq(Cell) /\ logImages \subseteq Seq(Cell) /\ issued \in Nat
      /\ ~poisoned /\ Base \in logImages /\ len \in 0 .. Len(log) /\ poisoned \in BOOLEAN
  BY <1>1 DEF StoreInv, DownInv, UpInv, MemoryInv, OpInv, ImagesInv
<1>3. Base \in Seq(Cell) /\ Len(Base) = len /\ len \in Nat
  BY <1>2, BaseType
<1>4. \/ log' = Base /\ logImages' = {Base} /\ poisoned' = poisoned
      \/ /\ log' \in {log, Base} /\ logImages' = logImages /\ poisoned' = TRUE
         /\ phantom' = phantom \cup {inflight.id}
  <2>1. Resized(log, len) = Base
    BY <1>2, ResizedIsBase
  <2>2. logImages \cup {Base} = logImages
    BY <1>2
  <2> QED BY <2>1, <2>2 DEF RollBack, LogSynced, LogCut, LogUnchanged
<1>5. Base' = Base /\ log' \in Seq(Cell) /\ len \in 0 .. Len(log')
  <2>1. SubSeq(Base, 1, len) = Base /\ len \in 0 .. Len(Base)
    BY <1>3, SubSeqFull
  <2> QED BY <1>1, <1>2, <1>3, <1>4, <2>1 DEF Base
<1>6. MemoryInv' /\ SnapshotsInv'
  <2>1. poisoned' \in BOOLEAN
    BY <1>2, <1>4
  <2> QED BY <1>1, <1>2, <1>5, <2>1 DEF UpInv, MemoryInv, SnapshotsInv
<1>7. CASE log' = Base /\ logImages' = {Base} /\ poisoned' = poisoned
  <2>1. ImagesInv' /\ OpInv'
    BY <1>1, <1>5, <1>7 DEF ImagesInv, OpInv
  <2> QED BY <1>1, <1>2, <1>3, <1>6, <1>7, <2>1 DEF StoreInv, UpInv
<1>8. CASE /\ log' \in {log, Base} /\ logImages' = logImages /\ poisoned' = TRUE
           /\ phantom' = phantom \cup {inflight.id}
  <2>1. \A f : Extra(f) => Extra(f)'
    BY <1>1, <1>5, <1>8 DEF Extra
  <2>2. ImagesInv'
    BY <1>2, <1>5, <1>8, <2>1 DEF UpInv, ImagesInv
  <2>3. OpInv'
    BY <1>1, <1>8 DEF OpInv
  <2> QED BY <1>1, <1>2, <1>5, <1>6, <1>8, <2>2, <2>3 DEF StoreInv, UpInv
<1> QED BY <1>4, <1>7, <1>8

\* A snapshot of what is in effect, with whatever the log still holds.
LEMMA FullSnapshot ==
  ASSUME StoreInv, UpInv, NEW b \in Seq(Cell), Ascending(b), \A i \in DOMAIN b : b[i].seq <= sequence
  PROVE  LET new == Snapshot(sequence, head, applied)
         IN  /\ new \in SnapshotType /\ new.seq = sequence
             /\ Recovered(new, b) = applied /\ RecoveredHead(new, b) = head /\ Sound(new, b)
<1>1. sequence \in Nat /\ head \in Seq(Nat) /\ applied \in Seq(Nat)
  BY DEF UpInv, MemoryInv
<1> DEFINE new == Snapshot(sequence, head, applied)
<1>2. new \in SnapshotType /\ new.seq = sequence /\ new.head = head /\ new.covers = applied
  BY <1>1, SnapshotFields
<1> HIDE DEF new
<1>3. Recovered(new, b) = applied /\ RecoveredHead(new, b) = head /\ Sound(new, b)
  BY <1>2, RecoverCovered, SoundCovered
<1> QED BY <1>2, <1>3 DEF new

LEMMA CompactWriteStep ==
  ASSUME StoreInv, CompactWrite
  PROVE  StoreInv'
<1> DEFINE new == Snapshot(sequence, head, applied)
<1>1. /\ op = "idle" /\ log' = log /\ logImages' = logImages /\ sequence' = sequence /\ len' = len
      /\ poisoned' = poisoned /\ head' = head /\ applied' = applied /\ inflight' = inflight
      /\ issued' = issued /\ phantom' = phantom /\ snap' = new
      /\ \/ snapImages' = {new} /\ snapshot_sequence' = sequence /\ op' = "reset"
         \/ snapImages' = snapImages \cup {new} /\ snapshot_sequence' = snapshot_sequence /\ op' = op
  BY DEF CompactWrite, LogUnchanged, ghosts
<1>2. UpInv /\ sequence \in Nat
  BY <1>1 DEF StoreInv, DownInv, UpInv, MemoryInv
<1>3. /\ new \in SnapshotType /\ new.seq = sequence
      /\ Recovered(new, Base) = applied /\ RecoveredHead(new, Base) = head /\ Sound(new, Base)
  <2>1. \A i \in DOMAIN Base : Base[i].seq <= sequence
    BY <1>2 DEF UpInv, MemoryInv
  <2> QED BY <1>2, <2>1, BaseType, FullSnapshot
<1>4. new = Snapshot(sequence', head', applied')
  BY <1>1
<1> HIDE DEF new
<1>5. Base' = Base /\ \A f : Extra(f) => Extra(f)'
  BY <1>1 DEF Base, Extra
<1>6. MemoryInv'
  BY <1>1, <1>2, <1>5 DEF UpInv, MemoryInv
<1>7. ImagesInv'
  BY <1>1, <1>2, <1>5 DEF UpInv, ImagesInv
<1>8. SnapshotsInv'
  BY <1>1, <1>2, <1>3, <1>5 DEF UpInv, SnapshotsInv
<1>9. OpInv'
  BY <1>1, <1>2, <1>4, <1>5 DEF UpInv, OpInv
<1> QED BY <1>1, <1>6, <1>7, <1>8, <1>9 DEF StoreInv, UpInv

LEMMA CompactResetStep ==
  ASSUME StoreInv, CompactReset, "reset" \notin Faults
  PROVE  StoreInv'
<1> DEFINE new == Snapshot(sequence, head, applied)
<1>1. /\ op = "reset" /\ op' = "idle" /\ log' = <<>> /\ logImages' = {<<>>} /\ len' = 0 /\ poisoned' = FALSE
      /\ snap' = snap /\ snapImages' = snapImages /\ sequence' = sequence /\ head' = head
      /\ snapshot_sequence' = snapshot_sequence /\ applied' = applied /\ issued' = issued
      /\ inflight' = inflight
  BY DEF CompactReset, LogSynced, SnapUnchanged, ghosts
<1>2. /\ UpInv /\ issued \in Nat /\ snapImages = {new} /\ inflight = NoFrame
  BY <1>1 DEF StoreInv, DownInv, UpInv, OpInv
<1>3. Base' = <<>> /\ <<>> \in Seq(Cell) /\ Ascending(<<>>)
  BY <1>1 DEF Base, Ascending
<1>4. /\ new \in SnapshotType /\ new.seq = sequence
      /\ Recovered(new, <<>>) = applied /\ RecoveredHead(new, <<>>) = head /\ Sound(new, <<>>)
  <2>1. \A i \in DOMAIN <<>> : <<>>[i].seq <= sequence
    OBVIOUS
  <2> QED BY <1>2, <1>3, <2>1, FullSnapshot
<1> HIDE DEF new
<1>5. MemoryInv'
  <2>1. 0 \in 0 .. Len(<<>>) /\ \A i \in DOMAIN <<>> : <<>>[i].seq <= sequence
    OBVIOUS
  <2> QED BY <1>1, <1>2, <1>3, <2>1 DEF UpInv, MemoryInv
<1>6. ImagesInv'
  BY <1>1, <1>3 DEF ImagesInv
<1>7. SnapshotsInv'
  <2>1. sequence \in Nat
    BY <1>2 DEF UpInv, MemoryInv
  <2> QED BY <1>1, <1>2, <1>3, <1>4, <2>1 DEF UpInv, SnapshotsInv
<1>8. OpInv'
  BY <1>1, <1>2, <1>3 DEF OpInv
<1> QED BY <1>1, <1>2, <1>3, <1>5, <1>6, <1>7, <1>8 DEF StoreInv, UpInv

LEMMA PowerLossStep ==
  ASSUME StoreInv, PowerLoss
  PROVE  StoreInv'
<1>1. PICK cells \in logImages : log' = cells /\ logImages' = {cells}
  BY DEF PowerLoss, LogSynced
<1>2. PICK s \in snapImages : snap' = s /\ snapImages' = {s}
  BY DEF PowerLoss
<1>3. op \notin {"down", "refused"} /\ op' = "down" /\ inflight' = NoFrame /\ issued' = issued
  BY DEF PowerLoss, ghosts
<1>4. UpInv /\ issued \in Nat
  BY <1>3 DEF StoreInv, DownInv
<1>5. /\ s \in SnapshotType /\ Sound(s, Base) /\ Recovered(s, Base) = applied
      /\ \/ cells = Base \/ cells = Append(Base, Torn)
         \/ \E f : cells = Append(Base, f) /\ Fits(f, Base, RecoveredHead(s, Base))
  BY <1>4, UpImage
<1>6. /\ cells \in Seq(Cell) /\ ValidPrefix(cells) \in Seq(Cell) /\ Ascending(ValidPrefix(cells))
      /\ cells = ValidPrefix(cells) \/ cells = Append(ValidPrefix(cells), Torn)
      /\ Sound(s, ValidPrefix(cells))
      /\ \/ Recovered(s, cells) = applied
         \/ \E f : cells = Append(Base, f) /\ Follows(f, Base) /\ Recovered(s, cells) = Append(applied, f.id)
  <2>1. Base \in Seq(Cell) /\ Ascending(Base)
    BY <1>4, BaseType
  <2>2. /\ cells \in Seq(Cell) /\ ValidPrefix(cells) \in Seq(Cell) /\ Ascending(ValidPrefix(cells))
        /\ cells = ValidPrefix(cells) \/ cells = Append(ValidPrefix(cells), Torn)
        /\ Sound(s, ValidPrefix(cells))
    BY <1>5, <2>1, ImageFound
  <2>3. \/ Recovered(s, cells) = Recovered(s, Base)
        \/ \E f : /\ cells = Append(Base, f) /\ Follows(f, Base) /\ f.seq > s.seq
                  /\ Recovered(s, cells) = Append(Recovered(s, Base), f.id)
    BY <1>5, <2>1, ImageFound
  <2>4. \/ Recovered(s, cells) = applied
        \/ \E f : cells = Append(Base, f) /\ Follows(f, Base) /\ Recovered(s, cells) = Append(applied, f.id)
    BY <1>5, <2>3
  <2> QED BY <2>2, <2>4
<1>7. applied \in Seq(Nat) /\ \A i \in DOMAIN applied : applied[i] \in 1 .. issued
  BY <1>4 DEF UpInv, MemoryInv
<1>8. \A i \in DOMAIN Recovered(s, cells) : Recovered(s, cells)[i] \in 1 .. issued
  <2>1. CASE Recovered(s, cells) = applied
    BY <1>7, <2>1
  <2>2. ASSUME NEW f, cells = Append(Base, f), Follows(f, Base), Recovered(s, cells) = Append(applied, f.id)
        PROVE  \A i \in DOMAIN Recovered(s, cells) : Recovered(s, cells)[i] \in 1 .. issued
    <3>1. f.id \in 1 .. issued
      <4>1. /\ Base \in Seq(Cell) /\ Len(Base) = len /\ len \in Nat
        BY <1>4, BaseType
      <4>2. f \in Cell /\ IsFrame(f)
        BY <2>2 DEF Follows
      <4>3. \A g : cells = Append(Base, g) => g = f
        <5>1. \A g : Append(Base, g) = Append(Base, f) => g = f
          BY <4>1, <4>2
        <5> QED BY <2>2, <5>1
      <4>4. cells # Base
        <5>1. Len(cells) = len + 1
          BY <2>2, <4>1, <4>2
        <5> QED BY <4>1, <5>1
      <4>5. PICK g : cells = Append(Base, g) /\ (g = Torn \/ Extra(g))
        BY <1>4, <4>4 DEF UpInv, ImagesInv
      <4>6. g = f
        BY <4>3, <4>5
      <4>7. Extra(f)
        BY <4>2, <4>5, <4>6, TornIsNoFrame
      <4> QED BY <4>7 DEF Extra
    <3> QED BY <1>7, <2>2, <3>1
  <2> QED BY <1>6, <2>1, <2>2
<1>9. DownInv'
  BY <1>1, <1>2, <1>3, <1>5, <1>6, <1>8 DEF DownInv
<1> QED BY <1>1, <1>3, <1>4, <1>6, <1>9 DEF StoreInv

LEMMA StoreStep ==
  ASSUME "reset" \notin Faults, StoreInv, [StoreNext]_storeVars
  PROVE  StoreInv'
<1>1. CASE UNCHANGED storeVars
  <2>1. /\ op' = op /\ inflight' = inflight /\ log' = log /\ logImages' = logImages
        /\ snap' = snap /\ snapImages' = snapImages /\ sequence' = sequence /\ len' = len
        /\ poisoned' = poisoned /\ head' = head /\ snapshot_sequence' = snapshot_sequence
        /\ applied' = applied /\ issued' = issued /\ phantom' = phantom
    BY <1>1 DEF storeVars, disk, memory, ghosts
  <2>2. Base' = Base
    BY <2>1 DEF Base
  <2>3. \A f : Extra(f)' <=> Extra(f)
    BY <2>1, <2>2 DEF Extra
  <2>4. Extra(inflight)' <=> Extra(inflight)
    BY <2>1, <2>2 DEF Extra
  <2>5. DownInv' <=> DownInv
    BY <2>1 DEF DownInv
  <2>6. MemoryInv' <=> MemoryInv
    BY <2>1, <2>2 DEF MemoryInv
  <2>7. ImagesInv' <=> ImagesInv
    BY <2>1, <2>2, <2>3 DEF ImagesInv
  <2>8. (SnapshotsInv' <=> SnapshotsInv) /\ (OpInv' <=> OpInv)
    BY <2>1, <2>2, <2>4 DEF SnapshotsInv, OpInv
  <2> QED BY <2>1, <2>5, <2>6, <2>7, <2>8 DEF StoreInv, UpInv
<1>2. CASE StoreNext
  BY <1>2, OpenStep, SyncStep, SyncFailsStep, RollBackStep, CompactWriteStep, CompactResetStep,
     PowerLossStep, WriteStep, RefusedStep DEF StoreNext
<1> QED BY <1>1, <1>2

\* The inductive invariant holds in every behaviour without a failed reset:
\* Store::open, every append with its failures, compaction and any power loss
\* keep the files and the process in agreement.
THEOREM Invariant == "reset" \notin Faults /\ StoreSpec => []StoreInv
<1> SUFFICES ASSUME "reset" \notin Faults PROVE StoreSpec => []StoreInv
  OBVIOUS
<1>1. StoreInit => StoreInv
  BY InitStep
<1>2. StoreInv /\ [StoreNext]_storeVars => StoreInv'
  BY StoreStep
<1> QED BY <1>1, <1>2, PTL DEF StoreSpec

\* Whichever content a power loss leaves, Store::open accepts it: the replay
\* finds at worst a torn tail, and the audit chain is whole.
THEOREM StartsAgain == "reset" \notin Faults /\ StoreSpec => []AlwaysStartable
<1>1. StoreInv => AlwaysStartable
  <2> SUFFICES ASSUME StoreInv, NEW cells \in logImages, NEW s \in snapImages
               PROVE  Startable(cells) /\ ~ChainBroken(s, cells)
    BY DEF AlwaysStartable
  <2>1. CASE UpInv
    <3>1. Base \in Seq(Cell) /\ Ascending(Base)
      BY <2>1, BaseType
    <3>2. /\ s \in SnapshotType /\ Sound(s, Base)
          /\ \/ cells = Base \/ cells = Append(Base, Torn)
             \/ \E f : cells = Append(Base, f) /\ Fits(f, Base, RecoveredHead(s, Base))
      BY <2>1, UpImage
    <3> QED BY <3>1, <3>2, ImageFound
  <2>2. CASE DownInv
    <3> DEFINE b == ValidPrefix(log)
    <3>1. /\ cells = log /\ s = snap /\ s \in SnapshotType /\ b \in Seq(Cell) /\ Ascending(b)
          /\ cells = b \/ cells = Append(b, Torn)
          /\ Sound(s, b)
      BY <2>2 DEF DownInv
    <3> HIDE DEF b
    <3> QED BY <3>1, ImageFound
  <2> QED BY <2>1, <2>2 DEF StoreInv
<1> QED BY <1>1, Invariant, PTL

\* No power loss loses a record in effect, applies one twice or reorders them;
\* at most the one append whose outcome is open is added at the end.
THEOREM Durability == "reset" \notin Faults /\ StoreSpec => []NothingLostOrTwice
<1>1. StoreInv => NothingLostOrTwice
  <2> SUFFICES ASSUME StoreInv, op \notin {"down", "refused"}, NEW cells \in logImages, NEW s \in snapImages
               PROVE  \/ Recovered(s, cells) = applied
                      \/ \E id \in phantom \cup {inflight.id} : Recovered(s, cells) = Append(applied, id)
    BY DEF NothingLostOrTwice
  <2>1. UpInv
    BY DEF StoreInv, DownInv
  <2>2. Base \in Seq(Cell) /\ Ascending(Base)
    BY <2>1, BaseType
  <2>3. /\ s \in SnapshotType /\ Sound(s, Base) /\ Recovered(s, Base) = applied /\ RecoveredHead(s, Base) = head
    BY <2>1 DEF UpInv, SnapshotsInv
  <2>4. CASE cells = Base
    BY <2>3, <2>4
  <2>5. CASE cells = Append(Base, Torn)
    BY <2>2, <2>3, <2>5, RecoverTorn
  <2>6. ASSUME NEW f, cells = Append(Base, f), Extra(f)
        PROVE  \/ Recovered(s, cells) = applied
               \/ \E id \in phantom \cup {inflight.id} : Recovered(s, cells) = Append(applied, id)
    <3>1. Follows(f, Base) /\ f.id \in phantom \cup {inflight.id}
      BY <2>6 DEF Extra, Fits
    <3>2. Recovered(s, cells) = IF f.seq > s.seq THEN Append(applied, f.id) ELSE applied
      BY <2>2, <2>3, <2>6, <3>1, RecoverAppend
    <3> QED BY <3>1, <3>2
  <2> QED BY <2>1, <2>4, <2>5, <2>6 DEF UpInv, ImagesInv
<1> QED BY <1>1, Invariant, PTL

\* The live audit head is what a restart rebuilds, a backup restores to what
\* is in effect, and what is read back is its newest part.
THEOREM LeavesTrue == "reset" \notin Faults /\ StoreSpec => []WhatLeavesIsTrue
<1>1. StoreInv => WhatLeavesIsTrue
  <2> SUFFICES ASSUME StoreInv, op = "idle"
               PROVE  ChainFollowsDisk /\ CopiesAreInEffect
    BY DEF WhatLeavesIsTrue, ChainFollowsDisk, CopiesAreInEffect
  <2>1. UpInv
    BY DEF StoreInv, DownInv
  <2>2. Base \in Seq(Cell) /\ Ascending(Base) /\ len \in Nat /\ len <= Len(log) /\ Len(log) \in Nat
    BY <2>1, BaseType
  <2>3. /\ snap \in SnapshotType /\ Sound(snap, Base) /\ Recovered(snap, Base) = applied
        /\ RecoveredHead(snap, Base) = head
    BY <2>1 DEF UpInv, SnapshotsInv
  <2>4. ~poisoned => log = Base
    BY <2>1 DEF UpInv, OpInv
  <2>5. ChainFollowsDisk
    BY <2>3, <2>4 DEF ChainFollowsDisk, Sound, CheckpointsTrue
  <2>6. BackupLog = Base
    BY <2>2 DEF BackupLog, Base
  <2>7. Startable(Base) /\ ~ChainBroken(snap, Base) /\ ValidPrefix(Base) = Base
    BY <2>2, <2>3, ReplayWhole DEF Sound
  <2>8. ASSUME ~poisoned
        PROVE  \E k \in 0 .. Len(applied) : ReadBack = SubSeq(applied, k + 1, Len(applied))
    <3>1. PICK s \in snapImages : s.seq = snapshot_sequence
      BY <2>1 DEF UpInv, SnapshotsInv
    <3>2. Recovered(s, Base) = applied /\ s.covers \in Seq(Nat) /\ s.seq \in Nat
      BY <2>1 DEF UpInv, SnapshotsInv, SnapshotType
    <3>3. ReadBack = Ids(Later(s.seq, Base)) /\ applied = s.covers \o Ids(Later(s.seq, Base))
      BY <2>4, <2>7, <2>8, <3>1, <3>2 DEF ReadBack, Recovered, RecoveredFrames
    <3>4. Ids(Later(s.seq, Base)) \in Seq(Nat)
      BY <2>2, <3>2, LaterType, IdsType
    <3>5. PICK p \in Seq(Nat), r \in Seq(Nat) : p = s.covers /\ r = ReadBack /\ applied = p \o r
      BY <3>2, <3>3, <3>4
    <3>6. Len(p) \in 0 .. Len(p \o r) /\ r = SubSeq(p \o r, Len(p) + 1, Len(p \o r))
      <4> DEFINE t == SubSeq(p \o r, Len(p) + 1, Len(p) + Len(r))
      <4>1. Len(p \o r) = Len(p) + Len(r) /\ Len(p) \in Nat /\ Len(r) \in Nat
        OBVIOUS
      <4>2. \A i \in Len(p) + 1 .. Len(p) + Len(r) : (p \o r)[i] \in Nat
        OBVIOUS
      <4>3. t \in Seq(Nat) /\ Len(t) = Len(r) /\ \A i \in 1 .. Len(r) : t[i] = (p \o r)[Len(p) + 1 + i - 1]
        BY <4>1, <4>2, SubSeqProperties
      <4>4. \A i \in 1 .. Len(r) : (p \o r)[Len(p) + 1 + i - 1] = r[i]
        OBVIOUS
      <4> HIDE DEF t
      <4>5. t = r
        BY <4>3, <4>4, SeqEqual
      <4> QED BY <4>1, <4>5 DEF t
    <3> QED BY <3>5, <3>6
  <2>9. CopiesAreInEffect
    BY <2>3, <2>6, <2>7, <2>8 DEF CopiesAreInEffect
  <2> QED BY <2>5, <2>9
<1> QED BY <1>1, Invariant, PTL

-----------------------------------------------------------------------------
(* The store implements DurableLog *)

\* With a history found that every other one continues by a record at most,
\* it is the sure one, and those records are the rest.
LEMMA View ==
  ASSUME NEW all, NEW a \in Seq(Nat), a \in all, \A h \in all : h = a \/ \E x \in Nat : h = Append(a, x)
  PROVE  Shortest(all) = a /\ Beyond(all) = {x \in Nat : Append(a, x) \in all}
<1>1. \A x \in Nat : /\ Append(a, x) \in Seq(Nat) /\ Len(Append(a, x)) = Len(a) + 1
                     /\ Append(a, x)[Len(a) + 1] = x
  OBVIOUS
<1>2. \A h \in all : Len(a) <= Len(h) /\ (Len(h) <= Len(a) => h = a)
  BY <1>1
<1>3. Shortest(all) \in all /\ \A g \in all : Len(Shortest(all)) <= Len(g)
  BY <1>2 DEF Shortest
<1>4. Shortest(all) = a
  BY <1>2, <1>3
<1> DEFINE B(h) == {h[i] : i \in Len(a) + 1 .. Len(h)}
<1>5. Beyond(all) = UNION {B(h) : h \in all}
  BY <1>4 DEF Beyond
<1>6. B(a) = {}
  OBVIOUS
<1>7. \A x \in Nat : B(Append(a, x)) = {x}
  <2> SUFFICES ASSUME NEW x \in Nat PROVE B(Append(a, x)) = {x}
    OBVIOUS
  <2>1. Len(a) + 1 .. Len(Append(a, x)) = {Len(a) + 1}
    BY <1>1
  <2> QED BY <1>1, <2>1
<1> HIDE DEF B
<1>8. Beyond(all) = {x \in Nat : Append(a, x) \in all}
  <2>1. ASSUME NEW y \in Beyond(all) PROVE y \in Nat /\ Append(a, y) \in all
    <3>1. PICK h \in all : y \in B(h)
      BY <1>5
    <3>2. PICK x \in Nat : h = Append(a, x)
      BY <1>6, <3>1
    <3> QED BY <1>7, <3>1, <3>2
  <2>2. ASSUME NEW x \in Nat, Append(a, x) \in all PROVE x \in Beyond(all)
    BY <1>5, <1>7, <2>2
  <2> QED BY <2>1, <2>2
<1> QED BY <1>4, <1>8

\* One history found is the sure one.
LEMMA ViewOne ==
  ASSUME NEW a \in Seq(Nat)
  PROVE  Shortest({a}) = a /\ Beyond({a}) = {}
<1>1. \A x \in Nat : Append(a, x) # a
  <2>1. \A x \in Nat : Len(Append(a, x)) = Len(a) + 1 /\ Len(a) \in Nat
    OBVIOUS
  <2> QED BY <2>1
<1>2. Shortest({a}) = a /\ Beyond({a}) = {x \in Nat : Append(a, x) \in {a}}
  BY View
<1> QED BY <1>1, <1>2

LEMMA FoundIs ==
  ASSUME NEW images, NEW snaps
  PROVE  FoundIn(images, snaps) = {Recovered(s, cells) : s \in snaps, cells \in images}
<1> DEFINE H(s, frames) == s.covers \o Ids(Later(s.seq, frames))
<1>1. \A s, cells : Recovered(s, cells) = H(s, ValidPrefix(cells))
  BY DEF Recovered, RecoveredFrames
<1>2. FoundIn(images, snaps) = {H(s, frames) : s \in snaps, frames \in {ValidPrefix(cells) : cells \in images}}
  BY DEF FoundIn
<1> HIDE DEF H
<1>3. ASSUME NEW h \in FoundIn(images, snaps)
      PROVE  h \in {Recovered(s, cells) : s \in snaps, cells \in images}
  BY <1>1, <1>2
<1>4. ASSUME NEW s \in snaps, NEW cells \in images
      PROVE  Recovered(s, cells) \in FoundIn(images, snaps)
  BY <1>1, <1>2
<1> QED BY <1>3, <1>4

LEMMA FoundNow ==
  /\ Found = {Recovered(s, cells) : s \in snapImages, cells \in logImages}
  /\ Found' = {Recovered(s, cells) : s \in snapImages', cells \in logImages'}
BY FoundIs DEF Found

\* What is in effect is found whenever a process runs, and nothing else but
\* that with the one record behind it.
LEMMA UpFound ==
  ASSUME StoreInv, UpInv
  PROVE  /\ applied \in Seq(Nat) /\ applied \in Found
         /\ \A h \in Found : h = applied \/ \E x \in Nat : h = Append(applied, x)
         /\ \A x, y \in Nat : Append(applied, x) \in Found /\ Append(applied, y) \in Found => x = y
<1>1. applied \in Seq(Nat)
  BY DEF UpInv, MemoryInv
<1>2. Base \in Seq(Cell) /\ Ascending(Base)
  BY BaseType
<1>3. applied \in Found
  <2>1. snap \in snapImages /\ Recovered(snap, Base) = applied /\ Base \in logImages
    BY DEF UpInv, SnapshotsInv, ImagesInv
  <2> QED BY <2>1, FoundNow
<1>4. ASSUME NEW cells \in logImages, NEW s \in snapImages, Recovered(s, cells) # applied
      PROVE  \E f : cells = Append(Base, f) /\ f \in Cell /\ IsFrame(f) /\ Recovered(s, cells) = Append(applied, f.id)
  <2>1. /\ s \in SnapshotType /\ Sound(s, Base) /\ Recovered(s, Base) = applied
        /\ \/ cells = Base \/ cells = Append(Base, Torn)
           \/ \E f : cells = Append(Base, f) /\ Fits(f, Base, RecoveredHead(s, Base))
    BY UpImage
  <2>2. \/ Recovered(s, cells) = Recovered(s, Base)
        \/ \E f : /\ cells = Append(Base, f) /\ Follows(f, Base) /\ f.seq > s.seq
                  /\ Recovered(s, cells) = Append(Recovered(s, Base), f.id)
    BY <1>2, <2>1, ImageFound
  <2> QED BY <1>4, <2>1, <2>2 DEF Follows
<1>5. \A h \in Found : h = applied \/ \E x \in Nat : h = Append(applied, x)
  <2> SUFFICES ASSUME NEW cells \in logImages, NEW s \in snapImages, Recovered(s, cells) # applied
               PROVE  \E x \in Nat : Recovered(s, cells) = Append(applied, x)
    BY FoundNow
  <2>1. PICK f : f \in Cell /\ Recovered(s, cells) = Append(applied, f.id)
    BY <1>4
  <2>2. f.id \in Nat
    BY <2>1 DEF Cell
  <2> QED BY <2>1, <2>2
<1>6. ASSUME NEW x \in Nat, NEW y \in Nat, Append(applied, x) \in Found, Append(applied, y) \in Found
      PROVE  x = y
  <2>1. PICK c \in logImages, s \in snapImages : Recovered(s, c) = Append(applied, x)
    BY <1>6, FoundNow
  <2>2. PICK d \in logImages, t \in snapImages : Recovered(t, d) = Append(applied, y)
    BY <1>6, FoundNow
  <2>3. Append(applied, x) # applied /\ Append(applied, y) # applied
    <3>1. \A z \in Nat : Len(Append(applied, z)) = Len(applied) + 1 /\ Len(applied) \in Nat
      BY <1>1
    <3> QED BY <3>1
  <2>4. PICK f : c = Append(Base, f) /\ f \in Cell /\ IsFrame(f) /\ Append(applied, x) = Append(applied, f.id)
    BY <1>4, <2>1, <2>3
  <2>5. PICK g : d = Append(Base, g) /\ g \in Cell /\ IsFrame(g) /\ Append(applied, y) = Append(applied, g.id)
    BY <1>4, <2>2, <2>3
  <2>6. \A e \in Cell : IsFrame(e) => Append(Base, e) \notin {Base, Append(Base, Torn)}
    <3> SUFFICES ASSUME NEW e \in Cell, IsFrame(e) PROVE Append(Base, e) # Base /\ Append(Base, e) # Append(Base, Torn)
      OBVIOUS
    <3>1. Len(Append(Base, e)) = Len(Base) + 1 /\ Append(Base, e)[Len(Base) + 1] = e
      BY <1>2
    <3>2. Append(Base, Torn)[Len(Base) + 1] = Torn /\ e # Torn /\ Len(Base) \in Nat
      BY <1>2, TornIsNoFrame
    <3> QED BY <3>1, <3>2
  <2>7. c = d
    BY <2>4, <2>5, <2>6 DEF UpInv, ImagesInv
  <2>8. f = g
    <3>1. Append(Base, f)[Len(Base) + 1] = f /\ Append(Base, g)[Len(Base) + 1] = g
      BY <1>2, <2>4, <2>5
    <3> QED BY <2>4, <2>5, <2>7, <3>1
  <2>9. \A z \in Nat : Append(applied, z)[Len(applied) + 1] = z
    BY <1>1
  <2>10. f.id \in Nat
    BY <2>4 DEF Cell
  <2> QED BY <2>4, <2>5, <2>8, <2>9, <2>10
<1> QED BY <1>1, <1>3, <1>5, <1>6

LEMMA DownFound ==
  ASSUME StoreInv, DownInv
  PROVE  Found = {Recovered(snap, log)} /\ Recovered(snap, log) \in Seq(Nat)
<1>1. Found = {Recovered(snap, log)}
  BY FoundNow DEF DownInv
<1> DEFINE b == ValidPrefix(log)
<1>2. /\ snap \in SnapshotType /\ b \in Seq(Cell) /\ Ascending(b) /\ log \in {b, Append(b, Torn)}
  BY DEF DownInv
<1> HIDE DEF b
<1>3. Recovered(snap, log) = Recovered(snap, b)
  BY <1>2, RecoverTorn
<1> QED BY <1>1, <1>2, <1>3, RecoverType

\* A snapshot of what is in effect covers whatever the log may be left with.
LEMMA FullFound ==
  ASSUME StoreInv, UpInv, NEW cells \in logImages
  PROVE  Recovered(Snapshot(sequence, head, applied), cells) = applied
<1> DEFINE new == Snapshot(sequence, head, applied)
<1>1. Base \in Seq(Cell) /\ Ascending(Base) /\ sequence \in Nat /\ \A i \in DOMAIN Base : Base[i].seq <= sequence
  BY BaseType DEF UpInv, MemoryInv
<1>2. new \in SnapshotType /\ new.seq = sequence /\ Recovered(new, Base) = applied
  BY <1>1, FullSnapshot
<1> HIDE DEF new
<1>3. CASE cells = Base
  BY <1>2, <1>3 DEF new
<1>4. CASE cells = Append(Base, Torn)
  BY <1>1, <1>2, <1>4, RecoverTorn DEF new
<1>5. ASSUME NEW f, cells = Append(Base, f), Extra(f)
      PROVE  Recovered(new, cells) = applied
  <2>1. Follows(f, Base) /\ f.seq <= sequence /\ f.seq \in Nat
    BY <1>5 DEF Extra, Fits, Follows, Cell
  <2>2. ~(f.seq > new.seq)
    BY <1>1, <1>2, <2>1
  <2> QED BY <1>1, <1>2, <1>5, <2>1, <2>2, RecoverAppend
<1> QED BY <1>3, <1>4, <1>5 DEF UpInv, ImagesInv, new

\* What a step may do to what a restart would find: nothing, settle on one of
\* the histories, or put one new record in doubt.
Settles == \E h \in Found : Found' = {h}
Doubts ==
  /\ Found = {applied} /\ applied \in Seq(Nat)
  /\ \E x \in 1 .. MaxAppends :
       /\ \A i \in DOMAIN applied : applied[i] # x
       /\ Found' = {applied, Append(applied, x)}

LEMMA SettlesMaps ==
  ASSUME StoreInv, UpInv, Settles
  PROVE  [Abstract!Next]_(Abstract!vars)
<1>1. PICK h \in Found : Found' = {h}
  BY DEF Settles
<1>2. /\ applied \in Seq(Nat) /\ applied \in Found
      /\ \A g \in Found : g = applied \/ \E x \in Nat : g = Append(applied, x)
      /\ \A x, y \in Nat : Append(applied, x) \in Found /\ Append(applied, y) \in Found => x = y
  BY UpFound
<1>3. Sure = applied /\ Maybe = {x \in Nat : Append(applied, x) \in Found}
  BY <1>2, View DEF Sure, Maybe
<1>4. h \in Seq(Nat)
  BY <1>2
<1>5. Sure' = h /\ Maybe' = {}
  BY <1>1, <1>4, ViewOne DEF Sure, Maybe
<1>6. CASE h = applied
  BY <1>3, <1>5, <1>6 DEF Abstract!Next, Abstract!Discard, Abstract!vars
<1>7. CASE h # applied
  <2>1. PICK x \in Nat : h = Append(applied, x)
    BY <1>2, <1>7
  <2>2. x \in Maybe
    BY <1>3, <2>1
  <2> QED BY <1>3, <1>5, <2>1, <2>2 DEF Abstract!Next, Abstract!Commit
<1> QED BY <1>6, <1>7

LEMMA DoubtsMaps ==
  ASSUME Doubts
  PROVE  Abstract!Submit
<1>1. PICK x \in 1 .. MaxAppends :
       /\ \A i \in DOMAIN applied : applied[i] # x
       /\ Found' = {applied, Append(applied, x)}
  BY DEF Doubts
<1>2. Found = {applied} /\ applied \in Seq(Nat) /\ x \in Nat
  BY DEF Doubts
<1>3. Sure = applied /\ Maybe = {}
  BY <1>2, ViewOne DEF Sure, Maybe
<1>4. PICK a : a = applied
  OBVIOUS
<1> DEFINE all == {a, Append(a, x)}
<1>5. Shortest(all) = a /\ Beyond(all) = {y \in Nat : Append(a, y) \in all}
  <2>1. a \in Seq(Nat) /\ a \in all /\ \A h \in all : h = a \/ \E y \in Nat : h = Append(a, y)
    BY <1>2, <1>4
  <2> HIDE DEF all
  <2> QED BY <2>1, View
<1>6. \A y \in Nat : Append(a, y) \in all <=> y = x
  <2>1. \A y \in Nat : Len(Append(a, y)) = Len(a) + 1 /\ Append(a, y)[Len(a) + 1] = y /\ Len(a) \in Nat
    BY <1>2, <1>4
  <2> QED BY <1>2, <2>1
<1>7. Found' = all
  BY <1>1, <1>4
<1> HIDE DEF all
<1>8. Sure' = a /\ Maybe' = {x}
  BY <1>2, <1>5, <1>6, <1>7 DEF Sure, Maybe
<1> QED BY <1>1, <1>3, <1>4, <1>8 DEF Abstract!Submit

LEMMA OpenFinds ==
  ASSUME StoreInv, Open
  PROVE  Found' = Found
<1>1. DownInv
  BY DEF Open, StoreInv, UpInv, OpInv
<1> DEFINE b == ValidPrefix(log)
<1>2. /\ snapImages = {snap} /\ snap \in SnapshotType /\ b \in Seq(Cell) /\ Ascending(b)
      /\ log = b \/ log = Append(b, Torn)
      /\ logImages = {log}
  BY <1>1 DEF DownInv
<1>3. snapImages' = snapImages /\ (logImages' = {b} \/ logImages' = logImages)
  BY DEF Open, LogSynced, LogUnchanged, SnapUnchanged
<1> HIDE DEF b
<1>4. Recovered(snap, b) = Recovered(snap, log)
  BY <1>2, RecoverTorn
<1> QED BY <1>2, <1>3, <1>4, FoundNow

LEMMA WriteFinds ==
  ASSUME StoreInv, NEW kind \in Kinds, AppendWrite(kind)
  PROVE  UpInv /\ (Settles \/ Doubts)
<1>0. PICK f : f = NewFrame(kind)
  OBVIOUS
<1>1. /\ op \in {"idle", "checkpoint"} /\ ~poisoned /\ issued < MaxAppends /\ snapImages' = snapImages
  BY DEF AppendWrite, Allocate, SnapUnchanged
<1>2. /\ UpInv /\ issued \in Nat /\ sequence \in Nat /\ applied \in Seq(Nat)
      /\ log = Base /\ logImages = {Base} /\ \A i \in DOMAIN applied : applied[i] \in 1 .. issued
  BY <1>1 DEF StoreInv, DownInv, UpInv, MemoryInv, OpInv
<1>3. /\ Base \in Seq(Cell) /\ Ascending(Base) /\ Follows(f, Base) /\ f.seq = sequence + 1 /\ f.id = issued + 1
  BY <1>0, <1>2, BaseType, NewFrameFits DEF Fits
<1>4. \A s \in snapImages :
        /\ Recovered(s, Base) = applied /\ Recovered(s, Append(Base, Torn)) = applied
        /\ Recovered(s, Append(Base, f)) = Append(applied, issued + 1)
  <2> SUFFICES ASSUME NEW s \in snapImages
               PROVE  /\ Recovered(s, Base) = applied /\ Recovered(s, Append(Base, Torn)) = applied
                      /\ Recovered(s, Append(Base, f)) = Append(applied, issued + 1)
    OBVIOUS
  <2>1. s \in SnapshotType /\ s.seq <= sequence /\ Recovered(s, Base) = applied
    BY <1>2 DEF UpInv, SnapshotsInv
  <2>2. f.seq > s.seq
    <3>1. s.seq \in Nat
      BY <2>1 DEF SnapshotType
    <3> QED BY <1>2, <1>3, <2>1, <3>1
  <2> QED BY <1>3, <2>1, <2>2, RecoverTorn, RecoverAppend
<1>5. snapImages # {}
  BY <1>2 DEF UpInv, SnapshotsInv
<1>6. Found = {applied}
  BY <1>2, <1>4, <1>5, FoundNow
<1>7. CASE LogWritten(Torn)
  <2>1. logImages' = {Base, Append(Base, Torn)}
    BY <1>2, <1>7 DEF LogWritten
  <2>2. Found' = {applied}
    BY <1>1, <1>4, <1>5, <2>1, FoundNow
  <2> QED BY <1>2, <1>6, <2>2 DEF Settles
<1>8. CASE LogWritten(f)
  <2>1. logImages' = {Base, Append(Base, f), Append(Base, Torn)}
    BY <1>2, <1>8 DEF LogWritten
  <2>2. Found' = {applied, Append(applied, issued + 1)}
    BY <1>1, <1>4, <1>5, <2>1, FoundNow
  <2>3. issued + 1 \in 1 .. MaxAppends /\ \A i \in DOMAIN applied : applied[i] # issued + 1
    BY <1>1, <1>2, BoundAssumption
  <2> QED BY <1>2, <1>6, <2>2, <2>3 DEF Doubts
<1> QED BY <1>0, <1>7, <1>8 DEF AppendWrite

LEMMA SyncFinds ==
  ASSUME StoreInv, AppendSync
  PROVE  UpInv /\ Settles
<1>1. op = "sync" /\ logImages' = {log} /\ snapImages' = snapImages
  BY DEF AppendSync, LogSynced, SnapUnchanged
<1>2. UpInv
  BY <1>1 DEF StoreInv, DownInv
<1>3. /\ log = Append(Base, inflight) /\ Extra(inflight) /\ log \in logImages
      /\ snap \in snapImages /\ applied \in Seq(Nat)
      /\ \A s \in snapImages : s \in SnapshotType /\ s.seq < inflight.seq /\ Recovered(s, Base) = applied
  BY <1>1, <1>2 DEF UpInv, OpInv, ImagesInv, SnapshotsInv, MemoryInv
<1>4. Follows(inflight, Base) /\ inflight.seq \in Nat /\ Base \in Seq(Cell) /\ Ascending(Base)
  BY <1>2, <1>3, BaseType DEF Extra, Fits, Follows, Cell
<1>5. ASSUME NEW s \in snapImages PROVE Recovered(s, log) = Append(applied, inflight.id)
  <2>1. s \in SnapshotType /\ s.seq \in Nat /\ s.seq < inflight.seq
    BY <1>3 DEF SnapshotType
  <2> QED BY <1>3, <1>4, <2>1, RecoverAppend
<1>6. PICK h : h = Append(applied, inflight.id)
  OBVIOUS
<1>7. \A s \in snapImages : Recovered(s, log) = h
  BY <1>5, <1>6
<1>8. h \in Found
  BY <1>3, <1>7, FoundNow
<1>9. Found' = {h}
  <2>1. snapImages # {} /\ \A s \in snapImages' : Recovered(s, log) = h
    BY <1>1, <1>3, <1>7
  <2> QED BY <1>1, <2>1, FoundNow
<1> QED BY <1>2, <1>8, <1>9 DEF Settles

LEMMA RollBackFinds ==
  ASSUME StoreInv, RollBack
  PROVE  UpInv /\ (Found' = Found \/ Settles)
<1>1. op = "cut" /\ snapImages' = snapImages
  BY DEF RollBack, SnapUnchanged
<1>2. UpInv
  BY <1>1 DEF StoreInv, DownInv
<1>3. /\ Base \in logImages /\ snap \in snapImages /\ \A s \in snapImages : Recovered(s, Base) = applied
      /\ Resized(log, len) = Base
  BY <1>2, ResizedIsBase DEF UpInv, ImagesInv, SnapshotsInv
<1>4. logImages' = {Base} \/ logImages' = logImages
  BY <1>3 DEF RollBack, LogSynced, LogCut, LogUnchanged
<1>5. CASE logImages' = {Base}
  <2>1. Found' = {applied} /\ applied \in Found
    BY <1>1, <1>3, <1>5, FoundNow
  <2> QED BY <1>2, <2>1 DEF Settles
<1>6. CASE logImages' = logImages
  BY <1>1, <1>2, <1>6, FoundNow
<1> QED BY <1>4, <1>5, <1>6

LEMMA CompactWriteFinds ==
  ASSUME StoreInv, CompactWrite
  PROVE  UpInv /\ (Found' = Found \/ Settles)
<1> DEFINE new == Snapshot(sequence, head, applied)
<1>1. /\ op = "idle" /\ logImages' = logImages
      /\ snapImages' = {new} \/ snapImages' = snapImages \cup {new}
  BY DEF CompactWrite, LogUnchanged
<1>2. UpInv
  BY <1>1 DEF StoreInv, DownInv
<1>3. logImages # {} /\ \A cells \in logImages : Recovered(new, cells) = applied
  BY <1>2, FullFound DEF UpInv, ImagesInv
<1>4. applied \in Found
  BY <1>2, UpFound
<1> HIDE DEF new
<1>5. CASE snapImages' = {new}
  <2>1. Found' = {applied}
    BY <1>1, <1>3, <1>5, FoundNow
  <2> QED BY <1>2, <1>4, <2>1 DEF Settles
<1>6. CASE snapImages' = snapImages \cup {new}
  <2>1. Found' = Found \cup {applied}
    BY <1>1, <1>3, <1>6, FoundNow
  <2> QED BY <1>2, <1>4, <2>1
<1> QED BY <1>1, <1>5, <1>6

LEMMA CompactResetFinds ==
  ASSUME StoreInv, CompactReset, "reset" \notin Faults
  PROVE  UpInv /\ Settles
<1> DEFINE new == Snapshot(sequence, head, applied)
<1>1. op = "reset" /\ logImages' = {<<>>} /\ snapImages' = snapImages
  BY DEF CompactReset, LogSynced, SnapUnchanged
<1>2. UpInv /\ snapImages = {new}
  BY <1>1 DEF StoreInv, DownInv, UpInv, OpInv
<1>3. Recovered(new, <<>>) = applied
  <2>1. <<>> \in Seq(Cell) /\ Ascending(<<>>) /\ \A i \in DOMAIN <<>> : <<>>[i].seq <= sequence
    BY DEF Ascending
  <2> QED BY <1>2, <2>1, FullSnapshot
<1>4. applied \in Found
  BY <1>2, UpFound
<1> HIDE DEF new
<1>5. Found' = {applied}
  BY <1>1, <1>2, <1>3, FoundNow
<1> QED BY <1>2, <1>4, <1>5 DEF Settles

LEMMA PowerLossFinds ==
  ASSUME StoreInv, PowerLoss
  PROVE  UpInv /\ Settles
<1>1. PICK cells \in logImages : logImages' = {cells}
  BY DEF PowerLoss, LogSynced
<1>2. PICK s \in snapImages : snapImages' = {s}
  BY DEF PowerLoss
<1>3. UpInv
  BY DEF PowerLoss, StoreInv, DownInv
<1>4. Recovered(s, cells) \in Found /\ Found' = {Recovered(s, cells)}
  BY <1>1, <1>2, FoundNow
<1> QED BY <1>3, <1>4 DEF Settles

LEMMA StepMaps ==
  ASSUME "reset" \notin Faults, StoreInv, [StoreNext]_storeVars
  PROVE  [Abstract!Next]_(Abstract!vars)
<1>1. ASSUME Found' = Found PROVE [Abstract!Next]_(Abstract!vars)
  BY <1>1 DEF Sure, Maybe, Abstract!vars
<1>2. CASE UNCHANGED <<logImages, snapImages>>
  BY <1>1, <1>2, FoundNow
<1>3. CASE UNCHANGED storeVars \/ SyncFails \/ \E kind \in Kinds : AppendRefused(kind)
  BY <1>2, <1>3 DEF storeVars, disk, SyncFails, AppendRefused
<1>4. CASE Open
  BY <1>1, <1>4, OpenFinds
<1>5. CASE \E kind \in Kinds : AppendWrite(kind)
  BY <1>5, WriteFinds, SettlesMaps, DoubtsMaps DEF Abstract!Next
<1>6. CASE AppendSync \/ RollBack \/ CompactWrite \/ CompactReset \/ PowerLoss
  BY <1>1, <1>6, SyncFinds, RollBackFinds, CompactWriteFinds, CompactResetFinds, PowerLossFinds, SettlesMaps
<1> QED BY <1>3, <1>4, <1>5, <1>6 DEF StoreNext

\* Seen through what a restart finds, log, snapshot, roll-back and compaction
\* implement a history that only grows, with at most one record in doubt.
THEOREM Refinement == "reset" \notin Faults /\ StoreSpec => ImplementsDurableLog
<1> SUFFICES ASSUME "reset" \notin Faults PROVE StoreSpec => ImplementsDurableLog
  OBVIOUS
<1>1. StoreInit => Abstract!Init
  <2> SUFFICES ASSUME StoreInit PROVE Sure = <<>> /\ Maybe = {}
    BY DEF Abstract!Init
  <2>1. StoreInv /\ DownInv
    BY InitStep DEF StoreInit, StoreInv, UpInv, OpInv
  <2>2. <<>> \in Seq(Cell) /\ Ascending(<<>>) /\ \A i \in DOMAIN <<>> : <<>>[i].seq <= NoSnapshot.seq
    BY DEF Ascending
  <2>3. NoSnapshot \in SnapshotType /\ NoSnapshot.covers = <<>>
    BY DEF NoSnapshot, Snapshot, SnapshotType
  <2>4. Recovered(NoSnapshot, <<>>) = <<>>
    BY <2>2, <2>3, RecoverCovered
  <2>5. Found = {<<>>} /\ <<>> \in Seq(Nat)
    BY <2>1, <2>4, DownFound DEF StoreInit
  <2> QED BY <2>5, ViewOne DEF Sure, Maybe
<1>2. StoreInv /\ [StoreNext]_storeVars => [Abstract!Next]_(Abstract!vars)
  BY StepMaps
<1>3. StoreSpec => []StoreInv
  BY Invariant
<1> QED BY <1>1, <1>2, <1>3, PTL DEF StoreSpec, ImplementsDurableLog, Abstract!Spec
=============================================================================
