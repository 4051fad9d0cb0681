----------------------- MODULE ExecutionLimiterProofs -----------------------
(***************************************************************************)
(* Proofs about ExecutionLimiter: its bookkeeping is exact, its limits     *)
(* hold, and it implements SlotAllocator and so serves equal demands in     *)
(* order, for any number of requests, users and devices and for any limits. *)
(***************************************************************************)
EXTENDS ExecutionLimiter, FiniteSetTheorems, WellFoundedInduction, TLAPS

-----------------------------------------------------------------------------
(* Sets of requests and their arrival numbers.                             *)

\* A set of natural numbers that is not empty has a least element.
LEMMA LeastNatural ==
    ASSUME NEW S \in SUBSET Nat, S # {}
    PROVE  \E m \in S : \A n \in S : m <= n
<1> DEFINE R == OpToRel(<, Nat)
<1>1. \E m \in S : \A n \in S : <<n, m>> \notin R
  <2>1. IsWellFoundedOn(R, Nat)
    BY NatLessThanWellFounded
  <2> HIDE DEF R
  <2> QED
    BY <2>1, WFMin, Zenon
<1>2. \A m, n \in Nat : m < n => <<m, n>> \in R
  BY DEF OpToRel
<1> HIDE DEF R
<1>3. PICK m \in S : \A n \in S : <<n, m>> \notin R
  BY <1>1
<1>4. \A n \in S : ~(n < m)
  BY <1>2, <1>3, Zenon
<1> QED
  BY <1>4

\* Among requests whose arrival numbers are bounded one arrived last.
LEMMA LastArrival ==
    ASSUME NEW q \in [Waiters -> Nat], NEW N \in Nat,
           NEW S \in SUBSET Waiters, S # {}, \A w \in S : q[w] <= N
    PROVE  \E w \in S : \A v \in S : q[v] <= q[w]
<1> DEFINE T == {N - q[w] : w \in S}
<1>1. T \in SUBSET Nat /\ T # {}
  OBVIOUS
<1>2. PICK m \in T : \A n \in T : m <= n
  BY <1>1, LeastNatural
<1>3. PICK w \in S : m = N - q[w]
  OBVIOUS
<1>4. ASSUME NEW v \in S
      PROVE  q[v] <= q[w]
  <2>1. m <= N - q[v]
    BY <1>2
  <2> QED
    BY <2>1, <1>3
<1> QED
  BY <1>4

-----------------------------------------------------------------------------
(* The bookkeeping s against the set H of requests that hold a slot.       *)

SlotsType == [count : Nat, users : [Users -> Nat], owners : [Devices -> Users \cup {NoUser}]]

OfUser(H, u) == {w \in H : demand[w].user = u}

\* The counters of s account for the requests H and for nothing else.
Exact(s, H) ==
    /\ s.count = Cardinality(H)
    /\ \A u \in Users : s.users[u] = Cardinality(OfUser(H, u))
    /\ \A d \in Devices : s.owners[d] = NoUser <=> \A w \in H : demand[w].device # d

\* The requests H stay within the limits and own their devices.
Within(s, H) ==
    /\ Cardinality(H) <= MaxGlobal
    /\ \A u \in Users : Cardinality(OfUser(H, u)) <= MaxPerUser
    /\ \A v, w \in H : demand[v].device = demand[w].device /\ demand[v].device # NoDevice => v = w
    /\ \A w \in H : demand[w].device # NoDevice => s.owners[demand[w].device] = demand[w].user

\* A finite set split in two disjoint parts.
LEMMA DisjointCardinality ==
    ASSUME NEW A \in SUBSET Waiters, NEW B \in SUBSET Waiters, A \cap B = {}
    PROVE  /\ Cardinality(A) \in Nat
           /\ Cardinality(B) \in Nat
           /\ Cardinality(A \cup B) = Cardinality(A) + Cardinality(B)
<1>1. IsFiniteSet(A) /\ IsFiniteSet(B)
  BY LimiterAssumption, FS_Subset
<1>2. Cardinality(A \cup B) = Cardinality(A) + Cardinality(B) - Cardinality(A \cap B)
  BY <1>1, FS_Union
<1>3. Cardinality(A \cap B) = 0
  BY FS_EmptySet
<1>4. Cardinality(A) \in Nat /\ Cardinality(B) \in Nat
  BY <1>1, FS_CardinalityType
<1> QED
  BY <1>2, <1>3, <1>4

\* Cardinality grows with the set.
LEMMA SubsetCardinality ==
    ASSUME NEW B \in SUBSET Waiters, NEW A \in SUBSET B
    PROVE  Cardinality(A) \in Nat /\ Cardinality(B) \in Nat /\ Cardinality(A) <= Cardinality(B)
BY LimiterAssumption, FS_Subset, FS_CardinalityType

\* Admitting requests keeps the counters in range ...
LEMMA AdmitType ==
    ASSUME NEW s \in SlotsType, NEW ws \in SUBSET Waiters, demand \in [Waiters -> Demands]
    PROVE  Admit(s, ws) \in SlotsType
<1>1. Cardinality(ws) \in Nat
  BY SubsetCardinality
<1>2. \A u \in Users : Cardinality({w \in ws : demand[w].user = u}) \in Nat
  <2> TAKE u \in Users
  <2>1. {w \in ws : demand[w].user = u} \in SUBSET Waiters
    OBVIOUS
  <2> QED
    BY <2>1, SubsetCardinality
<1>3. ASSUME NEW d \in Devices, \E w \in ws : demand[w].device = d
      PROVE  demand[CHOOSE w \in ws : demand[w].device = d].user \in Users
  BY <1>3 DEF Demands
<1> QED
  BY <1>1, <1>2, <1>3 DEF Admit, SlotsType

\* ... and exact.
LEMMA AdmitExact ==
    ASSUME NEW s \in SlotsType, NEW H \in SUBSET Waiters, NEW ws \in SUBSET Waiters,
           demand \in [Waiters -> Demands], H \cap ws = {}, Exact(s, H)
    PROVE  Exact(Admit(s, ws), H \cup ws)
<1> DEFINE a == Admit(s, ws)
<1>1. a.count = Cardinality(H \cup ws)
  BY DisjointCardinality DEF Admit, Exact
<1>2. ASSUME NEW u \in Users
      PROVE  a.users[u] = Cardinality(OfUser(H \cup ws, u))
  <2>1. OfUser(H \cup ws, u) = OfUser(H, u) \cup OfUser(ws, u)
    BY DEF OfUser
  <2>2. /\ OfUser(H, u) \in SUBSET Waiters
        /\ OfUser(ws, u) \in SUBSET Waiters
        /\ OfUser(H, u) \cap OfUser(ws, u) = {}
    BY DEF OfUser
  <2>3. Cardinality(OfUser(H \cup ws, u)) = Cardinality(OfUser(H, u)) + Cardinality(OfUser(ws, u))
    BY <2>1, <2>2, DisjointCardinality
  <2>4. a.users[u] = s.users[u] + Cardinality(OfUser(ws, u))
    BY DEF Admit, OfUser
  <2> QED
    BY <2>3, <2>4 DEF Exact
<1>3. ASSUME NEW d \in Devices
      PROVE  a.owners[d] = NoUser <=> \A w \in H \cup ws : demand[w].device # d
  <2>1. CASE \E w \in ws : demand[w].device = d
    <3>1. demand[CHOOSE w \in ws : demand[w].device = d].user \in Users
      BY <2>1 DEF Demands
    <3> QED
      BY <2>1, <3>1, LimiterAssumption DEF Admit
  <2>2. CASE ~ \E w \in ws : demand[w].device = d
    BY <2>2 DEF Admit, Exact
  <2> QED
    BY <2>1, <2>2
<1> QED
  BY <1>1, <1>2, <1>3 DEF Exact

\* Giving back the slot of one holder keeps the bookkeeping exact, in range and
\* within the limits.
LEMMA ReleaseExact ==
    ASSUME NEW s \in SlotsType, NEW H \in SUBSET Waiters, NEW w \in H,
           demand \in [Waiters -> Demands], Exact(s, H), Within(s, H)
    PROVE  /\ ReleaseCounts(s, w) \in SlotsType
           /\ Exact(ReleaseCounts(s, w), H \ {w})
           /\ Within(ReleaseCounts(s, w), H \ {w})
<1> DEFINE r == ReleaseCounts(s, w)
           rest == H \ {w}
           me == demand[w]
<1>1. me \in Demands
  OBVIOUS
<1>2. r \in SlotsType
  BY <1>1 DEF ReleaseCounts, SlotsType, Demands
<1>3. IsFiniteSet(H)
  BY LimiterAssumption, FS_Subset
<1>4. /\ Cardinality(H) \in Nat
      /\ Cardinality(rest) = Cardinality(H) - 1
      /\ Cardinality(rest) \in Nat
  <2>1. IsFiniteSet(rest) /\ Cardinality(rest) = Cardinality(H) - 1
    BY <1>3, FS_RemoveElement
  <2> QED
    BY <2>1, <1>3, FS_CardinalityType
<1>5. r.count = Cardinality(rest)
  BY <1>4 DEF Exact, ReleaseCounts
<1>6. ASSUME NEW u \in Users
      PROVE  /\ r.users[u] = Cardinality(OfUser(rest, u))
             /\ Cardinality(OfUser(rest, u)) <= Cardinality(OfUser(H, u))
             /\ Cardinality(OfUser(rest, u)) \in Nat
             /\ Cardinality(OfUser(H, u)) \in Nat
  <2>1. IsFiniteSet(OfUser(H, u))
    BY <1>3, FS_Subset DEF OfUser
  <2>2. Cardinality(OfUser(H, u)) \in Nat /\ s.users[u] = Cardinality(OfUser(H, u))
    BY <2>1, FS_CardinalityType DEF Exact
  <2>3. CASE u = me.user
    <3>1. OfUser(rest, u) = OfUser(H, u) \ {w} /\ w \in OfUser(H, u)
      BY <2>3 DEF OfUser
    <3>a. /\ IsFiniteSet(OfUser(H, u) \ {w})
          /\ Cardinality(OfUser(H, u) \ {w}) = Cardinality(OfUser(H, u)) - 1
      BY <2>1, <3>1, FS_RemoveElement
    <3>2. /\ IsFiniteSet(OfUser(rest, u))
          /\ Cardinality(OfUser(rest, u)) = Cardinality(OfUser(H, u)) - 1
      BY <3>1, <3>a, Zenon
    <3>3. Cardinality(OfUser(rest, u)) \in Nat
      BY <3>2, FS_CardinalityType
    <3>4. r.users[u] = s.users[u] - 1
      BY <2>2, <2>3, <3>2, <3>3 DEF ReleaseCounts, SlotsType
    <3> QED
      BY <2>2, <3>2, <3>3, <3>4
  <2>4. CASE u # me.user
    <3>1. OfUser(rest, u) = OfUser(H, u)
      BY <2>4 DEF OfUser
    <3>2. r.users[u] = s.users[u]
      BY <2>4, <1>1 DEF ReleaseCounts, SlotsType
    <3> QED
      BY <2>2, <3>1, <3>2
  <2> QED
    BY <2>3, <2>4
<1>7. ASSUME NEW d \in Devices
      PROVE  r.owners[d] = NoUser <=> \A v \in rest : demand[v].device # d
  <2>1. CASE d = me.device
    <3>1. r.owners[d] = NoUser
      BY <2>1 DEF ReleaseCounts
    <3>2. \A v \in rest : demand[v].device # d
      BY <2>1, LimiterAssumption DEF Within
    <3> QED
      BY <3>1, <3>2
  <2>2. CASE d # me.device
    <3>1. r.owners[d] = s.owners[d]
      BY <2>2 DEF ReleaseCounts
    <3> QED
      BY <3>1, <2>2 DEF Exact
  <2> QED
    BY <2>1, <2>2
<1>8. Exact(r, rest)
  BY <1>5, <1>6, <1>7 DEF Exact
<1>9. Within(r, rest)
  <2>1. Cardinality(rest) <= MaxGlobal
    BY <1>4, LimiterAssumption DEF Within
  <2>2. \A u \in Users : Cardinality(OfUser(rest, u)) <= MaxPerUser
    <3> TAKE u \in Users
    <3>1. Cardinality(OfUser(H, u)) <= MaxPerUser /\ MaxPerUser \in Nat
      BY LimiterAssumption DEF Within
    <3>2. /\ Cardinality(OfUser(rest, u)) <= Cardinality(OfUser(H, u))
          /\ Cardinality(OfUser(rest, u)) \in Nat
          /\ Cardinality(OfUser(H, u)) \in Nat
      BY <1>6
    <3> HIDE DEF rest
    <3> QED
      BY <3>1, <3>2
  <2>3. \A v, x \in rest :
           demand[v].device = demand[x].device /\ demand[v].device # NoDevice => v = x
    BY DEF Within
  <2>4. ASSUME NEW v \in rest, demand[v].device # NoDevice
        PROVE  r.owners[demand[v].device] = demand[v].user
    <3>1. demand[v].device \in Devices
      BY <2>4 DEF Demands
    <3>2. demand[v].device # me.device
      BY <2>4 DEF Within
    <3>3. r.owners[demand[v].device] = s.owners[demand[v].device]
      BY <3>1, <3>2 DEF ReleaseCounts
    <3> QED
      BY <2>4, <3>3 DEF Within
  <2> QED
    BY <2>1, <2>2, <2>3, <2>4 DEF Within
<1> QED
  BY <1>2, <1>8, <1>9

-----------------------------------------------------------------------------
(* The scan of the queue.                                                  *)

\* Arrival numbers of different queued requests differ, and none exceeds N.
Numbered(q, st, N) ==
    /\ \A w \in Waiting(q, st) : q[w] <= N
    /\ \A v, w \in Waiting(q, st) : q[v] = q[w] => v = w

\* The requests of ws that arrived before w.
Earlier(q, ws, w) == {v \in ws : q[v] < q[w]}

\* What the scan admits stays within the limits, although each request is
\* tested only against the requests admitted before it.
LEMMA ScanWithin ==
    ASSUME NEW s \in SlotsType, NEW H \in SUBSET Waiters, NEW ws \in SUBSET Waiters,
           NEW q \in [Waiters -> Nat], NEW st, NEW N \in Nat,
           demand \in [Waiters -> Demands],
           Exact(s, H), Within(s, H), Numbered(q, st, N),
           ScanGrants(s, q, st, ws), H \cap ws = {}
    PROVE  Within(Admit(s, ws), H \cup ws)
<1> DEFINE a == Admit(s, ws)
           all == H \cup ws
<1>1. /\ ws \subseteq Waiting(q, st)
      /\ \A w \in ws : CanAdmit(Admit(s, Earlier(q, ws, w)), w)
  BY DEF ScanGrants, Earlier
<1>2. \A S \in SUBSET ws : S # {} => \E w \in S : S \ {w} \subseteq Earlier(q, ws, w)
  <2> TAKE S \in SUBSET ws
  <2> HAVE S # {}
  <2>1. S \in SUBSET Waiters /\ \A w \in S : q[w] <= N
    BY <1>1 DEF Numbered
  <2>2. PICK w \in S : \A v \in S : q[v] <= q[w]
    BY <2>1, LastArrival
  <2>3. ASSUME NEW v \in S \ {w}
        PROVE  v \in Earlier(q, ws, w)
    <3>1. q[v] # q[w]
      BY <1>1 DEF Numbered
    <3>2. q[v] \in Nat /\ q[w] \in Nat /\ q[v] <= q[w]
      BY <2>2
    <3> QED
      BY <3>1, <3>2 DEF Earlier
  <2> QED
    BY <2>3
<1>3. \A S, T \in SUBSET Waiters : S \cap T = {} =>
         /\ Cardinality(S) \in Nat
         /\ Cardinality(T) \in Nat
         /\ Cardinality(S \cup T) = Cardinality(S) + Cardinality(T)
  BY DisjointCardinality
<1>4. \A S, w : S \in SUBSET Waiters /\ w \in S =>
         /\ Cardinality(S \ {w}) \in Nat
         /\ Cardinality(S) = Cardinality(S \ {w}) + 1
  <2> TAKE S, w
  <2> HAVE S \in SUBSET Waiters /\ w \in S
  <2>1. IsFiniteSet(S)
    BY LimiterAssumption, FS_Subset
  <2>2. IsFiniteSet(S \ {w}) /\ Cardinality(S \ {w}) = Cardinality(S) - 1
    BY <2>1, FS_RemoveElement
  <2> QED
    BY <2>1, <2>2, FS_CardinalityType
<1>5. Cardinality(all) <= MaxGlobal
  <2>1. CASE ws = {}
    BY <2>1 DEF Within
  <2>2. CASE ws # {}
    <3>1. PICK w \in ws : ws \ {w} \subseteq Earlier(q, ws, w)
      BY <1>2, <2>2
    <3>2. /\ Cardinality(ws \ {w}) <= Cardinality(Earlier(q, ws, w))
          /\ Cardinality(Earlier(q, ws, w)) \in Nat
      BY <3>1, SubsetCardinality DEF Earlier
    <3>3. s.count + Cardinality(Earlier(q, ws, w)) < MaxGlobal
      BY <1>1 DEF CanAdmit, Admit
    <3>4. Cardinality(all) = s.count + Cardinality(ws) /\ s.count \in Nat
      BY <1>3 DEF Exact
    <3>5. Cardinality(ws \ {w}) \in Nat /\ Cardinality(ws) = Cardinality(ws \ {w}) + 1
      BY <1>4
    <3> HIDE DEF all
    <3> QED
      BY <3>2, <3>3, <3>4, <3>5, LimiterAssumption
  <2> QED
    BY <2>1, <2>2
<1>6. ASSUME NEW u \in Users
      PROVE  Cardinality(OfUser(all, u)) <= MaxPerUser
  <2> DEFINE mine == OfUser(ws, u)
  <2>1. OfUser(all, u) = OfUser(H, u) \cup mine
    BY DEF OfUser
  <2>2. /\ OfUser(H, u) \in SUBSET Waiters
        /\ mine \in SUBSET Waiters
        /\ OfUser(H, u) \cap mine = {}
    BY DEF OfUser
  <2>3. CASE mine = {}
    BY <2>1, <2>3 DEF Within
  <2>4. CASE mine # {}
    <3>1. PICK w \in mine : mine \ {w} \subseteq Earlier(q, ws, w)
      BY <1>2, <2>4 DEF OfUser
    <3>2. w \in ws /\ demand[w].user = u
      BY DEF OfUser
    <3> DEFINE before == OfUser(Earlier(q, ws, w), u)
    <3>3. mine \ {w} \subseteq before /\ before \in SUBSET Waiters
      BY <3>1 DEF OfUser, Earlier
    <3>4. Cardinality(mine \ {w}) <= Cardinality(before) /\ Cardinality(before) \in Nat
      BY <3>3, SubsetCardinality
    <3>5. s.users[u] + Cardinality(before) < MaxPerUser
      BY <1>1, <3>2 DEF CanAdmit, Admit, OfUser
    <3>6. Cardinality(OfUser(all, u)) = s.users[u] + Cardinality(mine) /\ s.users[u] \in Nat
      <4>1. s.users[u] = Cardinality(OfUser(H, u))
        BY DEF Exact
      <4>2. /\ Cardinality(OfUser(H, u) \cup mine) = Cardinality(OfUser(H, u)) + Cardinality(mine)
            /\ Cardinality(OfUser(H, u)) \in Nat
        BY <1>3, <2>2
      <4> HIDE DEF mine, all
      <4> QED
        BY <2>1, <4>1, <4>2
    <3>7. Cardinality(mine \ {w}) \in Nat /\ Cardinality(mine) = Cardinality(mine \ {w}) + 1
      BY <1>4, <2>2
    <3> HIDE DEF mine, before, all
    <3> QED
      BY <3>4, <3>5, <3>6, <3>7, LimiterAssumption
  <2> QED
    BY <2>3, <2>4
<1>7. ASSUME NEW w \in ws, NEW v \in H \cup Earlier(q, ws, w), demand[w].device # NoDevice
      PROVE  demand[v].device # demand[w].device
  <2> DEFINE before == Earlier(q, ws, w)
             d == demand[w].device
  <2>1. d \in Devices /\ before \in SUBSET ws
    BY <1>7 DEF Demands, Earlier
  <2>2. Admit(s, before).owners[d] = NoUser
    BY <1>1, <1>7 DEF CanAdmit
  <2>3. Exact(Admit(s, before), H \cup before)
    BY <2>1, AdmitExact
  <2> QED
    BY <2>1, <2>2, <2>3 DEF Exact
<1>8. ASSUME NEW v \in all, NEW w \in all,
             demand[v].device = demand[w].device, demand[v].device # NoDevice
      PROVE  v = w
  <2>1. CASE v \in H /\ w \in H
    BY <1>8, <2>1 DEF Within
  <2>2. CASE v \in ws /\ w \in H
    BY <1>7, <1>8, <2>2
  <2>3. CASE v \in H /\ w \in ws
    BY <1>7, <1>8, <2>3
  <2>4. CASE v \in ws /\ w \in ws
    <3>1. ~(q[v] < q[w]) /\ ~(q[w] < q[v])
      BY <1>7, <1>8, <2>4 DEF Earlier
    <3>2. q[v] \in Nat /\ q[w] \in Nat
      BY <2>4
    <3> QED
      BY <1>1, <2>4, <3>1, <3>2 DEF Numbered
  <2> QED
    BY <2>1, <2>2, <2>3, <2>4
<1>9. ASSUME NEW w \in all, demand[w].device # NoDevice
      PROVE  a.owners[demand[w].device] = demand[w].user
  <2> DEFINE d == demand[w].device
  <2>1. d \in Devices
    BY <1>9 DEF Demands
  <2>2. CASE w \in ws
    <3>1. \A v \in ws : demand[v].device = d => v = w
      BY <1>8, <1>9, <2>2
    <3>2. (CHOOSE v \in ws : demand[v].device = d) = w
      BY <2>2, <3>1
    <3> QED
      BY <2>1, <2>2, <3>2 DEF Admit
  <2>3. CASE w \in H
    <3>1. \A v \in ws : demand[v].device # d
      BY <1>8, <1>9, <2>3
    <3> QED
      BY <1>9, <2>1, <2>3, <3>1 DEF Admit, Within
  <2> QED
    BY <2>2, <2>3
<1> QED
  BY <1>5, <1>6, <1>8, <1>9 DEF Within

\* Admitting fewer requests leaves no less room.
LEMMA AdmitMonotone ==
    ASSUME NEW s \in SlotsType, NEW ws \in SUBSET Waiters, NEW before \in SUBSET ws,
           NEW w \in Waiters, demand \in [Waiters -> Demands], CanAdmit(Admit(s, ws), w)
    PROVE  CanAdmit(Admit(s, before), w)
<1> DEFINE u == demand[w].user
           d == demand[w].device
<1>1. u \in Users
  BY DEF Demands
<1>2. Admit(s, before).count < MaxGlobal
  <2>1. /\ Cardinality(before) \in Nat
        /\ Cardinality(ws) \in Nat
        /\ Cardinality(before) <= Cardinality(ws)
    BY SubsetCardinality
  <2>2. s.count + Cardinality(ws) < MaxGlobal /\ s.count \in Nat
    BY DEF CanAdmit, Admit, SlotsType
  <2>3. s.count + Cardinality(before) < MaxGlobal
    BY <2>1, <2>2, LimiterAssumption
  <2> QED
    BY <2>3 DEF Admit
<1>3. Admit(s, before).users[u] < MaxPerUser
  <2>1. OfUser(ws, u) \in SUBSET Waiters /\ OfUser(before, u) \in SUBSET OfUser(ws, u)
    BY <1>1 DEF OfUser
  <2>2. /\ Cardinality(OfUser(before, u)) \in Nat
        /\ Cardinality(OfUser(ws, u)) \in Nat
        /\ Cardinality(OfUser(before, u)) <= Cardinality(OfUser(ws, u))
    BY <2>1, SubsetCardinality
  <2>3. s.users[u] + Cardinality(OfUser(ws, u)) < MaxPerUser /\ s.users[u] \in Nat
    BY <1>1 DEF CanAdmit, Admit, SlotsType, OfUser
  <2>4. s.users[u] + Cardinality(OfUser(before, u)) < MaxPerUser
    BY <2>2, <2>3, LimiterAssumption
  <2> QED
    BY <1>1, <2>4 DEF Admit, OfUser
<1>4. d # NoDevice => Admit(s, before).owners[d] = NoUser
  <2>1. SUFFICES ASSUME d # NoDevice
                 PROVE  Admit(s, before).owners[d] = NoUser
    OBVIOUS
  <2>2. d \in Devices /\ Admit(s, ws).owners[d] = NoUser
    BY <1>1, <2>1 DEF CanAdmit, Demands
  <2>3. ~ \E v \in ws : demand[v].device = d
    <3>1. SUFFICES ASSUME \E v \in ws : demand[v].device = d
                   PROVE  FALSE
      OBVIOUS
    <3>2. demand[CHOOSE v \in ws : demand[v].device = d].user \in Users
      BY <3>1 DEF Demands
    <3> QED
      BY <2>2, <3>1, <3>2, LimiterAssumption DEF Admit
  <2> QED
    BY <1>1, <2>2, <2>3 DEF Admit
<1> QED
  BY <1>2, <1>3, <1>4 DEF CanAdmit

\* A request that the scan passes over does not fit after the whole scan either.
LEMMA ScanLeavesNoneAdmissible ==
    ASSUME NEW s \in SlotsType, NEW ws \in SUBSET Waiters, NEW q \in [Waiters -> Nat], NEW st,
           demand \in [Waiters -> Demands], ScanGrants(s, q, st, ws),
           NEW w \in Waiting(q, st) \ ws
    PROVE  ~CanAdmit(Admit(s, ws), w)
<1>1. Earlier(q, ws, w) \in SUBSET ws /\ w \in Waiters
  BY DEF Earlier, Waiting
<1>2. ~CanAdmit(Admit(s, Earlier(q, ws, w)), w)
  BY DEF ScanGrants, Earlier
<1> QED
  BY <1>1, <1>2, AdmitMonotone

-----------------------------------------------------------------------------
(* The inductive invariant.                                                *)

\* A thread's position, its request's state, its lease and the queue agree.
Coherent ==
    \A w \in Waiters :
        /\ call[w] = "idle" <=> state[w] = "NEW"
        /\ lease[w] # "none" <=> state[w] = "CLAIMED"
        /\ call[w] \in {"ticket", "checking"} =>
              state[w] \in {"WAITING", "GRANTED", "CANCELLED"}
        /\ call[w] = "parked" => state[w] = "WAITING"
        /\ call[w] \in {"claimed", "leased", "done"} => state[w] = "CLAIMED"
        /\ call[w] = "failed" => state[w] = "CANCELLED"
        /\ queue[w] > 0 <=> state[w] = "WAITING"

\* The queue is numbered by the requests made so far.
Arrived == {w \in Waiters : state[w] # "NEW"}

Ordered == Numbered(queue, state, Cardinality(Arrived))

NoneAdmissible == \A w \in Waiters : queue[w] > 0 => ~CanAdmit(slots, w)

IInv ==
    /\ TypeOK
    /\ Coherent
    /\ Ordered
    /\ Exact(slots, Holders)
    /\ Within(slots, Holders)
    /\ NoneAdmissible

\* A scan keeps the bookkeeping exact and within the limits, and leaves nobody
\* in the queue who could be admitted.
LEMMA ScanPreserves ==
    ASSUME NEW s \in SlotsType, NEW H \in SUBSET Waiters, NEW ws,
           NEW q \in [Waiters -> Nat], NEW st \in [Waiters -> WaiterStates], NEW N \in Nat,
           demand \in [Waiters -> Demands],
           Exact(s, H), Within(s, H), Numbered(q, st, N),
           ScanGrants(s, q, st, ws), H \cap Waiting(q, st) = {}
    PROVE  /\ ws \in SUBSET Waiters
           /\ Admit(s, ws) \in SlotsType
           /\ Exact(Admit(s, ws), H \cup ws)
           /\ Within(Admit(s, ws), H \cup ws)
           /\ Remaining(q, st, ws) \in [Waiters -> Nat]
           /\ Granted(st, ws) \in [Waiters -> WaiterStates]
           /\ \A w \in Waiters : Remaining(q, st, ws)[w] > 0 => ~CanAdmit(Admit(s, ws), w)
<1>1. ws \in SUBSET Waiters /\ ws \subseteq Waiting(q, st) /\ H \cap ws = {}
  BY DEF ScanGrants, Waiting
<1>2. Admit(s, ws) \in SlotsType
  BY <1>1, AdmitType
<1>3. Exact(Admit(s, ws), H \cup ws)
  BY <1>1, AdmitExact
<1>4. Within(Admit(s, ws), H \cup ws)
  BY <1>1, ScanWithin
<1>5. Remaining(q, st, ws) \in [Waiters -> Nat]
  BY DEF Remaining
<1>6. Granted(st, ws) \in [Waiters -> WaiterStates]
  BY DEF Granted, WaiterStates
<1>7. ASSUME NEW w \in Waiters, Remaining(q, st, ws)[w] > 0
      PROVE  ~CanAdmit(Admit(s, ws), w)
  <2>1. w \in Waiting(q, st) \ ws
    BY <1>7 DEF Remaining
  <2> QED
    BY <1>1, <2>1, ScanLeavesNoneAdmissible
<1> QED
  BY <1>1, <1>2, <1>3, <1>4, <1>5, <1>6, <1>7

\* The parts of the invariant that speak of the bookkeeping, in the next state.
LEMMA BookkeepingPrime ==
    ASSUME demand' = demand, Exact(slots', Holders'), Within(slots', Holders'),
           \A w \in Waiters : queue'[w] > 0 => ~CanAdmit(slots', w)
    PROVE  Exact(slots, Holders)' /\ Within(slots, Holders)' /\ NoneAdmissible'
<1>1. Exact(slots, Holders)'
  BY DEF Exact, OfUser
<1>2. Within(slots, Holders)'
  BY DEF Within, OfUser
<1>3. NoneAdmissible'
  BY DEF NoneAdmissible, CanAdmit
<1> QED
  BY <1>1, <1>2, <1>3

\* The set of requests made so far is finite and only grows.
LEMMA ArrivedCardinality ==
    ASSUME Arrived \subseteq Arrived'
    PROVE  /\ Cardinality(Arrived) \in Nat
           /\ Cardinality(Arrived') \in Nat
           /\ Cardinality(Arrived) <= Cardinality(Arrived')
<1>1. Arrived' \in SUBSET Waiters
  BY DEF Arrived
<1> QED
  BY <1>1, SubsetCardinality

\* Requests may only leave the queue without being renumbered.
LEMMA OrderedPrime ==
    ASSUME TypeOK, Ordered, Arrived \subseteq Arrived',
           \A w \in Waiting(queue', state') : w \in Waiting(queue, state) /\ queue'[w] = queue[w]
    PROVE  Ordered'
<1>1. /\ Cardinality(Arrived) \in Nat
      /\ Cardinality(Arrived') \in Nat
      /\ Cardinality(Arrived) <= Cardinality(Arrived')
  BY ArrivedCardinality
<1>2. ASSUME NEW w \in Waiting(queue', state')
      PROVE  queue'[w] <= Cardinality(Arrived')
  <2>1. queue'[w] = queue[w] /\ queue[w] <= Cardinality(Arrived) /\ queue[w] \in Nat
    BY DEF Ordered, Numbered, Waiting, TypeOK
  <2> QED
    BY <1>1, <2>1
<1>3. ASSUME NEW v \in Waiting(queue', state'), NEW w \in Waiting(queue', state'),
             queue'[v] = queue'[w]
      PROVE  v = w
  BY <1>3 DEF Ordered, Numbered
<1> QED
  BY <1>2, <1>3 DEF Ordered, Numbered, Waiting

\* Steps that change neither the queue nor the counters nor the holders.
LEMMA QuietStep ==
    ASSUME IInv, TypeOK', Coherent', UNCHANGED <<demand, queue, slots>>,
           Holders' = Holders, Arrived' = Arrived,
           \A w \in Waiters : state'[w] = "WAITING" <=> state[w] = "WAITING"
    PROVE  IInv'
<1>1. Exact(slots', Holders') /\ Within(slots', Holders')
  BY DEF IInv
<1>2. \A w \in Waiters : queue'[w] > 0 => ~CanAdmit(slots', w)
  BY DEF IInv, NoneAdmissible
<1>3. Ordered'
  BY OrderedPrime DEF IInv, Waiting
<1> QED
  BY <1>1, <1>2, <1>3, BookkeepingPrime DEF IInv

LEMMA StartWaitStep ==
    ASSUME IInv, NEW w \in Waiters, StartWait(w) \/ ObserveCancelled(w) \/ Park(w) \/ Wake(w)
                                    \/ StoreLease(w) \/ RaiseAbort(w) \/ PassDeadline(w)
    PROVE  IInv'
<1> USE DEF StartWait, ObserveCancelled, Park, Wake, StoreLease, RaiseAbort, PassDeadline
<1>1. UNCHANGED <<demand, queue, slots, state, lease>>
  OBVIOUS
<1>2. TypeOK'
  BY DEF IInv, TypeOK, Calls, Signals
<1>3. Coherent'
  BY DEF IInv, TypeOK, Coherent
<1>4. Holders' = Holders /\ Arrived' = Arrived
  BY <1>1 DEF Holders, Arrived
<1> QED
  BY <1>1, <1>2, <1>3, <1>4, QuietStep

LEMMA ClaimStep ==
    ASSUME IInv, NEW w \in Waiters, Claim(w)
    PROVE  IInv'
<1> USE DEF Claim
<1>1. TypeOK'
  BY DEF IInv, TypeOK, Calls, LeaseStates, WaiterStates
<1>2. Coherent'
  BY DEF IInv, TypeOK, Coherent
<1>3. Holders' = Holders /\ Arrived' = Arrived
  BY DEF IInv, TypeOK, Coherent, Holders, Arrived
<1>4. \A v \in Waiters : state'[v] = "WAITING" <=> state[v] = "WAITING"
  BY DEF IInv, TypeOK
<1> QED
  BY <1>1, <1>2, <1>3, <1>4, QuietStep

LEMMA BeginReleaseStep ==
    ASSUME IInv, NEW w \in Waiters, ReleaseByRequester(w) \/ ReleaseByOther(w)
    PROVE  IInv'
<1> USE DEF ReleaseByRequester, ReleaseByOther, BeginRelease
<1>1. TypeOK'
  BY DEF IInv, TypeOK, Calls, LeaseStates
<1>2. Coherent'
  BY DEF IInv, TypeOK, Coherent, LeaseStates
<1>3. Holders' = Holders /\ Arrived' = Arrived
  BY DEF IInv, TypeOK, Holders, Arrived
<1> QED
  BY <1>1, <1>2, <1>3, QuietStep

\* A waiting request leaves the queue: no slot is freed, nobody is admitted.
LEMMA LeaveStep ==
    ASSUME IInv, NEW w \in Waiters, state[w] = "WAITING",
           TypeOK', Coherent', UNCHANGED <<demand, slots, lease>>,
           state' = [state EXCEPT ![w] = "CANCELLED"], queue' = [queue EXCEPT ![w] = 0]
    PROVE  IInv'
<1>1. Holders' = Holders /\ Arrived' = Arrived
  BY DEF IInv, TypeOK, Holders, Arrived
<1>2. Exact(slots', Holders') /\ Within(slots', Holders')
  BY <1>1 DEF IInv
<1>3. ASSUME NEW v \in Waiters, queue'[v] > 0
      PROVE  ~CanAdmit(slots', v)
  <2>1. queue[v] > 0
    BY <1>3 DEF IInv, TypeOK
  <2> QED
    BY <2>1 DEF IInv, NoneAdmissible
<1>4. Ordered'
  <2>1. \A v \in Waiting(queue', state') : v \in Waiting(queue, state) /\ queue'[v] = queue[v]
    BY DEF IInv, TypeOK, Waiting
  <2> QED
    BY <1>1, <2>1, OrderedPrime DEF IInv
<1> QED
  BY <1>2, <1>3, <1>4, BookkeepingPrime DEF IInv

LEMMA LeaveQueueStep ==
    ASSUME IInv, NEW w \in Waiters, LeaveQueue(w)
    PROVE  IInv'
<1> USE DEF LeaveQueue
<1>1. TypeOK'
  BY DEF IInv, TypeOK, Calls, WaiterStates
<1>2. Coherent'
  BY DEF IInv, TypeOK, Coherent
<1> QED
  BY <1>1, <1>2, LeaveStep

\* The slot of holder w is given back and handed on by a scan; st are the
\* states after w has lost its slot.
LEMMA HandOnStep ==
    ASSUME IInv, NEW w \in Holders, NEW st \in [Waiters -> WaiterStates], NEW ws,
           Waiting(queue, st) = Waiting(queue, state),
           ScanGrants(ReleaseCounts(slots, w), queue, st, ws),
           slots' = Admit(ReleaseCounts(slots, w), ws),
           queue' = Remaining(queue, st, ws), state' = Granted(st, ws),
           demand' = demand, Arrived' = Arrived, Holders' = (Holders \ {w}) \cup ws,
           call' \in [Waiters -> Calls], lease' \in [Waiters -> LeaseStates],
           signals' \in [Waiters -> SUBSET Signals], Coherent'
    PROVE  IInv'
<1> DEFINE s == ReleaseCounts(slots, w)
           H == Holders \ {w}
           N == Cardinality(Arrived)
<1>1. /\ demand \in [Waiters -> Demands]
      /\ slots \in SlotsType
      /\ queue \in [Waiters -> Nat]
      /\ Holders \in SUBSET Waiters
  BY DEF IInv, TypeOK, SlotsType, Holders
<1>2. s \in SlotsType /\ Exact(s, H) /\ Within(s, H)
  BY <1>1, ReleaseExact DEF IInv
<1>3. N \in Nat
  BY SubsetCardinality DEF Arrived
<1>4. Numbered(queue, st, N)
  BY DEF IInv, Ordered, Numbered
<1>5. H \in SUBSET Waiters /\ H \cap Waiting(queue, st) = {}
  BY <1>1 DEF Holders, Waiting
<1>6. /\ Admit(s, ws) \in SlotsType
      /\ Exact(Admit(s, ws), H \cup ws)
      /\ Within(Admit(s, ws), H \cup ws)
      /\ Remaining(queue, st, ws) \in [Waiters -> Nat]
      /\ Granted(st, ws) \in [Waiters -> WaiterStates]
      /\ \A v \in Waiters : Remaining(queue, st, ws)[v] > 0 => ~CanAdmit(Admit(s, ws), v)
  <2>1. ScanGrants(s, queue, st, ws)
    OBVIOUS
  <2> HIDE DEF s, H, N
  <2> QED
    BY <1>1, <1>2, <1>3, <1>4, <1>5, <2>1, ScanPreserves
<1>7. TypeOK'
  BY <1>1, <1>6 DEF TypeOK, SlotsType
<1>8. Exact(slots, Holders)' /\ Within(slots, Holders)' /\ NoneAdmissible'
  BY <1>6, BookkeepingPrime
<1>9. Ordered'
  <2>1. \A v \in Waiting(queue', state') : v \in Waiting(queue, state) /\ queue'[v] = queue[v]
    BY <1>1 DEF Waiting, Remaining, Granted
  <2> QED
    BY <2>1, OrderedPrime DEF IInv
<1> QED
  BY <1>7, <1>8, <1>9 DEF IInv

LEMMA FinishReleaseStep ==
    ASSUME IInv, NEW w \in Waiters, FinishRelease(w)
    PROVE  IInv'
<1>1. PICK ws \in SUBSET Waiting(queue, state) :
         /\ ScanGrants(ReleaseCounts(slots, w), queue, state, ws)
         /\ slots' = Admit(ReleaseCounts(slots, w), ws)
         /\ queue' = Remaining(queue, state, ws)
         /\ state' = Granted(state, ws)
  BY DEF FinishRelease
<1>2. /\ lease[w] = "releasing" /\ lease' = [lease EXCEPT ![w] = "released"]
      /\ call' = WakeAll(call)
      /\ UNCHANGED <<demand, signals>>
  BY DEF FinishRelease
<1>3. /\ w \in Holders /\ state[w] = "CLAIMED"
      /\ \A v \in ws : state[v] = "WAITING"
      /\ ws \subseteq Waiters
  BY <1>1, <1>2 DEF IInv, Coherent, Holders, Waiting
<1>4. \A v \in Waiters : state'[v] = IF v \in ws THEN "GRANTED" ELSE state[v]
  BY <1>1 DEF Granted
<1>5. \A v \in Waiters : lease'[v] = IF v = w THEN "released" ELSE lease[v]
  BY <1>2 DEF IInv, TypeOK
<1>6. Holders' = (Holders \ {w}) \cup ws
  <2>1. \A v \in Waiters : v \in Holders' <=> v \in (Holders \ {w}) \cup ws
    BY <1>2, <1>3, <1>4, <1>5 DEF Holders, IInv, Coherent
  <2> QED
    BY <1>3, <2>1 DEF Holders
<1>7. Arrived' = Arrived
  BY <1>3, <1>4 DEF Arrived
<1>8. /\ call' \in [Waiters -> Calls]
      /\ lease' \in [Waiters -> LeaseStates]
      /\ signals' \in [Waiters -> SUBSET Signals]
  BY <1>2 DEF IInv, TypeOK, WakeAll, Calls, LeaseStates
<1>9. Coherent'
  <2>1. \A v \in Waiters : queue'[v] = IF v \in Waiting(queue, state) \ ws THEN queue[v] ELSE 0
    BY <1>1 DEF Remaining
  <2>2. \A v \in Waiters : queue'[v] > 0 <=> state'[v] = "WAITING"
    BY <1>4, <2>1 DEF Waiting, IInv, TypeOK, Coherent
  <2>3. \A v \in Waiters : call'[v] = IF call[v] = "parked" THEN "checking" ELSE call[v]
    BY <1>2 DEF WakeAll
  <2> QED
    BY <1>2, <1>3, <1>4, <1>5, <2>2, <2>3 DEF IInv, Coherent
<1> QED
  BY <1>1, <1>2, <1>3, <1>6, <1>7, <1>8, <1>9, HandOnStep DEF IInv, TypeOK

\* ticket.cancel(): c are the threads' positions that the caller leaves behind.
LEMMA CancelWaiterStep ==
    ASSUME IInv, NEW w \in Waiters, NEW c \in [Waiters -> Calls],
           call[w] \in {"ticket", "checking", "parked", "claimed"},
           c = call \/ (call[w] = "ticket" /\ c = [call EXCEPT ![w] = "failed"]),
           CancelWaiter(w, c)
    PROVE  IInv'
<1>1. call' = WakeAll(c) /\ UNCHANGED <<demand, lease, signals>>
  BY DEF CancelWaiter
<1>2. \A v \in Waiters : call'[v] = IF c[v] = "parked" THEN "checking" ELSE c[v]
  BY <1>1 DEF WakeAll
<1>3. /\ call' \in [Waiters -> Calls]
      /\ lease' \in [Waiters -> LeaseStates]
      /\ signals' \in [Waiters -> SUBSET Signals]
  BY <1>1, <1>2 DEF IInv, TypeOK, WakeAll, Calls
<1>4. \A v \in Waiters : v # w => c[v] = call[v]
  BY DEF IInv, TypeOK
<1>5. c[w] = call[w] \/ (call[w] = "ticket" /\ c[w] = "failed")
  BY DEF IInv, TypeOK
<1>6. CASE /\ state[w] = "WAITING"
           /\ state' = [state EXCEPT ![w] = "CANCELLED"]
           /\ queue' = [queue EXCEPT ![w] = 0]
           /\ UNCHANGED slots
  <2>1. TypeOK'
    BY <1>1, <1>3, <1>6 DEF IInv, TypeOK, WaiterStates
  <2>2. /\ \A v \in Waiters : state'[v] = IF v = w THEN "CANCELLED" ELSE state[v]
        /\ \A v \in Waiters : queue'[v] = IF v = w THEN 0 ELSE queue[v]
    BY <1>6 DEF IInv, TypeOK
  <2>3. Coherent'
    BY <1>1, <1>2, <1>4, <1>5, <1>6, <2>2 DEF IInv, Coherent
  <2> QED
    BY <1>1, <1>6, <2>1, <2>3, LeaveStep
<1>7. CASE /\ state[w] = "GRANTED"
           /\ LET s  == ReleaseCounts(slots, w)
                  st == [state EXCEPT ![w] = "CANCELLED"]
              IN  \E ws \in SUBSET Waiting(queue, st) :
                     /\ ScanGrants(s, queue, st, ws)
                     /\ slots' = Admit(s, ws)
                     /\ queue' = Remaining(queue, st, ws)
                     /\ state' = Granted(st, ws)
  <2> DEFINE st == [state EXCEPT ![w] = "CANCELLED"]
  <2>1. PICK ws \in SUBSET Waiting(queue, st) :
           /\ ScanGrants(ReleaseCounts(slots, w), queue, st, ws)
           /\ slots' = Admit(ReleaseCounts(slots, w), ws)
           /\ queue' = Remaining(queue, st, ws)
           /\ state' = Granted(st, ws)
    BY <1>7
  <2>0. state[w] = "GRANTED"
    BY <1>7
  <2>2. /\ st \in [Waiters -> WaiterStates]
        /\ \A v \in Waiters : st[v] = IF v = w THEN "CANCELLED" ELSE state[v]
    BY DEF IInv, TypeOK, WaiterStates
  <2> HIDE DEF st
  <2>3. Waiting(queue, st) = Waiting(queue, state)
    BY <2>0, <2>2 DEF Waiting
  <2>4. /\ w \in Holders
        /\ \A v \in ws : state[v] = "WAITING"
        /\ ws \subseteq Waiters /\ w \notin ws
    BY <2>0, <2>3 DEF Holders, Waiting
  <2>5. \A v \in Waiters : state'[v] = IF v \in ws THEN "GRANTED"
                                       ELSE IF v = w THEN "CANCELLED" ELSE state[v]
    BY <2>1, <2>2 DEF Granted
  <2>6. Holders' = (Holders \ {w}) \cup ws
    <3>1. \A v \in Waiters : v \in Holders' <=> v \in (Holders \ {w}) \cup ws
      BY <1>1, <2>4, <2>5 DEF Holders
    <3> QED
      BY <2>4, <3>1 DEF Holders
  <2>7. Arrived' = Arrived
    BY <2>0, <2>4, <2>5 DEF Arrived
  <2>8. Coherent'
    <3>1. \A v \in Waiters : queue'[v] = IF v \in Waiting(queue, state) \ ws THEN queue[v] ELSE 0
      BY <2>1, <2>3 DEF Remaining
    <3>2. \A v \in Waiters : queue'[v] > 0 <=> state'[v] = "WAITING"
      BY <2>0, <2>4, <2>5, <3>1 DEF Waiting, IInv, TypeOK, Coherent
    <3> QED
      BY <1>1, <1>2, <1>4, <1>5, <2>0, <2>4, <2>5, <3>2 DEF IInv, Coherent
  <2> QED
    BY <1>1, <1>3, <2>1, <2>2, <2>3, <2>4, <2>6, <2>7, <2>8, HandOnStep
<1>8. CASE /\ state[w] \in {"CLAIMED", "CANCELLED"}
           /\ UNCHANGED <<state, queue, slots>>
  <2>1. TypeOK'
    BY <1>1, <1>3, <1>8 DEF IInv, TypeOK
  <2>2. Coherent'
    BY <1>1, <1>2, <1>4, <1>5, <1>8 DEF IInv, Coherent
  <2>3. Holders' = Holders /\ Arrived' = Arrived
    BY <1>1, <1>8 DEF Holders, Arrived
  <2> QED
    BY <1>1, <1>8, <2>1, <2>2, <2>3, QuietStep
<1> QED
  BY <1>6, <1>7, <1>8 DEF CancelWaiter

LEMMA EnqueueStep ==
    ASSUME IInv, NEW w \in Waiters, Enqueue(w)
    PROVE  IInv'
<1> DEFINE N == Cardinality(Arrived)
           q == [queue EXCEPT ![w] = N + 1]
           st == [state EXCEPT ![w] = "WAITING"]
<1>1. PICK ws \in SUBSET Waiting(q, st) :
         /\ ScanGrants(slots, q, st, ws)
         /\ slots' = Admit(slots, ws)
         /\ queue' = Remaining(q, st, ws)
         /\ LET c == IF ws = {} THEN call ELSE WakeAll(call)
            IN  IF w \in ws
                THEN /\ state' = [Granted(st, ws) EXCEPT ![w] = "CLAIMED"]
                     /\ lease' = [lease EXCEPT ![w] = "live"]
                     /\ call' = [c EXCEPT ![w] = "leased"]
                ELSE /\ state' = Granted(st, ws)
                     /\ call' = [c EXCEPT ![w] = "ticket"]
                     /\ UNCHANGED lease
  BY DEF Enqueue, Arrived
<1>2. call[w] = "idle" /\ UNCHANGED <<demand, signals>>
  BY DEF Enqueue
<1>3. state[w] = "NEW" /\ lease[w] = "none" /\ queue[w] = 0
  BY <1>2 DEF IInv, TypeOK, Coherent, LeaseStates, WaiterStates
<1>4. N \in Nat
  BY SubsetCardinality DEF Arrived
<1>5. /\ q \in [Waiters -> Nat]
      /\ st \in [Waiters -> WaiterStates]
      /\ \A v \in Waiters : q[v] = IF v = w THEN N + 1 ELSE queue[v]
      /\ \A v \in Waiters : st[v] = IF v = w THEN "WAITING" ELSE state[v]
  BY <1>4 DEF IInv, TypeOK, WaiterStates
<1> HIDE DEF N, q, st
<1>6. /\ \A v \in Waiters : state'[v] = IF v \in ws
                                        THEN IF v = w THEN "CLAIMED" ELSE "GRANTED"
                                        ELSE st[v]
      /\ \A v \in Waiters : lease'[v] = IF v = w /\ w \in ws THEN "live" ELSE lease[v]
      /\ state' \in [Waiters -> WaiterStates]
      /\ lease' \in [Waiters -> LeaseStates]
  <2>1. /\ Granted(st, ws) \in [Waiters -> WaiterStates]
        /\ \A v \in Waiters : Granted(st, ws)[v] = IF v \in ws THEN "GRANTED" ELSE st[v]
    BY <1>5 DEF Granted, WaiterStates
  <2>2. lease \in [Waiters -> LeaseStates]
    BY DEF IInv, TypeOK
  <2>3. CASE w \in ws
    <3>1. /\ state' = [Granted(st, ws) EXCEPT ![w] = "CLAIMED"]
          /\ lease' = [lease EXCEPT ![w] = "live"]
      BY <1>1, <2>3
    <3> QED
      BY <2>1, <2>2, <2>3, <3>1 DEF WaiterStates, LeaseStates
  <2>4. CASE w \notin ws
    <3>1. state' = Granted(st, ws) /\ lease' = lease
      BY <1>1, <2>4
    <3> QED
      BY <2>1, <2>2, <2>4, <3>1
  <2> QED
    BY <2>3, <2>4
<1>7. Waiting(q, st) = Waiting(queue, state) \cup {w}
  BY <1>3, <1>4, <1>5 DEF Waiting
<1>8. Arrived' = Arrived \cup {w} /\ w \notin Arrived
  <2>1. \A v \in ws : v = w \/ state[v] = "WAITING"
    BY <1>1, <1>7 DEF Waiting
  <2>2. \A v \in Waiters : state'[v] # "NEW" <=> v = w \/ state[v] # "NEW"
    BY <1>5, <1>6, <2>1
  <2> QED
    BY <1>3, <2>2 DEF Arrived
<1>9. Cardinality(Arrived') = N + 1
  <2>1. IsFiniteSet(Arrived)
    BY LimiterAssumption, FS_Subset DEF Arrived
  <2>2. Cardinality(Arrived \cup {w}) = Cardinality(Arrived) + 1
    BY <1>8, <2>1, FS_AddElement
  <2> QED
    BY <1>8, <2>2 DEF N
<1>10. Numbered(q, st, N + 1)
  <2>1. Numbered(queue, state, N)
    BY DEF IInv, Ordered, N
  <2>2. \A v \in Waiting(queue, state) : v # w /\ q[v] = queue[v] /\ queue[v] \in Nat /\ queue[v] <= N
    BY <1>3, <1>5, <2>1 DEF Waiting, Numbered, IInv, TypeOK
  <2>3. \A u, v \in Waiting(queue, state) : queue[u] = queue[v] => u = v
    BY <2>1 DEF Numbered
  <2>4. q[w] = N + 1
    BY <1>5
  <2> QED
    BY <1>4, <1>7, <2>2, <2>3, <2>4 DEF Numbered
<1>11. /\ demand \in [Waiters -> Demands]
       /\ slots \in SlotsType
       /\ Holders \in SUBSET Waiters
  BY DEF IInv, TypeOK, SlotsType, Holders
<1>12. Holders \cap Waiting(q, st) = {}
  BY <1>3, <1>7 DEF Holders, Waiting
<1>13. /\ ws \in SUBSET Waiters
       /\ Admit(slots, ws) \in SlotsType
       /\ Exact(Admit(slots, ws), Holders \cup ws)
       /\ Within(Admit(slots, ws), Holders \cup ws)
       /\ Remaining(q, st, ws) \in [Waiters -> Nat]
       /\ Granted(st, ws) \in [Waiters -> WaiterStates]
       /\ \A v \in Waiters : Remaining(q, st, ws)[v] > 0 => ~CanAdmit(Admit(slots, ws), v)
  <2>1. Exact(slots, Holders) /\ Within(slots, Holders) /\ N + 1 \in Nat
    BY <1>4 DEF IInv
  <2> QED
    BY <1>1, <1>5, <1>10, <1>11, <1>12, <2>1, ScanPreserves
<1>14. /\ \A v \in Waiters : v # w => call'[v] = call[v] \/ (call[v] = "parked" /\ call'[v] = "checking")
       /\ \A v \in ws : v # w => call'[v] # "parked"
       /\ call'[w] = IF w \in ws THEN "leased" ELSE "ticket"
       /\ call' \in [Waiters -> Calls]
  <2> DEFINE c == IF ws = {} THEN call ELSE WakeAll(call)
  <2>1. /\ c \in [Waiters -> Calls]
        /\ \A v \in Waiters : c[v] = call[v] \/ (call[v] = "parked" /\ c[v] = "checking")
        /\ \A v \in ws : c[v] # "parked"
    BY <1>13 DEF IInv, TypeOK, WakeAll, Calls
  <2>2. call' = [c EXCEPT ![w] = IF w \in ws THEN "leased" ELSE "ticket"]
    BY <1>1
  <2> HIDE DEF c
  <2> QED
    BY <1>13, <2>1, <2>2 DEF Calls
<1>15. Holders' = Holders \cup ws
  <2>1. \A v \in ws : st[v] = "WAITING"
    BY <1>1 DEF Waiting
  <2>2. \A v \in Waiters : v \in Holders' <=> v \in Holders \cup ws
    BY <1>3, <1>5, <1>6, <2>1 DEF Holders, IInv, Coherent
  <2> QED
    BY <1>13, <2>2 DEF Holders
<1>16. TypeOK'
  BY <1>1, <1>2, <1>13, <1>6, <1>14 DEF IInv, TypeOK, SlotsType
<1>17. Coherent'
  <2>1. \A v \in Waiters : queue'[v] = IF v \in Waiting(q, st) \ ws THEN q[v] ELSE 0
    BY <1>1 DEF Remaining
  <2>2. \A v \in Waiting(q, st) : v \in ws \/ state'[v] = "WAITING"
    BY <1>6 DEF Waiting
  <2>3. \A v \in Waiters : queue'[v] > 0 <=> state'[v] = "WAITING"
    <3>1. \A v \in Waiters : st[v] = "WAITING" => v \in Waiting(q, st)
      BY <1>3, <1>4, <1>5 DEF Waiting, IInv, TypeOK, Coherent
    <3> QED
      BY <1>5, <1>6, <2>1, <2>2, <3>1 DEF Waiting
  <2>4. \A v \in ws : st[v] = "WAITING"
    BY <1>1 DEF Waiting
  <2>5. ASSUME NEW v \in Waiters, v # w
        PROVE  /\ call'[v] = "idle" <=> state'[v] = "NEW"
               /\ lease'[v] # "none" <=> state'[v] = "CLAIMED"
               /\ call'[v] \in {"ticket", "checking"} =>
                     state'[v] \in {"WAITING", "GRANTED", "CANCELLED"}
               /\ call'[v] = "parked" => state'[v] = "WAITING"
               /\ call'[v] \in {"claimed", "leased", "done"} => state'[v] = "CLAIMED"
               /\ call'[v] = "failed" => state'[v] = "CANCELLED"
    BY <1>5, <1>6, <1>14, <2>4, <2>5 DEF IInv, Coherent
  <2>6. \/ call'[w] = "leased" /\ state'[w] = "CLAIMED" /\ lease'[w] = "live"
        \/ call'[w] = "ticket" /\ state'[w] = "WAITING" /\ lease'[w] = "none"
    BY <1>3, <1>5, <1>6, <1>14
  <2> QED
    BY <2>3, <2>5, <2>6 DEF Coherent
<1>18. Exact(slots, Holders)' /\ Within(slots, Holders)' /\ NoneAdmissible'
  BY <1>1, <1>2, <1>13, <1>15, BookkeepingPrime
<1>19. Ordered'
  <2>1. \A v \in Waiting(queue', state') : v \in Waiting(q, st) /\ queue'[v] = q[v]
    BY <1>1, <1>13 DEF Waiting, Remaining
  <2> QED
    BY <1>9, <1>10, <2>1 DEF Ordered, Numbered, Waiting
<1> QED
  BY <1>16, <1>17, <1>18, <1>19 DEF IInv

LEMMA InitIInv == Init => IInv
<1> SUFFICES ASSUME Init PROVE IInv
  OBVIOUS
<1>1. TypeOK
  BY DEF Init, TypeOK, WaiterStates, Calls, LeaseStates
<1>2. Coherent
  BY DEF Init, Coherent
<1>3. Ordered
  BY DEF Init, Ordered, Numbered, Waiting
<1>4. Holders = {}
  BY DEF Init, Holders
<1>5. Cardinality({}) = 0 /\ \A u \in Users : OfUser({}, u) = {}
  BY FS_EmptySet DEF OfUser
<1>6. Exact(slots, Holders)
  BY <1>4, <1>5 DEF Init, Exact
<1>7. Within(slots, Holders)
  BY <1>4, <1>5, LimiterAssumption DEF Within
<1>8. NoneAdmissible
  BY DEF Init, NoneAdmissible
<1> QED
  BY <1>1, <1>2, <1>3, <1>6, <1>7, <1>8 DEF IInv

LEMMA NextIInv == IInv /\ [Next]_vars => IInv'
<1> SUFFICES ASSUME IInv, [Next]_vars PROVE IInv'
  OBVIOUS
<1>1. ASSUME NEW w \in Waiters, Enqueue(w) PROVE IInv'
  BY <1>1, EnqueueStep
<1>2. ASSUME NEW w \in Waiters,
             \/ StartWait(w) \/ ObserveCancelled(w) \/ Park(w) \/ Wake(w)
             \/ StoreLease(w) \/ RaiseAbort(w) \/ PassDeadline(w)
      PROVE  IInv'
  BY <1>2, StartWaitStep
<1>3. ASSUME NEW w \in Waiters, Claim(w) PROVE IInv'
  BY <1>3, ClaimStep
<1>4. ASSUME NEW w \in Waiters, LeaveQueue(w) PROVE IInv'
  BY <1>4, LeaveQueueStep
<1>5. ASSUME NEW w \in Waiters, FinishRelease(w) PROVE IInv'
  BY <1>5, FinishReleaseStep
<1>6. ASSUME NEW w \in Waiters, Abandon(w) PROVE IInv'
  <2>1. [call EXCEPT ![w] = "failed"] \in [Waiters -> Calls]
    BY DEF IInv, TypeOK, Calls
  <2> QED
    BY <1>6, <2>1, CancelWaiterStep DEF Abandon
<1>7. ASSUME NEW w \in Waiters, CancelTicket(w) PROVE IInv'
  BY <1>7, CancelWaiterStep DEF CancelTicket, IInv, TypeOK
<1>8. ASSUME NEW w \in Waiters, ReleaseByRequester(w) \/ ReleaseByOther(w) PROVE IInv'
  BY <1>8, BeginReleaseStep
<1>9. CASE UNCHANGED vars
  <2>1. TypeOK' /\ Coherent'
    BY <1>9 DEF vars, IInv, TypeOK, Coherent
  <2>2. Holders' = Holders /\ Arrived' = Arrived
    BY <1>9 DEF vars, Holders, Arrived
  <2> QED
    BY <1>9, <2>1, <2>2, QuietStep DEF vars
<1> QED
  BY <1>1, <1>2, <1>3, <1>4, <1>5, <1>6, <1>7, <1>8, <1>9 DEF Next, Internal

-----------------------------------------------------------------------------
(* The theorems.                                                           *)

\* The inductive invariant holds throughout every execution.
THEOREM Invariance == Spec => []IInv
BY InitIInv, NextIInv, PTL DEF Spec

\* The counters are exactly what the tickets and leases account for: no path
\* through cancel, abort, timeout and release leaks a slot or frees one twice.
\* And the variables keep their types.
THEOREM AccountingCorrectness == Spec => []SlotAccounting
<1>1. IInv => SlotAccounting
  BY DEF IInv, Exact, SlotAccounting, OfUser, HoldersOf
<1> QED
  BY <1>1, Invariance, PTL

\* The global, per-user and per-device limits of the documentation hold, for
\* any limits and any number of requests.
THEOREM LimitsCorrectness == Spec => []SlotLimits
<1>1. IInv => SlotLimits
  BY DEF IInv, Within, SlotLimits, OfUser, HoldersOf
<1> QED
  BY <1>1, Invariance, PTL

\* Outside the critical sections no queued request could be admitted.
THEOREM WorkConservation == Spec => []WorkConserving
<1>1. IInv => WorkConserving
  BY DEF IInv, Coherent, NoneAdmissible, WorkConserving
<1> QED
  BY <1>1, Invariance, PTL

\* No thread sleeps in cond.wait once its request is decided, and a request
\* that failed neither holds a slot nor stays queued.
THEOREM WakeupCorrectness == Spec => [](NoLostWakeup /\ FailedHoldsNothing)
<1>1. IInv => NoLostWakeup /\ FailedHoldsNothing
  BY DEF IInv, TypeOK, Coherent, NoLostWakeup, FailedHoldsNothing, Holders
<1> QED
  BY <1>1, Invariance, PTL

\* Once a slot was claimed only the release of its own lease gives it back, and
\* no step leaves a slot to a request that failed.
THEOREM OwnershipCorrectness == Spec => OwnedOrNothing
<1>1. IInv => FailedHoldsNothing
  BY DEF IInv, TypeOK, Coherent, FailedHoldsNothing, Holders
<1>2. ASSUME IInv, [Next]_vars, NEW w \in Waiters, lease[w] = "live", w \in Holders
      PROVE  w \in Holders' \/ lease'[w] = "released"
  <2>1. state[w] = "CLAIMED"
    BY <1>2 DEF IInv, TypeOK, Coherent
  <2>2. lease'[w] \in {"live", "releasing"}
    BY <1>2, <2>1 DEF IInv, TypeOK, Next, Internal, vars, Enqueue, StartWait, Abandon, Claim,
       ObserveCancelled, LeaveQueue, Park, Wake, StoreLease, FinishRelease, RaiseAbort,
       PassDeadline, CancelTicket, CancelWaiter, ReleaseByRequester, ReleaseByOther, BeginRelease
  <2>3. IInv'
    BY <1>2, NextIInv
  <2>4. state'[w] = "CLAIMED"
    BY <2>2, <2>3 DEF IInv, Coherent
  <2> QED
    BY <2>2, <2>4 DEF Holders
<1>3. IInv /\ IInv' /\ [Next]_vars =>
        [/\ FailedHoldsNothing'
         /\ \A w \in Waiters :
               lease[w] = "live" /\ w \in Holders => w \in Holders' \/ lease'[w] = "released"]_vars
  <2>1. IInv' => FailedHoldsNothing'
    BY <1>1, PTL
  <2> QED
    BY <1>2, <2>1
<1> QED
  BY <1>3, Invariance, PTL DEF Spec, OwnedOrNothing

-----------------------------------------------------------------------------
(* The limiter implements SlotAllocator: with the queue as the pending      *)
(* requests and Holders as the holders every critical section is a request, *)
(* a withdrawal, a slot given back and handed on, or no change at all.      *)

(* The limits, said of the counters and said of the holders.               *)

\* The allocator counts as the limiter does.
LEMMA SameCardinality == \A S : Allocator!Cardinality(S) = Cardinality(S)
BY DEF Allocator!Cardinality, Cardinality, Allocator!IsFiniteSet, IsFiniteSet

\* Requests that stay within the limits by the limiter's own book respect the
\* limits of the allocator.
LEMMA WithinRespectsLimits ==
    ASSUME NEW s, NEW H \in SUBSET Waiters, Within(s, H)
    PROVE  Allocator!LimitsRespected(H)
BY SameCardinality DEF Within, OfUser, Allocator!LimitsRespected

\* Where the allocator would still find room for w, so does the limiter.
LEMMA RoomIsSeen ==
    ASSUME NEW a \in SlotsType, NEW H \in SUBSET Waiters, NEW w \in Waiters \ H,
           demand \in [Waiters -> Demands], Exact(a, H),
           Allocator!LimitsRespected(H \cup {w})
    PROVE  CanAdmit(a, w)
<1> DEFINE all == H \cup {w}
           u == demand[w].user
           d == demand[w].device
<1>1. u \in Users /\ (d # NoDevice => d \in Devices)
  BY DEF Demands
<1>2. IsFiniteSet(H)
  BY LimiterAssumption, FS_Subset
<1>3. a.count < MaxGlobal
  <2>1. Cardinality(all) = Cardinality(H) + 1 /\ Cardinality(H) \in Nat
    BY <1>2, FS_AddElement, FS_CardinalityType
  <2>2. Cardinality(all) <= MaxGlobal
    BY SameCardinality DEF Allocator!LimitsRespected
  <2>3. a.count = Cardinality(H)
    BY DEF Exact
  <2> HIDE DEF all
  <2> QED
    BY <2>1, <2>2, <2>3, LimiterAssumption
<1>4. a.users[u] < MaxPerUser
  <2>1. /\ OfUser(all, u) = OfUser(H, u) \cup {w}
        /\ w \notin OfUser(H, u)
        /\ IsFiniteSet(OfUser(H, u))
    BY <1>2, FS_Subset DEF OfUser
  <2>2. /\ Cardinality(OfUser(all, u)) = Cardinality(OfUser(H, u)) + 1
        /\ Cardinality(OfUser(H, u)) \in Nat
    BY <2>1, FS_AddElement, FS_CardinalityType
  <2>3. Cardinality(OfUser(all, u)) <= MaxPerUser
    BY <1>1, SameCardinality DEF Allocator!LimitsRespected, OfUser
  <2>4. a.users[u] = Cardinality(OfUser(H, u))
    BY <1>1 DEF Exact
  <2> HIDE DEF all, u
  <2> QED
    BY <2>2, <2>3, <2>4, LimiterAssumption
<1>5. d # NoDevice => a.owners[d] = NoUser
  <2>1. SUFFICES ASSUME d # NoDevice
                 PROVE  \A v \in H : demand[v].device # d
    BY <1>1 DEF Exact
  <2> QED
    BY <2>1 DEF Allocator!LimitsRespected
<1> QED
  BY <1>3, <1>4, <1>5 DEF CanAdmit

\* A scan is a top-up: it grants as much as the limits allow, and never passes
\* over an earlier request that asks for no more than one it grants.
LEMMA ScanTopsUp ==
    ASSUME NEW s \in SlotsType, NEW H \in SUBSET Waiters, NEW ws,
           NEW q \in [Waiters -> Nat], NEW st \in [Waiters -> WaiterStates], NEW N \in Nat,
           demand \in [Waiters -> Demands],
           Exact(s, H), Within(s, H), Numbered(q, st, N),
           ScanGrants(s, q, st, ws), H \cap Waiting(q, st) = {},
           \A w \in Waiters : q[w] > 0 => st[w] = "WAITING",
           queue' = Remaining(q, st, ws), Holders' = H \cup ws
    PROVE  Allocator!TopUp(q, H)
<1> DEFINE a == Admit(s, ws)
<1>1. /\ ws \in SUBSET Waiters
      /\ a \in SlotsType
      /\ Exact(a, H \cup ws)
      /\ Within(a, H \cup ws)
  BY ScanPreserves
<1>2. Allocator!Pending(q) = Waiting(q, st)
  BY DEF Allocator!Pending, Waiting
<1>3. ws \in SUBSET Allocator!Pending(q)
  BY <1>2 DEF ScanGrants
<1>4. Allocator!LimitsRespected(H \cup ws)
  BY <1>1, WithinRespectsLimits
<1>5. ASSUME NEW w \in Allocator!Pending(q) \ ws
      PROVE  ~Allocator!LimitsRespected(H \cup ws \cup {w})
  <2>1. w \in Waiting(q, st) \ ws /\ w \in Waiters \ (H \cup ws)
    BY <1>2 DEF Waiting
  <2>2. ~CanAdmit(a, w)
    BY <1>1, <2>1, ScanLeavesNoneAdmissible
  <2> HIDE DEF a
  <2> QED
    BY <1>1, <2>1, <2>2, RoomIsSeen
<1>6. ASSUME NEW w \in ws, NEW v \in Allocator!Pending(q), q[v] < q[w], Allocator!AsksNoMore(v, w)
      PROVE  v \in ws
  <2>1. /\ w \in Waiting(q, st) /\ w \in Waiters
        /\ v \in Waiting(q, st) /\ v \in Waiters
    BY <1>2, <1>3 DEF Waiting
  <2>2. CanAdmit(Admit(s, Earlier(q, ws, w)), w)
    BY <2>1 DEF ScanGrants, Earlier
  <2>3. /\ Earlier(q, ws, w) \in SUBSET Waiters
        /\ Earlier(q, ws, v) \in SUBSET Earlier(q, ws, w)
    BY <1>1, <1>6, <2>1 DEF Earlier
  <2>4. CanAdmit(Admit(s, Earlier(q, ws, v)), w)
    BY <2>1, <2>2, <2>3, AdmitMonotone
  <2>5. CanAdmit(Admit(s, Earlier(q, ws, v)), v)
    BY <1>6, <2>4 DEF CanAdmit, Allocator!AsksNoMore
  <2> QED
    BY <2>1, <2>5 DEF ScanGrants, Earlier
<1>7. queue' = [w \in Waiters |-> IF w \in ws THEN 0 ELSE q[w]]
  BY <1>2 DEF Remaining, Allocator!Pending
<1> QED
  BY <1>3, <1>4, <1>5, <1>6, <1>7 DEF Allocator!TopUp

-----------------------------------------------------------------------------
(* One lemma for each kind of critical section.                            *)

\* What the invariant says of the requests that are queued or hold a slot.
LEMMA HoldersAndPending ==
    ASSUME IInv
    PROVE  /\ demand \in [Waiters -> Demands]
           /\ slots \in SlotsType
           /\ queue \in [Waiters -> Nat]
           /\ state \in [Waiters -> WaiterStates]
           /\ Cardinality(Arrived) \in Nat
           /\ Holders \in SUBSET Waiters
           /\ \A w \in Waiters : queue[w] > 0 <=> state[w] = "WAITING"
           /\ \A w \in Waiters : queue[w] <= Cardinality(Arrived)
           /\ Holders \cap Waiting(queue, state) = {}
<1>1. /\ demand \in [Waiters -> Demands]
      /\ slots \in SlotsType
      /\ queue \in [Waiters -> Nat]
      /\ state \in [Waiters -> WaiterStates]
      /\ Holders \in SUBSET Waiters
  BY DEF IInv, TypeOK, SlotsType, Holders
<1>2. Cardinality(Arrived) \in Nat
  BY SubsetCardinality DEF Arrived
<1>3. \A w \in Waiters : queue[w] > 0 <=> state[w] = "WAITING"
  BY DEF IInv, Coherent
<1>4. ASSUME NEW w \in Waiters
      PROVE  queue[w] <= Cardinality(Arrived)
  <2>1. queue[w] > 0 => queue[w] <= Cardinality(Arrived)
    BY <1>3 DEF IInv, Ordered, Numbered, Waiting
  <2> QED
    BY <1>1, <1>2, <2>1
<1>5. Holders \cap Waiting(queue, state) = {}
  BY DEF Holders, Waiting
<1> QED
  BY <1>1, <1>2, <1>3, <1>4, <1>5

\* The slot of w is given back and handed on by a scan (FinishRelease, and
\* CancelWaiter for a granted request).
LEMMA HandOnRefines ==
    ASSUME IInv, NEW w \in Holders, NEW st \in [Waiters -> WaiterStates], NEW ws,
           Waiting(queue, st) = Waiting(queue, state),
           ScanGrants(ReleaseCounts(slots, w), queue, st, ws),
           queue' = Remaining(queue, st, ws),
           demand' = demand, Holders' = (Holders \ {w}) \cup ws
    PROVE  Allocator!GiveBack(w)
<1> DEFINE s == ReleaseCounts(slots, w)
           H == Holders \ {w}
           N == Cardinality(Arrived)
<1>1. s \in SlotsType /\ Exact(s, H) /\ Within(s, H)
  BY HoldersAndPending, ReleaseExact DEF IInv
<1>2. Numbered(queue, st, N)
  BY DEF IInv, Ordered, Numbered
<1>3. H \in SUBSET Waiters /\ H \cap Waiting(queue, st) = {}
  BY HoldersAndPending
<1>4. \A v \in Waiters : queue[v] > 0 => st[v] = "WAITING"
  <2>1. \A v \in Waiters : queue[v] > 0 => v \in Waiting(queue, state)
    BY HoldersAndPending DEF Waiting
  <2> QED
    BY <2>1 DEF Waiting
<1>5. Allocator!TopUp(queue, H)
  <2>1. ScanGrants(s, queue, st, ws) /\ Holders' = H \cup ws
    OBVIOUS
  <2> HIDE DEF s, H, N
  <2> QED
    BY <1>1, <1>2, <1>3, <1>4, <2>1, HoldersAndPending, ScanTopsUp DEF N
<1> QED
  BY <1>5 DEF Allocator!GiveBack

\* A waiting request leaves the queue.
LEMMA LeaveRefines ==
    ASSUME IInv, NEW w \in Waiters, state[w] = "WAITING",
           UNCHANGED <<demand, lease>>,
           state' = [state EXCEPT ![w] = "CANCELLED"], queue' = [queue EXCEPT ![w] = 0]
    PROVE  Allocator!Withdraw(w)
<1>1. w \in Allocator!Pending(queue)
  BY HoldersAndPending DEF Allocator!Pending
<1>2. Holders' = Holders
  BY DEF IInv, TypeOK, Holders
<1> QED
  BY <1>1, <1>2 DEF Allocator!Withdraw

\* A new request arrives behind the others and the queue is scanned at once.
LEMMA EnqueueRefines ==
    ASSUME IInv, NEW w \in Waiters, Enqueue(w)
    PROVE  Allocator!Request(w)
<1> DEFINE N == Cardinality(Arrived)
           q == [queue EXCEPT ![w] = N + 1]
           st == [state EXCEPT ![w] = "WAITING"]
<1>1. PICK ws \in SUBSET Waiting(q, st) :
         /\ ScanGrants(slots, q, st, ws)
         /\ queue' = Remaining(q, st, ws)
         /\ IF w \in ws
            THEN /\ state' = [Granted(st, ws) EXCEPT ![w] = "CLAIMED"]
                 /\ lease' = [lease EXCEPT ![w] = "live"]
            ELSE state' = Granted(st, ws) /\ lease' = lease
  BY DEF Enqueue, Arrived
<1>2. call[w] = "idle" /\ demand' = demand
  BY DEF Enqueue
<1>3. state[w] = "NEW" /\ lease[w] = "none" /\ queue[w] = 0
  BY <1>2 DEF IInv, TypeOK, Coherent, LeaseStates, WaiterStates
<1>4. /\ N \in Nat
      /\ queue \in [Waiters -> Nat]
      /\ state \in [Waiters -> WaiterStates]
      /\ lease \in [Waiters -> LeaseStates]
      /\ \A v \in Waiters : queue[v] <= N
      /\ \A v \in Waiters : queue[v] > 0 <=> state[v] = "WAITING"
  BY HoldersAndPending DEF IInv, TypeOK
<1>5. /\ q \in [Waiters -> Nat]
      /\ st \in [Waiters -> WaiterStates]
      /\ \A v \in Waiters : q[v] = IF v = w THEN N + 1 ELSE queue[v]
      /\ \A v \in Waiters : st[v] = IF v = w THEN "WAITING" ELSE state[v]
  BY <1>4 DEF WaiterStates
<1>6. N + 1 \in 1..Cardinality(Waiters)
  <2>1. w \notin Arrived /\ Arrived \cup {w} \in SUBSET Waiters /\ IsFiniteSet(Arrived)
    BY <1>3, LimiterAssumption, FS_Subset DEF Arrived
  <2>2. Cardinality(Arrived \cup {w}) = N + 1
    BY <2>1, FS_AddElement
  <2>3. /\ Cardinality(Arrived \cup {w}) <= Cardinality(Waiters)
        /\ Cardinality(Waiters) \in Nat
    BY <2>1, SubsetCardinality
  <2> HIDE DEF N
  <2> QED
    BY <1>4, <2>2, <2>3
<1>7. \A v \in Waiters : queue[v] < N + 1
  <2> HIDE DEF N
  <2> QED
    BY <1>4
<1>8. w \notin Allocator!Pending(queue) \cup Holders
  BY <1>3 DEF Allocator!Pending, Holders
<1> HIDE DEF q, st
<1>9. Waiting(q, st) = Waiting(queue, state) \cup {w}
  <2> HIDE DEF N
  <2> QED
    BY <1>3, <1>4, <1>5 DEF Waiting
<1>10. Numbered(q, st, N + 1)
  <2>1. \A v, x \in Waiting(queue, state) : queue[v] = queue[x] => v = x
    BY DEF IInv, Ordered, Numbered
  <2>2. w \notin Waiting(queue, state) /\ Waiting(queue, state) \subseteq Waiters
    BY <1>3 DEF Waiting
  <2> HIDE DEF N
  <2> QED
    BY <1>4, <1>5, <1>7, <1>9, <2>1, <2>2 DEF Numbered
<1>11. Holders \cap Waiting(q, st) = {}
  BY <1>3, <1>9, HoldersAndPending DEF Holders
<1>12. Holders' = Holders \cup ws
  <2>1. ws \subseteq Waiters /\ \A v \in ws : st[v] = "WAITING"
    BY DEF Waiting
  <2>2. \A v \in Waiters : /\ state'[v] = IF v \in ws
                                          THEN IF v = w THEN "CLAIMED" ELSE "GRANTED"
                                          ELSE st[v]
                           /\ lease'[v] = IF v = w /\ w \in ws THEN "live" ELSE lease[v]
    <3>1. /\ Granted(st, ws) \in [Waiters -> WaiterStates]
          /\ \A v \in Waiters : Granted(st, ws)[v] = IF v \in ws THEN "GRANTED" ELSE st[v]
      BY <1>5 DEF Granted, WaiterStates
    <3>2. CASE w \in ws
      <4>1. /\ state' = [Granted(st, ws) EXCEPT ![w] = "CLAIMED"]
            /\ lease' = [lease EXCEPT ![w] = "live"]
        BY <1>1, <3>2
      <4> QED
        BY <1>4, <3>1, <3>2, <4>1
    <3>3. CASE w \notin ws
      BY <1>1, <3>1, <3>3
    <3> QED
      BY <3>2, <3>3
  <2>3. \A v \in Waiters : v \in Holders' <=> v \in Holders \cup ws
    BY <1>3, <1>5, <2>1, <2>2 DEF Holders, IInv, Coherent
  <2> QED
    BY <2>1, <2>3 DEF Holders
<1>13. \A v \in Waiters : q[v] > 0 => st[v] = "WAITING"
  BY <1>4, <1>5
<1>14. Allocator!TopUp(q, Holders)
  <2>1. N + 1 \in Nat
    BY <1>4
  <2>2. Exact(slots, Holders) /\ Within(slots, Holders)
    BY DEF IInv
  <2> HIDE DEF N
  <2> QED
    BY <1>1, <1>5, <1>10, <1>11, <1>12, <1>13, <2>1, <2>2, HoldersAndPending, ScanTopsUp
<1> QED
  <2>1. Allocator!TopUp([queue EXCEPT ![w] = N + 1], Holders)
    BY <1>14 DEF q
  <2> HIDE DEF N
  <2> QED
    BY <1>2, <1>6, <1>7, <1>8, <2>1, SameCardinality DEF Allocator!Request

\* Releasing a lease gives the slot back.
LEMMA FinishReleaseRefines ==
    ASSUME IInv, NEW w \in Waiters, FinishRelease(w)
    PROVE  Allocator!GiveBack(w)
<1>1. PICK ws \in SUBSET Waiting(queue, state) :
         /\ ScanGrants(ReleaseCounts(slots, w), queue, state, ws)
         /\ queue' = Remaining(queue, state, ws)
         /\ state' = Granted(state, ws)
  BY DEF FinishRelease
<1>2. /\ lease[w] = "releasing" /\ lease' = [lease EXCEPT ![w] = "released"]
      /\ demand' = demand
  BY DEF FinishRelease
<1>3. /\ w \in Holders /\ state[w] = "CLAIMED"
      /\ \A v \in ws : state[v] = "WAITING"
      /\ ws \subseteq Waiters
  BY <1>2 DEF IInv, Coherent, Holders, Waiting
<1>4. Holders' = (Holders \ {w}) \cup ws
  <2>1. \A v \in Waiters : state'[v] = IF v \in ws THEN "GRANTED" ELSE state[v]
    BY <1>1 DEF Granted
  <2>2. \A v \in Waiters : lease'[v] = IF v = w THEN "released" ELSE lease[v]
    BY <1>2 DEF IInv, TypeOK
  <2>3. \A v \in Waiters : v \in Holders' <=> v \in (Holders \ {w}) \cup ws
    BY <1>2, <1>3, <2>1, <2>2 DEF Holders, IInv, Coherent
  <2> QED
    BY <1>3, <2>3 DEF Holders
<1> QED
  BY <1>1, <1>2, <1>3, <1>4, HandOnRefines DEF IInv, TypeOK

\* Cancelling withdraws a waiting request, gives back the slot of a granted one
\* and changes nothing for a claimed or cancelled one.
LEMMA CancelWaiterRefines ==
    ASSUME IInv, NEW w \in Waiters, NEW c, CancelWaiter(w, c)
    PROVE  \/ Allocator!Withdraw(w)
           \/ Allocator!GiveBack(w)
           \/ UNCHANGED Allocator!vars
<1>1. UNCHANGED <<demand, lease>>
  BY DEF CancelWaiter
<1>2. CASE /\ state[w] = "WAITING"
           /\ state' = [state EXCEPT ![w] = "CANCELLED"]
           /\ queue' = [queue EXCEPT ![w] = 0]
  BY <1>1, <1>2, LeaveRefines
<1>3. CASE /\ state[w] = "GRANTED"
           /\ LET s  == ReleaseCounts(slots, w)
                  st == [state EXCEPT ![w] = "CANCELLED"]
              IN  \E ws \in SUBSET Waiting(queue, st) :
                     /\ ScanGrants(s, queue, st, ws)
                     /\ slots' = Admit(s, ws)
                     /\ queue' = Remaining(queue, st, ws)
                     /\ state' = Granted(st, ws)
  <2> DEFINE st == [state EXCEPT ![w] = "CANCELLED"]
  <2>1. PICK ws \in SUBSET Waiting(queue, st) :
           /\ ScanGrants(ReleaseCounts(slots, w), queue, st, ws)
           /\ queue' = Remaining(queue, st, ws)
           /\ state' = Granted(st, ws)
    BY <1>3
  <2>2. state[w] = "GRANTED"
    BY <1>3
  <2>3. /\ st \in [Waiters -> WaiterStates]
        /\ \A v \in Waiters : st[v] = IF v = w THEN "CANCELLED" ELSE state[v]
    BY DEF IInv, TypeOK, WaiterStates
  <2> HIDE DEF st
  <2>4. Waiting(queue, st) = Waiting(queue, state)
    BY <2>2, <2>3 DEF Waiting
  <2>5. /\ w \in Holders
        /\ \A v \in ws : state[v] = "WAITING"
        /\ ws \subseteq Waiters /\ w \notin ws
    BY <2>2, <2>4 DEF Holders, Waiting
  <2>6. Holders' = (Holders \ {w}) \cup ws
    <3>1. \A v \in Waiters : state'[v] = IF v \in ws THEN "GRANTED"
                                         ELSE IF v = w THEN "CANCELLED" ELSE state[v]
      BY <2>1, <2>3 DEF Granted
    <3>2. \A v \in Waiters : v \in Holders' <=> v \in (Holders \ {w}) \cup ws
      BY <1>1, <2>5, <3>1 DEF Holders
    <3> QED
      BY <2>5, <3>2 DEF Holders
  <2> QED
    BY <1>1, <2>1, <2>3, <2>4, <2>5, <2>6, HandOnRefines
<1>4. CASE UNCHANGED <<state, queue, slots>>
  BY <1>1, <1>4 DEF Allocator!vars, Holders
<1> QED
  BY <1>2, <1>3, <1>4 DEF CancelWaiter

\* Everything else a thread does leaves the allocator as it is.
LEMMA QuietRefines ==
    ASSUME IInv, NEW w \in Waiters,
           \/ StartWait(w) \/ Claim(w) \/ ObserveCancelled(w) \/ Park(w) \/ Wake(w)
           \/ StoreLease(w) \/ RaiseAbort(w) \/ PassDeadline(w)
           \/ ReleaseByRequester(w) \/ ReleaseByOther(w)
    PROVE  UNCHANGED Allocator!vars
<1>1. UNCHANGED <<demand, queue>>
  BY DEF StartWait, Claim, ObserveCancelled, Park, Wake, StoreLease, RaiseAbort, PassDeadline,
         ReleaseByRequester, ReleaseByOther, BeginRelease
<1>2. Holders' = Holders
  <2>1. CASE Claim(w)
    BY <2>1 DEF Claim, IInv, TypeOK, Coherent, Holders
  <2>2. CASE ReleaseByRequester(w) \/ ReleaseByOther(w)
    BY <2>2 DEF ReleaseByRequester, ReleaseByOther, BeginRelease, IInv, TypeOK, Holders
  <2>3. CASE \/ StartWait(w) \/ ObserveCancelled(w) \/ Park(w) \/ Wake(w)
             \/ StoreLease(w) \/ RaiseAbort(w) \/ PassDeadline(w)
    BY <2>3 DEF StartWait, ObserveCancelled, Park, Wake, StoreLease, RaiseAbort, PassDeadline,
                Holders
  <2> QED
    BY <2>1, <2>2, <2>3
<1> QED
  BY <1>1, <1>2 DEF Allocator!vars

-----------------------------------------------------------------------------
(* The refinement.                                                         *)

LEMMA InitRefines == Init => Allocator!Init
<1> SUFFICES ASSUME Init PROVE Allocator!Init
  OBVIOUS
<1>1. Holders = {}
  BY DEF Init, Holders
<1> QED
  BY <1>1 DEF Init, Allocator!Init, Demands, Allocator!Demands

LEMMA NextRefines == IInv /\ [Next]_vars => [Allocator!Next]_(Allocator!vars)
<1> SUFFICES ASSUME IInv, [Next]_vars
             PROVE  Allocator!Next \/ UNCHANGED Allocator!vars
  OBVIOUS
<1>1. ASSUME NEW w \in Waiters, Enqueue(w)
      PROVE  Allocator!Next
  BY <1>1, EnqueueRefines DEF Allocator!Next
<1>2. ASSUME NEW w \in Waiters, LeaveQueue(w)
      PROVE  Allocator!Next
  BY <1>2, LeaveRefines DEF LeaveQueue, Allocator!Next
<1>3. ASSUME NEW w \in Waiters, FinishRelease(w)
      PROVE  Allocator!Next
  BY <1>3, FinishReleaseRefines DEF Allocator!Next
<1>4. ASSUME NEW w \in Waiters, Abandon(w) \/ CancelTicket(w)
      PROVE  Allocator!Next \/ UNCHANGED Allocator!vars
  BY <1>4, CancelWaiterRefines DEF Abandon, CancelTicket, Allocator!Next
<1>5. ASSUME NEW w \in Waiters,
             \/ StartWait(w) \/ Claim(w) \/ ObserveCancelled(w) \/ Park(w) \/ Wake(w)
             \/ StoreLease(w) \/ RaiseAbort(w) \/ PassDeadline(w)
             \/ ReleaseByRequester(w) \/ ReleaseByOther(w)
      PROVE  UNCHANGED Allocator!vars
  BY <1>5, QuietRefines
<1>6. CASE UNCHANGED vars
  BY <1>6 DEF vars, Allocator!vars, Holders
<1> QED
  BY <1>1, <1>2, <1>3, <1>4, <1>5, <1>6 DEF Next, Internal

\* The limiter implements the abstract allocator: whatever its threads do, its
\* callers see requests, withdrawals and slots given back, with the slots topped
\* up after each, first come first served among equal demands.
THEOREM Refinement == Spec => AllocatorSpec
<1>1. IInv /\ IInv' /\ [Next]_vars => [Allocator!Next]_(Allocator!vars)
  BY NextRefines
<1> QED
  BY <1>1, InitRefines, Invariance, PTL DEF Spec, AllocatorSpec, Allocator!Spec

-----------------------------------------------------------------------------
(* What the abstract allocator promises to those who use it in the limiter's   *)
(* place (DeviceLease, RunControl).                                          *)

\* No request is pending and served, the limits hold, and nobody pending fits.
Promise ==
    /\ queue \in [Waiters -> Nat]
    /\ \A w \in Allocator!Pending(queue) : w \notin Holders
    /\ Allocator!LimitsRespected(Holders)
    /\ \A w \in Allocator!Pending(queue) : ~Allocator!LimitsRespected(Holders \cup {w})

\* Who is granted a slot passes nobody who waited before and asks for no more.
NobodyIsPassed ==
    \A v \in Allocator!Pending(queue), w \in Holders' \ Holders :
        /\ Allocator!AsksNoMore(v, w)
        /\ w \in Allocator!Pending(queue) => queue[v] < queue[w]
        => v \in Holders'

LEMMA TopUpKeepsPromise ==
    ASSUME NEW p \in [Waiters -> Nat], NEW h, Allocator!TopUp(p, h), demand' = demand,
           \A w \in Allocator!Pending(p) : w \notin h
    PROVE  /\ Promise' /\ h \subseteq Holders'
           /\ \A w \in Holders' \ h : w \in Allocator!Pending(p)
           /\ \A w \in Holders' \ h, v \in Allocator!Pending(p) :
                 p[v] < p[w] /\ Allocator!AsksNoMore(v, w) => v \in Holders'
<1>1. PICK granted \in SUBSET Allocator!Pending(p) :
        /\ Allocator!LimitsRespected(h \cup granted)
        /\ \A w \in Allocator!Pending(p) \ granted :
              ~Allocator!LimitsRespected(h \cup granted \cup {w})
        /\ \A w \in granted, v \in Allocator!Pending(p) :
              p[v] < p[w] /\ Allocator!AsksNoMore(v, w) => v \in granted
        /\ Holders' = h \cup granted
        /\ queue' = [w \in Waiters |-> IF w \in granted THEN 0 ELSE p[w]]
  BY DEF Allocator!TopUp
<1>2. queue' \in [Waiters -> Nat]
  BY <1>1
<1>3. \A w : w \in Allocator!Pending(queue') => w \in Allocator!Pending(p) \ granted
  BY <1>1 DEF Allocator!Pending
<1>4. \A g : Allocator!LimitsRespected(g)' <=> Allocator!LimitsRespected(g)
  BY DEF Allocator!LimitsRespected
<1> QED  BY <1>1, <1>2, <1>3, <1>4 DEF Promise

LEMMA PromiseStep ==
    ASSUME Promise, Allocator!Next
    PROVE  Promise' /\ NobodyIsPassed
<1>1. ASSUME NEW w \in Waiters, Allocator!Request(w)
      PROVE  Promise' /\ NobodyIsPassed
  <2>1. w \notin Allocator!Pending(queue) \cup Holders /\ demand' = demand
    BY <1>1 DEF Allocator!Request
  <2>2. PICK n \in 1 .. Cardinality(Waiters) :
          /\ \A v \in Waiters : queue[v] < n
          /\ Allocator!TopUp([queue EXCEPT ![w] = n], Holders)
    BY <1>1, SameCardinality DEF Allocator!Request
  <2>3. n \in Nat
    BY <2>2, LimiterAssumption, FS_CardinalityType
  <2> DEFINE p == [queue EXCEPT ![w] = n]
  <2>4. p \in [Waiters -> Nat] /\ \A v \in Waiters : p[v] = IF v = w THEN n ELSE queue[v]
    BY <2>3 DEF Promise
  <2> HIDE DEF p
  <2>5. Allocator!TopUp(p, Holders)
    BY <2>2 DEF p
  <2>6. \A v \in Allocator!Pending(p) : v \notin Holders
    BY <2>1, <2>4 DEF Promise, Allocator!Pending
  <2>7. /\ Promise'
        /\ \A x \in Holders' \ Holders : x \in Allocator!Pending(p)
        /\ \A x \in Holders' \ Holders, v \in Allocator!Pending(p) :
              p[v] < p[x] /\ Allocator!AsksNoMore(v, x) => v \in Holders'
    BY <2>1, <2>4, <2>5, <2>6, TopUpKeepsPromise
  <2>8. ASSUME NEW v \in Allocator!Pending(queue), NEW x \in Holders' \ Holders,
               Allocator!AsksNoMore(v, x), x \in Allocator!Pending(queue) => queue[v] < queue[x]
        PROVE  v \in Holders'
    <3>1. v \in Waiters /\ v # w /\ v \in Allocator!Pending(p) /\ p[v] = queue[v]
      BY <2>1, <2>4 DEF Allocator!Pending
    <3>2. x \in Waiters /\ x \in Allocator!Pending(p)
      BY <2>7 DEF Allocator!Pending
    <3>3. p[v] < p[x]
      BY <2>2, <2>4, <2>8, <3>1, <3>2 DEF Allocator!Pending
    <3> QED  BY <2>7, <2>8, <3>1, <3>2, <3>3
  <2> QED  BY <2>7, <2>8 DEF NobodyIsPassed
<1>2. ASSUME NEW w \in Waiters, Allocator!Withdraw(w)
      PROVE  Promise' /\ NobodyIsPassed
  <2>1. queue' = [queue EXCEPT ![w] = 0] /\ Holders' = Holders /\ demand' = demand
    BY <1>2 DEF Allocator!Withdraw
  <2>2. \A v \in Allocator!Pending(queue') : v \in Allocator!Pending(queue)
    BY <2>1 DEF Promise, Allocator!Pending
  <2>3. \A g : Allocator!LimitsRespected(g)' <=> Allocator!LimitsRespected(g)
    BY <2>1 DEF Allocator!LimitsRespected
  <2>4. queue' \in [Waiters -> Nat]
    BY <2>1 DEF Promise
  <2> QED  BY <2>1, <2>2, <2>3, <2>4 DEF Promise, NobodyIsPassed
<1>3. ASSUME NEW w \in Waiters, Allocator!GiveBack(w)
      PROVE  Promise' /\ NobodyIsPassed
  <2>1. Allocator!TopUp(queue, Holders \ {w}) /\ demand' = demand
    BY <1>3 DEF Allocator!GiveBack
  <2>2. queue \in [Waiters -> Nat] /\ \A v \in Allocator!Pending(queue) : v \notin Holders \ {w}
    BY DEF Promise
  <2>3. /\ Promise'
        /\ \A x \in Holders' \ (Holders \ {w}) : x \in Allocator!Pending(queue)
        /\ \A x \in Holders' \ (Holders \ {w}), v \in Allocator!Pending(queue) :
              queue[v] < queue[x] /\ Allocator!AsksNoMore(v, x) => v \in Holders'
    BY <2>1, <2>2, TopUpKeepsPromise
  <2> QED  BY <2>3 DEF NobodyIsPassed
<1> QED  BY <1>1, <1>2, <1>3 DEF Allocator!Next

\* What the abstract allocator promises, whoever implements it: the limits hold, no
\* request is both pending and served, and none is pending that would fit.
THEOREM AllocatorPromise == AllocatorSpec => []Promise
<1>1. Allocator!Init => Promise
  <2> SUFFICES ASSUME Allocator!Init PROVE Promise
    OBVIOUS
  <2>1. queue = [w \in Waiters |-> 0] /\ Holders = {}
    BY DEF Allocator!Init
  <2>2. Allocator!LimitsRespected(Holders)
    BY <2>1, LimiterAssumption, FS_EmptySet, SameCardinality DEF Allocator!LimitsRespected
  <2> QED  BY <2>1, <2>2 DEF Promise, Allocator!Pending
<1>2. Promise /\ [Allocator!Next]_(Allocator!vars) => Promise'
  BY PromiseStep DEF Promise, Allocator!vars, Allocator!LimitsRespected, Allocator!Pending
<1> QED  BY <1>1, <1>2, PTL DEF AllocatorSpec, Allocator!Spec

\* Through the refinement the limiter inherits the order of the queue: whatever its
\* threads do, no step gives a slot to a request past one that came before it
\* and asks for no more.
THEOREM FirstComeFirstServed == Spec => [][NobodyIsPassed]_(Allocator!vars)
<1>1. Promise /\ [Allocator!Next]_(Allocator!vars) => [NobodyIsPassed]_(Allocator!vars)
  BY PromiseStep
<1> QED  BY <1>1, Refinement, AllocatorPromise, PTL DEF AllocatorSpec, Allocator!Spec
=============================================================================
