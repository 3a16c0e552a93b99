--------------------- MODULE ReverseTunnelManagerProofs ---------------------
(* The theorems about the reverse-tunnel pool, for any number of           *)
(* addresses, listeners, clients and incoming connections and any queue    *)
(* capacity, with the arguments that count: what a purge leaves of a       *)
(* queue, the handlers of a listener, and the line of ReversePool.         *)
EXTENDS ReverseTunnelManagerQueueProofs, FiniteSetTheorems

-----------------------------------------------------------------------------
(* Facts about purgeDoneWaitersLocked.                                     *)

(* The elements of a finite set of positions have the ranks 1, 2, ... with *)
(* none missing and none shared.                                           *)
LEMMA RankBijective ==
    ASSUME NEW m \in Nat, NEW S \in SUBSET (1..m)
    PROVE  /\ IsFiniteSet(S) /\ Cardinality(S) \in Nat /\ Cardinality(S) <= m
           /\ \A n \in 1..Cardinality(S) : \E i \in S : Rank(S, i) = n
           /\ \A i, j \in S : Rank(S, i) = Rank(S, j) => i = j
<1> DEFINE N == Cardinality(S)
           Upto(i) == {j \in S : j <= i}
           f == [i \in S |-> Rank(S, i)]
<1> S \subseteq Int
  OBVIOUS
<1>1. IsFiniteSet(S) /\ N \in Nat /\ N <= m
  <2>1. IsFiniteSet(1..m) /\ Cardinality(1..m) = m
    BY FS_Interval
  <2> QED
    BY <2>1, FS_Subset, FS_CardinalityType, Zenon
<1>2. \A i \in S : /\ Upto(i) \in SUBSET S
                   /\ IsFiniteSet(Upto(i))
                   /\ Rank(S, i) \in 1..N
  <2> SUFFICES ASSUME NEW i \in S
               PROVE  IsFiniteSet(Upto(i)) /\ Rank(S, i) \in 1..N
    OBVIOUS
  <2>1. Upto(i) \in SUBSET S
    OBVIOUS
  <2>2. IsFiniteSet(Upto(i)) /\ Cardinality(Upto(i)) <= N
    BY <1>1, <2>1, FS_Subset
  <2>3. i \in Upto(i)
    OBVIOUS
  <2>4. Cardinality(Upto(i)) \in Nat /\ Cardinality(Upto(i)) # 0
    BY <2>2, <2>3, FS_CardinalityType, FS_EmptySet, Zenon
  <2> QED
    BY <2>2, <2>4, <1>1 DEF Rank
<1>3. \A i, j \in S : i < j => Rank(S, i) # Rank(S, j)
  <2> SUFFICES ASSUME NEW i \in S, NEW j \in S, i < j
               PROVE  Rank(S, i) # Rank(S, j)
    OBVIOUS
  <2>0. i \in Int /\ j \in Int
    OBVIOUS
  <2>1. Upto(i) \in SUBSET Upto(j) /\ j \in Upto(j) /\ j \notin Upto(i)
    <3>1. \A k \in S : k \in Int /\ (k <= i => k <= j)
      BY <2>0
    <3>2. Upto(i) \subseteq Upto(j)
      BY <3>1, Zenon
    <3>3. j <= j /\ ~(j <= i)
      BY <2>0
    <3> QED
      BY <3>2, <3>3, Zenon
  <2>2. Cardinality(Upto(j)) = Cardinality(Upto(i)) => Upto(j) = Upto(i)
    BY <1>2, <2>1, FS_Subset
  <2> QED
    BY <2>1, <2>2 DEF Rank
<1>4. \A i, j \in S : Rank(S, i) = Rank(S, j) => i = j
  BY <1>3
<1>5. f \in Injection(S, 1..N)
  BY <1>2, <1>4, Zenon DEF Injection, IsInjective
<1>6. f \in Surjection(S, 1..N)
  <2>1. IsFiniteSet(1..N) /\ Cardinality(1..N) = N
    BY <1>1, FS_Interval
  <2> QED
    BY <1>5, <2>1, FS_Injection
<1>7. \A n \in 1..N : \E i \in S : Rank(S, i) = n
  BY <1>6, Zenon DEF Surjection
<1> QED
  BY <1>1, <1>4, <1>7

(* Queues with the same elements are the same.                             *)
LEMMA SameLine ==
    ASSUME NEW s \in Seq(Waiters), NEW t \in Seq(Waiters), Len(s) = Len(t),
           \A i \in 1..Len(s) : s[i] = t[i]
    PROVE  s = t
<1>1. s = [i \in 1..Len(s) |-> s[i]] /\ t = [i \in 1..Len(t) |-> t[i]]
  OBVIOUS
<1> QED
  BY <1>1, Zenon

(* One queue after another.                                                *)
LEMMA JoinFacts ==
    ASSUME NEW s \in Seq(Waiters), NEW t \in Seq(Waiters)
    PROVE  /\ s \o t \in Seq(Waiters)
           /\ Len(s \o t) = Len(s) + Len(t)
           /\ \A n \in 1..Len(s) + Len(t) :
                  (s \o t)[n] = IF n <= Len(s) THEN s[n] ELSE t[n - Len(s)]
<1>1. s \o t \in Seq(Waiters)
  OBVIOUS
<1>2. Len(s \o t) = Len(s) + Len(t)
  OBVIOUS
<1>3. \A n \in 1..Len(s) + Len(t) :
          (s \o t)[n] = IF n <= Len(s) THEN s[n] ELSE t[n - Len(s)]
  OBVIOUS
<1> QED
  BY <1>1, <1>2, <1>3, Zenon

(* The subsequence of q at the positions S.                                *)
Keep(q, S) == [n \in 1..Cardinality(S) |-> q[CHOOSE i \in S : Rank(S, i) = n]]

(* The position the n-th element kept comes from.                          *)
LEMMA KeepFacts ==
    ASSUME NEW q \in Seq(Waiters), NEW S \in SUBSET (1..Len(q))
    PROVE  /\ Keep(q, S) \in Seq(Waiters)
           /\ Len(Keep(q, S)) = Cardinality(S)
           /\ Cardinality(S) \in Nat
           /\ \A i \in S : Rank(S, i) \in 1..Cardinality(S) /\ Keep(q, S)[Rank(S, i)] = q[i]
           /\ \A n \in 1..Cardinality(S) : \E i \in S : Rank(S, i) = n
<1> DEFINE N == Cardinality(S)
           pos(n) == CHOOSE i \in S : Rank(S, i) = n
<1> Len(q) \in Nat /\ S \subseteq Int /\ \A i \in S : q[i] \in Waiters
  OBVIOUS
<1>1. /\ IsFiniteSet(S) /\ N \in Nat
      /\ \A n \in 1..N : \E i \in S : Rank(S, i) = n
      /\ \A i, j \in S : Rank(S, i) = Rank(S, j) => i = j
  BY RankBijective, Zenon
<1>2. \A n \in 1..N : pos(n) \in S /\ Rank(S, pos(n)) = n
  BY <1>1
<1>3. \A i \in S : Rank(S, i) \in 1..N
  <2> SUFFICES ASSUME NEW i \in S PROVE Rank(S, i) \in 1..N
    OBVIOUS
  <2> DEFINE U == {j \in S : j <= i}
  <2>1. U \in SUBSET S /\ i \in U
    OBVIOUS
  <2>2. IsFiniteSet(U) /\ Cardinality(U) <= N /\ Cardinality(U) \in Nat
    BY <1>1, <2>1, FS_Subset, FS_CardinalityType
  <2>3. Cardinality(U) # 0
    BY <2>1, <2>2, FS_EmptySet, ZenonT(60)
  <2> QED
    BY <1>1, <2>2, <2>3 DEF Rank
<1>4. Keep(q, S) = [n \in 1..N |-> q[pos(n)]]
  BY DEF Keep
<1> HIDE DEF N, pos
<1>5. Keep(q, S) \in Seq(Waiters) /\ Len(Keep(q, S)) = N
  <2>1. Keep(q, S) \in [1..N -> Waiters]
    BY <1>2, <1>4, Zenon
  <2> QED
    BY <1>1, <2>1
<1>6. ASSUME NEW i \in S PROVE Keep(q, S)[Rank(S, i)] = q[i]
  <2>1. Rank(S, i) \in 1..N /\ pos(Rank(S, i)) = i
    BY <1>1, <1>2, <1>3, Zenon
  <2> QED
    BY <1>4, <2>1
<1> QED
  BY <1>1, <1>3, <1>5, <1>6 DEF N

(* Keeping everything changes nothing.                                     *)
LEMMA KeepAll ==
    ASSUME NEW q \in Seq(Waiters)
    PROVE  Keep(q, 1..Len(q)) = q
<1> DEFINE S == 1..Len(q)
<1>0. Len(q) \in Nat
  OBVIOUS
<1>1. Len(q) \in Nat /\ Cardinality(S) = Len(q)
  <2>1. \A m \in Nat : Cardinality(1..m) = m
    BY FS_Interval
  <2> QED
    BY <1>0, <2>1, Zenon
<1>2. ASSUME NEW i \in S PROVE Rank(S, i) = i
  <2>1. {j \in S : j <= i} = 1..i /\ i \in Nat
    BY <1>1
  <2>2. Cardinality(1..i) = i
    BY <2>1, FS_Interval
  <2> QED
    BY <2>1, <2>2, Zenon DEF Rank
<1>3. /\ Keep(q, S) \in Seq(Waiters) /\ Len(Keep(q, S)) = Len(q)
      /\ \A i \in S : Keep(q, S)[i] = q[i]
  <2>1. S \in SUBSET (1..Len(q))
    OBVIOUS
  <2>2. /\ Keep(q, S) \in Seq(Waiters) /\ Len(Keep(q, S)) = Cardinality(S)
        /\ \A i \in S : Keep(q, S)[Rank(S, i)] = q[i]
    BY <2>1, KeepFacts
  <2> QED
    BY <1>1, <1>2, <2>2
<1> HIDE DEF S
<1>4. Keep(q, S) = q
  BY <1>3, SameLine DEF S
<1> QED
  BY <1>4 DEF S

(* purgeDoneWaitersLocked keeps the pending positions of a queue.          *)
LEMMA PurgedKeeps ==
    ASSUME NEW l, waiting[l] \in Seq(Waiters)
    PROVE  Purged(l) = Keep(waiting[l], Pending(l))
<1>1. CASE \A i \in 1..Len(waiting[l]) : ~done[waiting[l][i]]
  <2>1. Pending(l) = 1..Len(waiting[l]) /\ Purged(l) = waiting[l]
    BY <1>1, Zenon DEF Pending, Purged
  <2> QED
    BY <2>1, KeepAll, Zenon
<1>2. CASE ~\A i \in 1..Len(waiting[l]) : ~done[waiting[l][i]]
  BY <1>2, Zenon DEF Purged, Keep
<1> QED
  BY <1>1, <1>2, Zenon

(* The purged queue is made of waiters of the queue that are not done; it  *)
(* is no longer than the queue and repeats nothing the queue does not.     *)
LEMMA PurgedLine ==
    ASSUME NEW l \in Listeners, waiting[l] \in Seq(Waiters)
    PROVE  /\ Purged(l) \in Seq(Waiters)
           /\ Len(Purged(l)) <= Len(waiting[l])
           /\ \A n \in 1..Len(Purged(l)) : \E i \in 1..Len(waiting[l]) :
                  /\ Purged(l)[n] = waiting[l][i]
                  /\ ~done[waiting[l][i]]
           /\ (\A i, j \in 1..Len(waiting[l]) : waiting[l][i] = waiting[l][j] => i = j)
              => (\A m, n \in 1..Len(Purged(l)) : Purged(l)[m] = Purged(l)[n] => m = n)
<1> DEFINE S == Pending(l)
           N == Cardinality(S)
           pos(n) == CHOOSE i \in S : Rank(S, i) = n
<1>1. Len(waiting[l]) \in Nat /\ S \in SUBSET (1..Len(waiting[l]))
  BY DEF Pending
<1>2. /\ N \in Nat /\ N <= Len(waiting[l])
      /\ \A n \in 1..N : \E i \in S : Rank(S, i) = n
  BY <1>1, RankBijective
<1>3. \A n \in 1..N : pos(n) \in S /\ Rank(S, pos(n)) = n
  BY <1>2
<1>4. \A i \in S : /\ i \in 1..Len(waiting[l])
                   /\ waiting[l][i] \in Waiters
                   /\ ~done[waiting[l][i]]
  BY <1>1 DEF Pending
<1>5. Purged(l) = [n \in 1..N |-> waiting[l][pos(n)]]
  BY PurgedKeeps, Zenon DEF Keep
<1> HIDE DEF S, N, pos
<1>6. Purged(l) \in Seq(Waiters) /\ Len(Purged(l)) = N
  <2>1. Purged(l) \in [1..N -> Waiters]
    BY <1>3, <1>4, <1>5
  <2> QED
    BY <1>2, <2>1
<1>7. \A n \in 1..N : Purged(l)[n] = waiting[l][pos(n)]
  BY <1>5
<1>8. ASSUME \A i, j \in 1..Len(waiting[l]) : waiting[l][i] = waiting[l][j] => i = j,
             NEW m \in 1..N, NEW n \in 1..N, Purged(l)[m] = Purged(l)[n]
      PROVE  m = n
  <2>1. pos(m) = pos(n)
    BY <1>3, <1>4, <1>7, <1>8
  <2> QED
    BY <1>3, <2>1
<1> QED
  BY <1>2, <1>3, <1>4, <1>6, <1>7, <1>8, Zenon

(* So a purge keeps the line in every state.                               *)
LEMMA PurgeHolds == PurgeKeepsLine
  BY PurgedLine, Zenon DEF PurgeKeepsLine

(* One position less moves the ranks above it down by one.                 *)
LEMMA RankRemoved ==
    ASSUME NEW m \in Nat, NEW S \in SUBSET (1..m), NEW i \in S
    PROVE  /\ Cardinality(S \ {i}) = Cardinality(S) - 1
           /\ Cardinality(S) \in Nat
           /\ \A k \in S : k < i => Rank(S \ {i}, k) = Rank(S, k) /\ Rank(S, k) < Rank(S, i)
           /\ \A k \in S : k > i => Rank(S \ {i}, k) = Rank(S, k) - 1 /\ Rank(S, k) > Rank(S, i)
<1> DEFINE T == S \ {i}
           Upto(k) == {j \in S : j <= k}
<1> S \subseteq Int /\ i \in Int
  OBVIOUS
<1>1. IsFiniteSet(S)
  BY RankBijective
<1>2. \A k \in S : IsFiniteSet(Upto(k)) /\ Cardinality(Upto(k)) \in Nat
  BY <1>1, FS_Subset, FS_CardinalityType
<1>3. Cardinality(T) = Cardinality(S) - 1 /\ Cardinality(S) \in Nat
  BY <1>1, FS_RemoveElement, FS_CardinalityType
<1>4. ASSUME NEW k \in S, k < i
      PROVE  Rank(T, k) = Rank(S, k) /\ Rank(S, k) < Rank(S, i)
  <2>1. {j \in T : j <= k} = Upto(k)
    BY <1>4
  <2>2. Upto(k) \in SUBSET Upto(i) /\ i \in Upto(i) /\ i \notin Upto(k)
    <3>1. \A j \in S : j <= k => j <= i
      BY <1>4
    <3>2. i <= i /\ ~(i <= k)
      BY <1>4
    <3> QED
      BY <3>1, <3>2, Zenon
  <2>3. Cardinality(Upto(k)) <= Cardinality(Upto(i))
        /\ (Cardinality(Upto(k)) = Cardinality(Upto(i)) => Upto(k) = Upto(i))
    BY <1>2, <2>2, FS_Subset
  <2>4. Cardinality(Upto(k)) < Cardinality(Upto(i))
    BY <1>2, <2>2, <2>3
  <2> QED
    BY <2>1, <2>4 DEF Rank
<1>5. ASSUME NEW k \in S, k > i
      PROVE  Rank(T, k) = Rank(S, k) - 1 /\ Rank(S, k) > Rank(S, i)
  <2>1. {j \in T : j <= k} = Upto(k) \ {i} /\ i \in Upto(k)
    BY <1>5
  <2>2. Cardinality(Upto(k) \ {i}) = Cardinality(Upto(k)) - 1
    BY <1>2, <2>1, FS_RemoveElement
  <2>3. Upto(i) \in SUBSET Upto(k) /\ k \in Upto(k) /\ k \notin Upto(i)
    <3>1. \A j \in S : j <= i => j <= k
      BY <1>5
    <3>2. k <= k /\ ~(k <= i)
      BY <1>5
    <3> QED
      BY <3>1, <3>2, Zenon
  <2>4. Cardinality(Upto(i)) <= Cardinality(Upto(k))
        /\ (Cardinality(Upto(i)) = Cardinality(Upto(k)) => Upto(i) = Upto(k))
    BY <1>2, <2>3, FS_Subset
  <2>5. Cardinality(Upto(i)) < Cardinality(Upto(k))
    BY <1>2, <2>3, <2>4
  <2> QED
    BY <2>1, <2>2, <2>5 DEF Rank
<1> QED
  BY <1>3, <1>4, <1>5

(* Without position i, the sequence kept loses the element of its rank.    *)
LEMMA KeepLess ==
    ASSUME NEW q \in Seq(Waiters), NEW S \in SUBSET (1..Len(q)), NEW i \in S
    PROVE  Keep(q, S \ {i}) = Pool!Without(Keep(q, S), Rank(S, i))
<1> DEFINE T == S \ {i}
           r == Rank(S, i)
           s == Keep(q, S)
           t == Keep(q, T)
           u == Pool!Without(s, r)
<1>0. Len(q) \in Nat /\ S \subseteq Int /\ i \in Int /\ T \in SUBSET (1..Len(q))
  OBVIOUS
<1>1. /\ s \in Seq(Waiters) /\ Len(s) = Cardinality(S) /\ Cardinality(S) \in Nat
      /\ r \in 1..Len(s)
      /\ \A k \in S : s[Rank(S, k)] = q[k]
  BY KeepFacts
<1>2. /\ t \in Seq(Waiters) /\ Len(t) = Cardinality(T)
      /\ \A k \in T : t[Rank(T, k)] = q[k]
      /\ \A n \in 1..Cardinality(T) : \E k \in T : Rank(T, k) = n
  BY <1>0, KeepFacts, ZenonT(60)
<1>3. /\ Cardinality(T) = Cardinality(S) - 1
      /\ \A k \in S : k < i => Rank(T, k) = Rank(S, k) /\ Rank(S, k) < r
      /\ \A k \in S : k > i => Rank(T, k) = Rank(S, k) - 1 /\ Rank(S, k) > r
  BY <1>0, RankRemoved, ZenonT(60)
<1>4. \A k \in T : k \in S /\ k \in Int /\ k # i /\ (k < i \/ k > i)
  BY <1>0
<1> HIDE DEF T, r, s, t
<1>5. /\ u \in Seq(Waiters) /\ Len(u) = Len(s) - 1
      /\ \A n \in 1..Len(s) - 1 : u[n] = IF n < r THEN s[n] ELSE s[n + 1]
  <2> DEFINE a == SubSeq(s, 1, r - 1)
             b == SubSeq(s, r + 1, Len(s))
  <2>0. Len(s) \in Nat /\ r \in Nat /\ 1 <= r /\ r <= Len(s)
    BY <1>1
  <2>1. /\ a \in Seq(Waiters) /\ Len(a) = r - 1
        /\ \A n \in 1..r - 1 : a[n] = s[n]
    BY <1>1, <2>0
  <2>2. /\ b \in Seq(Waiters) /\ Len(b) = Len(s) - r
        /\ \A n \in 1..Len(s) - r : b[n] = s[n + r]
    BY <1>1, <2>0
  <2> HIDE DEF a, b
  <2>3. /\ a \o b \in Seq(Waiters)
        /\ Len(a \o b) = Len(a) + Len(b)
        /\ \A n \in 1..Len(a) + Len(b) : (a \o b)[n] = IF n <= Len(a) THEN a[n] ELSE b[n - Len(a)]
    <3>1. a \in Seq(Waiters) /\ b \in Seq(Waiters)
      BY <2>1, <2>2
    <3> QED
      BY <3>1, JoinFacts, Zenon
  <2>4. u = a \o b
    BY DEF Pool!Without, a, b
  <2> HIDE DEF u
  <2>5. Len(u) = Len(s) - 1 /\ u \in Seq(Waiters)
    <3>1. (r - 1) + (Len(s) - r) = Len(s) - 1
      BY <2>0
    <3> QED
      BY <2>1, <2>2, <2>3, <2>4, <3>1, Zenon
  <2>6. ASSUME NEW n \in 1..Len(s) - 1 PROVE u[n] = IF n < r THEN s[n] ELSE s[n + 1]
    <3>1. n \in 1..Len(a) + Len(b)
      BY <2>0, <2>1, <2>2, <2>6
    <3>2. CASE n < r
      <4>1. n <= Len(a) /\ n \in 1..r - 1
        BY <2>0, <2>1, <2>6, <3>2
      <4> QED
        BY <2>1, <2>3, <2>4, <3>1, <3>2, <4>1, ZenonT(60)
    <3>3. CASE ~(n < r)
      <4>1. ~(n <= Len(a)) /\ n - Len(a) \in 1..Len(s) - r /\ (n - Len(a)) + r = n + 1
        BY <2>0, <2>1, <2>6, <3>3
      <4>2. u[n] = b[n - Len(a)]
        BY <2>3, <2>4, <3>1, <4>1
      <4> QED
        BY <2>2, <3>3, <4>1, <4>2, ZenonT(60)
    <3> QED
      BY <3>2, <3>3
  <2> QED
    BY <2>5, <2>6
<1>6. ASSUME NEW n \in 1..Len(t) PROVE t[n] = u[n]
  <2>1. PICK k \in T : Rank(T, k) = n
    BY <1>2, <1>6
  <2>2. t[n] = q[k] /\ q[k] = s[Rank(S, k)]
    BY <1>1, <1>2, <1>4, <2>1
  <2>3. n \in 1..Len(s) - 1
    BY <1>1, <1>2, <1>3, <1>6
  <2>4. CASE k < i
    <3>1. Rank(S, k) = n /\ n < r
      BY <1>3, <1>4, <2>1, <2>4
    <3> QED
      BY <1>5, <2>2, <2>3, <3>1, ZenonT(60)
  <2>5. CASE k > i
    <3>1. n = Rank(S, k) - 1 /\ Rank(S, k) > r
      BY <1>3, <1>4, <2>1, <2>5
    <3>2. Rank(S, k) \in Nat
      BY <1>0, <1>4, KeepFacts
    <3>3. Rank(S, k) = n + 1 /\ ~(n < r)
      BY <1>1, <3>1, <3>2
    <3> QED
      BY <1>5, <2>2, <2>3, <3>3
  <2> QED
    BY <1>4, <2>4, <2>5
<1> HIDE DEF u
<1>7. Len(t) = Len(u)
  BY <1>1, <1>2, <1>3, <1>5
<1>8. t = u
  BY <1>2, <1>5, <1>6, <1>7, SameLine, ZenonT(60)
<1> QED
  BY <1>8 DEF t, u, s, r, T

-----------------------------------------------------------------------------
(* Type correctness and the count of handlers.                             *)

(* Every step of the manager keeps its state well typed.                   *)
LEMMA TypeStep == CountInv /\ [Next]_vars => TypeOK'
<1> SUFFICES ASSUME CountInv, [Next]_vars, NEW h \in Incoming, EndIncoming(h)
             PROVE  TypeOK'
  BY Typing
<1> USE DEF TypeOK, LoopStates, WaiterStates, HandlerStates
<1> USE DEF managerVars, listenerVars, waiterVars, handlerVars, closerVars
<1> USE DEF CountInv, ReferencesInv, HandlerReferences
<1> DEFINE T == {g \in Incoming : hl[g] = hl[h] /\ hpc[g] \in Begun}
<1>1. hl[h] \in Listeners /\ h \in T
  BY DEF EndIncoming, Begun
<1>2. IsFiniteSet(T) /\ Cardinality(T) \in Nat /\ Cardinality(T) # 0
  BY <1>1, ConstantsAssumption, FS_Subset, FS_CardinalityType, FS_EmptySet, Zenon
<1>3. Registered(hl[h]) => active[hl[h]] = Cardinality(T)
  BY <1>1 DEF ActiveCountsHandlers
<1>4. active' \in [Listeners -> Nat]
  BY <1>1, <1>2, <1>3 DEF EndIncoming
<1> QED
  BY <1>4 DEF EndIncoming, Touched

(* The handlers the count tl.active is about.                              *)
Handlers(l) == {h \in Incoming : hl[h] = l /\ hpc[h] \in Begun}

(* The handlers at work for a listener can be counted.                     *)
LEMMA HandlersFinite ==
    \A l : IsFiniteSet(Handlers(l)) /\ Cardinality(Handlers(l)) \in Nat
BY ConstantsAssumption, FS_Subset, FS_CardinalityType DEF Handlers

(* A step that registers nothing, and moves no handler into or out of its  *)
(* work, keeps the count exact.                                            *)
LEMMA SameHandlers == ActiveCountsHandlers /\ KeepsHandlers => ActiveCountsHandlers'
<1> SUFFICES ASSUME ActiveCountsHandlers, KeepsHandlers, NEW l \in Listeners,
                    Registered(l)'
             PROVE  active'[l] = Cardinality(Handlers(l)')
  BY DEF ActiveCountsHandlers, Handlers
<1>1. Handlers(l)' = Handlers(l)
  BY DEF Handlers, KeepsHandlers
<1> QED
  BY <1>1 DEF KeepsHandlers, ActiveCountsHandlers, Handlers

(* A handler that starts its work joins the handlers of its listener.      *)
LEMMA HandlerBegins ==
    ASSUME NEW h \in Incoming, hl' = hl, hpc[h] \notin Begun, hpc'[h] \in Begun,
           \A g \in Incoming : g # h => hpc'[g] = hpc[g]
    PROVE  /\ h \notin Handlers(hl[h])
           /\ Handlers(hl[h])' = Handlers(hl[h]) \cup {h}
           /\ \A k \in Listeners : k # hl[h] => Handlers(k)' = Handlers(k)
BY DEF Handlers

(* A handler that ends its work leaves the handlers of its listener.       *)
LEMMA HandlerLeaves ==
    ASSUME NEW h \in Incoming, hl' = hl, hpc[h] \in Begun, hpc'[h] \notin Begun,
           \A g \in Incoming : g # h => hpc'[g] = hpc[g]
    PROVE  /\ h \in Handlers(hl[h])
           /\ Handlers(hl[h])' = Handlers(hl[h]) \ {h}
           /\ \A k \in Listeners : k # hl[h] => Handlers(k)' = Handlers(k)
BY DEF Handlers

(* beginIncoming and the deferred updateActivePipes(-1) keep tl.active     *)
(* equal to the number of handlers at work.                                *)
LEMMA CountStep == CountInv /\ [Next]_vars => ActiveCountsHandlers'
<1> SUFFICES ASSUME CountInv, [Next]_vars
             PROVE  ActiveCountsHandlers'
  OBVIOUS
<1> USE DEF CountInv
<1> USE DEF managerVars, listenerVars, waiterVars, handlerVars, closerVars
<1> \A l \in Listeners : Registered(l) => active[l] = Cardinality(Handlers(l))
  BY DEF ActiveCountsHandlers, Handlers
<1>1. ASSUME NEW w \in Waiters, NEW a \in Addrs, NEW l \in Listeners,
             CreateListener(w, a, l)
      PROVE  ActiveCountsHandlers'
  <2> SUFFICES ASSUME NEW k \in Listeners, Registered(k)'
               PROVE  active'[k] = Cardinality(Handlers(k)')
    BY ZenonT(30) DEF ActiveCountsHandlers, Handlers
  <2>1. Handlers(k)' = Handlers(k)
    BY <1>1, Zenon DEF CreateListener, Handlers
  <2>2. active[l] = 0 /\ Handlers(l) = {}
    BY <1>1 DEF CreateListener, Allocation, ReferencesInv, Handlers
  <2>3. Cardinality(Handlers(l)) = 0
    BY <2>2, FS_EmptySet, ZenonT(60)
  <2>4. k # l /\ Registered(k)' => Registered(k)
    BY <1>1, ConstantsAssumption DEF CreateListener, Registered, TypeOK
  <2> QED
    BY <1>1, <2>1, <2>2, <2>3, <2>4, Zenon DEF CreateListener
<1>2. ASSUME NEW h \in Incoming, beginIncoming(h)
      PROVE  ActiveCountsHandlers'
  <2> SUFFICES ASSUME NEW k \in Listeners, Registered(k)'
               PROVE  active'[k] = Cardinality(Handlers(k)')
    BY Zenon DEF ActiveCountsHandlers, Handlers
  <2>0. /\ hl' = hl
        /\ hpc[h] = "accepted"
        /\ hpc' = [hpc EXCEPT ![h] = "handshake"]
    BY <1>2, Zenon DEF beginIncoming
  <2>1. hl[h] \in Listeners
    <3>1. "accepted" # "none"
      OBVIOUS
    <3> QED
      BY <2>0, <3>1, Zenon DEF ReferencesInv, HandlerReferences
  <2>2. /\ hpc[h] \notin Begun
        /\ hpc'[h] \in Begun
        /\ \A g \in Incoming : g # h => hpc'[g] = hpc[g]
    <3>1. hpc'[h] = "handshake" /\ \A g \in Incoming : g # h => hpc'[g] = hpc[g]
      BY <2>0, Zenon DEF TypeOK
    <3>2. "accepted" \notin Begun /\ "handshake" \in Begun
      BY DEF Begun
    <3> QED
      BY <2>0, <3>1, <3>2, Zenon
  <2>3. /\ h \notin Handlers(hl[h])
        /\ Handlers(hl[h])' = Handlers(hl[h]) \cup {h}
        /\ k # hl[h] => Handlers(k)' = Handlers(k)
    BY <2>0, <2>1, <2>2, HandlerBegins, Zenon
  <2>4. Cardinality(Handlers(hl[h])') = Cardinality(Handlers(hl[h])) + 1
    BY <2>3, HandlersFinite, FS_AddElement, Zenon
  <2>5. Registered(k)' <=> Registered(k)
    BY <1>2, Zenon DEF beginIncoming, Registered
  <2> QED
    BY <1>2, <2>1, <2>3, <2>4, <2>5, Zenon DEF beginIncoming, TypeOK
<1>3. ASSUME NEW h \in Incoming, EndIncoming(h)
      PROVE  ActiveCountsHandlers'
  <2> SUFFICES ASSUME NEW k \in Listeners, Registered(k)'
               PROVE  active'[k] = Cardinality(Handlers(k)')
    BY Zenon DEF ActiveCountsHandlers, Handlers
  <2>0. /\ hl' = hl
        /\ hpc[h] = "end"
        /\ hpc' = [hpc EXCEPT ![h] = "closed"]
    BY <1>3, Zenon DEF EndIncoming
  <2>1. hl[h] \in Listeners
    <3>1. "end" # "none"
      OBVIOUS
    <3> QED
      BY <2>0, <3>1, Zenon DEF ReferencesInv, HandlerReferences
  <2>2. /\ hpc[h] \in Begun
        /\ hpc'[h] \notin Begun
        /\ \A g \in Incoming : g # h => hpc'[g] = hpc[g]
    <3>1. hpc'[h] = "closed" /\ \A g \in Incoming : g # h => hpc'[g] = hpc[g]
      BY <2>0, Zenon DEF TypeOK
    <3>2. "end" \in Begun /\ "closed" \notin Begun
      BY DEF Begun
    <3> QED
      BY <2>0, <3>1, <3>2, Zenon
  <2>3. /\ h \in Handlers(hl[h])
        /\ Handlers(hl[h])' = Handlers(hl[h]) \ {h}
        /\ k # hl[h] => Handlers(k)' = Handlers(k)
    BY <2>0, <2>1, <2>2, HandlerLeaves, Zenon
  <2>4. Cardinality(Handlers(hl[h])') = Cardinality(Handlers(hl[h])) - 1
    BY <2>3, HandlersFinite, FS_RemoveElement, Zenon
  <2>5. Registered(k)' <=> Registered(k)
    BY <1>3, ZenonT(30) DEF EndIncoming, Registered
  <2> QED
    BY <1>3, <2>1, <2>3, <2>4, <2>5, Zenon DEF EndIncoming, TypeOK
<1> QED
  BY <1>1, <1>2, <1>3, HandlersKept, SameHandlers, Zenon

-----------------------------------------------------------------------------
(* The line of ReversePool.                                                *)

(* The positions that are pending after this step.                         *)
PendingNext(l) == {i \in 1..Len(waiting'[l]) : ~done'[waiting'[l][i]]}

(* The line of a listener before and after a step.                         *)
LEMMA LineFacts ==
    ASSUME NEW l, waiting[l] \in Seq(Waiters), waiting'[l] \in Seq(Waiters)
    PROVE  /\ Purged(l) = Keep(waiting[l], Pending(l))
           /\ Purged(l)' = Keep(waiting'[l], PendingNext(l))
<1>1. CASE \A i \in 1..Len(waiting'[l]) : ~done'[waiting'[l][i]]
  <2>1. PendingNext(l) = 1..Len(waiting'[l]) /\ Purged(l)' = waiting'[l]
    BY <1>1, Zenon DEF PendingNext, Purged
  <2> QED
    BY <2>1, KeepAll, PurgedKeeps, Zenon
<1>2. CASE ~\A i \in 1..Len(waiting'[l]) : ~done'[waiting'[l][i]]
  <2>1. Purged(l)' = Keep(waiting'[l], PendingNext(l))
    BY <1>2, Zenon DEF Purged, Pending, PendingNext, Keep
  <2> QED
    BY <2>1, PurgedKeeps, Zenon
<1> QED
  BY <1>1, <1>2, Zenon

(* What the manager shows as the line of ReversePool.                      *)
Line == [l \in Listeners |-> Purged(l)]

(* If none of a purged queue is done, the line is the queue.               *)
LEMMA LineWhole ==
    ASSUME NEW l \in Listeners, waiting'[l] \in Seq(Waiters),
           \A i \in 1..Len(waiting'[l]) : ~done'[waiting'[l][i]]
    PROVE  Purged(l)' = waiting'[l]
  BY Zenon DEF Purged

(* A queue that is at most purged, and whose waiters get no more done,     *)
(* stays the same line.                                                    *)
LEMMA LineStays ==
    ASSUME TypeOK, NEW l \in Listeners, waiting'[l] \in {waiting[l], Purged(l)},
           \A i \in 1..Len(waiting[l]) : done'[waiting[l][i]] = done[waiting[l][i]]
    PROVE  Purged(l)' = Purged(l)
<1>0. waiting[l] \in Seq(Waiters)
  BY DEF TypeOK
<1>1. CASE waiting'[l] = waiting[l]
  <2>1. PendingNext(l) = Pending(l)
    BY <1>1, Zenon DEF PendingNext, Pending
  <2> QED
    BY <1>0, <1>1, <2>1, LineFacts, Zenon
<1>2. CASE waiting'[l] = Purged(l)
  <2>1. Purged(l) \in Seq(Waiters)
    BY <1>0, PurgedLine, ZenonT(30)
  <2>2. \A n \in 1..Len(Purged(l)) : ~done'[Purged(l)[n]]
    <3>1. \A n \in 1..Len(Purged(l)) : \E i \in 1..Len(waiting[l]) :
              Purged(l)[n] = waiting[l][i] /\ ~done[waiting[l][i]]
      BY <1>0, PurgedLine, Zenon
    <3>2. \A i \in 1..Len(waiting[l]) : ~done[waiting[l][i]] => ~done'[waiting[l][i]]
      BY Zenon
    <3> QED
      BY <3>1, <3>2, ZenonT(60)
  <2>3. Purged(l)' = waiting'[l]
    BY <1>2, <2>1, <2>2, LineWhole, Zenon
  <2> QED
    BY <1>2, <2>3, Zenon
<1> QED
  BY <1>1, <1>2, Zenon

(* A waiter that is done leaves the line it is in, if any.                 *)
LEMMA LineLoses ==
    ASSUME CountInv, QueueInv, NEW x \in Waiters, waiting' = waiting, hw' = hw,
           done' = [done EXCEPT ![x] = TRUE]
    PROVE  Pool!Next \/ (hw' = hw /\ \A l \in Listeners : Purged(l)' = Purged(l))
<1>0. TypeOK /\ \A y \in Waiters : done'[y] = IF y = x THEN TRUE ELSE done[y]
  BY DEF CountInv, TypeOK
<1>1. \A l \in Listeners : /\ waiting[l] \in Seq(Waiters)
                           /\ \A i \in 1..Len(waiting[l]) :
                                  waiting[l][i] \in Waiters /\ wl[waiting[l][i]] = l
  BY QueueTypes, Zenon
<1>2. ASSUME NEW k \in Listeners, done[x] \/ \A i \in 1..Len(waiting[k]) : waiting[k][i] # x
      PROVE  Purged(k)' = Purged(k)
  <2>1. \A i \in 1..Len(waiting[k]) : done'[waiting[k][i]] = done[waiting[k][i]]
    <3> SUFFICES ASSUME NEW i \in 1..Len(waiting[k])
                 PROVE  done'[waiting[k][i]] = done[waiting[k][i]]
      BY Zenon
    <3>1. waiting[k][i] \in Waiters
      BY <1>1, <1>2, Zenon
    <3>2. CASE waiting[k][i] # x
      BY <1>0, <3>1, <3>2, Zenon
    <3>3. CASE waiting[k][i] = x
      <4>1. done[x] \in BOOLEAN /\ done[x]
        BY <1>0, <1>2, <3>3 DEF TypeOK
      <4> QED
        BY <1>0, <3>3, <4>1, Zenon
    <3> QED
      BY <3>2, <3>3, Zenon
  <2> QED
    BY <1>0, <2>1, LineStays, Zenon
<1>3. CASE done[x] \/ \A l \in Listeners : \A i \in 1..Len(waiting[l]) : waiting[l][i] # x
  BY <1>2, <1>3, Zenon
<1>4. ASSUME ~done[x], NEW l \in Listeners, NEW i \in 1..Len(waiting[l]), waiting[l][i] = x
      PROVE  Pool!Next
  <2> DEFINE S == Pending(l)
             r == Rank(S, i)
             q == Purged(l)
  <2>1. S \in SUBSET (1..Len(waiting[l])) /\ i \in S
    BY <1>4, Zenon DEF Pending
  <2>2. PendingNext(l) = S \ {i}
    <3>1. \A j \in 1..Len(waiting[l]) : waiting[l][j] = x => j = i
      BY <1>4, Zenon DEF QueueInv
    <3>2. \A j \in 1..Len(waiting[l]) : waiting[l][j] \in Waiters
      BY <1>1, <1>4, Zenon
    <3> QED
      BY <1>0, <1>4, <3>1, <3>2, Zenon DEF PendingNext, Pending
  <2>k. q = Keep(waiting[l], S) /\ Purged(l)' = Keep(waiting[l], S \ {i})
    <3>1. waiting[l] \in Seq(Waiters) /\ waiting'[l] \in Seq(Waiters) /\ waiting'[l] = waiting[l]
      BY <1>1, <1>4, Zenon
    <3> QED
      BY <2>2, <3>1, LineFacts, Zenon
  <2>3. Purged(l)' = Pool!Without(q, r)
    <3>1. Keep(waiting[l], S \ {i}) = Pool!Without(Keep(waiting[l], S), r)
      BY <1>1, <1>4, <2>1, KeepLess
    <3> QED
      BY <2>k, <3>1, Zenon
  <2>4. /\ q \in Seq(Waiters) /\ Len(q) \in Nat /\ r \in 1..Len(q) /\ q[r] = x
        /\ Len(q) = Cardinality(S) /\ Len(Purged(l)') = Cardinality(S \ {i})
        /\ Cardinality(S \ {i}) = Cardinality(S) - 1
    <3>1. /\ Keep(waiting[l], S) \in Seq(Waiters)
          /\ Len(Keep(waiting[l], S)) = Cardinality(S)
          /\ r \in 1..Cardinality(S) /\ Keep(waiting[l], S)[r] = waiting[l][i]
          /\ Cardinality(S) \in Nat
      BY <1>1, <1>4, <2>1, KeepFacts
    <3>2. S \ {i} \in SUBSET (1..Len(waiting[l]))
      BY <2>1, Zenon
    <3>3. Len(Keep(waiting[l], S \ {i})) = Cardinality(S \ {i})
      BY <1>1, <1>4, <3>2, KeepFacts, Zenon
    <3>4. Cardinality(S \ {i}) = Cardinality(S) - 1
      <4>1. Len(waiting[l]) \in Nat
        BY <1>1, <1>4
      <4> QED
        BY <2>1, <4>1, RankRemoved, Zenon
    <3> QED
      BY <1>4, <2>k, <3>1, <3>3, <3>4, ZenonT(30)
  <2>5. Purged(l)' # q
    BY <2>4
  <2>6. \A k \in Listeners : k # l => Purged(k)' = Purged(k)
    <3>1. \A k \in Listeners : k # l => \A j \in 1..Len(waiting[k]) : waiting[k][j] # x
      <4>1. wl[x] = l
        BY <1>1, <1>4, Zenon
      <4>2. \A k \in Listeners : \A j \in 1..Len(waiting[k]) : wl[waiting[k][j]] = k
        BY <1>1, Zenon
      <4> QED
        BY <4>1, <4>2, Zenon
    <3> QED
      BY <1>2, <3>1
  <2> HIDE DEF S, r, q
  <2>7. Line' = [Line EXCEPT ![l] = Pool!Without(q, r)]
    BY <2>3, <2>6, Zenon DEF Line, q
  <2>8. Pool!Leave(x, l)
    BY <2>4, <2>7, Zenon DEF Pool!Leave, Line, q
  <2> QED
    BY <2>5, <2>8 DEF Pool!Next, q
<1> QED
  BY <1>3, <1>4, Zenon

(* EnqueueAppend parks a client at the end of the line.                    *)
LEMMA LineGains ==
    ASSUME CountInv, QueueInv, WakeInv, NEW w \in Waiters, EnqueueAppend(w)
    PROVE  Pool!Next
<1> SUFFICES ASSUME NEW l \in Listeners, l = wl[w] PROVE Pool!Next
  BY Zenon DEF CountInv, ReferencesInv, WaiterReferences, EnqueueAppend
<1> DEFINE q == Purged(l)
<1> TypeOK /\ l \in Listeners /\ wpc[w] = "enq"
  BY DEF CountInv, ReferencesInv, WaiterReferences, EnqueueAppend
<1>1. /\ waiting' = [waiting EXCEPT ![l] = Append(q, w)]
      /\ Len(q) < WaitCap
      /\ hw' = hw /\ done' = done
  BY DEF EnqueueAppend
<1>2. waiting[l] \in Seq(Waiters)
  BY QueueTypes
<1>3. q \in Seq(Waiters)
  BY <1>2, PurgedLine, Zenon
<1>4. \A n \in 1..Len(q) : ~done[q[n]]
  <2>1. \A n \in 1..Len(q) : \E i \in 1..Len(waiting[l]) : q[n] = waiting[l][i] /\ ~done[waiting[l][i]]
    BY <1>2, PurgedLine, ZenonT(30)
  <2> QED
    BY <2>1, Zenon
<1>5. wpc[w] \in Outside /\ ~done[w] /\ ~acquired[w]
  BY DEF WakeInv, QueueInv, Outside
<1>6. \A k \in Listeners : \A n \in 1..Len(Purged(k)) : Purged(k)[n] # w
  <2> SUFFICES ASSUME NEW k \in Listeners, NEW n \in 1..Len(Purged(k))
               PROVE  Purged(k)[n] # w
    OBVIOUS
  <2>1. waiting[k] \in Seq(Waiters)
    BY QueueTypes, Zenon
  <2>2. PICK i \in 1..Len(waiting[k]) : Purged(k)[n] = waiting[k][i]
    BY <2>1, PurgedLine, Zenon
  <2>3. wpc[waiting[k][i]] \notin Outside
    BY QueueTypes, Zenon
  <2> QED
    BY <1>5, <2>2, <2>3, Zenon
<1>7. \A h \in Incoming : hw[h] # w
  <2> SUFFICES ASSUME NEW h \in Incoming, hw[h] = w PROVE FALSE
    OBVIOUS
  <2>1. w # None
    BY ConstantsAssumption
  <2>2. \A g \in Incoming : hw[g] # None => acquired[hw[g]]
    BY Zenon DEF QueueInv
  <2> QED
    BY <1>5, <2>1, <2>2
<1> HIDE DEF q
<1>8. /\ waiting'[l] = Append(q, w)
      /\ \A k \in Listeners : k # l => waiting'[k] = waiting[k]
  BY <1>1 DEF TypeOK
<1>9. /\ Append(q, w) \in Seq(Waiters) /\ Append(q, w) # q
      /\ \A i \in 1..Len(Append(q, w)) : \/ i \in 1..Len(q) /\ Append(q, w)[i] = q[i]
                                       \/ Append(q, w)[i] = w
  BY <1>3
<1>10. Purged(l)' = Append(q, w)
  <2>1. \A i \in 1..Len(Append(q, w)) : ~done[Append(q, w)[i]]
    BY <1>4, <1>5, <1>9, Zenon
  <2> QED
    BY <1>1, <1>8, <1>9, <2>1, LineWhole, Zenon
<1>11. \A k \in Listeners : k # l => Purged(k)' = Purged(k)
  BY <1>1, <1>8, LineStays, Zenon
<1>12. Line' = [Line EXCEPT ![l] = Append(Purged(l), w)]
  BY <1>10, <1>11, Zenon DEF Line, q
<1>13. Pool!Park(w, l)
  BY <1>1, <1>6, <1>7, <1>12, Zenon DEF Pool!Park, Line, q
<1> QED
  BY <1>9, <1>10, <1>13 DEF Pool!Next, q

(* AcquireTakes gives the incoming connection the head of the line.        *)
LEMMA LineServes ==
    ASSUME CountInv, QueueInv, UseInv, NEW h \in Incoming, AcquireTakes(h)
    PROVE  Pool!Next
<1> SUFFICES ASSUME NEW l \in Listeners, l = hl[h] PROVE Pool!Next
  BY DEF CountInv, ReferencesInv, HandlerReferences, AcquireTakes
<1> DEFINE q == Purged(l)
<1> TypeOK /\ l \in Listeners /\ q # <<>> /\ hpc[h] = "acq"
  BY Zenon DEF CountInv, ReferencesInv, HandlerReferences, AcquireTakes
<1>1. /\ waiting' = [waiting EXCEPT ![l] = Tail(q)]
      /\ hw' = [hw EXCEPT ![h] = Head(q)]
      /\ done' = done
  BY Zenon DEF AcquireTakes, Popped
<1>2. waiting[l] \in Seq(Waiters)
  BY QueueTypes, Zenon
<1>3. q \in Seq(Waiters)
  BY <1>2, PurgedLine, Zenon
<1>4. \A n \in 1..Len(q) : ~done[q[n]]
  <2>1. \A n \in 1..Len(q) : \E i \in 1..Len(waiting[l]) : q[n] = waiting[l][i] /\ ~done[waiting[l][i]]
    BY <1>2, PurgedLine, Zenon
  <2> QED
    BY <2>1, Zenon
<1>5. hw[h] = None
  BY DEF UseInv, Holding
<1> HIDE DEF q
<1>6. /\ waiting'[l] = Tail(q)
      /\ \A k \in Listeners : k # l => waiting'[k] = waiting[k]
  BY <1>1 DEF TypeOK
<1>7. /\ Tail(q) \in Seq(Waiters) /\ Tail(q) # q
      /\ \A i \in 1..Len(Tail(q)) : i + 1 \in 1..Len(q) /\ Tail(q)[i] = q[i + 1]
  <2>1. Tail(q) \in Seq(Waiters) /\ Len(Tail(q)) = Len(q) - 1 /\ Len(q) \in Nat
    BY <1>3
  <2>2. \A i \in 1..Len(Tail(q)) : i + 1 \in 1..Len(q) /\ Tail(q)[i] = q[i + 1]
    BY <1>3
  <2>3. \A n \in Nat : n - 1 # n
    OBVIOUS
  <2>4. Tail(q) # q
    BY <2>1, <2>3, Zenon
  <2> QED
    BY <2>1, <2>2, <2>4, Zenon
<1>8. Purged(l)' = Tail(q)
  <2>1. \A i \in 1..Len(Tail(q)) : ~done[Tail(q)[i]]
    BY <1>4, <1>7, Zenon
  <2> QED
    BY <1>1, <1>6, <1>7, <2>1, LineWhole, Zenon
<1>9. \A k \in Listeners : k # l => Purged(k)' = Purged(k)
  BY <1>1, <1>6, LineStays, Zenon
<1>10. Line' = [Line EXCEPT ![l] = Tail(Purged(l))]
  BY <1>8, <1>9, Zenon DEF Line, q
<1>11. Pool!Give(h, l)
  BY <1>1, <1>5, <1>10, Zenon DEF Pool!Give, Line, q
<1> QED
  BY <1>7, <1>8, <1>11, ZenonT(60) DEF Pool!Next, q

(* Every step of the manager is a step of the pool or leaves it alone.     *)
LEMMA PoolStep ==
    ASSUME CountInv, QueueInv, WakeInv, UseInv, [Next]_vars
    PROVE  [Pool!Next]_<<Line, hw>>
<1>0. TypeOK
  BY DEF CountInv
<1>1. SUFFICES ASSUME KeepsLines
               PROVE  Pool!Next \/ \A l \in Listeners : Purged(l)' = Purged(l)
  <2>1. hw' = hw /\ (\A l \in Listeners : Purged(l)' = Purged(l)) => UNCHANGED <<Line, hw>>
    BY Zenon DEF Line
  <2> QED
    BY <2>1, LinesStep, LineGains, LineServes, Zenon DEF KeepsLines
<1>2. ASSUME \A l \in Listeners : \A i \in 1..Len(waiting[l]) :
                 done'[waiting[l][i]] = done[waiting[l][i]]
      PROVE  \A l \in Listeners : Purged(l)' = Purged(l)
  BY <1>0, <1>1, <1>2, LineStays, Zenon DEF KeepsLines
<1>3. CASE done' = done
  BY <1>2, <1>3, Zenon
<1> USE DEF listenerVars, waiterVars, handlerVars
<1>4. ASSUME NEW w \in Waiters, WaitReturns(w) \/ TimeoutFinishes(w)
      PROVE  Pool!Next \/ \A l \in Listeners : Purged(l)' = Purged(l)
  BY <1>4, LineLoses, Zenon DEF WaitReturns, TimeoutFinishes
<1>5. ASSUME NEW h \in Incoming, FinishForwarding(h)
      PROVE  Pool!Next \/ \A l \in Listeners : Purged(l)' = Purged(l)
  <2>1. hw[h] \in Waiters
    BY <1>5 DEF FinishForwarding, CountInv, ReferencesInv, HandlerReferences, Holding
  <2> QED
    BY <1>5, <2>1, LineLoses, ZenonT(30) DEF FinishForwarding
<1>6. ASSUME NEW w \in Waiters, EnqueueRejected(w)
      PROVE  \A l \in Listeners : Purged(l)' = Purged(l)
  <2>1. wpc[w] \in Outside /\ \A x \in Waiters : x # w => done'[x] = done[x]
    BY <1>0, <1>6 DEF EnqueueRejected, Outside, TypeOK
  <2>2. \A l \in Listeners : \A i \in 1..Len(waiting[l]) :
            waiting[l][i] \in Waiters /\ waiting[l][i] # w
    BY <2>1, QueueTypes, Zenon
  <2> QED
    BY <1>2, <2>1, <2>2, Zenon
<1> QED
  BY <1>3, <1>4, <1>5, <1>6, DoneStep, Zenon DEF KeepsDone

-----------------------------------------------------------------------------
(* The theorems.                                                           *)

(* No listener, no handler and no count at first.                          *)
LEMMA CountInit == Init => CountInv
<1> SUFFICES ASSUME Init
             PROVE  CountInv
  OBVIOUS
<1>1. TypeOK
  <2>1. waiting \in [Listeners -> Seq(Waiters)]
    BY DEF Init
  <2>2. active \in [Listeners -> Nat]
    BY DEF Init
  <2>3. /\ clock \in [Incoming -> SUBSET {"rang", "late"}]
        /\ todo \in [Closers -> SUBSET Listeners]
    BY DEF Init
  <2> QED
    BY <2>1, <2>2, <2>3, Zenon DEF Init, TypeOK, LoopStates, WaiterStates, HandlerStates
<1>2. ReferencesInv
  BY ConstantsAssumption DEF Init, ReferencesInv, WaiterReferences,
     HandlerReferences, Allocation, Holding
<1>3. ActiveCountsHandlers
  BY ConstantsAssumption DEF Init, ActiveCountsHandlers, Registered
<1> QED
  BY <1>1, <1>2, <1>3, PurgeHolds DEF CountInv

(* The count, with the types and references it rests on, is invariant.     *)
LEMMA CountInvariance == Spec => []CountInv
<1>1. PurgeKeepsLine'
  BY PurgeHolds, PTL
<1>2. CountInv /\ [Next]_vars => CountInv'
  BY <1>1, TypeStep, ReferencesStep, CountStep DEF CountInv
<1> QED
  BY CountInit, <1>2, PTL DEF Spec

(* At first no queue and no listener.                                      *)
LEMMA LinesInit == Init => QueueInv /\ ServedInv
<1> SUFFICES ASSUME Init
             PROVE  QueueInv /\ ServedInv
  OBVIOUS
<1>1. \A l \in Listeners : waiting[l] = <<>> /\ Len(waiting[l]) = 0
  BY DEF Init
<1>2. QueueInv
  BY <1>1 DEF Init, QueueInv
<1>3. ServedInv
  BY ConstantsAssumption DEF Init, ServedInv, RegisteredIsServed, Closers
<1> QED
  BY <1>2, <1>3

(* So are who is in which queue and which listeners are registered.        *)
LEMMA LinesInvariance == Spec => [](CountInv /\ QueueInv /\ ServedInv)
<1>1. CountInv /\ QueueInv /\ ServedInv /\ [Next]_vars => QueueInv' /\ ServedInv'
  BY QueueStep, ServedStep
<1> QED
  BY CountInvariance, LinesInit, <1>1, PTL DEF Spec

(* Every variable of the manager, its listeners, its parked connections    *)
(* and its handlers keeps its type; tl.active is never negative.           *)
THEOREM TypeCorrect == Spec => []TypeOK
<1>1. CountInv => TypeOK
  BY DEF CountInv
<1> QED
  BY CountInvariance, <1>1, PTL

(* The reaper's test tl.active > 0 is exact: the count of a registered     *)
(* listener is the number of its handleIncoming goroutines at work.        *)
THEOREM ActiveExact == Spec => []ActiveCountsHandlers
<1>1. CountInv => ActiveCountsHandlers
  BY DEF CountInv
<1> QED
  BY CountInvariance, <1>1, PTL

(* reapIdleListenersOnce takes no listener one of whose connections is     *)
(* being handled.                                                          *)
THEOREM ReaperSafe == Spec => ReaperSparesHandlers
<1> DEFINE Spares == \A l \in Listeners : Reaps(l) =>
                         \A h \in Incoming : hl[h] = l => hpc[h] \notin Begun
<1>1. ASSUME CountInv, reapIdleListenersOnce
      PROVE  Spares
  <2> SUFFICES ASSUME NEW l \in Listeners, l \in Stale
               PROVE  \A h \in Incoming : hl[h] = l => hpc[h] \notin Begun
    BY <1>1 DEF reapIdleListenersOnce, Reaps, CountInv, TypeOK, Closers
  <2>1. Registered(l) /\ ~(active[l] > 0)
    BY DEF Stale
  <2>2. active[l] = Cardinality(Handlers(l))
    BY <1>1, <2>1 DEF CountInv, ActiveCountsHandlers, Handlers
  <2>3. IsFiniteSet(Handlers(l)) /\ Cardinality(Handlers(l)) \in Nat
    BY HandlersFinite
  <2>4. Cardinality(Handlers(l)) = 0
    BY <2>1, <2>2, <2>3
  <2>5. Handlers(l) = {}
    BY <2>3, <2>4, FS_EmptySet, ZenonT(60)
  <2> QED
    BY <2>5 DEF Handlers
<1>2. ASSUME CountInv, NEW c \in Closers, NEW l \in Listeners, CloserQuits(c, l)
      PROVE  Spares
  BY <1>2 DEF CloserQuits, Reaps, CountInv, TypeOK
<1>3. ASSUME CountInv, Close
      PROVE  Spares
  BY <1>3 DEF Close, Reaps, CountInv, TypeOK, Closers
<1>4. ASSUME UNCHANGED todo
      PROVE  Spares
  BY <1>4 DEF Reaps
<1>5. CountInv /\ [Next]_vars => [Spares]_vars
  BY <1>1, <1>2, <1>3, <1>4, TodoStep, Zenon
<1> QED
  BY CountInvariance, <1>5, PTL DEF Spec, ReaperSparesHandlers

(* acquireWaitingConn hands a parked connection to one handler only: a     *)
(* connection is in at most one place of one queue and, once taken, in no  *)
(* queue and in no other handler's hands.                                  *)
THEOREM HandedOutOnce == Spec => []ExclusiveUse
BY LinesInvariance, QueueExclusive, PTL

(* A listener in the manager's map has its socket open and has not quit,   *)
(* except while its failing accept loop is about to take it out.           *)
THEOREM MapIsServed == Spec => []RegisteredIsServed
<1>1. ServedInv => RegisteredIsServed
  BY DEF ServedInv
<1> QED
  BY LinesInvariance, <1>1, PTL

(* At first no queue, nobody asleep and nothing in use.                    *)
LEMMA QueueInit == Init => WakeInv /\ UseInv
<1> SUFFICES ASSUME Init
             PROVE  WakeInv /\ UseInv
  OBVIOUS
<1>1. \A l \in Listeners : waiting[l] = <<>> /\ Len(waiting[l]) = 0
  BY DEF Init
<1>2. WakeInv
  BY <1>1, ConstantsAssumption DEF Init, WakeInv
<1>3. UseInv
  BY <1>1 DEF Init, UseInv, InUse
<1> QED
  BY <1>2, <1>3

(* The inductive invariant the runs check is one for every number of       *)
(* clients, listeners, incoming connections and places in a queue.         *)
LEMMA QueueInvariance == Spec => [](CountInv /\ QueueInv /\ ServedInv /\ WakeInv /\ UseInv)
<1>1. CountInv /\ QueueInv /\ WakeInv /\ UseInv /\ [Next]_vars => WakeInv' /\ UseInv'
  BY WakeStep, UseStep
<1> QED
  BY LinesInvariance, QueueInit, <1>1, PTL DEF Spec

(* No Broadcast of queueCond is missed: whoever sleeps in                  *)
(* enqueueWaitingConn has a full queue before it, whoever sleeps in        *)
(* acquireWaitingConn an empty one, and nobody sleeps on a quit listener.  *)
THEOREM WakeupsArrive == Spec => []NoLostWakeup
BY QueueInvariance, WakeSuffices, PTL

(* Without an idleTimeout, the parked connection that handleIncoming pipes *)
(* through stays open until the pipe ends or the listener quits.           *)
THEOREM UsedStaysOpen == ~IdleTimeout => (Spec => []InUseStaysOpen)
<1> SUFFICES ASSUME ~IdleTimeout
             PROVE  Spec => []InUseStaysOpen
  OBVIOUS
<1>1. UseInv => InUseStaysOpen
  BY Zenon DEF UseInv, InUseStaysOpen, Usable, InUse
<1> QED
  BY QueueInvariance, <1>1, PTL

(* With one, nothing the server does closes a parked connection in use but *)
(* the finish(true) of a handleWaitTimeout that read isAcquired before     *)
(* acquireWaitingConn set it.                                              *)
THEOREM TimeoutClosesOnly == Spec => OnlyTimeoutCloses
<1> DEFINE Inv == CountInv /\ QueueInv /\ UseInv
           Safe == \A h \in Incoming :
                       /\ hpc[h] = "pipe" /\ hpc'[h] = "pipe"
                       /\ ~quit[hl[h]]
                       /\ open[hw[h]] /\ ~open'[hw[h]]
                       => wpc[hw[h]] = "close"
<1>1. Inv /\ [Next]_vars => [Safe]_vars
  BY TimeoutCloses, Zenon
<1> QED
  BY <1>1, QueueInvariance, PTL DEF Spec, OnlyTimeoutCloses

(* The manager is the bounded line of ReversePool: each incoming           *)
(* connection gets the parked connection that has waited longest and is    *)
(* not done, and timeouts, purges and quitting only let clients leave.     *)
THEOREM ImplementsPool == Spec => IsPool
<1>1. Init => Pool!Init
  <2> SUFFICES ASSUME Init PROVE Pool!Init
    OBVIOUS
  <2>1. ASSUME NEW l \in Listeners PROVE Purged(l) = <<>>
    <3>1. waiting[l] = <<>> /\ waiting[l] \in Seq(Waiters) /\ Len(waiting[l]) = 0
      BY DEF Init
    <3>2. Purged(l) \in Seq(Waiters) /\ Len(Purged(l)) <= 0
      BY <3>1, PurgedLine, Zenon
    <3> QED
      BY <3>2
  <2> QED
    BY <2>1 DEF Pool!Init, Init
<1>2. CountInv /\ QueueInv /\ WakeInv /\ UseInv /\ [Next]_vars => [Pool!Next]_<<Line, hw>>
  BY PoolStep
<1> QED
  BY <1>1, <1>2, QueueInvariance, PTL DEF Spec, IsPool, Pool!Spec, Line

=============================================================================
