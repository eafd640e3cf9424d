---------------------------- MODULE SearchPages ----------------------------
(***************************************************************************)
(* Lemmas about the operators the growing window is built from: ranks of   *)
(* rows among the unanswered ones, pages, and windows as beginnings of the *)
(* sorted result (executeUnansweredSearch).                                *)
(***************************************************************************)
EXTENDS SearchInv, FiniteSetTheorems, FunctionTheorems, SequenceTheorems, TLAPS

LEMMA Interval ==
  ASSUME NEW n \in Nat
  PROVE  IsFiniteSet(1..n) /\ Cardinality(1..n) = n
  BY FS_Interval

\* The positions of s whose elements are not in F.
Positions(s, F) == {i \in 1..Len(s) : s[i] \notin F}

\* Ranks count up by one at every unanswered row and nowhere else.
LEMMA Ranks ==
  ASSUME NEW s \in Seq(Questions), NEW F
  PROVE  /\ IsFiniteSet(Positions(s, F))
         /\ Cardinality(Positions(s, F)) \in Nat
         /\ \A j \in 1..Len(s) :
              /\ Rank(s, F, j) \in 0..Cardinality(Positions(s, F))
              /\ s[j] \notin F => Rank(s, F, j) >= 1
         /\ \A i, j \in 1..Len(s) : i <= j => Rank(s, F, i) <= Rank(s, F, j)
         /\ \A i, j \in 1..Len(s) :
              i < j /\ s[j] \notin F => Rank(s, F, i) < Rank(s, F, j)
<1> DEFINE Before(j) == {k \in 1..j : s[k] \notin F}
<1>1. /\ IsFiniteSet(Positions(s, F)) /\ Cardinality(Positions(s, F)) \in Nat
  <2>1. Len(s) \in Nat /\ IsFiniteSet(1..Len(s))
    BY FS_Interval
  <2>2. Positions(s, F) \in SUBSET (1..Len(s))
    BY DEF Positions
  <2>. QED
    BY <2>1, <2>2, FS_Subset, FS_CardinalityType
<1>2. \A j \in 1..Len(s) : Before(j) \in SUBSET Positions(s, F)
  BY DEF Positions
<1>3. \A j \in 1..Len(s) : IsFiniteSet(Before(j)) /\ Cardinality(Before(j)) \in Nat
  BY <1>1, <1>2, FS_Subset, FS_CardinalityType
<1>4. \A j : Rank(s, F, j) = Cardinality(Before(j))
  BY DEF Rank
<1>5. \A i, j \in 1..Len(s) : i <= j => Before(i) \in SUBSET Before(j)
  OBVIOUS
<1>6. \A i, j \in 1..Len(s) : i < j /\ s[j] \notin F => Before(i) # Before(j)
  <2>1. \A i, j \in 1..Len(s) :
          i < j /\ s[j] \notin F => j \in Before(j) /\ j \notin Before(i)
    OBVIOUS
  <2>. QED
    BY <2>1
<1>7. \A j \in 1..Len(s) : s[j] \notin F => j \in Before(j)
  OBVIOUS
<1> HIDE DEF Before
<1>8. \A i, j \in 1..Len(s) : i <= j => Rank(s, F, i) <= Rank(s, F, j)
  BY <1>3, <1>4, <1>5, FS_Subset
<1>9. \A i, j \in 1..Len(s) :
        i < j /\ s[j] \notin F => Rank(s, F, i) < Rank(s, F, j)
  <2>1. SUFFICES ASSUME NEW i \in 1..Len(s), NEW j \in 1..Len(s), i < j, s[j] \notin F
                 PROVE  Cardinality(Before(i)) < Cardinality(Before(j))
    BY <1>4
  <2>2. Before(i) \in SUBSET Before(j) /\ Before(i) # Before(j)
    BY <1>5, <1>6, <2>1
  <2>3. /\ Cardinality(Before(i)) <= Cardinality(Before(j))
        /\ Cardinality(Before(i)) # Cardinality(Before(j))
    BY <1>3, <2>2, FS_Subset
  <2>. QED
    BY <1>3, <2>3
<1>10. \A j \in 1..Len(s) : Rank(s, F, j) \in 0..Cardinality(Positions(s, F))
  <2>1. \A j \in 1..Len(s) : Cardinality(Before(j)) <= Cardinality(Positions(s, F))
    BY <1>1, <1>2, FS_Subset
  <2>. QED
    BY <1>1, <1>3, <1>4, <2>1
<1>11. \A j \in 1..Len(s) : s[j] \notin F => Rank(s, F, j) >= 1
  <2>1. \A j \in 1..Len(s) : s[j] \notin F => Cardinality(Before(j)) # 0
    BY <1>3, <1>7, FS_EmptySet
  <2>. QED
    BY <1>3, <1>4, <2>1
<1>. QED
  BY <1>1, <1>8, <1>9, <1>10, <1>11

\* The unanswered rows can be counted through, in their order, by their ranks.
LEMMA CountedThrough ==
  ASSUME NEW s \in Seq(Questions), NEW F
  PROVE  \E f \in Increasing(Positions(s, F)) :
           \A k \in 1..Cardinality(Positions(s, F)) : Rank(s, F, f[k]) = k
<1> DEFINE P == Positions(s, F)
           n == Cardinality(P)
           g == [i \in P |-> Rank(s, F, i)]
<1>1. /\ P \subseteq 1..Len(s) /\ IsFiniteSet(P) /\ n \in Nat
      /\ \A i \in P : s[i] \notin F
  BY Ranks DEF Positions
<1>2. \A i \in P : Rank(s, F, i) \in 1..n
  <2>1. SUFFICES ASSUME NEW i \in P PROVE Rank(s, F, i) \in 1..n
    OBVIOUS
  <2>2. i \in 1..Len(s) /\ s[i] \notin F
    BY <1>1
  <2>3. Rank(s, F, i) \in 0..n /\ Rank(s, F, i) >= 1
    BY <2>2, Ranks
  <2>. QED
    BY <1>1, <2>3
<1>3. \A i, j \in P : i < j => Rank(s, F, i) < Rank(s, F, j)
  BY <1>1, Ranks
<1>4. \A i, j \in P : i # j => Rank(s, F, i) # Rank(s, F, j)
  <2>1. \A i, j \in P : i \in Nat /\ j \in Nat
    BY <1>1
  <2>2. \A i \in P : Rank(s, F, i) \in Nat
    BY <1>1, <1>2
  <2>. QED
    BY <1>3, <2>1, <2>2
<1>5. g \in [P -> 1..n]
  BY <1>2
<1>6. \A i, j \in P : g[i] = g[j] => i = j
  BY <1>4
<1>7. IsFiniteSet(1..n) /\ Cardinality(1..n) = n
  BY <1>1, FS_Interval
<1>8. \A k \in 1..n : \E i \in P : Rank(s, F, i) = k
  <2> HIDE DEF P, n
  <2>1. g \in Injection(P, 1..n)
    BY <1>5, <1>6 DEF Injection, IsInjective
  <2>2. g \in Surjection(P, 1..n)
    BY <1>7, <2>1, FS_Injection DEF n
  <2>3. \A k \in 1..n : \E i \in P : g[i] = k
    BY <2>2 DEF Surjection
  <2>. QED
    BY <2>3
<1> HIDE DEF P, n, g
<1> DEFINE f == [k \in 1..n |-> CHOOSE i \in P : Rank(s, F, i) = k]
<1>9. \A k \in 1..n : f[k] \in P /\ Rank(s, F, f[k]) = k
  BY <1>8
<1>10. \A k, l \in 1..n : k < l => f[k] < f[l]
  <2>1. SUFFICES ASSUME NEW k \in 1..n, NEW l \in 1..n, k < l, ~(f[k] < f[l])
                 PROVE  FALSE
    OBVIOUS
  <2> HIDE DEF f
  <2>2. /\ f[k] \in 1..Len(s) /\ f[l] \in 1..Len(s)
        /\ Rank(s, F, f[k]) = k /\ Rank(s, F, f[l]) = l
    BY <1>1, <1>9
  <2>3. f[l] <= f[k]
    BY <2>1, <2>2
  <2>4. l <= k
    BY <2>2, <2>3, Ranks
  <2>. QED
    <3>1. k \in Int /\ l \in Int
      OBVIOUS
    <3>. QED
      BY <2>1, <2>4, <3>1
<1>11. f \in [1..n -> P]
  BY <1>9
<1> HIDE DEF f
<1>12. f \in Increasing(P)
  BY <1>10, <1>11 DEF Increasing, n
<1>. QED
  BY <1>9, <1>12 DEF n, P

\* The page cut from the unanswered rows is what their ranks select.
LEMMA PageByRank ==
  ASSUME NEW s \in Seq(Questions), NEW F, NEW offset \in Nat, NEW limit \in Nat,
         NEW last \in Int, limit # 0 => last = offset + limit,
         limit = 0 => last >= Len(s)
  PROVE  \E t \in Left(s, F) :
            Elements(Cut(t, offset, limit)) = Remaining(s, F, offset, last)
<1> DEFINE P == Positions(s, F)
           n == Cardinality(P)
<1>1. PICK f \in Increasing(P) : \A k \in 1..n : Rank(s, F, f[k]) = k
  BY CountedThrough
<1>2. /\ P \subseteq 1..Len(s) /\ n \in Nat /\ n <= Len(s)
      /\ Len(s) \in Nat
  <2>1. P \in SUBSET (1..Len(s)) /\ Len(s) \in Nat
    BY DEF Positions
  <2>2. IsFiniteSet(1..Len(s)) /\ Cardinality(1..Len(s)) = Len(s)
    BY <2>1, FS_Interval
  <2>. QED
    BY <2>1, <2>2, FS_Subset, Ranks
<1>3. f \in [1..n -> P]
  BY <1>1 DEF Increasing
<1> DEFINE t == [i \in 1..n |-> s[f[i]]]
<1>4. t \in Left(s, F)
  BY <1>1 DEF Left, Positions
<1>5. t \in Seq(Questions) /\ Len(t) = n
  <2>1. \A i \in 1..n : s[f[i]] \in Questions
    BY <1>2, <1>3
  <2>. QED
    BY <1>2, <2>1
<1> DEFINE end == IF limit = 0 THEN n ELSE Least(offset + limit, n)
<1>6. Elements(Cut(t, offset, limit)) = {t[k] : k \in (offset + 1)..end}
  <2>1. end \in Int /\ end <= n /\ offset + 1 \in Int /\ offset + 1 >= 1
    BY <1>2 DEF Least
  <2>2. Cut(t, offset, limit) = SubSeq(t, offset + 1, end)
    BY <1>5 DEF Cut
  <2> HIDE DEF end, t
  <2>3. /\ Len(SubSeq(t, offset + 1, end)) =
             IF offset + 1 <= end THEN end - offset ELSE 0
        /\ \A i \in 1..(end - offset) : SubSeq(t, offset + 1, end)[i] = t[offset + i]
    BY <1>5, <2>1
  <2>4. \A k \in (offset + 1)..end : /\ k - offset \in 1..(end - offset)
                                     /\ offset + (k - offset) = k
    BY <2>1
  <2>5. \A i \in 1..(end - offset) : offset + i \in (offset + 1)..end
    BY <2>1
  <2>6. 1..Len(SubSeq(t, offset + 1, end)) = 1..(end - offset)
    BY <2>1, <2>3
  <2> DEFINE u == SubSeq(t, offset + 1, end)
  <2>7. Elements(u) = {u[i] : i \in 1..(end - offset)}
    BY <2>6 DEF Elements
  <2>8. \A k \in (offset + 1)..end : u[k - offset] = t[k]
    BY <2>3, <2>4
  <2> HIDE DEF u
  <2>9. \A k \in (offset + 1)..end : t[k] \in {u[i] : i \in 1..(end - offset)}
    BY <2>4, <2>8
  <2>10. \A i \in 1..(end - offset) : u[i] \in {t[k] : k \in (offset + 1)..end}
    BY <2>3, <2>5 DEF u
  <2>. QED
    BY <2>2, <2>7, <2>9, <2>10 DEF u
<1>7. \A j \in P : Rank(s, F, j) \in 1..n /\ f[Rank(s, F, j)] = j
  <2>1. SUFFICES ASSUME NEW j \in P
                 PROVE  Rank(s, F, j) \in 1..n /\ f[Rank(s, F, j)] = j
    OBVIOUS
  <2>2. j \in 1..Len(s) /\ s[j] \notin F
    BY DEF Positions
  <2>3. Rank(s, F, j) \in 1..n
    <3>1. Rank(s, F, j) \in 0..n /\ Rank(s, F, j) >= 1
      BY <2>2, Ranks
    <3>. QED
      BY <1>2, <3>1
  <2> DEFINE k == Rank(s, F, j)
  <2>4. f[k] \in P /\ f[k] \in 1..Len(s) /\ Rank(s, F, f[k]) = k
    BY <1>1, <1>2, <1>3, <2>3
  <2>5. s[f[k]] \notin F
    BY <2>4 DEF Positions
  <2>6. ~(f[k] < j) /\ ~(j < f[k])
    <3>1. k \in Nat /\ ~(k < k)
      BY <1>2, <2>3
    <3> HIDE DEF k
    <3>2. f[k] < j => Rank(s, F, f[k]) < Rank(s, F, j)
      BY <2>2, <2>4, Ranks
    <3>3. j < f[k] => Rank(s, F, j) < Rank(s, F, f[k])
      BY <2>2, <2>4, <2>5, Ranks
    <3>. QED
      BY <2>4, <3>1, <3>2, <3>3 DEF k
  <2> HIDE DEF k
  <2>7. f[k] = j
    BY <2>2, <2>4, <2>6
  <2>. QED
    BY <2>3, <2>7 DEF k
<1>8. \A k \in 1..n : k <= end <=> k <= last
  BY <1>2 DEF Least
<1>9. Remaining(s, F, offset, last) = {t[k] : k \in (offset + 1)..end}
  <2>1. /\ end \in Int /\ end <= n
    BY <1>2 DEF Least
  <2>2. ASSUME NEW k \in (offset + 1)..end
        PROVE  t[k] \in Remaining(s, F, offset, last)
    <3>1. k \in 1..n /\ offset < k /\ k <= last
      <4> HIDE DEF end, n, t
      <4>1. k \in 1..n /\ offset < k /\ k <= end
        BY <1>2, <2>1
      <4>. QED
        BY <1>8, <4>1
    <3>2. f[k] \in P /\ Rank(s, F, f[k]) = k /\ t[k] = s[f[k]]
      BY <1>1, <1>3, <3>1
    <3> HIDE DEF t, end
    <3>3. f[k] \in 1..Len(s) /\ s[f[k]] \notin F
      BY <3>2 DEF Positions
    <3>. QED
      BY <3>1, <3>2, <3>3 DEF Remaining
  <2>3. ASSUME NEW q \in Remaining(s, F, offset, last)
        PROVE  q \in {t[k] : k \in (offset + 1)..end}
    <3>1. PICK j \in 1..Len(s) : /\ q = s[j] /\ s[j] \notin F
                                 /\ offset < Rank(s, F, j) /\ Rank(s, F, j) <= last
      BY DEF Remaining
    <3>2. j \in P
      BY <3>1 DEF Positions
    <3>3. Rank(s, F, j) \in 1..n /\ f[Rank(s, F, j)] = j
      BY <1>7, <3>2
    <3>4. Rank(s, F, j) \in (offset + 1)..end
      BY <1>2, <1>8, <2>1, <3>1, <3>3
    <3>5. t[Rank(s, F, j)] = q
      BY <3>1, <3>3
    <3>. QED
      BY <3>4, <3>5
  <2> HIDE DEF t, end
  <2>4. {t[k] : k \in (offset + 1)..end} \subseteq Remaining(s, F, offset, last)
    BY <2>2
  <2>. QED
    BY <2>3, <2>4
<1>. QED
  BY <1>4, <1>6, <1>9

\* A window is a beginning of the sorted result, whose rows are all different.
LEMMA Beginning ==
  ASSUME NEW S \in SUBSET Questions, NEW s \in Sorted(S), NEW w \in Nat, w >= 1
  PROVE  /\ s \in Seq(Questions) /\ Cut(s, 0, w) \in Seq(Questions)
         /\ Len(s) \in Nat /\ Len(Cut(s, 0, w)) = Least(w, Len(s))
         /\ \A i \in 1..Len(Cut(s, 0, w)) : Cut(s, 0, w)[i] = s[i]
         /\ \A i, j \in 1..Len(s) : i # j => s[i] # s[j]
<1>1. Cardinality(S) \in Nat
  BY SearchAssumption, FS_Subset, FS_CardinalityType
<1>2. /\ s \in [1..Cardinality(S) -> S]
      /\ \A i, j \in 1..Cardinality(S) : i < j => s[i] # s[j]
  BY DEF Sorted
<1>3. s \in Seq(Questions) /\ Len(s) = Cardinality(S)
  BY <1>1, <1>2
<1>4. \A i, j \in 1..Len(s) : i # j => s[i] # s[j]
  <2>1. \A i, j \in 1..Len(s) : i # j => i < j \/ j < i
    BY <1>1, <1>3
  <2>. QED
    BY <1>2, <1>3, <2>1
<1> DEFINE last == Least(w, Len(s))
<1>5. last \in Nat /\ last <= Len(s)
  BY <1>1, <1>3 DEF Least
<1>6. Cut(s, 0, w) = SubSeq(s, 1, last)
  <2>1. 0 + 1 = 1 /\ 0 + w = w /\ w # 0
    OBVIOUS
  <2>. QED
    BY <2>1 DEF Cut
<1> HIDE DEF last
<1>7. /\ SubSeq(s, 1, last) \in Seq(Questions) /\ Len(SubSeq(s, 1, last)) = last
      /\ \A i \in 1..last : SubSeq(s, 1, last)[i] = s[i]
  <2>1. \A i \in 1..last : s[i] \in Questions
    BY <1>3, <1>5
  <2>. QED
    BY <1>3, <1>5, <2>1, SubSeqProperties
<1>. QED
  BY <1>1, <1>3, <1>4, <1>6, <1>7 DEF last

\* Leaving out the answered rows of a window leaves the others to be counted.
LEMMA Counted ==
  ASSUME NEW t \in Seq(Questions), NEW A,
         \A i, j \in 1..Len(t) : i # j => t[i] # t[j]
  PROVE  /\ Cardinality(Elements(t) \cap A) \in Nat
         /\ Cardinality(Positions(t, A)) = Len(t) - Cardinality(Elements(t) \cap A)
<1> DEFINE N == 1..Len(t)
           Q == {i \in N : t[i] \in A}
           g == [i \in Q |-> t[i]]
<1>1. IsFiniteSet(N) /\ Cardinality(N) = Len(t) /\ Len(t) \in Nat
  <2>1. Len(t) \in Nat
    OBVIOUS
  <2>. QED
    BY <2>1, Interval
<1>2. /\ Q \subseteq N /\ IsFiniteSet(Q)
      /\ Positions(t, A) = N \ Q
  <2>1. Q \in SUBSET N
    OBVIOUS
  <2>. QED
    BY <1>1, <2>1, FS_Subset DEF Positions
<1>3. Cardinality(Q) = Cardinality(Elements(t) \cap A)
  <2>1. g \in [Q -> Elements(t) \cap A]
    BY DEF Elements
  <2>2. \A i, j \in Q : g[i] = g[j] => i = j
    OBVIOUS
  <2>3. \A q \in Elements(t) \cap A : \E i \in Q : g[i] = q
    BY DEF Elements
  <2> HIDE DEF g, Q
  <2>4. g \in Bijection(Q, Elements(t) \cap A)
    BY <2>1, <2>2, <2>3 DEF Bijection, Injection, Surjection, IsInjective
  <2>5. ExistsBijection(Q, Elements(t) \cap A)
    BY <2>4 DEF ExistsBijection
  <2>. QED
    BY <1>2, <2>5, FS_Bijection
<1> HIDE DEF N, Q, g
<1>4. Cardinality(N \ Q) = Cardinality(N) - Cardinality(Q)
  <2>1. Q \cap N = Q
    BY <1>2
  <2>2. Cardinality(N \ Q) = Cardinality(N) - Cardinality(N \cap Q)
    BY <1>1, FS_Difference
  <2>. QED
    BY <2>1, <2>2
<1>5. Cardinality(Q) \in Nat
  BY <1>2, FS_CardinalityType
<1>. QED
  BY <1>1, <1>2, <1>3, <1>4, <1>5

\* In a window, and in the whole result, a row has the same rank.
LEMMA SameRanks ==
  ASSUME NEW s \in Seq(Questions), NEW t \in Seq(Questions), Len(t) <= Len(s),
         \A i \in 1..Len(t) : t[i] = s[i], NEW A, NEW F, F = Elements(t) \cap A
  PROVE  \A j \in 1..Len(t) : /\ t[j] \notin F <=> s[j] \notin A
                              /\ Rank(t, F, j) = Rank(s, A, j)
<1>1. Len(t) \in Nat
  OBVIOUS
<1>2. \A i \in 1..Len(t) : t[i] \notin F <=> s[i] \notin A
  BY DEF Elements
<1>3. ASSUME NEW j \in 1..Len(t)
      PROVE  {i \in 1..j : t[i] \notin F} = {i \in 1..j : s[i] \notin A}
  <2>1. \A i \in 1..j : i \in 1..Len(t)
    BY <1>1
  <2>. QED
    BY <1>2, <2>1
<1>. QED
  BY <1>2, <1>3 DEF Rank

\* The rank of the last row of the page, if it is read from the rows of t.
LastRank(c, t) == IF Limit(c) = 0 THEN Len(t) ELSE Offset(c) + Limit(c)

\* Enough, of the rows t in a window of w.
Holds(t, F, n, w) ==
  Len(t) - Cardinality(F) >= n \/ Len(t) < w \/ w >= MaxWindow

\* When the window suffices, the page by rank within it is the one by rank within
\* the largest window: the rows behind it rank behind the page, or there are none.
LEMMA WindowSuffices ==
  ASSUME NEW S \in SUBSET Questions, NEW s \in Sorted(S), NEW A, NEW w \in 1..MaxWindow,
         NEW c, Offset(c) \in Nat, Limit(c) \in 0..MaxLimit, NEW n \in Required(c),
         NEW t, t = Cut(s, 0, w), NEW top, top = Cut(s, 0, MaxWindow),
         NEW F, F = Elements(t) \cap A,
         Holds(t, F, n, w)
  PROVE  Remaining(t, F, Offset(c), LastRank(c, t))
           = Remaining(top, A, Offset(c), LastRank(c, top))
<1>1. /\ s \in Seq(Questions) /\ t \in Seq(Questions) /\ top \in Seq(Questions)
      /\ Len(s) \in Nat /\ Len(t) = Least(w, Len(s))
      /\ Len(top) = Least(MaxWindow, Len(s))
      /\ \A i \in 1..Len(t) : t[i] = s[i]
      /\ \A i \in 1..Len(top) : top[i] = s[i]
      /\ \A i, j \in 1..Len(s) : i # j => s[i] # s[j]
  <2>1. w \in Nat /\ w >= 1 /\ MaxWindow \in Nat /\ MaxWindow >= 1
    BY SearchAssumption
  <2>. QED
    BY <2>1, Beginning
<1>0. /\ MaxWindow \in Nat /\ w \in Nat /\ w <= MaxWindow
  BY SearchAssumption
<1>2. /\ Len(t) \in Nat /\ Len(top) \in Nat /\ MaxWindow \in Nat
      /\ Len(t) <= Len(top) /\ Len(top) <= Len(s) /\ Len(top) <= MaxWindow
      /\ Len(t) <= w /\ w <= MaxWindow
      /\ Len(t) < w => Len(t) = Len(s)
      /\ Len(t) < Len(top) => Len(t) = w
  BY <1>1, <1>0 DEF Least
<1>3. \A i \in 1..Len(t) : t[i] = top[i]
  BY <1>1, <1>2
<1>4. \A j \in 1..Len(t) : /\ t[j] \notin F <=> top[j] \notin A
                           /\ Rank(t, F, j) = Rank(top, A, j)
  <2>1. /\ top \in Seq(Questions) /\ t \in Seq(Questions) /\ Len(t) <= Len(top)
        /\ \A i \in 1..Len(t) : t[i] = top[i]
    BY <1>1, <1>2, <1>3
  <2>2. F = Elements(t) \cap A
    OBVIOUS
  <2>. QED
    BY ONLY <2>1, <2>2, SameRanks
<1>5. Positions(t, F) = Positions(t, A)
  BY DEF Positions, Elements
<1>6. /\ Cardinality(F) \in Nat
      /\ Cardinality(Positions(t, F)) = Len(t) - Cardinality(F)
  <2>1. \A i, j \in 1..Len(t) : i # j => t[i] # t[j]
    BY ONLY <1>1, <1>2
  <2>. QED
    BY <1>1, <1>5, <2>1, Counted
\* Rows behind a window that holds the page rank behind the page.
<1>7. ASSUME NEW j \in 1..Len(top), j > Len(t), top[j] \notin A,
             Offset(c) < Rank(top, A, j), Rank(top, A, j) <= LastRank(c, top)
      PROVE  FALSE
  <2>1. Len(t) < Len(top) /\ Len(t) = w /\ w < MaxWindow
    BY <1>2, <1>7
  <2>2. Len(t) - Cardinality(F) >= n
    BY <1>2, <2>1 DEF Holds
  <2>3. Rank(top, A, j) \in Nat /\ Rank(top, A, j) <= MaxWindow
    <3>1. Rank(top, A, j) \in 0..Cardinality(Positions(top, A))
      BY <1>1, Ranks
    <3>2. Rank(top, A, j) \in Nat
      BY <1>1, <3>1, Ranks
    <3>3. Rank(top, A, j) <= Len(top)
      <4>1. Positions(top, A) \in SUBSET (1..Len(top)) /\ 1 \in Int /\ Len(top) \in Int
        BY <1>2 DEF Positions
      <4>2. IsFiniteSet(1..Len(top)) /\ Cardinality(1..Len(top)) = Len(top)
        BY <1>2, Interval
      <4>3. Cardinality(Positions(top, A)) <= Len(top)
        BY <4>1, <4>2, FS_Subset
      <4>. QED
        BY <1>1, <1>2, <3>1, <4>3, Ranks
    <3>. QED
      BY <1>2, <3>2, <3>3
  <2>4. /\ Cardinality(F) \in Nat
        /\ Len(t) - Cardinality(F) \in Nat
        /\ Rank(top, A, j) > Len(t) - Cardinality(F)
    <3>1. Len(t) - Cardinality(F) = Cardinality(Positions(t, F))
      BY <1>6
    <3>2. Cardinality(Positions(t, F)) \in Nat
      BY <1>1, Ranks
    <3>3. Rank(top, A, j) > Cardinality(Positions(t, F))
      <4>1. CASE Positions(t, F) = {}
        <5>1. Rank(top, A, j) >= 1
          BY <1>1, <1>7, Ranks
        <5>2. Cardinality(Positions(t, F)) = 0
          BY <4>1, FS_EmptySet
        <5>. QED
          BY <2>3, <5>1, <5>2
      <4>2. CASE Positions(t, F) # {}
        <5>1. PICK k \in 1..Len(t) : Rank(t, F, k) = Cardinality(Positions(t, F))
          <6>1. PICK f \in Increasing(Positions(t, F)) :
                  \A i \in 1..Cardinality(Positions(t, F)) : Rank(t, F, f[i]) = i
            BY <1>1, CountedThrough
          <6>2. Cardinality(Positions(t, F)) # 0
            BY <1>1, <4>2, Ranks, FS_EmptySet
          <6>3. Cardinality(Positions(t, F)) \in 1..Cardinality(Positions(t, F))
            BY <3>2, <6>2
          <6>4. f[Cardinality(Positions(t, F))] \in Positions(t, F)
            BY <6>1, <6>3 DEF Increasing
          <6>. QED
            BY <6>1, <6>3, <6>4 DEF Positions
        <5>2. Rank(top, A, k) < Rank(top, A, j)
          <6>1. k \in 1..Len(top) /\ k < j
            BY <1>2, <1>7
          <6>. QED
            BY <1>1, <1>7, <6>1, Ranks
        <5>. QED
          BY <1>4, <2>3, <3>2, <5>1, <5>2
      <4>. QED
        BY <4>1, <4>2
    <3>. QED
      BY <1>6, <3>1, <3>2, <3>3
  <2>5. CASE Limit(c) = 0
    <3>1. n = MaxWindow
      BY <2>5 DEF Required
    <3>. QED
      BY <1>2, <2>1, <2>2, <2>4, <3>1
  <2>6. CASE Limit(c) # 0
    <3> DEFINE sum == Offset(c) + Limit(c)
    <3>1. sum \in Nat /\ Rank(top, A, j) <= sum
      BY <1>7, <2>6, SearchAssumption DEF LastRank
    <3>2. CASE n = sum
      BY <2>2, <2>3, <2>4, <3>1, <3>2
    <3>3. CASE n # sum
      <4>1. sum > MaxInt
        BY <2>6, <3>1, <3>3, SearchAssumption DEF Required
      <4>2. Offset(c) > MaxWindow
        BY <4>1, SearchAssumption
      <4>. QED
        BY <1>2, <1>7, <2>3, <4>2
    <3>. QED
      BY <3>2, <3>3
  <2>. QED
    BY <2>5, <2>6
<1>8. \A j \in 1..Len(t) : Rank(t, F, j) \in Nat /\ Rank(t, F, j) <= Len(t)
  <2>1. Cardinality(Positions(t, F)) \in Nat /\ Cardinality(Positions(t, F)) <= Len(t)
    BY <1>1, <1>2, <1>6, Ranks
  <2>2. ASSUME NEW j \in 1..Len(t)
        PROVE  Rank(t, F, j) \in Nat /\ Rank(t, F, j) <= Len(t)
    <3>1. Rank(t, F, j) \in 0..Cardinality(Positions(t, F))
      BY <1>1, Ranks
    <3>. QED
      BY <1>2, <2>1, <3>1
  <2>. QED
    BY <2>2
<1>9. ASSUME NEW q \in Remaining(t, F, Offset(c), LastRank(c, t))
      PROVE  q \in Remaining(top, A, Offset(c), LastRank(c, top))
  <2>1. PICK j \in 1..Len(t) :
          /\ q = t[j] /\ t[j] \notin F
          /\ Offset(c) < Rank(t, F, j) /\ Rank(t, F, j) <= LastRank(c, t)
    BY <1>9 DEF Remaining
  <2>2. /\ j \in 1..Len(top) /\ q = top[j] /\ top[j] \notin A
        /\ Rank(t, F, j) = Rank(top, A, j)
    BY ONLY <1>2, <1>3, <1>4, <2>1
  <2>3. Rank(t, F, j) <= LastRank(c, top)
    BY ONLY <1>2, <1>8, <2>1 DEF LastRank
  <2>. QED
    BY <2>1, <2>2, <2>3 DEF Remaining
<1>10. ASSUME NEW q \in Remaining(top, A, Offset(c), LastRank(c, top))
       PROVE  q \in Remaining(t, F, Offset(c), LastRank(c, t))
  <2>1. PICK j \in 1..Len(top) :
          /\ q = top[j] /\ top[j] \notin A
          /\ Offset(c) < Rank(top, A, j) /\ Rank(top, A, j) <= LastRank(c, top)
    BY <1>10 DEF Remaining
  <2>2. j \in 1..Len(t)
    BY <1>2, <1>7, <2>1
  <2>3. /\ q = t[j] /\ t[j] \notin F /\ Rank(t, F, j) = Rank(top, A, j)
    BY <1>3, <1>4, <2>1, <2>2
  <2>4. Rank(t, F, j) <= LastRank(c, t)
    BY <1>8, <2>1, <2>2, <2>3 DEF LastRank
  <2>. QED
    BY <2>1, <2>2, <2>3, <2>4 DEF Remaining
<1>. QED
  <2>1. Remaining(t, F, Offset(c), LastRank(c, t))
          \subseteq Remaining(top, A, Offset(c), LastRank(c, top))
    BY <1>9
  <2>2. Remaining(top, A, Offset(c), LastRank(c, top))
          \subseteq Remaining(t, F, Offset(c), LastRank(c, t))
    BY <1>10
  <2>. QED
    BY <2>1, <2>2

\* So the search answers with the page that was asked for.
LEMMA PageOfWindow ==
  ASSUME NEW S \in SUBSET Questions, NEW s \in Sorted(S), NEW A, NEW w \in 1..MaxWindow,
         NEW c, Offset(c) \in Nat, Limit(c) \in 0..MaxLimit, NEW n \in Required(c),
         NEW t, t = Cut(s, 0, w), NEW F, F = Elements(t) \cap A,
         Holds(t, F, n, w)
  PROVE  \E l \in Left(Cut(s, 0, MaxWindow), A) :
           Remaining(t, F, Offset(c), LastRank(c, t))
             = Elements(Cut(l, Offset(c), Limit(c)))
<1> DEFINE top == Cut(s, 0, MaxWindow)
           last == LastRank(c, top)
<1>1. MaxWindow \in Nat /\ MaxWindow >= 1 /\ MaxLimit \in Nat
  BY SearchAssumption
<1>2. top \in Seq(Questions) /\ Limit(c) \in Nat
  BY <1>1, Beginning
<1>3. /\ last \in Int
      /\ Limit(c) # 0 => last = Offset(c) + Limit(c)
      /\ Limit(c) = 0 => last >= Len(top)
  BY <1>2 DEF LastRank
<1>4. Remaining(t, F, Offset(c), LastRank(c, t)) = Remaining(top, A, Offset(c), last)
  <2>1. /\ t = Cut(s, 0, w) /\ top = Cut(s, 0, MaxWindow) /\ F = Elements(t) \cap A
        /\ Offset(c) \in Nat /\ Limit(c) \in 0..MaxLimit
        /\ Holds(t, F, n, w)
    OBVIOUS
  <2> HIDE DEF top
  <2>2. Remaining(t, F, Offset(c), LastRank(c, t))
          = Remaining(top, A, Offset(c), LastRank(c, top))
    BY ONLY <2>1, WindowSuffices
  <2>. QED
    BY <2>2
<1> HIDE DEF top, last
<1>5. \E l \in Left(top, A) :
         Elements(Cut(l, Offset(c), Limit(c))) = Remaining(top, A, Offset(c), last)
  BY <1>2, <1>3, PageByRank
<1>. QED
  BY <1>4, <1>5 DEF top

\* No rows make an empty page.
LEMMA PageOfNothing ==
  ASSUME NEW S \in SUBSET Questions, NEW s \in Sorted(S), s = <<>>, NEW A,
         NEW offset \in Nat, NEW limit \in Nat
  PROVE  \E l \in Left(Cut(s, 0, MaxWindow), A) : Elements(Cut(l, offset, limit)) = {}
<1> DEFINE top == Cut(s, 0, MaxWindow)
<1>1. MaxWindow \in Nat /\ MaxWindow >= 1
  BY SearchAssumption
<1>2. top \in Seq(Questions) /\ Len(top) = 0
  <2>1. top \in Seq(Questions) /\ Len(top) = Least(MaxWindow, Len(s)) /\ Len(s) = 0
    BY <1>1, Beginning
  <2>. QED
    BY <1>1, <2>1 DEF Least
<1> DEFINE last == offset + limit
<1> HIDE DEF top
<1>3. \E l \in Left(top, A) :
         Elements(Cut(l, offset, limit)) = Remaining(top, A, offset, last)
  <2>1. /\ last \in Int
        /\ limit = 0 => last >= Len(top)
        /\ limit # 0 => last = offset + limit
    BY <1>2
  <2> HIDE DEF last
  <2>. QED
    BY ONLY <1>2, <2>1, PageByRank
<1>4. Remaining(top, A, offset, last) = {}
  BY <1>2 DEF Remaining
<1>. QED
  BY <1>3, <1>4 DEF top
=============================================================================
