--------------------------- MODULE RouteSetsProofs ---------------------------
(***************************************************************************)
(* Theorems about the set arithmetic of the configuration, for every UID   *)
(* space, every width of an address and any number of ranges and prefixes. *)
(***************************************************************************)
EXTENDS RouteSets, SequenceTheorems, FiniteSetTheorems, WellFoundedInduction, TLAPS

-----------------------------------------------------------------------------
(* Loops over a sequence                                                    *)

\* Induction up to n, on a set.
LEMMA UpTo ==
    ASSUME NEW n \in Nat, NEW T, 0 \in T, \A i \in 0 .. n : i \in T /\ i < n => i + 1 \in T
    PROVE  \A i \in 0 .. n : i \in T
  <1> DEFINE missing == {i \in Nat : i <= n /\ i \notin T}
  <1>1. SUFFICES ASSUME missing # {} PROVE FALSE
    OBVIOUS
  <1>2. PICK m \in missing : \A j \in missing : ~(<<j, m>> \in OpToRel(<, Nat))
    <2>1. missing \subseteq Nat
      OBVIOUS
    <2> HIDE DEF missing
    <2> QED BY <1>1, <2>1, NatLessThanWellFounded, WFMin
  <1>3. \A j \in missing : ~(j < m)
    BY <1>2 DEF OpToRel
  <1>4. m \in Nat /\ m <= n /\ m # 0 /\ m - 1 \in 0 .. n
    OBVIOUS
  <1>5. m - 1 \in T
    BY <1>3, <1>4
  <1> QED BY <1>4, <1>5

\* What the loops do with each range; s is the range that is subtracted.
Each(op, s, x, r) == IF op = "merge" THEN MergeRange(x, r)
                     ELSE IF op = "without" THEN Without(x, r, s)
                     ELSE IF op = "subtract" THEN SubtractRange(x, r) ELSE GapBefore(x, r)

IsLoop(op, s, start, q, f) ==
    f = [i \in 0 .. Len(q) |-> IF i = 0 THEN start ELSE Each(op, s, f[i - 1], q[i])]

\* The recursive functions of InOrder exist.
LEMMA OneByOne ==
    ASSUME NEW op, NEW s, NEW start, NEW q, Len(q) \in Nat
    PROVE  \E f : IsLoop(op, s, start, q, f)
  <1> DEFINE Step(f, i) == IF i = 0 THEN start ELSE Each(op, s, f[i - 1], q[i])
             Is(f, n) == f = [i \in 0 .. n |-> Step(f, i)]
             T == {n \in Nat : \E f : Is(f, n)}
  <1>1. 0 \in T
    <2>1. Is([i \in 0 .. 0 |-> start], 0)
      OBVIOUS
    <2> QED BY <2>1
  <1>2. ASSUME NEW n \in Nat, n \in T PROVE n + 1 \in T
    <2>1. PICK f : Is(f, n)
      BY <1>2
    <2> DEFINE g == [i \in 0 .. n + 1 |-> IF i = n + 1 THEN Each(op, s, f[n], q[n + 1]) ELSE f[i]]
    <2>2. ASSUME NEW i \in 0 .. n + 1 PROVE g[i] = Step(g, i)
      <3>1. CASE i = n + 1
        BY <3>1
      <3>2. CASE i \in 0 .. n
        <4>1. f[i] = Step(f, i)
          BY <2>1, <3>2
        <4>2. g[i] = f[i] /\ (i # 0 => g[i - 1] = f[i - 1])
          BY <3>2
        <4> QED BY <4>1, <4>2
      <3> QED BY <3>1, <3>2
    <2>3. Is(g, n + 1)
      BY <2>2
    <2> HIDE DEF g, Is
    <2>4. \E f_ : Is(f_, n + 1)
      BY <2>3
    <2> QED BY <2>4
  <1>3. Len(q) \in T
    <2> HIDE DEF T
    <2>1. \A n \in 0 .. Len(q) : n \in T /\ n < Len(q) => n + 1 \in T
      BY <1>2
    <2>2. \A n \in 0 .. Len(q) : n \in T
      BY <1>1, <2>1, UpTo
    <2> QED BY <2>2
  <1> QED BY <1>3 DEF IsLoop

\* So each loop is a sequence of values, from its start to its result.
LEMMA MergeLoop ==
    ASSUME NEW rs, Len(Sorted(rs)) \in Nat
    PROVE  \E st : /\ st[0] = <<>> /\ MergeRanges(rs) = st[Len(Sorted(rs))]
                   /\ \A i \in 1 .. Len(Sorted(rs)) : st[i] = MergeRange(st[i - 1], Sorted(rs)[i])
  <1> DEFINE q == Sorted(rs)
             Is(f) == f = [i \in 0 .. Len(q) |-> IF i = 0 THEN <<>> ELSE MergeRange(f[i - 1], q[i])]
  <1> HIDE DEF q
  <1>1. PICK f : IsLoop("merge", <<>>, <<>>, q, f)
    BY OneByOne DEF q
  <1>2. Is(f)
    BY <1>1 DEF Each, IsLoop
  <1> DEFINE after == CHOOSE g : Is(g)
  <1>3. Is(after) /\ MergeRanges(rs) = after[Len(q)]
    BY <1>2 DEF InOrder, MergeRanges, q
  <1> HIDE DEF after
  <1>4. after[0] = <<>> /\ \A i \in 1 .. Len(q) : after[i] = MergeRange(after[i - 1], q[i])
    <2>1. Len(q) \in Nat
      BY DEF q
    <2> QED BY <1>3, <2>1
  <1> QED BY <1>3, <1>4 DEF q

LEMMA SubtractRangeLoop ==
    ASSUME NEW rs, NEW s, Len(rs) \in Nat
    PROVE  \E st : /\ st[0] = <<>> /\ SubtractRange(rs, s) = st[Len(rs)]
                   /\ \A i \in 1 .. Len(rs) : st[i] = Without(st[i - 1], rs[i], s)
  <1> DEFINE Is(f) == f = [i \in 0 .. Len(rs) |-> IF i = 0 THEN <<>> ELSE Without(f[i - 1], rs[i], s)]
  <1>1. PICK f : IsLoop("without", s, <<>>, rs, f)
    BY OneByOne
  <1>2. Is(f)
    BY <1>1 DEF Each, IsLoop
  <1> DEFINE after == CHOOSE g : Is(g)
  <1>3. Is(after) /\ SubtractRange(rs, s) = after[Len(rs)]
    BY <1>2 DEF InOrder, SubtractRange
  <1> HIDE DEF after
  <1>4. after[0] = <<>> /\ \A i \in 1 .. Len(rs) : after[i] = Without(after[i - 1], rs[i], s)
    BY <1>3
  <1> QED BY <1>3, <1>4

LEMMA SubtractLoop ==
    ASSUME NEW base, NEW sub, Len(sub) \in Nat
    PROVE  \E st : /\ st[0] = base /\ SubtractRanges(base, sub) = st[Len(sub)]
                   /\ \A i \in 1 .. Len(sub) : st[i] = SubtractRange(st[i - 1], sub[i])
  <1> DEFINE Is(f) == f = [i \in 0 .. Len(sub) |-> IF i = 0 THEN base ELSE SubtractRange(f[i - 1], sub[i])]
  <1>1. PICK f : IsLoop("subtract", <<>>, base, sub, f)
    BY OneByOne
  <1>2. Is(f)
    BY <1>1 DEF Each, IsLoop
  <1> DEFINE after == CHOOSE g : Is(g)
  <1>3. Is(after) /\ SubtractRanges(base, sub) = after[Len(sub)]
    BY <1>2 DEF InOrder, SubtractRanges
  <1> HIDE DEF after
  <1>4. after[0] = base /\ \A i \in 1 .. Len(sub) : after[i] = SubtractRange(after[i - 1], sub[i])
    BY <1>3
  <1> QED BY <1>3, <1>4

\* The state in front of the last gap of complement_ranges.
GapStart == [out |-> <<>>, cur |-> 0]
Gaps(rs) == InOrder(GapBefore, GapStart, rs)

LEMMA GapLoop ==
    ASSUME NEW rs, Len(rs) \in Nat
    PROVE  \E st : /\ st[0] = GapStart /\ Gaps(rs) = st[Len(rs)]
                   /\ \A i \in 1 .. Len(rs) : st[i] = GapBefore(st[i - 1], rs[i])
  <1> DEFINE Is(f) == f = [i \in 0 .. Len(rs) |-> IF i = 0 THEN GapStart ELSE GapBefore(f[i - 1], rs[i])]
  <1>1. PICK f : IsLoop("gap", <<>>, GapStart, rs, f)
    BY OneByOne
  <1>2. Is(f)
    BY <1>1 DEF Each, IsLoop
  <1> DEFINE after == CHOOSE g : Is(g)
  <1>3. Is(after) /\ Gaps(rs) = after[Len(rs)]
    BY <1>2 DEF InOrder, Gaps
  <1> HIDE DEF after
  <1>4. after[0] = GapStart /\ \A i \in 1 .. Len(rs) : after[i] = GapBefore(after[i - 1], rs[i])
    BY <1>3
  <1> QED BY <1>3, <1>4

-----------------------------------------------------------------------------
(* Ranges in order                                                          *)

Pair == Uid \X Uid

LEMMA UidType == Uid \in SUBSET Nat /\ 0 \in Uid /\ UidTop \in Uid /\ UidTop \in Nat \ {0}
  BY RouteSetsAssumption DEF Uid

LEMMA PairType == \A r \in Pair : r[1] \in Nat /\ r[2] \in Nat /\ r[1] <= UidTop /\ r[2] <= UidTop
  BY RouteSetsAssumption DEF Pair, Uid

LEMMA PairsFinite == ASSUME NEW rs \in SUBSET Pair PROVE IsFiniteSet(rs)
  <1>1. IsFiniteSet(Uid)
    BY RouteSetsAssumption, FS_Interval DEF Uid
  <1>2. IsFiniteSet(Pair)
    BY <1>1, FS_Product DEF Pair
  <1> QED BY <1>2, FS_Subset

Below(rs, r) == {q \in rs : Before(q, r)}

\* How many ranges there are up to a range tells it from every other.
LEMMA Ranks ==
    ASSUME NEW rs \in SUBSET Pair, NEW r \in rs
    PROVE  /\ Cardinality(Below(rs, r)) \in 1 .. Cardinality(rs)
           /\ \A s \in rs : Cardinality(Below(rs, s)) <= Cardinality(Below(rs, r)) => Before(s, r)
  <1>1. IsFiniteSet(rs) /\ Cardinality(rs) \in Nat
    BY PairsFinite, FS_CardinalityType
  <1>2. \A s \in rs : /\ Below(rs, s) \in SUBSET rs /\ IsFiniteSet(Below(rs, s))
                      /\ Cardinality(Below(rs, s)) \in Nat
                      /\ Cardinality(Below(rs, s)) <= Cardinality(rs)
    <2> TAKE s \in rs
    <2>1. Below(rs, s) \in SUBSET rs
      BY DEF Below
    <2> QED BY <1>1, <2>1, FS_Subset, FS_CardinalityType
  <1>3. \A s \in rs : s \in Below(rs, s)
    BY PairType DEF Below, Before
  <1>4. Cardinality(Below(rs, r)) # 0
    BY <1>2, <1>3, FS_EmptySet
  <1>5. ASSUME NEW s \in rs, Cardinality(Below(rs, s)) <= Cardinality(Below(rs, r)), ~Before(s, r)
        PROVE  FALSE
    <2>1. Before(r, s)
      BY <1>5, PairType DEF Before
    <2>2. Below(rs, r) \in SUBSET Below(rs, s)
      BY <2>1, PairType DEF Below, Before
    <2>3. Cardinality(Below(rs, r)) = Cardinality(Below(rs, s))
      <3>1. Cardinality(Below(rs, r)) <= Cardinality(Below(rs, s))
        BY <1>2, <2>2, FS_Subset
      <3> QED BY <1>2, <1>5, <3>1
    <2>4. Below(rs, r) = Below(rs, s)
      BY <1>2, <2>2, <2>3, FS_Subset
    <2> QED BY <1>3, <1>5, <2>4 DEF Below
  <1>6. Cardinality(Below(rs, r)) \in 1 .. Cardinality(rs)
    BY <1>1, <1>2, <1>4
  <1> QED BY <1>5, <1>6

\* Sorted has every range, in the order of where they begin.
LEMMA SortedRanges ==
    ASSUME NEW rs \in SUBSET Pair
    PROVE  /\ Sorted(rs) \in Seq(Pair) /\ Len(Sorted(rs)) = Cardinality(rs)
           /\ \A r : r \in rs <=> \E i \in 1 .. Len(Sorted(rs)) : r = Sorted(rs)[i]
           /\ \A i, j \in 1 .. Len(Sorted(rs)) : i < j => Sorted(rs)[i][1] <= Sorted(rs)[j][1]
  <1> DEFINE n == Cardinality(rs)
             rank == [r \in rs |-> Cardinality(Below(rs, r))]
  <1>1. IsFiniteSet(rs) /\ n \in Nat
    BY PairsFinite, FS_CardinalityType
  <1>2. rank \in [rs -> 1 .. n]
    BY Ranks
  <1>3. \A r, s \in rs : rank[s] <= rank[r] => Before(s, r)
    BY Ranks
  <1>4. \A r, s \in rs : rank[s] = rank[r] => s = r
    <2> SUFFICES ASSUME NEW r \in rs, NEW s \in rs, rank[s] = rank[r] PROVE s = r
      OBVIOUS
    <2>1. rank[s] \in Nat /\ rank[r] \in Nat
      BY <1>1, <1>2
    <2> HIDE DEF rank
    <2>2. Before(s, r) /\ Before(r, s)
      BY <1>3, <2>1
    <2>3. s \in Pair /\ r \in Pair
      OBVIOUS
    <2>4. s[1] = r[1] /\ s[2] = r[2]
      BY <2>2, <2>3, PairType DEF Before
    <2>5. s = <<s[1], s[2]>> /\ r = <<r[1], r[2]>>
      BY <2>3 DEF Pair
    <2> QED BY <2>4, <2>5
  <1> HIDE DEF rank
  <1>5. rank \in Surjection(rs, 1 .. n)
    <2>1. rank \in Injection(rs, 1 .. n)
      BY <1>2, <1>4 DEF Injection, IsInjective
    <2>2. IsFiniteSet(1 .. n) /\ Cardinality(1 .. n) = n
      BY <1>1, FS_Interval
    <2> QED BY <2>1, <2>2, FS_Injection
  <1>6. \A i \in 1 .. n : \E r \in rs : rank[r] = i
    BY <1>5 DEF Surjection
  <1>7. DOMAIN Sorted(rs) = 1 .. n
    BY DEF Sorted
  <1>8. ASSUME NEW i \in 1 .. n PROVE Sorted(rs)[i] \in rs /\ rank[Sorted(rs)[i]] = i
    <2> DEFINE Is(r) == Cardinality({q \in rs : Before(q, r)}) = i
    <2>1. \A r \in rs : rank[r] = i <=> Is(r)
      BY DEF rank, Below
    <2>2. \E r \in rs : Is(r)
      BY <1>6, <2>1
    <2>3. Sorted(rs)[i] = CHOOSE r \in rs : Is(r)
      BY DEF Sorted
    <2> HIDE DEF Is
    <2>4. Sorted(rs)[i] \in rs /\ Is(Sorted(rs)[i])
      BY <2>2, <2>3
    <2> QED BY <2>1, <2>4
  <1>9. Sorted(rs) \in [1 .. n -> Pair]
    <2>1. Sorted(rs) = [i \in 1 .. n |-> Sorted(rs)[i]]
      BY DEF Sorted
    <2> QED BY <1>8, <2>1
  <1>10. Sorted(rs) \in Seq(Pair) /\ Len(Sorted(rs)) = n
    BY <1>1, <1>9
  <1>11. ASSUME NEW r \in rs PROVE \E i \in 1 .. n : r = Sorted(rs)[i]
    <2>1. rank[r] \in 1 .. n
      BY <1>2
    <2> QED BY <1>4, <1>8, <2>1
  <1>12. ASSUME NEW i \in 1 .. n, NEW j \in 1 .. n, i < j
         PROVE  Sorted(rs)[i][1] <= Sorted(rs)[j][1]
    <2>1. Before(Sorted(rs)[i], Sorted(rs)[j])
      BY <1>3, <1>8, <1>12
    <2>2. Sorted(rs)[i] \in Pair /\ Sorted(rs)[j] \in Pair
      BY <1>8
    <2> QED BY <2>1, <2>2, PairType DEF Before
  <1> QED BY <1>8, <1>10, <1>11, <1>12

-----------------------------------------------------------------------------
(* Ranges that are apart                                                    *)

Has(q, x) == \E i \in 1 .. Len(q) : q[i][1] <= x /\ x <= q[i][2]

\* No range is upside down, and behind each there is a gap before the next.
Apart(q) ==
    /\ q \in Seq(Pair)
    /\ \A i \in 1 .. Len(q) : q[i][1] <= q[i][2]
    /\ \A i, j \in 1 .. Len(q) : i < j => q[i][2] + 1 < q[j][1]

LEMMA ElementType ==
    ASSUME NEW q \in Seq(Pair)
    PROVE  /\ Len(q) \in Nat /\ (q # <<>> => Len(q) \in 1 .. Len(q))
           /\ \A i \in 1 .. Len(q) : /\ q[i] \in Pair /\ q[i][1] \in Nat /\ q[i][2] \in Nat
                                     /\ q[i][1] <= UidTop /\ q[i][2] <= UidTop
  <1>1. Len(q) \in Nat /\ (q # <<>> => Len(q) \in 1 .. Len(q))
    OBVIOUS
  <1>2. \A i \in 1 .. Len(q) : q[i] \in Pair
    BY ElementOfSeq
  <1> QED BY <1>1, <1>2, PairType

LEMMA EmptyApart == Apart(<<>>) /\ \A x : ~Has(<<>>, x)
  BY DEF Apart, Has

LEMMA PushApart ==
    ASSUME NEW q, Apart(q), NEW r \in Pair, r[1] <= r[2],
           \A k \in 1 .. Len(q) : q[k][2] + 1 < r[1]
    PROVE  /\ Apart(Append(q, r))
           /\ \A x : Has(Append(q, r), x) <=> Has(q, x) \/ (r[1] <= x /\ x <= r[2])
  <1> DEFINE p == Append(q, r)
  <1>1. q \in Seq(Pair) /\ Len(q) \in Nat
    BY DEF Apart
  <1>2. /\ p \in Seq(Pair) /\ Len(p) = Len(q) + 1 /\ p[Len(q) + 1] = r
        /\ \A k \in 1 .. Len(q) : p[k] = q[k]
    BY <1>1, AppendProperties
  <1> HIDE DEF p
  <1>3. \A i \in 1 .. Len(p) : i \in 1 .. Len(q) \/ i = Len(q) + 1
    BY <1>1, <1>2
  <1>4. Apart(p)
    <2>1. \A i \in 1 .. Len(p) : p[i][1] <= p[i][2]
      BY <1>2, <1>3 DEF Apart
    <2>2. ASSUME NEW i \in 1 .. Len(p), NEW j \in 1 .. Len(p), i < j PROVE p[i][2] + 1 < p[j][1]
      <3>1. i \in 1 .. Len(q)
        BY <1>1, <1>2, <2>2
      <3>2. CASE j \in 1 .. Len(q)
        BY <1>2, <2>2, <3>1, <3>2 DEF Apart
      <3>3. CASE j = Len(q) + 1
        BY <1>2, <3>1, <3>3
      <3> QED BY <1>3, <3>2, <3>3
    <2> QED BY <1>2, <2>1, <2>2 DEF Apart
  <1>5. ASSUME NEW x PROVE Has(p, x) <=> Has(q, x) \/ (r[1] <= x /\ x <= r[2])
    <2>1. Len(q) + 1 \in 1 .. Len(p) /\ \A k \in 1 .. Len(q) : k \in 1 .. Len(p)
      BY <1>1, <1>2
    <2> QED BY <1>2, <1>3, <2>1 DEF Has
  <1> QED BY <1>4, <1>5 DEF p

LEMMA ExtendLast ==
    ASSUME NEW q, Apart(q), q # <<>>, NEW b \in Uid, Last(q)[2] <= b
    PROVE  LET p == ReplaceAt(q, Len(q), <<Last(q)[1], b>>)
           IN  /\ Apart(p) /\ p # <<>> /\ Last(p)[1] = Last(q)[1]
               /\ \A x \in Nat : Has(p, x) <=> Has(q, x) \/ (Last(q)[1] <= x /\ x <= b)
  <1> DEFINE n == Len(q)
             r == <<q[n][1], b>>
             p == ReplaceAt(q, Len(q), <<Last(q)[1], b>>)
  <1>1. q \in Seq(Pair) /\ n \in Nat /\ n \in 1 .. n /\ q[n] \in Pair /\ q[n][1] <= q[n][2]
    BY ElementType DEF Apart
  <1>2. r \in Pair /\ r[1] = q[n][1] /\ r[2] = b /\ b \in Nat
    BY <1>1, RouteSetsAssumption DEF Pair, Uid
  <1>3. Last(q) = q[n]
    BY DEF Last
  <1>4. /\ p \in Seq(Pair) /\ Len(p) = n /\ p[n] = r
        /\ \A k \in 1 .. n : k # n => p[k] = q[k]
    <2>1. p = [q EXCEPT ![n] = r]
      BY <1>3 DEF ReplaceAt
    <2> HIDE DEF p, r
    <2> QED BY <1>1, <1>2, <2>1, ExceptSeq
  <1> HIDE DEF p, r
  <1>5. Apart(p)
    <2>1. \A i \in 1 .. Len(p) : p[i][1] <= p[i][2]
      <3> TAKE i \in 1 .. Len(p)
      <3>1. CASE i = n
        <4>1. q[n][1] \in Nat /\ q[n][2] \in Nat /\ q[n][2] <= b
          BY <1>1, <1>3, PairType
        <4> QED BY <1>1, <1>2, <1>4, <3>1, <4>1
      <3>2. CASE i # n
        BY <1>4, <3>2 DEF Apart
      <3> QED BY <3>1, <3>2
    <2>2. ASSUME NEW i \in 1 .. Len(p), NEW j \in 1 .. Len(p), i < j PROVE p[i][2] + 1 < p[j][1]
      <3>1. i # n /\ p[i] = q[i] /\ p[j][1] = q[j][1]
        BY <1>1, <1>2, <1>4, <2>2
      <3>2. q[i][2] + 1 < q[j][1]
        BY <1>4, <2>2 DEF Apart
      <3> QED BY <3>1, <3>2
    <2> QED BY <1>4, <2>1, <2>2 DEF Apart
  <1>6. ASSUME NEW x \in Nat PROVE Has(p, x) <=> Has(q, x) \/ (q[n][1] <= x /\ x <= b)
    <2>1. q[n][1] <= x /\ x <= q[n][2] => x <= b
      BY <1>1, <1>2, <1>3, PairType
    <2>2. \A i \in 1 .. n : i = n \/ p[i] = q[i]
      BY <1>4
    <2> QED BY <1>1, <1>2, <1>4, <2>1, <2>2 DEF Has
  <1>7. p # <<>> /\ Last(p)[1] = q[n][1]
    BY <1>1, <1>2, <1>4 DEF Last
  <1> QED BY <1>3, <1>5, <1>6, <1>7 DEF p

-----------------------------------------------------------------------------
(* merge_ranges                                                             *)

LEMMA MergeStep ==
    ASSUME NEW m, Apart(m), NEW r \in Pair, r[1] <= r[2], m # <<>> => Last(m)[1] <= r[1]
    PROVE  /\ Apart(MergeRange(m, r)) /\ MergeRange(m, r) # <<>>
           /\ Last(MergeRange(m, r))[1] <= r[1]
           /\ \A x \in Nat : Has(MergeRange(m, r), x) <=> Has(m, x) \/ (r[1] <= x /\ x <= r[2])
  <1>1. m \in Seq(Pair) /\ r[1] \in Nat /\ r[2] \in Nat /\ r[1] <= UidTop /\ r[2] <= UidTop
    BY PairType DEF Apart
  <1>2. m # <<>> => /\ Len(m) \in 1 .. Len(m) /\ Len(m) \in Nat /\ Last(m) = m[Len(m)]
                    /\ Last(m)[1] \in Nat /\ Last(m)[2] \in Nat /\ Last(m)[2] <= UidTop
                    /\ Last(m)[1] <= Last(m)[2]
    BY <1>1, ElementType DEF Last, Apart
  <1>3. CASE m # <<>> /\ r[1] <= SaturatingInc(Last(m)[2])
    <2> DEFINE b == Larger(Last(m)[2], r[2])
               p == ReplaceAt(m, Len(m), <<Last(m)[1], b>>)
    <2>1. MergeRange(m, r) = p
      BY <1>3 DEF MergeRange
    <2>2. b \in Uid /\ Last(m)[2] <= b /\ r[2] <= b /\ (b = r[2] \/ b = Last(m)[2])
      BY <1>1, <1>2, <1>3 DEF Larger, Uid
    <2> HIDE DEF b
    <2>3. /\ Apart(p) /\ p # <<>> /\ Last(p)[1] = Last(m)[1]
          /\ \A x \in Nat : Has(p, x) <=> Has(m, x) \/ (Last(m)[1] <= x /\ x <= b)
      BY <1>3, <2>2, ExtendLast
    <2> HIDE DEF p
    <2>4. \A x \in Nat : Last(m)[1] <= x /\ x <= Last(m)[2] => Has(m, x)
      BY <1>2, <1>3 DEF Has
    <2>5. ASSUME NEW x \in Nat
          PROVE  /\ Last(m)[1] <= x /\ x <= b =>
                      (Last(m)[1] <= x /\ x <= Last(m)[2]) \/ (r[1] <= x /\ x <= r[2])
                 /\ r[1] <= x /\ x <= r[2] => Last(m)[1] <= x /\ x <= b
      <3>1. r[1] <= Last(m)[2] + 1
        BY <1>1, <1>2, <1>3, RouteSetsAssumption DEF SaturatingInc
      <3>2. b \in Nat
        BY <2>2, UidType
      <3> QED BY <1>1, <1>2, <1>3, <2>2, <3>1, <3>2
    <2> QED BY <1>3, <2>1, <2>3, <2>4, <2>5
  <1>4. CASE ~(m # <<>> /\ r[1] <= SaturatingInc(Last(m)[2]))
    <2>1. MergeRange(m, r) = Append(m, r)
      BY <1>4 DEF MergeRange
    <2>2. ASSUME NEW k \in 1 .. Len(m) PROVE m[k][2] + 1 < r[1]
      <3>1. m # <<>>
        OBVIOUS
      <3>2. Last(m)[2] + 1 < r[1]
        BY <1>1, <1>2, <1>4, <3>1, RouteSetsAssumption DEF SaturatingInc
      <3>3. CASE k = Len(m)
        BY <1>2, <3>1, <3>2, <3>3
      <3>4. CASE k < Len(m)
        <4>1. m[k][2] + 1 < Last(m)[1]
          BY <1>2, <3>1, <3>4 DEF Apart
        <4>2. m[k][2] \in Nat
          BY <1>1, ElementType
        <4> QED BY <1>1, <1>2, <3>1, <3>2, <4>1, <4>2
      <3> QED BY <1>1, <3>3, <3>4
    <2>3. Last(Append(m, r)) = r /\ Append(m, r) # <<>>
      BY <1>1, AppendProperties DEF Last
    <2> QED BY <1>1, <2>1, <2>2, <2>3, PushApart
  <1> QED BY <1>3, <1>4

\* Sorted ranges merge into ranges that are apart and hold what they held.
LEMMA Merged ==
    ASSUME NEW rs \in SUBSET Pair, \A r \in rs : r[1] <= r[2]
    PROVE  /\ Apart(MergeRanges(rs))
           /\ \A x \in Nat : Has(MergeRanges(rs), x) <=> \E r \in rs : r[1] <= x /\ x <= r[2]
           /\ MergeRanges(rs) = <<>> <=> rs = {}
  <1> DEFINE q == Sorted(rs)
             n == Len(q)
  <1>1. /\ q \in Seq(Pair) /\ \A r : r \in rs <=> \E i \in 1 .. n : r = q[i]
        /\ \A i, j \in 1 .. n : i < j => q[i][1] <= q[j][1]
    BY SortedRanges
  <1>2. n \in Nat
    BY <1>1, ElementType
  <1>3. PICK st : /\ st[0] = <<>> /\ MergeRanges(rs) = st[n]
                  /\ \A i \in 1 .. n : st[i] = MergeRange(st[i - 1], q[i])
    BY <1>2, MergeLoop
  <1> HIDE DEF q
  <1> DEFINE Good(i) ==
        /\ Apart(st[i]) /\ (i > 0 => st[i] # <<>> /\ Last(st[i])[1] <= q[i][1])
        /\ \A x \in Nat : Has(st[i], x) <=> \E j \in 1 .. i : q[j][1] <= x /\ x <= q[j][2]
      T == {i \in 0 .. n : Good(i)}
  <1>4. Good(0)
    BY <1>3, EmptyApart
  <1>5. ASSUME NEW i \in 0 .. n, Good(i), i < n PROVE Good(i + 1)
    <2>1. i + 1 \in 1 .. n /\ (i + 1) - 1 = i
      BY <1>2, <1>5
    <2>2. st[i + 1] = MergeRange(st[i], q[i + 1])
      BY <1>3, <2>1
    <2>3. q[i + 1] \in Pair /\ q[i + 1][1] <= q[i + 1][2]
      BY <1>1, <2>1, ElementType
    <2>4. st[i] # <<>> => Last(st[i])[1] <= q[i + 1][1]
      <3>1. SUFFICES ASSUME st[i] # <<>> PROVE Last(st[i])[1] <= q[i + 1][1]
        OBVIOUS
      <3>2. i \in 1 .. n
        BY <1>3, <1>5, <3>1
      <3>3. Last(st[i])[1] <= q[i][1] /\ q[i][1] <= q[i + 1][1]
        BY <1>1, <1>5, <2>1, <3>2
      <3>4. Last(st[i])[1] \in Nat
        BY <1>5, <3>1, ElementType DEF Last, Apart
      <3>5. q[i][1] \in Nat /\ q[i + 1][1] \in Nat
        BY <1>1, <2>1, <3>2, ElementType
      <3> QED BY <3>3, <3>4, <3>5
    <2>5. \A j : j \in 1 .. i + 1 <=> j \in 1 .. i \/ j = i + 1
      BY <2>1
    <2>6. /\ Apart(st[i + 1]) /\ st[i + 1] # <<>> /\ Last(st[i + 1])[1] <= q[i + 1][1]
          /\ \A x \in Nat :
                Has(st[i + 1], x) <=> Has(st[i], x) \/ (q[i + 1][1] <= x /\ x <= q[i + 1][2])
      BY <1>5, <2>2, <2>3, <2>4, MergeStep
    <2> QED BY <1>5, <2>5, <2>6
  <1> HIDE DEF Good
  <1>6. \A i \in 0 .. n : i \in T
    <2>1. 0 \in T /\ \A i \in 0 .. n : i \in T /\ i < n => i + 1 \in T
      BY <1>2, <1>4, <1>5
    <2> HIDE DEF T
    <2> QED BY <1>2, <2>1, UpTo
  <1>7. Good(n)
    BY <1>2, <1>6
  <1>8. MergeRanges(rs) = <<>> <=> rs = {}
    <2>1. n = 0 => MergeRanges(rs) = <<>> /\ rs = {}
      BY <1>1, <1>3
    <2>2. n > 0 => MergeRanges(rs) # <<>>
      BY <1>3, <1>7 DEF Good
    <2>3. n > 0 => 1 \in 1 .. n /\ q[1] \in rs
      BY <1>1, <1>2
    <2> QED BY <1>2, <2>1, <2>2, <2>3
  <1> QED BY <1>1, <1>3, <1>7, <1>8 DEF Good

-----------------------------------------------------------------------------
(* subtract_ranges and complement_ranges                                    *)

LEMMA PushRange ==
    ASSUME NEW q, Apart(q), NEW c \in BOOLEAN, NEW r,
           c => r \in Pair /\ r[1] <= r[2] /\ \A x \in Nat : Has(q, x) => x + 1 < r[1]
    PROVE  /\ Apart(PushIf(c, q, r))
           /\ \A x \in Nat : Has(PushIf(c, q, r), x) <=> Has(q, x) \/ (c /\ r[1] <= x /\ x <= r[2])
  <1>1. CASE c
    <2>1. ASSUME NEW k \in 1 .. Len(q) PROVE q[k][2] + 1 < r[1]
      <3>1. q[k][2] \in Nat /\ q[k][1] <= q[k][2]
        BY ElementType DEF Apart
      <3>2. Has(q, q[k][2])
        BY <3>1 DEF Has
      <3> QED BY <1>1, <3>1, <3>2
    <2>2. PushIf(c, q, r) = Append(q, r)
      BY <1>1 DEF PushIf
    <2> QED BY <1>1, <2>1, <2>2, PushApart
  <1>2. CASE ~c
    BY <1>2 DEF PushIf
  <1> QED BY <1>1, <1>2

LEMMA WithoutStep ==
    ASSUME NEW next, Apart(next), NEW r \in Pair, r[1] <= r[2], NEW s \in Pair, s[1] <= s[2],
           \A x \in Nat : Has(next, x) => x + 1 < r[1]
    PROVE  /\ Apart(Without(next, r, s))
           /\ \A x \in Nat : Has(Without(next, r, s), x) <=>
                Has(next, x) \/ (r[1] <= x /\ x <= r[2] /\ ~(s[1] <= x /\ x <= s[2]))
  <1>1. /\ r[1] \in Nat /\ r[2] \in Nat /\ s[1] \in Nat /\ s[2] \in Nat
        /\ r[2] <= UidTop /\ s[2] <= UidTop /\ UidTop \in Nat
    BY PairType, UidType
  <1>2. CASE s[2] < r[1] \/ s[1] > r[2]
    <2>1. Without(next, r, s) = PushIf(TRUE, next, r)
      BY <1>2 DEF Without, PushIf
    <2>2. \A x \in Nat : r[1] <= x /\ x <= r[2] => ~(s[1] <= x /\ x <= s[2])
      BY <1>1, <1>2
    <2> QED BY <2>1, <2>2, PushRange
  <1>3. CASE ~(s[2] < r[1] \/ s[1] > r[2])
    <2> DEFINE c == r[1] < s[1]
               d == r[2] > s[2]
               front == <<r[1], s[1] - 1>>
               back == <<s[2] + 1, r[2]>>
               p == PushIf(c, next, front)
    <2>1. Without(next, r, s) = PushIf(d, p, back)
      BY <1>3 DEF Without
    <2>2. c => /\ front \in Pair /\ front[1] <= front[2]
               /\ \A x \in Nat : Has(next, x) => x + 1 < front[1]
      BY <1>1, <1>3 DEF Pair, Uid
    <2>3. front[1] = r[1] /\ front[2] = s[1] - 1 /\ back[1] = s[2] + 1 /\ back[2] = r[2]
      OBVIOUS
    <2>4. d => back \in Pair /\ back[1] <= back[2]
      BY <1>1, <1>3 DEF Pair, Uid
    <2> HIDE DEF front, back
    <2>5. /\ Apart(p)
          /\ \A x \in Nat : Has(p, x) <=> Has(next, x) \/ (c /\ front[1] <= x /\ x <= front[2])
      <3>1. c \in BOOLEAN
        OBVIOUS
      <3> HIDE DEF c
      <3> QED BY <2>2, <3>1, PushRange
    <2> HIDE DEF p
    <2>6. d => \A x \in Nat : Has(p, x) => x + 1 < back[1]
      BY <1>1, <1>3, <2>3, <2>5
    <2>7. /\ Apart(PushIf(d, p, back))
          /\ \A x \in Nat :
                Has(PushIf(d, p, back), x) <=> Has(p, x) \/ (d /\ back[1] <= x /\ x <= back[2])
      <3>1. d \in BOOLEAN
        OBVIOUS
      <3> HIDE DEF d
      <3> QED BY <2>4, <2>5, <2>6, <3>1, PushRange
    <2>8. ASSUME NEW x \in Nat
          PROVE  (c /\ front[1] <= x /\ x <= front[2]) \/ (d /\ back[1] <= x /\ x <= back[2])
                   <=> r[1] <= x /\ x <= r[2] /\ ~(s[1] <= x /\ x <= s[2])
      BY <1>1, <1>3, <2>3
    <2> HIDE DEF c, d
    <2> QED BY <2>1, <2>5, <2>7, <2>8
  <1> QED BY <1>2, <1>3

\* One range is taken out of ranges that are apart, and they stay apart.
LEMMA SubtractedOne ==
    ASSUME NEW rs, Apart(rs), NEW s \in Pair, s[1] <= s[2]
    PROVE  /\ Apart(SubtractRange(rs, s))
           /\ \A x \in Nat : Has(SubtractRange(rs, s), x) <=>
                Has(rs, x) /\ ~(s[1] <= x /\ x <= s[2])
  <1> DEFINE n == Len(rs)
  <1>1. rs \in Seq(Pair) /\ n \in Nat
    BY ElementType DEF Apart
  <1>2. PICK st : /\ st[0] = <<>> /\ SubtractRange(rs, s) = st[n]
                  /\ \A i \in 1 .. n : st[i] = Without(st[i - 1], rs[i], s)
    BY <1>1, SubtractRangeLoop
  <1> DEFINE Good(i) ==
        /\ Apart(st[i])
        /\ \A x \in Nat : Has(st[i], x) <=>
             (\E j \in 1 .. i : rs[j][1] <= x /\ x <= rs[j][2]) /\ ~(s[1] <= x /\ x <= s[2])
      T == {i \in 0 .. n : Good(i)}
  <1>3. Good(0)
    BY <1>2, EmptyApart
  <1>4. ASSUME NEW i \in 0 .. n, Good(i), i < n PROVE Good(i + 1)
    <2> DEFINE r == rs[i + 1]
    <2>1. i + 1 \in 1 .. n /\ (i + 1) - 1 = i
      BY <1>1, <1>4
    <2>2. st[i + 1] = Without(st[i], r, s)
      BY <1>2, <2>1
    <2>3. r \in Pair /\ r[1] <= r[2] /\ r[1] \in Nat
      BY <1>1, <2>1, ElementType DEF Apart
    <2>4. \A j : j \in 1 .. i + 1 <=> j \in 1 .. i \/ j = i + 1
      BY <2>1
    <2>5. ASSUME NEW x \in Nat, Has(st[i], x) PROVE x + 1 < r[1]
      <3>1. PICK j \in 1 .. i : rs[j][1] <= x /\ x <= rs[j][2]
        BY <1>4, <2>5
      <3>2. j \in 1 .. n /\ j < i + 1
        BY <1>1, <1>4
      <3>3. rs[j][2] + 1 < r[1] /\ rs[j][2] \in Nat
        BY <1>1, <2>1, <3>2, ElementType DEF Apart
      <3> QED BY <2>3, <3>1, <3>3
    <2> HIDE DEF r
    <2>6. /\ Apart(st[i + 1])
          /\ \A x \in Nat : Has(st[i + 1], x) <=>
                Has(st[i], x) \/ (r[1] <= x /\ x <= r[2] /\ ~(s[1] <= x /\ x <= s[2]))
      BY <1>4, <2>2, <2>3, <2>5, WithoutStep
    <2> QED BY <1>4, <2>4, <2>6 DEF r
  <1> HIDE DEF Good
  <1>5. \A i \in 0 .. n : i \in T
    <2>1. 0 \in T /\ \A i \in 0 .. n : i \in T /\ i < n => i + 1 \in T
      BY <1>1, <1>3, <1>4
    <2> HIDE DEF T
    <2> QED BY <1>1, <2>1, UpTo
  <1>6. Good(n)
    BY <1>1, <1>5
  <1> QED BY <1>2, <1>6 DEF Good, Has

LEMMA Subtracted ==
    ASSUME NEW base, Apart(base), NEW sub, Apart(sub)
    PROVE  /\ Apart(SubtractRanges(base, sub))
           /\ \A x \in Nat : Has(SubtractRanges(base, sub), x) <=> Has(base, x) /\ ~Has(sub, x)
  <1> DEFINE n == Len(sub)
  <1>1. sub \in Seq(Pair) /\ n \in Nat
    BY ElementType DEF Apart
  <1>2. PICK st : /\ st[0] = base /\ SubtractRanges(base, sub) = st[n]
                  /\ \A i \in 1 .. n : st[i] = SubtractRange(st[i - 1], sub[i])
    BY <1>1, SubtractLoop
  <1> DEFINE Good(i) ==
        /\ Apart(st[i])
        /\ \A x \in Nat : Has(st[i], x) <=>
             Has(base, x) /\ ~(\E j \in 1 .. i : sub[j][1] <= x /\ x <= sub[j][2])
      T == {i \in 0 .. n : Good(i)}
  <1>3. Good(0)
    BY <1>2
  <1>4. ASSUME NEW i \in 0 .. n, Good(i), i < n PROVE Good(i + 1)
    <2> DEFINE s == sub[i + 1]
    <2>1. i + 1 \in 1 .. n /\ (i + 1) - 1 = i
      BY <1>1, <1>4
    <2>2. st[i + 1] = SubtractRange(st[i], s)
      BY <1>2, <2>1
    <2>3. s \in Pair /\ s[1] <= s[2]
      BY <1>1, <2>1, ElementType DEF Apart
    <2>4. \A j : j \in 1 .. i + 1 <=> j \in 1 .. i \/ j = i + 1
      BY <2>1
    <2> HIDE DEF s
    <2>5. /\ Apart(st[i + 1])
          /\ \A x \in Nat : Has(st[i + 1], x) <=> Has(st[i], x) /\ ~(s[1] <= x /\ x <= s[2])
      BY <1>4, <2>2, <2>3, SubtractedOne
    <2> QED BY <1>4, <2>4, <2>5 DEF s
  <1> HIDE DEF Good
  <1>5. \A i \in 0 .. n : i \in T
    <2>1. 0 \in T /\ \A i \in 0 .. n : i \in T /\ i < n => i + 1 \in T
      BY <1>1, <1>3, <1>4
    <2> HIDE DEF T
    <2> QED BY <1>1, <2>1, UpTo
  <1>6. Good(n)
    BY <1>1, <1>5
  <1> QED BY <1>2, <1>6 DEF Good, Has

\* Every UID but the last is in one of the ranges or in a gap, and in one only.
LEMMA Complemented ==
    ASSUME NEW rs, Apart(rs)
    PROVE  /\ Apart(ComplementRanges(rs, 0, UidTop - 1))
           /\ \A x \in Nat : Has(ComplementRanges(rs, 0, UidTop - 1), x) <=>
                x < UidTop /\ ~Has(rs, x)
  <1> DEFINE n == Len(rs)
             Edge(i) == IF i = 0 THEN 0 ELSE rs[i][2] + 1
             Passed(i, x) == \E j \in 1 .. i : rs[j][1] <= x /\ x <= rs[j][2]
  <1>1. rs \in Seq(Pair) /\ n \in Nat /\ UidTop \in Nat \ {0}
    BY ElementType, UidType DEF Apart
  <1>2. PICK st : /\ st[0] = GapStart /\ Gaps(rs) = st[n]
                  /\ \A i \in 1 .. n : st[i] = GapBefore(st[i - 1], rs[i])
    BY <1>1, GapLoop
  <1> DEFINE Good(i) ==
        /\ Apart(st[i].out)
        /\ st[i].cur = (IF Edge(i) > UidTop THEN UidTop ELSE Edge(i))
        /\ \A x \in Nat : Has(st[i].out, x) <=> x < Edge(i) /\ ~Passed(i, x)
        /\ \A x \in Nat : Has(st[i].out, x) => x + 1 < Edge(i)
      T == {i \in 0 .. n : Good(i)}
  <1>3. Good(0)
    BY <1>1, <1>2, EmptyApart DEF GapStart
  <1>4. \A i \in 0 .. n : Edge(i) \in 0 .. UidTop + 1
    BY <1>1, ElementType
  <1>5. ASSUME NEW i \in 0 .. n, Good(i), i < n PROVE Good(i + 1)
    <2> DEFINE r == rs[i + 1]
               c == st[i].cur < r[1]
               gap == <<st[i].cur, r[1] - 1>>
               p == PushIf(c, st[i].out, gap)
    <2>1. i + 1 \in 1 .. n /\ (i + 1) - 1 = i /\ i + 1 # 0
      BY <1>1, <1>5
    <2>2. st[i + 1] = [out |-> p, cur |-> SaturatingInc(r[2])]
      BY <1>2, <2>1 DEF GapBefore
    <2>3. r[1] \in Nat /\ r[2] \in Nat /\ r[1] <= r[2] /\ r[2] <= UidTop
      BY <1>1, <2>1, ElementType DEF Apart
    <2>4. Edge(i + 1) = r[2] + 1
      BY <2>1
    <2>5. \A x : Passed(i + 1, x) <=> Passed(i, x) \/ (r[1] <= x /\ x <= r[2])
      <3>1. \A j : j \in 1 .. i + 1 <=> j \in 1 .. i \/ j = i + 1
        BY <2>1
      <3> QED BY <3>1
    <2>6. Edge(i) \in Nat /\ Edge(i) <= r[1]
      <3>1. CASE i = 0
        BY <2>3, <3>1
      <3>2. CASE i # 0
        <4>1. i \in 1 .. n /\ i < i + 1
          BY <1>1, <1>5, <3>2
        <4>2. rs[i][2] + 1 < r[1] /\ rs[i][2] \in Nat
          BY <1>1, <2>1, <4>1, ElementType DEF Apart
        <4> QED BY <2>3, <3>2, <4>2
      <3> QED BY <3>1, <3>2
    <2>7. \A x \in Nat : Passed(i, x) => x < Edge(i)
      <3> SUFFICES ASSUME NEW x \in Nat, NEW j \in 1 .. i, rs[j][1] <= x, x <= rs[j][2]
                   PROVE  x < Edge(i)
        OBVIOUS
      <3>1. i # 0 /\ i \in 1 .. n /\ j \in 1 .. n
        BY <1>1, <1>5
      <3>2. rs[j][2] <= rs[i][2] /\ rs[i][2] \in Nat /\ rs[j][2] \in Nat
        <4>1. \A k \in 1 .. n : rs[k][1] \in Nat /\ rs[k][2] \in Nat /\ rs[k][1] <= rs[k][2]
          BY <1>1, ElementType DEF Apart
        <4>2. j = i \/ rs[j][2] + 1 < rs[i][1]
          BY <3>1 DEF Apart
        <4> QED BY <3>1, <4>1, <4>2
      <3> QED BY <3>1, <3>2
    <2> HIDE DEF r, Edge, Passed
    <2>8. st[i].cur = Edge(i)
      BY <1>1, <1>5, <2>3, <2>6
    <2>9. gap[1] = Edge(i) /\ gap[2] = r[1] - 1
      BY <2>8
    <2>10. c => gap \in Pair /\ gap[1] <= gap[2]
      BY <1>1, <2>3, <2>6, <2>8 DEF Pair, Uid
    <2> HIDE DEF gap
    <2>11. /\ Apart(p)
           /\ \A x \in Nat : Has(p, x) <=> Has(st[i].out, x) \/ (c /\ gap[1] <= x /\ x <= gap[2])
      <3> DEFINE out == st[i].out
      <3>1. Apart(out) /\ c \in BOOLEAN /\ \A x \in Nat : Has(out, x) => x + 1 < gap[1]
        BY <1>5, <2>9
      <3> HIDE DEF out, c
      <3>2. /\ Apart(PushIf(c, out, gap))
            /\ \A x \in Nat : Has(PushIf(c, out, gap), x) <=>
                  Has(out, x) \/ (c /\ gap[1] <= x /\ x <= gap[2])
        BY <2>10, <3>1, PushRange
      <3> QED BY <3>2 DEF out
    <2> HIDE DEF p
    <2>12. ASSUME NEW x \in Nat PROVE Has(p, x) <=> x < Edge(i + 1) /\ ~Passed(i + 1, x)
      <3>1. Has(p, x) <=> (x < Edge(i) /\ ~Passed(i, x)) \/ (Edge(i) <= x /\ x < r[1])
        BY <1>5, <2>3, <2>6, <2>8, <2>9, <2>11
      <3>2. Passed(i, x) => x < Edge(i)
        BY <2>7
      <3> QED BY <2>3, <2>4, <2>5, <2>6, <3>1, <3>2
    <2>13. ASSUME NEW x \in Nat, Has(p, x) PROVE x + 1 < Edge(i + 1)
      <3>1. x < r[1] /\ x < r[2] + 1
        BY <2>3, <2>4, <2>5, <2>12, <2>13
      <3> QED BY <2>3, <2>4, <3>1
    <2>14. SaturatingInc(r[2]) = IF Edge(i + 1) > UidTop THEN UidTop ELSE Edge(i + 1)
      BY <1>1, <2>3, <2>4 DEF SaturatingInc
    <2> QED BY <2>2, <2>11, <2>12, <2>13, <2>14
  <1>6. Good(n)
    <2> HIDE DEF Good
    <2>1. 0 \in T /\ \A i \in 0 .. n : i \in T /\ i < n => i + 1 \in T
      BY <1>1, <1>3, <1>5
    <2> HIDE DEF T
    <2>2. \A i \in 0 .. n : i \in T
      BY <1>1, <2>1, UpTo
    <2> QED BY <1>1, <2>2 DEF T
  <1> DEFINE out == st[n].out
             cur == st[n].cur
             last == <<cur, UidTop - 1>>
             c == cur <= UidTop - 1
  <1>7. ComplementRanges(rs, 0, UidTop - 1) = PushIf(c, out, last)
    BY <1>2 DEF ComplementRanges, Gaps, GapStart
  <1>8. \A x \in Nat : Has(rs, x) <=> Passed(n, x)
    BY DEF Has
  <1>9. Edge(n) \in 0 .. UidTop + 1 /\ \A x \in Nat : Passed(n, x) => x < Edge(n)
    <2>1. Edge(n) \in 0 .. UidTop + 1
      BY <1>1, <1>4
    <2>2. ASSUME NEW x \in Nat, NEW j \in 1 .. n, rs[j][1] <= x, x <= rs[j][2]
          PROVE  x < Edge(n)
      <3>1. \A k \in 1 .. n : rs[k][1] \in Nat /\ rs[k][2] \in Nat /\ rs[k][1] <= rs[k][2]
        BY <1>1, ElementType DEF Apart
      <3>2. n \in 1 .. n /\ n # 0 /\ (j = n \/ rs[j][2] + 1 < rs[n][1])
        BY <1>1 DEF Apart
      <3> QED BY <2>2, <3>1, <3>2
    <2> QED BY <2>1, <2>2
  <1>10. \A x \in Nat : Has(rs, x) => x <= UidTop
    BY <1>1, <1>8, <1>9
  <1> HIDE DEF Edge, Passed
  <1>11. /\ Apart(out) /\ cur = (IF Edge(n) > UidTop THEN UidTop ELSE Edge(n))
         /\ \A x \in Nat : Has(out, x) <=> x < Edge(n) /\ ~Passed(n, x)
         /\ \A x \in Nat : Has(out, x) => x + 1 < Edge(n)
    BY <1>6
  <1> HIDE DEF out, cur
  <1>12. c <=> Edge(n) < UidTop
    BY <1>1, <1>9, <1>11
  <1>13. c => last \in Pair /\ last[1] <= last[2] /\ \A x \in Nat : Has(out, x) => x + 1 < last[1]
    BY <1>1, <1>9, <1>11 DEF Pair, Uid
  <1>14. c \in BOOLEAN /\ last[1] = cur /\ last[2] = UidTop - 1
    OBVIOUS
  <1> HIDE DEF c, last
  <1>15. /\ Apart(PushIf(c, out, last))
         /\ \A x \in Nat : Has(PushIf(c, out, last), x) <=>
                Has(out, x) \/ (c /\ last[1] <= x /\ x <= last[2])
    BY <1>11, <1>13, <1>14, PushRange
  <1>16. ASSUME NEW x \in Nat
         PROVE  Has(out, x) \/ (c /\ last[1] <= x /\ x <= last[2]) <=> x < UidTop /\ ~Has(rs, x)
    <2>1. CASE Edge(n) < UidTop
      BY <1>1, <1>8, <1>9, <1>11, <1>12, <1>14, <2>1
    <2>2. CASE Edge(n) >= UidTop
      <3>1. ~c
        BY <1>1, <1>9, <1>12, <2>2
      <3>2. x < Edge(n) /\ ~Passed(n, x) => x < UidTop
        <4>1. CASE Edge(n) = UidTop + 1
          <5>1. n # 0 /\ Edge(n) = rs[n][2] + 1
            BY <1>1, <4>1 DEF Edge
          <5>2. rs[n][2] = UidTop /\ rs[n][1] <= UidTop /\ n \in 1 .. n
            BY <1>1, <4>1, <5>1, ElementType DEF Apart
          <5>3. Passed(n, UidTop)
            BY <1>1, <5>2 DEF Passed
          <5> QED BY <1>1, <4>1, <5>3
        <4>2. CASE Edge(n) = UidTop
          BY <4>2
        <4> QED BY <1>1, <1>9, <2>2, <4>1, <4>2
      <3>3. x < UidTop => x < Edge(n)
        BY <1>1, <1>9, <2>2
      <3> QED BY <1>8, <1>11, <3>1, <3>2, <3>3
    <2> QED BY <1>1, <1>9, <2>1, <2>2
  <1> QED BY <1>7, <1>15, <1>16

-----------------------------------------------------------------------------
(* The UIDs kept out of the TUN                                             *)

LEMMA Elements ==
    ASSUME NEW q, Apart(q)
    PROVE  /\ ToSet(q) \in SUBSET Pair /\ \A r \in ToSet(q) : r[1] <= r[2]
           /\ \A x : Has(q, x) <=> \E r \in ToSet(q) : r[1] <= x /\ x <= r[2]
           /\ ToSet(q) = {} <=> q = <<>>
  <1>1. q \in Seq(Pair) /\ ToSet(q) = {q[i] : i \in 1 .. Len(q)}
    BY LenProperties DEF Apart, ToSet
  <1>2. q = <<>> <=> Len(q) = 0
    BY <1>1, EmptySeq
  <1>3. q # <<>> => q[1] \in ToSet(q)
    BY <1>1, ElementType
  <1>4. q = <<>> => ToSet(q) = {}
    BY <1>1, <1>2
  <1>5. ToSet(q) \in SUBSET Pair /\ \A r \in ToSet(q) : r[1] <= r[2]
    BY <1>1, ElementType DEF Apart
  <1>6. \A x : Has(q, x) <=> \E r \in ToSet(q) : r[1] <= x /\ x <= r[2]
    BY <1>1 DEF Has
  <1> QED BY <1>3, <1>4, <1>5, <1>6

LEMMA UidsOf ==
    ASSUME NEW rs \in SUBSET Pair
    PROVE  /\ Uids(rs) = {x \in Nat : \E r \in rs : r[1] <= x /\ x <= r[2]}
           /\ Uids(Valid(rs)) = Uids(rs)
  <1>1. \A r \in rs : r[1] .. r[2] = {x \in Nat : r[1] <= x /\ x <= r[2]}
    BY PairType
  <1>2. Uids(rs) = {x \in Nat : \E r \in rs : r[1] <= x /\ x <= r[2]}
    BY <1>1 DEF Uids
  <1>3. \A r \in rs : \A x \in Nat : r[1] <= x /\ x <= r[2] => r[1] <= r[2]
    BY PairType
  <1>4. Uids(Valid(rs)) = {x \in Nat : \E r \in rs : r[1] <= x /\ x <= r[2]}
    BY <1>1, <1>3 DEF Uids, Valid
  <1> QED BY <1>2, <1>4

LEMMA ExcludedExactly ==
    ASSUME NEW inc \in SUBSET Pair, NEW exc \in SUBSET Pair
    PROVE  /\ Apart(ExcludedUidRanges(inc, exc))
           /\ \A x \in Nat : Has(ExcludedUidRanges(inc, exc), x) <=>
                IF Valid(inc) = {} THEN x \in Uids(exc)
                ELSE x < UidTop /\ ~(x \in Uids(inc) /\ x \notin Uids(exc))
  <1> DEFINE i == MergeRanges(Valid(inc))
             e == MergeRanges(Valid(exc))
             left == SubtractRanges(i, e)
             gaps == ComplementRanges(left, 0, UidTop - 1)
  <1>1. ASSUME NEW rs \in SUBSET Pair
        PROVE  /\ Apart(MergeRanges(Valid(rs)))
               /\ MergeRanges(Valid(rs)) = <<>> <=> Valid(rs) = {}
    <2>1. Valid(rs) \in SUBSET Pair /\ \A r \in Valid(rs) : r[1] <= r[2]
      BY DEF Valid
    <2> QED BY <2>1, Merged
  <1>2. ASSUME NEW rs \in SUBSET Pair, NEW x \in Nat
        PROVE  Has(MergeRanges(Valid(rs)), x) <=> x \in Uids(rs)
    <2>1. Valid(rs) \in SUBSET Pair /\ \A r \in Valid(rs) : r[1] <= r[2]
      BY DEF Valid
    <2>2. Has(MergeRanges(Valid(rs)), x) <=> \E r \in Valid(rs) : r[1] <= x /\ x <= r[2]
      BY <2>1, Merged
    <2>3. x \in Uids(Valid(rs)) <=> \E r \in Valid(rs) : r[1] <= x /\ x <= r[2]
      BY <2>1, UidsOf
    <2>4. Uids(Valid(rs)) = Uids(rs)
      BY UidsOf
    <2> QED BY <2>2, <2>3, <2>4
  <1>3. ASSUME NEW q, Apart(q)
        PROVE  /\ Apart(MergeRanges(ToSet(q)))
               /\ \A x \in Nat : Has(MergeRanges(ToSet(q)), x) <=> Has(q, x)
    <2>1. ToSet(q) \in SUBSET Pair /\ \A r \in ToSet(q) : r[1] <= r[2]
      BY <1>3, Elements
    <2>2. \A x : Has(q, x) <=> \E r \in ToSet(q) : r[1] <= x /\ x <= r[2]
      BY <1>3, Elements
    <2> QED BY <2>1, <2>2, Merged
  <1>4. /\ Apart(i) /\ Apart(e) /\ (i = <<>> <=> Valid(inc) = {})
        /\ \A x \in Nat : /\ Has(i, x) <=> x \in Uids(inc)
                          /\ Has(e, x) <=> x \in Uids(exc)
    BY <1>1, <1>2
  <1> HIDE DEF i, e
  <1>5. Apart(left) /\ \A x \in Nat : Has(left, x) <=> Has(i, x) /\ ~Has(e, x)
    BY <1>4, Subtracted
  <1> HIDE DEF left
  <1>6. Apart(gaps) /\ \A x \in Nat : Has(gaps, x) <=> x < UidTop /\ ~Has(left, x)
    BY <1>5, Complemented
  <1> HIDE DEF gaps
  <1>7. ExcludedUidRanges(inc, exc) =
          IF i # <<>> THEN MergeRanges(ToSet(gaps)) ELSE MergeRanges(ToSet(e))
    BY DEF ExcludedUidRanges, i, e, left, gaps
  <1>8. CASE i = <<>>
    <2>1. ExcludedUidRanges(inc, exc) = MergeRanges(ToSet(e)) /\ Valid(inc) = {}
      BY <1>4, <1>7, <1>8
    <2>2. /\ Apart(MergeRanges(ToSet(e)))
          /\ \A x \in Nat : Has(MergeRanges(ToSet(e)), x) <=> Has(e, x)
      BY <1>3, <1>4
    <2> QED BY <1>4, <2>1, <2>2
  <1>9. CASE i # <<>>
    <2>1. ExcludedUidRanges(inc, exc) = MergeRanges(ToSet(gaps)) /\ Valid(inc) # {}
      BY <1>4, <1>7, <1>9
    <2>2. /\ Apart(MergeRanges(ToSet(gaps)))
          /\ \A x \in Nat : Has(MergeRanges(ToSet(gaps)), x) <=> Has(gaps, x)
      BY <1>3, <1>6
    <2> QED BY <1>4, <1>5, <1>6, <2>1, <2>2
  <1> QED BY <1>8, <1>9

\* What UidRangesExact says of a result.
LEMMA ExactRanges ==
    ASSUME NEW inc \in SUBSET Pair, NEW exc \in SUBSET Pair, NEW q,
           q = ExcludedUidRanges(inc, exc)
    PROVE  /\ Uids(ToSet(q)) = IF Valid(inc) = {} THEN Uids(exc)
                               ELSE (0 .. UidTop - 1) \ (Uids(inc) \ Uids(exc))
           /\ \A k \in 1 .. Len(q) - 1 : q[k][2] + 1 < q[k + 1][1]
  <1>1. Apart(q)
    BY ExcludedExactly
  <1>2. \A x \in Nat : Has(q, x) <=>
           IF Valid(inc) = {} THEN x \in Uids(exc)
           ELSE x < UidTop /\ ~(x \in Uids(inc) /\ x \notin Uids(exc))
    BY ExcludedExactly
  <1>3. ToSet(q) \in SUBSET Pair
    BY <1>1, Elements
  <1>4. \A x : x \in Uids(ToSet(q)) <=> x \in Nat /\ Has(q, x)
    <2>1. Uids(ToSet(q)) = {x \in Nat : \E r \in ToSet(q) : r[1] <= x /\ x <= r[2]}
      BY <1>3, UidsOf
    <2>2. \A x : Has(q, x) <=> \E r \in ToSet(q) : r[1] <= x /\ x <= r[2]
      BY <1>1, Elements
    <2> HIDE DEF Has
    <2> QED BY <2>1, <2>2
  <1>5. Uids(exc) \in SUBSET Nat
    BY UidsOf
  <1>6. \A x : x \in 0 .. UidTop - 1 <=> x \in Nat /\ x < UidTop
    BY UidType
  <1>7. \A k \in 1 .. Len(q) - 1 : q[k][2] + 1 < q[k + 1][1]
    <2>1. Len(q) \in Nat
      BY <1>1, ElementType DEF Apart
    <2>2. \A k \in 1 .. Len(q) - 1 : k \in 1 .. Len(q) /\ k + 1 \in 1 .. Len(q) /\ k < k + 1
      BY <2>1
    <2> QED BY <1>1, <2>2 DEF Apart
  <1>8. CASE Valid(inc) = {}
    <2>1. \A x : x \in Uids(ToSet(q)) <=> x \in Uids(exc)
      BY <1>2, <1>4, <1>5, <1>8
    <2> QED BY <1>7, <1>8, <2>1
  <1>9. CASE Valid(inc) # {}
    <2>1. \A x : x \in Uids(ToSet(q)) <=> x \in (0 .. UidTop - 1) \ (Uids(inc) \ Uids(exc))
      BY <1>2, <1>4, <1>6, <1>9
    <2>2. Uids(ToSet(q)) = (0 .. UidTop - 1) \ (Uids(inc) \ Uids(exc))
      BY <2>1
    <2> QED BY <1>7, <1>9, <2>2
  <1> QED BY <1>8, <1>9

\* build_excluded_uid_ranges: for any ranges the configuration may list, in any order and
\* however they overlap, the UIDs with a rule are those to keep out, and none has two.
THEOREM UidsExact == SetsSpec => []UidRangesExact
  <1>1. SetsInit => UidRangesExact
    <2> SUFFICES ASSUME SetsInit PROVE UidRangesExact
      OBVIOUS
    <2>1. include = {} /\ exclude = {} /\ uid_ranges = <<>>
      BY DEF SetsInit
    <2>2. Valid({}) = {} /\ Uids({}) = {} /\ ToSet(<<>>) = {} /\ Len(<<>>) = 0
      BY DEF Valid, Uids, ToSet
    <2> QED BY <2>1, <2>2 DEF UidRangesExact
  <1>2. UidRangesExact /\ [SetsNext]_routeSetVars => UidRangesExact'
    <2> SUFFICES ASSUME UidRangesExact, [SetsNext]_routeSetVars PROVE UidRangesExact'
      OBVIOUS
    <2>1. ASSUME NEW inc \in SUBSET Pair, NEW exc \in SUBSET Pair, ComputeUids(inc, exc)
          PROVE  UidRangesExact'
      <3>1. include' = inc /\ exclude' = exc /\ uid_ranges' = ExcludedUidRanges(inc, exc)
        BY <2>1 DEF ComputeUids
      <3>2. /\ Uids(ToSet(uid_ranges')) =
                 IF Valid(inc) = {} THEN Uids(exc)
                 ELSE (0 .. UidTop - 1) \ (Uids(inc) \ Uids(exc))
            /\ \A k \in 1 .. Len(uid_ranges') - 1 : uid_ranges'[k][2] + 1 < uid_ranges'[k + 1][1]
        BY <3>1, ExactRanges
      <3> QED BY <3>1, <3>2 DEF UidRangesExact
    <2>2. ASSUME UNCHANGED <<include, exclude, uid_ranges>> PROVE UidRangesExact'
      BY <2>2 DEF UidRangesExact
    <2>3. CASE \E r \in Prefix, es \in SUBSET AnyPrefix : ComputeRoutes(r, es)
      BY <2>2, <2>3 DEF ComputeRoutes
    <2>4. CASE UNCHANGED routeSetVars
      BY <2>2, <2>4 DEF routeSetVars
    <2>5. CASE \E inc, exc \in SUBSET (Uid \X Uid) : ComputeUids(inc, exc)
      BY <2>1, <2>5 DEF Pair
    <2> QED BY <2>3, <2>4, <2>5 DEF SetsNext
  <1> QED BY <1>1, <1>2, PTL DEF SetsSpec

-----------------------------------------------------------------------------
(* Addresses and prefixes                                                   *)

LEMMA BlockRule ==
    \A pl \in 0 .. Width : Block[pl] = IF pl = Width THEN 1 ELSE 2 * Block[pl + 1]
  <1> DEFINE Rule(f, pl) == IF pl = Width THEN 1 ELSE 2 * f[pl + 1]
             Is(f, n) == \A pl \in 0 .. Width : pl >= Width - n => f[pl] = Rule(f, pl)
             T == {n \in 0 .. Width : \E f : Is(f, n)}
  <1>1. Width \in Nat
    BY RouteSetsAssumption
  <1>2. 0 \in T
    <2>1. Is([pl \in 0 .. Width |-> 1], 0)
      BY <1>1
    <2> QED BY <1>1, <2>1
  <1>3. ASSUME NEW n \in 0 .. Width, n \in T, n < Width PROVE n + 1 \in T
    <2>1. PICK f : Is(f, n)
      BY <1>3
    <2> DEFINE g == [pl \in 0 .. Width |-> IF pl >= Width - n THEN f[pl] ELSE Rule(f, pl)]
    <2>2. ASSUME NEW pl \in 0 .. Width, pl >= Width - (n + 1) PROVE g[pl] = Rule(g, pl)
      <3>1. CASE pl >= Width - n
        <4>1. g[pl] = Rule(f, pl)
          BY <2>1, <3>1
        <4>2. pl # Width => g[pl + 1] = f[pl + 1]
          BY <1>1, <1>3, <3>1
        <4> QED BY <4>1, <4>2
      <3>2. CASE ~(pl >= Width - n)
        <4>1. g[pl] = Rule(f, pl)
          BY <3>2
        <4>2. pl + 1 \in 0 .. Width /\ pl + 1 >= Width - n
          BY <1>1, <1>3, <2>2, <3>2
        <4>3. g[pl + 1] = f[pl + 1]
          BY <4>2
        <4> QED BY <4>1, <4>3
      <3> QED BY <3>1, <3>2
    <2> HIDE DEF g, Rule
    <2>3. Is(g, n + 1)
      BY <2>2
    <2> HIDE DEF Is
    <2>4. n + 1 \in 0 .. Width /\ \E f_ : Is(f_, n + 1)
      BY <1>1, <1>3, <2>3
    <2> QED BY <2>4
  <1>4. Width \in T
    <2> HIDE DEF T
    <2>1. \A n \in 0 .. Width : n \in T /\ n < Width => n + 1 \in T
      BY <1>3
    <2>2. \A n \in 0 .. Width : n \in T
      BY <1>1, <1>2, <2>1, UpTo
    <2> QED BY <1>1, <2>2
  <1>5. PICK f : Is(f, Width)
    BY <1>4
  <1> DEFINE g == [pl \in 0 .. Width |-> f[pl]]
             All(h) == h = [pl \in 0 .. Width |-> Rule(h, pl)]
  <1>6. All(g)
    <2>1. \A pl \in 0 .. Width : f[pl] = Rule(f, pl)
      BY <1>1, <1>5
    <2>2. \A pl \in 0 .. Width : Rule(f, pl) = Rule(g, pl)
      BY <1>1
    <2> HIDE DEF Rule
    <2> QED BY <2>1, <2>2
  <1>7. Block = CHOOSE h : All(h)
    BY DEF Block
  <1> HIDE DEF g, All
  <1>8. All(Block)
    BY <1>6, <1>7
  <1> QED BY <1>8 DEF All

LEMMA BlockType == \A pl \in 0 .. Width : Block[pl] \in Nat \ {0}
  <1> DEFINE T == {i \in 0 .. Width : Block[Width - i] \in Nat \ {0}}
  <1>1. Width \in Nat /\ Width \in 0 .. Width
    BY RouteSetsAssumption
  <1>2. 0 \in T
    BY <1>1, BlockRule
  <1>3. ASSUME NEW i \in 0 .. Width, i \in T, i < Width PROVE i + 1 \in T
    <2> DEFINE pl == Width - (i + 1)
    <2>1. pl \in 0 .. Width /\ pl # Width /\ pl + 1 = Width - i
      BY <1>1, <1>3
    <2>2. Block[pl] = 2 * Block[pl + 1]
      BY <2>1, BlockRule
    <2> QED BY <1>1, <1>3, <2>1, <2>2
  <1> HIDE DEF T
  <1>4. \A i \in 0 .. Width : i \in T
    BY <1>1, <1>2, <1>3, UpTo
  <1>5. \A pl \in 0 .. Width : Width - pl \in T /\ Width - (Width - pl) = pl
    BY <1>1, <1>4
  <1> QED BY <1>5 DEF T

\* Multiples of b are b apart.
LEMMA Multiples ==
    ASSUME NEW b \in Nat \ {0}, NEW j \in Nat, NEW k \in Nat, j < k
    PROVE  b * j + b <= b * k
  <1>1. PICK d \in Nat : k = j + 1 + d
    <2>1. k - j - 1 \in Nat /\ k = j + 1 + (k - j - 1)
      OBVIOUS
    <2> QED BY <2>1
  <1>2. b * k = b * j + b + b * d
    BY <1>1
  <1>3. b * d \in Nat
    OBVIOUS
  <1> QED BY <1>2, <1>3

LEMMA Quotient ==
    ASSUME NEW x \in Nat, NEW b \in Nat \ {0}
    PROVE  /\ x % b \in 0 .. b - 1 /\ x \div b \in Nat
           /\ x - (x % b) = b * (x \div b) /\ b * (x \div b) \in Nat
  <1>1. x % b \in 0 .. b - 1 /\ x \div b \in Nat /\ x = b * (x \div b) + (x % b)
    OBVIOUS
  <1>2. b * (x \div b) \in Nat
    BY <1>1
  <1> QED BY <1>1, <1>2

\* The network of an address is the start of its block.
LEMMA NetworkOf ==
    ASSUME NEW pl \in 0 .. Width, NEW x \in Nat
    PROVE  /\ Network(x, pl) \in Nat /\ Network(x, pl) <= x /\ x < Network(x, pl) + Block[pl]
           /\ \E k \in Nat : Network(x, pl) = Block[pl] * k
  <1> DEFINE b == Block[pl]
  <1>1. b \in Nat \ {0}
    BY BlockType
  <1>2. Network(x, pl) = x - (x % b)
    BY DEF Network
  <1> HIDE DEF b
  <1>3. /\ x % b \in 0 .. b - 1 /\ x \div b \in Nat
        /\ x - (x % b) = b * (x \div b) /\ b * (x \div b) \in Nat
    BY <1>1, Quotient
  <1>4. Network(x, pl) = b * (x \div b)
    BY <1>2, <1>3
  <1>5. \E k \in Nat : Network(x, pl) = b * k
    BY <1>3, <1>4
  <1>6. Network(x, pl) \in Nat
    BY <1>3, <1>4
  <1>7. Network(x, pl) <= x /\ x < Network(x, pl) + b
    BY <1>1, <1>2, <1>3
  <1> QED BY <1>5, <1>6, <1>7 DEF b

LEMMA SameBlock ==
    ASSUME NEW b \in Nat \ {0}, NEW j \in Nat, NEW k \in Nat, NEW y \in Nat,
           b * j <= y, y < b * j + b, b * k <= y, y < b * k + b
    PROVE  j = k
  <1>1. b * j \in Nat /\ b * k \in Nat
    OBVIOUS
  <1>2. CASE j < k
    BY <1>1, <1>2, Multiples
  <1>3. CASE k < j
    BY <1>1, <1>3, Multiples
  <1> QED BY <1>2, <1>3

\* Two addresses are in a block together when they have the same network.
LEMMA SameNetwork ==
    ASSUME NEW pl \in 0 .. Width, NEW x \in Nat, NEW y \in Nat
    PROVE  Network(y, pl) = Network(x, pl)
             <=> Network(x, pl) <= y /\ y < Network(x, pl) + Block[pl]
  <1> DEFINE b == Block[pl]
  <1>1. b \in Nat \ {0}
    BY BlockType
  <1>2. PICK k \in Nat : Network(x, pl) = b * k
    BY NetworkOf
  <1>3. PICK j \in Nat : Network(y, pl) = b * j
    BY NetworkOf
  <1>4. Network(y, pl) <= y /\ y < Network(y, pl) + b
    BY NetworkOf
  <1> HIDE DEF b
  <1>5. Network(x, pl) <= y /\ y < Network(x, pl) + b => j = k
    BY <1>1, <1>2, <1>3, <1>4, SameBlock
  <1> QED BY <1>2, <1>3, <1>4, <1>5 DEF b

\* A block is in one block of the length before.
LEMMA CoarserOne ==
    ASSUME NEW pl \in 0 .. Width, pl # Width, NEW x \in Nat, NEW y \in Nat,
           Network(y, pl + 1) = Network(x, pl + 1)
    PROVE  Network(y, pl) = Network(x, pl)
  <1> DEFINE c == Block[pl + 1]
             n == Network(x, pl)
             m == Network(x, pl + 1)
  <1>1. pl + 1 \in 0 .. Width
    BY RouteSetsAssumption
  <1>2. c \in Nat \ {0} /\ Block[pl] = 2 * c
    BY <1>1, BlockType, BlockRule
  <1>3. PICK k \in Nat : n = Block[pl] * k
    BY NetworkOf
  <1>4. PICK j \in Nat : m = c * j
    BY <1>1, NetworkOf
  <1>5. n \in Nat /\ n <= x /\ x < n + Block[pl]
    BY NetworkOf
  <1>6. m \in Nat /\ m <= x /\ x < m + c
    BY <1>1, NetworkOf
  <1>7. m <= y /\ y < m + c
    BY <1>1, SameNetwork
  <1> HIDE DEF c, n, m
  <1>8. n = c * (2 * k) /\ 2 * k \in Nat
    BY <1>2, <1>3
  <1>9. ~(j < 2 * k)
    <2>1. j < 2 * k => m + c <= n
      BY <1>2, <1>4, <1>8, Multiples
    <2> QED BY <1>2, <1>5, <1>6, <2>1
  <1>10. n <= m
    <2>1. j = 2 * k \/ 2 * k < j
      BY <1>8, <1>9
    <2>2. 2 * k < j => n + c <= m
      BY <1>2, <1>4, <1>8, Multiples
    <2> QED BY <1>2, <1>4, <1>5, <1>6, <1>8, <2>1, <2>2
  <1>11. ~(2 * k + 1 < j)
    <2>1. c * (2 * k + 1) = n + c
      BY <1>2, <1>8
    <2>2. 2 * k + 1 < j => n + c + c <= m
      BY <1>2, <1>4, <1>8, <2>1, Multiples
    <2> QED BY <1>2, <1>5, <1>6, <2>2
  <1>12. m + c <= n + c + c
    <2>1. c * (2 * k + 1) = n + c
      BY <1>2, <1>8
    <2>2. j = 2 * k + 1 \/ j < 2 * k + 1
      BY <1>8, <1>11
    <2>3. j < 2 * k + 1 => m + c <= n + c
      BY <1>2, <1>4, <1>8, <2>1, Multiples
    <2> QED BY <1>2, <1>4, <1>5, <1>6, <2>1, <2>2, <2>3
  <1>13. n <= y /\ y < n + Block[pl]
    BY <1>2, <1>5, <1>6, <1>7, <1>10, <1>12
  <1> QED BY <1>13, SameNetwork DEF n

LEMMA Coarser ==
    ASSUME NEW pl \in 0 .. Width, NEW ql \in 0 .. Width, pl <= ql, NEW x \in Nat, NEW y \in Nat,
           Network(y, ql) = Network(x, ql)
    PROVE  Network(y, pl) = Network(x, pl)
  <1> DEFINE d == ql - pl
             T == {i \in 0 .. d : Network(y, ql - i) = Network(x, ql - i)}
  <1>1. Width \in Nat /\ d \in Nat /\ ql - 0 = ql /\ ql - d = pl
    BY RouteSetsAssumption
  <1>2. 0 \in T
    BY <1>1
  <1>3. ASSUME NEW i \in 0 .. d, i \in T, i < d PROVE i + 1 \in T
    <2> DEFINE rl == ql - (i + 1)
    <2>1. rl \in 0 .. Width /\ rl # Width /\ rl + 1 = ql - i
      BY <1>1, <1>3
    <2>2. Network(y, rl) = Network(x, rl)
      <3>1. Network(y, rl + 1) = Network(x, rl + 1)
        BY <1>3, <2>1
      <3> HIDE DEF rl
      <3> QED BY <2>1, <3>1, CoarserOne
    <2> QED BY <1>1, <1>3, <2>2
  <1> HIDE DEF d, T
  <1>4. \A i \in 0 .. d : i \in T
    BY <1>1, <1>2, <1>3, UpTo
  <1>5. d \in T
    BY <1>1, <1>4
  <1> QED BY <1>1, <1>5 DEF T

LEMMA PrefixType ==
    \A p \in AnyPrefix : /\ p.net \in Nat /\ p.net <= Block[0] - 1 /\ p.pl \in 0 .. Width
                         /\ p.pl \in Nat /\ p.pl <= Width
  <1>1. Width \in Nat /\ Block[0] \in Nat
    BY RouteSetsAssumption, BlockType
  <1> QED BY <1>1 DEF AnyPrefix

Covers(p, y) == Network(y, p.pl) = Network(p.net, p.pl)

LEMMA CoveredBy ==
    ASSUME NEW ps \in SUBSET AnyPrefix
    PROVE  \A y : y \in Covered(ps) <=> y \in Nat /\ \E p \in ps : Covers(p, y)
  <1>1. ASSUME NEW p \in ps, NEW y
        PROVE  y \in Network(p.net, p.pl) .. Network(p.net, p.pl) + Block[p.pl] - 1
                 <=> y \in Nat /\ Covers(p, y)
    <2> DEFINE n == Network(p.net, p.pl)
               b == Block[p.pl]
    <2>1. p.net \in Nat /\ p.pl \in 0 .. Width
      BY PrefixType
    <2>2. n \in Nat /\ b \in Nat \ {0}
      BY <2>1, NetworkOf, BlockType
    <2>3. y \in Nat => (Covers(p, y) <=> n <= y /\ y < n + b)
      BY <2>1, SameNetwork DEF Covers
    <2> HIDE DEF n, b
    <2>4. y \in n .. n + b - 1 <=> y \in Nat /\ n <= y /\ y < n + b
      BY <2>2
    <2> QED BY <2>3, <2>4 DEF n, b
  <1>2. Covered(ps) = UNION {Network(p.net, p.pl) .. Network(p.net, p.pl) + Block[p.pl] - 1 : p \in ps}
    BY DEF Covered
  <1> QED BY <1>1, <1>2

LEMMA WholeSpace ==
    \A x \in Nat : Network(x, 0) = 0 <=> x < Block[0]
  <1>1. 0 \in 0 .. Width /\ Block[0] \in Nat \ {0}
    BY RouteSetsAssumption, BlockType
  <1>2. Network(0, 0) \in Nat /\ Network(0, 0) <= 0
    BY <1>1, NetworkOf
  <1>3. Network(0, 0) = 0
    BY <1>2
  <1> QED BY <1>1, <1>3, SameNetwork

\* The two halves of a prefix.
LEMMA Halves ==
    ASSUME NEW p \in Prefix, p.pl < Width
    PROVE  /\ Left(p) \in Prefix /\ Right(p) \in Prefix
           /\ \A y \in Nat : Covers(p, y) <=> Covers(Left(p), y) \/ Covers(Right(p), y)
  <1> DEFINE n == p.net
             pl == p.pl
             c == Block[pl + 1]
  <1>1. /\ p \in AnyPrefix /\ n \in Nat /\ pl \in 0 .. Width /\ pl + 1 \in 0 .. Width
        /\ 0 \in 0 .. Width /\ pl # Width /\ n <= Block[0] - 1
    BY PrefixType, RouteSetsAssumption DEF Prefix
  <1>2. c \in Nat \ {0} /\ Block[pl] = 2 * c /\ Block[0] \in Nat
    BY <1>1, BlockType, BlockRule
  <1>3. Network(n, pl) = n
    BY DEF Prefix
  <1>4. PICK k \in Nat : n = Block[pl] * k
    BY <1>1, <1>3, NetworkOf
  <1>5. /\ Left(p) = [net |-> n, pl |-> pl + 1]
        /\ Right(p) = [net |-> n + c, pl |-> pl + 1]
    BY DEF Left, Right
  <1> HIDE DEF n, pl, c
  <1>6. \A j \in Nat : Network(c * j, pl + 1) = c * j
    <2> TAKE j \in Nat
    <2> DEFINE x == c * j
               m == Network(x, pl + 1)
    <2>1. x \in Nat
      BY <1>2
    <2>2. PICK i \in Nat : m = c * i
      BY <1>1, <2>1, NetworkOf DEF c
    <2>3. m \in Nat /\ m <= x /\ x < m + c
      BY <1>1, <2>1, NetworkOf DEF c
    <2> HIDE DEF m
    <2>4. x < x + c
      BY <1>2, <2>1
    <2>5. i = j
      BY <1>2, <2>1, <2>2, <2>3, <2>4, SameBlock
    <2> QED BY <2>2, <2>5 DEF m
  <1>7. Network(n, pl + 1) = n
    <2>1. n = c * (2 * k) /\ 2 * k \in Nat
      BY <1>2, <1>4
    <2> QED BY <1>6, <2>1
  <1>8. Network(n + c, pl + 1) = n + c
    <2>1. n + c = c * (2 * k + 1) /\ 2 * k + 1 \in Nat
      BY <1>2, <1>4
    <2> QED BY <1>6, <2>1
  <1>9. n + c <= Block[0] - 1
    <2>1. n + c \in Nat /\ n <= n + c /\ n + c < n + Block[pl]
      BY <1>1, <1>2
    <2>2. Network(n + c, pl) = Network(n, pl)
      BY <1>1, <1>3, <2>1, SameNetwork
    <2>3. 0 <= pl
      BY <1>1
    <2>4. Network(n + c, 0) = Network(n, 0)
      BY <1>1, <2>1, <2>2, <2>3, Coarser
    <2>5. Network(n, 0) = 0
      BY <1>1, <1>2, WholeSpace
    <2>6. n + c < Block[0]
      BY <2>1, <2>4, <2>5, WholeSpace
    <2> QED BY <1>2, <2>1, <2>6
  <1>10. Left(p) \in Prefix /\ Left(p).net = n /\ Left(p).pl = pl + 1
    BY <1>1, <1>2, <1>5, <1>7 DEF Prefix, AnyPrefix
  <1>11. Right(p) \in Prefix /\ Right(p).net = n + c /\ Right(p).pl = pl + 1
    BY <1>1, <1>2, <1>5, <1>8, <1>9 DEF Prefix, AnyPrefix
  <1>12. ASSUME NEW y \in Nat
         PROVE  Covers(p, y) <=> Covers(Left(p), y) \/ Covers(Right(p), y)
    <2>1. Covers(p, y) <=> n <= y /\ y < n + Block[pl]
      BY <1>1, <1>3, SameNetwork DEF Covers, n, pl
    <2>2. Covers(Left(p), y) <=> n <= y /\ y < n + c
      <3>1. Network(y, pl + 1) = Network(n, pl + 1) <=> n <= y /\ y < n + c
        BY <1>1, <1>7, SameNetwork DEF c
      <3> QED BY <1>10, <3>1 DEF Covers
    <2>3. Covers(Right(p), y) <=> n + c <= y /\ y < n + c + c
      <3>1. n + c \in Nat
        BY <1>1, <1>2
      <3>2. Network(y, pl + 1) = Network(n + c, pl + 1) <=> n + c <= y /\ y < n + c + c
        BY <1>1, <1>8, <3>1, SameNetwork DEF c
      <3> QED BY <1>11, <3>2 DEF Covers
    <2> QED BY <1>1, <1>2, <2>1, <2>2, <2>3
  <1> QED BY <1>10, <1>11, <1>12

-----------------------------------------------------------------------------
(* The routes                                                               *)

\* One level of split_subtract, with the results of the next.
Level(rest, es, q) ==
    IF FullyExcluded(q, es) THEN {}
    ELSE IF q.pl >= Width \/ \A e \in es : ~Intersects(e, q) THEN {q}
    ELSE rest[Left(q)] \cup rest[Right(q)]

\* The recursion is well founded: every half is longer, and none is longer than an address.
LEMMA SplitRule ==
    ASSUME NEW es
    PROVE  \E rest : \A q \in Prefix : /\ SplitSubtract(q, es) = rest[q]
                                       /\ rest[q] = Level(rest, es, q)
  <1> DEFINE Is(f, n) == \A q \in Prefix : q.pl >= Width - n => f[q] = Level(f, es, q)
             T == {n \in 0 .. Width : \E f : Is(f, n)}
  <1>1. Width \in Nat
    BY RouteSetsAssumption
  <1>2. \A q \in Prefix : /\ q.pl \in Nat /\ q.pl <= Width
                          /\ q.pl < Width => /\ Left(q) \in Prefix /\ Right(q) \in Prefix
                                             /\ Left(q).pl = q.pl + 1 /\ Right(q).pl = q.pl + 1
    BY PrefixType, Halves DEF Prefix, Left, Right
  <1>3. \A f, g : \A q \in Prefix :
           (q.pl < Width => g[Left(q)] = f[Left(q)] /\ g[Right(q)] = f[Right(q)])
             => Level(g, es, q) = Level(f, es, q)
    <2> TAKE f, g
    <2> TAKE q \in Prefix
    <2>1. CASE q.pl < Width
      BY <2>1 DEF Level
    <2>2. CASE q.pl >= Width
      <3>1. ~(q.pl < Width)
        BY <1>1, <1>2, <2>2
      <3> QED BY <2>2, <3>1 DEF Level
    <2> QED BY <1>1, <1>2, <2>1, <2>2
  <1>4. 0 \in T
    <2> DEFINE f == [q \in Prefix |-> Level(<<>>, es, q)]
    <2>1. ASSUME NEW q \in Prefix, q.pl >= Width PROVE f[q] = Level(f, es, q)
      <3>1. Level(f, es, q) = Level(<<>>, es, q)
        BY <1>1, <1>2, <2>1 DEF Level
      <3> QED BY <3>1
    <2> HIDE DEF f
    <2>2. Is(f, 0)
      BY <1>1, <2>1
    <2> QED BY <1>1, <2>2
  <1>5. ASSUME NEW n \in 0 .. Width, n \in T, n < Width PROVE n + 1 \in T
    <2>1. PICK f : Is(f, n)
      BY <1>5
    <2> DEFINE g == [q \in Prefix |-> IF q.pl >= Width - n THEN f[q] ELSE Level(f, es, q)]
    <2>2. ASSUME NEW q \in Prefix, q.pl >= Width - (n + 1) PROVE g[q] = Level(g, es, q)
      <3>1. g[q] = Level(f, es, q)
        BY <2>1
      <3>2. q.pl < Width => g[Left(q)] = f[Left(q)] /\ g[Right(q)] = f[Right(q)]
        BY <1>1, <1>2, <1>5, <2>2
      <3> HIDE DEF g
      <3>3. Level(g, es, q) = Level(f, es, q)
        BY <1>3, <3>2
      <3> QED BY <3>1, <3>3
    <2> HIDE DEF g
    <2>3. Is(g, n + 1)
      BY <2>2
    <2> HIDE DEF Is
    <2> QED BY <1>1, <1>5, <2>3
  <1>6. Width \in T
    <2> HIDE DEF T
    <2>1. \A n \in 0 .. Width : n \in T
      BY <1>1, <1>4, <1>5, UpTo
    <2> QED BY <1>1, <2>1
  <1>7. PICK f : Is(f, Width)
    BY <1>6
  <1> DEFINE g == [q \in Prefix |-> f[q]]
             All(h) == h = [q \in Prefix |-> Level(h, es, q)]
  <1>8. All(g)
    <2>1. ASSUME NEW q \in Prefix PROVE f[q] = Level(g, es, q)
      <3>1. f[q] = Level(f, es, q)
        BY <1>1, <1>2, <1>7
      <3>2. q.pl < Width => g[Left(q)] = f[Left(q)] /\ g[Right(q)] = f[Right(q)]
        BY <1>2
      <3> HIDE DEF g
      <3> QED BY <1>3, <3>1, <3>2
    <2>2. [q \in Prefix |-> f[q]] = [q \in Prefix |-> Level(g, es, q)]
      <3> HIDE DEF g
      <3> QED BY <2>1
    <2> QED BY <2>2
  <1> DEFINE rest == CHOOSE h : All(h)
  <1>9. All(rest)
    <2> HIDE DEF g, All
    <2> QED BY <1>8
  <1>10. \A q \in Prefix : SplitSubtract(q, es) = rest[q]
    BY DEF SplitSubtract, Level
  <1> HIDE DEF rest
  <1>11. \A q \in Prefix : rest[q] = Level(rest, es, q)
    BY <1>9
  <1> QED BY <1>10, <1>11

\* An excluded prefix leaves nothing of what it contains.
LEMMA ContainedIsCovered ==
    ASSUME NEW p \in AnyPrefix, NEW e \in AnyPrefix, e.pl > 0, PrefixContains(e, p),
           NEW y \in Nat, Covers(p, y)
    PROVE  Covers(e, y)
  <1>1. /\ p.net \in Nat /\ p.pl \in 0 .. Width /\ e.pl \in 0 .. Width /\ e.pl # 0
    BY PrefixType
  <1>2. e.pl <= p.pl /\ Network(e.net, e.pl) = Network(p.net, e.pl)
    BY <1>1 DEF PrefixContains
  <1>3. Network(y, e.pl) = Network(p.net, e.pl)
    BY <1>1, <1>2, Coarser DEF Covers
  <1> QED BY <1>2, <1>3 DEF Covers

\* Prefixes that share an address intersect.
LEMMA SharedIntersects ==
    ASSUME NEW p \in AnyPrefix, NEW e \in AnyPrefix, NEW y \in Nat, Covers(p, y), Covers(e, y)
    PROVE  Intersects(e, p)
  <1> DEFINE pl == IF e.pl <= p.pl THEN e.pl ELSE p.pl
  <1>1. /\ p.net \in Nat /\ e.net \in Nat /\ p.pl \in 0 .. Width /\ e.pl \in 0 .. Width
        /\ p.pl \in Nat /\ e.pl \in Nat
    BY PrefixType
  <1>2. pl \in 0 .. Width /\ pl <= p.pl /\ pl <= e.pl
    BY <1>1
  <1>3. Intersects(e, p) <=> Network(e.net, pl) = Network(p.net, pl)
    BY DEF Intersects
  <1> HIDE DEF pl
  <1>4. Network(y, pl) = Network(p.net, pl)
    BY <1>1, <1>2, Coarser DEF Covers
  <1>5. Network(y, pl) = Network(e.net, pl)
    BY <1>1, <1>2, Coarser DEF Covers
  <1> QED BY <1>3, <1>4, <1>5

\* At full length a prefix is one address.
LEMMA OneAddress ==
    ASSUME NEW p \in AnyPrefix, p.pl >= Width, NEW e \in AnyPrefix, e.pl > 0,
           NEW y \in Nat, Covers(p, y), Covers(e, y)
    PROVE  PrefixContains(e, p)
  <1>1. /\ p.net \in Nat /\ p.pl \in 0 .. Width /\ e.pl \in 0 .. Width /\ e.pl # 0
        /\ p.pl = Width /\ e.pl <= p.pl
    <2>1. Width \in Nat
      BY RouteSetsAssumption
    <2> QED BY <2>1, PrefixType
  <1>2. Block[p.pl] = 1
    BY <1>1, BlockRule
  <1>3. y = p.net
    <2>1. Network(y, p.pl) <= y /\ y < Network(y, p.pl) + 1 /\ Network(y, p.pl) \in Nat
      BY <1>1, <1>2, NetworkOf
    <2>2. /\ Network(p.net, p.pl) <= p.net /\ p.net < Network(p.net, p.pl) + 1
          /\ Network(p.net, p.pl) \in Nat
      BY <1>1, <1>2, NetworkOf
    <2>3. Network(y, p.pl) = Network(p.net, p.pl)
      BY DEF Covers
    <2> QED BY <1>1, <2>1, <2>2, <2>3
  <1> QED BY <1>1, <1>3 DEF PrefixContains, Covers

\* What split_subtract leaves of a network, for any set of excluded prefixes.
LEMMA SplitExactly ==
    ASSUME NEW es \in SUBSET AnyPrefix, \A e \in es : e.pl > 0, NEW r \in Prefix
    PROVE  /\ SplitSubtract(r, es) \in SUBSET Prefix
           /\ \A y \in Nat : (\E p \in SplitSubtract(r, es) : Covers(p, y))
                               <=> Covers(r, y) /\ ~\E e \in es : Covers(e, y)
  <1>1. PICK rest : \A q \in Prefix : /\ SplitSubtract(q, es) = rest[q]
                                      /\ rest[q] = Level(rest, es, q)
    BY SplitRule
  <1> DEFINE Good(q) ==
        /\ rest[q] \in SUBSET Prefix
        /\ \A y \in Nat : (\E p \in rest[q] : Covers(p, y))
                            <=> Covers(q, y) /\ ~\E e \in es : Covers(e, y)
      T == {i \in 0 .. Width : \A q \in Prefix : q.pl >= Width - i => Good(q)}
  <1>2. Width \in Nat
    BY RouteSetsAssumption
  <1>3. \A q \in Prefix : /\ q \in AnyPrefix /\ q.pl \in Nat /\ q.pl <= Width
                          /\ q.pl < Width => /\ Left(q) \in Prefix /\ Right(q) \in Prefix
                                             /\ Left(q).pl = q.pl + 1 /\ Right(q).pl = q.pl + 1
    BY PrefixType, Halves DEF Prefix, Left, Right
  <1>4. ASSUME NEW q \in Prefix, q.pl < Width => Good(Left(q)) /\ Good(Right(q))
        PROVE  Good(q)
    <2>1. rest[q] = Level(rest, es, q) /\ q \in AnyPrefix
      BY <1>1, <1>3
    <2>2. CASE FullyExcluded(q, es)
      <3>1. PICK e \in es : PrefixContains(e, q)
        BY <2>2 DEF FullyExcluded
      <3>2. \A y \in Nat : Covers(q, y) => Covers(e, y)
        BY <2>1, <3>1, ContainedIsCovered
      <3>3. rest[q] = {}
        BY <2>1, <2>2 DEF Level
      <3> QED BY <3>2, <3>3
    <2>3. CASE ~FullyExcluded(q, es) /\ (q.pl >= Width \/ \A e \in es : ~Intersects(e, q))
      <3>1. rest[q] = {q}
        BY <2>1, <2>3 DEF Level
      <3>2. ASSUME NEW y \in Nat, Covers(q, y), NEW e \in es, Covers(e, y) PROVE FALSE
        <4>1. e \in AnyPrefix /\ e.pl > 0
          OBVIOUS
        <4>2. Intersects(e, q)
          BY <2>1, <3>2, <4>1, SharedIntersects
        <4>3. q.pl >= Width
          BY <2>3, <4>2
        <4>4. PrefixContains(e, q)
          BY <2>1, <3>2, <4>1, <4>3, OneAddress
        <4> QED BY <2>3, <4>4 DEF FullyExcluded
      <3> QED BY <3>1, <3>2
    <2>4. CASE ~FullyExcluded(q, es) /\ ~(q.pl >= Width \/ \A e \in es : ~Intersects(e, q))
      <3>1. rest[q] = rest[Left(q)] \cup rest[Right(q)]
        BY <2>1, <2>4 DEF Level
      <3>2. q.pl < Width
        BY <1>2, <1>3, <2>4
      <3>3. \A y \in Nat : Covers(q, y) <=> Covers(Left(q), y) \/ Covers(Right(q), y)
        BY <3>2, Halves
      <3>4. Good(Left(q)) /\ Good(Right(q))
        BY <1>4, <3>2
      <3> QED BY <3>1, <3>3, <3>4
    <2> QED BY <2>2, <2>3, <2>4
  <1> HIDE DEF Good
  <1>5. 0 \in T
    <2>1. \A q \in Prefix : q.pl >= Width - 0 => ~(q.pl < Width)
      BY <1>2, <1>3
    <2> QED BY <1>2, <1>4, <2>1
  <1>6. ASSUME NEW i \in 0 .. Width, i \in T, i < Width PROVE i + 1 \in T
    <2>1. ASSUME NEW q \in Prefix, q.pl >= Width - (i + 1) PROVE Good(q)
      <3>1. q.pl < Width => /\ Left(q) \in Prefix /\ Right(q) \in Prefix
                            /\ Left(q).pl >= Width - i /\ Right(q).pl >= Width - i
        BY <1>2, <1>3, <1>6, <2>1
      <3>2. q.pl < Width => Good(Left(q)) /\ Good(Right(q))
        BY <1>6, <3>1
      <3> QED BY <1>4, <3>2
    <2> QED BY <1>2, <1>6, <2>1
  <1>7. Width \in T
    <2> HIDE DEF T
    <2>1. \A i \in 0 .. Width : i \in T
      BY <1>2, <1>5, <1>6, UpTo
    <2> QED BY <1>2, <2>1
  <1>8. Good(r)
    BY <1>2, <1>3, <1>7
  <1>9. SplitSubtract(r, es) = rest[r]
    BY <1>1
  <1> QED BY <1>8, <1>9 DEF Good

LEMMA RoutesExactly ==
    ASSUME NEW es \in SUBSET AnyPrefix, \A e \in es : e.pl > 0, NEW r \in Prefix, NEW final,
           final = IF es = {} THEN {r} ELSE SplitSubtract(r, es)
    PROVE  Covered(final) = Covered({r}) \ Covered(es)
  <1>1. {r} \in SUBSET AnyPrefix /\ Prefix \in SUBSET AnyPrefix
    BY DEF Prefix
  <1>2. \A y : y \in Covered({r}) <=> y \in Nat /\ Covers(r, y)
    <2>1. \A y : y \in Covered({r}) <=> y \in Nat /\ \E p \in {r} : Covers(p, y)
      BY <1>1, CoveredBy
    <2> HIDE DEF Covers
    <2> QED BY <2>1
  <1>3. \A y : y \in Covered(es) <=> y \in Nat /\ \E e \in es : Covers(e, y)
    BY CoveredBy
  <1>4. CASE es = {}
    <2>1. \A y : y \notin Covered(es)
      BY <1>3, <1>4
    <2> QED BY <1>4, <2>1
  <1>5. CASE es # {}
    <2>1. /\ final \in SUBSET Prefix
          /\ \A y \in Nat : (\E p \in final : Covers(p, y))
                              <=> Covers(r, y) /\ ~\E e \in es : Covers(e, y)
      BY <1>5, SplitExactly
    <2>2. \A y : y \in Covered(final) <=> y \in Nat /\ \E p \in final : Covers(p, y)
      <3>1. final \in SUBSET AnyPrefix
        BY <1>1, <2>1
      <3> QED BY <3>1, CoveredBy
    <2>3. \A y : y \in Covered(final) <=> y \in Covered({r}) /\ y \notin Covered(es)
      BY <1>2, <1>3, <2>1, <2>2
    <2> QED BY <2>3
  <1> QED BY <1>4, <1>5

\* split_subtract_v4 and _v6: for any width, network and set of excluded prefixes (a length
\* of 0 aside), the routes left cover every address of the network that is not excluded
\* and no other.
THEOREM RoutesExact == SetsSpec => []RoutesAreTheDifference
  <1>1. SetsInit => RoutesAreTheDifference
    <2> SUFFICES ASSUME SetsInit PROVE RoutesAreTheDifference
      OBVIOUS
    <2>1. excluded = {} /\ final_route = {route}
      BY DEF SetsInit
    <2>2. Covered({}) = {}
      BY DEF Covered
    <2> QED BY <2>1, <2>2 DEF RoutesAreTheDifference
  <1>2. RoutesAreTheDifference /\ [SetsNext]_routeSetVars => RoutesAreTheDifference'
    <2> SUFFICES ASSUME RoutesAreTheDifference, [SetsNext]_routeSetVars
                 PROVE  RoutesAreTheDifference'
      OBVIOUS
    <2>1. ASSUME NEW r \in Prefix, NEW es \in SUBSET AnyPrefix, ComputeRoutes(r, es),
                 \A e \in es : e.pl > 0
          PROVE  Covered(final_route') = Covered({route'}) \ Covered(excluded')
      <3>1. /\ route' = r /\ excluded' = es
            /\ final_route' = IF es = {} THEN {r} ELSE SplitSubtract(r, es)
        BY <2>1 DEF ComputeRoutes
      <3>2. Covered(final_route') = Covered({r}) \ Covered(es)
        BY <2>1, <3>1, RoutesExactly
      <3> QED BY <3>1, <3>2
    <2>2. ASSUME NEW r \in Prefix, NEW es \in SUBSET AnyPrefix, ComputeRoutes(r, es)
          PROVE  RoutesAreTheDifference'
      <3>1. excluded' = es
        BY <2>2 DEF ComputeRoutes
      <3>2. (\A e \in es : e.pl > 0) => Covered(final_route') = Covered({route'}) \ Covered(excluded')
        BY <2>1, <2>2
      <3> QED BY <3>1, <3>2 DEF RoutesAreTheDifference
    <2>3. ASSUME UNCHANGED <<route, excluded, final_route>> PROVE RoutesAreTheDifference'
      BY <2>3 DEF RoutesAreTheDifference
    <2>4. CASE \E inc, exc \in SUBSET (Uid \X Uid) : ComputeUids(inc, exc)
      BY <2>3, <2>4 DEF ComputeUids
    <2>5. CASE UNCHANGED routeSetVars
      BY <2>3, <2>5 DEF routeSetVars
    <2> QED BY <2>2, <2>4, <2>5 DEF SetsNext
  <1> QED BY <1>1, <1>2, PTL DEF SetsSpec
=============================================================================
