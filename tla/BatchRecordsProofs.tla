-------------------------- MODULE BatchRecordsProofs --------------------------
(***************************************************************************)
(* Proofs about BatchRecords, for batches of any number of records of any  *)
(* lengths: what the sort and the deduplication keep, that the size of the *)
(* file is the one computed for it, and that the file, or what there is of *)
(* it, reads as the records it was written from, or the first of them.     *)
(***************************************************************************)
EXTENDS BatchRecords, ListsAndSums

(***************************************************************************)
(* The loop of the deduplication is a fold, that is, a recursive function; *)
(* kept[m] is what the loop has kept of the first m records.               *)
(***************************************************************************)
IsKept(kept, s, R) ==
    /\ kept \in [0..Len(s) -> Seq(R)]
    /\ kept[0] = <<>>
    /\ \A m \in 1..Len(s) : kept[m] = Keep(kept[m - 1], s[m])

\* k is the function behind FoldLeft(Keep, <<>>, s).
IsKeepFold(k, s) ==
    k = [T \in SUBSET DOMAIN s |->
           IF T = {} THEN <<>> ELSE Keep(k[T \ {Max(T)}], s[Max(T)])]

LEMMA KeepIsFold == \A s : FoldLeft(Keep, <<>>, s) = (CHOOSE k : IsKeepFold(k, s))[DOMAIN s]
BY DEF FoldLeft, MapThenFoldSet, IsKeepFold

LEMMA KeepGivesRecords ==
    ASSUME NEW R, NEW kept \in Seq(R), NEW r \in R
    PROVE  Keep(kept, r) \in Seq(R)
BY DEF Keep, Last

LEMMA KeepFoldExists ==
    ASSUME NEW R, NEW s \in Seq(R)
    PROVE  \E k : IsKeepFold(k, s)
<1> DEFINE n == Len(s)
           A == Seq(R)
           base == <<>>
           F == [i \in 1..n |-> [a \in A |-> Keep(a, s[i])]]
<1>1. n \in Nat /\ DOMAIN s = 1..n /\ \A i \in 1..n : s[i] \in R
  OBVIOUS
<1>2. base \in A /\ \A i \in 1..n : \A a \in A : F[i][a] = Keep(a, s[i]) /\ F[i][a] \in A
  BY <1>1, KeepGivesRecords
<1>3. n \in Nat /\ base \in A /\ \A i \in 1..n : \A a \in A : F[i][a] \in A
  BY <1>1, <1>2
<1>4. \A i \in 1..n : \A a \in A : F[i][a] = Keep(a, s[i])
  BY <1>2
<1> HIDE DEF n, A, base, F
<1>5. PICK g : IsPositionFold(F, base, n, A, g)
  BY <1>3, FoldOfPositions
<1>6. \A T \in SUBSET (1..n) : g[T] = IF T = {} THEN base ELSE Keep(g[T \ {Max(T)}], s[Max(T)])
  BY <1>4, <1>5 DEF IsPositionFold
<1>7. g = [T \in SUBSET (1..n) |-> g[T]]
  BY <1>5 DEF IsPositionFold
<1>8. IsKeepFold(g, s)
  BY <1>1, <1>6, <1>7 DEF IsKeepFold, base
<1>9. QED
  BY <1>8

\* The fold goes through the records one by one.
LEMMA KeptExists ==
    ASSUME NEW R, NEW s \in Seq(R)
    PROVE  \E kept : IsKept(kept, s, R) /\ FoldLeft(Keep, <<>>, s) = kept[Len(s)]
<1> DEFINE n == Len(s)
           k == CHOOSE k : IsKeepFold(k, s)
           kept == [m \in 0..n |-> k[1..m]]
<1>1. n \in Nat /\ DOMAIN s = 1..n /\ \A i \in 1..n : s[i] \in R
  OBVIOUS
<1>2. IsKeepFold(k, s)
  BY KeepFoldExists
<1>3. FoldLeft(Keep, <<>>, s) = k[1..n]
  BY <1>1, KeepIsFold
<1> HIDE DEF n, k
<1>4. ASSUME NEW m \in 1..n PROVE k[1..m] = Keep(k[1..(m - 1)], s[m])
  <2>1. 1..m \subseteq 1..n /\ m \in Nat /\ m # 0
    BY <1>1
  <2>2. 1..m # {} /\ Max(1..m) = m /\ (1..m) \ {m} = 1..(m - 1)
    BY <2>1, LastPosition
  <2>3. k[1..m] = IF 1..m = {} THEN <<>> ELSE Keep(k[(1..m) \ {Max(1..m)}], s[Max(1..m)])
    BY <1>1, <1>2, <2>1 DEF IsKeepFold
  <2>4. QED
    BY <2>2, <2>3
<1>5. kept[0] = <<>>
  <2>1. 1..0 = {} /\ {} \in SUBSET DOMAIN s /\ 0 \in 0..n
    BY <1>1
  <2>2. k[{}] = <<>>
    BY <1>2, <2>1 DEF IsKeepFold
  <2>3. QED
    BY <2>1, <2>2
<1>6. \A m \in 1..n : kept[m] = Keep(kept[m - 1], s[m])
  BY <1>1, <1>4
<1> DEFINE Bad == {m \in 0..n : kept[m] \notin Seq(R)}
<1>7. Bad = {}
  <2>1. SUFFICES ASSUME Bad # {} PROVE FALSE
    OBVIOUS
  <2>2. PICK m \in Bad : \A l \in Bad : m =< l
    <3>1. Bad \subseteq Nat
      BY <1>1
    <3> HIDE DEF Bad
    <3>2. QED
      BY <2>1, <3>1, Least
  <2> HIDE DEF kept
  <2>3. m # 0 /\ m \in 1..n /\ m - 1 \in 0..n /\ kept[m] \notin Seq(R)
    <3>1. m \in 0..n /\ kept[m] \notin Seq(R) /\ <<>> \in Seq(R)
      BY <2>2
    <3>2. m # 0
      BY <1>5, <3>1
    <3>3. QED
      BY <1>1, <3>1, <3>2
  <2>4. kept[m - 1] \in Seq(R)
    BY <2>2, <2>3
  <2>5. QED
    BY <1>1, <1>6, <2>3, <2>4, KeepGivesRecords
<1>8. kept \in [0..n -> Seq(R)]
  <2>1. \A m \in 0..n : kept[m] \in Seq(R)
    BY <1>7
  <2>2. QED
    BY <2>1
<1>9. kept[n] = k[1..n]
  BY <1>1
<1>10. QED
  <2> HIDE DEF kept
  <2>1. QED
    BY <1>3, <1>5, <1>6, <1>8, <1>9 DEF IsKept, n

-----------------------------------------------------------------------------
(* What the loop keeps of a sorted slice.                                   *)

IsSortedByKey(s) ==
    \A i, j \in DOMAIN s : i < j => Less(s[i].key, s[j].key) \/ s[i].key = s[j].key

\* k is what is left of the first m records of s: they end with the same
\* record, k is strictly sorted, made of these records and has all their keys,
\* and a record that is gone came before another one of its key.
KeptInv(k, m, s) ==
    /\ k = <<>> <=> m = 0
    /\ m # 0 => Last(k) = s[m]
    /\ \A i, j \in DOMAIN k : i < j => Less(k[i].key, k[j].key)
    /\ \A i \in DOMAIN k : \E j \in 1..m : k[i] = s[j]
    /\ \A i \in 1..m : \E p \in DOMAIN k : k[p].key = s[i].key
    /\ \A i \in 1..m : \/ \E p \in DOMAIN k : k[p] = s[i]
                      \/ \E j \in (i + 1)..m : s[j].key = s[i].key

LEMMA LessIsTransitive ==
    ASSUME NEW x, NEW y, NEW z, Len(x) \in Nat, Len(y) \in Nat, Len(z) \in Nat, Less(x, y), Less(y, z)
    PROVE  Less(x, z)
BY DEF Less

\* A record takes the place of the last one, which has the same key.
LEMMA ReplaceLast ==
    ASSUME NEW R, \A r \in R : Len(r.key) \in Nat, NEW s \in Seq(R),
           NEW m \in 1..Len(s), m # 1, NEW a \in Seq(R), KeptInv(a, m - 1, s),
           Last(a).key = s[m].key
    PROVE  KeptInv([a EXCEPT ![Len(a)] = s[m]], m, s)
<1> DEFINE k == [a EXCEPT ![Len(a)] = s[m]]
           n == Len(a)
<1>1. /\ m \in Nat /\ m - 1 \in Nat /\ m - 1 # 0 /\ a # <<>>
      /\ s[m] \in R
  BY DEF KeptInv
<1>2. /\ n \in Nat /\ n # 0 /\ DOMAIN a = 1..n /\ DOMAIN k = 1..n
      /\ k[n] = s[m] /\ k[n].key = a[n].key
      /\ \A i \in 1..n : i # n => k[i] = a[i]
      /\ k \in Seq(R) /\ Len(k) = n
  BY <1>1 DEF Last
<1>3. \A i \in 1..n : k[i].key = a[i].key
  BY <1>2
<1>4. a[n] = s[m - 1]
  BY <1>1 DEF KeptInv, Last
<1> HIDE DEF k, n
<1>5. k # <<>> /\ Last(k) = s[m]
  BY <1>2 DEF Last
<1>6. \A i, j \in DOMAIN k : i < j => Less(k[i].key, k[j].key)
  BY <1>2, <1>3 DEF KeptInv
<1>7. \A i \in DOMAIN k : \E j \in 1..m : k[i] = s[j]
  <2> SUFFICES ASSUME NEW i \in DOMAIN k PROVE \E j \in 1..m : k[i] = s[j]
    OBVIOUS
  <2>1. CASE i = n
    BY <1>1, <1>2, <2>1
  <2>2. CASE i # n
    <3>1. PICK j \in 1..(m - 1) : a[i] = s[j]
      BY <1>2 DEF KeptInv
    <3>2. QED
      BY <1>1, <1>2, <2>2, <3>1
  <2>3. QED
    BY <2>1, <2>2
<1>8. \A i \in 1..m : \E p \in DOMAIN k : k[p].key = s[i].key
  <2> SUFFICES ASSUME NEW i \in 1..m PROVE \E p \in DOMAIN k : k[p].key = s[i].key
    OBVIOUS
  <2>1. CASE i = m
    <3>1. n \in DOMAIN k /\ k[n] = s[i]
      BY <1>2, <2>1
    <3>2. QED
      BY <3>1
  <2>2. CASE i # m
    <3>1. i \in 1..(m - 1)
      BY <1>1, <2>2
    <3>2. PICK p \in DOMAIN a : a[p].key = s[i].key
      BY <3>1 DEF KeptInv
    <3>3. QED
      BY <1>2, <1>3, <3>2
  <2>3. QED
    BY <2>1, <2>2
<1>9. \A i \in 1..m : \/ \E p \in DOMAIN k : k[p] = s[i]
                      \/ \E j \in (i + 1)..m : s[j].key = s[i].key
  <2> SUFFICES ASSUME NEW i \in 1..m
               PROVE  \/ \E p \in DOMAIN k : k[p] = s[i]
                      \/ \E j \in (i + 1)..m : s[j].key = s[i].key
    OBVIOUS
  <2>1. CASE i = m
    <3>1. n \in DOMAIN k /\ k[n] = s[i]
      BY <1>2, <2>1
    <3> HIDE DEF k, n
    <3>2. QED
      BY <3>1
  <2>2. CASE i # m
    <3>1. i \in 1..(m - 1) /\ m \in (i + 1)..m
      BY <1>1, <2>2
    <3>2. CASE \E j \in (i + 1)..(m - 1) : s[j].key = s[i].key
      BY <1>1, <3>1, <3>2
    <3>3. CASE \E p \in DOMAIN a : a[p] = s[i]
      <4>1. PICK p \in DOMAIN a : a[p] = s[i]
        BY <3>3
      <4>2. CASE p = n
        BY <1>2, <3>1, <4>1, <4>2
      <4>3. CASE p # n
        BY <1>2, <4>1, <4>3
      <4>4. QED
        BY <4>2, <4>3
    <3>4. QED
      BY <3>1, <3>2, <3>3 DEF KeptInv
  <2>3. QED
    BY <2>1, <2>2
<1>10. KeptInv(k, m, s)
  BY <1>1, <1>5, <1>6, <1>7, <1>8, <1>9 DEF KeptInv
<1>11. QED
  BY <1>10 DEF k

\* A record of another key is put behind the others.
LEMMA AppendRecord ==
    ASSUME NEW R, \A r \in R : Len(r.key) \in Nat, NEW s \in Seq(R), IsSortedByKey(s),
           NEW m \in 1..Len(s), NEW a \in Seq(R), KeptInv(a, m - 1, s),
           a # <<>> => Last(a).key # s[m].key
    PROVE  KeptInv(Append(a, s[m]), m, s)
<1> DEFINE k == Append(a, s[m])
           n == Len(a)
<1>1. /\ m \in Nat /\ m - 1 \in Nat /\ s[m] \in R /\ DOMAIN s = 1..Len(s)
      /\ m \in DOMAIN s
  OBVIOUS
<1>2. /\ n \in Nat /\ DOMAIN a = 1..n /\ DOMAIN k = 1..(n + 1)
      /\ k[n + 1] = s[m]
      /\ \A i \in 1..n : k[i] = a[i] /\ a[i] \in R
      /\ Len(k) = n + 1 /\ k # <<>>
      /\ a = <<>> <=> n = 0
  <2>1. /\ n \in Nat /\ DOMAIN a = 1..n /\ \A i \in 1..n : a[i] \in R
        /\ a = <<>> <=> n = 0
    BY ListDomain
  <2>2. /\ Len(k) = n + 1 /\ DOMAIN k = 1..(n + 1) /\ k[n + 1] = s[m]
        /\ \A i \in 1..n : k[i] = a[i]
    BY <1>1, <2>1
  <2>3. k # <<>>
    BY <2>1, <2>2
  <2>4. QED
    BY <2>1, <2>2, <2>3
<1>3. n # 0 => m - 1 \in DOMAIN s /\ a[n] = s[m - 1] /\ Less(s[m - 1].key, s[m].key)
  <2>1. SUFFICES ASSUME n # 0
                 PROVE  m - 1 \in DOMAIN s /\ a[n] = s[m - 1] /\ Less(s[m - 1].key, s[m].key)
    OBVIOUS
  <2>2. m - 1 # 0 /\ Last(a) = s[m - 1]
    BY <1>2, <2>1 DEF KeptInv
  <2>3. m - 1 \in DOMAIN s /\ m - 1 < m /\ a[n] = s[m - 1]
    BY <1>1, <2>2 DEF Last
  <2>4. s[m - 1].key # s[m].key
    BY <1>2, <2>1, <2>2
  <2>5. QED
    BY <1>1, <2>3, <2>4 DEF IsSortedByKey
<1> HIDE DEF k, n
<1>4. Last(k) = s[m]
  BY <1>2 DEF Last
<1>5. \A i, j \in DOMAIN k : i < j => Less(k[i].key, k[j].key)
  <2> SUFFICES ASSUME NEW i \in DOMAIN k, NEW j \in DOMAIN k, i < j
               PROVE  Less(k[i].key, k[j].key)
    OBVIOUS
  <2>1. i \in 1..n /\ k[i] = a[i] /\ n # 0
    BY <1>2
  <2>2. CASE j # n + 1
    <3>1. j \in DOMAIN a /\ k[j] = a[j] /\ i \in DOMAIN a
      BY <1>2, <2>1, <2>2
    <3>2. QED
      BY <2>1, <3>1 DEF KeptInv
  <2>3. CASE j = n + 1
    <3>1. i = n \/ Less(a[i].key, a[n].key)
      <4>1. i \in DOMAIN a /\ n \in DOMAIN a /\ (i # n => i < n)
        BY <1>2, <2>1
      <4>2. QED
        BY <4>1 DEF KeptInv
    <3>2. Less(a[n].key, s[m].key) /\ k[j] = s[m]
      BY <1>2, <1>3, <2>1, <2>3
    <3>3. Len(a[i].key) \in Nat /\ Len(a[n].key) \in Nat /\ Len(s[m].key) \in Nat
      <4>1. i \in 1..n /\ n \in 1..n /\ a[i] \in R /\ a[n] \in R /\ s[m] \in R
        BY <1>1, <1>2, <2>1
      <4>2. QED
        BY <4>1
    <3>4. CASE i = n
      BY <2>1, <3>2, <3>4
    <3>5. CASE Less(a[i].key, a[n].key)
      <4>1. Less(a[i].key, s[m].key)
        BY <3>2, <3>3, <3>5, LessIsTransitive
      <4>2. QED
        BY <2>1, <3>2, <4>1
    <3>6. QED
      BY <3>1, <3>4, <3>5
  <2>4. QED
    BY <2>2, <2>3
<1>6. \A i \in DOMAIN k : \E j \in 1..m : k[i] = s[j]
  <2> SUFFICES ASSUME NEW i \in DOMAIN k PROVE \E j \in 1..m : k[i] = s[j]
    OBVIOUS
  <2>1. CASE i = n + 1
    BY <1>1, <1>2, <2>1
  <2>2. CASE i # n + 1
    <3>1. i \in DOMAIN a /\ k[i] = a[i]
      BY <1>2, <2>2
    <3>2. PICK j \in 1..(m - 1) : a[i] = s[j]
      BY <3>1 DEF KeptInv
    <3>3. QED
      BY <1>1, <3>1, <3>2
  <2>3. QED
    BY <2>1, <2>2
<1>7. \A p \in DOMAIN a : p \in DOMAIN k /\ k[p] = a[p]
  BY <1>2
<1>8. \A i \in 1..m : \E p \in DOMAIN k : k[p].key = s[i].key
  <2> SUFFICES ASSUME NEW i \in 1..m PROVE \E p \in DOMAIN k : k[p].key = s[i].key
    OBVIOUS
  <2>1. CASE i = m
    BY <1>2, <2>1
  <2>2. CASE i # m
    <3>1. i \in 1..(m - 1)
      BY <1>1, <2>2
    <3>2. PICK p \in DOMAIN a : a[p].key = s[i].key
      BY <3>1 DEF KeptInv
    <3>3. QED
      BY <1>7, <3>2
  <2>3. QED
    BY <2>1, <2>2
<1>9. \A i \in 1..m : \/ \E p \in DOMAIN k : k[p] = s[i]
                      \/ \E j \in (i + 1)..m : s[j].key = s[i].key
  <2> SUFFICES ASSUME NEW i \in 1..m
               PROVE  \/ \E p \in DOMAIN k : k[p] = s[i]
                      \/ \E j \in (i + 1)..m : s[j].key = s[i].key
    OBVIOUS
  <2>1. CASE i = m
    BY <1>2, <2>1
  <2>2. CASE i # m
    <3>1. i \in 1..(m - 1)
      BY <1>1, <2>2
    <3>2. CASE \E j \in (i + 1)..(m - 1) : s[j].key = s[i].key
      BY <1>1, <3>1, <3>2
    <3>3. CASE \E p \in DOMAIN a : a[p] = s[i]
      BY <1>7, <3>3
    <3>4. QED
      BY <3>1, <3>2, <3>3 DEF KeptInv
  <2>3. QED
    BY <2>1, <2>2
<1>10. KeptInv(k, m, s)
  BY <1>1, <1>2, <1>4, <1>5, <1>6, <1>8, <1>9 DEF KeptInv
<1>11. QED
  BY <1>10 DEF k

\* What the loop makes of a sorted slice.
LEMMA Deduplicated ==
    ASSUME NEW R, \A r \in R : Len(r.key) \in Nat, NEW s \in Seq(R), IsSortedByKey(s)
    PROVE  /\ FoldLeft(Keep, <<>>, s) \in Seq(R)
           /\ KeptInv(FoldLeft(Keep, <<>>, s), Len(s), s)
<1>1. PICK kept : IsKept(kept, s, R) /\ FoldLeft(Keep, <<>>, s) = kept[Len(s)]
  BY KeptExists
<1>2. Len(s) \in Nat /\ kept[Len(s)] \in Seq(R)
  BY <1>1 DEF IsKept
<1> DEFINE Bad == {m \in 0..Len(s) : ~ KeptInv(kept[m], m, s)}
<1>3. Bad = {}
  <2>1. SUFFICES ASSUME Bad # {} PROVE FALSE
    OBVIOUS
  <2>2. PICK m \in Bad : \A l \in Bad : m =< l
    <3>1. Bad \subseteq Nat
      BY <1>2
    <3> HIDE DEF Bad
    <3>2. QED
      BY <2>1, <3>1, Least
  <2>3. m \in 0..Len(s) /\ ~ KeptInv(kept[m], m, s)
    BY <2>2
  <2>4. KeptInv(kept[0], 0, s)
    BY <1>1 DEF IsKept, KeptInv
  <2>5. m \in 1..Len(s) /\ m - 1 \in 0..Len(s) /\ m \in Nat
    BY <1>2, <2>3, <2>4
  <2>6. KeptInv(kept[m - 1], m - 1, s)
    BY <2>2, <2>5
  <2> HIDE DEF Bad
  <2>7. kept[m - 1] \in Seq(R) /\ kept[m] = Keep(kept[m - 1], s[m])
    BY <1>1, <2>5 DEF IsKept
  <2>8. CASE kept[m - 1] # <<>> /\ Last(kept[m - 1]).key = s[m].key
    <3>1. m # 1
      BY <2>6, <2>8 DEF KeptInv
    <3>2. KeptInv([kept[m - 1] EXCEPT ![Len(kept[m - 1])] = s[m]], m, s)
      BY <2>5, <2>6, <2>7, <2>8, <3>1, ReplaceLast
    <3>3. QED
      BY <2>3, <2>7, <2>8, <3>2 DEF Keep
  <2>9. CASE ~ (kept[m - 1] # <<>> /\ Last(kept[m - 1]).key = s[m].key)
    <3>1. KeptInv(Append(kept[m - 1], s[m]), m, s)
      BY <2>5, <2>6, <2>7, <2>9, AppendRecord
    <3>2. QED
      BY <2>3, <2>7, <2>9, <3>1 DEF Keep
  <2>10. QED
    BY <2>8, <2>9
<1>4. KeptInv(kept[Len(s)], Len(s), s)
  BY <1>2, <1>3
<1>5. QED
  BY <1>1, <1>2, <1>4

-----------------------------------------------------------------------------
(* What sort.Slice and the deduplication do to a batch.                     *)

Recs == Puts \cup Deletes

LEMMA RecordKeys ==
    /\ \A r \in Recs : Len(r.key) \in Nat \ {0}
    /\ \A q, r \in Recs : Len(q.key) = Len(r.key) => q.key = r.key
<1>1. \A n \in Nat : \A b : Len(Filled(n, b)) = n
  BY DEF Filled
<1>2. \A r \in Recs : \E n \in Nat \ {0} : r.key = Filled(n, 97)
  BY BatchRecordsAssumption DEF Recs, Puts, Deletes
<1>3. QED
  BY <1>1, <1>2

\* s is t with its records in another order: q[i] is the place in t of the
\* record at i, and small slices keep the order of equal keys.
Reorders(q, s, t) ==
    /\ s = [i \in DOMAIN t |-> t[q[i]]]
    /\ \A i \in DOMAIN t : q[i] \in DOMAIN t
    /\ \A x \in DOMAIN t : \E i \in DOMAIN t : q[i] = x
    /\ \A i, j \in DOMAIN t : i < j =>
         \/ Less(t[q[i]].key, t[q[j]].key)
         \/ t[q[i]].key = t[q[j]].key /\ (Len(t) =< StableUpTo => q[i] < q[j])

LEMMA SortReorders ==
    ASSUME NEW t \in Seq(Recs), NEW s \in Sorted(t)
    PROVE  \E q : Reorders(q, s, t)
<1>1. Len(t) \in Nat /\ DOMAIN t = 1..Len(t)
  OBVIOUS
<1>2. IsFiniteSet(DOMAIN t) /\ Cardinality(DOMAIN t) = Len(t)
  <2>1. \A n \in Nat : IsFiniteSet(1..n) /\ Cardinality(1..n) = n
    BY FS_Interval
  <2>2. QED
    BY <1>1, <2>1
<1>3. PICK q \in SetToSeqs(DOMAIN t) :
        /\ s = [i \in DOMAIN t |-> t[q[i]]]
        /\ \A i, j \in DOMAIN t : i < j =>
             \/ Less(t[q[i]].key, t[q[j]].key)
             \/ t[q[i]].key = t[q[j]].key /\ (Len(t) =< StableUpTo => q[i] < q[j])
  BY DEF Sorted
<1>4. ToSet(q) = DOMAIN t /\ DOMAIN q = DOMAIN t
  BY <1>1, <1>2, ListOfSet DEF SetToSeqs
<1>5. /\ \A i \in DOMAIN t : q[i] \in DOMAIN t
      /\ \A x \in DOMAIN t : \E i \in DOMAIN t : q[i] = x
  BY <1>4 DEF ToSet
<1>6. QED
  BY <1>3, <1>5 DEF Reorders

\* The sorted slice is one of records, sorted by key.
LEMMA ReorderedRecords ==
    ASSUME NEW t \in Seq(Recs), NEW s, NEW q, Reorders(q, s, t)
    PROVE  /\ s \in Seq(Recs) /\ Len(s) = Len(t) /\ DOMAIN s = DOMAIN t
           /\ IsSortedByKey(s)
<1>1. Len(t) \in Nat /\ DOMAIN t = 1..Len(t) /\ \A i \in 1..Len(t) : t[i] \in Recs
  OBVIOUS
<1>2. /\ DOMAIN s = 1..Len(t)
      /\ s = [i \in 1..Len(t) |-> t[q[i]]]
      /\ \A i \in 1..Len(t) : s[i] = t[q[i]] /\ s[i] \in Recs
  BY <1>1 DEF Reorders
<1>3. s \in Seq(Recs) /\ Len(s) = Len(t)
  BY <1>1, <1>2
<1>4. IsSortedByKey(s)
  <2> SUFFICES ASSUME NEW i \in DOMAIN t, NEW j \in DOMAIN t, i < j
               PROVE  Less(s[i].key, s[j].key) \/ s[i].key = s[j].key
    BY <1>1, <1>2 DEF IsSortedByKey
  <2>1. Less(t[q[i]].key, t[q[j]].key) \/ t[q[i]].key = t[q[j]].key
    BY DEF Reorders
  <2>2. QED
    BY <1>1, <1>2, <2>1
<1>5. QED
  BY <1>1, <1>2, <1>3, <1>4

\* Of a batch in any order that the sort may leave it in, the loop keeps each
\* key once, in order.
LEMMA KeysOfKept ==
    ASSUME NEW t \in Seq(Recs), NEW s, NEW q, Reorders(q, s, t),
           NEW k, KeptInv(k, Len(s), s)
    PROVE  /\ {r.key : r \in Range(k)} = {r.key : r \in Range(t)}
           /\ \A i, j \in DOMAIN k : i < j => Less(k[i].key, k[j].key)
<1>1. /\ DOMAIN s = 1..Len(t) /\ DOMAIN t = 1..Len(t) /\ Len(s) = Len(t)
      /\ \A i \in DOMAIN t : s[i] = t[q[i]] /\ q[i] \in DOMAIN t
      /\ \A x \in DOMAIN t : \E i \in DOMAIN t : q[i] = x
  BY ReorderedRecords DEF Reorders
<1>2. ASSUME NEW p \in DOMAIN k PROVE \E x \in DOMAIN t : t[x].key = k[p].key
  <2>1. PICK j \in 1..Len(s) : k[p] = s[j]
    BY DEF KeptInv
  <2>2. q[j] \in DOMAIN t /\ t[q[j]] = k[p]
    BY <1>1, <2>1
  <2>3. QED
    BY <2>2
<1>3. ASSUME NEW x \in DOMAIN t PROVE \E p \in DOMAIN k : k[p].key = t[x].key
  <2>1. PICK i \in DOMAIN t : q[i] = x
    BY <1>1
  <2>2. PICK p \in DOMAIN k : k[p].key = s[i].key
    BY <1>1 DEF KeptInv
  <2>3. QED
    BY <1>1, <2>1, <2>2
<1>4. {r.key : r \in Range(k)} = {r.key : r \in Range(t)}
  BY <1>2, <1>3 DEF Range
<1>5. QED
  BY <1>4 DEF KeptInv

-----------------------------------------------------------------------------
(***************************************************************************)
(* The inductive invariant: between the steps of writeBatch the slice is   *)
(* the batch in another order, and then what the loop keeps of it.         *)
(***************************************************************************)
RecordsInv ==
    /\ batch \in Seq(Recs) /\ records \in Seq(Recs)
    /\ pc \in {"gathered", "sorted", "deduplicated", "written", "cut"}
    /\ pc = "gathered" => records = batch
    /\ pc = "sorted" => \E q : Reorders(q, records, batch)
    /\ KeysInOrder

LEMMA RecordsInitially == Init => RecordsInv
<1> SUFFICES ASSUME Init PROVE RecordsInv
  OBVIOUS
<1>1. PICK m \in 0..MaxRecords : batch \in [1..m -> Recs]
  BY DEF Init, BoundedSeq, SeqOf, Recs
<1>2. m \in Nat /\ MaxRecords \in Nat
  BY BatchRecordsAssumption
<1>3. batch \in Seq(Recs) /\ Len(batch) = m
  BY <1>1, <1>2
<1>4. QED
  BY <1>1, <1>2, <1>3 DEF RecordsInv, Init, KeysInOrder

\* The slice after the loop.
LEMMA DeduplicateStep ==
    ASSUME RecordsInv, Deduplicate
    PROVE  /\ records' \in Seq(Recs)
           /\ \E q : Reorders(q, records, batch) /\ KeptInv(records', Len(records), records)
<1>1. PICK q : Reorders(q, records, batch)
  BY DEF RecordsInv, Deduplicate
<1>2. IsSortedByKey(records) /\ records \in Seq(Recs)
  BY <1>1, ReorderedRecords DEF RecordsInv
<1>3. \A r \in Recs : Len(r.key) \in Nat
  BY RecordKeys
<1>4. records' = FoldLeft(Keep, <<>>, records)
  BY DEF Deduplicate
<1>5. QED
  BY <1>1, <1>2, <1>3, <1>4, Deduplicated

LEMMA RecordsStep == RecordsInv /\ [Next]_vars => RecordsInv'
<1> SUFFICES ASSUME RecordsInv, [Next]_vars PROVE RecordsInv'
  OBVIOUS
<1>1. CASE SortRecords
  <2>1. \E q : Reorders(q, records', batch)
    BY <1>1, SortReorders DEF SortRecords, RecordsInv
  <2>2. records' \in Seq(Recs)
    BY <2>1, ReorderedRecords DEF RecordsInv
  <2>3. QED
    BY <1>1, <2>1, <2>2 DEF RecordsInv, SortRecords, KeysInOrder
<1>2. CASE Deduplicate
  <2>1. PICK q : Reorders(q, records, batch) /\ KeptInv(records', Len(records), records)
    BY <1>2, DeduplicateStep
  <2>2. /\ {r.key : r \in Range(records')} = {r.key : r \in Range(batch)}
        /\ \A i, j \in DOMAIN records' : i < j => Less(records'[i].key, records'[j].key)
    BY <2>1, KeysOfKept DEF RecordsInv
  <2>3. records' \in Seq(Recs)
    BY <1>2, DeduplicateStep
  <2>4. QED
    BY <1>2, <2>2, <2>3 DEF RecordsInv, Deduplicate, KeysInOrder
<1>3. CASE WriteFile
  BY <1>3 DEF RecordsInv, WriteFile, KeysInOrder
<1>4. CASE Truncate
  BY <1>4 DEF RecordsInv, Truncate, KeysInOrder
<1>5. CASE UNCHANGED vars
  BY <1>5 DEF RecordsInv, vars, KeysInOrder
<1>6. QED
  BY <1>1, <1>2, <1>3, <1>4, <1>5 DEF Next

\* The slice of writeBatch is made of the records of the batch throughout.
THEOREM RecordsInvariance == Spec => []RecordsInv
BY RecordsInitially, RecordsStep, PTL DEF Spec

\* An object holds each key of its batch once, in order, whatever order
\* sort.Slice leaves equal keys in.
THEOREM ObjectsAreSorted == Spec => []KeysInOrder
<1>1. RecordsInv => KeysInOrder
  BY DEF RecordsInv
<1>2. QED
  BY RecordsInvariance, <1>1, PTL

\* What writeBatch keeps of "only the last occurrence of each key", in batches of
\* every size: its loop drops a record only for one of the same key that the
\* sort left behind it.
THEOREM LatestWriteSurvives == Spec => KeepsLastSorted
<1> DEFINE LaterTakesOver ==
      pc = "sorted" =>
        \A i \in DOMAIN records :
          \/ records[i] \in Range(records')
          \/ \E j \in i + 1..Len(records) : records[j].key = records[i].key
<1>1. RecordsInv /\ [Next]_vars => [LaterTakesOver]_vars
  <2> SUFFICES ASSUME RecordsInv, [Next]_vars, pc = "sorted", vars' # vars,
                      NEW i \in DOMAIN records
               PROVE  \/ records[i] \in Range(records')
                      \/ \E j \in i + 1..Len(records) : records[j].key = records[i].key
    OBVIOUS
  <2>1. Deduplicate
    BY DEF Next, SortRecords, WriteFile, Truncate, vars
  <2>2. KeptInv(records', Len(records), records)
    BY <2>1, DeduplicateStep
  <2>3. i \in 1..Len(records)
    BY DEF RecordsInv
  <2>4. CASE \E p \in DOMAIN records' : records'[p] = records[i]
    BY <2>4 DEF Range
  <2>5. QED
    BY <2>2, <2>3, <2>4 DEF KeptInv
<1>2. QED
  BY RecordsInvariance, <1>1, PTL DEF Spec, KeepsLastSorted

-----------------------------------------------------------------------------
(* Varints.                                                                 *)

Bytes == 0..255

UvarintOf(g, n) == IF n < 128 THEN <<n>> ELSE <<128 + (n % 128)>> \o g[n \div 128]

IsUvarint(g, S) == g = [n \in S |-> UvarintOf(g, n)]

LEMMA HighBits == \A n \in Nat : n >= 128 => n \div 128 \in Nat /\ n \div 128 < n /\ n \div 128 # 0
OBVIOUS

\* Two such functions agree where both are defined.
LEMMA UvarintsAgree ==
    ASSUME NEW k \in Nat, NEW m \in Nat, NEW g, NEW h, IsUvarint(g, 0..k), IsUvarint(h, 0..m),
           NEW n \in Nat, n =< k, n =< m
    PROVE  g[n] = h[n]
<1> DEFINE Bad == {i \in Nat : i =< k /\ i =< m /\ g[i] # h[i]}
<1>1. SUFFICES ASSUME Bad # {} PROVE FALSE
  OBVIOUS
<1>2. PICK i \in Bad : \A j \in Bad : i =< j
  <2>1. Bad \subseteq Nat
    OBVIOUS
  <2> HIDE DEF Bad
  <2>2. QED
    BY <1>1, <2>1, Least
<1>3. i \in Nat /\ i =< k /\ i =< m /\ g[i] # h[i]
  BY <1>2
<1>4. g[i] = UvarintOf(g, i) /\ h[i] = UvarintOf(h, i)
  <2>1. i \in 0..k /\ i \in 0..m
    BY <1>3
  <2>2. QED
    BY <2>1 DEF IsUvarint
<1>5. i >= 128
  BY <1>3, <1>4 DEF UvarintOf
<1>6. g[i \div 128] = h[i \div 128]
  <2>1. i \div 128 \in Nat /\ i \div 128 < i
    BY <1>3, <1>5, HighBits
  <2>2. ~ (i \div 128 \in Bad)
    BY <1>2, <1>3, <2>1
  <2>3. QED
    BY <1>3, <2>1, <2>2
<1>7. QED
  BY <1>3, <1>4, <1>6 DEF UvarintOf

LEMMA UvarintExistsUpTo ==
    ASSUME NEW m \in Nat
    PROVE  \E g : IsUvarint(g, 0..m)
<1> DEFINE Bad == {k \in Nat : ~ \E g : IsUvarint(g, 0..k)}
<1>1. SUFFICES ASSUME Bad # {} PROVE FALSE
  OBVIOUS
<1>2. PICK k \in Bad : \A j \in Bad : k =< j
  <2>1. Bad \subseteq Nat
    OBVIOUS
  <2> HIDE DEF Bad
  <2>2. QED
    BY <1>1, <2>1, Least
<1>3. k \in Nat /\ ~ \E g : IsUvarint(g, 0..k)
  BY <1>2
<1> DEFINE h == CHOOSE g : IsUvarint(g, 0..(k - 1))
           f == [n \in 0..k |-> UvarintOf(h, n)]
<1>4. k # 0 => IsUvarint(h, 0..(k - 1))
  <2>1. SUFFICES ASSUME k # 0 PROVE \E g : IsUvarint(g, 0..(k - 1))
    OBVIOUS
  <2>2. k - 1 \in Nat /\ ~ (k =< k - 1)
    BY <1>3, <2>1
  <2>3. ~ (k - 1 \in Bad)
    BY <1>2, <2>2
  <2>4. QED
    BY <2>2, <2>3
<1> HIDE DEF h, Bad
<1>5. \A n \in 0..k : UvarintOf(h, n) = UvarintOf(f, n)
  <2>1. ASSUME NEW n \in 0..k, n >= 128 PROVE h[n \div 128] = f[n \div 128]
    <3>1. /\ n \div 128 \in 0..k /\ n \div 128 \in 0..(k - 1) /\ k # 0
      BY <1>3, <2>1, HighBits
    <3>2. f[n \div 128] = UvarintOf(h, n \div 128)
      BY <3>1
    <3>3. h[n \div 128] = UvarintOf(h, n \div 128)
      BY <1>4, <3>1 DEF IsUvarint
    <3>4. QED
      BY <3>2, <3>3
  <2> HIDE DEF f
  <2>2. ASSUME NEW n \in 0..k PROVE UvarintOf(h, n) = UvarintOf(f, n)
    <3>1. CASE n < 128
      BY <3>1 DEF UvarintOf
    <3>2. CASE n >= 128
      <4>1. h[n \div 128] = f[n \div 128]
        BY <2>1, <3>2
      <4>2. QED
        BY <4>1 DEF UvarintOf
    <3>3. QED
      BY <1>3, <3>1, <3>2
  <2>3. QED
    BY <2>2
<1>6. IsUvarint(f, 0..k)
  <2>1. f = [n \in 0..k |-> f[n]] /\ \A n \in 0..k : f[n] = UvarintOf(h, n)
    OBVIOUS
  <2> HIDE DEF f
  <2>2. \A n \in 0..k : f[n] = UvarintOf(f, n)
    BY <1>5, <2>1
  <2>3. QED
    BY <2>1, <2>2 DEF IsUvarint
<1>7. QED
  BY <1>3, <1>6

\* AppendUvarint is the function its definition describes.
LEMMA UvarintUnfolds == \A n \in Nat : AppendUvarint[n] = UvarintOf(AppendUvarint, n)
<1> DEFINE h(n) == CHOOSE g : IsUvarint(g, 0..n)
           f == [n \in Nat |-> h(n)[n]]
<1>1. \A n \in Nat : IsUvarint(h(n), 0..n)
  BY UvarintExistsUpTo
<1> HIDE DEF h
<1>2. ASSUME NEW n \in Nat PROVE f[n] = UvarintOf(f, n)
  <2>1. h(n)[n] = UvarintOf(h(n), n)
    <3>1. n \in 0..n
      OBVIOUS
    <3>2. QED
      BY <1>1, <3>1 DEF IsUvarint
  <2>2. n >= 128 => h(n)[n \div 128] = h(n \div 128)[n \div 128]
    <3> SUFFICES ASSUME n >= 128 PROVE h(n)[n \div 128] = h(n \div 128)[n \div 128]
      OBVIOUS
    <3>1. n \div 128 \in Nat /\ n \div 128 =< n /\ n \div 128 =< n \div 128
      BY HighBits
    <3>2. IsUvarint(h(n), 0..n) /\ IsUvarint(h(n \div 128), 0..(n \div 128))
      BY <1>1, <3>1
    <3>3. QED
      BY <3>1, <3>2, UvarintsAgree
  <2>3. n >= 128 => f[n \div 128] = h(n \div 128)[n \div 128]
    BY HighBits
  <2>4. f[n] = h(n)[n]
    OBVIOUS
  <2> HIDE DEF f
  <2>5. QED
    BY <2>1, <2>2, <2>3, <2>4 DEF UvarintOf
<1>3. IsUvarint(f, Nat)
  <2>1. f = [n \in Nat |-> f[n]]
    OBVIOUS
  <2> HIDE DEF f
  <2>2. QED
    BY <1>2, <2>1 DEF IsUvarint
<1>4. AppendUvarint = CHOOSE g : IsUvarint(g, Nat)
  BY DEF AppendUvarint, IsUvarint, UvarintOf
<1>5. IsUvarint(AppendUvarint, Nat)
  BY <1>3, <1>4
<1>6. QED
  BY <1>5 DEF IsUvarint

LEMMA UvarintIsBytes ==
    ASSUME NEW n \in Nat
    PROVE  AppendUvarint[n] \in Seq(Bytes)
<1> DEFINE Bad == {i \in Nat : AppendUvarint[i] \notin Seq(Bytes)}
<1>1. SUFFICES ASSUME Bad # {} PROVE FALSE
  OBVIOUS
<1>2. PICK i \in Bad : \A j \in Bad : i =< j
  <2>1. Bad \subseteq Nat
    OBVIOUS
  <2> HIDE DEF Bad
  <2>2. QED
    BY <1>1, <2>1, Least
<1>3. i \in Nat /\ AppendUvarint[i] \notin Seq(Bytes)
  BY <1>2
<1>4. AppendUvarint[i] = UvarintOf(AppendUvarint, i)
  BY <1>3, UvarintUnfolds
<1>5. CASE i < 128
  <2>1. i \in Bytes
    BY <1>3, <1>5 DEF Bytes
  <2>2. QED
    BY <1>3, <1>4, <1>5, <2>1 DEF UvarintOf
<1>6. CASE i >= 128
  <2>1. i \div 128 \in Nat /\ i \div 128 < i
    BY <1>3, <1>6, HighBits
  <2>2. AppendUvarint[i \div 128] \in Seq(Bytes)
    BY <1>2, <1>3, <2>1
  <2>3. 128 + (i % 128) \in Bytes
    BY <1>3 DEF Bytes
  <2>4. <<128 + (i % 128)>> \o AppendUvarint[i \div 128] \in Seq(Bytes)
    BY <2>2, <2>3
  <2>5. QED
    BY <1>3, <1>4, <1>6, <2>4 DEF UvarintOf
<1>7. QED
  BY <1>3, <1>5, <1>6

-----------------------------------------------------------------------------
(***************************************************************************)
(* The size of a file.  WriteRecords and ComputeSize both go through the   *)
(* records one by one; at every record the buffer is as long as the size   *)
(* computed so far.                                                        *)
(***************************************************************************)
SizeOf(r) ==
    Len(AppendUvarint[KeyLen(r)]) + Len(r.key)
      + (IF r.tombstone THEN 0 ELSE Len(AppendUvarint[Len(r.value)]) + Len(r.value))

LEMMA RecordBytes ==
    ASSUME NEW r \in Recs
    PROVE  /\ r.key \in Seq(Bytes) /\ r.value \in Seq(Bytes) /\ r.tombstone \in BOOLEAN
           /\ AppendUvarint[KeyLen(r)] \in Seq(Bytes) /\ AppendUvarint[Len(r.value)] \in Seq(Bytes)
<1>1. \A n \in Nat, b \in Bytes : Filled(n, b) \in Seq(Bytes)
  BY DEF Filled
<1>2. 97 \in Bytes /\ 255 \in Bytes /\ <<>> \in Seq(Bytes)
  BY DEF Bytes
<1>3. r.key \in Seq(Bytes) /\ r.value \in Seq(Bytes) /\ r.tombstone \in BOOLEAN
  <2>1. CASE r \in Puts
    <3>1. PICK n \in KeyLengths, m \in ValueLengths :
            r = [key |-> Filled(n, 97), value |-> Filled(m, 255), tombstone |-> FALSE]
      BY <2>1 DEF Puts
    <3>2. r.key = Filled(n, 97) /\ r.value = Filled(m, 255) /\ r.tombstone = FALSE
      BY <3>1
    <3>3. n \in Nat /\ m \in Nat
      BY BatchRecordsAssumption
    <3>4. r.key \in Seq(Bytes)
      BY <1>1, <1>2, <3>2, <3>3
    <3>5. r.value \in Seq(Bytes)
      BY <1>1, <1>2, <3>2, <3>3
    <3>6. QED
      BY <3>2, <3>4, <3>5
  <2>2. CASE r \in Deletes
    <3>1. PICK n \in KeyLengths : r = [key |-> Filled(n, 97), value |-> <<>>, tombstone |-> TRUE]
      BY <2>2 DEF Deletes
    <3>2. r.key = Filled(n, 97) /\ r.value = <<>> /\ r.tombstone = TRUE
      BY <3>1
    <3>3. n \in Nat
      BY BatchRecordsAssumption
    <3>4. QED
      BY <1>1, <1>2, <3>2, <3>3
  <2>3. QED
    BY <2>1, <2>2 DEF Recs
<1>4. Len(r.key) \in Nat /\ Len(r.value) \in Nat /\ KeyLen(r) \in Nat
  <2>1. \A k \in Seq(Bytes) : Len(k) \in Nat
    OBVIOUS
  <2>2. \A n \in Nat : 2 * n \in Nat /\ (2 * n) + 1 \in Nat /\ (2 * n) + 0 \in Nat
    OBVIOUS
  <2>3. KeyLen(r) = (2 * Len(r.key)) + 1 \/ KeyLen(r) = (2 * Len(r.key)) + 0
    BY DEF KeyLen
  <2>4. QED
    BY <1>3, <2>1, <2>2, <2>3
<1>5. /\ AppendUvarint[KeyLen(r)] \in Seq(Bytes)
      /\ AppendUvarint[Len(r.value)] \in Seq(Bytes)
  BY <1>4, UvarintIsBytes
<1>6. QED
  BY <1>3, <1>5

LEMMA EncodedSize ==
    ASSUME NEW r \in Recs
    PROVE  Encoded(r) \in Seq(Bytes) /\ SizeOf(r) \in Nat /\ Len(Encoded(r)) = SizeOf(r)
<1>1. \A s, t \in Seq(Bytes) : s \o t \in Seq(Bytes) /\ Len(s \o t) = Len(s) + Len(t) /\ Len(s) \in Nat
  OBVIOUS
<1> DEFINE value == IF r.tombstone THEN <<>> ELSE AppendUvarint[Len(r.value)] \o r.value
           size == IF r.tombstone THEN 0 ELSE Len(AppendUvarint[Len(r.value)]) + Len(r.value)
<1>2. value \in Seq(Bytes) /\ Len(value) = size
  <2>1. <<>> \in Seq(Bytes) /\ Len(<<>>) = 0
    OBVIOUS
  <2>2. QED
    BY <1>1, <2>1, RecordBytes
<1>3. Encoded(r) = AppendUvarint[KeyLen(r)] \o r.key \o value
  BY DEF Encoded
<1>4. SizeOf(r) = Len(AppendUvarint[KeyLen(r)]) + Len(r.key) + size
  BY DEF SizeOf
<1> DEFINE head == AppendUvarint[KeyLen(r)]
           key == r.key
<1>5. head \in Seq(Bytes) /\ key \in Seq(Bytes)
  BY RecordBytes
<1> HIDE DEF value, size, head, key
<1>6. /\ head \o key \in Seq(Bytes) /\ Len(head \o key) = Len(head) + Len(key)
      /\ Len(head) \in Nat /\ Len(key) \in Nat /\ Len(value) \in Nat
  BY <1>1, <1>2, <1>5
<1>7. /\ (head \o key) \o value \in Seq(Bytes)
      /\ Len((head \o key) \o value) = Len(head) + Len(key) + size
      /\ Len(head) + Len(key) + size \in Nat
  BY <1>1, <1>2, <1>6
<1>8. QED
  BY <1>3, <1>4, <1>7 DEF head, key

\* ComputeSize adds the parts of a record's size one by one.
AddSize(a, r) ==
    a + Len(AppendUvarint[KeyLen(r)]) + Len(r.key)
      + (IF r.tombstone THEN 0 ELSE Len(AppendUvarint[Len(r.value)]) + Len(r.value))

LEMMA SizeSummands ==
    ASSUME NEW r \in Recs, NEW a \in Nat
    PROVE  AddSize(a, r) = a + SizeOf(r)
<1> DEFINE head == Len(AppendUvarint[KeyLen(r)])
           key == Len(r.key)
           size == IF r.tombstone THEN 0 ELSE Len(AppendUvarint[Len(r.value)]) + Len(r.value)
<1>1. \A s \in Seq(Bytes) : Len(s) \in Nat
  OBVIOUS
<1>2. head \in Nat /\ key \in Nat /\ size \in Nat
  <2>1. /\ Len(AppendUvarint[KeyLen(r)]) \in Nat /\ Len(r.key) \in Nat
        /\ Len(AppendUvarint[Len(r.value)]) \in Nat /\ Len(r.value) \in Nat
    BY <1>1, RecordBytes
  <2>2. \A m, n \in Nat : m + n \in Nat
    OBVIOUS
  <2>3. QED
    BY <2>1, <2>2
<1>3. AddSize(a, r) = a + head + key + size /\ SizeOf(r) = head + key + size
  BY DEF AddSize, SizeOf
<1> HIDE DEF head, key, size
<1>4. QED
  BY <1>2, <1>3

\* The functions behind the folds of WriteRecords and ComputeSize.
IsWriteFold(k, s) ==
    k = [T \in SUBSET DOMAIN s |->
           IF T = {} THEN AppendUvarint[currentVersion] ELSE k[T \ {Max(T)}] \o Encoded(s[Max(T)])]

IsSizeFold(k, s) ==
    k = [T \in SUBSET DOMAIN s |->
           IF T = {} THEN Len(AppendUvarint[currentVersion]) ELSE AddSize(k[T \ {Max(T)}], s[Max(T)])]

LEMMA WriteIsFold == \A s : WriteRecords(s) = (CHOOSE k : IsWriteFold(k, s))[DOMAIN s]
BY DEF WriteRecords, FoldLeft, MapThenFoldSet, IsWriteFold

LEMMA SizeIsFold == \A s : ComputeSize(s) = (CHOOSE k : IsSizeFold(k, s))[DOMAIN s]
BY DEF ComputeSize, FoldLeft, MapThenFoldSet, IsSizeFold, AddSize

LEMMA WriteFoldExists ==
    ASSUME NEW s \in Seq(Recs)
    PROVE  \E k : IsWriteFold(k, s)
<1> DEFINE n == Len(s)
           A == Seq(Bytes)
           base == AppendUvarint[currentVersion]
           F == [i \in 1..n |-> [a \in A |-> a \o Encoded(s[i])]]
<1>1. n \in Nat /\ DOMAIN s = 1..n /\ \A i \in 1..n : s[i] \in Recs
  OBVIOUS
<1>2. \A i \in 1..n : \A a \in A : F[i][a] = a \o Encoded(s[i]) /\ F[i][a] \in A
  BY <1>1, EncodedSize
<1>3. base \in A
  BY UvarintIsBytes DEF currentVersion
<1>4. \A i \in 1..n : \A a \in A : F[i][a] \in A
  BY <1>2
<1>5. \A i \in 1..n : \A a \in A : F[i][a] = a \o Encoded(s[i])
  BY <1>2
<1> HIDE DEF n, A, base, F
<1>6. PICK g : IsPositionFold(F, base, n, A, g)
  BY <1>1, <1>3, <1>4, FoldOfPositions
<1>7. \A T \in SUBSET (1..n) : g[T] = IF T = {} THEN base ELSE g[T \ {Max(T)}] \o Encoded(s[Max(T)])
  BY <1>5, <1>6 DEF IsPositionFold
<1>8. g = [T \in SUBSET (1..n) |-> g[T]]
  BY <1>6 DEF IsPositionFold
<1>9. IsWriteFold(g, s)
  BY <1>1, <1>7, <1>8 DEF IsWriteFold, base
<1>10. QED
  BY <1>9

LEMMA SizeFoldExists ==
    ASSUME NEW s \in Seq(Recs)
    PROVE  \E k : IsSizeFold(k, s)
<1> DEFINE n == Len(s)
           base == Len(AppendUvarint[currentVersion])
           F == [i \in 1..n |-> [a \in Nat |-> a + SizeOf(s[i])]]
<1>1. n \in Nat /\ DOMAIN s = 1..n /\ \A i \in 1..n : s[i] \in Recs
  OBVIOUS
<1>2. \A i \in 1..n : \A a \in Nat : F[i][a] = a + SizeOf(s[i]) /\ F[i][a] \in Nat
  BY <1>1, EncodedSize
<1>3. base \in Nat
  BY UvarintIsBytes DEF currentVersion
<1>4. \A i \in 1..n : \A a \in Nat : F[i][a] \in Nat
  BY <1>2
<1>5. \A i \in 1..n : \A a \in Nat : F[i][a] = AddSize(a, s[i])
  BY <1>1, <1>2, SizeSummands
<1> HIDE DEF n, base, F
<1>6. PICK g : IsPositionFold(F, base, n, Nat, g)
  BY <1>1, <1>3, <1>4, FoldOfPositions
<1>7. \A T \in SUBSET (1..n) : g[T] = IF T = {} THEN base ELSE AddSize(g[T \ {Max(T)}], s[Max(T)])
  BY <1>5, <1>6 DEF IsPositionFold
<1>8. g = [T \in SUBSET (1..n) |-> g[T]]
  BY <1>6 DEF IsPositionFold
<1>9. IsSizeFold(g, s)
  BY <1>1, <1>7, <1>8 DEF IsSizeFold, base
<1>10. QED
  BY <1>9

\* The buffer is as long as the size computed for it.
LEMMA FileSize ==
    ASSUME NEW s \in Seq(Recs)
    PROVE  Len(WriteRecords(s)) = ComputeSize(s)
<1> DEFINE n == Len(s)
           w == CHOOSE k : IsWriteFold(k, s)
           z == CHOOSE k : IsSizeFold(k, s)
<1>1. n \in Nat /\ DOMAIN s = 1..n /\ \A i \in 1..n : s[i] \in Recs
  OBVIOUS
<1>2. IsWriteFold(w, s) /\ IsSizeFold(z, s)
  BY WriteFoldExists, SizeFoldExists
<1>3. WriteRecords(s) = w[1..n] /\ ComputeSize(s) = z[1..n]
  BY <1>1, WriteIsFold, SizeIsFold
<1> DEFINE Exact(m) == w[1..m] \in Seq(Bytes) /\ z[1..m] = Len(w[1..m])
           Bad == {m \in 0..n : ~ Exact(m)}
<1> HIDE DEF n, w, z
<1>4. Exact(0)
  <2>1. 1..0 = {} /\ {} \in SUBSET DOMAIN s
    OBVIOUS
  <2>2. w[{}] = AppendUvarint[currentVersion] /\ z[{}] = Len(AppendUvarint[currentVersion])
    BY <1>2, <2>1 DEF IsWriteFold, IsSizeFold
  <2>3. AppendUvarint[currentVersion] \in Seq(Bytes)
    BY UvarintIsBytes DEF currentVersion
  <2>4. QED
    BY <2>1, <2>2, <2>3
<1>5. ASSUME NEW m \in 1..n, Exact(m - 1) PROVE Exact(m)
  <2> DEFINE r == s[m]
  <2>1. r \in Recs /\ m \in Nat /\ m # 0 /\ 1..m \in SUBSET (1..n)
    BY <1>1
  <2>2. 1..m # {} /\ Max(1..m) = m /\ (1..m) \ {m} = 1..(m - 1)
    BY <2>1, LastPosition
  <2>3. w[1..m] = w[1..(m - 1)] \o Encoded(r)
    BY <1>1, <1>2, <2>1, <2>2 DEF IsWriteFold
  <2>4. z[1..m] = AddSize(z[1..(m - 1)], r)
    BY <1>1, <1>2, <2>1, <2>2 DEF IsSizeFold
  <2>5. w[1..(m - 1)] \in Seq(Bytes) /\ z[1..(m - 1)] = Len(w[1..(m - 1)]) /\ z[1..(m - 1)] \in Nat
    BY <1>5
  <2> HIDE DEF r
  <2>6. z[1..m] = z[1..(m - 1)] + SizeOf(r)
    BY <2>1, <2>4, <2>5, SizeSummands
  <2>7. Encoded(r) \in Seq(Bytes) /\ Len(Encoded(r)) = SizeOf(r)
    BY <2>1, EncodedSize
  <2>8. \A u, v \in Seq(Bytes) : u \o v \in Seq(Bytes) /\ Len(u \o v) = Len(u) + Len(v)
    OBVIOUS
  <2>9. QED
    BY <2>3, <2>5, <2>6, <2>7, <2>8
<1>6. Bad = {}
  <2>1. SUFFICES ASSUME Bad # {} PROVE FALSE
    OBVIOUS
  <2>2. PICK m \in Bad : \A l \in Bad : m =< l
    <3>1. Bad \subseteq Nat
      BY <1>1
    <3> HIDE DEF Bad
    <3>2. QED
      BY <2>1, <3>1, Least
  <2> HIDE DEF Exact
  <2>3. m \in 0..n /\ ~ Exact(m)
    BY <2>2
  <2>4. m \in 1..n /\ m - 1 \in 0..n
    BY <1>1, <1>4, <2>3
  <2>5. Exact(m - 1)
    BY <1>1, <2>2, <2>4
  <2>6. QED
    BY <1>5, <2>3, <2>4, <2>5
<1>7. QED
  BY <1>1, <1>3, <1>6

\* The size_bytes a batcher stores for its object, and the capacity of the
\* buffer it fills, are the length of the file it uploads.
THEOREM SizesAreExact == Spec => []SizeIsExact
<1>1. Init => SizeIsExact
  BY DEF Init, SizeIsExact
<1>2. RecordsInv /\ SizeIsExact /\ [Next]_vars => SizeIsExact'
  <2> SUFFICES ASSUME RecordsInv, SizeIsExact, [Next]_vars PROVE SizeIsExact'
    OBVIOUS
  <2>1. CASE WriteFile
    <3>1. Len(WriteRecords(records)) = ComputeSize(records)
      BY FileSize DEF RecordsInv
    <3>2. QED
      BY <2>1, <3>1 DEF WriteFile, SizeIsExact
  <2>2. CASE SortRecords \/ Deduplicate \/ Truncate
    BY <2>2 DEF SortRecords, Deduplicate, Truncate, SizeIsExact
  <2>3. CASE UNCHANGED vars
    BY <2>3 DEF vars, SizeIsExact
  <2>4. QED
    BY <2>1, <2>2, <2>3 DEF Next
<1>3. QED
  BY RecordsInvariance, <1>1, <1>2, PTL DEF Spec

-----------------------------------------------------------------------------
(***************************************************************************)
(* Reading a varint.  The reader looks for the first byte without the      *)
(* continuation bit and folds the bytes up to it from the right.           *)
(***************************************************************************)
\* Bytes is left unexpanded where sequences of bytes are concerned.
LEMMA BytesAreNumbers == \A b \in Bytes : b \in Nat
BY DEF Bytes

\* What the varint of n looks like: only its last byte has no continuation bit.
IsVarint(u) ==
    /\ u \in Seq(Bytes) /\ u # <<>>
    /\ u[Len(u)] < 128
    /\ \A i \in 1..(Len(u) - 1) : u[i] >= 128

Decode(s) == FoldRight(LAMBDA byte, v : (128 * v) + (byte % 128), s, 0)

\* d[i] is the value of s from position i on.
IsDecoding(d, s) ==
    /\ \A i \in 1..(Len(s) + 1) : d[i] \in Nat
    /\ d[Len(s) + 1] = 0
    /\ \A i \in 1..Len(s) : d[i] = (128 * d[i + 1]) + (s[i] % 128)

\* The function behind Decode.
IsDecodeFold(k, s) ==
    k = [T \in SUBSET DOMAIN s |->
           IF T = {} THEN 0 ELSE (128 * k[T \ {Min(T)}]) + (s[Min(T)] % 128)]

\* The fold of Uvarint is that function.
LEMMA DecodeIsFold == \A s : Decode(s) = (CHOOSE k : IsDecodeFold(k, s))[DOMAIN s]
BY DEF Decode, FoldRight, MapThenFoldSet, IsDecodeFold

\* There is such a function, and its values are numbers.
LEMMA DecodeFoldExists ==
    ASSUME NEW s \in Seq(Bytes)
    PROVE  \E k : IsDecodeFold(k, s) /\ \A T \in SUBSET DOMAIN s : k[T] \in Nat
<1> DEFINE n == Len(s)
           base == 0
           F == [i \in 1..n |-> [a \in Nat |-> (128 * a) + (s[i] % 128)]]
<1>1. n \in Nat /\ DOMAIN s = 1..n /\ \A i \in 1..n : s[i] \in Nat
  <2>1. n \in Nat /\ DOMAIN s = 1..n /\ \A i \in 1..n : s[i] \in Bytes
    OBVIOUS
  <2>2. QED
    BY <2>1, BytesAreNumbers
<1>2. \A i \in 1..n : \A a \in Nat : F[i][a] = (128 * a) + (s[i] % 128)
  OBVIOUS
<1>3. \A a, b \in Nat : (128 * a) + (b % 128) \in Nat
  OBVIOUS
<1>4. base \in Nat /\ \A i \in 1..n : \A a \in Nat : F[i][a] \in Nat
  BY <1>1, <1>2, <1>3
<1> HIDE DEF n, base, F
<1>5. PICK g : IsRightFold(F, base, n, Nat, g)
  BY <1>1, <1>4, FoldFromRight
<1>6. ASSUME NEW T \in SUBSET (1..n)
      PROVE  g[T] = IF T = {} THEN base ELSE (128 * g[T \ {Min(T)}]) + (s[Min(T)] % 128)
  <2>1. /\ T # {} => Min(T) \in 1..n /\ g[T \ {Min(T)}] \in Nat
        /\ g[T] = IF T = {} THEN base ELSE F[Min(T)][g[T \ {Min(T)}]]
    BY <1>5 DEF IsRightFold
  <2>2. T # {} => F[Min(T)][g[T \ {Min(T)}]] = (128 * g[T \ {Min(T)}]) + (s[Min(T)] % 128)
    BY <1>2, <2>1
  <2>3. QED
    BY <2>1, <2>2
<1>7. g = [T \in SUBSET (1..n) |-> g[T]]
  BY <1>5 DEF IsRightFold
<1>8. IsDecodeFold(g, s)
  BY <1>1, <1>6, <1>7 DEF IsDecodeFold, base
<1>9. ASSUME NEW T \in SUBSET (1..n) PROVE g[T] \in Nat
  <2>1. T # {} => Min(T) \in 1..n /\ g[T \ {Min(T)}] \in Nat
    BY <1>5 DEF IsRightFold
  <2>2. CASE T = {}
    BY <1>4, <1>6, <2>2
  <2>3. CASE T # {}
    <3>1. g[T] = (128 * g[T \ {Min(T)}]) + (s[Min(T)] % 128)
      BY <1>6, <2>3
    <3>2. QED
      BY <1>1, <1>3, <2>1, <2>3, <3>1
  <2>4. QED
    BY <2>2, <2>3
<1>10. QED
  BY <1>1, <1>8, <1>9

\* The fold goes through the bytes one by one, from the last one on.
LEMMA DecodingExists ==
    ASSUME NEW s \in Seq(Bytes)
    PROVE  \E d : IsDecoding(d, s) /\ Decode(s) = d[1]
<1> DEFINE n == Len(s)
           k == CHOOSE k : IsDecodeFold(k, s)
           d == [i \in 1..(n + 1) |-> k[i..n]]
<1>1. n \in Nat /\ DOMAIN s = 1..n
  OBVIOUS
<1>2. PICK g : IsDecodeFold(g, s) /\ \A T \in SUBSET DOMAIN s : g[T] \in Nat
  BY DecodeFoldExists
<1>3. IsDecodeFold(k, s)
  BY <1>2
<1>4. Decode(s) = k[1..n]
  BY <1>1, DecodeIsFold
<1> HIDE DEF n, k
<1>5. d[n + 1] = 0
  <2>1. (n + 1)..n = {} /\ {} \in SUBSET DOMAIN s /\ n + 1 \in 1..(n + 1)
    BY <1>1
  <2>2. k[{}] = 0
    BY <1>3, <2>1 DEF IsDecodeFold
  <2>3. QED
    BY <2>1, <2>2
<1>6. ASSUME NEW i \in 1..n PROVE d[i] = (128 * d[i + 1]) + (s[i] % 128)
  <2>1. i..n \in SUBSET DOMAIN s /\ i \in 1..(n + 1) /\ i + 1 \in 1..(n + 1)
    BY <1>1
  <2>2. i..n # {} /\ Min(i..n) = i /\ (i..n) \ {i} = (i + 1)..n
    BY <1>1, FirstPosition
  <2>3. k[i..n] = (128 * k[(i + 1)..n]) + (s[i] % 128)
    <3> DEFINE T == i..n
    <3>1. T \in SUBSET DOMAIN s
      BY <2>1
    <3>2. T # {} /\ Min(T) = i /\ T \ {i} = (i + 1)..n
      BY <2>2
    <3> HIDE DEF T
    <3>3. k[T] = IF T = {} THEN 0 ELSE (128 * k[T \ {Min(T)}]) + (s[Min(T)] % 128)
      BY <1>3, <3>1 DEF IsDecodeFold
    <3>4. k[T] = (128 * k[(i + 1)..n]) + (s[i] % 128)
      BY <3>2, <3>3
    <3>5. QED
      BY <3>4 DEF T
  <2>4. QED
    BY <2>1, <2>3
<1>7. \A i \in 1..(n + 1) : d[i] \in Nat
  <2> DEFINE S == {i \in 1..(n + 1) : d[i] \in Nat}
  <2>1. n + 1 \in S
    BY <1>1, <1>5
  <2>2. ASSUME NEW i \in 1..n, i + 1 \in S PROVE i \in S
    <3>1. d[i + 1] \in Nat /\ i \in 1..(n + 1) /\ s[i] \in Nat
      <4>1. s[i] \in Bytes /\ i \in 1..(n + 1)
        BY <1>1
      <4>2. QED
        BY <2>2, <4>1, BytesAreNumbers
    <3> HIDE DEF d
    <3>2. d[i] \in Nat
      BY <1>6, <3>1
    <3>3. QED
      BY <3>1, <3>2
  <2>3. 1 \in Nat /\ n + 1 \in Nat /\ (n + 1) - 1 = n
    BY <1>1
  <2> HIDE DEF S, d
  <2>4. \A i \in 1..(n + 1) : i \in S
    BY <2>1, <2>2, <2>3, DownFrom
  <2>5. QED
    BY <2>4 DEF S
<1>8. d[1] = k[1..n]
  BY <1>1
<1> HIDE DEF d
<1>9. QED
  BY <1>4, <1>5, <1>6, <1>7, <1>8 DEF IsDecoding, n

\* Whatever the bytes, the value is a number.
LEMMA DecodeType ==
    ASSUME NEW s \in Seq(Bytes)
    PROVE  Decode(s) \in Nat
<1>1. PICK d : IsDecoding(d, s) /\ Decode(s) = d[1]
  BY DecodingExists
<1>2. 1 \in 1..(Len(s) + 1)
  OBVIOUS
<1>3. QED
  BY <1>1, <1>2 DEF IsDecoding

\* Bytes have one value.
LEMMA DecodingsAgree ==
    ASSUME NEW s \in Seq(Bytes), NEW d, NEW e, IsDecoding(d, s), IsDecoding(e, s)
    PROVE  d[1] = e[1]
<1> DEFINE n == Len(s)
           S == {i \in 1..(n + 1) : d[i] = e[i]}
<1>1. n \in Nat
  OBVIOUS
<1>2. n + 1 \in S
  BY <1>1 DEF IsDecoding
<1>3. ASSUME NEW i \in 1..n, i + 1 \in S PROVE i \in S
  <2>1. d[i + 1] = e[i + 1] /\ i \in 1..(n + 1)
    BY <1>1, <1>3
  <2>2. d[i] = e[i]
    BY <2>1 DEF IsDecoding
  <2>3. QED
    BY <2>1, <2>2
<1>4. 1 \in Nat /\ n + 1 \in Nat /\ (n + 1) - 1 = n /\ 1 \in 1..(n + 1)
  BY <1>1
<1> HIDE DEF n, S
<1>5. 1 \in S
  BY <1>2, <1>3, <1>4, DownFrom
<1>6. QED
  BY <1>5 DEF S

\* AppendUvarint writes varints, and decoding them gives the number back.
LEMMA VarintDecodes ==
    ASSUME NEW n \in Nat
    PROVE  IsVarint(AppendUvarint[n]) /\ \E d : IsDecoding(d, AppendUvarint[n]) /\ d[1] = n
<1> DEFINE P(m) == IsVarint(AppendUvarint[m]) /\ \E d : IsDecoding(d, AppendUvarint[m]) /\ d[1] = m
           S == {m \in Nat : P(m)}
<1>1. ASSUME NEW m \in Nat, m < 128 PROVE P(m)
  <2>1. AppendUvarint[m] = <<m>> /\ m \in Bytes
    <3>1. AppendUvarint[m] = UvarintOf(AppendUvarint, m)
      BY UvarintUnfolds
    <3>2. QED
      BY <1>1, <3>1 DEF UvarintOf, Bytes
  <2>2. IsVarint(<<m>>)
    BY <1>1, <2>1 DEF IsVarint
  <2> DEFINE d == <<m, 0>>
  <2>3. IsDecoding(d, <<m>>)
    <3>1. Len(<<m>>) = 1 /\ <<m>>[1] = m /\ d[1] = m /\ d[2] = 0 /\ m % 128 = m
      BY <1>1
    <3> HIDE DEF d
    <3>2. QED
      BY <1>1, <3>1 DEF IsDecoding
  <2>4. d[1] = m
    OBVIOUS
  <2> HIDE DEF d
  <2>5. QED
    BY <2>1, <2>2, <2>3, <2>4
<1>2. ASSUME NEW m \in Nat, m >= 128, P(m \div 128) PROVE P(m)
  <2> DEFINE q == m \div 128
             b == 128 + (m % 128)
             v == AppendUvarint[q]
             u == <<b>> \o v
  <2>1. /\ q \in Nat /\ b \in Bytes /\ b >= 128 /\ b % 128 = m % 128
        /\ (128 * q) + (m % 128) = m
    BY <1>2 DEF Bytes
  <2>2. AppendUvarint[m] = u
    <3>1. AppendUvarint[m] = UvarintOf(AppendUvarint, m)
      BY UvarintUnfolds
    <3> HIDE DEF P, S
    <3>2. QED
      BY <1>2, <3>1 DEF UvarintOf
  <2>3. IsVarint(v)
    BY <1>2
  <2>4. PICK e : IsDecoding(e, v) /\ e[1] = q
    BY <1>2
  <2> DEFINE l == Len(v)
  <2>5. l \in Nat /\ l # 0 /\ v \in Seq(Bytes) /\ v[l] < 128 /\ \A i \in 1..(l - 1) : v[i] >= 128
    BY <2>3 DEF IsVarint
  <2> HIDE DEF q, b, v
  <2>6. /\ u \in Seq(Bytes) /\ Len(u) = l + 1 /\ u[1] = b
        /\ \A i \in 2..(l + 1) : u[i] = v[i - 1]
    BY <2>1, <2>5
  <2> HIDE DEF u, l
  <2>7. IsVarint(u)
    <3>1. u # <<>>
      BY <2>5, <2>6
    <3>2. u[l + 1] < 128
      BY <2>5, <2>6
    <3>3. ASSUME NEW i \in 1..l PROVE u[i] >= 128
      <4>1. CASE i = 1
        BY <2>1, <2>6, <4>1
      <4>2. CASE i # 1
        <5>1. i \in 2..(l + 1) /\ i - 1 \in 1..(l - 1)
          BY <2>5, <4>2
        <5>2. QED
          BY <2>5, <2>6, <5>1
      <4>3. QED
        BY <4>1, <4>2
    <3>4. QED
      BY <2>5, <2>6, <3>1, <3>2, <3>3 DEF IsVarint
  <2> DEFINE d == [i \in 1..(l + 2) |-> IF i = 1 THEN m ELSE e[i - 1]]
  <2>8. /\ \A i \in 1..(l + 1) : e[i] \in Nat
        /\ e[l + 1] = 0
        /\ \A i \in 1..l : e[i] = (128 * e[i + 1]) + (v[i] % 128)
    BY <2>4 DEF IsDecoding, l
  <2>9. /\ d[1] = m
        /\ \A i \in 2..(l + 2) : d[i] = e[i - 1]
    BY <2>5
  <2> HIDE DEF d
  <2>10. IsDecoding(d, u)
    <3>1. ASSUME NEW i \in 1..(l + 2) PROVE d[i] \in Nat
      <4>1. CASE i = 1
        BY <2>9, <4>1
      <4>2. CASE i # 1
        <5>1. i \in 2..(l + 2) /\ i - 1 \in 1..(l + 1)
          BY <2>5, <4>2
        <5>2. QED
          BY <2>8, <2>9, <5>1
      <4>3. QED
        BY <4>1, <4>2
    <3>2. d[l + 2] = 0
      <4>1. l + 2 \in 2..(l + 2) /\ (l + 2) - 1 = l + 1
        BY <2>5
      <4>2. QED
        BY <2>8, <2>9, <4>1
    <3>3. ASSUME NEW i \in 1..(l + 1) PROVE d[i] = (128 * d[i + 1]) + (u[i] % 128)
      <4>1. i + 1 \in 2..(l + 2) /\ (i + 1) - 1 = i
        BY <2>5
      <4>2. d[i + 1] = e[i]
        BY <2>9, <4>1
      <4>3. CASE i = 1
        BY <2>1, <2>4, <2>6, <2>9, <4>2, <4>3
      <4>4. CASE i # 1
        <5>1. i \in 2..(l + 2) /\ i \in 2..(l + 1) /\ i - 1 \in 1..l /\ (i - 1) + 1 = i
          BY <2>5, <4>4
        <5>2. d[i] = e[i - 1] /\ u[i] = v[i - 1] /\ e[i - 1] = (128 * e[i]) + (v[i - 1] % 128)
          BY <2>6, <2>8, <2>9, <5>1
        <5>3. QED
          BY <4>2, <5>2
      <4>5. QED
        BY <4>3, <4>4
    <3>4. Len(u) + 1 = l + 2 /\ Len(u) = l + 1
      BY <2>5, <2>6
    <3>5. QED
      BY <3>1, <3>2, <3>3, <3>4 DEF IsDecoding
  <2>11. QED
    BY <2>2, <2>7, <2>9, <2>10
<1>3. ASSUME NEW m \in Nat, \A i \in Nat : i < m => i \in S PROVE m \in S
  <2>1. CASE m < 128
    BY <1>1, <2>1
  <2>2. CASE m >= 128
    <3>1. m \div 128 \in S
      BY <1>3, <2>2, HighBits
    <3> HIDE DEF P
    <3>2. QED
      BY <1>2, <2>2, <3>1
  <2>3. QED
    BY <1>3, <2>1, <2>2
<1> HIDE DEF S, P
<1>4. \A m \in Nat : m \in S
  BY <1>3, AllNumbers
<1>5. QED
  BY <1>4 DEF S, P

\* Uvarint undoes AppendUvarint.
LEMMA DecodeVarint ==
    ASSUME NEW n \in Nat
    PROVE  Decode(AppendUvarint[n]) = n
<1>1. AppendUvarint[n] \in Seq(Bytes)
  BY UvarintIsBytes
<1>2. PICK d : IsDecoding(d, AppendUvarint[n]) /\ d[1] = n
  BY VarintDecodes
<1>3. PICK e : IsDecoding(e, AppendUvarint[n]) /\ Decode(AppendUvarint[n]) = e[1]
  BY <1>1, DecodingExists
<1>4. QED
  BY <1>1, <1>2, <1>3, DecodingsAgree

\* What there is of data from position pos on is the beginning of s.
Holds(data, pos, s) ==
    \A i \in 1..Len(s) : pos + i - 1 =< Len(data) => data[pos + i - 1] = s[i]

\* The positions where a varint at pos may end.
Ends(data, pos) ==
    {i \in pos..Len(data) : data[i] < 128 /\ \A j \in pos..(i - 1) : data[j] >= 128}

\* If s and t follow each other in the data, then each is at its place.
LEMMA HoldsParts ==
    ASSUME NEW data, Len(data) \in Nat, NEW pos \in Nat, NEW s \in Seq(Bytes), NEW t \in Seq(Bytes),
           Holds(data, pos, s \o t)
    PROVE  Holds(data, pos, s) /\ Holds(data, pos + Len(s), t)
<1>1. /\ Len(s) \in Nat /\ Len(t) \in Nat /\ Len(s \o t) = Len(s) + Len(t)
      /\ \A i \in 1..Len(s) : (s \o t)[i] = s[i] /\ i \in 1..(Len(s) + Len(t))
      /\ \A i \in 1..Len(t) : (s \o t)[Len(s) + i] = t[i] /\ Len(s) + i \in 1..(Len(s) + Len(t))
  OBVIOUS
<1> DEFINE st == s \o t
<1> HIDE DEF st
<1>2. Holds(data, pos, s)
  BY <1>1 DEF Holds
<1>3. ASSUME NEW i \in 1..Len(t), (pos + Len(s)) + i - 1 =< Len(data)
      PROVE  data[(pos + Len(s)) + i - 1] = t[i]
  <2>1. (pos + Len(s)) + i - 1 = pos + (Len(s) + i) - 1
    BY <1>1
  <2>2. data[pos + (Len(s) + i) - 1] = (s \o t)[Len(s) + i]
    BY <1>1, <1>3, <2>1 DEF Holds
  <2>3. QED
    BY <1>1, <2>1, <2>2
<1>4. QED
  BY <1>2, <1>3 DEF Holds

\* If there is all of s, then it can be cut out of the data.
LEMMA HeldPart ==
    ASSUME NEW data \in Seq(Bytes), NEW pos \in Nat \ {0}, NEW s \in Seq(Bytes),
           Holds(data, pos, s), pos + Len(s) - 1 =< Len(data)
    PROVE  SubSeq(data, pos, pos + Len(s) - 1) = s
<1> DEFINE n == Len(s)
           sub == SubSeq(data, pos, pos + n - 1)
<1>1. n \in Nat /\ Len(data) \in Nat
  OBVIOUS
<1>2. sub = [i \in 1..n |-> data[i + pos - 1]]
  <2>1. sub = [i \in 1..((pos + n - 1) - pos + 1) |-> data[i + pos - 1]]
    OBVIOUS
  <2>2. (pos + n - 1) - pos + 1 = n
    BY <1>1
  <2>3. QED
    BY <2>1, <2>2
<1>3. \A i \in 1..n : data[i + pos - 1] = s[i]
  <2>1. ASSUME NEW i \in 1..n PROVE data[i + pos - 1] = s[i]
    <3>1. i + pos - 1 = pos + i - 1 /\ pos + i - 1 =< Len(data)
      BY <1>1
    <3>2. QED
      BY <3>1 DEF Holds
  <2>2. QED
    BY <2>1
<1>4. s = [i \in 1..n |-> s[i]]
  OBVIOUS
<1> HIDE DEF n, sub
<1>5. sub = s
  BY <1>2, <1>3, <1>4
<1>6. QED
  BY <1>5 DEF sub, n

\* Uvarint decodes up to such a position, if there is one.
LEMMA UvarintCases ==
    ASSUME NEW data, NEW pos
    PROVE  /\ Ends(data, pos) = {} => Uvarint(data, pos) = [value |-> 0, n |-> 0]
           /\ Ends(data, pos) # {} =>
                \E last \in Ends(data, pos) :
                  Uvarint(data, pos) = [value |-> Decode(SubSeq(data, pos, last)), n |-> last - pos + 1]
<1> DEFINE last == CHOOSE i \in Ends(data, pos) : TRUE
<1>1. Uvarint(data, pos) = IF Ends(data, pos) = {} THEN [value |-> 0, n |-> 0]
                           ELSE [value |-> Decode(SubSeq(data, pos, last)), n |-> last - pos + 1]
  BY DEF Uvarint, Ends, Decode
<1>2. Ends(data, pos) # {} => last \in Ends(data, pos)
  OBVIOUS
<1> HIDE DEF last
<1>3. QED
  BY <1>1, <1>2

\* A varint that is whole is read as the number it was written for.
LEMMA UvarintWhole ==
    ASSUME NEW data \in Seq(Bytes), NEW pos \in Nat \ {0}, NEW n \in Nat,
           Holds(data, pos, AppendUvarint[n]), pos + Len(AppendUvarint[n]) - 1 =< Len(data)
    PROVE  Uvarint(data, pos) = [value |-> n, n |-> Len(AppendUvarint[n])]
<1> DEFINE u == AppendUvarint[n]
           l == Len(u)
           end == pos + l - 1
<1>1. IsVarint(u) /\ Decode(u) = n
  BY VarintDecodes, DecodeVarint
<1>2. /\ l \in Nat /\ l # 0 /\ u \in Seq(Bytes) /\ u[l] < 128
      /\ \A i \in 1..(l - 1) : u[i] >= 128
  BY <1>1 DEF IsVarint
<1>3. Holds(data, pos, u) /\ Len(data) \in Nat /\ end =< Len(data)
  OBVIOUS
<1> HIDE DEF u
<1>4. end \in pos..Len(data) /\ end \in Nat /\ end - pos + 1 = l
  BY <1>2, <1>3
<1>5. \A j \in pos..end : j - pos + 1 \in 1..l /\ data[j] = u[j - pos + 1]
  <2>1. ASSUME NEW j \in pos..end PROVE j - pos + 1 \in 1..l /\ data[j] = u[j - pos + 1]
    <3>1. j - pos + 1 \in 1..l /\ pos + (j - pos + 1) - 1 = j /\ j =< Len(data)
      BY <1>2, <1>3
    <3>2. QED
      BY <1>3, <3>1 DEF Holds
  <2>2. QED
    BY <2>1
<1>6. data[end] < 128
  BY <1>2, <1>4, <1>5
<1>7. \A j \in pos..(end - 1) : data[j] >= 128
  <2>1. ASSUME NEW j \in pos..(end - 1) PROVE data[j] >= 128
    <3>1. j \in pos..end /\ j - pos + 1 \in 1..(l - 1)
      BY <1>2, <1>4
    <3>2. QED
      BY <1>2, <1>5, <3>1
  <2>2. QED
    BY <2>1
<1> HIDE DEF end
<1>8. end \in Ends(data, pos)
  BY <1>4, <1>6, <1>7 DEF Ends
<1>9. ASSUME NEW last \in Ends(data, pos) PROVE last = end
  <2>1. last \in pos..Len(data) /\ data[last] < 128 /\ \A j \in pos..(last - 1) : data[j] >= 128
    BY DEF Ends
  <2>2. data[last] \in Nat /\ data[end] \in Nat
    <3>1. last \in 1..Len(data) /\ end \in 1..Len(data)
      BY <1>3, <1>4, <2>1
    <3>2. data[last] \in Bytes /\ data[end] \in Bytes
      BY <3>1
    <3>3. QED
      BY <3>2, BytesAreNumbers
  <2>3. ~ (last < end)
    <3>1. SUFFICES ASSUME last < end PROVE FALSE
      OBVIOUS
    <3>2. last \in pos..(end - 1)
      BY <1>4, <2>1, <3>1
    <3>3. data[last] >= 128
      BY <1>7, <3>2
    <3>4. QED
      BY <2>1, <2>2, <3>3
  <2>4. ~ (end < last)
    <3>1. SUFFICES ASSUME end < last PROVE FALSE
      OBVIOUS
    <3>2. end \in pos..(last - 1)
      BY <1>4, <2>1, <3>1
    <3>3. data[end] >= 128
      BY <2>1, <3>2
    <3>4. QED
      BY <1>6, <2>2, <3>3
  <2>5. QED
    BY <1>4, <2>1, <2>3, <2>4
<1>10. Uvarint(data, pos) = [value |-> Decode(SubSeq(data, pos, end)), n |-> end - pos + 1]
  BY <1>8, <1>9, UvarintCases
<1>11. SubSeq(data, pos, end) = u
  BY <1>2, <1>3, HeldPart DEF end
<1>12. QED
  BY <1>1, <1>4, <1>10, <1>11 DEF u

\* One that is cut off is not read.
LEMMA UvarintCut ==
    ASSUME NEW data \in Seq(Bytes), NEW pos \in Nat \ {0}, NEW n \in Nat,
           Holds(data, pos, AppendUvarint[n]), ~ (pos + Len(AppendUvarint[n]) - 1 =< Len(data))
    PROVE  Uvarint(data, pos) = [value |-> 0, n |-> 0]
<1> DEFINE u == AppendUvarint[n]
           l == Len(u)
<1>1. IsVarint(u)
  BY VarintDecodes
<1>2. l \in Nat /\ u \in Seq(Bytes) /\ \A i \in 1..(l - 1) : u[i] >= 128
  BY <1>1 DEF IsVarint
<1>3. Holds(data, pos, u) /\ Len(data) \in Nat /\ ~ (pos + l - 1 =< Len(data))
  OBVIOUS
<1> HIDE DEF u
<1>4. ASSUME NEW i \in pos..Len(data), data[i] < 128 PROVE FALSE
  <2>1. i - pos + 1 \in 1..(l - 1) /\ i - pos + 1 \in 1..l /\ pos + (i - pos + 1) - 1 = i
    BY <1>2, <1>3
  <2>2. data[i] = u[i - pos + 1]
    <3> DEFINE x == i - pos + 1
    <3>1. x \in 1..Len(u) /\ pos + x - 1 = i /\ i =< Len(data)
      BY <1>3, <2>1
    <3> HIDE DEF x
    <3>2. data[pos + x - 1] = u[x]
      BY <1>3, <3>1 DEF Holds
    <3>3. data[i] = u[x]
      BY <3>1, <3>2
    <3>4. QED
      BY <3>3 DEF x
  <2>3. data[i] >= 128
    BY <1>2, <2>1, <2>2
  <2>4. data[i] \in Nat
    <3>1. i \in 1..Len(data)
      BY <1>3
    <3>2. data[i] \in Bytes
      BY <3>1
    <3>3. QED
      BY <3>2, BytesAreNumbers
  <2>5. QED
    BY <1>4, <2>3, <2>4
<1>5. Ends(data, pos) = {}
  BY <1>4 DEF Ends
<1>6. QED
  BY <1>5, UvarintCases

\* Whatever the bytes, Uvarint gives a number, and how many bytes it took.
LEMMA UvarintType ==
    ASSUME NEW data \in Seq(Bytes), NEW pos \in Nat \ {0}
    PROVE  Uvarint(data, pos).value \in Nat /\ Uvarint(data, pos).n \in Nat
<1>1. CASE Ends(data, pos) = {}
  BY <1>1, UvarintCases
<1>2. CASE Ends(data, pos) # {}
  <2>1. PICK last \in Ends(data, pos) :
          Uvarint(data, pos) = [value |-> Decode(SubSeq(data, pos, last)), n |-> last - pos + 1]
    BY <1>2, UvarintCases
  <2>2. last \in pos..Len(data) /\ Len(data) \in Nat
    BY DEF Ends
  <2>3. SubSeq(data, pos, last) \in Seq(Bytes)
    <3>1. last \in Nat /\ last =< Len(data)
      BY <2>2
    <3>2. QED
      BY <3>1, PartOfSequence
  <2>4. Decode(SubSeq(data, pos, last)) \in Nat
    BY <2>3, DecodeType
  <2>5. last - pos + 1 \in Nat
    BY <2>2
  <2>6. QED
    BY <2>1, <2>4, <2>5
<1>3. QED
  BY <1>1, <1>2

-----------------------------------------------------------------------------
(***************************************************************************)
(* Reading a record: the cases in which the iterator gives up, and why     *)
(* none of them can take the beginning of a record for another one.        *)
(***************************************************************************)

\* RecordAt with its local definitions as parameters.
RecordIn(data, len, key, behind, vlen, value) ==
    IF len.n = 0 \/ behind - 1 > Len(data) THEN [ok |-> FALSE]
    ELSE IF len.value % 2 = 1
      THEN [ok |-> TRUE, next |-> behind,
            record |-> [key |-> SubSeq(data, key, behind - 1), value |-> <<>>, tombstone |-> TRUE]]
    ELSE IF vlen.n = 0 \/ value + vlen.value - 1 > Len(data) THEN [ok |-> FALSE]
    ELSE [ok |-> TRUE, next |-> value + vlen.value,
          record |-> [key |-> SubSeq(data, key, behind - 1),
                      value |-> SubSeq(data, value, value + vlen.value - 1), tombstone |-> FALSE]]

LEMMA RecordAtIs ==
    ASSUME NEW data, NEW pos,
           NEW len, len = Uvarint(data, pos),
           NEW key, key = pos + len.n,
           NEW behind, behind = key + (len.value \div 2),
           NEW vlen, vlen = Uvarint(data, behind),
           NEW value, value = behind + vlen.n
    PROVE  RecordAt(data, pos) = RecordIn(data, len, key, behind, vlen, value)
BY DEF RecordAt, RecordIn

\* Whatever the bytes, a record that is read ends behind pos and in the data.
LEMMA RecordAdvances ==
    ASSUME NEW data \in Seq(Bytes), NEW pos \in Nat \ {0}, RecordAt(data, pos).ok
    PROVE  RecordAt(data, pos).next \in (pos + 1)..(Len(data) + 1)
<1> DEFINE len == Uvarint(data, pos)
           key == pos + len.n
           behind == key + (len.value \div 2)
           vlen == Uvarint(data, behind)
           value == behind + vlen.n
           n == Len(data)
           r == RecordAt(data, pos)
<1>1. len.n \in Nat /\ len.value \in Nat /\ n \in Nat
  BY UvarintType
<1>2. behind \in Nat \ {0} /\ behind >= pos + len.n
  <2> DEFINE c == len.n
             half == len.value \div 2
  <2>1. c \in Nat /\ half \in Nat
    BY <1>1
  <2> HIDE DEF c, half, len
  <2>2. (pos + c) + half \in Nat \ {0} /\ (pos + c) + half >= pos + c
    BY <2>1
  <2>3. QED
    BY <2>2 DEF c, half
<1>3. vlen.n \in Nat /\ vlen.value \in Nat
  <2> HIDE DEF behind
  <2>1. QED
    BY <1>2, UvarintType
<1>4. r = RecordIn(data, len, key, behind, vlen, value)
  BY RecordAtIs
<1> HIDE DEF len, key, behind, vlen, value, n, r
<1>5. CASE len.n = 0 \/ behind - 1 > n
  <2>1. r = [ok |-> FALSE]
    BY <1>5, <1>4 DEF RecordIn, n
  <2>2. QED
    BY <2>1 DEF r
<1>6. CASE ~ (len.n = 0 \/ behind - 1 > n) /\ len.value % 2 = 1
  <2>1. r.next = behind
    BY <1>6, <1>4 DEF RecordIn, n
  <2>2. QED
    BY <1>1, <1>2, <1>6, <2>1 DEF r, n
<1>7. CASE ~ (len.n = 0 \/ behind - 1 > n) /\ len.value % 2 # 1
  <2>1. CASE vlen.n = 0 \/ value + vlen.value - 1 > n
    <3>1. r = [ok |-> FALSE]
      BY <1>7, <2>1, <1>4 DEF RecordIn, n
    <3>2. QED
      BY <3>1 DEF r
  <2>2. CASE ~ (vlen.n = 0 \/ value + vlen.value - 1 > n)
    <3>1. r.next = value + vlen.value
      BY <1>7, <2>2, <1>4 DEF RecordIn, n
    <3> DEFINE a == vlen.n
               b == vlen.value
               c == len.n
    <3>2. a \in Nat /\ b \in Nat /\ c \in Nat /\ c # 0 /\ ~ ((behind + a) + b - 1 > n) /\ behind >= pos + c
      BY <1>1, <1>2, <1>3, <1>7, <2>2 DEF value
    <3> HIDE DEF a, b, c
    <3>4. (behind + a) + b \in (pos + 1)..(n + 1)
      BY <1>1, <1>2, <3>2
    <3>5. QED
      BY <3>1, <3>4 DEF r, n, value, a, b
  <2>3. QED
    BY <2>1, <2>2
<1>8. QED
  BY <1>5, <1>6, <1>7

\* The length of a key and its tombstone bit share a varint.
LEMMA KeyLenParts ==
    ASSUME NEW r \in Recs
    PROVE  /\ KeyLen(r) \in Nat /\ KeyLen(r) \div 2 = Len(r.key)
           /\ r.tombstone <=> KeyLen(r) % 2 = 1
<1>1. Len(r.key) \in Nat /\ r.tombstone \in BOOLEAN
  BY RecordBytes
<1>2. \A n \in Nat : /\ (2 * n) + 1 \in Nat /\ ((2 * n) + 1) \div 2 = n /\ ((2 * n) + 1) % 2 = 1
                     /\ (2 * n) + 0 \in Nat /\ ((2 * n) + 0) \div 2 = n /\ ((2 * n) + 0) % 2 # 1
  OBVIOUS
<1>3. CASE r.tombstone
  <2>1. KeyLen(r) = (2 * Len(r.key)) + 1
    BY <1>3 DEF KeyLen
  <2>2. QED
    BY <1>1, <1>2, <1>3, <2>1
<1>4. CASE ~ r.tombstone
  <2>1. KeyLen(r) = (2 * Len(r.key)) + 0
    BY <1>4 DEF KeyLen
  <2>2. QED
    BY <1>1, <1>2, <1>4, <2>1
<1>5. QED
  BY <1>3, <1>4

\* A record takes at least a byte.
LEMMA RecordNotEmpty ==
    ASSUME NEW r \in Recs
    PROVE  Encoded(r) \in Seq(Bytes) /\ Len(Encoded(r)) \in Nat /\ Len(Encoded(r)) # 0
<1> DEFINE head == AppendUvarint[KeyLen(r)]
           value == IF r.tombstone THEN <<>> ELSE AppendUvarint[Len(r.value)] \o r.value
<1>1. head # <<>> /\ head \in Seq(Bytes)
  BY VarintDecodes, KeyLenParts DEF IsVarint
<1>2. r.key \in Seq(Bytes) /\ value \in Seq(Bytes)
  BY RecordBytes
<1>3. Encoded(r) = (head \o r.key) \o value
  BY DEF Encoded
<1>4. \A u, v \in Seq(Bytes) : u # <<>> => u \o v # <<>> /\ u \o v \in Seq(Bytes)
  OBVIOUS
<1>5. \A u \in Seq(Bytes) : u # <<>> => Len(u) \in Nat /\ Len(u) # 0
  OBVIOUS
<1> HIDE DEF head, value
<1>6. head \o r.key # <<>> /\ head \o r.key \in Seq(Bytes)
  BY <1>1, <1>2, <1>4
<1>7. Encoded(r) # <<>> /\ Encoded(r) \in Seq(Bytes)
  BY <1>2, <1>3, <1>4, <1>6
<1>8. QED
  BY <1>5, <1>7

\* A record is its key, its value and its tombstone; a delete has no value.
LEMMA RecordParts ==
    ASSUME NEW r \in Recs
    PROVE  /\ r = [key |-> r.key, value |-> r.value, tombstone |-> r.tombstone]
           /\ r.tombstone => r.value = <<>>
<1>1. CASE r \in Puts
  BY <1>1 DEF Puts
<1>2. CASE r \in Deletes
  BY <1>2 DEF Deletes
<1>3. QED
  BY <1>1, <1>2 DEF Recs

\* A record that is whole is read as it was written; one that is cut off
\* anywhere, in a length, the key or the value, is not read.
LEMMA RecordWhole ==
    ASSUME NEW data \in Seq(Bytes), NEW pos \in Nat \ {0}, NEW r \in Recs,
           Holds(data, pos, Encoded(r))
    PROVE  RecordAt(data, pos) =
             IF pos + Len(Encoded(r)) - 1 =< Len(data)
               THEN [ok |-> TRUE, next |-> pos + Len(Encoded(r)), record |-> r]
               ELSE [ok |-> FALSE]
<1> DEFINE n == Len(data)
           head == AppendUvarint[KeyLen(r)]
           vhead == AppendUvarint[Len(r.value)]
           lh == Len(head)
           lk == Len(r.key)
           lv == Len(vhead)
           lr == Len(r.value)
           k == pos + lh
           behind == k + lk
           v == behind + lv
           end == IF r.tombstone THEN behind ELSE v + lr
           len == Uvarint(data, pos)
           vlen == Uvarint(data, behind)
<1>1. /\ head \in Seq(Bytes) /\ vhead \in Seq(Bytes)
      /\ r.key \in Seq(Bytes) /\ r.value \in Seq(Bytes) /\ r.tombstone \in BOOLEAN
      /\ KeyLen(r) \in Nat /\ lr \in Nat
  BY RecordBytes, KeyLenParts
<1>2. n \in Nat /\ lh \in Nat \ {0} /\ lv \in Nat \ {0} /\ lk \in Nat /\ lr \in Nat /\ pos \in Nat \ {0}
  <2>1. \A u : IsVarint(u) => Len(u) \in Nat \ {0}
    BY DEF IsVarint
  <2>2. IsVarint(head) /\ IsVarint(vhead)
    BY <1>1, VarintDecodes
  <2>3. QED
    BY <1>1, <2>1, <2>2
<1>3. Holds(data, pos, head) /\ Holds(data, pos + lh, r.key)
  <2> HIDE DEF vhead
  <2> DEFINE first == head \o r.key
             second == IF r.tombstone THEN <<>> ELSE vhead \o r.value
  <2>1. first \in Seq(Bytes) /\ second \in Seq(Bytes)
    BY <1>1
  <2>2. Encoded(r) = first \o second
    BY DEF Encoded, vhead
  <2> HIDE DEF first, second
  <2>3. Holds(data, pos, first)
    BY <1>2, <2>1, <2>2, HoldsParts
  <2> HIDE DEF head
  <2>4. QED
    BY <1>1, <1>2, <2>3, HoldsParts DEF first
<1>4. ~ r.tombstone => Holds(data, (pos + lh) + lk, vhead) /\ Holds(data, ((pos + lh) + lk) + lv, r.value)
  <2> SUFFICES ASSUME ~ r.tombstone
               PROVE  Holds(data, (pos + lh) + lk, vhead) /\ Holds(data, ((pos + lh) + lk) + lv, r.value)
    OBVIOUS
  <2> DEFINE first == head \o r.key
             second == vhead \o r.value
             at == (pos + lh) + lk
  <2>1. first \in Seq(Bytes) /\ second \in Seq(Bytes) /\ Len(first) = lh + lk
    BY <1>1
  <2>2. Encoded(r) = first \o second
    BY DEF Encoded
  <2> HIDE DEF lh, lk, lv
  <2>3. at \in Nat /\ at = pos + (lh + lk)
    BY <1>2
  <2> HIDE DEF first, second, at
  <2>4. Holds(data, pos + Len(first), second)
    BY <1>2, <2>1, <2>2, HoldsParts
  <2>5. Holds(data, at, second)
    BY <2>1, <2>3, <2>4
  <2> HIDE DEF vhead
  <2>6. Holds(data, at, vhead) /\ Holds(data, at + lv, r.value)
    BY <1>1, <1>2, <2>3, <2>5, HoldsParts DEF second, lv
  <2>7. QED
    BY <2>6 DEF at
<1>5. pos + Len(Encoded(r)) = end
  <2>1. \A s, u \in Seq(Bytes) : s \o u \in Seq(Bytes) /\ Len(s \o u) = Len(s) + Len(u)
    OBVIOUS
  <2>2. r.tombstone => Encoded(r) = (head \o r.key) \o <<>>
    BY DEF Encoded
  <2>3. ~ r.tombstone => Encoded(r) = (head \o r.key) \o (vhead \o r.value)
    BY DEF Encoded
  <2>4. <<>> \in Seq(Bytes) /\ Len(<<>>) = 0
    OBVIOUS
  <2>5. head \o r.key \in Seq(Bytes) /\ Len(head \o r.key) = lh + lk
    BY <1>1, <2>1
  <2>6. vhead \o r.value \in Seq(Bytes) /\ Len(vhead \o r.value) = lv + lr
    BY <1>1, <2>1
  <2>7. r.tombstone => Len(Encoded(r)) = lh + lk + 0
    BY <2>1, <2>2, <2>4, <2>5
  <2>8. ~ r.tombstone => Len(Encoded(r)) = (lh + lk) + (lv + lr)
    BY <2>1, <2>3, <2>5, <2>6
  <2> HIDE DEF lh, lk, lv, lr, head, vhead
  <2>9. CASE r.tombstone
    BY <1>2, <2>7, <2>9
  <2>10. CASE ~ r.tombstone
    BY <1>2, <2>8, <2>10
  <2>11. QED
    BY <1>1, <2>9, <2>10
<1> HIDE DEF n, head, vhead, lh, lk, lv, lr
<1>6. /\ k \in Nat \ {0} /\ behind \in Nat \ {0} /\ v \in Nat \ {0}
      /\ k =< behind /\ behind =< v /\ v =< v + lr /\ v + lr \in Nat \ {0}
  BY <1>2
<1>7. /\ end \in Nat \ {0} /\ behind =< end
      /\ r.tombstone => end = behind
      /\ ~ r.tombstone => end = v + lr /\ v =< end
  <2>1. CASE r.tombstone
    BY <1>6, <2>1
  <2>2. CASE ~ r.tombstone
    <3> HIDE DEF behind, v
    <3>1. QED
      BY <1>6, <2>2
  <2>3. QED
    BY <1>1, <2>1, <2>2
<1> DEFINE Result == IF end - 1 =< n THEN [ok |-> TRUE, next |-> end, record |-> r] ELSE [ok |-> FALSE]
<1>8. RecordAt(data, pos) = Result
  <2>1. CASE k - 1 > n
    <3>1. len = [value |-> 0, n |-> 0]
      <4>1. ~ (pos + lh - 1 =< n)
        BY <1>2, <2>1
      <4>2. QED
        BY <1>1, <1>3, <4>1, UvarintCut DEF head, lh, n
    <3>2. RecordAt(data, pos) = [ok |-> FALSE]
      BY <3>1, RecordAtIs DEF RecordIn
    <3> HIDE DEF k, behind, v, end
    <3>3. ~ (end - 1 =< n)
      BY <1>2, <1>6, <1>7, <2>1
    <3>4. QED
      BY <3>2, <3>3
  <2>2. CASE ~ (k - 1 > n)
    <3>1. len = [value |-> KeyLen(r), n |-> lh]
      <4>1. pos + lh - 1 =< n
        BY <1>2, <2>2
      <4>2. QED
        BY <1>1, <1>3, <4>1, UvarintWhole DEF head, lh, n
    <3>2. len.n = lh /\ len.value = KeyLen(r) /\ lh # 0 /\ KeyLen(r) \div 2 = lk
      BY <1>2, <3>1, KeyLenParts DEF lk
    <3>3. len.n # 0 /\ k = pos + len.n /\ behind = k + (len.value \div 2)
      BY <3>2
    <3>4. r.tombstone <=> len.value % 2 = 1
      BY <3>2, KeyLenParts
    <3> HIDE DEF len, k, behind, v, vlen, end
    <3> DEFINE value == behind + vlen.n
    <3>5. value = behind + vlen.n
      OBVIOUS
    <3> HIDE DEF value
    <3>6. RecordAt(data, pos) =
            IF behind - 1 > n THEN [ok |-> FALSE]
            ELSE IF r.tombstone
              THEN [ok |-> TRUE, next |-> behind,
                    record |-> [key |-> SubSeq(data, k, behind - 1), value |-> <<>>, tombstone |-> TRUE]]
            ELSE IF vlen.n = 0 \/ value + vlen.value - 1 > n THEN [ok |-> FALSE]
            ELSE [ok |-> TRUE, next |-> value + vlen.value,
                  record |-> [key |-> SubSeq(data, k, behind - 1),
                              value |-> SubSeq(data, value, value + vlen.value - 1), tombstone |-> FALSE]]
      <4>1. RecordAt(data, pos) = RecordIn(data, len, k, behind, vlen, value)
        BY <3>3, <3>5, RecordAtIs DEF len, vlen
      <4>2. QED
        BY <3>3, <3>4, <4>1 DEF RecordIn, n
    <3>7. CASE behind - 1 > n
      <4>1. ~ (end - 1 =< n)
        BY <1>2, <1>6, <1>7, <3>7
      <4>2. QED
        BY <3>6, <3>7, <4>1
    <3>8. ASSUME ~ (behind - 1 > n) PROVE SubSeq(data, k, behind - 1) = r.key
      <4>1. k + lk - 1 =< n /\ k + lk - 1 = behind - 1
        BY <1>2, <1>6, <3>8 DEF behind
      <4>2. Holds(data, k, r.key)
        BY <1>3 DEF k
      <4>3. SubSeq(data, k, k + lk - 1) = r.key
        BY <1>1, <1>6, <4>1, <4>2, HeldPart DEF lk, n
      <4>4. QED
        BY <4>1, <4>3
    <3>9. CASE ~ (behind - 1 > n) /\ r.tombstone
      <4>1. RecordAt(data, pos) =
              [ok |-> TRUE, next |-> behind,
               record |-> [key |-> r.key, value |-> <<>>, tombstone |-> TRUE]]
        BY <3>6, <3>8, <3>9
      <4>2. r = [key |-> r.key, value |-> <<>>, tombstone |-> TRUE]
        BY <1>1, <3>9, RecordParts
      <4>3. end = behind
        BY <1>7, <3>9
      <4>4. end - 1 =< n
        BY <1>2, <1>6, <3>9, <4>3
      <4>5. QED
        BY <4>1, <4>2, <4>3, <4>4
    <3>10. CASE ~ (behind - 1 > n) /\ ~ r.tombstone
      <4>1. end = v + lr /\ v =< end
        BY <1>7, <3>10
      <4>2. Holds(data, behind, vhead) /\ Holds(data, v, r.value)
        BY <1>4, <3>10 DEF k, behind, v
      <4>3. CASE v - 1 > n
        <5>1. vlen = [value |-> 0, n |-> 0]
          <6>1. ~ (behind + lv - 1 =< n)
            BY <1>2, <1>6, <4>3 DEF v
          <6>2. QED
            BY <1>1, <1>6, <4>2, <6>1, UvarintCut DEF vhead, vlen, lv, lr, n
        <5>2. vlen.n = 0
          BY <5>1
        <5>3. RecordAt(data, pos) = [ok |-> FALSE]
          BY <3>6, <3>10, <5>2
        <5>4. ~ (end - 1 =< n)
          BY <1>2, <1>6, <1>7, <4>1, <4>3
        <5>5. QED
          BY <5>3, <5>4
      <4>4. CASE ~ (v - 1 > n)
        <5>1. vlen = [value |-> lr, n |-> lv]
          <6>1. behind + lv - 1 =< n
            BY <1>2, <1>6, <4>4 DEF v
          <6>2. QED
            BY <1>1, <1>6, <4>2, <6>1, UvarintWhole DEF vhead, vlen, lv, lr, n
        <5>2. vlen.n # 0 /\ value = v /\ vlen.value = lr
          BY <1>2, <3>5, <5>1 DEF v
        <5>3. RecordAt(data, pos) =
                IF v + lr - 1 > n THEN [ok |-> FALSE]
                ELSE [ok |-> TRUE, next |-> v + lr,
                      record |-> [key |-> r.key, value |-> SubSeq(data, v, v + lr - 1), tombstone |-> FALSE]]
          BY <3>6, <3>8, <3>10, <5>2
        <5>4. CASE v + lr - 1 > n
          <6>1. ~ (end - 1 =< n)
            BY <1>2, <1>6, <4>1, <5>4
          <6>2. QED
            BY <5>3, <5>4, <6>1
        <5>5. CASE ~ (v + lr - 1 > n)
          <6>1. v + lr - 1 =< n /\ end - 1 =< n
            BY <1>2, <1>6, <4>1, <5>5
          <6>2. SubSeq(data, v, v + lr - 1) = r.value
            BY <1>1, <1>6, <4>2, <6>1, HeldPart DEF lr, n
          <6>3. r = [key |-> r.key, value |-> r.value, tombstone |-> FALSE]
            BY <1>1, <3>10, RecordParts
          <6>4. RecordAt(data, pos) = [ok |-> TRUE, next |-> v + lr, record |-> r]
            BY <5>3, <5>5, <6>2, <6>3
          <6>5. QED
            BY <4>1, <6>1, <6>4
        <5>6. QED
          BY <5>4, <5>5
      <4>5. QED
        BY <4>3, <4>4
    <3>11. QED
      BY <3>7, <3>9, <3>10
  <2>3. QED
    BY <2>1, <2>2
<1> HIDE DEF end
<1>9. pos + Len(Encoded(r)) - 1 = end - 1
  BY <1>5
<1>10. QED
  BY <1>5, <1>8, <1>9 DEF n

-----------------------------------------------------------------------------
(***************************************************************************)
(* Reading a file.  The recursive function of Records exists because every *)
(* record that is read ends behind its beginning: what the iterator yields *)
(* from a position on is fixed by what it yields from the later ones.      *)
(***************************************************************************)
\* What the iterator yields from position pos on, if f says what it yields from
\* the positions behind.
ReadFrom(f, data, pos) ==
    IF pos > Len(data) \/ ~ RecordAt(data, pos).ok THEN <<>>
    ELSE <<RecordAt(data, pos).record>> \o f[RecordAt(data, pos).next]

IsReading(f, data) == f = [pos \in 1..(Len(data) + 1) |-> ReadFrom(f, data, pos)]

Reads(f, data) == \A pos \in 1..(Len(data) + 1) : f[pos] = ReadFrom(f, data, pos)

\* The same on a part of the positions.
IsReadingBehind(f, data, S) == f = [pos \in S |-> ReadFrom(f, data, pos)]

\* Such a function on the positions behind a extends to a.
LEMMA ReadingStep ==
    ASSUME NEW data \in Seq(Bytes), NEW a \in 1..Len(data),
           NEW h, IsReadingBehind(h, data, (a + 1)..(Len(data) + 1))
    PROVE  \E f : IsReadingBehind(f, data, a..(Len(data) + 1))
<1> DEFINE n == Len(data)
           f == [pos \in a..(n + 1) |-> ReadFrom(h, data, pos)]
<1>1. n \in Nat /\ a \in Nat \ {0}
  OBVIOUS
<1>2. \A pos \in (a + 1)..(n + 1) : h[pos] = ReadFrom(h, data, pos)
  BY DEF IsReadingBehind
<1>3. \A pos \in a..(n + 1) : f[pos] = ReadFrom(h, data, pos)
  OBVIOUS
<1>4. f = [pos \in a..(n + 1) |-> f[pos]]
  OBVIOUS
<1> HIDE DEF f
<1>5. \A pos \in (a + 1)..(n + 1) : f[pos] = h[pos]
  <2>1. \A pos \in (a + 1)..(n + 1) : pos \in a..(n + 1)
    BY <1>1
  <2>2. QED
    BY <1>2, <1>3, <2>1
<1>6. ASSUME NEW pos \in a..(n + 1) PROVE ReadFrom(h, data, pos) = ReadFrom(f, data, pos)
  <2>1. CASE pos > Len(data) \/ ~ RecordAt(data, pos).ok
    BY <2>1 DEF ReadFrom
  <2>2. CASE ~ (pos > Len(data) \/ ~ RecordAt(data, pos).ok)
    <3>1. pos \in Nat \ {0}
      BY <1>1
    <3>2. RecordAt(data, pos).next \in (pos + 1)..(Len(data) + 1)
      BY <2>2, <3>1, RecordAdvances
    <3>3. RecordAt(data, pos).next \in (a + 1)..(n + 1)
      BY <1>1, <3>2
    <3>4. QED
      BY <1>5, <3>3 DEF ReadFrom
  <2>3. QED
    BY <2>1, <2>2
<1>7. \A pos \in a..(n + 1) : f[pos] = ReadFrom(f, data, pos)
  BY <1>3, <1>6
<1>8. f = [pos \in a..(n + 1) |-> ReadFrom(f, data, pos)]
  BY <1>4, <1>7
<1>9. QED
  BY <1>8 DEF IsReadingBehind

\* There is such a function on all positions.
LEMMA ReadingExists ==
    ASSUME NEW data \in Seq(Bytes)
    PROVE  \E f : IsReading(f, data)
<1> DEFINE n == Len(data)
           S == {a \in 1..(n + 1) : \E f : IsReadingBehind(f, data, a..(n + 1))}
<1>1. n \in Nat /\ 1 \in Nat /\ n + 1 \in Nat /\ (n + 1) - 1 = n
  OBVIOUS
<1>2. n + 1 \in S
  <2> DEFINE f == [pos \in (n + 1)..(n + 1) |-> <<>>]
  <2>1. \A pos \in (n + 1)..(n + 1) : ReadFrom(f, data, pos) = <<>>
    <3>1. \A pos \in (n + 1)..(n + 1) : pos > Len(data)
      BY <1>1
    <3> HIDE DEF f
    <3>2. QED
      BY <3>1 DEF ReadFrom
  <2>2. IsReadingBehind(f, data, (n + 1)..(n + 1))
    BY <2>1 DEF IsReadingBehind
  <2>3. n + 1 \in 1..(n + 1)
    BY <1>1
  <2> HIDE DEF f
  <2>4. QED
    BY <2>2, <2>3
<1>3. ASSUME NEW a \in 1..n, a + 1 \in S PROVE a \in S
  <2>1. PICK h : IsReadingBehind(h, data, (a + 1)..(n + 1))
    BY <1>3
  <2>2. \E f : IsReadingBehind(f, data, a..(n + 1))
    BY <2>1, ReadingStep
  <2>3. a \in 1..(n + 1)
    BY <1>1
  <2>4. QED
    BY <2>2, <2>3
<1> HIDE DEF S
<1>4. \A a \in 1..(n + 1) : a \in S
  BY <1>1, <1>2, <1>3, DownFrom
<1>5. 1 \in S
  <2>1. 1 \in 1..(n + 1)
    BY <1>1
  <2>2. QED
    BY <1>4, <2>1
<1>6. PICK f : IsReadingBehind(f, data, 1..(n + 1))
  BY <1>5 DEF S
<1>7. QED
  BY <1>6 DEF IsReading, IsReadingBehind

\* Records yields what the function says behind the version.
LEMMA RecordsAreRead ==
    ASSUME NEW data \in Seq(Bytes)
    PROVE  \E f : /\ Reads(f, data)
                  /\ Records(data) = IF Uvarint(data, 1).n = 0 \/ Uvarint(data, 1).value # currentVersion
                                     THEN <<>> ELSE f[Uvarint(data, 1).n + 1]
<1> DEFINE f == CHOOSE f : IsReading(f, data)
<1>1. IsReading(f, data)
  BY ReadingExists
<1>2. Records(data) = IF Uvarint(data, 1).n = 0 \/ Uvarint(data, 1).value # currentVersion
                      THEN <<>> ELSE f[Uvarint(data, 1).n + 1]
  BY DEF Records, IsReading, ReadFrom
<1> HIDE DEF f
<1>3. Reads(f, data)
  BY <1>1 DEF IsReading, Reads
<1>4. QED
  BY <1>2, <1>3

-----------------------------------------------------------------------------
(***************************************************************************)
(* What a file reads as.  The writer goes through the records forwards;    *)
(* what the reader finds behind the m-th buffer is shown from the last     *)
(* record backwards.                                                       *)
(***************************************************************************)
\* b[m] is the buffer after the first m records.
IsBuffer(b, s) ==
    /\ \A m \in 0..Len(s) : b[m] \in Seq(Bytes)
    /\ b[0] = AppendUvarint[currentVersion]
    /\ \A m \in 1..Len(s) : b[m] = b[m - 1] \o Encoded(s[m])

\* The loop of WriteRecords fills such buffers one after the other.
LEMMA BuffersExist ==
    ASSUME NEW s \in Seq(Recs)
    PROVE  \E b : IsBuffer(b, s) /\ WriteRecords(s) = b[Len(s)]
<1> DEFINE n == Len(s)
           w == CHOOSE k : IsWriteFold(k, s)
           b == [m \in 0..n |-> w[1..m]]
<1>1. n \in Nat /\ DOMAIN s = 1..n /\ \A i \in 1..n : s[i] \in Recs
  OBVIOUS
<1>2. IsWriteFold(w, s)
  BY WriteFoldExists
<1>3. WriteRecords(s) = w[1..n]
  BY <1>1, WriteIsFold
<1> HIDE DEF n, w
<1>4. b[0] = AppendUvarint[currentVersion]
  <2>1. 1..0 = {} /\ {} \in SUBSET DOMAIN s /\ 0 \in 0..n
    BY <1>1
  <2>2. w[{}] = AppendUvarint[currentVersion]
    BY <1>2, <2>1 DEF IsWriteFold
  <2>3. QED
    BY <2>1, <2>2
<1>5. ASSUME NEW m \in 1..n PROVE b[m] = b[m - 1] \o Encoded(s[m])
  <2>1. m \in Nat /\ m # 0 /\ 1..m \in SUBSET DOMAIN s /\ m \in 0..n /\ m - 1 \in 0..n
    BY <1>1
  <2>2. 1..m # {} /\ Max(1..m) = m /\ (1..m) \ {m} = 1..(m - 1)
    BY <2>1, LastPosition
  <2>3. w[1..m] = w[1..(m - 1)] \o Encoded(s[m])
    BY <1>2, <2>1, <2>2 DEF IsWriteFold
  <2>4. QED
    BY <2>1, <2>3
<1>6. b[n] = w[1..n]
  BY <1>1
<1> HIDE DEF b
<1> DEFINE S == {m \in 0..n : b[m] \in Seq(Bytes)}
<1>7. 0 \in S
  <2>1. AppendUvarint[currentVersion] \in Seq(Bytes)
    BY UvarintIsBytes DEF currentVersion
  <2>2. QED
    BY <1>1, <1>4, <2>1
<1>8. ASSUME NEW m \in 0..(n - 1), m \in S PROVE m + 1 \in S
  <2>1. m + 1 \in 1..n /\ m + 1 \in 0..n /\ (m + 1) - 1 = m
    BY <1>1
  <2>2. b[m + 1] = b[m] \o Encoded(s[m + 1])
    BY <1>5, <2>1
  <2>3. Encoded(s[m + 1]) \in Seq(Bytes)
    BY <1>1, <2>1, EncodedSize
  <2>4. b[m] \in Seq(Bytes)
    BY <1>8
  <2>5. b[m] \o Encoded(s[m + 1]) \in Seq(Bytes)
    BY <2>3, <2>4
  <2>6. QED
    BY <2>1, <2>2, <2>5
<1> HIDE DEF S
<1>9. \A m \in 0..n : m \in S
  BY <1>1, <1>7, <1>8, UpFrom
<1>10. \A m \in 0..n : b[m] \in Seq(Bytes)
  BY <1>9 DEF S
<1>11. QED
  BY <1>3, <1>4, <1>5, <1>6, <1>10 DEF IsBuffer, n

\* Each buffer is the beginning of the last one.
LEMMA BuffersGrow ==
    ASSUME NEW s \in Seq(Recs), NEW b, IsBuffer(b, s), NEW m \in 0..Len(s)
    PROVE  /\ Len(b[m]) =< Len(b[Len(s)])
           /\ \A i \in 1..Len(b[m]) : b[Len(s)][i] = b[m][i]
<1> DEFINE n == Len(s)
           S == {k \in 0..n : /\ Len(b[k]) =< Len(b[n])
                              /\ \A i \in 1..Len(b[k]) : b[n][i] = b[k][i]}
<1>1. n \in Nat /\ 0 \in Nat /\ \A i \in 1..n : s[i] \in Recs
  OBVIOUS
<1>2. /\ \A k \in 0..n : b[k] \in Seq(Bytes)
      /\ \A k \in 1..n : b[k] = b[k - 1] \o Encoded(s[k])
  BY DEF IsBuffer
<1>3. \A t \in Seq(Bytes) : Len(t) \in Nat
  OBVIOUS
<1> HIDE DEF n
<1>4. n \in S
  <2>1. n \in 0..n /\ Len(b[n]) \in Nat
    BY <1>1, <1>2, <1>3
  <2>2. QED
    BY <2>1
<1>5. ASSUME NEW k \in 0..(n - 1), k + 1 \in S PROVE k \in S
  <2>1. k \in 0..n /\ k + 1 \in 1..n /\ k + 1 \in 0..n /\ (k + 1) - 1 = k
    BY <1>1
  <2> DEFINE u == b[k]
             e == Encoded(s[k + 1])
             v == b[k + 1]
  <2>2. u \in Seq(Bytes) /\ v = u \o e /\ e \in Seq(Bytes)
    <3>1. v = b[(k + 1) - 1] \o e
      BY <1>2, <2>1
    <3>2. QED
      BY <1>1, <1>2, <2>1, <3>1, EncodedSize
  <2>3. /\ Len(u) \in Nat /\ Len(v) \in Nat /\ Len(u) =< Len(v)
        /\ \A i \in 1..Len(u) : v[i] = u[i] /\ i \in 1..Len(v)
    <3> HIDE DEF u, e, v
    <3>1. Len(u) \in Nat /\ Len(e) \in Nat /\ Len(v) = Len(u) + Len(e) /\ \A i \in 1..Len(u) : v[i] = u[i]
      BY <2>2
    <3>2. QED
      BY <3>1
  <2>4. Len(v) =< Len(b[n]) /\ \A i \in 1..Len(v) : b[n][i] = v[i]
    BY <1>5
  <2>5. Len(b[n]) \in Nat
    BY <1>1, <1>2, <1>3
  <2> HIDE DEF v, e
  <2>6. Len(u) =< Len(b[n])
    BY <2>3, <2>4, <2>5
  <2>7. \A i \in 1..Len(u) : b[n][i] = u[i]
    BY <2>3, <2>4
  <2>8. QED
    BY <2>1, <2>6, <2>7
<1> HIDE DEF S
<1>6. \A k \in 0..n : k \in S
  BY <1>1, <1>4, <1>5, DownFrom
<1>7. m \in S
  BY <1>6 DEF n
<1>8. QED
  BY <1>7 DEF S, n

\* data is what there is of the file whole.
BeginningOf(data, whole) ==
    Len(data) =< Len(whole) /\ \A i \in 1..Len(data) : data[i] = whole[i]

\* Behind the buffer of the first m records, as much of the next record as there
\* is in the data.
LEMMA NextRecordHeld ==
    ASSUME NEW s \in Seq(Recs), NEW b, IsBuffer(b, s), NEW data \in Seq(Bytes),
           BeginningOf(data, b[Len(s)]), NEW m \in 1..Len(s)
    PROVE  /\ Holds(data, Len(b[m - 1]) + 1, Encoded(s[m]))
           /\ Len(b[m - 1]) + 1 + Len(Encoded(s[m])) = Len(b[m]) + 1
<1> DEFINE e == Encoded(s[m])
           u == b[m - 1]
           v == b[m]
           w == b[Len(s)]
<1>1. m - 1 \in 0..Len(s) /\ m \in 0..Len(s) /\ s[m] \in Recs
  OBVIOUS
<1>2. e \in Seq(Bytes) /\ u \in Seq(Bytes) /\ v = u \o e
  BY <1>1, EncodedSize DEF IsBuffer
<1>3. Len(v) =< Len(w) /\ \A i \in 1..Len(v) : w[i] = v[i]
  BY <1>1, BuffersGrow
<1>4. Len(data) \in Nat /\ \A i \in 1..Len(data) : data[i] = w[i]
  BY DEF BeginningOf
<1> HIDE DEF e, u, v, w
<1>5. /\ Len(u) \in Nat /\ Len(e) \in Nat /\ Len(v) = Len(u) + Len(e)
      /\ \A i \in 1..Len(e) : v[Len(u) + i] = e[i]
  BY <1>2
<1>6. ASSUME NEW i \in 1..Len(e), Len(u) + 1 + i - 1 =< Len(data)
      PROVE  data[Len(u) + 1 + i - 1] = e[i]
  <2>1. /\ Len(u) + 1 + i - 1 = Len(u) + i
        /\ Len(u) + i \in 1..Len(data) /\ Len(u) + i \in 1..Len(v)
    BY <1>4, <1>5, <1>6
  <2>2. data[Len(u) + i] = v[Len(u) + i]
    BY <1>3, <1>4, <2>1
  <2>3. QED
    BY <1>5, <2>1, <2>2
<1>7. Holds(data, Len(u) + 1, e)
  BY <1>6 DEF Holds
<1>8. Len(u) + 1 + Len(e) = Len(v) + 1
  BY <1>5
<1>9. QED
  BY <1>7, <1>8 DEF e, u, v

\* The iterator yields the records from the m-th on, as far as they are whole.
LEMMA ReadsRest ==
    ASSUME NEW s \in Seq(Recs), NEW b, IsBuffer(b, s), NEW data \in Seq(Bytes),
           BeginningOf(data, b[Len(s)]),
           NEW f, Reads(f, data), NEW m \in 0..Len(s), Len(b[m]) =< Len(data)
    PROVE  \E j \in m..Len(s) : /\ f[Len(b[m]) + 1] = SubSeq(s, m + 1, j)
                                /\ Len(data) = Len(b[Len(s)]) => j = Len(s)
<1> DEFINE n == Len(s)
           Rest(k) == \E j \in k..n : /\ f[Len(b[k]) + 1] = SubSeq(s, k + 1, j)
                                      /\ Len(data) = Len(b[n]) => j = n
           S == {k \in 0..n : Len(b[k]) =< Len(data) => Rest(k)}
<1>1. n \in Nat /\ 0 \in Nat /\ Len(data) \in Nat /\ \A i \in 1..n : s[i] \in Recs
  OBVIOUS
<1>2. \A k \in 0..n : Len(b[k]) \in Nat
  <2>1. \A t \in Seq(Bytes) : Len(t) \in Nat
    OBVIOUS
  <2>2. QED
    BY <2>1 DEF IsBuffer
<1>3. Len(data) =< Len(b[n])
  BY DEF BeginningOf
<1>4. n \in S
  <2>1. n \in n..n /\ n \in 0..n
    BY <1>1
  <2>2. ASSUME Len(b[n]) =< Len(data) PROVE f[Len(b[n]) + 1] = SubSeq(s, n + 1, n)
    <3>1. Len(b[n]) = Len(data)
      BY <1>1, <1>2, <1>3, <2>1, <2>2
    <3>2. Len(data) + 1 \in 1..(Len(data) + 1) /\ Len(data) + 1 > Len(data)
      BY <1>1
    <3>3. f[Len(data) + 1] = <<>>
      BY <3>2 DEF Reads, ReadFrom
    <3>4. SubSeq(s, n + 1, n) = <<>>
      <4> HIDE DEF n
      <4>1. n + 1 \in Int /\ n \in Int /\ n < n + 1
        BY <1>1
      <4>2. QED
        BY <4>1, SubSeqEmpty
    <3>5. QED
      BY <3>1, <3>3, <3>4
  <2>3. QED
    BY <2>1, <2>2
<1>5. ASSUME NEW k \in 0..(n - 1), k + 1 \in S PROVE k \in S
  <2> DEFINE pos == Len(b[k]) + 1
             next == Len(b[k + 1]) + 1
             r == s[k + 1]
  <2>1. k \in 0..n /\ k + 1 \in 1..n /\ k + 1 \in 0..n /\ (k + 1) - 1 = k /\ r \in Recs
    BY <1>1
  <2>2. SUFFICES ASSUME Len(b[k]) =< Len(data) PROVE Rest(k)
    BY <2>1
  <2>3. Holds(data, pos, Encoded(r)) /\ pos + Len(Encoded(r)) = next
    <3>1. /\ Holds(data, Len(b[(k + 1) - 1]) + 1, Encoded(s[k + 1]))
          /\ Len(b[(k + 1) - 1]) + 1 + Len(Encoded(s[k + 1])) = Len(b[k + 1]) + 1
      BY <2>1, NextRecordHeld
    <3>2. QED
      BY <2>1, <3>1
  <2>4. pos \in Nat \ {0} /\ pos \in 1..(Len(data) + 1) /\ next - 1 = Len(b[k + 1])
    BY <1>1, <1>2, <2>1, <2>2
  <2> HIDE DEF r
  <2>5. RecordAt(data, pos) = IF next - 1 =< Len(data) THEN [ok |-> TRUE, next |-> next, record |-> r]
                              ELSE [ok |-> FALSE]
    <3> HIDE DEF pos, next
    <3>1. QED
      BY <2>1, <2>3, <2>4, RecordWhole
  <2>6. f[pos] = ReadFrom(f, data, pos)
    BY <2>4 DEF Reads
  <2>7. CASE ~ (Len(b[k + 1]) =< Len(data))
    <3>1. ~ RecordAt(data, pos).ok
      BY <2>4, <2>5, <2>7
    <3>2. f[pos] = <<>>
      BY <2>6, <3>1 DEF ReadFrom
    <3>3. SubSeq(s, k + 1, k) = <<>>
      <4>1. k + 1 \in Int /\ k \in Int /\ k < k + 1
        BY <2>1
      <4>2. QED
        BY <4>1, SubSeqEmpty
    <3>4. k \in k..n
      BY <1>1, <2>1
    <3>5. Len(data) # Len(b[n])
      <4>1. Len(b[k + 1]) =< Len(b[n])
        BY <2>1, BuffersGrow
      <4>2. QED
        BY <2>7, <4>1
    <3>6. QED
      BY <3>2, <3>3, <3>4, <3>5
  <2>8. CASE Len(b[k + 1]) =< Len(data)
    <3>1. PICK j \in (k + 1)..n : /\ f[next] = SubSeq(s, (k + 1) + 1, j)
                                  /\ Len(data) = Len(b[n]) => j = n
      BY <1>5, <2>8
    <3>2. RecordAt(data, pos) = [ok |-> TRUE, next |-> next, record |-> r]
      BY <2>4, <2>5, <2>8
    <3>3. ~ (pos > Len(data))
      <4>1. Encoded(r) \in Seq(Bytes) /\ Len(Encoded(r)) \in Nat /\ Len(Encoded(r)) # 0
        BY <2>1, RecordNotEmpty
      <4> HIDE DEF pos, next
      <4>2. QED
        BY <1>1, <2>3, <2>4, <2>8, <4>1
    <3>4. f[pos] = <<r>> \o f[next]
      <4>1. /\ RecordAt(data, pos).ok
            /\ RecordAt(data, pos).record = r
            /\ RecordAt(data, pos).next = next
        BY <3>2
      <4>2. ReadFrom(f, data, pos) = <<RecordAt(data, pos).record>> \o f[RecordAt(data, pos).next]
        BY <3>3, <4>1 DEF ReadFrom
      <4>3. QED
        BY <2>6, <4>1, <4>2
    <3>5. SubSeq(s, k + 1, j) = <<r>> \o SubSeq(s, (k + 1) + 1, j)
      <4>1. k + 1 \in 1..Len(s) /\ j \in (k + 1)..Len(s)
        BY <2>1
      <4>2. QED
        BY <4>1, SubSeqRecursiveFirst DEF r
    <3>6. j \in k..n
      BY <1>1, <2>1
    <3>7. QED
      BY <3>1, <3>4, <3>5, <3>6
  <2>9. QED
    BY <2>7, <2>8
<1> HIDE DEF S
<1>6. \A k \in 0..n : k \in S
  BY <1>1, <1>4, <1>5, DownFrom
<1>7. QED
  BY <1>6 DEF S

\* The beginning of a file reads as the first of its records, the whole file as
\* all of them.
LEMMA ReadsPrefix ==
    ASSUME NEW s \in Seq(Recs), NEW data \in Seq(Bytes), BeginningOf(data, WriteRecords(s))
    PROVE  \E j \in 0..Len(s) : /\ Records(data) = SubSeq(s, 1, j)
                                /\ Len(data) = Len(WriteRecords(s)) => j = Len(s)
<1> DEFINE u == AppendUvarint[currentVersion]
           version == Uvarint(data, 1)
<1>1. PICK b : IsBuffer(b, s) /\ WriteRecords(s) = b[Len(s)]
  BY BuffersExist
<1>2. Len(s) \in Nat /\ 0 \in 0..Len(s) /\ b[0] = u
  BY <1>1 DEF IsBuffer
<1>3. PICK f : /\ Reads(f, data)
               /\ Records(data) = IF version.n = 0 \/ version.value # currentVersion
                                  THEN <<>> ELSE f[version.n + 1]
  BY RecordsAreRead
<1>4. /\ Len(u) =< Len(b[Len(s)])
      /\ \A i \in 1..Len(u) : b[Len(s)][i] = u[i]
  BY <1>1, <1>2, BuffersGrow
<1>5. BeginningOf(data, b[Len(s)])
  BY <1>1
<1>6. currentVersion \in Nat /\ 1 \in Nat \ {0} /\ u \in Seq(Bytes) /\ Len(u) \in Nat /\ Len(u) # 0
  <2>1. currentVersion \in Nat /\ 1 \in Nat \ {0}
    BY DEF currentVersion
  <2>2. IsVarint(u)
    BY <2>1, VarintDecodes
  <2> HIDE DEF u
  <2>3. QED
    BY <2>1, <2>2 DEF IsVarint
<1>7. Holds(data, 1, u)
  <2> HIDE DEF u
  <2>1. ASSUME NEW i \in 1..Len(u), 1 + i - 1 =< Len(data) PROVE data[1 + i - 1] = u[i]
    <3>1. 1 + i - 1 = i /\ i \in 1..Len(data)
      BY <1>6, <2>1
    <3>2. QED
      BY <1>4, <1>5, <3>1 DEF BeginningOf
  <2>2. QED
    BY <2>1 DEF Holds
<1>8. CASE 1 + Len(u) - 1 =< Len(data)
  <2>1. version = [value |-> currentVersion, n |-> Len(u)]
    BY <1>6, <1>7, <1>8, UvarintWhole
  <2>2. version.n = Len(u) /\ version.value = currentVersion
    BY <2>1
  <2>3. Records(data) = f[Len(u) + 1]
    BY <1>3, <1>6, <2>2
  <2>4. Len(b[0]) =< Len(data)
    <3> HIDE DEF u
    <3>1. QED
      BY <1>2, <1>6, <1>8
  <2> DEFINE m == 0
  <2>5. m = 0 /\ m + 1 = 1
    OBVIOUS
  <2> HIDE DEF m
  <2>6. PICK j \in m..Len(s) : /\ f[Len(b[m]) + 1] = SubSeq(s, m + 1, j)
                               /\ Len(data) = Len(b[Len(s)]) => j = Len(s)
    <3>1. Reads(f, data)
      BY <1>3
    <3>2. IsBuffer(b, s) /\ m \in 0..Len(s) /\ Len(b[m]) =< Len(data)
      BY <1>1, <1>2, <2>4, <2>5
    <3> HIDE DEF u, version
    <3>3. QED
      BY <1>5, <3>1, <3>2, ReadsRest
  <2>7. f[Len(u) + 1] = SubSeq(s, 1, j) /\ j \in 0..Len(s)
    <3> HIDE DEF u
    <3>1. QED
      BY <1>2, <2>5, <2>6
  <2>8. QED
    BY <1>1, <2>3, <2>6, <2>7
<1>9. CASE ~ (1 + Len(u) - 1 =< Len(data))
  <2>1. version.n = 0
    BY <1>6, <1>7, <1>9, UvarintCut
  <2>2. Records(data) = <<>>
    BY <1>3, <2>1
  <2>3. SubSeq(s, 1, 0) = <<>>
    BY SubSeqEmpty
  <2>4. Len(data) # Len(b[Len(s)])
    <3> HIDE DEF u
    <3>1. QED
      BY <1>4, <1>6, <1>9
  <2>5. Records(data) = SubSeq(s, 1, 0) /\ Len(data) # Len(WriteRecords(s))
    BY <1>1, <2>2, <2>3, <2>4
  <2>6. QED
    BY <1>2, <2>5
<1>10. QED
  BY <1>8, <1>9

\* The inductive invariant: what there is of the file is its beginning.
FileInv ==
    /\ pc \in {"written", "cut"} =>
         file \in Seq(Bytes) /\ BeginningOf(file, WriteRecords(records))
    /\ pc = "written" => file = WriteRecords(records)

\* WriteRecords writes bytes.
LEMMA FileIsBytes ==
    ASSUME NEW s \in Seq(Recs)
    PROVE  WriteRecords(s) \in Seq(Bytes)
<1>1. PICK b : IsBuffer(b, s) /\ WriteRecords(s) = b[Len(s)]
  BY BuffersExist
<1>2. Len(s) \in 0..Len(s)
  OBVIOUS
<1>3. QED
  BY <1>1, <1>2 DEF IsBuffer

\* Every step of writeBatch and every byte lost keeps the invariant.
LEMMA FileStep == RecordsInv /\ FileInv /\ [Next]_vars => FileInv'
<1> SUFFICES ASSUME RecordsInv, FileInv, [Next]_vars PROVE FileInv'
  OBVIOUS
<1>1. CASE SortRecords \/ Deduplicate
  BY <1>1 DEF SortRecords, Deduplicate, FileInv
<1>2. CASE WriteFile
  <2>1. file' = WriteRecords(records) /\ records' = records
    BY <1>2 DEF WriteFile
  <2>2. WriteRecords(records) \in Seq(Bytes)
    BY FileIsBytes DEF RecordsInv
  <2>3. BeginningOf(WriteRecords(records), WriteRecords(records))
    <3> DEFINE w == WriteRecords(records)
    <3> HIDE DEF w
    <3>1. \A t \in Seq(Bytes) : Len(t) =< Len(t)
      OBVIOUS
    <3>2. QED
      BY <2>2, <3>1 DEF BeginningOf, w
  <2>4. QED
    BY <2>1, <2>2, <2>3 DEF FileInv
<1>3. CASE Truncate
  <2> DEFINE w == WriteRecords(records)
             l == Len(file)
  <2>1. file' = SubSeq(file, 1, l - 1) /\ records' = records /\ pc' = "cut" /\ file # <<>>
    BY <1>3 DEF Truncate, Front
  <2>2. file \in Seq(Bytes) /\ BeginningOf(file, w) /\ w \in Seq(Bytes)
    BY <1>3, FileIsBytes DEF Truncate, FileInv, RecordsInv
  <2> HIDE DEF w
  <2>3. l \in Nat /\ l # 0 /\ Len(w) \in Nat
    BY <2>1, <2>2
  <2>4. file' \in Seq(Bytes) /\ Len(file') = l - 1 /\ \A i \in 1..(l - 1) : file'[i] = file[i]
    <3>1. SubSeq(file, 1, l - 1) \in Seq(Bytes) /\ Len(SubSeq(file, 1, l - 1)) = l - 1
          /\ \A i \in 1..(l - 1) : SubSeq(file, 1, l - 1)[i] = file[i]
      BY <2>1, <2>2, AllButLast
    <3>2. QED
      BY <2>1, <3>1
  <2>5. BeginningOf(file', w)
    <3> HIDE DEF l
    <3>1. l =< Len(w) /\ \A i \in 1..l : file[i] = w[i]
      BY <2>2 DEF BeginningOf, l
    <3>2. Len(file') =< Len(w)
      BY <2>3, <2>4, <3>1
    <3>3. \A i \in 1..Len(file') : file'[i] = w[i]
      BY <2>3, <2>4, <3>1
    <3>4. QED
      BY <3>2, <3>3 DEF BeginningOf
  <2>6. QED
    BY <2>1, <2>4, <2>5 DEF FileInv, w
<1>4. CASE UNCHANGED vars
  BY <1>4 DEF vars, FileInv
<1>5. QED
  BY <1>1, <1>2, <1>3, <1>4 DEF Next

\* What there is of a file is the beginning of what writeBatch wrote.
LEMMA FileInvariance == Spec => [](RecordsInv /\ FileInv)
<1>1. Init => FileInv
  BY DEF Init, FileInv
<1>2. QED
  BY RecordsInvariance, <1>1, FileStep, PTL DEF Spec

\* The iterator of a whole file yields exactly the records that writeBatch wrote:
\* tombstones, empty values and lengths of any number of varint bytes included.
THEOREM FilesReadBack == Spec => []RoundTrip
<1>1. RecordsInv /\ FileInv => RoundTrip
  <2> SUFFICES ASSUME RecordsInv, FileInv, pc = "written" PROVE Records(file) = records
    BY DEF RoundTrip
  <2>1. records \in Seq(Recs)
    BY DEF RecordsInv
  <2>2. file = WriteRecords(records) /\ file \in Seq(Bytes) /\ BeginningOf(file, WriteRecords(records))
    BY DEF FileInv
  <2>3. PICK j \in 0..Len(records) : /\ Records(file) = SubSeq(records, 1, j)
                                     /\ Len(file) = Len(WriteRecords(records)) => j = Len(records)
    BY <2>1, <2>2, ReadsPrefix
  <2>4. Records(file) = SubSeq(records, 1, Len(records))
    BY <2>2, <2>3
  <2>5. QED
    BY <2>1, <2>4, SubSeqFull
<1>2. QED
  BY FileInvariance, <1>1, PTL

\* The iterator of a file that was cut off anywhere, in the version, a length, a
\* key or a value, yields the first of its records, each as it was written, and
\* then ends.
THEOREM CutFilesReadAsPrefix == Spec => []OnlyWholeRecords
<1>1. RecordsInv /\ FileInv => OnlyWholeRecords
  <2> SUFFICES ASSUME RecordsInv, FileInv, pc \in {"written", "cut"}
               PROVE  IsPrefix(Records(file), records)
    BY DEF OnlyWholeRecords
  <2>1. records \in Seq(Recs)
    BY DEF RecordsInv
  <2>2. file \in Seq(Bytes) /\ BeginningOf(file, WriteRecords(records))
    BY DEF FileInv
  <2>3. PICK j \in 0..Len(records) : Records(file) = SubSeq(records, 1, j)
    BY <2>1, <2>2, ReadsPrefix
  <2>4. QED
    BY <2>1, <2>3, PartIsPrefix
<1>2. QED
  BY FileInvariance, <1>1, PTL

=============================================================================
