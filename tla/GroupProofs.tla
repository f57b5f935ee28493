----------------------------- MODULE GroupProofs -----------------------------
(***************************************************************************)
(* Proofs about GroupOrchestrator, for any instances, any columns of their *)
(* rows and any number of selections: what the strategies' scans and the   *)
(* filtering loops compute, and that a selection ends with a best instance.*)
(***************************************************************************)
EXTENDS GroupOrchestrator, LoopProofs, FiniteSetTheorems, TLAPS
-----------------------------------------------------------------------------
(* What the strategies' scan and the filtering loops compute.              *)

(* b is the first of the rows of S that are worth the most; 0 if none are. *)
FirstBest(b, S, worth) ==
  IF S = {} THEN b = 0
  ELSE /\ b \in S
       /\ \A i \in S : worth[i] < worth[b] \/ (worth[i] = worth[b] /\ b <= i)

LEMMA ScanFinds ==
  ASSUME NEW n \in Nat, NEW fit \in SUBSET (1 .. n), NEW worth \in [1 .. n -> Int]
  PROVE  FirstBest(Scan(fit, worth, n), fit, worth)
<1> DEFINE Loop(f) ==
      f = [i \in 0 .. n |->
             IF i = 0 THEN 0
             ELSE IF i \in fit /\ (f[i - 1] = 0 \/ worth[i] > worth[f[i - 1]]) THEN i
             ELSE f[i - 1]]
<1>1. \E f : Loop(f)
  <2> DEFINE step == [i \in 1 .. n |-> [b \in 0 .. n |->
                        IF i \in fit /\ (b = 0 \/ worth[i] > worth[b]) THEN i ELSE b]]
  <2>1. 0 \in 0 .. n /\ step \in [1 .. n -> [0 .. n -> 0 .. n]]
    OBVIOUS
  <2>2. \A i \in 1 .. n, b \in 0 .. n :
          step[i][b] = IF i \in fit /\ (b = 0 \/ worth[i] > worth[b]) THEN i ELSE b
    OBVIOUS
  <2> HIDE DEF step
  <2> DEFINE V == 0 .. n
  <2>0. 0 \in V /\ step \in [1 .. n -> [V -> V]]
    BY <2>1
  <2> HIDE DEF V
  <2>3. PICK f \in [0 .. n -> V] : LoopOf(f, n, 0, step)
    BY <2>0, LoopExists
  <2>4. \A i \in 1 .. n : i - 1 \in 0 .. n /\ f[i - 1] \in 0 .. n
    BY DEF V
  <2>5. \A i \in 1 .. n : f[i] = IF i \in fit /\ (f[i - 1] = 0 \/ worth[i] > worth[f[i - 1]])
                                 THEN i ELSE f[i - 1]
    BY <2>2, <2>3, <2>4 DEF LoopOf
  <2>6. \A i \in 0 .. n :
          f[i] = IF i = 0 THEN 0
                 ELSE IF i \in fit /\ (f[i - 1] = 0 \/ worth[i] > worth[f[i - 1]]) THEN i
                 ELSE f[i - 1]
    BY <2>3, <2>5 DEF LoopOf
  <2>7. Loop(f)
    <3>1. f = [i \in 0 .. n |-> f[i]]
      OBVIOUS
    <3> QED
      BY <2>6, <3>1, Zenon
  <2> HIDE DEF Loop
  <2> QED
    BY <2>7
<1> DEFINE best == CHOOSE f : Loop(f)
<1>2. Scan(fit, worth, n) = best[n]
  BY Zenon DEF Scan
<1>3. Loop(best)
  <2> HIDE DEF Loop
  <2> QED
    BY <1>1
<1> HIDE DEF best
<1>4. /\ best[0] = 0
      /\ \A i \in 1 .. n :
           best[i] = IF i \in fit /\ (best[i - 1] = 0 \/ worth[i] > worth[best[i - 1]])
                     THEN i ELSE best[i - 1]
  BY <1>3
<1> HIDE DEF Loop
<1> DEFINE Holds == {i \in 0 .. n : FirstBest(best[i], fit \cap (1 .. i), worth)}
<1>5. 0 \in Holds
  BY <1>4 DEF FirstBest
<1>6. ASSUME NEW i \in 1 .. n, i - 1 \in Holds PROVE i \in Holds
  <2>1. FirstBest(best[i - 1], fit \cap (1 .. (i - 1)), worth)
    BY <1>6
  <2>2. CASE i \notin fit
    <3>1. fit \cap (1 .. i) = fit \cap (1 .. (i - 1)) /\ best[i] = best[i - 1]
      BY <1>4, <2>2
    <3>2. FirstBest(best[i], fit \cap (1 .. i), worth)
      BY <2>1, <3>1, Zenon
    <3> QED
      BY <3>2
  <2>3. CASE i \in fit
    <3>1. \A j \in fit \cap (1 .. i) : j = i \/ j \in fit \cap (1 .. (i - 1))
      OBVIOUS
    <3>2. i \in fit \cap (1 .. i) /\ fit \cap (1 .. (i - 1)) \subseteq fit \cap (1 .. i)
      BY <2>3
    <3>3. CASE fit \cap (1 .. (i - 1)) = {}
      <4>1. best[i] = i
        BY <1>4, <2>1, <2>3, <3>3 DEF FirstBest
      <4>2. \A j \in fit \cap (1 .. i) : j = i
        BY <3>1, <3>3
      <4> QED
        BY <3>2, <4>1, <4>2 DEF FirstBest
    <3>4. CASE fit \cap (1 .. (i - 1)) # {}
      <4> DEFINE b == best[i - 1]
      <4>1. /\ b \in fit \cap (1 .. (i - 1))
            /\ \A j \in fit \cap (1 .. (i - 1)) :
                 worth[j] < worth[b] \/ (worth[j] = worth[b] /\ b <= j)
        BY <2>1, <3>4 DEF FirstBest
      <4>2. /\ b # 0 /\ b < i /\ b \in fit \cap (1 .. i)
            /\ worth[b] \in Int /\ worth[i] \in Int
            /\ \A j \in fit \cap (1 .. i) : worth[j] \in Int /\ j \in Int
        BY <4>1
      <4>3. best[i] = IF worth[i] > worth[b] THEN i ELSE b
        BY <1>4, <2>3, <4>2
      <4> HIDE DEF b
      <4>4. best[i] \in fit \cap (1 .. i)
        BY <3>2, <4>2, <4>3
      <4>5. \A j \in fit \cap (1 .. i) :
              worth[j] < worth[best[i]] \/ (worth[j] = worth[best[i]] /\ best[i] <= j)
        BY <3>1, <4>1, <4>2, <4>3
      <4> QED
        BY <3>2, <4>4, <4>5 DEF FirstBest
    <3> QED
      BY <3>3, <3>4
  <2> QED
    BY <2>2, <2>3
<1> HIDE DEF Holds
<1>7. \A i \in 0 .. n : i \in Holds
  BY <1>5, <1>6, LoopInduction
<1>8. FirstBest(best[n], fit \cap (1 .. n), worth)
  BY <1>7 DEF Holds
<1>9. fit \cap (1 .. n) = fit
  OBVIOUS
<1> QED
  BY <1>2, <1>8, <1>9

(* A filtered slice holds the kept rows and no others, in their order.     *)
Filters(k, s, S) ==
  /\ \A m \in DOMAIN k : \E i \in S : k[m] = s[i]
  /\ \A i \in S : \E m \in DOMAIN k : k[m] = s[i]
  /\ \A l, m \in DOMAIN k : l < m => \E i, j \in S : i < j /\ k[l] = s[i] /\ k[m] = s[j]

LEMMA KeptFilters ==
  ASSUME NEW T, NEW s \in Seq(T), NEW S \in SUBSET DOMAIN s
  PROVE  Kept(s, S) \in Seq(T) /\ Filters(Kept(s, S), s, S)
<1> DEFINE n == Len(s)
           More(k, i) == IF i \in S THEN Append(k, s[i]) ELSE k
           Loop(f) == f = [i \in 0 .. n |-> IF i = 0 THEN <<>> ELSE More(f[i - 1], i)]
<1>0. n \in Nat /\ DOMAIN s = 1 .. n
  OBVIOUS
<1>1. \E f : Loop(f)
  <2> DEFINE step == [i \in 1 .. n |-> [k \in Seq(T) |-> More(k, i)]]
  <2>1. <<>> \in Seq(T) /\ step \in [1 .. n -> [Seq(T) -> Seq(T)]]
    OBVIOUS
  <2>2. \A i \in 1 .. n, k \in Seq(T) : step[i][k] = More(k, i)
    OBVIOUS
  <2> HIDE DEF step, n, More
  <2> DEFINE V == Seq(T)
             start == <<>>
  <2>0. start \in V /\ step \in [1 .. n -> [V -> V]]
    BY <2>1
  <2> HIDE DEF V, start
  <2>3. PICK f \in [0 .. n -> V] : LoopOf(f, n, start, step)
    BY <1>0, <2>0, LoopExists
  <2>4. \A i \in 1 .. n : i - 1 \in 0 .. n /\ f[i - 1] \in Seq(T)
    BY <1>0 DEF V
  <2>5. \A i \in 1 .. n : f[i] = More(f[i - 1], i)
    BY <2>2, <2>3, <2>4 DEF LoopOf
  <2>6. \A i \in 0 .. n : f[i] = IF i = 0 THEN <<>> ELSE More(f[i - 1], i)
    BY <1>0, <2>3, <2>5 DEF start, LoopOf
  <2>7. Loop(f)
    <3>1. f = [i \in 0 .. n |-> f[i]]
      OBVIOUS
    <3> QED
      BY <2>6, <3>1, Zenon
  <2> HIDE DEF Loop
  <2> QED
    BY <2>7
<1> DEFINE slice == CHOOSE f : Loop(f)
<1>2. Kept(s, S) = slice[n]
  BY Zenon DEF Kept
<1>3. Loop(slice)
  <2> HIDE DEF Loop
  <2> QED
    BY <1>1
<1> HIDE DEF slice, n, More
<1>4. slice[0] = <<>> /\ \A i \in 1 .. n : slice[i] = More(slice[i - 1], i)
  BY <1>0, <1>3
<1> HIDE DEF Loop
<1> DEFINE Holds == {i \in 0 .. n : slice[i] \in Seq(T) /\ Filters(slice[i], s, S \cap (1 .. i))}
<1>5. 0 \in Holds
  <2>1. <<>> \in Seq(T) /\ DOMAIN <<>> = {} /\ S \cap (1 .. 0) = {}
    OBVIOUS
  <2>2. slice[0] \in Seq(T) /\ Filters(slice[0], s, S \cap (1 .. 0))
    BY <1>4, <2>1 DEF Filters
  <2> QED
    BY <1>0, <2>2
<1>6. ASSUME NEW i \in 1 .. n, i - 1 \in Holds PROVE i \in Holds
  <2> DEFINE k == slice[i - 1]
             P == S \cap (1 .. (i - 1))
  <2>1. k \in Seq(T) /\ Filters(k, s, P)
    BY <1>6
  <2>2. i \in 0 .. n /\ i \in Int /\ \A j \in P : j \in Int /\ j < i
    BY <1>0
  <2>3. CASE i \notin S
    <3>1. S \cap (1 .. i) = P /\ slice[i] = k
      BY <1>0, <1>4, <2>3 DEF More
    <3> QED
      BY <2>1, <2>2, <3>1
  <2>4. CASE i \in S
    <3>0. slice[i] = Append(k, s[i])
      BY <1>4, <2>4 DEF More
    <3>1. /\ i \in S \cap (1 .. i)
          /\ P \subseteq S \cap (1 .. i)
          /\ \A j \in S \cap (1 .. i) : j = i \/ j \in P
      BY <1>0, <2>4
    <3>2. s[i] \in T
      BY <1>0
    <3> HIDE DEF k, P
    <3>3. /\ Append(k, s[i]) \in Seq(T)
          /\ DOMAIN Append(k, s[i]) = 1 .. (Len(k) + 1) /\ DOMAIN k = 1 .. Len(k)
          /\ Len(k) \in Nat
          /\ \A m \in 1 .. Len(k) : Append(k, s[i])[m] = k[m]
          /\ Append(k, s[i])[Len(k) + 1] = s[i]
      BY <2>1, <3>2
    <3> DEFINE a == Append(k, s[i])
    <3>4. \A m \in DOMAIN a : m = Len(k) + 1 \/ m \in DOMAIN k
      BY <3>3
    <3>5. DOMAIN k \subseteq DOMAIN a /\ Len(k) + 1 \in DOMAIN a
      BY <3>3
    <3>6. /\ a[Len(k) + 1] = s[i] /\ \A m \in DOMAIN k : a[m] = k[m] /\ m \in Int /\ m <= Len(k)
      BY <3>3
    <3> HIDE DEF a
    <3>7. \A m \in DOMAIN a : \E j \in S \cap (1 .. i) : a[m] = s[j]
      BY <2>1, <3>1, <3>4, <3>6 DEF Filters
    <3>8. \A j \in S \cap (1 .. i) : \E m \in DOMAIN a : a[m] = s[j]
      BY <2>1, <3>1, <3>5, <3>6 DEF Filters
    <3>9. ASSUME NEW l \in DOMAIN a, NEW m \in DOMAIN a, l < m
          PROVE  \E h, j \in S \cap (1 .. i) : h < j /\ a[l] = s[h] /\ a[m] = s[j]
      <4>1. l \in DOMAIN k
        BY <3>3, <3>4, <3>6, <3>9
      <4>2. CASE m \in DOMAIN k
        BY <2>1, <3>1, <3>6, <3>9, <4>1, <4>2 DEF Filters
      <4>3. CASE m = Len(k) + 1
        <5>1. PICK h \in P : k[l] = s[h]
          BY <2>1, <4>1 DEF Filters
        <5>2. h < i /\ a[l] = s[h] /\ a[m] = s[i]
          BY <2>2, <3>6, <4>1, <4>3, <5>1
        <5> QED
          BY <3>1, <5>1, <5>2
      <4> QED
        BY <3>4, <4>2, <4>3
    <3>10. a \in Seq(T) /\ Filters(a, s, S \cap (1 .. i))
      BY <3>3, <3>7, <3>8, <3>9 DEF Filters, a
    <3> QED
      BY <2>2, <3>0, <3>10 DEF a
  <2> QED
    BY <2>3, <2>4
<1> HIDE DEF Holds
<1>7. \A i \in 0 .. n : i \in Holds
  BY <1>0, <1>5, <1>6, LoopInduction
<1>8. slice[n] \in Seq(T) /\ Filters(slice[n], s, S \cap (1 .. n))
  BY <1>0, <1>7 DEF Holds
<1>9. S \cap (1 .. n) = S
  BY <1>0
<1> QED
  BY <1>2, <1>8, <1>9

-----------------------------------------------------------------------------
(* A query's rows, and what a strategy chooses among them.                 *)

RowsOf(S) == {Row(i) : i \in S}
Shown(rows) == {rows[m] : m \in DOMAIN rows}
Sorted(rows) == \A l, m \in DOMAIN rows : l < m => ByPriorityAndAge(rows[l], rows[m])

LEMMA RowType == ASSUME TypeOK PROVE \A i \in Instances : Row(i) \in Rows /\ Row(i).id = i
<1>1. columns \in [Instances -> [priority : Int, born : Int, day : Int, hour : Int]]
  BY GroupAssumption DEF TypeOK
<1> QED
  BY <1>1 DEF Row, Rows

(* A query returns every row it asks for: as many distinct ones as exist.  *)
LEMMA QueryShowsAll ==
  ASSUME TypeOK, NEW S \in SUBSET Instances, NEW rows \in [1 .. Cardinality(S) -> RowsOf(S)],
         \A l, m \in DOMAIN rows : l < m => rows[l].id # rows[m].id
  PROVE  Shown(rows) = RowsOf(S) /\ rows \in Seq(Rows)
<1>1. IsFiniteSet(S)
  BY GroupAssumption, FS_Subset
<1> DEFINE N == Cardinality(S)
<1>2. N \in Nat
  BY <1>1, FS_CardinalityType
<1>3. \A m \in 1 .. N : \E i \in S : rows[m] = Row(i) /\ rows[m].id = i
  BY RowType DEF RowsOf
<1>4. ASSUME NEW i \in S PROVE \E m \in 1 .. N : rows[m].id = i
  <2> SUFFICES ASSUME \A m \in 1 .. N : rows[m].id # i PROVE FALSE
    OBVIOUS
  <2> DEFINE ids == [m \in 1 .. N |-> rows[m].id]
  <2>1. ids \in [1 .. N -> S \ {i}]
    BY <1>3
  <2>2. IsFiniteSet(S \ {i}) /\ Cardinality(S \ {i}) = N - 1
    BY <1>1, FS_RemoveElement
  <2>3. IsFiniteSet(1 .. N) /\ Cardinality(1 .. N) = N
    BY <1>2, FS_Interval
  <2>4. Cardinality(S \ {i}) < Cardinality(1 .. N)
    BY <1>2, <2>2, <2>3
  <2> HIDE DEF ids
  <2>5. \E l, m \in 1 .. N : l # m /\ ids[l] = ids[m]
    <3> DEFINE D == 1 .. N
               C == S \ {i}
    <3>1. IsFiniteSet(D) /\ IsFiniteSet(C) /\ Cardinality(C) < Cardinality(D) /\ ids \in [D -> C]
      BY <2>1, <2>2, <2>3, <2>4
    <3> HIDE DEF D, C
    <3>2. \E l, m \in D : l # m /\ ids[l] = ids[m]
      BY <3>1, FS_PigeonHole
    <3> QED
      BY <3>2 DEF D
  <2>6. PICK l, m \in 1 .. N : l # m /\ rows[l].id = rows[m].id
    BY <2>5 DEF ids
  <2>7. l < m \/ m < l
    BY <1>2, <2>6
  <2> QED
    BY <2>6, <2>7
<1>5. \A i \in S : \E m \in DOMAIN rows : rows[m] = Row(i)
  BY <1>3, <1>4
<1>6. Shown(rows) = RowsOf(S)
  BY <1>5 DEF Shown, RowsOf
<1>7. RowsOf(S) \subseteq Rows
  BY RowType DEF RowsOf
<1> HIDE DEF N
<1>8. rows \in [1 .. N -> Rows]
  BY <1>7 DEF N
<1> QED
  BY <1>2, <1>6, <1>8

(* What the rows a strategy may choose are worth.                          *)
Fits(held, row) == held = "failover" \/ HasBudget(row)
Choosable(held, rows) == {i \in DOMAIN rows : Fits(held, rows[i])}
Worths(held, rows) == [i \in DOMAIN rows |-> Worth(held, rows[i])]

LEMMA SelectsFirstBest ==
  ASSUME NEW held, NEW rows \in Seq(Rows)
  PROVE  /\ SelectInstance(held, rows) \in 0 .. Len(rows)
         /\ FirstBest(SelectInstance(held, rows), Choosable(held, rows), Worths(held, rows))
<1> DEFINE n == Len(rows)
<1>1. n \in Nat /\ DOMAIN rows = 1 .. n /\ \A i \in 1 .. n : rows[i] \in Rows
  OBVIOUS
<1>2. Worths(held, rows) \in [1 .. n -> Int] /\ Choosable(held, rows) \in SUBSET (1 .. n)
  BY <1>1 DEF Worths, Worth, Choosable, Rows
<1>3. SelectInstance(held, rows) = Scan(Choosable(held, rows), Worths(held, rows), n)
  <2>1. CASE held = "failover"
    <3>1. Choosable(held, rows) = DOMAIN rows /\ Worths(held, rows) = Priorities(rows)
      BY <2>1 DEF Choosable, Fits, Worths, Worth, Priorities
    <3> QED
      BY <2>1, <3>1 DEF SelectInstance, Failover
  <2>2. CASE held # "failover"
    <3>1. /\ Choosable(held, rows) = {i \in DOMAIN rows : HasBudget(rows[i])}
          /\ Worths(held, rows) = [i \in DOMAIN rows |-> rows[i].day]
      BY <2>2 DEF Choosable, Fits, Worths, Worth
    <3> QED
      BY <2>2, <3>1 DEF SelectInstance, Rotation
  <2> QED
    BY <2>1, <2>2
<1>4. FirstBest(SelectInstance(held, rows), Choosable(held, rows), Worths(held, rows))
  BY <1>1, <1>2, <1>3, ScanFinds
<1> HIDE DEF n
<1>5. SelectInstance(held, rows) \in 0 .. n
  BY <1>1, <1>2, <1>4 DEF FirstBest
<1> QED
  BY <1>4, <1>5 DEF n

(* The choice is a best row, and of equally good ones the first.           *)
LEMMA SelectsBest ==
  ASSUME NEW held, NEW rows \in Seq(Rows), NEW b, b = SelectInstance(held, rows)
  PROVE  IF BestOf(held, Shown(rows)) = {} THEN b = 0
         ELSE /\ b \in DOMAIN rows /\ b # 0
              /\ rows[b] \in BestOf(held, Shown(rows))
              /\ \A m \in DOMAIN rows : rows[m] \in BestOf(held, Shown(rows)) => b <= m
<1> DEFINE C == Choosable(held, rows)
           W == Worths(held, rows)
<1>1. FirstBest(b, C, W)
  BY SelectsFirstBest
<1>2. \A m \in DOMAIN rows : rows[m] \in Rows /\ m # 0 /\ m \in Int
  OBVIOUS
<1>3. \A m \in DOMAIN rows : Worth(held, rows[m]) \in Int
  BY <1>2 DEF Rows, Worth
<1>4. /\ C \subseteq DOMAIN rows
      /\ \A m \in DOMAIN rows : m \in C <=> Fits(held, rows[m])
      /\ \A m \in DOMAIN rows : W[m] = Worth(held, rows[m])
  BY DEF Choosable, Worths
<1> HIDE DEF C, W
<1>5. \A r : r \in BestOf(held, Shown(rows)) <=>
        \E m \in C : r = rows[m] /\ \A l \in C : Worth(held, rows[l]) <= Worth(held, rows[m])
  BY <1>4 DEF BestOf, Shown, Fits, HasBudget
<1>6. CASE C = {}
  <2>1. BestOf(held, Shown(rows)) = {}
    BY <1>5, <1>6
  <2> QED
    BY <1>1, <1>6, <2>1 DEF FirstBest
<1>7. CASE C # {}
  <2>1. /\ b \in C
        /\ \A m \in C : W[m] < W[b] \/ (W[m] = W[b] /\ b <= m)
    BY <1>1, <1>7 DEF FirstBest
  <2>2. b \in DOMAIN rows /\ \A m \in C : Worth(held, rows[m]) <= Worth(held, rows[b])
    BY <1>3, <1>4, <2>1
  <2>3. rows[b] \in BestOf(held, Shown(rows))
    BY <1>5, <2>1, <2>2
  <2>4. ASSUME NEW m \in DOMAIN rows, rows[m] \in BestOf(held, Shown(rows)) PROVE b <= m
    <3>1. PICK l \in C : rows[m] = rows[l] /\ \A j \in C : Worth(held, rows[j]) <= Worth(held, rows[l])
      BY <1>5, <2>4
    <3>2. m \in C /\ Worth(held, rows[b]) <= Worth(held, rows[m])
      BY <1>4, <2>1, <3>1
    <3> QED
      BY <1>2, <1>3, <1>4, <2>1, <2>2, <3>2
  <2> QED
    BY <1>2, <2>2, <2>3, <2>4
<1> QED
  BY <1>6, <1>7

-----------------------------------------------------------------------------
(* The inductive invariant: as long as no instance has changed since its   *)
(* query, a selection's rows are those of the instances it may choose, and *)
(* a failover's are in the query's order.                                  *)

ShowsCurrent(e) ==
  /\ e.at = "filter" => Shown(e.rows) = RowsOf(available)
  /\ e.at \in {"choose", "picked"} /\ e.for = Nobody
       => Shown(e.rows) = RowsOf(available \cap connected)
  /\ e.at \in {"choose", "picked"} /\ e.for # Nobody
       => Shown(e.rows) = RowsOf(available \ {e.for}) /\ Sorted(e.rows)

Sound(e) ==
  /\ e.since <= changes
  /\ e.since = changes => ShowsCurrent(e)
  /\ e.at = "filter" => e.for = Nobody
  /\ e.index = IF e.at = "picked" THEN SelectInstance(e.held, e.rows) ELSE 0

SelInv == \A s \in Selectors : Sound(sel[s])

LEMMA SoundIsTyped ==
  ASSUME NEW e \in Selection, Sound(e)
  PROVE  e.index <= Len(e.rows) /\ e.since <= changes
<1>1. e.rows \in Seq(Rows) /\ Len(e.rows) \in Nat
  BY DEF Selection
<1>2. SelectInstance(e.held, e.rows) \in 0 .. Len(e.rows)
  BY <1>1, SelectsFirstBest
<1> QED
  BY <1>1, <1>2 DEF Sound

(* While the instances stay as they are a sound selection stays sound.     *)
LEMMA StaysSound ==
  ASSUME UNCHANGED instances, NEW e \in Selection, Sound(e)
  PROVE  Sound(e)'
<1>1. UNCHANGED <<available, connected, changes, columns>>
  BY DEF instances
<1>2. \A S : RowsOf(S)' = RowsOf(S)
  BY <1>1 DEF RowsOf, Row
<1>3. ShowsCurrent(e) => ShowsCurrent(e)'
  BY <1>1, <1>2 DEF ShowsCurrent
<1> QED
  BY <1>1, <1>3 DEF Sound

(* A step of selection s makes e of it.                                    *)
Becomes(s, e) == sel' = [sel EXCEPT ![s] = e] /\ e \in Selection /\ Sound(e)

LEMMA SelectionStep ==
  ASSUME TypeOK, SelInv, UNCHANGED <<strategy, updates, paused, instances>>,
         strategies' \in Strategies \cup {"none"}, sent' \in [Instances -> 0 .. MaxSends],
         NEW s \in Selectors, NEW e, Becomes(s, e)
  PROVE  TypeOK' /\ SelInv'
<1>1. sel' \in [Selectors -> Selection]
  BY DEF TypeOK, Becomes
<1>2. ASSUME NEW t \in Selectors PROVE sel'[t] \in Selection /\ Sound(sel'[t])
  <2>1. CASE t = s
    BY <2>1 DEF Becomes, TypeOK
  <2>2. CASE t # s
    BY <2>2 DEF Becomes, TypeOK, SelInv
  <2> QED
    BY <2>1, <2>2
<1>3. SelInv'
  <2>1. \A d \in Selection : Sound(d) => Sound(d)'
    BY StaysSound
  <2> QED
    BY <1>2, <2>1 DEF SelInv
<1>4. \A t \in Selectors : sel'[t].index <= Len(sel'[t].rows) /\ sel'[t].since <= changes'
  BY <1>2, SoundIsTyped DEF instances
<1> QED
  BY <1>1, <1>3, <1>4 DEF TypeOK, instances

(* Before the query a selection holds nothing that could be out of date.   *)
LEMMA EarlySound ==
  ASSUME NEW d \in Selection, Sound(d), NEW e \in Selection,
         d.at \in {"idle", "lookup", "row", "store"},
         e.at \in {"lookup", "row", "store", "query"},
         e.index = d.index, e.since = d.since
  PROVE  Sound(e)
BY DEF Sound, ShowsCurrent

LEMMA EndSound == ASSUME TypeOK PROVE NoSelection \in Selection /\ Sound(NoSelection)
<1>1. <<>> \in Seq(Rows)
  OBVIOUS
<1> QED
  BY <1>1 DEF NoSelection, Selection, Sound, ShowsCurrent, TypeOK

LEMMA EndStep ==
  ASSUME TypeOK, NEW s \in Selectors, Ends(s)
  PROVE  \E e : Becomes(s, e)
BY EndSound DEF Ends, Becomes

LEMMA BeforeQuery ==
  ASSUME TypeOK, SelInv, NEW s \in Selectors,
         BeginSelect(s) \/ BeginFailover(s) \/ LookUpStrategy(s) \/ FindGroup(s) \/ StoreStrategy(s)
  PROVE  \E e : Becomes(s, e)
<1> DEFINE d == sel[s]
<1>1. /\ d \in Selection /\ Sound(d) /\ sel \in [Selectors -> Selection]
      /\ strategies \in Strategies \cup {"none"} /\ strategy \in Strategies
  BY DEF TypeOK, SelInv
<1>2. CASE Ends(s)
  BY <1>2, EndStep
<1>3. CASE ~Ends(s)
  <2>1. PICK a \in {"lookup", "row", "store", "query"}, i \in Instances \cup {Nobody},
             h \in Strategies \cup {"none"} :
          /\ d.at \in {"idle", "lookup", "row", "store"}
          /\ sel' = [sel EXCEPT ![s] = [d EXCEPT !.at = a, !.for = i, !.held = h]]
    <3>1. CASE BeginSelect(s)
      <4>1. d.at = "idle" /\ sel' = [sel EXCEPT ![s] = [d EXCEPT !.at = "lookup", !.for = d.for,
                                                                !.held = d.held]]
        BY <1>1, <3>1 DEF BeginSelect, Then, Selection
      <4> QED
        BY <1>1, <4>1 DEF Selection
    <3>2. CASE BeginFailover(s)
      <4>1. PICK i \in Instances : sel' = [sel EXCEPT ![s].at = "lookup", ![s].for = i]
        BY <3>2 DEF BeginFailover
      <4>2. [d EXCEPT !.at = "lookup", !.for = i]
              = [d EXCEPT !.at = "lookup", !.for = i, !.held = d.held]
        BY <1>1 DEF Selection
      <4>3. sel' = [sel EXCEPT ![s] = [d EXCEPT !.at = "lookup", !.for = i]]
        BY <1>1, <4>1
      <4>4. d.at = "idle" /\ d.held \in Strategies \cup {"none"}
        BY <1>1, <3>2 DEF BeginFailover, Selection
      <4> QED
        BY <4>2, <4>3, <4>4
    <3>3. CASE LookUpStrategy(s)
      <4>1. \/ sel' = [sel EXCEPT ![s] = [d EXCEPT !.at = "query", !.for = d.for,
                                                  !.held = strategies]]
            \/ sel' = [sel EXCEPT ![s] = [d EXCEPT !.at = "row", !.for = d.for, !.held = d.held]]
        BY <1>1, <3>3 DEF LookUpStrategy, Then, Selection
      <4>2. d.at = "lookup" /\ d.for \in Instances \cup {Nobody} /\ d.held \in Strategies \cup {"none"}
        BY <1>1, <3>3 DEF LookUpStrategy, Selection
      <4> QED
        BY <1>1, <4>1, <4>2
    <3>4. CASE FindGroup(s)
      <4>1. d.at = "row" /\ sel' = [sel EXCEPT ![s] = [d EXCEPT !.at = "store", !.for = d.for,
                                                               !.held = strategy]]
        BY <1>1, <1>3, <3>4 DEF FindGroup, Selection
      <4> QED
        BY <1>1, <4>1 DEF Selection
    <3>5. CASE StoreStrategy(s)
      <4>1. d.at = "store" /\ sel' = [sel EXCEPT ![s] = [d EXCEPT !.at = "query", !.for = d.for,
                                                                 !.held = d.held]]
        BY <1>1, <3>5 DEF StoreStrategy, Then, Selection
      <4> QED
        BY <1>1, <4>1 DEF Selection
    <3> QED
      BY <3>1, <3>2, <3>3, <3>4, <3>5
  <2> DEFINE e == [d EXCEPT !.at = a, !.for = i, !.held = h]
  <2>2. e \in Selection /\ e.at = a /\ e.index = d.index /\ e.since = d.since
    BY <1>1, <2>1 DEF Selection
  <2>3. Sound(e)
    BY <1>1, <2>1, <2>2, EarlySound
  <2> QED
    BY <2>1, <2>2, <2>3 DEF Becomes
<1> QED
  BY <1>2, <1>3

(* Filtering in order keeps rows sorted, and shows the kept ones.          *)
LEMMA KeptShows ==
  ASSUME NEW rows \in Seq(Rows), NEW indices \in SUBSET DOMAIN rows
  PROVE  /\ Kept(rows, indices) \in Seq(Rows)
         /\ Shown(Kept(rows, indices)) = {rows[m] : m \in indices}
         /\ Sorted(rows) => Sorted(Kept(rows, indices))
<1>1. Kept(rows, indices) \in Seq(Rows) /\ Filters(Kept(rows, indices), rows, indices)
  BY KeptFilters
<1>2. Shown(Kept(rows, indices)) = {rows[m] : m \in indices}
  BY <1>1 DEF Filters, Shown
<1>3. Sorted(rows) => Sorted(Kept(rows, indices))
  BY <1>1 DEF Filters, Sorted
<1> QED
  BY <1>1, <1>2, <1>3

LEMMA QueryStep ==
  ASSUME TypeOK, SelInv, NEW s \in Selectors, QueryInstances(s)
  PROVE  \E e : Becomes(s, e)
<1> DEFINE d == sel[s]
<1>1. d \in Selection /\ Sound(d) /\ sel \in [Selectors -> Selection] /\ d.at = "query"
  BY DEF TypeOK, SelInv, QueryInstances
<1>2. available \in SUBSET Instances /\ changes \in Nat
  BY DEF TypeOK
<1>3. CASE Ends(s)
  BY <1>3, EndStep
<1>4. CASE d.for = Nobody /\ ~Ends(s)
  <2>1. PICK rows \in Ordered(available, ByPriority) :
          sel' = [sel EXCEPT ![s].at = "filter", ![s].rows = rows, ![s].since = changes]
    BY <1>4 DEF QueryInstances
  <2>2. /\ rows \in [1 .. Cardinality(available) -> RowsOf(available)]
        /\ \A l, m \in DOMAIN rows : l < m => rows[l].id # rows[m].id
    BY DEF Ordered, RowsOf
  <2>3. Shown(rows) = RowsOf(available) /\ rows \in Seq(Rows)
    BY <1>2, <2>2, QueryShowsAll
  <2> DEFINE e == [d EXCEPT !.at = "filter", !.rows = rows, !.since = changes]
  <2>4. /\ e \in Selection /\ e.at = "filter" /\ e.rows = rows /\ e.since = changes
        /\ e.for = Nobody /\ e.index = 0
    BY <1>1, <1>2, <1>4, <2>3 DEF Selection, Sound
  <2>5. Sound(e)
    BY <1>2, <2>3, <2>4 DEF Sound, ShowsCurrent
  <2>6. sel' = [sel EXCEPT ![s] = e]
    BY <1>1, <2>1
  <2> QED
    BY <2>4, <2>5, <2>6 DEF Becomes
<1>5. CASE d.for # Nobody /\ ~Ends(s)
  <2>1. PICK rows \in Ordered(Instances, ByPriorityAndAge) :
          sel' = [sel EXCEPT ![s].at = "choose", ![s].since = changes,
                             ![s].rows = Candidates(rows, sel[s].for)]
    BY <1>5 DEF QueryInstances
  <2>2. /\ rows \in [1 .. Cardinality(Instances) -> RowsOf(Instances)]
        /\ \A l, m \in DOMAIN rows : l < m => rows[l].id # rows[m].id
        /\ Sorted(rows)
    BY DEF Ordered, RowsOf, Sorted
  <2>3. Shown(rows) = RowsOf(Instances) /\ rows \in Seq(Rows)
    BY <2>2, QueryShowsAll
  <2> DEFINE indices == {n \in DOMAIN rows : rows[n].id # d.for /\ rows[n].status = "available"}
             kept == Kept(rows, indices)
  <2>4. Candidates(rows, d.for) = kept
    BY DEF Candidates
  <2>5. /\ kept \in Seq(Rows) /\ Shown(kept) = {rows[m] : m \in indices}
        /\ Sorted(kept)
    BY <2>2, <2>3, KeptShows
  <2>6. \A i \in Instances : Row(i).id = i /\ (Row(i).status = "available" <=> i \in available)
    BY RowType DEF Row
  <2>7. {rows[m] : m \in indices} = RowsOf(available \ {d.for})
    BY <1>2, <2>3, <2>6 DEF Shown, RowsOf
  <2> HIDE DEF kept
  <2> DEFINE e == [d EXCEPT !.at = "choose", !.since = changes, !.rows = kept]
  <2>8. /\ e \in Selection /\ e.at = "choose" /\ e.rows = kept /\ e.since = changes
        /\ e.for = d.for /\ e.index = 0
    BY <1>1, <1>2, <2>5 DEF Selection, Sound
  <2>9. Sound(e)
    <3>1. Shown(kept) = RowsOf(available \ {d.for}) /\ Sorted(kept)
      BY <2>5, <2>7
    <3> HIDE DEF indices
    <3>2. ShowsCurrent(e)
      BY <1>5, <2>8, <3>1 DEF ShowsCurrent
    <3> QED
      BY <1>2, <2>8, <3>2 DEF Sound
  <2>10. sel' = [sel EXCEPT ![s] = e]
    BY <1>1, <2>1, <2>4
  <2> QED
    BY <2>8, <2>9, <2>10 DEF Becomes
<1> QED
  BY <1>3, <1>4, <1>5

LEMMA FilterStep ==
  ASSUME TypeOK, SelInv, NEW s \in Selectors, FilterConnected(s)
  PROVE  \E e : Becomes(s, e)
<1> DEFINE d == sel[s]
           indices == {n \in DOMAIN d.rows : d.rows[n].id \in connected}
           kept == Kept(d.rows, indices)
           e == [d EXCEPT !.at = "choose", !.rows = kept]
<1>1. /\ d \in Selection /\ Sound(d) /\ sel \in [Selectors -> Selection]
      /\ d.at = "filter" /\ d.rows \in Seq(Rows)
  BY DEF TypeOK, SelInv, FilterConnected, Selection
<1>2. available \in SUBSET Instances /\ \A i \in Instances : Row(i).id = i
  BY RowType DEF TypeOK
<1>3. kept \in Seq(Rows) /\ Shown(kept) = {d.rows[m] : m \in indices}
  BY <1>1, KeptShows
<1>4. d.since = changes => Shown(kept) = RowsOf(available \cap connected)
  <2> SUFFICES ASSUME d.since = changes PROVE {d.rows[m] : m \in indices} = RowsOf(available \cap connected)
    BY <1>3
  <2>1. Shown(d.rows) = RowsOf(available)
    BY <1>1 DEF Sound, ShowsCurrent
  <2> QED
    BY <1>2, <2>1 DEF Shown, RowsOf
<1>5. sel' = [sel EXCEPT ![s] = e]
  BY <1>1 DEF FilterConnected
<1> HIDE DEF kept
<1>6. /\ e \in Selection /\ e.at = "choose" /\ e.rows = kept /\ e.since = d.since
      /\ e.for = d.for /\ e.index = d.index
  BY <1>1, <1>3 DEF Selection
<1>7. d.for = Nobody /\ d.index = 0 /\ d.since <= changes
  BY <1>1 DEF Sound
<1>8. Sound(e)
  BY <1>4, <1>6, <1>7 DEF Sound, ShowsCurrent
<1> QED
  BY <1>5, <1>6, <1>8 DEF Becomes

LEMMA ChooseStep ==
  ASSUME TypeOK, SelInv, NEW s \in Selectors, Choose(s)
  PROVE  \E e : Becomes(s, e)
<1> DEFINE d == sel[s]
           b == SelectInstance(d.held, d.rows)
           e == [d EXCEPT !.at = "picked", !.index = b]
<1>1. /\ d \in Selection /\ Sound(d) /\ sel \in [Selectors -> Selection]
      /\ d.at = "choose" /\ d.rows \in Seq(Rows)
  BY DEF TypeOK, SelInv, Choose, Selection
<1>2. b \in Nat
  BY <1>1, SelectsFirstBest
<1>3. sel' = [sel EXCEPT ![s] = e]
  BY <1>1 DEF Choose
<1> HIDE DEF b
<1>4. /\ e \in Selection /\ e.at = "picked" /\ e.rows = d.rows /\ e.since = d.since
      /\ e.for = d.for /\ e.index = b /\ e.held = d.held
  BY <1>1, <1>2 DEF Selection
<1>5. Sound(e)
  BY <1>1, <1>4 DEF Sound, ShowsCurrent, b
<1> QED
  BY <1>3, <1>4, <1>5 DEF Becomes

LEMMA UseStep ==
  ASSUME TypeOK, SelInv, NEW s \in Selectors, UseSelection(s)
  PROVE  sent' \in [Instances -> 0 .. MaxSends]
<1>1. sent \in [Instances -> 0 .. MaxSends] /\ MaxSends \in Nat
  BY GroupAssumption DEF TypeOK
<1>2. CASE sent' = sent
  BY <1>1, <1>2
<1>3. CASE sent' # sent
  <2> DEFINE i == Picked(s).id
  <2>1. sent' = [sent EXCEPT ![i] = @ + 1] /\ sent[i] < MaxSends
    BY <1>3 DEF UseSelection
  <2> HIDE DEF i
  <2>2. CASE i \in Instances
    <3>1. sent[i] + 1 \in 0 .. MaxSends
      BY <1>1, <2>1, <2>2
    <3> QED
      BY <1>1, <2>1, <3>1
  <2>3. CASE i \notin Instances
    BY <1>1, <2>1, <2>3
  <2> QED
    BY <2>2, <2>3
<1> QED
  BY <1>2, <1>3

LEMMA SelectorStep ==
  ASSUME TypeOK, SelInv, NEW s \in Selectors, BeginSelect(s) \/ BeginFailover(s) \/ Select(s)
  PROVE  TypeOK' /\ SelInv'
<1>1. UNCHANGED <<strategy, updates, paused, instances>>
  BY DEF BeginSelect, BeginFailover, Select, LookUpStrategy, FindGroup, StoreStrategy,
     QueryInstances, FilterConnected, Choose, UseSelection, group
<1>2. strategies' \in Strategies \cup {"none"}
  BY DEF BeginSelect, BeginFailover, Select, LookUpStrategy, FindGroup, StoreStrategy,
     QueryInstances, FilterConnected, Choose, UseSelection, TypeOK, Selection
<1>3. sent' \in [Instances -> 0 .. MaxSends]
  BY UseStep DEF BeginSelect, BeginFailover, Select, LookUpStrategy, FindGroup, StoreStrategy,
     QueryInstances, FilterConnected, Choose, TypeOK
<1>4. \E e : Becomes(s, e)
  BY BeforeQuery, QueryStep, FilterStep, ChooseStep, EndStep DEF Select, UseSelection
<1> QED
  BY <1>1, <1>2, <1>3, <1>4, SelectionStep

(* A change of an instance outdates every selection's rows.                *)
LEMMA ChangeStep ==
  ASSUME TypeOK, SelInv, NEW i \in Instances, ChangeInstance(i) \/ UpdateInstance(i)
  PROVE  TypeOK' /\ SelInv'
<1>1. /\ UNCHANGED <<strategy, updates, paused, strategies, sel, sent>>
      /\ changes < MaxChanges /\ changes' = changes + 1
  BY DEF ChangeInstance, UpdateInstance, group
<1>2. changes' \in 0 .. MaxChanges /\ changes \in Nat
  BY <1>1, GroupAssumption DEF TypeOK
<1>3. columns' \in Profiles /\ available' \in SUBSET Instances /\ connected' \in SUBSET Instances
  BY DEF ChangeInstance, UpdateInstance, TypeOK
<1>4. \A s \in Selectors :
        /\ sel[s].since \in Nat /\ sel[s].since <= changes
        /\ sel[s].since <= changes' /\ sel[s].since # changes'
  BY <1>1, <1>2 DEF TypeOK, Selection
<1>5. TypeOK'
  BY <1>1, <1>2, <1>3, <1>4 DEF TypeOK
<1>6. SelInv'
  BY <1>1, <1>4 DEF SelInv, Sound
<1> QED
  BY <1>5, <1>6

IInv == TypeOK /\ SelInv

LEMMA InitIInv == Init => IInv
<1> SUFFICES ASSUME Init PROVE IInv
  OBVIOUS
<1>1. <<>> \in Seq(Rows) /\ Len(<<>>) = 0
  OBVIOUS
<1>2. NoSelection \in Selection
  BY <1>1 DEF NoSelection, Selection
<1>3. TypeOK
  <2>1. \A t \in Selectors : sel[t] = NoSelection
    BY DEF Init
  <2>2. NoSelection.index = 0 /\ NoSelection.since = 0 /\ NoSelection.rows = <<>>
    BY DEF NoSelection
  <2>3. sent \in [Instances -> 0 .. MaxSends] /\ updates \in 0 .. MaxUpdates /\ changes \in 0 .. MaxChanges
    BY GroupAssumption DEF Init
  <2>4. sel \in [Selectors -> Selection]
    BY <1>2 DEF Init
  <2>5. \A t \in Selectors : sel[t].index <= Len(sel[t].rows) /\ sel[t].since <= changes
    <3>1. 0 <= Len(<<>>) /\ changes = 0
      BY <1>1 DEF Init
    <3> QED
      BY <2>1, <2>2, <3>1
  <2>6. /\ strategy \in Strategies /\ columns \in Profiles /\ available \in SUBSET Instances
        /\ connected \in SUBSET Instances /\ strategies \in Strategies \cup {"none"}
        /\ paused \in BOOLEAN
    BY DEF Init
  <2> QED
    BY <2>3, <2>4, <2>5, <2>6 DEF TypeOK
<1>4. SelInv
  BY <1>3, EndSound DEF Init, SelInv
<1> QED
  BY <1>3, <1>4 DEF IInv

LEMMA StepIInv == IInv /\ [Next]_vars => IInv'
<1> SUFFICES ASSUME TypeOK, SelInv, [Next]_vars PROVE TypeOK' /\ SelInv'
  BY DEF IInv
<1>1. ASSUME NEW s \in Selectors, BeginSelect(s) \/ BeginFailover(s) \/ Select(s)
      PROVE  TypeOK' /\ SelInv'
  BY <1>1, SelectorStep
<1>2. ASSUME NEW i \in Instances, ChangeInstance(i) \/ UpdateInstance(i)
      PROVE  TypeOK' /\ SelInv'
  BY <1>2, ChangeStep
<1>3. CASE UpdateGroup \/ SetPaused \/ UNCHANGED vars
  <2>1. UNCHANGED <<instances, strategies, sel, sent>>
    BY <1>3 DEF UpdateGroup, SetPaused, vars, instances
  <2>2. strategy' \in Strategies /\ paused' \in BOOLEAN /\ updates' \in 0 .. MaxUpdates
    <3>1. CASE UpdateGroup
      <4>1. updates < MaxUpdates /\ updates' = updates + 1 /\ updates \in Nat /\ MaxUpdates \in Nat
        BY <3>1, GroupAssumption DEF UpdateGroup, TypeOK
      <4>2. updates' \in 0 .. MaxUpdates
        BY <4>1
      <4> QED
        BY <3>1, <4>2 DEF UpdateGroup, TypeOK
    <3>2. CASE SetPaused
      <4>1. paused' \in BOOLEAN
        BY <3>2, Zenon DEF SetPaused
      <4> QED
        BY <3>2, <4>1 DEF SetPaused, TypeOK
    <3>3. CASE UNCHANGED vars
      BY <3>3 DEF vars, TypeOK
    <3> QED
      BY <1>3, <3>1, <3>2, <3>3
  <2>3. TypeOK'
    BY <2>1, <2>2 DEF TypeOK, instances
  <2>4. SelInv'
    BY <2>1, StaysSound DEF SelInv, TypeOK
  <2> QED
    BY <2>3, <2>4
<1> QED
  BY <1>1, <1>2, <1>3 DEF Next

LEMMA InductiveInvariant == Spec => []IInv
<1>1. Init => IInv
  BY InitIInv
<1>2. IInv /\ [Next]_vars => IInv'
  BY StepIInv
<1> QED
  BY <1>1, <1>2, PTL DEF Spec

(***************************************************************************)
(* Every variable of the group keeps its type, and a selection's choice    *)
(* stays within its rows, for any instances and any number of selections.  *)
(***************************************************************************)
THEOREM TypeCorrect == Spec => []TypeOK
BY InductiveInvariant, PTL DEF IInv

(***************************************************************************)
(* A selection chooses a best one of the instances that are available and  *)
(* connected, whatever their number, priorities and budgets, and in        *)
(* whatever order the query returns equally good ones (group.go,           *)
(* SelectInstance; strategy_failover.go and strategy_rotation.go).         *)
(***************************************************************************)
THEOREM PickIsBestHolds == Spec => []PickIsBest
<1>1. IInv => PickIsBest
  <2> SUFFICES ASSUME IInv, NEW s \in Selectors, Fresh(s), sel[s].for = Nobody
               PROVE  Chose(s, BestOf(sel[s].held, RowsOf(available \cap connected)))
    BY DEF PickIsBest, RowsOf
  <2>1. Shown(sel[s].rows) = RowsOf(available \cap connected)
    BY DEF IInv, SelInv, Sound, ShowsCurrent, Fresh
  <2>2. /\ sel[s].rows \in Seq(Rows)
        /\ sel[s].index = SelectInstance(sel[s].held, sel[s].rows)
    BY DEF IInv, TypeOK, Selection, SelInv, Sound, Fresh
  <2> QED
    BY <2>1, <2>2, SelectsBest DEF Chose, Picked
<1> QED
  BY <1>1, InductiveInvariant, PTL

(***************************************************************************)
(* A failover's replacement is a best one of the other available           *)
(* instances, under the failover strategy the oldest of them: whatever the *)
(* number of instances, for no scan passes over an earlier row that is as  *)
(* good (group.go, HandleInstanceFailure).                                 *)
(***************************************************************************)
THEOREM ReplacementIsBestHolds == Spec => []ReplacementIsBest
<1>1. IInv => ReplacementIsBest
  <2> SUFFICES ASSUME IInv, NEW s \in Selectors, Fresh(s), sel[s].for # Nobody
               PROVE  LET best == BestOf(sel[s].held, RowsOf(available \ {sel[s].for}))
                      IN Chose(s, IF sel[s].held = "failover"
                                  THEN {r \in best : \A other \in best : r.born <= other.born}
                                  ELSE best)
    BY DEF ReplacementIsBest, RowsOf
  <2> DEFINE rows == sel[s].rows
             held == sel[s].held
             b == sel[s].index
             best == BestOf(held, RowsOf(available \ {sel[s].for}))
  <2>1. Shown(rows) = RowsOf(available \ {sel[s].for}) /\ Sorted(rows)
    BY DEF IInv, SelInv, Sound, ShowsCurrent, Fresh
  <2>2. rows \in Seq(Rows) /\ b = SelectInstance(held, rows)
    BY DEF IInv, TypeOK, Selection, SelInv, Sound, Fresh
  <2>3. IF best = {} THEN b = 0
        ELSE /\ b \in DOMAIN rows /\ b # 0 /\ rows[b] \in best
             /\ \A m \in DOMAIN rows : rows[m] \in best => b <= m
    BY <2>1, <2>2, SelectsBest
  <2>4. \A r \in best : \E m \in DOMAIN rows : r = rows[m]
    BY <2>1 DEF BestOf, Shown
  <2>5. \A m \in DOMAIN rows : m \in Int /\ rows[m] \in Rows
    BY <2>2
  <2>6. ASSUME held = "failover", best # {}, NEW r \in best PROVE rows[b].born <= r.born
    <3>1. PICK m \in DOMAIN rows : r = rows[m]
      BY <2>4
    <3>2. b \in DOMAIN rows /\ b <= m /\ rows[b] \in best
      BY <2>3, <2>6, <3>1
    <3>3. rows[b].priority = rows[m].priority
      <4>1. rows[m].priority <= rows[b].priority /\ rows[b].priority <= rows[m].priority
        BY <2>6, <3>1, <3>2 DEF BestOf, Worth
      <4>2. rows[m].priority \in Int /\ rows[b].priority \in Int
        BY <2>5, <3>2 DEF Rows
      <4> QED
        BY <4>1, <4>2
    <3>4. CASE b = m
      BY <2>5, <3>1, <3>4 DEF Rows
    <3>5. CASE b < m
      <4>1. ByPriorityAndAge(rows[b], rows[m])
        BY <2>1, <3>2, <3>5 DEF Sorted
      <4>2. rows[m].priority \in Int /\ rows[b].priority \in Int
        BY <2>5, <3>2 DEF Rows
      <4> QED
        BY <3>1, <3>3, <4>1, <4>2 DEF ByPriorityAndAge
    <3> QED
      BY <2>5, <3>2, <3>4, <3>5
  <2> HIDE DEF best
  <2>7. Picked(s) = rows[b]
    BY DEF Picked
  <2>8. CASE best = {}
    BY <2>3, <2>8 DEF Chose, best
  <2>9. CASE best # {}
    BY <2>3, <2>6, <2>7, <2>9 DEF Chose, best
  <2> QED
    BY <2>8, <2>9
<1> QED
  BY <1>1, InductiveInvariant, PTL
=============================================================================
