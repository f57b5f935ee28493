----------------------------- MODULE LoopProofs -----------------------------
(***************************************************************************)
(* What the proofs about the gateway's loops rest on.  A loop over n rows  *)
(* is modelled as a recursive function of the rounds it has done: that such*)
(* a function exists, and that what each round keeps holds after all of    *)
(* them, both by the least counterexample.                                 *)
(***************************************************************************)
EXTENDS Integers, WellFoundedInduction, TLAPS

(* Induction over the rounds of a loop: the first round after which what is*)
(* claimed fails is not round 0, and the one before it makes it hold.      *)
LEMMA LeastElement ==
  ASSUME NEW T \in SUBSET Nat, T # {}
  PROVE  \E n \in T : \A m \in T : n <= m
<1> DEFINE R == {ss \in Nat \X Nat : ss[1] < ss[2]}
<1>1. IsWellFoundedOn(R, Nat)
  BY NatLessThanWellFounded DEF OpToRel
<1> HIDE DEF R
<1>2. PICK n \in T : \A m \in T : <<m, n>> \notin R
  BY <1>1, WFMin
<1>3. \A m \in T : ~(m < n)
  BY <1>2 DEF R
<1>4. n \in Nat /\ \A m \in T : m \in Nat
  OBVIOUS
<1> QED
  BY <1>3, <1>4

LEMMA LoopInduction ==
  ASSUME NEW n \in Nat, NEW Holds, 0 \in Holds,
         \A i \in 1 .. n : i - 1 \in Holds => i \in Holds
  PROVE  \A i \in 0 .. n : i \in Holds
<1> SUFFICES ASSUME NEW k \in 0 .. n, k \notin Holds PROVE FALSE
  OBVIOUS
<1> DEFINE Fails == {i \in 0 .. n : i \notin Holds}
<1>1. Fails \in SUBSET Nat /\ Fails # {}
  OBVIOUS
<1>2. PICK least \in Fails : \A m \in Fails : least <= m
  BY <1>1, LeastElement
<1>3. least \in 1 .. n /\ least - 1 \in 0 .. n
  OBVIOUS
<1>4. least - 1 \in Holds
  BY <1>2, <1>3
<1> QED
  BY <1>3, <1>4

(* A loop of n rounds over values of V: round i makes step[i][v] of v.     *)
LoopOf(f, n, start, step) ==
  f[0] = start /\ \A i \in 1 .. n : f[i] = step[i][f[i - 1]]

LEMMA LoopExists ==
  ASSUME NEW n \in Nat, NEW V, NEW start \in V, NEW step \in [1 .. n -> [V -> V]]
  PROVE  \E f \in [0 .. n -> V] : LoopOf(f, n, start, step)
<1> DEFINE Runs(k) == \E f \in [0 .. k -> V] :
                        f[0] = start /\ \A i \in 1 .. k : f[i] = step[i][f[i - 1]]
           Holds == {k \in 0 .. n : Runs(k)}
<1>1. 0 \in Holds
  <2> DEFINE g == [i \in 0 .. 0 |-> start]
  <2>1. g \in [0 .. 0 -> V] /\ g[0] = start
    OBVIOUS
  <2>2. \A i \in 1 .. 0 : g[i] = step[i][g[i - 1]]
    OBVIOUS
  <2> HIDE DEF g
  <2>3. Runs(0)
    BY <2>1, <2>2
  <2> HIDE DEF Runs
  <2> QED
    BY <2>3
<1>2. ASSUME NEW k \in 1 .. n, k - 1 \in Holds PROVE k \in Holds
  <2>1. PICK f \in [0 .. (k - 1) -> V] :
          f[0] = start /\ \A i \in 1 .. (k - 1) : f[i] = step[i][f[i - 1]]
    BY <1>2
  <2> DEFINE g == [i \in 0 .. k |-> IF i = k THEN step[k][f[k - 1]] ELSE f[i]]
  <2>2. step[k][f[k - 1]] \in V
    OBVIOUS
  <2>3. g \in [0 .. k -> V]
    BY <2>2
  <2>4. g[0] = start
    BY <2>1
  <2>5. \A i \in 1 .. k : g[i] = step[i][g[i - 1]]
    BY <2>1
  <2> HIDE DEF g
  <2>6. Runs(k)
    BY <2>3, <2>4, <2>5
  <2>7. k \in 0 .. n
    OBVIOUS
  <2> HIDE DEF Runs
  <2> QED
    BY <2>6, <2>7
<1> HIDE DEF Holds
<1>3. \A k \in 0 .. n : k \in Holds
  BY <1>1, <1>2, LoopInduction
<1>4. n \in Holds
  BY <1>3
<1> QED
  BY <1>4 DEF Holds, LoopOf
=============================================================================
