------------------------------ MODULE Induction ------------------------------
(***************************************************************************)
(* Induction over numbers, stated with sets instead of operators so that   *)
(* the provers can use it, and what follows for recursive functions and    *)
(* for the library's FlattenSeq.  The proofs about the codecs and the      *)
(* framing rest on these facts.                                            *)
(***************************************************************************)
EXTENDS Integers, SequencesExt, TLAPS, WellFoundedInduction, SequenceTheorems

(* Every set of naturals that is not empty has a least element.            *)
LEMMA LeastNumber ==
  ASSUME NEW T, T \subseteq Nat, T # {}
  PROVE  \E n \in T : \A m \in T : n <= m
<1> DEFINE R == OpToRel(<, Nat)
<1>1. IsWellFoundedOn(R, Nat)
  BY NatLessThanWellFounded, Zenon
<1>2. PICK n \in T : \A m \in T : <<m, n>> \notin R
  <2> HIDE DEF R
  <2> QED
    BY <1>1, WFMin, Zenon
<1>3. \A m \in T : ~(m < n)
  BY <1>2, Zenon DEF OpToRel
<1> QED
  BY <1>3

(* A set that has 0 and the successor of each natural in it has them all.  *)
LEMMA SetInduction ==
  ASSUME NEW S, 0 \in S, \A n \in Nat : n \in S => n + 1 \in S
  PROVE  Nat \subseteq S
<1>1. SUFFICES ASSUME Nat \ S # {} PROVE FALSE
  OBVIOUS
<1>2. PICK n \in Nat \ S : \A m \in Nat \ S : n <= m
  BY <1>1, LeastNumber
<1>3. n - 1 \in Nat /\ n - 1 \in S
  BY <1>2
<1> QED
  BY <1>2, <1>3

-----------------------------------------------------------------------------
(* Recursive functions on 0..N: f begins with b and goes on with step.     *)
Unfolds(f, N, b, step) ==
  f[0] = b /\ \A i \in 1..N : f[i] = step[i][f[i - 1]]

(* There is such a function ...                                            *)
LEMMA Recursion ==
  ASSUME NEW N \in Nat, NEW V, NEW b \in V, NEW step \in [1..N -> [V -> V]]
  PROVE  \E f \in [0..N -> V] : Unfolds(f, N, b, step)
<1> DEFINE S == {n \in Nat :
                   n <= N => \E f \in [0..n -> V] : Unfolds(f, n, b, step)}
<1>1. 0 \in S
  <2>1. Unfolds([i \in 0..0 |-> b], 0, b, step)
    BY DEF Unfolds
  <2> QED
    BY <2>1
<1>2. ASSUME NEW n \in Nat, n \in S PROVE n + 1 \in S
  <2>1. SUFFICES ASSUME n + 1 <= N
                 PROVE  \E f \in [0..n + 1 -> V] : Unfolds(f, n + 1, b, step)
    OBVIOUS
  <2>2. PICK f \in [0..n -> V] : Unfolds(f, n, b, step)
    BY <1>2, <2>1
  <2> DEFINE g == [i \in 0..n + 1 |->
                     IF i = n + 1 THEN step[n + 1][f[n]] ELSE f[i]]
  <2>3. step[n + 1] \in [V -> V] /\ f[n] \in V
    BY <2>1
  <2>4. g \in [0..n + 1 -> V]
    BY <2>3
  <2>5. g[0] = b /\ g[n + 1] = step[n + 1][g[n]]
    BY <2>2 DEF Unfolds
  <2>6. ASSUME NEW i \in 1..n PROVE g[i] = step[i][g[i - 1]]
    BY <2>2 DEF Unfolds
  <2>7. Unfolds(g, n + 1, b, step)
    <3> HIDE DEF g
    <3> QED
      BY <2>5, <2>6 DEF Unfolds
  <2> QED
    BY <2>4, <2>7
<1>3. Nat \subseteq S
  <2> HIDE DEF S
  <2> QED
    BY <1>1, <1>2, SetInduction
<1> QED
  BY <1>3

(* ... and what begins and goes on like it is the same everywhere.         *)
Follows(g, N, V, b, step) ==
  g[0] = b /\ \A i \in 1..N : g[i - 1] \in V => g[i] = step[i][g[i - 1]]

(* There is only one such function.                                        *)
LEMMA RecursionIsUnique ==
  ASSUME NEW N \in Nat, NEW V, NEW b, NEW step,
         NEW f \in [0..N -> V], Unfolds(f, N, b, step),
         NEW g, Follows(g, N, V, b, step)
  PROVE  \A i \in 0..N : g[i] = f[i]
<1> USE DEF Follows
<1> DEFINE S == {n \in Nat : n <= N => g[n] = f[n]}
<1>1. 0 \in S
  BY DEF Unfolds
<1>2. ASSUME NEW n \in Nat, n \in S PROVE n + 1 \in S
  <2>1. SUFFICES ASSUME n + 1 <= N PROVE g[n + 1] = f[n + 1]
    OBVIOUS
  <2>2. n + 1 \in 1..N /\ n = (n + 1) - 1 /\ g[n] = f[n] /\ f[n] \in V
    BY <1>2, <2>1
  <2>3. g[n + 1] = step[n + 1][g[n]]
    BY <2>2
  <2>4. f[n + 1] = step[n + 1][f[n]]
    BY <2>2 DEF Unfolds
  <2> QED
    BY <2>2, <2>3, <2>4
<1>3. Nat \subseteq S
  <2> HIDE DEF S
  <2> QED
    BY <1>1, <1>2, SetInduction
<1> QED
  BY <1>3

-----------------------------------------------------------------------------
(* f[i] is the first i of N sequences put together.                        *)
PutTogether(f, seqs, N) ==
  /\ N \in Nat \ {0} /\ Len(seqs) = N
  /\ f = [i \in 1..N |-> f[i]] /\ f[1] = seqs[1]
  /\ \A i \in 2..N : f[i] = f[i - 1] \o seqs[i]

(* FlattenSeq is what the pieces give one after the other.                 *)
LEMMA Flattened ==
  ASSUME NEW f, NEW seqs, NEW N, PutTogether(f, seqs, N)
  PROVE  FlattenSeq(seqs) = f[N]
<1> USE DEF PutTogether
<1> DEFINE rhs(g) == [i \in 1..Len(seqs) |->
                        IF i = 1 THEN seqs[i] ELSE g[i - 1] \o seqs[i]]
           flatten == CHOOSE g : g = rhs(g)
<1>1. f = rhs(f)
  <2>1. ASSUME NEW i \in 1..N
        PROVE  f[i] = IF i = 1 THEN seqs[i] ELSE f[i - 1] \o seqs[i]
    <3>1. i = 1 \/ i \in 2..N
      OBVIOUS
    <3> QED
      BY <3>1
  <2> QED
    BY <2>1
<1>2. flatten = rhs(flatten)
  <2> HIDE DEF rhs
  <2> QED
    BY <1>1
<1>3. FlattenSeq(seqs) = flatten[N]
  BY DEF FlattenSeq
<1> HIDE DEF flatten
<1> DEFINE S == {n \in Nat : n \in 1..N => flatten[n] = f[n]}
<1>4. 0 \in S
  OBVIOUS
<1>5. ASSUME NEW n \in Nat, n \in S PROVE n + 1 \in S
  <2>1. SUFFICES ASSUME n + 1 \in 1..N PROVE flatten[n + 1] = f[n + 1]
    OBVIOUS
  <2>2. \A i \in 1..N :
          flatten[i] = IF i = 1 THEN seqs[i] ELSE flatten[i - 1] \o seqs[i]
    BY <1>2
  <2>3. CASE n = 0
    BY <2>2, <2>3
  <2>4. CASE n # 0
    <3> DEFINE i == n + 1
    <3>1. i \in 2..N /\ i \in 1..N /\ i # 1 /\ i - 1 = n /\ n \in 1..N
      BY <2>1, <2>4
    <3> HIDE DEF i
    <3>2. flatten[i] = flatten[i - 1] \o seqs[i] /\ f[i] = f[i - 1] \o seqs[i]
      BY <2>2, <3>1
    <3>3. flatten[i - 1] = f[i - 1]
      BY <1>5, <3>1
    <3>4. flatten[i] = f[i]
      BY <3>2, <3>3
    <3> QED
      BY <3>4 DEF i
  <2> QED
    BY <2>3, <2>4
<1>6. Nat \subseteq S
  <2> HIDE DEF S
  <2> QED
    BY <1>4, <1>5, SetInduction
<1> QED
  BY <1>3, <1>6

=============================================================================
