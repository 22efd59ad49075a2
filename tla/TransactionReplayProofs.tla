------------------------ MODULE TransactionReplayProofs ------------------------
(***************************************************************************)
(* Lemmas about TransactionReplay, for every trace: what its functions of  *)
(* sequences and of the tree of invocations give, and what entering an     *)
(* invocation, returning from it and writing storage changes do to what is *)
(* told.  RecorderProofs puts them together.                               *)
(***************************************************************************)
EXTENDS TransactionReplay, SequenceTheorems, WellFoundedInduction, TLAPS

IsSequence(s) == s \in Seq(ToSet(s))

-----------------------------------------------------------------------------
(***************************************************************************)
(* Numbers, recursions over them, and sequences.                           *)
(***************************************************************************)
LEMMA NatMin ==
  ASSUME NEW S \in SUBSET Nat, S # {}
  PROVE  \E x \in S : \A y \in S : x <= y
<1> DEFINE Less == {p \in Nat \X Nat : p[1] < p[2]}
<1>1. IsWellFoundedOn(Less, Nat)
  BY NatLessThanWellFounded DEF OpToRel
<1>2. PICK x \in S : \A y \in S : ~(<<y, x>> \in Less)
  BY <1>1, WFMin
<1>3. \A y \in S : ~(y < x) /\ y \in Nat /\ x \in Nat
  BY <1>2
<1> QED
  BY <1>3

(* A bounded set of numbers has a greatest one.                            *)
LEMMA NatMax ==
  ASSUME NEW N \in Nat, NEW S \in SUBSET (0..N), S # {}
  PROVE  \E x \in S : \A y \in S : y <= x
<1>1. {N - x : x \in S} \in SUBSET Nat /\ {N - x : x \in S} # {}
  <2>1. \A x \in S : x \in 0..N
    OBVIOUS
  <2>2. \A x \in S : N - x \in Nat
    BY <2>1
  <2> QED BY <2>2
<1>2. PICK d \in {N - x : x \in S} : \A e \in {N - x : x \in S} : d <= e
  <2> DEFINE D == {N - x : x \in S}
  <2> HIDE DEF D
  <2>1. D \in SUBSET Nat /\ D # {}
    BY <1>1 DEF D
  <2>2. \E d \in D : \A e \in D : d <= e
    BY <2>1, NatMin
  <2> QED BY <2>2 DEF D
<1>3. PICK x \in S : d = N - x
  OBVIOUS
<1>4. ASSUME NEW y \in S PROVE y <= x
  <2>1. N - x <= N - y
    BY <1>2, <1>3
  <2> QED BY <2>1
<1> QED BY <1>4

LEMMA Induction ==
  ASSUME NEW S \in SUBSET Nat, 0 \in S, \A n \in S : n + 1 \in S
  PROVE  S = Nat
<1> SUFFICES ASSUME Nat \ S # {} PROVE FALSE
  OBVIOUS
<1>1. PICK n \in Nat \ S : \A m \in Nat \ S : n <= m
  BY NatMin
<1>2. n # 0 /\ n - 1 \in Nat /\ ~(n <= n - 1) /\ (n - 1) + 1 = n
  BY <1>1
<1>3. n - 1 \in S
  BY <1>1, <1>2
<1> QED
  BY <1>1, <1>2, <1>3

(* There is a function that goes on from each number to the next.          *)
Recurses(f, N, S, base, step) == f \in [0..N -> S] /\ f[0] = base /\ \A n \in 1..N : f[n] = step[n][f[n - 1]]

LEMMA Recursion ==
  ASSUME NEW N \in Nat, NEW S, NEW base \in S, NEW step, step \in [1..N -> [S -> S]]
  PROVE  \E f : Recurses(f, N, S, base, step)
<1> DEFINE Upto(k) == \E f \in [0..k -> S] : f = [n \in 0..k |-> IF n = 0 THEN base ELSE step[n][f[n - 1]]]
           So == {k \in Nat : k <= N => Upto(k)}
<1>1. Upto(0)
  <2>1. [n \in 0..0 |-> base] \in [0..0 -> S]
    OBVIOUS
  <2>2. [n \in 0..0 |-> base] = [n \in 0..0 |-> IF n = 0 THEN base ELSE step[n][[m \in 0..0 |-> base][n - 1]]]
    OBVIOUS
  <2> QED
    BY <2>1, <2>2
<1>2. ASSUME NEW k \in Nat, k + 1 <= N, Upto(k)
      PROVE  Upto(k + 1)
  <2>1. PICK f \in [0..k -> S] : f = [n \in 0..k |-> IF n = 0 THEN base ELSE step[n][f[n - 1]]]
    BY <1>2
  <2> DEFINE g == [n \in 0..(k + 1) |-> IF n = k + 1 THEN step[n][f[k]] ELSE f[n]]
  <2>2. k + 1 \in 1..N /\ k \in 0..k /\ f[k] \in S
    BY <1>2, <2>1
  <2>3. step[k + 1][f[k]] \in S
    BY <2>2
  <2>4. g \in [0..(k + 1) -> S]
    <3>1. ASSUME NEW n \in 0..(k + 1) PROVE (IF n = k + 1 THEN step[n][f[k]] ELSE f[n]) \in S
      <4>1. CASE n = k + 1
        BY <2>3, <4>1
      <4>2. CASE n # k + 1
        <5>1. n \in 0..k
          BY <3>1, <4>2
        <5>2. f[n] \in S
          BY <2>1, <5>1
        <5> QED BY <4>2, <5>2
      <4> QED BY <4>1, <4>2
    <3> QED BY <3>1
  <2>5. ASSUME NEW n \in 0..(k + 1) PROVE g[n] = IF n = 0 THEN base ELSE step[n][g[n - 1]]
    <3>1. CASE n = k + 1
      <4>1. n # 0 /\ n - 1 = k /\ n - 1 \in 0..(k + 1) /\ n - 1 # k + 1
        BY <3>1
      <4>2. g[n - 1] = f[k] /\ g[n] = step[n][f[k]]
        BY <3>1, <4>1
      <4> QED BY <4>1, <4>2
    <3>2. CASE n # k + 1
      <4>1. n \in 0..k /\ (n # 0 => n - 1 \in 0..(k + 1) /\ n - 1 # k + 1)
        BY <2>5, <3>2
      <4>2. g[n] = f[n] /\ (n # 0 => g[n - 1] = f[n - 1])
        BY <3>2, <4>1
      <4>3. f[n] = IF n = 0 THEN base ELSE step[n][f[n - 1]]
        BY <2>1, <4>1
      <4> HIDE DEF g
      <4> QED BY <4>2, <4>3
    <3> QED BY <3>1, <3>2
  <2> HIDE DEF g
  <2>6. g = [n \in 0..(k + 1) |-> g[n]]
    BY <2>4
  <2>7. g = [n \in 0..(k + 1) |-> IF n = 0 THEN base ELSE step[n][g[n - 1]]]
    BY <2>5, <2>6
  <2> QED BY <2>4, <2>7
<1>3. So = Nat
  <2>1. 0 \in So
    BY <1>1
  <2>2. \A k \in So : k + 1 \in So
    <3> HIDE DEF Upto
    <3> QED BY <1>2
  <2>3. So \in SUBSET Nat
    OBVIOUS
  <2> HIDE DEF So
  <2> QED BY <2>1, <2>2, <2>3, Induction
<1>4. Upto(N)
  <2> HIDE DEF Upto
  <2> QED BY <1>3
<1>5. PICK f \in [0..N -> S] : f = [n \in 0..N |-> IF n = 0 THEN base ELSE step[n][f[n - 1]]]
  BY <1>4
<1>6. 0 \in 0..N /\ \A n \in 1..N : n \in 0..N /\ n # 0
  OBVIOUS
<1>7. \A n \in 0..N : f[n] = IF n = 0 THEN base ELSE step[n][f[n - 1]]
  BY <1>5, Zenon
<1> QED BY <1>5, <1>6, <1>7 DEF Recurses

(* FlattenSeq is such a recursion.                                         *)
Flattens(h, seqs, n, V) ==
  /\ h \in [1..n -> Seq(V)] /\ FlattenSeq(seqs) = h[n]
  /\ \A i \in 1..n : h[i] = IF i = 1 THEN seqs[1] ELSE h[i - 1] \o seqs[i]

LEMMA Flattened ==
  ASSUME NEW n \in Nat, NEW seqs, Len(seqs) = n, n # 0, NEW V, \A i \in 1..n : seqs[i] \in Seq(V)
  PROVE  \E h : Flattens(h, seqs, n, V)
<1> DEFINE step == [i \in 1..n |-> [s \in Seq(V) |-> s \o seqs[i]]]
<1>1. step \in [1..n -> [Seq(V) -> Seq(V)]] /\ <<>> \in Seq(V)
  <2>1. ASSUME NEW i \in 1..n, NEW s \in Seq(V) PROVE s \o seqs[i] \in Seq(V)
    BY <2>1, ConcatProperties
  <2> QED BY <2>1
<1>2. PICK f : Recurses(f, n, Seq(V), <<>>, step)
  <2> HIDE DEF step
  <2> QED BY <1>1, Recursion
<1>3. f \in [0..n -> Seq(V)] /\ f[0] = <<>>
  BY <1>2 DEF Recurses
<1>4. ASSUME NEW i \in 1..n PROVE f[i - 1] \in Seq(V) /\ f[i] = f[i - 1] \o seqs[i]
  <2>1. i - 1 \in 0..n
    OBVIOUS
  <2>2. f[i - 1] \in Seq(V)
    BY <1>3, <2>1
  <2>3. f[i] = step[i][f[i - 1]]
    BY <1>2, <1>4 DEF Recurses
  <2> QED BY <2>2, <2>3
<1> DEFINE g == [i \in 1..n |-> f[i]]
<1>5. ASSUME NEW i \in 1..n PROVE g[i] = IF i = 1 THEN seqs[1] ELSE g[i - 1] \o seqs[i]
  <2>1. CASE i = 1
    <3>1. i - 1 = 0
      BY <2>1
    <3>2. f[i] = <<>> \o seqs[i]
      BY <1>3, <1>4, <3>1
    <3>3. <<>> \o seqs[i] = seqs[i]
      BY <1>5, ConcatEmptySeq
    <3> QED BY <2>1, <3>2, <3>3
  <2>2. CASE i # 1
    <3>1. i - 1 \in 1..n
      BY <2>2
    <3>2. g[i - 1] = f[i - 1] /\ g[i] = f[i]
      BY <1>5, <3>1
    <3> QED BY <1>4, <1>5, <2>2, <3>2
  <2> QED BY <2>1, <2>2
<1>6. g = [i \in 1..n |-> g[i]]
  OBVIOUS
<1> HIDE DEF g
<1>7. g = [i \in 1..n |-> IF i = 1 THEN seqs[1] ELSE g[i - 1] \o seqs[i]]
  BY <1>5, <1>6
<1> DEFINE flat == CHOOSE h : h = [i \in 1..Len(seqs) |-> IF i = 1 THEN seqs[i] ELSE h[i - 1] \o seqs[i]]
<1>8. [i \in 1..n |-> IF i = 1 THEN seqs[1] ELSE g[i - 1] \o seqs[i]]
        = [i \in 1..Len(seqs) |-> IF i = 1 THEN seqs[i] ELSE g[i - 1] \o seqs[i]]
  OBVIOUS
<1>9. flat = [i \in 1..Len(seqs) |-> IF i = 1 THEN seqs[i] ELSE flat[i - 1] \o seqs[i]]
  BY <1>7, <1>8
<1>10. FlattenSeq(seqs) = flat[n]
  BY DEF FlattenSeq
<1> HIDE DEF flat
<1>11. ASSUME NEW i \in 1..n PROVE flat[i] = IF i = 1 THEN seqs[1] ELSE flat[i - 1] \o seqs[i]
  BY <1>9, <1>11
<1>12. flat \in [1..n -> Seq(V)]
  <2> DEFINE So == {k \in Nat : k + 1 \in 1..n => flat[k + 1] \in Seq(V)}
  <2>1. 0 \in So
    <3>1. 1 \in 1..n
      OBVIOUS
    <3>2. flat[1] = seqs[1]
      BY <1>11, <3>1
    <3> HIDE DEF flat
    <3> QED BY <3>1, <3>2
  <2>2. ASSUME NEW k \in So PROVE k + 1 \in So
    <3>0. k \in Nat /\ k + 1 \in Nat /\ (k + 1) + 1 # 1 /\ ((k + 1) + 1) - 1 = k + 1
      OBVIOUS
    <3>1. SUFFICES ASSUME (k + 1) + 1 \in 1..n PROVE flat[(k + 1) + 1] \in Seq(V)
      BY <3>0
    <3>2. k + 1 \in 1..n
      BY <3>0, <3>1
    <3>3. flat[k + 1] \in Seq(V)
      BY <3>2
    <3>4. flat[(k + 1) + 1] = flat[k + 1] \o seqs[(k + 1) + 1]
      BY <1>11, <3>0, <3>1
    <3>5. seqs[(k + 1) + 1] \in Seq(V)
      BY <3>1
    <3> QED BY <3>3, <3>4, <3>5, ConcatProperties
  <2>3. So = Nat
    <3> HIDE DEF So
    <3>1. So \in SUBSET Nat
      BY DEF So
    <3> QED BY <2>1, <2>2, <3>1, Induction
  <2>4. ASSUME NEW i \in 1..n PROVE flat[i] \in Seq(V)
    <3>1. i - 1 \in Nat /\ (i - 1) + 1 = i
      OBVIOUS
    <3>2. i - 1 \in So
      BY <2>3, <3>1
    <3> QED BY <3>1, <3>2
  <2>5. flat = [i \in 1..n |-> flat[i]]
    BY <1>9
  <2> QED BY <2>4, <2>5
<1> QED
  BY <1>10, <1>11, <1>12 DEF Flattens

LEMMA Appended ==
  ASSUME NEW V, NEW u \in Seq(V), NEW c \in V
  PROVE  u \o <<c>> = [i \in 1..(Len(u) + 1) |-> IF i <= Len(u) THEN u[i] ELSE c]
<1> DEFINE w == <<c>>
<1>1. w \in Seq(V) /\ Len(w) = 1 /\ w[1] = c /\ Len(u) \in Nat
  OBVIOUS
<1> HIDE DEF w
<1>0. w \in Seq(V)
  BY <1>1
<1>a. /\ u \o w \in Seq(V)
      /\ Len(u \o w) = Len(u) + Len(w)
      /\ \A i \in 1..(Len(u) + Len(w)) : (u \o w)[i] = IF i <= Len(u) THEN u[i] ELSE w[i - Len(u)]
  BY <1>0, ConcatProperties
<1>2. u \o w \in Seq(V) /\ Len(u \o w) = Len(u) + 1
  BY <1>1, <1>a
<1>3. ASSUME NEW i \in 1..(Len(u) + 1) PROVE (u \o w)[i] = IF i <= Len(u) THEN u[i] ELSE c
  <2>1. (u \o w)[i] = IF i <= Len(u) THEN u[i] ELSE w[i - Len(u)]
    BY <1>1, <1>a
  <2>2. ~(i <= Len(u)) => i - Len(u) = 1
    BY <1>1
  <2> QED BY <1>1, <2>1, <2>2
<1> DEFINE both == u \o w
<1>4. both = [i \in 1..(Len(u) + 1) |-> both[i]]
  <2>1. both \in Seq(V) /\ Len(both) = Len(u) + 1
    BY <1>2
  <2> HIDE DEF both
  <2> QED BY <2>1
<1>5. u \o w = [i \in 1..(Len(u) + 1) |-> IF i <= Len(u) THEN u[i] ELSE c]
  BY <1>3, <1>4
<1> QED BY <1>5 DEF w

LEMMA OneMore ==
  ASSUME NEW e, NEW m \in Nat
  PROVE  [i \in 1..m |-> e[i]] \o <<e[m + 1]>> = [i \in 1..(m + 1) |-> e[i]]
<1> DEFINE V == {e[i] : i \in 1..(m + 1)}
           u == [i \in 1..m |-> e[i]]
<1>1. u \in Seq(V) /\ Len(u) = m /\ e[m + 1] \in V
  <2>1. u \in [1..m -> V]
    OBVIOUS
  <2> HIDE DEF V
  <2> QED BY <2>1 DEF V
<1> HIDE DEF V
<1>2. \A i \in 1..m : u[i] = e[i]
  OBVIOUS
<1> HIDE DEF u
<1>3. u \o <<e[m + 1]>> = [i \in 1..(m + 1) |-> IF i <= m THEN u[i] ELSE e[m + 1]]
  BY <1>1, Appended
<1>4. ASSUME NEW i \in 1..(m + 1) PROVE (IF i <= m THEN u[i] ELSE e[m + 1]) = e[i]
  <2>1. CASE i <= m
    BY <1>2, <2>1
  <2>2. CASE ~(i <= m)
    <3>1. i = m + 1
      BY <2>2
    <3> QED BY <2>2, <3>1
  <2> QED BY <2>1, <2>2
<1>5. u \o <<e[m + 1]>> = [i \in 1..(m + 1) |-> e[i]]
  BY <1>3, <1>4
<1> QED BY <1>5 DEF u

(* Of one-element sequences, it is the sequence of their elements.         *)
LEMMA FlattenOfOnes ==
  ASSUME NEW n \in Nat, NEW seqs, Len(seqs) = n, n # 0, NEW e, \A i \in 1..n : seqs[i] = <<e[i]>>
  PROVE  FlattenSeq(seqs) = [i \in 1..n |-> e[i]]
<1> DEFINE V == {e[i] : i \in 1..n}
           Upto(k) == [i \in 1..k |-> e[i]]
<1>1. \A i \in 1..n : seqs[i] \in Seq(V)
  <2>1. ASSUME NEW i \in 1..n PROVE <<e[i]>> \in Seq(V)
    <3>1. e[i] \in V
      OBVIOUS
    <3> HIDE DEF V
    <3> QED BY <3>1
  <2> QED BY <2>1
<1> HIDE DEF V
<1>2. PICK h : Flattens(h, seqs, n, V)
  BY <1>1, Flattened
<1>0. FlattenSeq(seqs) = h[n]
  BY <1>2 DEF Flattens
<1>3. \A i \in 1..n : h[i] = IF i = 1 THEN seqs[1] ELSE h[i - 1] \o seqs[i]
  BY <1>2 DEF Flattens
<1> DEFINE So == {k \in Nat : k + 1 \in 1..n => h[k + 1] = Upto(k + 1)}
<1>4. 0 \in So
  <2>1. 1 \in 1..n
    OBVIOUS
  <2>2. h[1] = <<e[1]>>
    BY <1>3, <2>1
  <2>3. <<e[1]>> = [i \in 1..1 |-> e[i]]
    OBVIOUS
  <2> QED BY <2>2, <2>3
<1>5. ASSUME NEW k \in So PROVE k + 1 \in So
  <2>0. k \in Nat /\ k + 1 \in Nat /\ (k + 1) + 1 # 1 /\ ((k + 1) + 1) - 1 = k + 1
    OBVIOUS
  <2>1. SUFFICES ASSUME (k + 1) + 1 \in 1..n PROVE h[(k + 1) + 1] = Upto((k + 1) + 1)
    BY <2>0
  <2>2. k + 1 \in 1..n
    BY <2>0, <2>1
  <2>3. h[k + 1] = Upto(k + 1)
    BY <2>2
  <2>4. h[(k + 1) + 1] = Upto(k + 1) \o <<e[(k + 1) + 1]>>
    <3>1. h[(k + 1) + 1] = h[k + 1] \o seqs[(k + 1) + 1]
      BY <1>3, <2>0, <2>1
    <3>2. seqs[(k + 1) + 1] = <<e[(k + 1) + 1]>>
      BY <2>1
    <3> HIDE DEF Upto
    <3> QED BY <2>3, <3>1, <3>2
  <2>6. Upto(k + 1) \o <<e[(k + 1) + 1]>> = Upto((k + 1) + 1)
    BY <2>0, OneMore
  <2> QED BY <2>4, <2>6
<1>6. So = Nat
  <2> HIDE DEF So
  <2>1. So \in SUBSET Nat
    BY DEF So
  <2> QED BY <1>4, <1>5, <2>1, Induction
<1>7. n - 1 \in Nat /\ (n - 1) + 1 = n /\ n \in 1..n
  OBVIOUS
<1>8. n - 1 \in So
  <2> HIDE DEF So
  <2> QED BY <1>6, <1>7
<1>9. h[n] = Upto(n)
  BY <1>7, <1>8
<1> QED
  BY <1>0, <1>9

(***************************************************************************)
(* Sequences by their last element, and numbers by those above them.       *)
(***************************************************************************)
LEMMA SequencesAreBuilt ==
  ASSUME NEW T, NEW P \in SUBSET Seq(T), <<>> \in P, \A s \in P : \A x \in T : Append(s, x) \in P
  PROVE  P = Seq(T)
<1> DEFINE So == {n \in Nat : \A s \in Seq(T) : Len(s) = n => s \in P}
<1>1. 0 \in So
  OBVIOUS
<1>2. ASSUME NEW n \in So PROVE n + 1 \in So
  <2>1. SUFFICES ASSUME NEW s \in Seq(T), Len(s) = n + 1 PROVE s \in P
    BY <1>2
  <2>2. n \in Nat /\ n \in 0..Len(s) /\ s[n + 1] \in T
    BY <1>2, <2>1
  <2> DEFINE r == [i \in 1..n |-> s[i]]
  <2>3. r \in Seq(T) /\ Len(r) = n
    BY <2>1, <2>2
  <2>4. s = Append(r, s[n + 1])
    BY <2>1, <2>2
  <2>5. r \in P
    BY <1>2, <2>3
  <2> HIDE DEF r
  <2> QED BY <2>2, <2>4, <2>5
<1>3. So = Nat
  <2>1. So \in SUBSET Nat
    OBVIOUS
  <2> HIDE DEF So
  <2> QED BY <1>1, <1>2, <2>1, Induction
<1>4. ASSUME NEW s \in Seq(T) PROVE s \in P
  <2>1. Len(s) \in So
    <3> HIDE DEF So
    <3> QED BY <1>3
  <2> QED BY <2>1
<1> QED BY <1>4

LEMMA AppendIsConcatenation ==
  ASSUME NEW S, NEW s \in Seq(S), NEW x \in S
  PROVE  <<x>> \in Seq(S) /\ Append(s, x) \in Seq(S) /\ Append(s, x) = s \o <<x>>
OBVIOUS

LEMMA DownwardInduction ==
  ASSUME NEW N \in Nat, NEW P \in SUBSET (1..N),
         \A n \in 1..N : (\A m \in (n + 1)..N : m \in P) => n \in P
  PROVE  P = 1..N
<1> SUFFICES ASSUME (1..N) \ P # {} PROVE FALSE
  OBVIOUS
<1>1. (1..N) \ P \in SUBSET (0..N)
  OBVIOUS
<1>2. PICK n \in (1..N) \ P : \A m \in (1..N) \ P : m <= n
  <2> DEFINE Q == (1..N) \ P
  <2>1. Q \in SUBSET (0..N) /\ Q # {}
    BY <1>1
  <2> HIDE DEF Q
  <2>2. \E x \in Q : \A y \in Q : y <= x
    BY <2>1, NatMax
  <2> QED BY <2>2 DEF Q
<1>3. \A m \in (n + 1)..N : m \in P
  BY <1>2
<1> QED BY <1>2, <1>3

(* A recursion over numbers that asks only of those above them.            *)
AsksAbove(step, N, V) ==
  /\ step \in [1..N -> [[1..N -> V] -> V]]
  /\ \A n \in 1..N : \A f, g \in [1..N -> V] :
       (\A m \in (n + 1)..N : f[m] = g[m]) => step[n][f] = step[n][g]

Fixed(f, step, N, V) == f \in [1..N -> V] /\ \A n \in 1..N : f[n] = step[n][f]

LEMMA DownwardRecursion ==
  ASSUME NEW N \in Nat, NEW V, NEW v \in V, NEW step, AsksAbove(step, N, V)
  PROVE  \E f : Fixed(f, step, N, V)
<1> USE DEF AsksAbove
<1> DEFINE From(f, k) == \A n \in 1..N : n > N - k => f[n] = step[n][f]
           So == {k \in Nat : \E f \in [1..N -> V] : From(f, k)}
<1>1. 0 \in So
  <2>1. [n \in 1..N |-> v] \in [1..N -> V]
    OBVIOUS
  <2>2. \A n \in 1..N : ~(n > N - 0)
    OBVIOUS
  <2> QED BY <2>1, <2>2
<1>2. ASSUME NEW k \in So PROVE k + 1 \in So
  <2>1. k \in Nat /\ k + 1 \in Nat
    BY <1>2
  <2>2. PICK f \in [1..N -> V] : From(f, k)
    BY <1>2
  <2>3. CASE N - k \notin 1..N
    <3>1. \A n \in 1..N : n > N - (k + 1) => n > N - k
      BY <2>1, <2>3
    <3>2. From(f, k + 1)
      BY <2>2, <3>1
    <3> HIDE DEF From
    <3> QED BY <2>1, <3>2
  <2>4. CASE N - k \in 1..N
    <3> DEFINE c == N - k
               g == [f EXCEPT ![c] = step[c][f]]
    <3>1. step[c][f] \in V
      BY <2>4
    <3>2. g \in [1..N -> V] /\ g[c] = step[c][f] /\ \A n \in 1..N : n # c => g[n] = f[n]
      BY <2>4, <3>1
    <3>3. c \in 1..N /\ \A n \in 1..N : n > N - (k + 1) => n = c \/ (n > N - k /\ n > c)
      BY <2>1, <2>4
    <3>4. \A n \in 1..N : n >= c => \A m \in (n + 1)..N : m \in 1..N /\ m # c
      BY <3>3
    <3> HIDE DEF g, c
    <3>5. ASSUME NEW n \in 1..N, n > N - (k + 1) PROVE g[n] = step[n][g]
      <4>1. n >= c /\ (n # c => n > N - k)
        <5>1. n = c \/ (n > N - k /\ n > c)
          BY <3>3, <3>5, Zenon
        <5>2. n \in Int /\ c \in Int
          BY <3>3
        <5> QED BY <5>1, <5>2
      <4>2. \A m \in (n + 1)..N : g[m] = f[m]
        BY <3>2, <3>4, <4>1
      <4>3. step[n][g] = step[n][f]
        BY <3>2, <4>2
      <4>4. CASE n = c
        BY <3>2, <4>3, <4>4
      <4>5. CASE n # c
        <5>1. f[n] = step[n][f]
          BY <2>2, <4>1, <4>5
        <5> QED BY <3>2, <4>3, <4>5, <5>1
      <4> QED BY <4>4, <4>5
    <3>6. From(g, k + 1)
      BY <3>5
    <3> HIDE DEF From
    <3> QED BY <2>1, <3>2, <3>6
  <2> QED BY <2>3, <2>4
<1>3. So = Nat
  <2>1. So \in SUBSET Nat
    OBVIOUS
  <2> HIDE DEF So
  <2> QED BY <1>1, <1>2, <2>1, Induction
<1>4. PICK f \in [1..N -> V] : From(f, N)
  <2>1. N \in So
    <3> HIDE DEF So
    <3> QED BY <1>3
  <2> QED BY <2>1
<1>5. \A n \in 1..N : n > N - N
  OBVIOUS
<1> QED BY <1>4, <1>5 DEF Fixed

(***************************************************************************)
(* FlattenSeq and the functions of sequences that add up what they give of *)
(* each element.                                                           *)
(***************************************************************************)
LEMMA FlattenAppend ==
  ASSUME NEW T, NEW a \in Seq(Seq(T)), NEW u \in Seq(T), FlattenSeq(a) \in Seq(T)
  PROVE  FlattenSeq(Append(a, u)) = FlattenSeq(a) \o u
<1> DEFINE n == Len(a)
           b == Append(a, u)
<1>1. n \in Nat /\ b \in Seq(Seq(T)) /\ Len(b) = n + 1 /\ b[n + 1] = u /\ \A i \in 1..n : b[i] = a[i]
  OBVIOUS
<1>2. (\A i \in 1..n : a[i] \in Seq(T)) /\ \A i \in 1..(n + 1) : b[i] \in Seq(T)
  BY <1>1
<1> HIDE DEF b
<1>3. PICK h : Flattens(h, b, n + 1, T)
  <2>1. n + 1 \in Nat /\ n + 1 # 0
    BY <1>1
  <2> QED BY <1>1, <1>2, <2>1, Flattened
<1>4. /\ FlattenSeq(b) = h[n + 1]
      /\ \A i \in 1..(n + 1) : h[i] = IF i = 1 THEN b[1] ELSE h[i - 1] \o b[i]
  BY <1>3 DEF Flattens
<1>5. CASE n = 0
  <2>1. a = <<>>
    BY <1>5
  <2>0. FlattenSeq(a) = <<>>
    BY <1>5, <2>1, Zenon DEF FlattenSeq
  <2>2. FlattenSeq(b) = u
    BY <1>1, <1>4, <1>5
  <2> QED BY <2>0, <2>2, ConcatEmptySeq DEF b
<1>6. CASE n # 0
  <2>1. PICK k : Flattens(k, a, n, T)
    BY <1>1, <1>2, <1>6, Flattened
  <2>2. /\ FlattenSeq(a) = k[n]
        /\ \A i \in 1..n : k[i] = IF i = 1 THEN a[1] ELSE k[i - 1] \o a[i]
    BY <2>1 DEF Flattens
  <2> DEFINE So == {i \in Nat : i + 1 \in 1..n => h[i + 1] = k[i + 1]}
  <2>3. 0 \in So
    <3>1. 1 \in 1..n /\ 1 \in 1..(n + 1)
      BY <1>1, <1>6
    <3>2. h[1] = k[1]
      BY <1>1, <1>4, <2>2, <3>1
    <3> QED BY <3>2
  <2>4. ASSUME NEW i \in So PROVE i + 1 \in So
    <3>1. i \in Nat /\ i + 1 \in Nat
      OBVIOUS
    <3>2. SUFFICES ASSUME (i + 1) + 1 \in 1..n PROVE h[(i + 1) + 1] = k[(i + 1) + 1]
      BY <3>1
    <3>3. i + 1 \in 1..n /\ (i + 1) + 1 \in 1..(n + 1) /\ (i + 1) + 1 # 1 /\ ((i + 1) + 1) - 1 = i + 1
      BY <1>1, <3>1, <3>2
    <3>4. h[i + 1] = k[i + 1]
      BY <3>3
    <3> DEFINE j == (i + 1) + 1
    <3>5. j \in 1..n /\ j \in 1..(n + 1) /\ j # 1 /\ j - 1 = i + 1
      BY <3>2, <3>3
    <3> HIDE DEF j
    <3>6. h[j] = h[j - 1] \o b[j] /\ k[j] = k[j - 1] \o a[j] /\ b[j] = a[j]
      BY <1>1, <1>4, <2>2, <3>5
    <3>7. h[j] = k[j]
      BY <3>4, <3>5, <3>6
    <3> QED BY <3>7 DEF j
  <2>5. So = Nat
    <3>1. So \in SUBSET Nat
      OBVIOUS
    <3> HIDE DEF So
    <3> QED BY <2>3, <2>4, <3>1, Induction
  <2>6. n - 1 \in So /\ (n - 1) + 1 = n
    <3>1. n - 1 \in Nat
      BY <1>1, <1>6
    <3> HIDE DEF So
    <3> QED BY <1>1, <2>5, <3>1
  <2>7. h[n] = k[n]
    <3>1. n \in 1..n
      BY <1>1, <1>6
    <3> QED BY <2>6, <3>1
  <2>8. h[n + 1] = h[n] \o b[n + 1]
    <3>1. n + 1 \in 1..(n + 1) /\ n + 1 # 1 /\ (n + 1) - 1 = n
      BY <1>1, <1>6
    <3> QED BY <1>4, <3>1
  <2>9. FlattenSeq(b) = FlattenSeq(a) \o u
    BY <1>1, <1>4, <2>2, <2>7, <2>8
  <2> QED BY <2>9 DEF b
<1> QED BY <1>5, <1>6

LEMMA FlattenOfFew ==
  ASSUME NEW u
  PROVE  FlattenSeq(<<>>) = <<>> /\ FlattenSeq(<<u>>) = u
<1>1. Len(<<>>) = 0
  OBVIOUS
<1>2. FlattenSeq(<<>>) = <<>>
  BY <1>1, Zenon DEF FlattenSeq
<1> DEFINE V == {<<u>>[i] : i \in {1}}
<1>3. FlattenSeq(<<u>>) = u
  BY DEF FlattenSeq
<1> QED BY <1>2, <1>3

LEMMA FlattenTyped ==
  ASSUME NEW T, NEW a \in Seq(Seq(T))
  PROVE  FlattenSeq(a) \in Seq(T)
<1> DEFINE P == {s \in Seq(Seq(T)) : FlattenSeq(s) \in Seq(T)}
<1>1. <<>> \in P
  <2>1. <<>> \in Seq(Seq(T)) /\ <<>> \in Seq(T)
    OBVIOUS
  <2> QED BY <2>1, FlattenOfFew
<1>2. ASSUME NEW s \in P, NEW u \in Seq(T) PROVE Append(s, u) \in P
  <2>1. s \in Seq(Seq(T)) /\ FlattenSeq(s) \in Seq(T)
    OBVIOUS
  <2>2. FlattenSeq(Append(s, u)) = FlattenSeq(s) \o u
    BY <2>1, FlattenAppend
  <2>3. FlattenSeq(s) \o u \in Seq(T)
    BY <2>1, ConcatProperties
  <2>4. Append(s, u) \in Seq(Seq(T))
    BY <2>1, AppendProperties
  <2> QED BY <2>2, <2>3, <2>4
<1>3. P = Seq(Seq(T))
  <2>1. P \in SUBSET Seq(Seq(T))
    OBVIOUS
  <2> HIDE DEF P
  <2> QED BY <1>1, <1>2, <2>1, SequencesAreBuilt
<1> QED BY <1>3

(* f gives <<>> of nothing and adds up over concatenations.                *)
Adds(f, S, T) ==
  /\ f \in [Seq(S) -> Seq(T)] /\ f[<<>>] = <<>>
  /\ \A s, t \in Seq(S) : f[s \o t] = f[s] \o f[t]

(* What g gives of each element, one after the other.                      *)
Each(S, g) == [s \in Seq(S) |-> FlattenSeq([i \in DOMAIN s |-> g[s[i]]])]

LEMMA EachAdds ==
  ASSUME NEW S, NEW T, NEW g \in [S -> Seq(T)]
  PROVE  Adds(Each(S, g), S, T) /\ \A x \in S : Each(S, g)[<<x>>] = g[x]
<1> DEFINE list(s) == [i \in DOMAIN s |-> g[s[i]]]
           f == Each(S, g)
<1>1. \A s \in Seq(S) : list(s) \in Seq(Seq(T)) /\ f[s] = FlattenSeq(list(s))
  <2>1. ASSUME NEW s \in Seq(S) PROVE list(s) \in Seq(Seq(T))
    <3>1. DOMAIN s = 1..Len(s) /\ Len(s) \in Nat /\ \A i \in 1..Len(s) : s[i] \in S
      OBVIOUS
    <3> DEFINE V == Seq(T)
    <3>2. g \in [S -> V]
      OBVIOUS
    <3> HIDE DEF V
    <3>3. list(s) \in [1..Len(s) -> V]
      BY <3>1, <3>2
    <3>4. list(s) \in Seq(V)
      BY <3>1, <3>3, SeqDef
    <3> QED BY <3>4 DEF V
  <2> QED BY <2>1 DEF Each
<1>2. list(<<>>) = <<>> /\ <<>> \in Seq(S)
  OBVIOUS
<1>3. \A s \in Seq(S) : \A x \in S : list(Append(s, x)) = Append(list(s), g[x]) /\ Append(s, x) \in Seq(S)
  OBVIOUS
<1>4. \A x \in S : list(<<x>>) = <<g[x]>> /\ <<x>> \in Seq(S)
  OBVIOUS
<1>0. f = [s \in Seq(S) |-> f[s]]
  BY DEF Each
<1> HIDE DEF list, f
<1>5. \A s \in Seq(S) : f[s] \in Seq(T)
  BY <1>1, FlattenTyped
<1>6. f[<<>>] = <<>> /\ \A x \in S : f[<<x>>] = g[x]
  <2>1. f[<<>>] = FlattenSeq(<<>>)
    BY <1>1, <1>2
  <2>2. \A x \in S : f[<<x>>] = FlattenSeq(<<g[x]>>)
    BY <1>1, <1>4
  <2> QED BY <2>1, <2>2, FlattenOfFew
<1>7. \A s \in Seq(S) : \A x \in S : f[Append(s, x)] = f[s] \o g[x]
  <2> SUFFICES ASSUME NEW s \in Seq(S), NEW x \in S PROVE f[Append(s, x)] = f[s] \o g[x]
    OBVIOUS
  <2>1. list(s) \in Seq(Seq(T)) /\ g[x] \in Seq(T) /\ FlattenSeq(list(s)) \in Seq(T)
    BY <1>1, FlattenTyped
  <2>2. FlattenSeq(Append(list(s), g[x])) = FlattenSeq(list(s)) \o g[x]
    BY <2>1, FlattenAppend
  <2>3. f[Append(s, x)] = FlattenSeq(Append(list(s), g[x]))
    BY <1>1, <1>3
  <2>4. f[s] = FlattenSeq(list(s))
    BY <1>1
  <2> QED BY <2>2, <2>3, <2>4
<1>8. ASSUME NEW s \in Seq(S) PROVE \A t \in Seq(S) : f[s \o t] = f[s] \o f[t]
  <2> DEFINE P == {t \in Seq(S) : f[s \o t] = f[s] \o f[t]}
  <2>1. <<>> \in P
    <3>1. s \o <<>> = s
      OBVIOUS
    <3>2. f[s] \o <<>> = f[s]
      BY <1>5, ConcatEmptySeq
    <3> QED BY <1>2, <1>6, <3>1, <3>2
  <2>2. ASSUME NEW t \in P, NEW x \in S PROVE Append(t, x) \in P
    <3>1. t \in Seq(S) /\ f[s \o t] = f[s] \o f[t]
      OBVIOUS
    <3>2. s \o Append(t, x) = Append(s \o t, x) /\ s \o t \in Seq(S)
      BY <3>1
    <3>3. f[Append(s \o t, x)] = f[s \o t] \o g[x] /\ f[Append(t, x)] = f[t] \o g[x]
      BY <1>7, <3>1, <3>2
    <3>4. f[s] \in Seq(T) /\ f[t] \in Seq(T) /\ g[x] \in Seq(T)
      BY <1>5, <3>1
    <3>5. (f[s] \o f[t]) \o g[x] = f[s] \o (f[t] \o g[x])
      <4>1. \A u, w, r \in Seq(T) : (u \o w) \o r = u \o (w \o r)
        BY ConcatAssociative
      <4> QED BY <3>4, <4>1, Zenon
    <3>6. Append(t, x) \in Seq(S)
      BY <1>3, <3>1
    <3>7. f[s \o Append(t, x)] = f[s] \o f[Append(t, x)]
      BY <3>1, <3>2, <3>3, <3>5
    <3> QED BY <3>6, <3>7
  <2>3. P = Seq(S)
    <3>1. P \in SUBSET Seq(S)
      OBVIOUS
    <3> HIDE DEF P
    <3> QED BY <2>1, <2>2, <3>1, SequencesAreBuilt
  <2> QED BY <2>3
<1>9. f \in [Seq(S) -> Seq(T)]
  BY <1>0, <1>5
<1> QED BY <1>6, <1>8, <1>9 DEF Adds, f

(* Two that add up and agree on each element agree.                        *)
LEMMA AddsAgree ==
  ASSUME NEW S, NEW T, NEW f, NEW g, Adds(f, S, T), Adds(g, S, T), \A x \in S : f[<<x>>] = g[<<x>>]
  PROVE  \A s \in Seq(S) : f[s] = g[s]
<1> DEFINE P == {s \in Seq(S) : f[s] = g[s]}
<1>1. <<>> \in P
  BY DEF Adds
<1>2. ASSUME NEW s \in P, NEW x \in S PROVE Append(s, x) \in P
  <2>0. s \in Seq(S) /\ f[s] = g[s]
    OBVIOUS
  <2>1. <<x>> \in Seq(S) /\ Append(s, x) = s \o <<x>> /\ Append(s, x) \in Seq(S)
    BY <2>0, AppendIsConcatenation
  <2>2. f[s \o <<x>>] = f[s] \o f[<<x>>] /\ g[s \o <<x>>] = g[s] \o g[<<x>>]
    BY <2>0, <2>1 DEF Adds
  <2> QED BY <2>0, <2>1, <2>2
<1>3. P = Seq(S)
  <2>1. P \in SUBSET Seq(S)
    OBVIOUS
  <2> HIDE DEF P
  <2> QED BY <1>1, <1>2, <2>1, SequencesAreBuilt
<1> QED BY <1>3

LEMMA AddsOfAdds ==
  ASSUME NEW S, NEW T, NEW U, NEW f, NEW g, Adds(f, S, T), Adds(g, T, U)
  PROVE  Adds([s \in Seq(S) |-> g[f[s]]], S, U)
<1> DEFINE h == [s \in Seq(S) |-> g[f[s]]]
<1>1. h \in [Seq(S) -> Seq(U)]
  BY DEF Adds
<1>2. h[<<>>] = <<>>
  <2>1. <<>> \in Seq(S)
    OBVIOUS
  <2> QED BY <2>1 DEF Adds
<1>3. ASSUME NEW s \in Seq(S), NEW t \in Seq(S) PROVE h[s \o t] = h[s] \o h[t]
  <2>1. s \o t \in Seq(S) /\ f[s] \in Seq(T) /\ f[t] \in Seq(T)
    BY DEF Adds
  <2>2. f[s \o t] = f[s] \o f[t] /\ g[f[s] \o f[t]] = g[f[s]] \o g[f[t]]
    BY <2>1 DEF Adds
  <2> QED BY <2>1, <2>2
<1> QED BY <1>1, <1>2, <1>3 DEF Adds

(* The same of what counts.                                                *)
Counts(f, S) ==
  /\ f \in [Seq(S) -> Nat] /\ f[<<>>] = 0
  /\ \A s, t \in Seq(S) : f[s \o t] = f[s] + f[t]

LEMMA CountsAgree ==
  ASSUME NEW S, NEW f, NEW g, Counts(f, S), Counts(g, S), \A x \in S : f[<<x>>] = g[<<x>>]
  PROVE  \A s \in Seq(S) : f[s] = g[s]
<1> DEFINE P == {s \in Seq(S) : f[s] = g[s]}
<1>1. <<>> \in P
  BY DEF Counts
<1>2. ASSUME NEW s \in P, NEW x \in S PROVE Append(s, x) \in P
  <2>0. s \in Seq(S) /\ f[s] = g[s]
    OBVIOUS
  <2>1. <<x>> \in Seq(S) /\ Append(s, x) = s \o <<x>> /\ Append(s, x) \in Seq(S)
    BY <2>0, AppendIsConcatenation
  <2>2. f[s \o <<x>>] = f[s] + f[<<x>>] /\ g[s \o <<x>>] = g[s] + g[<<x>>]
    BY <2>0, <2>1 DEF Counts
  <2> QED BY <2>0, <2>1, <2>2
<1>3. P = Seq(S)
  <2>1. P \in SUBSET Seq(S)
    OBVIOUS
  <2> HIDE DEF P
  <2> QED BY <1>1, <1>2, <2>1, SequencesAreBuilt
<1> QED BY <1>3

LEMMA CountsOfAdds ==
  ASSUME NEW S, NEW T, NEW f, NEW g, Adds(f, S, T), Counts(g, T)
  PROVE  Counts([s \in Seq(S) |-> g[f[s]]], S)
<1> DEFINE h == [s \in Seq(S) |-> g[f[s]]]
<1>1. h \in [Seq(S) -> Nat]
  BY DEF Adds, Counts
<1>2. h[<<>>] = 0
  <2>1. <<>> \in Seq(S)
    OBVIOUS
  <2> QED BY <2>1 DEF Adds, Counts
<1>3. ASSUME NEW s \in Seq(S), NEW t \in Seq(S) PROVE h[s \o t] = h[s] + h[t]
  <2>1. s \o t \in Seq(S) /\ f[s] \in Seq(T) /\ f[t] \in Seq(T)
    BY DEF Adds
  <2>2. f[s \o t] = f[s] \o f[t] /\ g[f[s] \o f[t]] = g[f[s]] + g[f[t]]
    BY <2>1 DEF Adds, Counts
  <2> QED BY <2>1, <2>2
<1> QED BY <1>1, <1>2, <1>3 DEF Counts

LEMMA LengthCounts ==
  ASSUME NEW S
  PROVE  Counts([s \in Seq(S) |-> Len(s)], S)
BY ConcatProperties DEF Counts

LEMMA TotalUnfolds ==
  ASSUME NEW s \in Seq(Nat)
  PROVE  \E sum \in [0..Len(s) -> Nat] :
           Total(s) = sum[Len(s)] /\ \A i \in 0..Len(s) : sum[i] = IF i = 0 THEN 0 ELSE sum[i - 1] + s[i]
<1> DEFINE N == Len(s)
           step == [i \in 1..N |-> [before \in Nat |-> before + s[i]]]
           Sums(f) == f = [i \in 0..N |-> IF i = 0 THEN 0 ELSE f[i - 1] + s[i]]
<1>1. N \in Nat /\ \A i \in 1..N : s[i] \in Nat
  OBVIOUS
<1>2. 0 \in Nat /\ step \in [1..N -> [Nat -> Nat]]
  BY <1>1
<1>3. PICK f : Recurses(f, N, Nat, 0, step)
  <2> HIDE DEF step, N
  <2> QED BY <1>1, <1>2, Recursion
<1>4. f \in [0..N -> Nat] /\ f[0] = 0 /\ \A i \in 1..N : f[i] = step[i][f[i - 1]]
  BY <1>3 DEF Recurses
<1>5. ASSUME NEW i \in 0..N PROVE f[i] = IF i = 0 THEN 0 ELSE f[i - 1] + s[i]
  <2>1. CASE i = 0
    BY <1>4, <2>1
  <2>2. CASE i # 0
    <3>1. i \in 1..N /\ i - 1 \in 0..N
      BY <1>1, <2>2
    <3>2. f[i - 1] \in Nat
      BY <1>4, <3>1
    <3> QED BY <1>4, <2>2, <3>1, <3>2
  <2> QED BY <2>1, <2>2
<1>6. Sums(f)
  <2>1. f = [i \in 0..N |-> f[i]]
    BY <1>4
  <2> HIDE DEF N
  <2> QED BY <1>5, <2>1
<1> DEFINE sum == CHOOSE g : Sums(g)
<1>7. Sums(sum)
  <2> HIDE DEF Sums
  <2> QED BY <1>6
<1>8. Total(s) = sum[N]
  BY Zenon DEF Total
<1> HIDE DEF sum, step
<1>9. \A i \in 0..N : sum[i] = IF i = 0 THEN 0 ELSE sum[i - 1] + s[i]
  BY <1>7, Zenon
<1> DEFINE So == {k \in Nat : k \in 0..N => sum[k] \in Nat}
<1>10. 0 \in So
  BY <1>9
<1>11. ASSUME NEW k \in So PROVE k + 1 \in So
  <2>1. k \in Nat /\ k + 1 \in Nat
    OBVIOUS
  <2>2. SUFFICES ASSUME k + 1 \in 0..N PROVE sum[k + 1] \in Nat
    BY <2>1
  <2>3. k \in 0..N /\ k + 1 # 0 /\ (k + 1) - 1 = k /\ k + 1 \in 1..N
    BY <1>1, <2>1, <2>2
  <2>4. sum[k + 1] = sum[k] + s[k + 1]
    BY <1>9, <2>2, <2>3
  <2>5. sum[k] \in Nat
    BY <2>3
  <2> QED BY <1>1, <2>3, <2>4, <2>5
<1>12. So = Nat
  <2>1. So \in SUBSET Nat
    OBVIOUS
  <2> HIDE DEF So
  <2> QED BY <1>10, <1>11, <2>1, Induction
<1>13. \A i \in 0..N : sum[i] \in Nat
  <2>1. \A i \in 0..N : i \in Nat
    OBVIOUS
  <2>2. \A i \in 0..N : i \in So
    <3> HIDE DEF So
    <3> QED BY <1>12, <2>1
  <2> QED BY <2>2
<1>14. sum = [i \in 0..N |-> sum[i]]
  <2>1. \A g : Sums(g) => g = [i \in 0..N |-> g[i]]
    OBVIOUS
  <2> HIDE DEF Sums
  <2> QED BY <1>7, <2>1
<1>15. sum \in [0..N -> Nat]
  BY <1>13, <1>14
<1> QED BY <1>8, <1>9, <1>15

LEMMA TotalAppend ==
  ASSUME NEW s \in Seq(Nat), NEW x \in Nat
  PROVE  Total(<<>>) = 0 /\ Total(s) \in Nat /\ Total(Append(s, x)) = Total(s) + x
<1>0. ASSUME NEW r \in Seq(Nat)
      PROVE  \E sum \in [0..Len(r) -> Nat] :
               Total(r) = sum[Len(r)] /\ \A i \in 0..Len(r) : sum[i] = IF i = 0 THEN 0 ELSE sum[i - 1] + r[i]
  BY TotalUnfolds
<1> DEFINE n == Len(s)
           t == Append(s, x)
<1>1. n \in Nat /\ t \in Seq(Nat) /\ Len(t) = n + 1 /\ t[n + 1] = x /\ \A i \in 1..n : t[i] = s[i]
  OBVIOUS
<1>2. PICK f \in [0..n -> Nat] : Total(s) = f[n] /\ \A i \in 0..n : f[i] = IF i = 0 THEN 0 ELSE f[i - 1] + s[i]
  BY <1>0
<1>3. PICK g \in [0..(n + 1) -> Nat] :
        Total(t) = g[n + 1] /\ \A i \in 0..(n + 1) : g[i] = IF i = 0 THEN 0 ELSE g[i - 1] + t[i]
  <2> HIDE DEF t
  <2>1. \E sum \in [0..Len(t) -> Nat] :
          Total(t) = sum[Len(t)] /\ \A i \in 0..Len(t) : sum[i] = IF i = 0 THEN 0 ELSE sum[i - 1] + t[i]
    BY <1>0, <1>1
  <2> QED BY <1>1, <2>1
<1>4. Total(<<>>) = 0
  <2>1. <<>> \in Seq(Nat) /\ Len(<<>>) = 0
    OBVIOUS
  <2>2. PICK h \in [0..Len(<<>>) -> Nat] :
          Total(<<>>) = h[Len(<<>>)] /\ \A i \in 0..Len(<<>>) : h[i] = IF i = 0 THEN 0 ELSE h[i - 1] + <<>>[i]
    BY <1>0, <2>1
  <2> QED BY <2>1, <2>2
<1> HIDE DEF t, n
<1> DEFINE So == {k \in Nat : k \in 0..n => g[k] = f[k]}
<1>5. 0 \in So
  BY <1>1, <1>2, <1>3
<1>6. ASSUME NEW k \in So PROVE k + 1 \in So
  <2>1. k \in Nat /\ k + 1 \in Nat
    OBVIOUS
  <2>2. SUFFICES ASSUME k + 1 \in 0..n PROVE g[k + 1] = f[k + 1]
    BY <2>1
  <2>3. k \in 0..n /\ k + 1 # 0 /\ (k + 1) - 1 = k /\ k + 1 \in 1..n /\ k + 1 \in 0..(n + 1)
    BY <1>1, <2>1, <2>2
  <2>4. g[k + 1] = g[k] + t[k + 1] /\ f[k + 1] = f[k] + s[k + 1]
    BY <1>2, <1>3, <2>2, <2>3
  <2>5. g[k] = f[k] /\ t[k + 1] = s[k + 1]
    BY <1>1, <2>3
  <2> QED BY <2>4, <2>5
<1>7. So = Nat
  <2>1. So \in SUBSET Nat
    OBVIOUS
  <2> HIDE DEF So
  <2> QED BY <1>5, <1>6, <2>1, Induction
<1>8. g[n] = f[n]
  <2>1. n \in So
    <3> HIDE DEF So
    <3> QED BY <1>1, <1>7
  <2>2. n \in 0..n
    BY <1>1
  <2> QED BY <2>1, <2>2
<1>9. g[n + 1] = g[n] + t[n + 1]
  <2>1. n + 1 \in 0..(n + 1) /\ n + 1 # 0 /\ (n + 1) - 1 = n
    BY <1>1
  <2> QED BY <1>3, <2>1
<1>10. Total(t) = Total(s) + x
  BY <1>1, <1>2, <1>3, <1>8, <1>9
<1>11. f[n] \in Nat
  BY <1>1, <1>2
<1> QED BY <1>2, <1>4, <1>10, <1>11 DEF t

(* The total of what g gives of each element.                              *)
TotalEach(S, g) == [s \in Seq(S) |-> Total([i \in DOMAIN s |-> g[s[i]]])]

LEMMA TotalCounts ==
  ASSUME NEW S, NEW g \in [S -> Nat]
  PROVE  Counts(TotalEach(S, g), S) /\ \A x \in S : TotalEach(S, g)[<<x>>] = g[x]
<1> DEFINE list(s) == [i \in DOMAIN s |-> g[s[i]]]
           f == TotalEach(S, g)
<1>1. \A s \in Seq(S) : list(s) \in Seq(Nat) /\ f[s] = Total(list(s))
  BY DEF TotalEach
<1>2. list(<<>>) = <<>> /\ <<>> \in Seq(S) /\ <<>> \in Seq(Nat)
  OBVIOUS
<1>3. \A s \in Seq(S) : \A x \in S : list(Append(s, x)) = Append(list(s), g[x]) /\ Append(s, x) \in Seq(S)
  OBVIOUS
<1>0. f = [s \in Seq(S) |-> f[s]]
  BY DEF TotalEach
<1> HIDE DEF list, f
<1>5. \A s \in Seq(S) : f[s] \in Nat /\ \A x \in S : f[Append(s, x)] = f[s] + g[x]
  <2> SUFFICES ASSUME NEW s \in Seq(S), NEW x \in S PROVE f[s] \in Nat /\ f[Append(s, x)] = f[s] + g[x]
    <3>1. ASSUME NEW s \in Seq(S) PROVE f[s] \in Nat
      BY <1>1, TotalUnfolds
    <3> QED BY <3>1
  <2>1. list(s) \in Seq(Nat) /\ g[x] \in Nat
    BY <1>1
  <2>2. Total(list(s)) \in Nat /\ Total(Append(list(s), g[x])) = Total(list(s)) + g[x]
    BY <2>1, TotalAppend
  <2> QED BY <1>1, <1>3, <2>2
<1>6. f[<<>>] = 0
  <2>1. 0 \in Nat
    OBVIOUS
  <2>2. Total(<<>>) = 0
    BY <1>2, <2>1, TotalAppend
  <2> QED BY <1>1, <1>2, <2>2
<1>8. ASSUME NEW s \in Seq(S) PROVE \A t \in Seq(S) : f[s \o t] = f[s] + f[t]
  <2> DEFINE P == {t \in Seq(S) : f[s \o t] = f[s] + f[t]}
  <2>1. <<>> \in P
    <3>1. s \o <<>> = s
      OBVIOUS
    <3> QED BY <1>2, <1>5, <1>6, <3>1
  <2>2. ASSUME NEW t \in P, NEW x \in S PROVE Append(t, x) \in P
    <3>1. t \in Seq(S) /\ f[s \o t] = f[s] + f[t]
      OBVIOUS
    <3>2. s \o Append(t, x) = Append(s \o t, x) /\ s \o t \in Seq(S)
      BY <3>1
    <3>3. f[Append(s \o t, x)] = f[s \o t] + g[x] /\ f[Append(t, x)] = f[t] + g[x]
      BY <1>5, <3>1, <3>2
    <3>4. f[s] \in Nat /\ f[t] \in Nat /\ g[x] \in Nat
      BY <1>5, <3>1
    <3>6. Append(t, x) \in Seq(S)
      BY <1>3, <3>1
    <3>5. (f[s] + f[t]) + g[x] = f[s] + (f[t] + g[x])
      <4>1. PICK u, w : u = f[s] /\ w = f[t]
        OBVIOUS
      <4>2. (u + w) + g[x] = u + (w + g[x])
        BY <3>4, <4>1
      <4> QED BY <4>1, <4>2
    <3>7. f[s \o Append(t, x)] = f[s] + f[Append(t, x)]
      BY <3>1, <3>2, <3>3, <3>5
    <3> QED BY <3>6, <3>7
  <2>3. P = Seq(S)
    <3>1. P \in SUBSET Seq(S)
      OBVIOUS
    <3> HIDE DEF P
    <3> QED BY <2>1, <2>2, <3>1, SequencesAreBuilt
  <2> QED BY <2>3
<1>9. f \in [Seq(S) -> Nat]
  BY <1>0, <1>5
<1>10. ASSUME NEW x \in S PROVE f[<<x>>] = g[x]
  <2>1. <<x>> = Append(<<>>, x) /\ g[x] \in Nat
    OBVIOUS
  <2>2. f[Append(<<>>, x)] = f[<<>>] + g[x]
    BY <1>2, <1>5
  <2> QED BY <1>6, <2>1, <2>2
<1> QED BY <1>6, <1>8, <1>9, <1>10 DEF Counts, f

LEMMA EachSame ==
  ASSUME NEW S, NEW R, NEW T, NEW g, NEW h, NEW s \in Seq(S), s \in Seq(R), \A i \in DOMAIN s : g[s[i]] = h[s[i]]
  PROVE  Each(S, g)[s] = Each(R, h)[s]
<1>1. [i \in DOMAIN s |-> g[s[i]]] = [i \in DOMAIN s |-> h[s[i]]]
  OBVIOUS
<1> QED BY <1>1 DEF Each

Ones(S, e) == [x \in S |-> <<e[x]>>]
EachOf(s, e) == [i \in DOMAIN s |-> e[s[i]]]

LEMMA EachOfOnes ==
  ASSUME NEW S, NEW T, NEW e \in [S -> T], NEW s \in Seq(S)
  PROVE  Each(S, Ones(S, e))[s] = EachOf(s, e)
<1> DEFINE seqs == [i \in DOMAIN s |-> <<e[s[i]]>>]
           one == [i \in DOMAIN s |-> e[s[i]]]
<1>1. Len(s) \in Nat /\ DOMAIN s = 1..Len(s) /\ \A i \in DOMAIN s : s[i] \in S
  OBVIOUS
<1>2. Each(S, Ones(S, e))[s] = FlattenSeq(seqs)
  <2>1. [i \in DOMAIN s |-> Ones(S, e)[s[i]]] = seqs
    BY <1>1 DEF Ones
  <2> QED BY <2>1 DEF Each
<1>3. ASSUME s = <<>> PROVE Each(S, Ones(S, e))[s] = one
  <2>1. seqs = <<>> /\ one = <<>>
    BY <1>3
  <2> QED BY <1>2, <2>1, FlattenOfFew
<1>4. ASSUME s # <<>> PROVE Each(S, Ones(S, e))[s] = one
  <2>1. Len(s) # 0
    BY <1>1, <1>4
  <2>2. seqs = [i \in 1..Len(s) |-> <<e[s[i]]>>] /\ one = [i \in 1..Len(s) |-> e[s[i]]]
    BY <1>1
  <2>3. Len(seqs) = Len(s)
    BY <1>1, <2>2
  <2>4. \A i \in 1..Len(s) : seqs[i] = <<one[i]>>
    BY <2>2
  <2> HIDE DEF seqs, one
  <2>5. FlattenSeq(seqs) = [i \in 1..Len(s) |-> one[i]]
    BY <1>1, <2>1, <2>3, <2>4, FlattenOfOnes
  <2>6. [i \in 1..Len(s) |-> one[i]] = one
    BY <2>2
  <2> QED BY <1>2, <2>5, <2>6 DEF one
<1>5. one = EachOf(s, e)
  BY DEF EachOf
<1> HIDE DEF seqs, one
<1>6. Each(S, Ones(S, e))[s] = one
  BY <1>3, <1>4
<1> QED BY <1>5, <1>6

LEMMA NothingAdds ==
  ASSUME NEW S, NEW T, NEW f, Adds(f, S, T), \A x \in S : f[<<x>>] = <<>>
  PROVE  \A s \in Seq(S) : f[s] = <<>>
<1> DEFINE none == [s \in Seq(S) |-> <<>>]
<1>1. <<>> \in Seq(T) /\ <<>> \in Seq(S) /\ (<<>> \o <<>>) = <<>>
  OBVIOUS
<1>2. \A s, t \in Seq(S) : s \o t \in Seq(S)
  BY ConcatProperties
<1>3. Adds(none, S, T)
  BY <1>1, <1>2 DEF Adds
<1>4. \A x \in S : f[<<x>>] = none[<<x>>]
  <2>1. \A x \in S : <<x>> \in Seq(S)
    OBVIOUS
  <2> QED BY <2>1
<1> HIDE DEF none
<1>5. \A s \in Seq(S) : f[s] = none[s]
  BY <1>3, <1>4, AddsAgree
<1> QED BY <1>5 DEF none

(***************************************************************************)
(* Concatenation.                                                          *)
(***************************************************************************)
LEMMA AnyIsSequence ==
  ASSUME NEW S, NEW r \in Seq(S)
  PROVE  IsSequence(r)
<1>1. PICK n \in Nat : r \in [1..n -> S]
  BY SeqDef
<1>2. r \in [1..n -> ToSet(r)]
  BY <1>1 DEF ToSet
<1>3. r \in Seq(ToSet(r))
  BY <1>2, SeqDef
<1> QED
  BY <1>3 DEF IsSequence

LEMMA Concatenation ==
  ASSUME NEW s, NEW t, IsSequence(s), IsSequence(t)
  PROVE  /\ IsSequence(s \o t) /\ Len(s \o t) = Len(s) + Len(t)
         /\ Len(s) \in Nat /\ Len(t) \in Nat
         /\ DOMAIN s = 1..Len(s) /\ DOMAIN t = 1..Len(t) /\ DOMAIN (s \o t) = 1..(Len(s) + Len(t))
         /\ \A i \in 1..Len(s) : (s \o t)[i] = s[i]
         /\ \A i \in 1..Len(t) : (s \o t)[Len(s) + i] = t[i]
<1>1. s \in Seq(ToSet(s)) /\ t \in Seq(ToSet(t))
  BY DEF IsSequence
<1>2. /\ Len(s) \in Nat /\ Len(t) \in Nat
      /\ DOMAIN s = 1..Len(s) /\ DOMAIN t = 1..Len(t)
  BY <1>1
<1>3. s \in Seq(ToSet(s) \cup ToSet(t)) /\ t \in Seq(ToSet(s) \cup ToSet(t))
  BY <1>1, <1>2 DEF ToSet
<1>4. /\ DOMAIN (s \o t) = 1..(Len(s) + Len(t)) /\ Len(s \o t) = Len(s) + Len(t)
      /\ \A i \in 1..(Len(s) + Len(t)) : (s \o t)[i] = IF i <= Len(s) THEN s[i] ELSE t[i - Len(s)]
  BY <1>3
<1>5. /\ \A i \in 1..Len(s) : (s \o t)[i] = s[i]
      /\ \A i \in 1..Len(t) : (s \o t)[Len(s) + i] = t[i]
  BY <1>2, <1>4
<1>6. s \o t \in Seq(ToSet(s) \cup ToSet(t))
  BY <1>3
<1>7. IsSequence(s \o t)
  BY <1>6, AnyIsSequence
<1> QED
  BY <1>2, <1>4, <1>5, <1>7

LEMMA ThreeSequences ==
  ASSUME NEW s, NEW t, NEW u, IsSequence(s), IsSequence(t), IsSequence(u)
  PROVE  \E S : s \in Seq(S) /\ t \in Seq(S) /\ u \in Seq(S)
<1> DEFINE S == ToSet(s) \cup ToSet(t) \cup ToSet(u)
<1>1. ToSet(s) \subseteq S /\ ToSet(t) \subseteq S /\ ToSet(u) \subseteq S
  OBVIOUS
<1>2. s \in Seq(ToSet(s)) /\ t \in Seq(ToSet(t)) /\ u \in Seq(ToSet(u))
  BY DEF IsSequence
<1> HIDE DEF S
<1>3. ASSUME NEW T, T \subseteq S, NEW r \in Seq(T) PROVE r \in Seq(S)
  BY <1>3
<1> QED
  BY <1>1, <1>2, <1>3

LEMMA TwoInOrder == ASSUME NEW s, NEW u PROVE <<s>> \o <<u>> = <<s, u>>
<1> DEFINE T == {s, u}
<1>1. <<s>> \in Seq(T) /\ <<u>> \in Seq(T) /\ <<s, u>> \in Seq(T)
  OBVIOUS
<1>2. <<s>> \o <<u>> \in Seq(T) /\ Len(<<s>> \o <<u>>) = 2
  BY <1>1, ConcatProperties
<1>3. (<<s>> \o <<u>>)[1] = s /\ (<<s>> \o <<u>>)[2] = u
  BY <1>1, ConcatProperties
<1> DEFINE p == <<s>> \o <<u>>
           q == <<s, u>>
<1>4. Len(q) = 2 /\ q[1] = s /\ q[2] = u /\ q \in Seq(T)
  BY <1>1
<1> HIDE DEF p, q, T
<1>5. \A i \in 1..Len(p) : i = 1 \/ i = 2
  BY <1>2 DEF p
<1>6. p = q
  BY <1>2, <1>3, <1>4, <1>5, SeqEqual DEF p
<1> QED
  BY <1>6 DEF p, q

LEMMA FrontIsShorter ==
  ASSUME NEW S, NEW s \in Seq(S), s # <<>>
  PROVE  Front(s) \in Seq(S) /\ Len(Front(s)) = Len(s) - 1
<1>1. PICK n : n = Len(s) - 1
  OBVIOUS
<1>2. n \in Nat /\ \A i \in 1..n : s[i] \in S
  BY <1>1
<1>3. SubSeq(s, 1, n) \in Seq(S) /\ Len(SubSeq(s, 1, n)) = IF 1 <= n THEN n - 1 + 1 ELSE 0
  BY <1>2, SubSeqProperties
<1>4. Len(SubSeq(s, 1, n)) = n
  BY <1>2, <1>3
<1> QED
  BY <1>1, <1>3, <1>4 DEF Front

LEMMA Tuples ==
  ASSUME NEW x, NEW y
  PROVE  IsSequence(<<>>) /\ IsSequence(<<x>>) /\ IsSequence(<<x, y>>)
<1>1. <<>> \in Seq({}) /\ <<x>> \in Seq({x}) /\ <<x, y>> \in Seq({x, y})
  OBVIOUS
<1> QED
  BY <1>1, AnyIsSequence

-----------------------------------------------------------------------------
(***************************************************************************)
(* A trace (TransactionReplay).                                            *)
(***************************************************************************)
Nodes == DOMAIN tx.nodes
Acted(n) == ToSet(Acts(n))
CallActs(n) == {act \in Acted(n) : IsCall(act)}
EventActs(n) == {act \in Acted(n) : IsEvent(act)}

CallsOnly(S) == [act \in S |-> IF IsCall(act) THEN <<act>> ELSE <<>>]
EventsOnly(S) == [act \in S |-> IF IsEvent(act) THEN <<act>> ELSE <<>>]

LEMMA TraceIsATree ==
  ASSUME IsTransaction(tx)
  PROVE  /\ Len(tx.nodes) \in Nat /\ Nodes = 1..Len(tx.nodes) /\ 1 \in Nodes
         /\ \A n \in Nodes : /\ Acts(n) \in Seq(Acted(n))
                             /\ calls(n) = Where(Acts(n), IsCall) /\ events(n) = Where(Acts(n), IsEvent)
                             /\ \A act \in CallActs(n) : act.of \in (n + 1)..Len(tx.nodes) /\ act.of \in Nodes
<1>1. tx.nodes \in Seq(ToSet(tx.nodes)) /\ tx.nodes # <<>>
  BY DEF IsTransaction
<1>2. Len(tx.nodes) \in Nat /\ Nodes = 1..Len(tx.nodes) /\ 1 \in Nodes
  BY <1>1 DEF Nodes
<1>3. ASSUME NEW n \in Nodes
      PROVE  /\ Acts(n) \in Seq(Acted(n))
             /\ calls(n) = Where(Acts(n), IsCall) /\ events(n) = Where(Acts(n), IsEvent)
  <2>1. tx.nodes[n] \in ToSet(tx.nodes)
    BY DEF ToSet, Nodes
  <2>2. PICK node \in ToSet(tx.nodes) : node = tx.nodes[n]
    BY <2>1
  <2>3. node.acts \in Seq(ToSet(node.acts)) /\ node.calls = Where(node.acts, IsCall) /\ node.events = Where(node.acts, IsEvent)
    BY Zenon DEF IsTransaction
  <2> QED BY <2>2, <2>3, Zenon DEF Acts, calls, events, Acted
<1>4. ASSUME NEW n \in Nodes, NEW act \in CallActs(n)
      PROVE  act.of \in (n + 1)..Len(tx.nodes) /\ act.of \in Nodes
  <2>1. act.of \in (n + 1)..Len(tx.nodes)
    BY Zenon DEF IsTransaction, CallActs, Acted, Acts, Nodes
  <2> QED BY <1>2, <2>1
<1> QED BY <1>2, <1>3, <1>4

LEMMA CallsAndEvents ==
  ASSUME IsTransaction(tx), NEW n \in Nodes
  PROVE  /\ calls(n) = Each(Acted(n), CallsOnly(Acted(n)))[Acts(n)] /\ calls(n) \in Seq(CallActs(n))
         /\ events(n) = Each(Acted(n), EventsOnly(Acted(n)))[Acts(n)] /\ events(n) \in Seq(EventActs(n))
         /\ Adds(Each(Acted(n), CallsOnly(Acted(n))), Acted(n), CallActs(n))
         /\ Adds(Each(Acted(n), EventsOnly(Acted(n))), Acted(n), EventActs(n))
<1> DEFINE S == Acted(n)
<1>1. Acts(n) \in Seq(S) /\ calls(n) = Where(Acts(n), IsCall) /\ events(n) = Where(Acts(n), IsEvent)
  BY TraceIsATree
<1>2. CallsOnly(S) \in [S -> Seq(CallActs(n))]
  <2>1. ASSUME NEW act \in S PROVE (IF IsCall(act) THEN <<act>> ELSE <<>>) \in Seq(CallActs(n))
    <3>1. CASE IsCall(act)
      <4>1. act \in CallActs(n)
        BY <3>1 DEF CallActs
      <4> QED BY <3>1, <4>1
    <3>2. CASE ~IsCall(act)
      BY <3>2
    <3> QED BY <3>1, <3>2
  <2> QED BY <2>1 DEF CallsOnly
<1>3. EventsOnly(S) \in [S -> Seq(EventActs(n))]
  <2>1. ASSUME NEW act \in S PROVE (IF IsEvent(act) THEN <<act>> ELSE <<>>) \in Seq(EventActs(n))
    <3>1. CASE IsEvent(act)
      <4>1. act \in EventActs(n)
        BY <3>1 DEF EventActs
      <4> QED BY <3>1, <4>1
    <3>2. CASE ~IsEvent(act)
      BY <3>2
    <3> QED BY <3>1, <3>2
  <2> QED BY <2>1 DEF EventsOnly
<1>4. Adds(Each(S, CallsOnly(S)), S, CallActs(n)) /\ Adds(Each(S, EventsOnly(S)), S, EventActs(n))
  BY <1>2, <1>3, EachAdds
<1>5. \A i \in DOMAIN Acts(n) : Acts(n)[i] \in S
  BY <1>1
<1>6. [i \in DOMAIN Acts(n) |-> IF IsCall(Acts(n)[i]) THEN <<Acts(n)[i]>> ELSE <<>>] =
        [i \in DOMAIN Acts(n) |-> CallsOnly(S)[Acts(n)[i]]]
  BY <1>5 DEF CallsOnly
<1>7. [i \in DOMAIN Acts(n) |-> IF IsEvent(Acts(n)[i]) THEN <<Acts(n)[i]>> ELSE <<>>] =
        [i \in DOMAIN Acts(n) |-> EventsOnly(S)[Acts(n)[i]]]
  BY <1>5 DEF EventsOnly
<1>8. calls(n) = Each(S, CallsOnly(S))[Acts(n)]
  BY <1>1, <1>6, Zenon DEF Where, Each
<1>9. events(n) = Each(S, EventsOnly(S))[Acts(n)]
  BY <1>1, <1>7, Zenon DEF Where, Each
<1>10. calls(n) \in Seq(CallActs(n)) /\ events(n) \in Seq(EventActs(n))
  BY <1>1, <1>4, <1>8, <1>9 DEF Adds
<1> QED BY <1>4, <1>8, <1>9, <1>10

-----------------------------------------------------------------------------
(***************************************************************************)
(* The order of a transaction (TransactionReplay).  Written is, for each   *)
(* invocation, what the writer writes of it and of all below it, as        *)
(* Happened is what happened: both are recursions over the tree (Written-  *)
(* Unfolds, HappenedUnfolds), compared by what they add up over the acts   *)
(* of each invocation.  At any time what is told so far, and what each     *)
(* open invocation has still to tell, innermost first, are together what   *)
(* is written of the root (TreeAt).                                        *)
(***************************************************************************)
TraceEvents ==
  {Calling(0, n) : n \in Nodes} \cup {Returning(0, n) : n \in Nodes}
    \cup {Emitting(0, p[1], p[2]) : p \in Nodes \X UNION {Acted(n) : n \in Nodes}}

Acting(f, n) == [act \in Acted(n) |-> IF IsCall(act) THEN f[act.of] ELSE <<Emitting(0, n, act)>>]
Emits(n) == [act \in EventActs(n) |-> <<Emitting(0, n, act)>>]
Below(f, n) == [act \in CallActs(n) |-> f[act.of]]

HappenedNext(f, n) ==
  <<Calling(0, n)>>
  \o FlattenSeq([i \in DOMAIN Acts(n) |->
                   IF IsCall(Acts(n)[i]) THEN f[Acts(n)[i].of] ELSE <<Emitting(0, n, Acts(n)[i])>>])
  \o <<Returning(0, n)>>

WrittenNext(f, n) ==
  (<<Calling(0, n)>> \o Each(EventActs(n), Emits(n))[events(n)])
  \o (Each(CallActs(n), Below(f, n))[calls(n)] \o <<Returning(0, n)>>)

BelowTyped(f, n) == \A m \in (n + 1)..Len(tx.nodes) : f[m] \in Seq(TraceEvents)

LEMMA TraceEventsOf ==
  ASSUME IsTransaction(tx), NEW n \in Nodes
  PROVE  /\ <<Calling(0, n)>> \in Seq(TraceEvents) /\ <<Returning(0, n)>> \in Seq(TraceEvents)
         /\ \A act \in Acted(n) : <<Emitting(0, n, act)>> \in Seq(TraceEvents)
<1>1. Calling(0, n) \in TraceEvents /\ Returning(0, n) \in TraceEvents
  BY DEF TraceEvents
<1>2. ASSUME NEW act \in Acted(n) PROVE Emitting(0, n, act) \in TraceEvents
  <2> DEFINE p == <<n, act>>
  <2>1. p \in Nodes \X UNION {Acted(m) : m \in Nodes} /\ p[1] = n /\ p[2] = act
    OBVIOUS
  <2>2. Emitting(0, p[1], p[2]) \in TraceEvents
    BY <2>1, Zenon DEF TraceEvents
  <2> QED BY <2>2
<1>3. \A e \in TraceEvents : <<e>> \in Seq(TraceEvents)
  <2> DEFINE E == TraceEvents
  <2> HIDE DEF E
  <2>1. \A e \in E : <<e>> \in Seq(E)
    OBVIOUS
  <2> QED BY <2>1 DEF E
<1> QED BY <1>1, <1>2, <1>3, Zenon

LEMMA NextTyped ==
  ASSUME IsTransaction(tx), NEW n \in Nodes, NEW f, BelowTyped(f, n)
  PROVE  /\ Adds(Each(Acted(n), Acting(f, n)), Acted(n), TraceEvents)
         /\ \A act \in Acted(n) : Each(Acted(n), Acting(f, n))[<<act>>] = Acting(f, n)[act]
         /\ Adds(Each(EventActs(n), Emits(n)), EventActs(n), TraceEvents)
         /\ \A act \in EventActs(n) : Each(EventActs(n), Emits(n))[<<act>>] = <<Emitting(0, n, act)>>
         /\ Adds(Each(CallActs(n), Below(f, n)), CallActs(n), TraceEvents)
         /\ \A act \in CallActs(n) : Each(CallActs(n), Below(f, n))[<<act>>] = f[act.of]
         /\ HappenedNext(f, n) = <<Calling(0, n)>> \o Each(Acted(n), Acting(f, n))[Acts(n)] \o <<Returning(0, n)>>
         /\ HappenedNext(f, n) \in Seq(TraceEvents) /\ WrittenNext(f, n) \in Seq(TraceEvents)
<1> DEFINE E == TraceEvents
<1>1. /\ <<Calling(0, n)>> \in Seq(E) /\ <<Returning(0, n)>> \in Seq(E)
      /\ \A act \in Acted(n) : <<Emitting(0, n, act)>> \in Seq(E)
  BY TraceEventsOf
<1>2. Acts(n) \in Seq(Acted(n)) /\ \A act \in CallActs(n) : act.of \in (n + 1)..Len(tx.nodes)
  BY TraceIsATree
<1>3. \A act \in CallActs(n) : f[act.of] \in Seq(E)
  BY <1>2 DEF BelowTyped
<1>4. events(n) \in Seq(EventActs(n)) /\ calls(n) \in Seq(CallActs(n))
  BY CallsAndEvents
<1> HIDE DEF E
<1>5. Acting(f, n) \in [Acted(n) -> Seq(E)]
  <2>1. ASSUME NEW act \in Acted(n) PROVE (IF IsCall(act) THEN f[act.of] ELSE <<Emitting(0, n, act)>>) \in Seq(E)
    BY <1>1, <1>3, Zenon DEF CallActs
  <2> QED BY <2>1 DEF Acting
<1>6. Emits(n) \in [EventActs(n) -> Seq(E)]
  <2>1. \A act \in EventActs(n) : <<Emitting(0, n, act)>> \in Seq(E)
    BY <1>1, Zenon DEF EventActs
  <2> QED BY <2>1 DEF Emits
<1>7. Below(f, n) \in [CallActs(n) -> Seq(E)]
  BY <1>3 DEF Below
<1>8. /\ Adds(Each(Acted(n), Acting(f, n)), Acted(n), E)
      /\ \A act \in Acted(n) : Each(Acted(n), Acting(f, n))[<<act>>] = Acting(f, n)[act]
  BY <1>5, EachAdds
<1>9. /\ Adds(Each(EventActs(n), Emits(n)), EventActs(n), E)
      /\ \A act \in EventActs(n) : Each(EventActs(n), Emits(n))[<<act>>] = Emits(n)[act]
  BY <1>6, EachAdds
<1>10. /\ Adds(Each(CallActs(n), Below(f, n)), CallActs(n), E)
       /\ \A act \in CallActs(n) : Each(CallActs(n), Below(f, n))[<<act>>] = Below(f, n)[act]
  BY <1>7, EachAdds
<1>11. \A act \in EventActs(n) : Each(EventActs(n), Emits(n))[<<act>>] = <<Emitting(0, n, act)>>
  BY <1>9 DEF Emits
<1>12. \A act \in CallActs(n) : Each(CallActs(n), Below(f, n))[<<act>>] = f[act.of]
  BY <1>10 DEF Below
<1>13. \A i \in DOMAIN Acts(n) : Acts(n)[i] \in Acted(n)
  BY <1>2
<1>14. [i \in DOMAIN Acts(n) |-> IF IsCall(Acts(n)[i]) THEN f[Acts(n)[i].of] ELSE <<Emitting(0, n, Acts(n)[i])>>] =
         [i \in DOMAIN Acts(n) |-> Acting(f, n)[Acts(n)[i]]]
  <2>1. \A act \in Acted(n) : Acting(f, n)[act] = IF IsCall(act) THEN f[act.of] ELSE <<Emitting(0, n, act)>>
    BY DEF Acting
  <2> QED BY <1>13, <2>1, Zenon
<1>15. Each(Acted(n), Acting(f, n))[Acts(n)] = FlattenSeq([i \in DOMAIN Acts(n) |-> Acting(f, n)[Acts(n)[i]]])
  BY <1>2 DEF Each
<1>16. HappenedNext(f, n) = <<Calling(0, n)>> \o Each(Acted(n), Acting(f, n))[Acts(n)] \o <<Returning(0, n)>>
  BY <1>14, <1>15, Zenon DEF HappenedNext
<1>17. HappenedNext(f, n) \in Seq(E)
  <2>1. Each(Acted(n), Acting(f, n))[Acts(n)] \in Seq(E)
    BY <1>2, <1>8 DEF Adds
  <2> QED BY <1>1, <1>16, <2>1, ConcatProperties
<1>18. WrittenNext(f, n) \in Seq(E)
  <2>1. Each(EventActs(n), Emits(n))[events(n)] \in Seq(E) /\ Each(CallActs(n), Below(f, n))[calls(n)] \in Seq(E)
    BY <1>4, <1>9, <1>10 DEF Adds
  <2>2. /\ <<Calling(0, n)>> \o Each(EventActs(n), Emits(n))[events(n)] \in Seq(E)
        /\ Each(CallActs(n), Below(f, n))[calls(n)] \o <<Returning(0, n)>> \in Seq(E)
    BY <1>1, <2>1, ConcatProperties
  <2> QED BY <2>2, ConcatProperties DEF WrittenNext
<1> QED BY <1>8, <1>9, <1>10, <1>11, <1>12, <1>16, <1>17, <1>18 DEF E

LEMMA NextAgrees ==
  ASSUME IsTransaction(tx), NEW n \in Nodes, NEW f, NEW g, \A m \in (n + 1)..Len(tx.nodes) : f[m] = g[m]
  PROVE  HappenedNext(f, n) = HappenedNext(g, n) /\ WrittenNext(f, n) = WrittenNext(g, n)
<1>1. Acts(n) \in Seq(Acted(n)) /\ \A act \in CallActs(n) : act.of \in (n + 1)..Len(tx.nodes)
  BY TraceIsATree
<1>2. \A act \in CallActs(n) : f[act.of] = g[act.of]
  BY <1>1
<1>3. Below(f, n) = Below(g, n)
  BY <1>2 DEF Below
<1>4. \A i \in DOMAIN Acts(n) : Acts(n)[i] \in Acted(n)
  BY <1>1
<1>5. ASSUME NEW act \in Acted(n)
      PROVE  (IF IsCall(act) THEN f[act.of] ELSE <<Emitting(0, n, act)>>) =
               IF IsCall(act) THEN g[act.of] ELSE <<Emitting(0, n, act)>>
  BY <1>2, Zenon DEF CallActs
<1>6. [i \in DOMAIN Acts(n) |-> IF IsCall(Acts(n)[i]) THEN f[Acts(n)[i].of] ELSE <<Emitting(0, n, Acts(n)[i])>>] =
        [i \in DOMAIN Acts(n) |-> IF IsCall(Acts(n)[i]) THEN g[Acts(n)[i].of] ELSE <<Emitting(0, n, Acts(n)[i])>>]
  BY <1>4, <1>5, Zenon
<1> QED BY <1>3, <1>6, Zenon DEF HappenedNext, WrittenNext

(* What is written of each invocation, with all below it.                  *)
Writes(f) == f \in [Nodes -> Seq(TraceEvents)] /\ \A n \in Nodes : f[n] = WrittenNext(f, n)
Written == CHOOSE f : Writes(f)

LEMMA WrittenUnfolds ==
  ASSUME IsTransaction(tx)
  PROVE  Writes(Written)
<1> DEFINE N == Len(tx.nodes)
           V == Seq(TraceEvents)
           step == [n \in 1..N |-> [f \in [1..N -> V] |-> WrittenNext(f, n)]]
<1>1. N \in Nat /\ Nodes = 1..N
  BY TraceIsATree
<1>2. \A n \in 1..N : \A m \in (n + 1)..N : m \in 1..N
  BY <1>1
<1>3. <<>> \in V
  OBVIOUS
<1>4. ASSUME NEW n \in 1..N, NEW f \in [1..N -> V] PROVE WrittenNext(f, n) \in V
  <2>1. BelowTyped(f, n)
    BY <1>2 DEF BelowTyped
  <2>2. n \in Nodes
    BY <1>1
  <2> QED BY <2>1, <2>2, NextTyped
<1>5. ASSUME NEW n \in 1..N, NEW f \in [1..N -> V], NEW g \in [1..N -> V], \A m \in (n + 1)..N : f[m] = g[m]
      PROVE  WrittenNext(f, n) = WrittenNext(g, n)
  BY <1>1, <1>5, NextAgrees
<1> HIDE DEF N, V
<1>6. step \in [1..N -> [[1..N -> V] -> V]]
  BY <1>4
<1>7. \A n \in 1..N : \A f \in [1..N -> V] : step[n][f] = WrittenNext(f, n)
  OBVIOUS
<1>8. \A n \in 1..N : \A f, g \in [1..N -> V] :
        (\A m \in (n + 1)..N : f[m] = g[m]) => step[n][f] = step[n][g]
  BY <1>5, <1>7
<1> HIDE DEF step
<1>a. AsksAbove(step, N, V)
  BY <1>6, <1>8 DEF AsksAbove
<1>9. PICK f \in [1..N -> V] : \A n \in 1..N : f[n] = step[n][f]
  <2>1. \E f : Fixed(f, step, N, V)
    BY <1>1, <1>3, <1>a, DownwardRecursion
  <2> QED BY <2>1 DEF Fixed
<1>10. Writes(f)
  BY <1>1, <1>7, <1>9 DEF Writes, V
<1> QED BY <1>10, Zenon DEF Written

LEMMA HappenedUnfolds ==
  ASSUME IsTransaction(tx)
  PROVE  Happened \in [Nodes -> Seq(TraceEvents)] /\ \A n \in Nodes : Happened[n] = HappenedNext(Happened, n)
<1> DEFINE N == Len(tx.nodes)
           V == Seq(TraceEvents)
           step == [n \in 1..N |-> [f \in [1..N -> V] |-> HappenedNext(f, n)]]
           Happens(f) == f = [n \in Nodes |-> HappenedNext(f, n)]
<1>1. N \in Nat /\ Nodes = 1..N
  BY TraceIsATree
<1>2. \A n \in 1..N : \A m \in (n + 1)..N : m \in 1..N
  BY <1>1
<1>3. <<>> \in V
  OBVIOUS
<1>4. ASSUME NEW n \in 1..N, NEW f, \A m \in (n + 1)..N : f[m] \in V PROVE HappenedNext(f, n) \in V
  <2>1. BelowTyped(f, n)
    BY <1>4 DEF BelowTyped
  <2>2. n \in Nodes
    BY <1>1
  <2> QED BY <2>1, <2>2, NextTyped
<1>5. ASSUME NEW n \in 1..N, NEW f \in [1..N -> V], NEW g \in [1..N -> V], \A m \in (n + 1)..N : f[m] = g[m]
      PROVE  HappenedNext(f, n) = HappenedNext(g, n)
  BY <1>1, <1>5, NextAgrees
<1> HIDE DEF N, V
<1>6. step \in [1..N -> [[1..N -> V] -> V]]
  BY <1>2, <1>4
<1>7. \A n \in 1..N : \A f \in [1..N -> V] : step[n][f] = HappenedNext(f, n)
  OBVIOUS
<1>8. \A n \in 1..N : \A f, g \in [1..N -> V] :
        (\A m \in (n + 1)..N : f[m] = g[m]) => step[n][f] = step[n][g]
  BY <1>5, <1>7
<1> HIDE DEF step
<1>a. AsksAbove(step, N, V)
  BY <1>6, <1>8 DEF AsksAbove
<1>9. PICK f \in [1..N -> V] : \A n \in 1..N : f[n] = step[n][f]
  <2>1. \E f : Fixed(f, step, N, V)
    BY <1>1, <1>3, <1>a, DownwardRecursion
  <2> QED BY <2>1 DEF Fixed
<1>10. Happens(f)
  <2>1. \A n \in Nodes : f[n] = HappenedNext(f, n)
    BY <1>1, <1>7, <1>9
  <2>2. f = [n \in Nodes |-> f[n]]
    BY <1>1, <1>9
  <2> QED BY <2>1, <2>2, Zenon
<1>11. Happened = CHOOSE h : Happens(h)
  BY Zenon DEF Happened, HappenedNext, Nodes
<1>12. Happens(Happened)
  <2> HIDE DEF Happens
  <2> QED BY <1>10, <1>11, Zenon
<1>13. \A n \in Nodes : Happened[n] = HappenedNext(Happened, n)
  BY <1>12, Zenon
<1> DEFINE P == {n \in 1..N : Happened[n] \in V}
<1>14. \A n \in 1..N : (\A m \in (n + 1)..N : m \in P) => n \in P
  BY <1>1, <1>4, <1>13
<1>15. P = 1..N
  <2>1. P \in SUBSET (1..N)
    OBVIOUS
  <2> HIDE DEF P
  <2> QED BY <1>1, <1>14, <2>1, DownwardInduction
<1>16. Happened = [n \in Nodes |-> Happened[n]]
  <2>1. \A h : Happens(h) => h = [n \in Nodes |-> h[n]]
    BY Zenon
  <2> HIDE DEF Happens
  <2> QED BY <1>12, <2>1
<1>17. Happened \in [Nodes -> V]
  BY <1>1, <1>15, <1>16
<1> QED BY <1>13, <1>17 DEF V

EventsTold(n) == Each(EventActs(n), Emits(n))[events(n)]
BelowTold(n) == Each(CallActs(n), Below(Written, n))[calls(n)]
ActsHappened(n) == Each(Acted(n), Acting(Happened, n))[Acts(n)]

LEMMA TreeTyped ==
  ASSUME IsTransaction(tx), NEW n \in Nodes
  PROVE  /\ BelowTyped(Written, n) /\ BelowTyped(Happened, n)
         /\ Written[n] \in Seq(TraceEvents) /\ Happened[n] \in Seq(TraceEvents)
         /\ EventsTold(n) \in Seq(TraceEvents) /\ BelowTold(n) \in Seq(TraceEvents)
         /\ ActsHappened(n) \in Seq(TraceEvents)
         /\ Written[n] = (<<Calling(0, n)>> \o EventsTold(n)) \o (BelowTold(n) \o <<Returning(0, n)>>)
         /\ Happened[n] = <<Calling(0, n)>> \o ActsHappened(n) \o <<Returning(0, n)>>
<1>1. /\ Written \in [Nodes -> Seq(TraceEvents)] /\ Written[n] = WrittenNext(Written, n)
      /\ Happened \in [Nodes -> Seq(TraceEvents)] /\ Happened[n] = HappenedNext(Happened, n)
  BY WrittenUnfolds, HappenedUnfolds DEF Writes
<1>2. \A m \in (n + 1)..Len(tx.nodes) : m \in Nodes
  BY TraceIsATree
<1>3. BelowTyped(Written, n) /\ BelowTyped(Happened, n)
  BY <1>1, <1>2 DEF BelowTyped
<1>4. events(n) \in Seq(EventActs(n)) /\ calls(n) \in Seq(CallActs(n)) /\ Acts(n) \in Seq(Acted(n))
  BY CallsAndEvents, TraceIsATree
<1>5. /\ Adds(Each(EventActs(n), Emits(n)), EventActs(n), TraceEvents)
      /\ Adds(Each(CallActs(n), Below(Written, n)), CallActs(n), TraceEvents)
      /\ Adds(Each(Acted(n), Acting(Happened, n)), Acted(n), TraceEvents)
      /\ HappenedNext(Happened, n) =
           <<Calling(0, n)>> \o Each(Acted(n), Acting(Happened, n))[Acts(n)] \o <<Returning(0, n)>>
  BY <1>3, NextTyped
<1>6. EventsTold(n) \in Seq(TraceEvents) /\ BelowTold(n) \in Seq(TraceEvents) /\ ActsHappened(n) \in Seq(TraceEvents)
  BY <1>4, <1>5 DEF Adds, EventsTold, BelowTold, ActsHappened
<1> QED BY <1>1, <1>3, <1>5, <1>6, Zenon DEF WrittenNext, EventsTold, BelowTold, ActsHappened

(* The three parts of what is said of an invocation, over its acts.        *)
ActsPart(F, n) == [s \in Seq(Acted(n)) |-> F[Each(Acted(n), Acting(Happened, n))[s]]]
CallsPart(F, n) == [s \in Seq(Acted(n)) |-> F[Each(CallActs(n), Below(Written, n))[Each(Acted(n), CallsOnly(Acted(n)))[s]]]]
EventsPart(F, n) == [s \in Seq(Acted(n)) |-> F[Each(EventActs(n), Emits(n))[Each(Acted(n), EventsOnly(Acted(n)))[s]]]]

LEMMA PartsAre ==
  ASSUME IsTransaction(tx), NEW n \in Nodes, NEW F, NEW T, Adds(F, TraceEvents, T)
  PROVE  /\ ActsPart(F, n)[Acts(n)] = F[ActsHappened(n)]
         /\ CallsPart(F, n)[Acts(n)] = F[BelowTold(n)]
         /\ EventsPart(F, n)[Acts(n)] = F[EventsTold(n)]
         /\ \A act \in Acted(n) :
              /\ ActsPart(F, n)[<<act>>] = IF IsCall(act) THEN F[Happened[act.of]] ELSE F[<<Emitting(0, n, act)>>]
              /\ CallsPart(F, n)[<<act>>] = IF IsCall(act) THEN F[Written[act.of]] ELSE <<>>
              /\ EventsPart(F, n)[<<act>>] = IF IsCall(act) THEN <<>> ELSE F[<<Emitting(0, n, act)>>]
         /\ Acts(n) \in Seq(Acted(n))
<1>1. Acts(n) \in Seq(Acted(n))
  BY TraceIsATree
<1>2. /\ calls(n) = Each(Acted(n), CallsOnly(Acted(n)))[Acts(n)]
      /\ events(n) = Each(Acted(n), EventsOnly(Acted(n)))[Acts(n)]
  BY CallsAndEvents
<1>3. /\ ActsPart(F, n)[Acts(n)] = F[ActsHappened(n)]
      /\ CallsPart(F, n)[Acts(n)] = F[BelowTold(n)]
      /\ EventsPart(F, n)[Acts(n)] = F[EventsTold(n)]
  BY <1>1, <1>2, Zenon DEF ActsPart, CallsPart, EventsPart, ActsHappened, BelowTold, EventsTold
<1>4. ASSUME NEW act \in Acted(n)
      PROVE  /\ ActsPart(F, n)[<<act>>] = IF IsCall(act) THEN F[Happened[act.of]] ELSE F[<<Emitting(0, n, act)>>]
             /\ CallsPart(F, n)[<<act>>] = IF IsCall(act) THEN F[Written[act.of]] ELSE <<>>
             /\ EventsPart(F, n)[<<act>>] = IF IsCall(act) THEN <<>> ELSE F[<<Emitting(0, n, act)>>]
  <2>1. <<act>> \in Seq(Acted(n))
    <3> DEFINE S == Acted(n)
    <3>1. act \in S
      BY <1>4
    <3> HIDE DEF S
    <3>2. <<act>> \in Seq(S)
      BY <3>1
    <3> QED BY <3>2 DEF S
  <2>2. BelowTyped(Written, n) /\ BelowTyped(Happened, n)
    BY TreeTyped
  <2>3. Each(Acted(n), Acting(Happened, n))[<<act>>] = Acting(Happened, n)[act]
    BY <2>2, NextTyped
  <2>4. /\ \A a_ \in EventActs(n) : Each(EventActs(n), Emits(n))[<<a_>>] = <<Emitting(0, n, a_)>>
        /\ \A a_ \in CallActs(n) : Each(CallActs(n), Below(Written, n))[<<a_>>] = Written[a_.of]
        /\ Each(EventActs(n), Emits(n))[<<>>] = <<>>
        /\ Each(CallActs(n), Below(Written, n))[<<>>] = <<>>
    BY <2>2, NextTyped DEF Adds
  <2>5. ActsPart(F, n)[<<act>>] = F[Acting(Happened, n)[act]]
    BY <2>1, <2>3, Zenon DEF ActsPart
  <2>6. Acting(Happened, n)[act] = IF IsCall(act) THEN Happened[act.of] ELSE <<Emitting(0, n, act)>>
    BY DEF Acting
  <2>7. /\ Each(Acted(n), CallsOnly(Acted(n)))[<<act>>] = IF IsCall(act) THEN <<act>> ELSE <<>>
        /\ Each(Acted(n), EventsOnly(Acted(n)))[<<act>>] = IF IsEvent(act) THEN <<act>> ELSE <<>>
    <3>1. [i \in DOMAIN <<act>> |-> CallsOnly(Acted(n))[<<act>>[i]]] = <<CallsOnly(Acted(n))[act]>>
      OBVIOUS
    <3>2. [i \in DOMAIN <<act>> |-> EventsOnly(Acted(n))[<<act>>[i]]] = <<EventsOnly(Acted(n))[act]>>
      OBVIOUS
    <3>3. /\ Each(Acted(n), CallsOnly(Acted(n)))[<<act>>] = FlattenSeq(<<CallsOnly(Acted(n))[act]>>)
          /\ Each(Acted(n), EventsOnly(Acted(n)))[<<act>>] = FlattenSeq(<<EventsOnly(Acted(n))[act]>>)
      BY <2>1, <3>1, <3>2, Zenon DEF Each
    <3>4. /\ Each(Acted(n), CallsOnly(Acted(n)))[<<act>>] = CallsOnly(Acted(n))[act]
          /\ Each(Acted(n), EventsOnly(Acted(n)))[<<act>>] = EventsOnly(Acted(n))[act]
      BY <3>3, FlattenOfFew, Zenon
    <3> QED BY <3>4 DEF CallsOnly, EventsOnly
  <2>8. /\ CallsPart(F, n)[<<act>>] = F[Each(CallActs(n), Below(Written, n))[Each(Acted(n), CallsOnly(Acted(n)))[<<act>>]]]
        /\ EventsPart(F, n)[<<act>>] = F[Each(EventActs(n), Emits(n))[Each(Acted(n), EventsOnly(Acted(n)))[<<act>>]]]
    BY <2>1, Zenon DEF CallsPart, EventsPart
  <2>9. F[<<>>] = <<>>
    BY DEF Adds
  <2>10. CASE IsCall(act)
    <3>1. act \in CallActs(n) /\ ~IsEvent(act)
      BY <2>10 DEF CallActs, IsCall, IsEvent
    <3>2. CallsPart(F, n)[<<act>>] = F[Written[act.of]]
      BY <2>4, <2>7, <2>8, <2>10, <3>1, Zenon
    <3>3. EventsPart(F, n)[<<act>>] = <<>>
      BY <2>4, <2>7, <2>8, <2>9, <3>1, Zenon
    <3> QED BY <2>5, <2>6, <2>10, <3>2, <3>3, Zenon
  <2>11. CASE ~IsCall(act)
    <3>1. act \in EventActs(n) /\ IsEvent(act)
      BY <2>11 DEF EventActs, IsCall, IsEvent
    <3>2. CallsPart(F, n)[<<act>>] = <<>>
      BY <2>4, <2>7, <2>8, <2>9, <2>11, Zenon
    <3>3. EventsPart(F, n)[<<act>>] = F[<<Emitting(0, n, act)>>]
      BY <2>4, <2>7, <2>8, <3>1, Zenon
    <3> QED BY <2>5, <2>6, <2>11, <3>2, <3>3, Zenon
  <2> QED BY <2>10, <2>11
<1> QED BY <1>1, <1>3, <1>4

LEMMA PartsAdd ==
  ASSUME IsTransaction(tx), NEW n \in Nodes, NEW F, NEW T, Adds(F, TraceEvents, T)
  PROVE  /\ Adds(ActsPart(F, n), Acted(n), T) /\ Adds(CallsPart(F, n), Acted(n), T)
         /\ Adds(EventsPart(F, n), Acted(n), T)
<1>1. BelowTyped(Written, n) /\ BelowTyped(Happened, n)
  BY TreeTyped
<1>2. /\ Adds(Each(EventActs(n), Emits(n)), EventActs(n), TraceEvents)
      /\ Adds(Each(CallActs(n), Below(Written, n)), CallActs(n), TraceEvents)
      /\ Adds(Each(Acted(n), Acting(Happened, n)), Acted(n), TraceEvents)
  BY <1>1, NextTyped
<1>3. /\ Adds(Each(Acted(n), CallsOnly(Acted(n))), Acted(n), CallActs(n))
      /\ Adds(Each(Acted(n), EventsOnly(Acted(n))), Acted(n), EventActs(n))
  BY CallsAndEvents
<1>4. Adds(ActsPart(F, n), Acted(n), T)
  BY <1>2, AddsOfAdds DEF ActsPart
<1> DEFINE below == [s \in Seq(CallActs(n)) |-> F[Each(CallActs(n), Below(Written, n))[s]]]
           emits == [s \in Seq(EventActs(n)) |-> F[Each(EventActs(n), Emits(n))[s]]]
<1>5. Adds(below, CallActs(n), T) /\ Adds(emits, EventActs(n), T)
  BY <1>2, AddsOfAdds
<1>6. /\ \A s \in Seq(Acted(n)) : Each(Acted(n), CallsOnly(Acted(n)))[s] \in Seq(CallActs(n))
      /\ \A s \in Seq(Acted(n)) : Each(Acted(n), EventsOnly(Acted(n)))[s] \in Seq(EventActs(n))
  BY <1>3 DEF Adds
<1>7. /\ CallsPart(F, n) = [s \in Seq(Acted(n)) |-> below[Each(Acted(n), CallsOnly(Acted(n)))[s]]]
      /\ EventsPart(F, n) = [s \in Seq(Acted(n)) |-> emits[Each(Acted(n), EventsOnly(Acted(n)))[s]]]
  BY <1>6 DEF CallsPart, EventsPart
<1> HIDE DEF below, emits
<1>8. Adds(CallsPart(F, n), Acted(n), T) /\ Adds(EventsPart(F, n), Acted(n), T)
  BY <1>3, <1>5, <1>7, AddsOfAdds
<1> QED BY <1>4, <1>8

LEMMA AddsOverTree ==
  ASSUME IsTransaction(tx), NEW n \in Nodes, NEW F, NEW T, Adds(F, TraceEvents, T)
  PROVE  /\ F[Written[n]] = (F[<<Calling(0, n)>>] \o F[EventsTold(n)]) \o (F[BelowTold(n)] \o F[<<Returning(0, n)>>])
         /\ F[Happened[n]] = F[<<Calling(0, n)>>] \o F[ActsHappened(n)] \o F[<<Returning(0, n)>>]
         /\ F[<<Calling(0, n)>>] \in Seq(T) /\ F[<<Returning(0, n)>>] \in Seq(T)
         /\ F[EventsTold(n)] \in Seq(T) /\ F[BelowTold(n)] \in Seq(T) /\ F[ActsHappened(n)] \in Seq(T)
<1> DEFINE E == TraceEvents
           C == <<Calling(0, n)>>
           R == <<Returning(0, n)>>
<1>1. C \in Seq(E) /\ R \in Seq(E)
  BY TraceEventsOf
<1>2. /\ EventsTold(n) \in Seq(E) /\ BelowTold(n) \in Seq(E) /\ ActsHappened(n) \in Seq(E)
      /\ Written[n] = (C \o EventsTold(n)) \o (BelowTold(n) \o R)
      /\ Happened[n] = C \o ActsHappened(n) \o R
  BY TreeTyped
<1> HIDE DEF E, C, R
<1>3. \A s, t \in Seq(E) : s \o t \in Seq(E) /\ F[s \o t] = F[s] \o F[t] /\ F[s] \in Seq(T)
  BY ConcatProperties DEF Adds, E
<1>4. /\ C \o EventsTold(n) \in Seq(E) /\ F[C \o EventsTold(n)] = F[C] \o F[EventsTold(n)]
      /\ BelowTold(n) \o R \in Seq(E) /\ F[BelowTold(n) \o R] = F[BelowTold(n)] \o F[R]
      /\ C \o ActsHappened(n) \in Seq(E) /\ F[C \o ActsHappened(n)] = F[C] \o F[ActsHappened(n)]
  BY <1>1, <1>2, <1>3, Zenon
<1>5. F[Written[n]] = (F[C] \o F[EventsTold(n)]) \o (F[BelowTold(n)] \o F[R])
  <2>1. F[(C \o EventsTold(n)) \o (BelowTold(n) \o R)] = F[C \o EventsTold(n)] \o F[BelowTold(n) \o R]
    BY <1>3, <1>4
  <2> QED BY <1>2, <1>4, <2>1
<1>6. F[Happened[n]] = F[C] \o F[ActsHappened(n)] \o F[R]
  <2>1. F[(C \o ActsHappened(n)) \o R] = F[C \o ActsHappened(n)] \o F[R]
    BY <1>1, <1>3, <1>4
  <2> QED BY <1>2, <1>4, <2>1
<1>7. /\ F[C] \in Seq(T) /\ F[R] \in Seq(T)
      /\ F[EventsTold(n)] \in Seq(T) /\ F[BelowTold(n)] \in Seq(T) /\ F[ActsHappened(n)] \in Seq(T)
  BY <1>1, <1>2, <1>3, Zenon
<1> QED BY <1>5, <1>6, <1>7, Zenon DEF C, R

(* What leaves an invocation's events out is the same of both if it is     *)
(* below it.                                                               *)
LEMMA SameWithout ==
  ASSUME IsTransaction(tx), NEW n \in Nodes, NEW F, NEW T, Adds(F, TraceEvents, T),
         \A act \in Acted(n) : ~IsCall(act) => F[<<Emitting(0, n, act)>>] = <<>>,
         \A m \in (n + 1)..Len(tx.nodes) : F[Written[m]] = F[Happened[m]]
  PROVE  F[Written[n]] = F[Happened[n]]
<1>1. /\ Adds(ActsPart(F, n), Acted(n), T) /\ Adds(CallsPart(F, n), Acted(n), T)
      /\ Adds(EventsPart(F, n), Acted(n), T)
  BY PartsAdd
<1>2. \A act \in Acted(n) : IsCall(act) => act.of \in (n + 1)..Len(tx.nodes)
  BY TraceIsATree DEF CallActs
<1>3. /\ ActsPart(F, n)[Acts(n)] = F[ActsHappened(n)]
      /\ CallsPart(F, n)[Acts(n)] = F[BelowTold(n)]
      /\ EventsPart(F, n)[Acts(n)] = F[EventsTold(n)]
      /\ \A act \in Acted(n) :
           /\ ActsPart(F, n)[<<act>>] = IF IsCall(act) THEN F[Happened[act.of]] ELSE F[<<Emitting(0, n, act)>>]
           /\ CallsPart(F, n)[<<act>>] = IF IsCall(act) THEN F[Written[act.of]] ELSE <<>>
           /\ EventsPart(F, n)[<<act>>] = IF IsCall(act) THEN <<>> ELSE F[<<Emitting(0, n, act)>>]
      /\ Acts(n) \in Seq(Acted(n))
  BY PartsAre
<1>4. \A act \in Acted(n) : ActsPart(F, n)[<<act>>] = CallsPart(F, n)[<<act>>] /\ EventsPart(F, n)[<<act>>] = <<>>
  BY <1>2, <1>3, Zenon
<1>5. F[ActsHappened(n)] = F[BelowTold(n)]
  <2>1. \A s \in Seq(Acted(n)) : ActsPart(F, n)[s] = CallsPart(F, n)[s]
    <3>1. \A act \in Acted(n) : ActsPart(F, n)[<<act>>] = CallsPart(F, n)[<<act>>]
      BY <1>4
    <3> QED BY <1>1, <3>1, AddsAgree
  <2> QED BY <1>3, <2>1
<1>6. F[EventsTold(n)] = <<>>
  <2>1. \A s \in Seq(Acted(n)) : EventsPart(F, n)[s] = <<>>
    BY <1>1, <1>4, NothingAdds
  <2> QED BY <1>3, <2>1
<1>7. /\ F[Written[n]] = (F[<<Calling(0, n)>>] \o F[EventsTold(n)]) \o (F[BelowTold(n)] \o F[<<Returning(0, n)>>])
      /\ F[Happened[n]] = F[<<Calling(0, n)>>] \o F[ActsHappened(n)] \o F[<<Returning(0, n)>>]
      /\ F[<<Calling(0, n)>>] \in Seq(T) /\ F[<<Returning(0, n)>>] \in Seq(T) /\ F[BelowTold(n)] \in Seq(T)
  BY AddsOverTree
<1>8. \A c_, s, r \in Seq(T) : (c_ \o <<>>) \o (s \o r) = c_ \o s \o r
  BY ConcatEmptySeq, ConcatAssociative
<1>9. F[Written[n]] = (F[<<Calling(0, n)>>] \o <<>>) \o (F[BelowTold(n)] \o F[<<Returning(0, n)>>])
  BY <1>6, <1>7
<1>10. (F[<<Calling(0, n)>>] \o <<>>) \o (F[BelowTold(n)] \o F[<<Returning(0, n)>>]) =
         F[<<Calling(0, n)>>] \o F[BelowTold(n)] \o F[<<Returning(0, n)>>]
  BY <1>7, <1>8, Zenon
<1> QED BY <1>5, <1>7, <1>9, <1>10, Zenon

(* What leaves out all that is below an invocation is the same of both.    *)
LEMMA SameAlone ==
  ASSUME IsTransaction(tx), NEW n \in Nodes, NEW F, NEW T, Adds(F, TraceEvents, T),
         \A m \in (n + 1)..Len(tx.nodes) : F[Written[m]] = <<>> /\ F[Happened[m]] = <<>>
  PROVE  F[Written[n]] = F[Happened[n]]
<1>1. /\ Adds(ActsPart(F, n), Acted(n), T) /\ Adds(CallsPart(F, n), Acted(n), T)
      /\ Adds(EventsPart(F, n), Acted(n), T)
  BY PartsAdd
<1>2. \A act \in Acted(n) : IsCall(act) => act.of \in (n + 1)..Len(tx.nodes)
  BY TraceIsATree DEF CallActs
<1>3. /\ ActsPart(F, n)[Acts(n)] = F[ActsHappened(n)]
      /\ CallsPart(F, n)[Acts(n)] = F[BelowTold(n)]
      /\ EventsPart(F, n)[Acts(n)] = F[EventsTold(n)]
      /\ \A act \in Acted(n) :
           /\ ActsPart(F, n)[<<act>>] = IF IsCall(act) THEN F[Happened[act.of]] ELSE F[<<Emitting(0, n, act)>>]
           /\ CallsPart(F, n)[<<act>>] = IF IsCall(act) THEN F[Written[act.of]] ELSE <<>>
           /\ EventsPart(F, n)[<<act>>] = IF IsCall(act) THEN <<>> ELSE F[<<Emitting(0, n, act)>>]
      /\ Acts(n) \in Seq(Acted(n))
  BY PartsAre
<1>4. \A act \in Acted(n) : ActsPart(F, n)[<<act>>] = EventsPart(F, n)[<<act>>] /\ CallsPart(F, n)[<<act>>] = <<>>
  BY <1>2, <1>3, Zenon
<1>5. F[ActsHappened(n)] = F[EventsTold(n)]
  <2>1. \A s \in Seq(Acted(n)) : ActsPart(F, n)[s] = EventsPart(F, n)[s]
    <3>1. \A act \in Acted(n) : ActsPart(F, n)[<<act>>] = EventsPart(F, n)[<<act>>]
      BY <1>4
    <3> QED BY <1>1, <3>1, AddsAgree
  <2> QED BY <1>3, <2>1
<1>6. F[BelowTold(n)] = <<>>
  <2>1. \A s \in Seq(Acted(n)) : CallsPart(F, n)[s] = <<>>
    BY <1>1, <1>4, NothingAdds
  <2> QED BY <1>3, <2>1
<1>7. /\ F[Written[n]] = (F[<<Calling(0, n)>>] \o F[EventsTold(n)]) \o (F[BelowTold(n)] \o F[<<Returning(0, n)>>])
      /\ F[Happened[n]] = F[<<Calling(0, n)>>] \o F[ActsHappened(n)] \o F[<<Returning(0, n)>>]
      /\ F[<<Returning(0, n)>>] \in Seq(T)
  BY AddsOverTree
<1>8. \A r \in Seq(T) : <<>> \o r = r
  BY ConcatEmptySeq
<1>9. F[BelowTold(n)] \o F[<<Returning(0, n)>>] = F[<<Returning(0, n)>>]
  BY <1>6, <1>7, <1>8
<1>10. F[Written[n]] = F[<<Calling(0, n)>>] \o F[EventsTold(n)] \o F[<<Returning(0, n)>>]
  BY <1>7, <1>9, Zenon
<1> QED BY <1>5, <1>7, <1>10, Zenon

(* Picking those of a set, one after the other.                            *)
Picks(S, P) == [x \in S |-> IF x \in P THEN <<x>> ELSE <<>>]

LEMMA PicksAdd ==
  ASSUME NEW S, NEW P
  PROVE  /\ Adds(Each(S, Picks(S, P)), S, S)
         /\ \A x \in S : Each(S, Picks(S, P))[<<x>>] = IF x \in P THEN <<x>> ELSE <<>>
<1>1. Picks(S, P) \in [S -> Seq(S)]
  <2>1. ASSUME NEW x \in S PROVE (IF x \in P THEN <<x>> ELSE <<>>) \in Seq(S)
    OBVIOUS
  <2> QED BY <2>1 DEF Picks
<1>2. \A x \in S : Picks(S, P)[x] = IF x \in P THEN <<x>> ELSE <<>>
  BY DEF Picks
<1>3. /\ Adds(Each(S, Picks(S, P)), S, S)
      /\ \A x \in S : Each(S, Picks(S, P))[<<x>>] = Picks(S, P)[x]
  BY <1>1, EachAdds
<1> QED BY <1>2, <1>3

LEMMA WithoutEventsPicks ==
  ASSUME NEW S, NEW s \in Seq(S)
  PROVE  WithoutEvents(s) = Each(S, Picks(S, {x \in S : IsNoSpecial(x)}))[s]
<1> DEFINE P == {x \in S : IsNoSpecial(x)}
<1>1. \A i \in DOMAIN s : s[i] \in S
  OBVIOUS
<1>2. \A x \in S : Picks(S, P)[x] = IF IsNoSpecial(x) THEN <<x>> ELSE <<>>
  BY DEF Picks
<1> HIDE DEF P
<1>3. [i \in DOMAIN s |-> IF IsNoSpecial(s[i]) THEN <<s[i]>> ELSE <<>>] = [i \in DOMAIN s |-> Picks(S, P)[s[i]]]
  BY <1>1, <1>2, Zenon
<1>4. Each(S, Picks(S, P))[s] = FlattenSeq([i \in DOMAIN s |-> Picks(S, P)[s[i]]])
  BY DEF Each
<1> QED BY <1>3, <1>4, Zenon DEF P, Where, WithoutEvents

LEMMA EmittedPicks ==
  ASSUME NEW S, NEW s \in Seq(S), NEW m
  PROVE  Emitted(s, m) = Each(S, Picks(S, {x \in S : IsSpecial(x) /\ x.of[1] = m}))[s]
<1> DEFINE P == {x \in S : IsSpecial(x) /\ x.of[1] = m}
<1>1. \A i \in DOMAIN s : s[i] \in S
  OBVIOUS
<1>2. \A x \in S : Picks(S, P)[x] = IF IsSpecial(x) /\ x.of[1] = m THEN <<x>> ELSE <<>>
  BY DEF Picks
<1> HIDE DEF P
<1>3. [i \in DOMAIN s |-> IF IsSpecial(s[i]) /\ s[i].of[1] = m THEN <<s[i]>> ELSE <<>>] = [i \in DOMAIN s |-> Picks(S, P)[s[i]]]
  BY <1>1, <1>2, Zenon
<1>4. Each(S, Picks(S, P))[s] = FlattenSeq([i \in DOMAIN s |-> Picks(S, P)[s[i]]])
  BY DEF Each
<1> QED BY <1>3, <1>4, Zenon DEF P, Where, Emitted

LEMMA StepsPick ==
  ASSUME NEW S, NEW s \in Seq(S)
  PROVE  Where(s, IsStep) = Each(S, Picks(S, {x \in S : IsStep(x)}))[s]
<1> DEFINE P == {x \in S : IsStep(x)}
<1>1. \A i \in DOMAIN s : s[i] \in S
  OBVIOUS
<1>2. \A x \in S : Picks(S, P)[x] = IF IsStep(x) THEN <<x>> ELSE <<>>
  BY DEF Picks
<1> HIDE DEF P
<1>3. [i \in DOMAIN s |-> IF IsStep(s[i]) THEN <<s[i]>> ELSE <<>>] = [i \in DOMAIN s |-> Picks(S, P)[s[i]]]
  BY <1>1, <1>2, Zenon
<1>4. Each(S, Picks(S, P))[s] = FlattenSeq([i \in DOMAIN s |-> Picks(S, P)[s[i]]])
  BY DEF Each
<1> QED BY <1>3, <1>4, Zenon DEF P, Where

LEMMA EvmEventsPick ==
  ASSUME NEW S, NEW s \in Seq(S)
  PROVE  Where(s, IsEvmEvent) = Each(S, Picks(S, {x \in S : IsEvmEvent(x)}))[s]
<1> DEFINE P == {x \in S : IsEvmEvent(x)}
<1>1. \A i \in DOMAIN s : s[i] \in S
  OBVIOUS
<1>2. \A x \in S : Picks(S, P)[x] = IF IsEvmEvent(x) THEN <<x>> ELSE <<>>
  BY DEF Picks
<1> HIDE DEF P
<1>3. [i \in DOMAIN s |-> IF IsEvmEvent(s[i]) THEN <<s[i]>> ELSE <<>>] = [i \in DOMAIN s |-> Picks(S, P)[s[i]]]
  BY <1>1, <1>2, Zenon
<1>4. Each(S, Picks(S, P))[s] = FlattenSeq([i \in DOMAIN s |-> Picks(S, P)[s[i]]])
  BY DEF Each
<1> QED BY <1>3, <1>4, Zenon DEF P, Where

LEMMA WritesPick ==
  ASSUME NEW S, NEW s \in Seq(S)
  PROVE  Where(s, IsWrite) = Each(S, Picks(S, {x \in S : IsWrite(x)}))[s]
<1> DEFINE P == {x \in S : IsWrite(x)}
<1>1. \A i \in DOMAIN s : s[i] \in S
  OBVIOUS
<1>2. \A x \in S : Picks(S, P)[x] = IF IsWrite(x) THEN <<x>> ELSE <<>>
  BY DEF Picks
<1> HIDE DEF P
<1>3. [i \in DOMAIN s |-> IF IsWrite(s[i]) THEN <<s[i]>> ELSE <<>>] = [i \in DOMAIN s |-> Picks(S, P)[s[i]]]
  BY <1>1, <1>2, Zenon
<1>4. Each(S, Picks(S, P))[s] = FlattenSeq([i \in DOMAIN s |-> Picks(S, P)[s[i]]])
  BY DEF Each
<1> QED BY <1>3, <1>4, Zenon DEF P, Where

LEMMA EventsAreOf ==
  ASSUME NEW n, NEW act
  PROVE  /\ IsNoSpecial(Calling(0, n)) /\ ~IsSpecial(Calling(0, n)) /\ Calling(0, n).ev = "call"
         /\ IsNoSpecial(Returning(0, n)) /\ ~IsSpecial(Returning(0, n)) /\ Returning(0, n).ev = "return"
         /\ IsSpecial(Emitting(0, n, act)) /\ ~IsNoSpecial(Emitting(0, n, act))
         /\ Emitting(0, n, act).of[1] = n /\ Emitting(0, n, act).ev = "special"
BY DEF Calling, Returning, Emitting, CallEv, ReturnEv, SpecialEv, IsNoSpecial, IsSpecial

(* Calls and returns are written in the order they happened.               *)
LEMMA OrderIsKept ==
  ASSUME IsTransaction(tx), NEW n \in Nodes
  PROVE  WithoutEvents(Written[n]) = WithoutEvents(Happened[n])
<1> DEFINE N == Len(tx.nodes)
           E == TraceEvents
           F == Each(E, Picks(E, {x \in E : IsNoSpecial(x)}))
           P == {k \in 1..N : F[Written[k]] = F[Happened[k]]}
<1>1. N \in Nat /\ Nodes = 1..N
  BY TraceIsATree
<1>2. Adds(F, E, E) /\ \A x \in E : F[<<x>>] = IF x \in {y \in E : IsNoSpecial(y)} THEN <<x>> ELSE <<>>
  BY PicksAdd
<1>3. ASSUME NEW k \in Nodes, NEW act \in Acted(k) PROVE F[<<Emitting(0, k, act)>>] = <<>>
  <2>1. Emitting(0, k, act) \in E
    <3>1. <<Emitting(0, k, act)>> \in Seq(E)
      BY TraceEventsOf
    <3> HIDE DEF E
    <3> QED BY <3>1
  <2>2. ~IsNoSpecial(Emitting(0, k, act))
    BY EventsAreOf
  <2> HIDE DEF F, E
  <2> QED BY <1>2, <2>1, <2>2, Zenon
<1> HIDE DEF F
<1>4. \A k \in 1..N : (\A m \in (k + 1)..N : m \in P) => k \in P
  <2> SUFFICES ASSUME NEW k \in 1..N, \A m \in (k + 1)..N : m \in P PROVE F[Written[k]] = F[Happened[k]]
    OBVIOUS
  <2>1. \A m \in (k + 1)..N : F[Written[m]] = F[Happened[m]]
    OBVIOUS
  <2> HIDE DEF P
  <2>2. k \in Nodes /\ \A act \in Acted(k) : ~IsCall(act) => F[<<Emitting(0, k, act)>>] = <<>>
    BY <1>1, <1>3
  <2> QED BY <1>2, <2>1, <2>2, SameWithout
<1>5. P = 1..N
  <2>1. P \in SUBSET (1..N)
    OBVIOUS
  <2> HIDE DEF P
  <2> QED BY <1>1, <1>4, <2>1, DownwardInduction
<1>6. Written[n] \in Seq(E) /\ Happened[n] \in Seq(E)
  BY TreeTyped
<1> HIDE DEF E
<1>7. WithoutEvents(Written[n]) = F[Written[n]] /\ WithoutEvents(Happened[n]) = F[Happened[n]]
  BY <1>6, WithoutEventsPicks DEF F
<1>8. F[Written[n]] = F[Happened[n]]
  BY <1>1, <1>5
<1> QED BY <1>7, <1>8

EventsBy(m) == Each(TraceEvents, Picks(TraceEvents, {x \in TraceEvents : IsSpecial(x) /\ x.of[1] = m}))

LEMMA EventsByAdd ==
  ASSUME IsTransaction(tx), NEW m
  PROVE  /\ Adds(EventsBy(m), TraceEvents, TraceEvents)
         /\ \A n \in Nodes : /\ EventsBy(m)[<<Calling(0, n)>>] = <<>> /\ EventsBy(m)[<<Returning(0, n)>>] = <<>>
                             /\ n # m => \A act \in Acted(n) : EventsBy(m)[<<Emitting(0, n, act)>>] = <<>>
<1> DEFINE E == TraceEvents
           Q == {x \in E : IsSpecial(x) /\ x.of[1] = m}
           F == Each(E, Picks(E, Q))
<1>1. Adds(F, E, E) /\ \A x \in E : F[<<x>>] = IF x \in Q THEN <<x>> ELSE <<>>
  BY PicksAdd
<1>2. F = EventsBy(m)
  BY DEF EventsBy
<1>3. ASSUME NEW n \in Nodes
      PROVE  /\ Calling(0, n) \in E /\ Returning(0, n) \in E /\ \A act \in Acted(n) : Emitting(0, n, act) \in E
  <2>1. /\ <<Calling(0, n)>> \in Seq(E) /\ <<Returning(0, n)>> \in Seq(E)
        /\ \A act \in Acted(n) : <<Emitting(0, n, act)>> \in Seq(E)
    BY TraceEventsOf
  <2> HIDE DEF E
  <2>2. \A x : <<x>> \in Seq(E) => x \in E
    OBVIOUS
  <2> QED BY <2>1, <2>2, Zenon
<1>4. ASSUME NEW n \in Nodes
      PROVE  /\ Calling(0, n) \notin Q /\ Returning(0, n) \notin Q
             /\ n # m => \A act \in Acted(n) : Emitting(0, n, act) \notin Q
  BY EventsAreOf, Zenon
<1> HIDE DEF F, E, Q
<1>5. ASSUME NEW n \in Nodes
      PROVE  /\ F[<<Calling(0, n)>>] = <<>> /\ F[<<Returning(0, n)>>] = <<>>
             /\ n # m => \A act \in Acted(n) : F[<<Emitting(0, n, act)>>] = <<>>
  BY <1>1, <1>3, <1>4, Zenon
<1> QED BY <1>1, <1>2, <1>5 DEF E

(* Below an invocation no event is its own.                                *)
LEMMA NoneBelow ==
  ASSUME IsTransaction(tx), NEW m \in Nodes
  PROVE  \A n \in (m + 1)..Len(tx.nodes) : EventsBy(m)[Written[n]] = <<>>
<1> DEFINE N == Len(tx.nodes)
           F == EventsBy(m)
           P == {k \in 1..N : k > m => F[Written[k]] = <<>>}
<1>1. N \in Nat /\ Nodes = 1..N
  BY TraceIsATree
<1>2. /\ Adds(F, TraceEvents, TraceEvents)
      /\ \A n \in Nodes : /\ F[<<Calling(0, n)>>] = <<>> /\ F[<<Returning(0, n)>>] = <<>>
                          /\ n # m => \A act \in Acted(n) : F[<<Emitting(0, n, act)>>] = <<>>
  BY EventsByAdd
<1> HIDE DEF F
<1>3. \A k \in 1..N : (\A l \in (k + 1)..N : l \in P) => k \in P
  <2> SUFFICES ASSUME NEW k \in 1..N, \A l \in (k + 1)..N : l \in P, k > m PROVE F[Written[k]] = <<>>
    OBVIOUS
  <2>1. k # m /\ k \in Nodes
    BY <1>1
  <2>2. \A l \in (k + 1)..N : F[Written[l]] = <<>>
    <3>1. \A l \in (k + 1)..N : l > m
      BY <1>1
    <3> QED BY <3>1
  <2> HIDE DEF P
  <2>3. /\ Adds(CallsPart(F, k), Acted(k), TraceEvents) /\ Adds(EventsPart(F, k), Acted(k), TraceEvents)
    BY <1>2, <2>1, PartsAdd
  <2>4. \A act \in Acted(k) : IsCall(act) => act.of \in (k + 1)..N
    BY <2>1, TraceIsATree DEF CallActs
  <2>5. /\ CallsPart(F, k)[Acts(k)] = F[BelowTold(k)]
        /\ EventsPart(F, k)[Acts(k)] = F[EventsTold(k)]
        /\ \A act \in Acted(k) :
             /\ CallsPart(F, k)[<<act>>] = IF IsCall(act) THEN F[Written[act.of]] ELSE <<>>
             /\ EventsPart(F, k)[<<act>>] = IF IsCall(act) THEN <<>> ELSE F[<<Emitting(0, k, act)>>]
        /\ Acts(k) \in Seq(Acted(k))
    BY <1>2, <2>1, PartsAre
  <2>6. (\A act \in Acted(k) : CallsPart(F, k)[<<act>>] = <<>>) /\ \A act \in Acted(k) : EventsPart(F, k)[<<act>>] = <<>>
    BY <1>2, <2>1, <2>2, <2>4, <2>5, Zenon
  <2>7. F[BelowTold(k)] = <<>>
    <3>1. \A s \in Seq(Acted(k)) : CallsPart(F, k)[s] = <<>>
      BY <2>3, <2>6, NothingAdds
    <3> QED BY <2>5, <3>1
  <2>8. F[EventsTold(k)] = <<>>
    <3>1. \A s \in Seq(Acted(k)) : EventsPart(F, k)[s] = <<>>
      BY <2>3, <2>6, NothingAdds
    <3> QED BY <2>5, <3>1
  <2>9. F[Written[k]] = (F[<<Calling(0, k)>>] \o F[EventsTold(k)]) \o (F[BelowTold(k)] \o F[<<Returning(0, k)>>])
    BY <1>2, <2>1, AddsOverTree
  <2>10. (<<>> \o <<>>) \o (<<>> \o <<>>) = <<>>
    OBVIOUS
  <2>11. F[<<Calling(0, k)>>] = <<>> /\ F[<<Returning(0, k)>>] = <<>>
    BY <1>2, <2>1
  <2> QED BY <2>7, <2>8, <2>9, <2>10, <2>11
<1>4. P = 1..N
  <2>1. P \in SUBSET (1..N)
    OBVIOUS
  <2> HIDE DEF P
  <2> QED BY <1>1, <1>3, <2>1, DownwardInduction
<1>5. \A k \in (m + 1)..N : k \in 1..N /\ k > m
  BY <1>1
<1> QED BY <1>4, <1>5 DEF F

(* Each invocation's events are written in the order they happened.        *)
LEMMA EventsAreKept ==
  ASSUME IsTransaction(tx), NEW m \in Nodes, NEW n \in Nodes
  PROVE  Emitted(Written[n], m) = Emitted(Happened[n], m)
<1> DEFINE N == Len(tx.nodes)
           F == EventsBy(m)
           P == {k \in 1..N : F[Written[k]] = F[Happened[k]]}
<1>1. N \in Nat /\ Nodes = 1..N
  BY TraceIsATree
<1>2. /\ Adds(F, TraceEvents, TraceEvents)
      /\ \A k \in Nodes : k # m => \A act \in Acted(k) : F[<<Emitting(0, k, act)>>] = <<>>
  BY EventsByAdd
<1>3. \A k \in (m + 1)..N : F[Written[k]] = <<>>
  BY NoneBelow
<1> HIDE DEF F
<1>4. \A k \in 1..N : (\A l \in (k + 1)..N : l \in P) => k \in P
  <2> SUFFICES ASSUME NEW k \in 1..N, \A l \in (k + 1)..N : l \in P PROVE F[Written[k]] = F[Happened[k]]
    OBVIOUS
  <2>1. \A l \in (k + 1)..N : F[Written[l]] = F[Happened[l]]
    OBVIOUS
  <2> HIDE DEF P
  <2>2. CASE k # m
    <3>1. k \in Nodes /\ \A act \in Acted(k) : ~IsCall(act) => F[<<Emitting(0, k, act)>>] = <<>>
      BY <1>1, <1>2, <2>2
    <3> QED BY <1>2, <2>1, <3>1, SameWithout
  <2>3. CASE k = m
    <3>1. \A l \in (k + 1)..N : F[Written[l]] = <<>> /\ F[Happened[l]] = <<>>
      BY <1>3, <2>1, <2>3
    <3> QED BY <1>1, <1>2, <3>1, SameAlone
  <2> QED BY <2>2, <2>3
<1>5. P = 1..N
  <2>1. P \in SUBSET (1..N)
    OBVIOUS
  <2> HIDE DEF P
  <2> QED BY <1>1, <1>4, <2>1, DownwardInduction
<1>6. Written[n] \in Seq(TraceEvents) /\ Happened[n] \in Seq(TraceEvents)
  BY TreeTyped
<1>7. Emitted(Written[n], m) = F[Written[n]] /\ Emitted(Happened[n], m) = F[Happened[n]]
  BY <1>6, EmittedPicks DEF F, EventsBy
<1>8. F[Written[n]] = F[Happened[n]]
  BY <1>1, <1>5
<1> QED BY <1>7, <1>8

LEMMA FourInOrder ==
  ASSUME NEW S, NEW a \in Seq(S), NEW b \in Seq(S), NEW r \in Seq(S), NEW d \in Seq(S)
  PROVE  (a \o b) \o (r \o d) = a \o (b \o r) \o d
<1>1. PICK ab \in Seq(S) : ab = a \o b
  BY ConcatProperties
<1>2. PICK br \in Seq(S) : br = b \o r
  BY ConcatProperties
<1>3. ab \o (r \o d) = ab \o r \o d
  OBVIOUS
<1>4. (a \o b) \o r = a \o (b \o r)
  OBVIOUS
<1> QED BY <1>1, <1>3, <1>4

(* All is written in the order it happened if events come before calls.    *)
LEMMA AllIsKept ==
  ASSUME IsTransaction(tx), EventsFirst, NEW n \in Nodes
  PROVE  Written[n] = Happened[n]
<1> DEFINE N == Len(tx.nodes)
           E == TraceEvents
           P == {k \in 1..N : Written[k] = Happened[k]}
<1>1. N \in Nat /\ Nodes = 1..N
  BY TraceIsATree
<1>2. ASSUME NEW k \in Nodes, \A m \in (k + 1)..N : Written[m] = Happened[m]
      PROVE  Written[k] = Happened[k]
  <2>1. Acts(k) = events(k) \o calls(k)
    BY DEF EventsFirst, Nodes
  <2>2. events(k) \in Seq(EventActs(k)) /\ calls(k) \in Seq(CallActs(k))
    BY CallsAndEvents
  <2>3. events(k) \in Seq(Acted(k)) /\ calls(k) \in Seq(Acted(k))
    <3>1. EventActs(k) \subseteq Acted(k) /\ CallActs(k) \subseteq Acted(k)
      BY DEF EventActs, CallActs
    <3> QED BY <2>2, <3>1, SeqMonotonic
  <2>4. /\ BelowTyped(Written, k) /\ BelowTyped(Happened, k)
        /\ EventsTold(k) \in Seq(E) /\ BelowTold(k) \in Seq(E) /\ ActsHappened(k) \in Seq(E)
        /\ Written[k] = (<<Calling(0, k)>> \o EventsTold(k)) \o (BelowTold(k) \o <<Returning(0, k)>>)
        /\ Happened[k] = <<Calling(0, k)>> \o ActsHappened(k) \o <<Returning(0, k)>>
    BY TreeTyped
  <2>5. Adds(Each(Acted(k), Acting(Happened, k)), Acted(k), E)
    BY <2>4, NextTyped
  <2>6. ActsHappened(k) = Each(Acted(k), Acting(Happened, k))[events(k)] \o Each(Acted(k), Acting(Happened, k))[calls(k)]
    <3>1. ActsHappened(k) = Each(Acted(k), Acting(Happened, k))[events(k) \o calls(k)]
      BY <2>1 DEF ActsHappened
    <3> QED BY <2>3, <2>5, <3>1 DEF Adds
  <2>7. \A act \in Acted(k) : Acting(Happened, k)[act] = IF IsCall(act) THEN Happened[act.of] ELSE <<Emitting(0, k, act)>>
    BY DEF Acting
  <2>8. \A act \in EventActs(k) : Acting(Happened, k)[act] = Emits(k)[act]
    <3>1. ASSUME NEW act \in EventActs(k) PROVE Emits(k)[act] = <<Emitting(0, k, act)>> /\ act \in Acted(k) /\ ~IsCall(act)
      BY DEF Emits, EventActs, IsCall, IsEvent
    <3> QED BY <2>7, <3>1, Zenon
  <2>9. \A act \in CallActs(k) : Acting(Happened, k)[act] = Below(Written, k)[act]
    <3>1. ASSUME NEW act \in CallActs(k) PROVE Below(Written, k)[act] = Written[act.of] /\ act \in Acted(k) /\ IsCall(act)
      BY DEF Below, CallActs
    <3>2. ASSUME NEW act \in CallActs(k) PROVE Written[act.of] = Happened[act.of]
      BY <1>2, TraceIsATree
    <3> QED BY <2>7, <3>1, <3>2, Zenon
  <2>10. Each(Acted(k), Acting(Happened, k))[events(k)] = EventsTold(k)
    <3>1. \A i \in DOMAIN events(k) : Acting(Happened, k)[events(k)[i]] = Emits(k)[events(k)[i]]
      BY <2>2, <2>8
    <3> QED BY <2>2, <2>3, <3>1, EachSame DEF EventsTold
  <2>11. Each(Acted(k), Acting(Happened, k))[calls(k)] = BelowTold(k)
    <3>1. \A i \in DOMAIN calls(k) : Acting(Happened, k)[calls(k)[i]] = Below(Written, k)[calls(k)[i]]
      BY <2>2, <2>9
    <3> QED BY <2>2, <2>3, <3>1, EachSame DEF BelowTold
  <2>12. <<Calling(0, k)>> \in Seq(E) /\ <<Returning(0, k)>> \in Seq(E)
    BY TraceEventsOf
  <2> HIDE DEF E
  <2>14. ActsHappened(k) = EventsTold(k) \o BelowTold(k)
    BY <2>6, <2>10, <2>11
  <2>15. (<<Calling(0, k)>> \o EventsTold(k)) \o (BelowTold(k) \o <<Returning(0, k)>>) =
           <<Calling(0, k)>> \o (EventsTold(k) \o BelowTold(k)) \o <<Returning(0, k)>>
    BY <2>4, <2>12, FourInOrder
  <2> QED BY <2>4, <2>14, <2>15, Zenon
<1>3. \A k \in 1..N : (\A m \in (k + 1)..N : m \in P) => k \in P
  BY <1>1, <1>2
<1>4. P = 1..N
  <2>1. P \in SUBSET (1..N)
    OBVIOUS
  <2> HIDE DEF P
  <2> QED BY <1>1, <1>3, <2>1, DownwardInduction
<1> QED BY <1>1, <1>4

(* A count that weighs each event written is the sum over the tree of what *)
(* it weighs of each invocation.                                           *)
LEMMA SumsOverTree ==
  ASSUME IsTransaction(tx), NEW w \in [TraceEvents -> Nat], NEW count,
         \A n \in Nodes : count[n] = TotalEach(TraceEvents, w)[<<Calling(0, n)>>]
                                       + TotalEach(TraceEvents, w)[EventsTold(n)]
                                       + TotalEach(TraceEvents, w)[<<Returning(0, n)>>]
  PROVE  SumOver(count) = TotalEach(TraceEvents, w)[Written[1]]
<1> DEFINE N == Len(tx.nodes)
           E == TraceEvents
           F == TotalEach(E, w)
           below(f, n) == [i \in DOMAIN calls(n) |-> f[calls(n)[i].of]]
           Walks(f) == f = [n \in Nodes |-> count[n] + Total(below(f, n))]
           counted == [n \in Nodes |-> F[Written[n]]]
           walk == CHOOSE f : Walks(f)
           P == {k \in 1..N : walk[k] = F[Written[k]]}
<1>1. N \in Nat /\ Nodes = 1..N /\ 1 \in Nodes
  BY TraceIsATree
<1>2. Counts(F, E)
  BY TotalCounts
<1> HIDE DEF F
<1>3. ASSUME NEW n \in Nodes PROVE F[BelowTold(n)] = Total([i \in DOMAIN calls(n) |-> F[Written[calls(n)[i].of]]])
  <2> DEFINE S == CallActs(n)
             g == [act \in S |-> F[Written[act.of]]]
             h == [s \in Seq(S) |-> F[Each(S, Below(Written, n))[s]]]
  <2>1. calls(n) \in Seq(S)
    BY CallsAndEvents
  <2>2. BelowTyped(Written, n)
    BY TreeTyped
  <2>3. Adds(Each(S, Below(Written, n)), S, E) /\ \A act \in S : Each(S, Below(Written, n))[<<act>>] = Written[act.of]
    BY <2>2, NextTyped
  <2>4. Counts(h, S)
    <3> HIDE DEF S, E
    <3> QED BY <1>2, <2>3, CountsOfAdds
  <2>5. g \in [S -> Nat]
    <3>1. \A act \in S : act.of \in Nodes
      BY TraceIsATree
    <3>2. \A act \in S : Written[act.of] \in Seq(E)
      BY <3>1, TreeTyped
    <3> HIDE DEF S, E
    <3> QED BY <1>2, <3>2 DEF Counts
  <2>6. Counts(TotalEach(S, g), S) /\ \A act \in S : TotalEach(S, g)[<<act>>] = g[act]
    <3> HIDE DEF S, g
    <3> QED BY <2>5, TotalCounts
  <2>7. \A act \in S : h[<<act>>] = TotalEach(S, g)[<<act>>]
    <3> SUFFICES ASSUME NEW act \in S PROVE h[<<act>>] = TotalEach(S, g)[<<act>>]
      OBVIOUS
    <3>1. <<act>> \in Seq(S)
      <4> HIDE DEF S
      <4> QED OBVIOUS
    <3>2. h[<<act>>] = F[Written[act.of]]
      BY <2>3, <3>1
    <3>3. g[act] = F[Written[act.of]]
      OBVIOUS
    <3> QED BY <2>6, <3>2, <3>3
  <2>8. h[calls(n)] = TotalEach(S, g)[calls(n)]
    <3> HIDE DEF S, g, h
    <3> QED BY <2>1, <2>4, <2>6, <2>7, CountsAgree
  <2>9. h[calls(n)] = F[BelowTold(n)]
    BY <2>1 DEF BelowTold
  <2>10. TotalEach(S, g)[calls(n)] = Total([i \in DOMAIN calls(n) |-> g[calls(n)[i]]])
    <3> HIDE DEF S, g
    <3> QED BY <2>1 DEF TotalEach
  <2>11. [i \in DOMAIN calls(n) |-> g[calls(n)[i]]] = [i \in DOMAIN calls(n) |-> F[Written[calls(n)[i].of]]]
    <3>1. \A i \in DOMAIN calls(n) : calls(n)[i] \in S
      <4> HIDE DEF S
      <4> QED BY <2>1
    <3> HIDE DEF S
    <3> QED BY <3>1
  <2> QED BY <2>8, <2>9, <2>10, <2>11
<1>4. ASSUME NEW n \in Nodes PROVE F[Written[n]] = count[n] + Total([i \in DOMAIN calls(n) |-> F[Written[calls(n)[i].of]]])
  <2> DEFINE C == <<Calling(0, n)>>
             R == <<Returning(0, n)>>
  <2>1. C \in Seq(E) /\ R \in Seq(E)
    BY TraceEventsOf
  <2>2. /\ EventsTold(n) \in Seq(E) /\ BelowTold(n) \in Seq(E)
        /\ Written[n] = (C \o EventsTold(n)) \o (BelowTold(n) \o R)
    BY TreeTyped
  <2>3. count[n] = F[C] + F[EventsTold(n)] + F[R]
    BY DEF F
  <2> HIDE DEF C, R, E
  <2>4. \A s, t \in Seq(E) : s \o t \in Seq(E) /\ F[s \o t] = F[s] + F[t] /\ F[s] \in Nat
    BY <1>2, ConcatProperties DEF Counts
  <2>5. /\ C \o EventsTold(n) \in Seq(E) /\ F[C \o EventsTold(n)] = F[C] + F[EventsTold(n)]
        /\ BelowTold(n) \o R \in Seq(E) /\ F[BelowTold(n) \o R] = F[BelowTold(n)] + F[R]
    BY <2>1, <2>2, <2>4, Zenon
  <2>6. F[(C \o EventsTold(n)) \o (BelowTold(n) \o R)] = F[C \o EventsTold(n)] + F[BelowTold(n) \o R]
    BY <2>4, <2>5, Zenon
  <2>7. F[Written[n]] = (F[C] + F[EventsTold(n)]) + (F[BelowTold(n)] + F[R])
    BY <2>2, <2>5, <2>6
  <2>8. F[C] \in Nat /\ F[EventsTold(n)] \in Nat /\ F[BelowTold(n)] \in Nat /\ F[R] \in Nat
    BY <2>1, <2>2, <2>4
  <2>9. F[Written[n]] = count[n] + F[BelowTold(n)]
    BY <2>3, <2>7, <2>8
  <2> QED BY <1>3, <2>9
<1>5. ASSUME NEW n \in Nodes, NEW i \in DOMAIN calls(n)
      PROVE  calls(n)[i].of \in (n + 1)..N /\ calls(n)[i].of \in Nodes
  <2>1. calls(n)[i] \in CallActs(n)
    <3> DEFINE S == CallActs(n)
    <3>1. calls(n) \in Seq(S)
      BY CallsAndEvents
    <3> HIDE DEF S
    <3>2. calls(n)[i] \in S
      BY <3>1
    <3> QED BY <3>2 DEF S
  <2> QED BY <2>1, TraceIsATree
<1>6. Walks(counted)
  <2>1. ASSUME NEW n \in Nodes PROVE below(counted, n) = [i \in DOMAIN calls(n) |-> F[Written[calls(n)[i].of]]]
    BY <1>5
  <2> HIDE DEF below
  <2>2. \A n \in Nodes : counted[n] = count[n] + Total(below(counted, n))
    BY <1>4, <2>1
  <2>3. counted = [n \in Nodes |-> counted[n]]
    OBVIOUS
  <2> HIDE DEF counted
  <2> QED BY <2>2, <2>3, Zenon
<1>7. Walks(walk)
  <2> HIDE DEF Walks, counted
  <2> QED BY <1>6, Zenon
<1>8. SumOver(count) = walk[1]
  BY Zenon DEF SumOver, Nodes
<1> HIDE DEF walk
<1>9. \A n \in Nodes : walk[n] = count[n] + Total(below(walk, n))
  <2> HIDE DEF below
  <2> QED BY <1>7, Zenon
<1>10. \A k \in 1..N : (\A m \in (k + 1)..N : m \in P) => k \in P
  <2> SUFFICES ASSUME NEW k \in 1..N, \A m \in (k + 1)..N : m \in P PROVE walk[k] = F[Written[k]]
    OBVIOUS
  <2>1. \A m \in (k + 1)..N : walk[m] = F[Written[m]]
    OBVIOUS
  <2>2. k \in Nodes
    BY <1>1
  <2>3. \A i \in DOMAIN calls(k) : walk[calls(k)[i].of] = F[Written[calls(k)[i].of]]
    BY <1>5, <2>1, <2>2
  <2>4. below(walk, k) = [i \in DOMAIN calls(k) |-> F[Written[calls(k)[i].of]]]
    BY <2>3
  <2> HIDE DEF below
  <2> QED BY <1>4, <1>9, <2>2, <2>4, Zenon
<1>11. P = 1..N
  <2>1. P \in SUBSET (1..N)
    OBVIOUS
  <2> HIDE DEF P
  <2> QED BY <1>1, <1>10, <2>1, DownwardInduction
<1>12. walk[1] = F[Written[1]]
  BY <1>1, <1>11
<1> QED BY <1>8, <1>12 DEF F

CallWeight == [x \in TraceEvents |-> IF x.ev = "call" THEN 1 ELSE 0]
EventWeight == [x \in TraceEvents |-> IF IsSpecial(x) THEN 1 ELSE 0]
CallsIn(s) == TotalEach(TraceEvents, CallWeight)[s]
EventsIn(s) == TotalEach(TraceEvents, EventWeight)[s]

LEMMA WeightsCount ==
  ASSUME IsTransaction(tx)
  PROVE  /\ CallWeight \in [TraceEvents -> Nat] /\ EventWeight \in [TraceEvents -> Nat]
         /\ Counts(TotalEach(TraceEvents, CallWeight), TraceEvents)
         /\ Counts(TotalEach(TraceEvents, EventWeight), TraceEvents)
         /\ \A n \in Nodes :
              /\ CallsIn(<<Calling(0, n)>>) = 1 /\ CallsIn(<<Returning(0, n)>>) = 0
              /\ EventsIn(<<Calling(0, n)>>) = 0 /\ EventsIn(<<Returning(0, n)>>) = 0
              /\ \A act \in Acted(n) : CallsIn(<<Emitting(0, n, act)>>) = 0 /\ EventsIn(<<Emitting(0, n, act)>>) = 1
<1>1. CallWeight \in [TraceEvents -> Nat] /\ EventWeight \in [TraceEvents -> Nat]
  BY DEF CallWeight, EventWeight
<1>2. /\ Counts(TotalEach(TraceEvents, CallWeight), TraceEvents)
      /\ Counts(TotalEach(TraceEvents, EventWeight), TraceEvents)
      /\ \A x \in TraceEvents : CallsIn(<<x>>) = CallWeight[x] /\ EventsIn(<<x>>) = EventWeight[x]
  BY <1>1, TotalCounts DEF CallsIn, EventsIn
<1>3. \A x \in TraceEvents : /\ CallsIn(<<x>>) = IF x.ev = "call" THEN 1 ELSE 0
                             /\ EventsIn(<<x>>) = IF IsSpecial(x) THEN 1 ELSE 0
  BY <1>2 DEF CallWeight, EventWeight
<1>4. ASSUME NEW n \in Nodes
      PROVE  /\ Calling(0, n) \in TraceEvents /\ Returning(0, n) \in TraceEvents
             /\ \A act \in Acted(n) : Emitting(0, n, act) \in TraceEvents
  <2> DEFINE E == TraceEvents
  <2>1. /\ <<Calling(0, n)>> \in Seq(E) /\ <<Returning(0, n)>> \in Seq(E)
        /\ \A act \in Acted(n) : <<Emitting(0, n, act)>> \in Seq(E)
    BY TraceEventsOf
  <2> HIDE DEF E
  <2>2. \A x : <<x>> \in Seq(E) => x \in E
    OBVIOUS
  <2>3. /\ Calling(0, n) \in E /\ Returning(0, n) \in E /\ \A act \in Acted(n) : Emitting(0, n, act) \in E
    BY <2>1, <2>2, Zenon
  <2> QED BY <2>3 DEF E
<1>5. ASSUME NEW n \in Nodes, NEW act \in Acted(n)
      PROVE  CallsIn(<<Emitting(0, n, act)>>) = 0 /\ EventsIn(<<Emitting(0, n, act)>>) = 1
  <2>1. Emitting(0, n, act).ev # "call" /\ IsSpecial(Emitting(0, n, act))
    BY DEF Emitting, SpecialEv, IsSpecial
  <2> QED BY <1>3, <1>4, <2>1, Zenon
<1>6. ASSUME NEW n \in Nodes
      PROVE  /\ CallsIn(<<Calling(0, n)>>) = 1 /\ CallsIn(<<Returning(0, n)>>) = 0
             /\ EventsIn(<<Calling(0, n)>>) = 0 /\ EventsIn(<<Returning(0, n)>>) = 0
  <2>1. /\ Calling(0, n).ev = "call" /\ ~IsSpecial(Calling(0, n))
        /\ Returning(0, n).ev # "call" /\ ~IsSpecial(Returning(0, n))
    BY DEF Calling, Returning, CallEv, ReturnEv, IsSpecial
  <2> QED BY <1>3, <1>4, <2>1, Zenon
<1> QED BY <1>1, <1>2, <1>5, <1>6

(* Of the events written of an invocation itself, none is a call and each  *)
(* is one of its events.                                                   *)
LEMMA EventsWeigh ==
  ASSUME IsTransaction(tx), NEW n \in Nodes
  PROVE  CallsIn(EventsTold(n)) = 0 /\ EventsIn(EventsTold(n)) = Len(events(n)) /\ Len(events(n)) \in Nat
<1> DEFINE S == EventActs(n)
           emit == Each(S, Emits(n))
           f == [s \in Seq(S) |-> TotalEach(TraceEvents, CallWeight)[emit[s]]]
           g == [s \in Seq(S) |-> TotalEach(TraceEvents, EventWeight)[emit[s]]]
           none == [s \in Seq(S) |-> 0]
           all == [s \in Seq(S) |-> Len(s)]
<1>1. events(n) \in Seq(S)
  BY CallsAndEvents
<1>2. Adds(emit, S, TraceEvents) /\ \A act \in S : emit[<<act>>] = <<Emitting(0, n, act)>>
  <2>1. BelowTyped(Written, n)
    BY TreeTyped
  <2> QED BY <2>1, NextTyped
<1>3. /\ Counts(TotalEach(TraceEvents, CallWeight), TraceEvents)
      /\ Counts(TotalEach(TraceEvents, EventWeight), TraceEvents)
      /\ \A act \in Acted(n) : CallsIn(<<Emitting(0, n, act)>>) = 0 /\ EventsIn(<<Emitting(0, n, act)>>) = 1
  BY WeightsCount
<1>4. CallsIn(EventsTold(n)) = f[events(n)] /\ EventsIn(EventsTold(n)) = g[events(n)]
  BY <1>1 DEF CallsIn, EventsIn, EventsTold
<1>5. \A act \in S : act \in Acted(n)
  BY DEF EventActs
<1>6. \A act \in S : TotalEach(TraceEvents, CallWeight)[emit[<<act>>]] = 0 /\ TotalEach(TraceEvents, EventWeight)[emit[<<act>>]] = 1
  BY <1>2, <1>3, <1>5, Zenon DEF CallsIn, EventsIn
<1> HIDE DEF S, emit
<1>7. \A act \in S : <<act>> \in Seq(S) /\ Len(<<act>>) = 1
  OBVIOUS
<1>8. Counts(f, S) /\ Counts(g, S)
  BY <1>2, <1>3, CountsOfAdds
<1>9. Counts(all, S)
  BY LengthCounts
<1>10. Counts(none, S)
  <2>1. <<>> \in Seq(S) /\ \A s, t \in Seq(S) : s \o t \in Seq(S)
    BY ConcatProperties
  <2>2. none \in [Seq(S) -> Nat] /\ none[<<>>] = 0
    BY <2>1
  <2>3. \A s, t \in Seq(S) : none[s \o t] = none[s] + none[t]
    BY <2>1
  <2> HIDE DEF none
  <2> QED BY <2>2, <2>3 DEF Counts
<1>11. (\A act \in S : f[<<act>>] = none[<<act>>]) /\ \A act \in S : g[<<act>>] = all[<<act>>]
  BY <1>6, <1>7
<1> HIDE DEF f, g, none, all
<1>12. f[events(n)] = none[events(n)]
  BY <1>1, <1>8, <1>10, <1>11, CountsAgree
<1>13. g[events(n)] = all[events(n)]
  BY <1>1, <1>8, <1>9, <1>11, CountsAgree
<1>14. Len(events(n)) \in Nat
  BY <1>1
<1> QED BY <1>1, <1>4, <1>12, <1>13, <1>14 DEF none, all

(* The count functions give what is written.                               *)
LEMMA CountedAsWritten ==
  ASSUME IsTransaction(tx)
  PROVE  count_invocations = CallsIn(Written[1]) /\ count_events = EventsIn(Written[1])
<1>1. /\ CallWeight \in [TraceEvents -> Nat] /\ EventWeight \in [TraceEvents -> Nat]
      /\ \A n \in Nodes :
           /\ CallsIn(<<Calling(0, n)>>) = 1 /\ CallsIn(<<Returning(0, n)>>) = 0
           /\ EventsIn(<<Calling(0, n)>>) = 0 /\ EventsIn(<<Returning(0, n)>>) = 0
  BY WeightsCount
<1>2. \A n \in Nodes : CallsIn(EventsTold(n)) = 0 /\ EventsIn(EventsTold(n)) = Len(events(n)) /\ Len(events(n)) \in Nat
  BY EventsWeigh
<1> DEFINE ones == [n \in Nodes |-> 1]
           many == [n \in Nodes |-> Len(events(n))]
<1>3. \A n \in Nodes : ones[n] = CallsIn(<<Calling(0, n)>>) + CallsIn(EventsTold(n)) + CallsIn(<<Returning(0, n)>>)
  BY <1>1, <1>2
<1>4. \A n \in Nodes : many[n] = EventsIn(<<Calling(0, n)>>) + EventsIn(EventsTold(n)) + EventsIn(<<Returning(0, n)>>)
  BY <1>1, <1>2
<1>5. count_invocations = SumOver(ones) /\ count_events = SumOver(many)
  BY Zenon DEF count_invocations, count_events, Nodes
<1> HIDE DEF ones, many
<1>6. SumOver(ones) = CallsIn(Written[1])
  BY <1>1, <1>3, SumsOverTree DEF CallsIn
<1>7. SumOver(many) = EventsIn(Written[1])
  BY <1>1, <1>4, SumsOverTree DEF EventsIn
<1> QED BY <1>5, <1>6, <1>7

-----------------------------------------------------------------------------
(***************************************************************************)
(* What is said of the events written.                                     *)
(***************************************************************************)
ToldOf(s) == FlattenSeq([i \in DOMAIN s |-> Tell(s[i])])

LEMMA ToldAdds ==
  ASSUME NEW S, NEW s \in Seq(S), NEW w \in Seq(S)
  PROVE  ToldOf(s \o w) = ToldOf(s) \o ToldOf(w)
<1> DEFINE T == {[x EXCEPT !.line = 0] : x \in S}
           g == [x \in S |-> Tell(x)]
<1>1. g \in [S -> Seq(T)]
  <2>1. ASSUME NEW x \in S PROVE Tell(x) \in Seq(T)
    <3>1. [x EXCEPT !.line = 0] \in T
      OBVIOUS
    <3> HIDE DEF T
    <3>2. <<>> \in Seq(T) /\ <<[x EXCEPT !.line = 0]>> \in Seq(T)
      BY <3>1
    <3> QED BY <3>2, Zenon DEF Tell
  <2> HIDE DEF T
  <2> QED BY <2>1
<1>2. Adds(Each(S, g), S, T)
  <2> HIDE DEF T, g
  <2> QED BY <1>1, EachAdds
<1>3. ASSUME NEW r \in Seq(S) PROVE Each(S, g)[r] = ToldOf(r)
  <2>1. \A i \in DOMAIN r : g[r[i]] = Tell(r[i])
    OBVIOUS
  <2>2. [i \in DOMAIN r |-> g[r[i]]] = [i \in DOMAIN r |-> Tell(r[i])]
    BY <2>1, Zenon
  <2> HIDE DEF g
  <2> QED BY <2>2, Zenon DEF Each, ToldOf
<1>4. s \o w \in Seq(S)
  BY ConcatProperties
<1> HIDE DEF g, T
<1> QED BY <1>2, <1>3, <1>4 DEF Adds

LEMMA ToldOfOne ==
  ASSUME NEW x
  PROVE  ToldOf(<<x>>) = Tell(x) /\ ToldOf(<<>>) = <<>>
<1>1. [i \in DOMAIN <<x>> |-> Tell(<<x>>[i])] = <<Tell(x)>>
  OBVIOUS
<1>2. [i \in DOMAIN <<>> |-> Tell(<<>>[i])] = <<>>
  OBVIOUS
<1> QED BY <1>1, <1>2, FlattenOfFew, Zenon DEF ToldOf

(* Picks of sequences all of whose elements are picked, or none.           *)
LEMMA PicksNone ==
  ASSUME NEW S, NEW P, NEW s \in Seq(S), \A x \in S : x \notin P
  PROVE  Each(S, Picks(S, P))[s] = <<>>
<1>1. /\ Adds(Each(S, Picks(S, P)), S, S)
      /\ \A x \in S : Each(S, Picks(S, P))[<<x>>] = IF x \in P THEN <<x>> ELSE <<>>
  BY PicksAdd
<1>2. \A x \in S : Each(S, Picks(S, P))[<<x>>] = <<>>
  BY <1>1
<1> QED BY <1>1, <1>2, NothingAdds

LEMMA PicksAll ==
  ASSUME NEW S, NEW P, NEW s \in Seq(S), \A x \in S : x \in P
  PROVE  Each(S, Picks(S, P))[s] = s
<1>1. PICK same \in [S -> S] : \A x \in S : same[x] = x
  <2>1. [x \in S |-> x] \in [S -> S]
    OBVIOUS
  <2> QED BY <2>1
<1>2. Picks(S, P) = Ones(S, same)
  <2>1. \A x \in S : (IF x \in P THEN <<x>> ELSE <<>>) = <<same[x]>>
    BY <1>1
  <2> QED BY <2>1, Zenon DEF Picks, Ones
<1>3. Each(S, Ones(S, same))[s] = EachOf(s, same)
  BY EachOfOnes
<1>4. EachOf(s, same) = s
  BY <1>1 DEF EachOf
<1> QED BY <1>2, <1>3, <1>4, Zenon

(* What is picked of a concatenation is picked of its parts.               *)
LEMMA StepsOfBoth ==
  ASSUME NEW S, NEW s \in Seq(S), NEW w \in Seq(S)
  PROVE  /\ Where(s \o w, IsStep) = Where(s, IsStep) \o Where(w, IsStep)
         /\ Where(s, IsStep) \in Seq(S)
<1> DEFINE P == {x \in S : IsStep(x)}
           f == Each(S, Picks(S, P))
<1>1. s \o w \in Seq(S)
  BY ConcatProperties
<1>2. Adds(f, S, S)
  BY PicksAdd
<1>3. f[s \o w] = f[s] \o f[w] /\ f[s] \in Seq(S)
  <2> HIDE DEF f
  <2> QED BY <1>2 DEF Adds
<1>4. Where(s \o w, IsStep) = f[s \o w]
  BY <1>1, StepsPick
<1>5. Where(s, IsStep) = f[s]
  BY StepsPick
<1>6. Where(w, IsStep) = f[w]
  BY StepsPick
<1> HIDE DEF f
<1> QED BY <1>3, <1>4, <1>5, <1>6, Zenon

LEMMA StepsOfOne ==
  ASSUME NEW x
  PROVE  Where(<<x>>, IsStep) = (IF IsStep(x) THEN <<x>> ELSE <<>>) /\ Where(<<>>, IsStep) = <<>>
<1>1. [i \in DOMAIN <<x>> |-> IF IsStep(<<x>>[i]) THEN <<<<x>>[i]>> ELSE <<>>] = <<IF IsStep(x) THEN <<x>> ELSE <<>>>>
  OBVIOUS
<1>2. [i \in DOMAIN <<>> |-> IF IsStep(<<>>[i]) THEN <<<<>>[i]>> ELSE <<>>] = <<>>
  OBVIOUS
<1> QED BY <1>1, <1>2, FlattenOfFew, Zenon DEF Where

LEMMA EvmEventsOfBoth ==
  ASSUME NEW S, NEW s \in Seq(S), NEW w \in Seq(S)
  PROVE  /\ Where(s \o w, IsEvmEvent) = Where(s, IsEvmEvent) \o Where(w, IsEvmEvent)
         /\ Where(s, IsEvmEvent) \in Seq(S)
<1> DEFINE P == {x \in S : IsEvmEvent(x)}
           f == Each(S, Picks(S, P))
<1>1. s \o w \in Seq(S)
  BY ConcatProperties
<1>2. Adds(f, S, S)
  BY PicksAdd
<1>3. f[s \o w] = f[s] \o f[w] /\ f[s] \in Seq(S)
  <2> HIDE DEF f
  <2> QED BY <1>2 DEF Adds
<1>4. Where(s \o w, IsEvmEvent) = f[s \o w]
  BY <1>1, EvmEventsPick
<1>5. Where(s, IsEvmEvent) = f[s]
  BY EvmEventsPick
<1>6. Where(w, IsEvmEvent) = f[w]
  BY EvmEventsPick
<1> HIDE DEF f
<1> QED BY <1>3, <1>4, <1>5, <1>6, Zenon

LEMMA EvmEventsOfOne ==
  ASSUME NEW x
  PROVE  Where(<<x>>, IsEvmEvent) = (IF IsEvmEvent(x) THEN <<x>> ELSE <<>>) /\ Where(<<>>, IsEvmEvent) = <<>>
<1>1. [i \in DOMAIN <<x>> |-> IF IsEvmEvent(<<x>>[i]) THEN <<<<x>>[i]>> ELSE <<>>] = <<IF IsEvmEvent(x) THEN <<x>> ELSE <<>>>>
  OBVIOUS
<1>2. [i \in DOMAIN <<>> |-> IF IsEvmEvent(<<>>[i]) THEN <<<<>>[i]>> ELSE <<>>] = <<>>
  OBVIOUS
<1> QED BY <1>1, <1>2, FlattenOfFew, Zenon DEF Where

LEMMA WritesOfBoth ==
  ASSUME NEW S, NEW s \in Seq(S), NEW w \in Seq(S)
  PROVE  /\ Where(s \o w, IsWrite) = Where(s, IsWrite) \o Where(w, IsWrite)
         /\ Where(s, IsWrite) \in Seq(S)
<1> DEFINE P == {x \in S : IsWrite(x)}
           f == Each(S, Picks(S, P))
<1>1. s \o w \in Seq(S)
  BY ConcatProperties
<1>2. Adds(f, S, S)
  BY PicksAdd
<1>3. f[s \o w] = f[s] \o f[w] /\ f[s] \in Seq(S)
  <2> HIDE DEF f
  <2> QED BY <1>2 DEF Adds
<1>4. Where(s \o w, IsWrite) = f[s \o w]
  BY <1>1, WritesPick
<1>5. Where(s, IsWrite) = f[s]
  BY WritesPick
<1>6. Where(w, IsWrite) = f[w]
  BY WritesPick
<1> HIDE DEF f
<1> QED BY <1>3, <1>4, <1>5, <1>6, Zenon

LEMMA WritesOfOne ==
  ASSUME NEW x
  PROVE  Where(<<x>>, IsWrite) = (IF IsWrite(x) THEN <<x>> ELSE <<>>) /\ Where(<<>>, IsWrite) = <<>>
<1>1. [i \in DOMAIN <<x>> |-> IF IsWrite(<<x>>[i]) THEN <<<<x>>[i]>> ELSE <<>>] = <<IF IsWrite(x) THEN <<x>> ELSE <<>>>>
  OBVIOUS
<1>2. [i \in DOMAIN <<>> |-> IF IsWrite(<<>>[i]) THEN <<<<>>[i]>> ELSE <<>>] = <<>>
  OBVIOUS
<1> QED BY <1>1, <1>2, FlattenOfFew, Zenon DEF Where

(* The steps, emitted events and storage writes of what is written.        *)
WhatIsIn(s, steps, told, emitted, writes) ==
  /\ Where(s, IsStep) = steps /\ ToldOf(s) = told
  /\ Len(Where(s, IsEvmEvent)) = emitted /\ Len(Where(s, IsWrite)) = writes

LEMMA WhatIsInBoth ==
  ASSUME NEW S, NEW s \in Seq(S), NEW w \in Seq(S), NEW steps, NEW told, NEW emitted, NEW writes,
         NEW steps2, NEW told2, NEW emitted2, NEW writes2,
         WhatIsIn(s, steps, told, emitted, writes), WhatIsIn(w, steps2, told2, emitted2, writes2)
  PROVE  WhatIsIn(s \o w, steps \o steps2, told \o told2, emitted + emitted2, writes + writes2)
<1>1. /\ Where(s, IsEvmEvent) \in Seq(S) /\ Where(w, IsEvmEvent) \in Seq(S)
      /\ Where(s, IsWrite) \in Seq(S) /\ Where(w, IsWrite) \in Seq(S)
  BY EvmEventsOfBoth, WritesOfBoth
<1>2. Where(s \o w, IsStep) = Where(s, IsStep) \o Where(w, IsStep)
  BY StepsOfBoth
<1>3. Where(s \o w, IsEvmEvent) = Where(s, IsEvmEvent) \o Where(w, IsEvmEvent)
  BY EvmEventsOfBoth
<1>4. Where(s \o w, IsWrite) = Where(s, IsWrite) \o Where(w, IsWrite)
  BY WritesOfBoth
<1>5. \A u, v \in Seq(S) : Len(u \o v) = Len(u) + Len(v)
  BY ConcatProperties
<1>6. Len(Where(s \o w, IsEvmEvent)) = Len(Where(s, IsEvmEvent)) + Len(Where(w, IsEvmEvent))
  BY <1>1, <1>3, <1>5, Zenon
<1>7. Len(Where(s \o w, IsWrite)) = Len(Where(s, IsWrite)) + Len(Where(w, IsWrite))
  BY <1>1, <1>4, <1>5, Zenon
<1>8. ToldOf(s \o w) = ToldOf(s) \o ToldOf(w)
  BY ToldAdds
<1> QED BY <1>2, <1>6, <1>7, <1>8, Zenon DEF WhatIsIn

LEMMA WhatIsInOne ==
  ASSUME NEW x
  PROVE  /\ IsStep(x) => WhatIsIn(<<x>>, <<x>>, <<>>, 0, 0)
         /\ x.ev \in {"call", "return"} => WhatIsIn(<<x>>, <<>>, <<[x EXCEPT !.line = 0]>>, 0, 0)
         /\ WhatIsIn(<<>>, <<>>, <<>>, 0, 0)
<1>1. Len(<<>>) = 0
  OBVIOUS
<1>2. Where(<<x>>, IsStep) = (IF IsStep(x) THEN <<x>> ELSE <<>>) /\ Where(<<>>, IsStep) = <<>>
  BY StepsOfOne
<1>3. Where(<<x>>, IsEvmEvent) = (IF IsEvmEvent(x) THEN <<x>> ELSE <<>>) /\ Where(<<>>, IsEvmEvent) = <<>>
  BY EvmEventsOfOne
<1>4. Where(<<x>>, IsWrite) = (IF IsWrite(x) THEN <<x>> ELSE <<>>) /\ Where(<<>>, IsWrite) = <<>>
  BY WritesOfOne
<1>5. ToldOf(<<x>>) = Tell(x) /\ ToldOf(<<>>) = <<>>
  BY ToldOfOne
<1>6. IsStep(x) => ~IsEvmEvent(x) /\ ~IsWrite(x)
  BY DEF IsStep, IsEvmEvent, IsWrite
<1>7. x.ev \in {"call", "return"} => ~IsStep(x) /\ ~IsEvmEvent(x) /\ ~IsWrite(x)
  BY DEF IsStep, IsEvmEvent, IsWrite
<1>8. IsStep(x) => Where(<<x>>, IsEvmEvent) = <<>> /\ Where(<<x>>, IsWrite) = <<>> /\ Tell(x) = <<>>
  BY <1>3, <1>4, <1>6, Zenon DEF Tell
<1>9. x.ev \in {"call", "return"} =>
        /\ Where(<<x>>, IsStep) = <<>> /\ Where(<<x>>, IsEvmEvent) = <<>> /\ Where(<<x>>, IsWrite) = <<>>
        /\ Tell(x) = <<[x EXCEPT !.line = 0]>>
  BY <1>2, <1>3, <1>4, <1>7, Zenon DEF Tell
<1> QED BY <1>1, <1>2, <1>3, <1>4, <1>5, <1>8, <1>9, Zenon DEF WhatIsIn

(* What is told of sequences of one kind of events.                        *)
LEMMA ToldOfEach ==
  ASSUME NEW s, NEW T, NEW w \in Seq(T), DOMAIN s = DOMAIN w, \A i \in DOMAIN w : Tell(s[i]) = <<w[i]>>
  PROVE  ToldOf(s) = w
<1>1. Each(T, Picks(T, T))[w] = w
  BY PicksAll
<1>2. \A i \in DOMAIN w : Picks(T, T)[w[i]] = Tell(s[i])
  <2>1. \A x \in T : Picks(T, T)[x] = <<x>>
    BY DEF Picks
  <2> QED BY <2>1
<1>3. [i \in DOMAIN s |-> Tell(s[i])] = [i \in DOMAIN w |-> Picks(T, T)[w[i]]]
  BY <1>2, Zenon
<1>4. Each(T, Picks(T, T))[w] = FlattenSeq([i \in DOMAIN w |-> Picks(T, T)[w[i]]])
  BY DEF Each
<1> QED BY <1>1, <1>3, <1>4, Zenon DEF ToldOf

LEMMA NothingTold ==
  ASSUME NEW T, NEW s \in Seq(T), \A x \in T : Tell(x) = <<>>
  PROVE  ToldOf(s) = <<>>
<1>1. Each(T, Picks(T, {}))[s] = <<>>
  BY PicksNone
<1>2. \A i \in DOMAIN s : Picks(T, {})[s[i]] = Tell(s[i])
  <2>1. \A x \in T : Picks(T, {})[x] = <<>>
    BY DEF Picks
  <2> QED BY <2>1
<1>3. [i \in DOMAIN s |-> Tell(s[i])] = [i \in DOMAIN s |-> Picks(T, {})[s[i]]]
  BY <1>2, Zenon
<1>4. Each(T, Picks(T, {}))[s] = FlattenSeq([i \in DOMAIN s |-> Picks(T, {})[s[i]]])
  BY DEF Each
<1> QED BY <1>1, <1>3, <1>4, Zenon DEF ToldOf

LEMMA OnlyEvmEvents ==
  ASSUME NEW S, NEW s \in Seq(S), \A x \in S : IsEvmEvent(x)
  PROVE  Where(s, IsStep) = <<>> /\ Where(s, IsEvmEvent) = s /\ Where(s, IsWrite) = <<>>
<1>1. \A x \in S : x \notin {y \in S : IsStep(y)}
  BY DEF IsStep, IsEvmEvent
<1>2. Each(S, Picks(S, {x \in S : IsStep(x)}))[s] = <<>>
  BY <1>1, PicksNone
<1>3. Where(s, IsStep) = <<>>
  BY <1>2, StepsPick
<1>4. \A x \in S : x \notin {y \in S : IsWrite(y)}
  BY DEF IsWrite, IsEvmEvent
<1>5. Each(S, Picks(S, {x \in S : IsWrite(x)}))[s] = <<>>
  BY <1>4, PicksNone
<1>6. Where(s, IsWrite) = <<>>
  BY <1>5, WritesPick
<1>7. \A x \in S : x \in {y \in S : IsEvmEvent(y)}
  OBVIOUS
<1>8. Each(S, Picks(S, {x \in S : IsEvmEvent(x)}))[s] = s
  BY <1>7, PicksAll
<1>9. Where(s, IsEvmEvent) = s
  BY <1>8, EvmEventsPick
<1> QED BY <1>3, <1>6, <1>9

LEMMA OnlyWrites ==
  ASSUME NEW S, NEW s \in Seq(S), \A x \in S : IsWrite(x)
  PROVE  WhatIsIn(s, <<>>, <<>>, 0, Len(s))
<1>1. \A x \in S : x \notin {y \in S : IsStep(y)}
  BY DEF IsStep, IsWrite
<1>2. Each(S, Picks(S, {x \in S : IsStep(x)}))[s] = <<>>
  BY <1>1, PicksNone
<1>3. Where(s, IsStep) = <<>>
  BY <1>2, StepsPick
<1>4. \A x \in S : x \notin {y \in S : IsEvmEvent(y)}
  BY DEF IsWrite, IsEvmEvent
<1>5. Each(S, Picks(S, {x \in S : IsEvmEvent(x)}))[s] = <<>>
  BY <1>4, PicksNone
<1>6. Where(s, IsEvmEvent) = <<>>
  BY <1>5, EvmEventsPick
<1>7. \A x \in S : x \in {y \in S : IsWrite(y)}
  OBVIOUS
<1>8. Each(S, Picks(S, {x \in S : IsWrite(x)}))[s] = s
  BY <1>7, PicksAll
<1>9. Where(s, IsWrite) = s
  BY <1>8, WritesPick
<1>10. ToldOf(s) = <<>>
  <2>1. \A x \in S : Tell(x) = <<>>
    BY DEF Tell
  <2> QED BY <2>1, NothingTold
<1>11. Len(<<>>) = 0
  OBVIOUS
<1> QED BY <1>3, <1>6, <1>9, <1>10, <1>11, Zenon DEF WhatIsIn

(* What entering an invocation, returning from it and writing a contract's *)
(* storage changes say.                                                    *)
EmittedAt(row, n) == [i \in DOMAIN events(n) |-> Emitting(row, n, events(n)[i])]

LEMMA EventsToldIs ==
  ASSUME IsTransaction(tx), NEW n \in Nodes
  PROVE  EventsTold(n) = EmittedAt(0, n)
<1>1. events(n) \in Seq(EventActs(n))
  BY CallsAndEvents
<1> DEFINE T == {Emitting(0, n, act) : act \in EventActs(n)}
<1>2. PICK e \in [EventActs(n) -> T] : \A act \in EventActs(n) : e[act] = Emitting(0, n, act)
  <2>1. [act \in EventActs(n) |-> Emitting(0, n, act)] \in [EventActs(n) -> T]
    OBVIOUS
  <2> HIDE DEF T
  <2> QED BY <2>1
<1> HIDE DEF T
<1>3. Emits(n) = Ones(EventActs(n), e)
  BY <1>2, Zenon DEF Emits, Ones
<1>4. Each(EventActs(n), Ones(EventActs(n), e))[events(n)] = EachOf(events(n), e)
  BY <1>1, EachOfOnes
<1>5. EachOf(events(n), e) = EmittedAt(0, n)
  <2>1. \A i \in DOMAIN events(n) : events(n)[i] \in EventActs(n)
    BY <1>1
  <2> QED BY <1>2, <2>1, Zenon DEF EachOf, EmittedAt
<1> QED BY <1>3, <1>4, <1>5, Zenon DEF EventsTold

LEMMA EventsSay ==
  ASSUME IsTransaction(tx), NEW n \in Nodes, NEW row
  PROVE  /\ EmittedAt(row, n) \in Seq({Emitting(row, n, act) : act \in EventActs(n)})
         /\ WhatIsIn(EmittedAt(row, n), <<>>, EventsTold(n), Len(events(n)), 0)
<1> DEFINE S == {Emitting(row, n, act) : act \in EventActs(n)}
           s == EmittedAt(row, n)
<1>1. events(n) \in Seq(EventActs(n))
  BY CallsAndEvents
<1>2. s \in Seq(S) /\ Len(s) = Len(events(n)) /\ DOMAIN s = DOMAIN events(n)
  <2>1. \A i \in DOMAIN events(n) : Emitting(row, n, events(n)[i]) \in S
    BY <1>1
  <2>2. DOMAIN events(n) = 1..Len(events(n)) /\ Len(events(n)) \in Nat
    BY <1>1
  <2> HIDE DEF S
  <2> QED BY <2>1, <2>2 DEF EmittedAt
<1>3. \A act : IsEvmEvent(Emitting(row, n, act)) /\ Tell(Emitting(row, n, act)) = <<Emitting(0, n, act)>>
  BY DEF Emitting, SpecialEv, IsEvmEvent, Tell, IsStep, IsWrite
<1>4. \A x \in S : IsEvmEvent(x)
  BY <1>3
<1>5. Where(s, IsStep) = <<>> /\ Where(s, IsEvmEvent) = s /\ Where(s, IsWrite) = <<>>
  <2> HIDE DEF S, s
  <2> QED BY <1>2, <1>4, OnlyEvmEvents
<1>6. EventsTold(n) \in Seq(TraceEvents) /\ EventsTold(n) = EmittedAt(0, n)
  BY TreeTyped, EventsToldIs
<1>7. DOMAIN s = DOMAIN EventsTold(n) /\ \A i \in DOMAIN EventsTold(n) : Tell(s[i]) = <<EventsTold(n)[i]>>
  BY <1>3, <1>6, Zenon DEF EmittedAt
<1>8. ToldOf(s) = EventsTold(n)
  <2> HIDE DEF s
  <2> QED BY <1>6, <1>7, ToldOfEach
<1>9. Len(<<>>) = 0
  OBVIOUS
<1> QED BY <1>2, <1>5, <1>8, <1>9, Zenon DEF WhatIsIn

LEMMA EnteredSays ==
  ASSUME IsTransaction(tx), NEW n \in Nodes
  PROVE  /\ WhatIsIn(Entered(n), <<StepEv(lines)>>, <<Calling(0, n)>> \o EventsTold(n), Len(events(n)), 0)
         /\ IsSequence(Entered(n))
<1> DEFINE first == StepEv(lines)
           second == Calling(lines, n)
           list == EmittedAt(lines, n)
           S == {first, second} \cup {Emitting(lines, n, act) : act \in EventActs(n)}
<1>1. list \in Seq(S)
  <2> DEFINE R == {Emitting(lines, n, act) : act \in EventActs(n)}
  <2>1. list \in Seq(R)
    BY EventsSay
  <2>2. R \in SUBSET S
    OBVIOUS
  <2> HIDE DEF R, S, list
  <2> QED BY <2>1, <2>2, SeqMonotonic
<1>2. first \in S /\ second \in S
  OBVIOUS
<1>3. WhatIsIn(list, <<>>, EventsTold(n), Len(events(n)), 0)
  BY EventsSay
<1>4. WhatIsIn(<<first>>, <<StepEv(lines)>>, <<>>, 0, 0)
  <2>1. IsStep(first)
    BY DEF IsStep, StepEv
  <2> HIDE DEF first
  <2>2. WhatIsIn(<<first>>, <<first>>, <<>>, 0, 0)
    BY <2>1, WhatIsInOne
  <2> QED BY <2>2 DEF first
<1>5. WhatIsIn(<<second>>, <<>>, <<Calling(0, n)>>, 0, 0)
  <2>0. \A k, name, args : CallEv(k, name, args).ev = "call" /\ [CallEv(k, name, args) EXCEPT !.line = 0] = CallEv(0, name, args)
    BY DEF CallEv
  <2>1. second.ev \in {"call", "return"} /\ [second EXCEPT !.line = 0] = Calling(0, n)
    BY <2>0 DEF Calling
  <2> HIDE DEF second
  <2>2. WhatIsIn(<<second>>, <<>>, <<[second EXCEPT !.line = 0]>>, 0, 0)
    BY <2>1, WhatIsInOne
  <2>3. [second EXCEPT !.line = 0] = Calling(0, n)
    BY <2>1
  <2> QED BY <2>2, <2>3, Zenon
<1>6. Entered(n) = (<<first>> \o <<second>>) \o list
  <2>1. <<first>> \o <<second>> = <<first, second>>
    BY TwoInOrder
  <2> QED BY <2>1, Zenon DEF Entered, EmittedAt
<1> HIDE DEF first, second, list, S
<1>7. <<first>> \in Seq(S) /\ <<second>> \in Seq(S)
  BY <1>2
<1>8. <<first>> \o <<second>> \in Seq(S)
  BY <1>7, ConcatProperties
<1>9. WhatIsIn(<<first>> \o <<second>>, <<StepEv(lines)>> \o <<>>, <<>> \o <<Calling(0, n)>>, 0 + 0, 0 + 0)
  BY <1>4, <1>5, <1>7, WhatIsInBoth
<1>10. <<StepEv(lines)>> \o <<>> = <<StepEv(lines)>> /\ <<>> \o <<Calling(0, n)>> = <<Calling(0, n)>>
  OBVIOUS
<1>11. 0 + 0 = 0
  OBVIOUS
<1>12. WhatIsIn(<<first>> \o <<second>>, <<StepEv(lines)>>, <<Calling(0, n)>>, 0, 0)
  BY <1>9, <1>10, <1>11, Zenon
<1>13. WhatIsIn((<<first>> \o <<second>>) \o list, <<StepEv(lines)>> \o <<>>, <<Calling(0, n)>> \o EventsTold(n),
                0 + Len(events(n)), 0 + 0)
  BY <1>1, <1>3, <1>8, <1>12, WhatIsInBoth
<1>14. events(n) \in Seq(EventActs(n))
  BY CallsAndEvents
<1>15. 0 + Len(events(n)) = Len(events(n))
  BY <1>14
<1>16. (<<first>> \o <<second>>) \o list \in Seq(S)
  BY <1>1, <1>8, ConcatProperties
<1>17. IsSequence((<<first>> \o <<second>>) \o list)
  BY <1>16, AnyIsSequence
<1> QED BY <1>6, <1>10, <1>11, <1>13, <1>15, <1>17, Zenon

LEMMA ReturnedSays ==
  ASSUME NEW n, NEW row
  PROVE  WhatIsIn(<<Returning(row, n)>>, <<>>, <<Returning(0, n)>>, 0, 0) /\ IsSequence(<<Returning(row, n)>>)
<1> DEFINE x == Returning(row, n)
<1>1. x.ev \in {"call", "return"} /\ [x EXCEPT !.line = 0] = Returning(0, n)
  BY DEF Returning, ReturnEv
<1> HIDE DEF x
<1>2. WhatIsIn(<<x>>, <<>>, <<[x EXCEPT !.line = 0]>>, 0, 0)
  BY <1>1, WhatIsInOne
<1>3. IsSequence(<<x>>)
  BY Tuples
<1> QED BY <1>1, <1>2, <1>3 DEF x

Changes(i) ==
  [j \in DOMAIN tx.diffs[i].keys |-> SpecialEv(lines - 1, "Write", <<tx.diffs[i].contract, tx.diffs[i].keys[j]>>)]

LEMMA ChangesSay ==
  ASSUME IsTransaction(tx), NEW i \in DOMAIN tx.diffs
  PROVE  /\ WhatIsIn(Changes(i), <<>>, <<>>, 0, Len(tx.diffs[i].keys)) /\ IsSequence(Changes(i))
         /\ Len(tx.diffs[i].keys) \in Nat
<1> DEFINE keys == tx.diffs[i].keys
           S == {SpecialEv(lines - 1, "Write", <<tx.diffs[i].contract, key>>) : key \in ToSet(keys)}
<1>1. keys \in Seq(ToSet(keys))
  <2>1. tx.diffs[i] \in ToSet(tx.diffs)
    BY DEF ToSet
  <2> QED BY <2>1 DEF IsTransaction
<1>2. \A j \in DOMAIN keys : SpecialEv(lines - 1, "Write", <<tx.diffs[i].contract, keys[j]>>) \in S
  BY DEF ToSet
<1>3. \A key : IsWrite(SpecialEv(lines - 1, "Write", key))
  BY DEF SpecialEv, IsWrite
<1>4. \A x \in S : IsWrite(x)
  BY <1>3
<1>5. Changes(i) \in Seq(S) /\ Len(Changes(i)) = Len(keys) /\ Len(keys) \in Nat
  <2>1. DOMAIN keys = 1..Len(keys) /\ Len(keys) \in Nat
    BY <1>1
  <2> HIDE DEF S
  <2> QED BY <1>2, <2>1 DEF Changes
<1> HIDE DEF S
<1>6. WhatIsIn(Changes(i), <<>>, <<>>, 0, Len(Changes(i)))
  BY <1>4, <1>5, OnlyWrites
<1>7. IsSequence(Changes(i))
  BY <1>5, AnyIsSequence
<1> QED BY <1>5, <1>6, <1>7

-----------------------------------------------------------------------------
(***************************************************************************)
(* An event is told while its invocation is open.                          *)
(***************************************************************************)
OpenAt(s, i) ==
  \E opened \in 1..i : /\ s[opened].ev = "call" /\ s[opened].name = Name(s[i].of[1])
                       /\ \A j \in (opened + 1)..i : IsSpecial(s[j])
OpenTold(s) == \A i \in DOMAIN s : IsSpecial(s[i]) => OpenAt(s, i)

LEMMA OpenedBoth ==
  ASSUME NEW T, NEW u \in Seq(T), NEW w \in Seq(T), OpenTold(u), OpenTold(w)
  PROVE  OpenTold(u \o w)
<1> DEFINE m == Len(u)
           k == Len(w)
           s == u \o w
<1>1. /\ m \in Nat /\ k \in Nat /\ DOMAIN u = 1..m /\ DOMAIN w = 1..k /\ DOMAIN s = 1..(m + k)
      /\ \A i \in 1..m : s[i] = u[i]
      /\ \A i \in 1..k : s[m + i] = w[i]
  BY ConcatProperties
<1> HIDE DEF m, k, s
<1>2. ASSUME NEW i \in 1..m, IsSpecial(s[i]) PROVE OpenAt(s, i)
  <2>1. IsSpecial(u[i]) /\ s[i] = u[i]
    BY <1>1, <1>2
  <2>2. PICK opened \in 1..i : /\ u[opened].ev = "call" /\ u[opened].name = Name(u[i].of[1])
                               /\ \A j \in (opened + 1)..i : IsSpecial(u[j])
    BY <1>1, <2>1 DEF OpenTold, OpenAt
  <2>3. s[opened] = u[opened] /\ \A j \in (opened + 1)..i : s[j] = u[j]
    BY <1>1
  <2> QED BY <2>1, <2>2, <2>3 DEF OpenAt
<1>3. ASSUME NEW i \in 1..k, IsSpecial(s[m + i]) PROVE OpenAt(s, m + i)
  <2>1. IsSpecial(w[i]) /\ s[m + i] = w[i]
    BY <1>1, <1>3
  <2>2. PICK opened \in 1..i : /\ w[opened].ev = "call" /\ w[opened].name = Name(w[i].of[1])
                               /\ \A j \in (opened + 1)..i : IsSpecial(w[j])
    BY <1>1, <2>1 DEF OpenTold, OpenAt
  <2>3. m + opened \in 1..(m + i) /\ s[m + opened] = w[opened]
    BY <1>1
  <2>4. ASSUME NEW j \in (m + opened + 1)..(m + i) PROVE IsSpecial(s[j])
    <3>1. j - m \in (opened + 1)..i /\ j - m \in 1..k /\ m + (j - m) = j
      BY <1>1
    <3>2. s[m + (j - m)] = w[j - m] /\ IsSpecial(w[j - m])
      BY <1>1, <2>2, <3>1, Zenon
    <3> QED BY <3>1, <3>2
  <2>5. \A j \in ((m + opened) + 1)..(m + i) : IsSpecial(s[j])
    BY <1>1, <2>4
  <2> QED BY <2>1, <2>2, <2>3, <2>5, Zenon DEF OpenAt
<1>4. ASSUME NEW i \in DOMAIN s, IsSpecial(s[i]) PROVE OpenAt(s, i)
  <2>1. CASE i \in 1..m
    BY <1>2, <1>4, <2>1
  <2>2. CASE i \notin 1..m
    <3>1. i - m \in 1..k /\ m + (i - m) = i
      BY <1>1, <2>2
    <3>2. IsSpecial(s[m + (i - m)])
      BY <1>4, <3>1
    <3>3. OpenAt(s, m + (i - m))
      BY <1>3, <3>1, <3>2
    <3> QED BY <3>1, <3>3
  <2> QED BY <2>1, <2>2
<1>5. OpenTold(s)
  BY <1>4 DEF OpenTold
<1> QED BY <1>5 DEF s

LEMMA OpenedByCall ==
  ASSUME NEW T, NEW x \in T, NEW w \in Seq(T), NEW n, x.ev = "call", x.name = Name(n),
         \A i \in DOMAIN w : IsSpecial(w[i]) /\ w[i].of[1] = n
  PROVE  OpenTold(<<x>> \o w)
<1> DEFINE k == Len(w)
           s == <<x>> \o w
<1>1. /\ k \in Nat /\ DOMAIN w = 1..k /\ DOMAIN s = 1..(1 + k)
      /\ s[1] = x
      /\ \A i \in 1..k : s[1 + i] = w[i]
  <2>1. <<x>> \in Seq(T) /\ Len(<<x>>) = 1 /\ <<x>>[1] = x
    OBVIOUS
  <2> QED BY <2>1, ConcatProperties
<1> HIDE DEF k, s
<1>2. \A j \in 2..(1 + k) : IsSpecial(s[j]) /\ s[j].of[1] = n
  <2>1. ASSUME NEW j \in 2..(1 + k) PROVE IsSpecial(s[j]) /\ s[j].of[1] = n
    <3>1. j - 1 \in 1..k /\ 1 + (j - 1) = j
      BY <1>1
    <3>2. s[1 + (j - 1)] = w[j - 1] /\ j - 1 \in DOMAIN w
      BY <1>1, <3>1, Zenon
    <3> QED BY <3>1, <3>2
  <2> QED BY <2>1
<1>3. ~IsSpecial(x)
  BY DEF IsSpecial
<1>4. ASSUME NEW i \in DOMAIN s, IsSpecial(s[i]) PROVE OpenAt(s, i)
  <2>1. i \in 2..(1 + k)
    BY <1>1, <1>3, <1>4
  <2>2. 1 \in 1..i /\ \A j \in (1 + 1)..i : j \in 2..(1 + k)
    BY <1>1, <2>1
  <2>3. s[1].ev = "call" /\ s[1].name = Name(s[i].of[1])
    BY <1>1, <1>2, <2>1
  <2> QED BY <1>2, <2>2, <2>3, Zenon DEF OpenAt
<1>5. OpenTold(s)
  BY <1>4 DEF OpenTold
<1> QED BY <1>5 DEF s

LEMMA InvocationOpens ==
  ASSUME IsTransaction(tx), NEW n \in Nodes
  PROVE  /\ OpenTold(<<Calling(0, n)>> \o EventsTold(n)) /\ OpenTold(<<Returning(0, n)>>) /\ OpenTold(<<>>)
         /\ <<Calling(0, n)>> \o EventsTold(n) \in Seq(TraceEvents) /\ <<Returning(0, n)>> \in Seq(TraceEvents)
<1>1. <<Calling(0, n)>> \in Seq(TraceEvents) /\ <<Returning(0, n)>> \in Seq(TraceEvents)
  BY TraceEventsOf
<1>2. EventsTold(n) \in Seq(TraceEvents)
  BY TreeTyped
<1>3. Calling(0, n) \in TraceEvents
  BY <1>1
<1>4. \A i \in DOMAIN EventsTold(n) : IsSpecial(EventsTold(n)[i]) /\ EventsTold(n)[i].of[1] = n
  <2>1. EventsTold(n) = EmittedAt(0, n)
    BY EventsToldIs
  <2>2. \A i \in DOMAIN EmittedAt(0, n) : EmittedAt(0, n)[i] = Emitting(0, n, events(n)[i])
    BY Zenon DEF EmittedAt
  <2>3. \A act : IsSpecial(Emitting(0, n, act)) /\ Emitting(0, n, act).of[1] = n
    BY EventsAreOf
  <2>4. ASSUME NEW i \in DOMAIN EmittedAt(0, n)
        PROVE  IsSpecial(EmittedAt(0, n)[i]) /\ EmittedAt(0, n)[i].of[1] = n
    <3>1. EmittedAt(0, n)[i] = Emitting(0, n, events(n)[i])
      BY <2>2
    <3> QED BY <2>3, <3>1
  <2> QED BY <2>1, <2>4
<1>5. Calling(0, n).ev = "call" /\ Calling(0, n).name = Name(n)
  <2>1. \A k, name, args : CallEv(k, name, args).ev = "call" /\ CallEv(k, name, args).name = name
    BY DEF CallEv
  <2> QED BY <2>1, Zenon DEF Calling
<1>6. OpenTold(<<Calling(0, n)>> \o EventsTold(n))
  BY <1>2, <1>3, <1>4, <1>5, OpenedByCall
<1>7. ~IsSpecial(Returning(0, n))
  BY EventsAreOf
<1>8. DOMAIN <<Returning(0, n)>> = {1} /\ <<Returning(0, n)>>[1] = Returning(0, n) /\ DOMAIN <<>> = {}
  OBVIOUS
<1>9. OpenTold(<<Returning(0, n)>>) /\ OpenTold(<<>>)
  BY <1>7, <1>8, Zenon DEF OpenTold
<1>10. <<Calling(0, n)>> \o EventsTold(n) \in Seq(TraceEvents)
  BY <1>1, <1>2, ConcatProperties
<1> QED BY <1>1, <1>6, <1>9, <1>10

-----------------------------------------------------------------------------
(***************************************************************************)
(* What is still to be told of an open invocation, from its k-th call on.  *)
(***************************************************************************)
RestAfter(n, k) ==
  Each(CallActs(n), Below(Written, n))[SubSeq(calls(n), k, Len(calls(n)))] \o <<Returning(0, n)>>

LEMMA ThreeInOrder ==
  ASSUME NEW S, NEW a \in Seq(S), NEW b \in Seq(S), NEW r \in Seq(S)
  PROVE  (a \o b) \o r = a \o (b \o r)
OBVIOUS

LEMMA RestUnfolds ==
  ASSUME IsTransaction(tx), NEW n \in Nodes
  PROVE  /\ Len(calls(n)) \in Nat
         /\ \A k \in Nat \ {0} : RestAfter(n, k) \in Seq(TraceEvents)
         /\ \A k \in 1..Len(calls(n)) :
              /\ calls(n)[k].of \in Nodes
              /\ RestAfter(n, k) = Written[calls(n)[k].of] \o RestAfter(n, k + 1)
         /\ \A k \in Nat : k > Len(calls(n)) => RestAfter(n, k) = <<Returning(0, n)>>
         /\ Written[n] = (<<Calling(0, n)>> \o EventsTold(n)) \o RestAfter(n, 1)
<1> DEFINE f == Each(CallActs(n), Below(Written, n))
           c == calls(n)
           E == TraceEvents
           end == <<Returning(0, n)>>
<1>1. BelowTyped(Written, n)
  BY TreeTyped
<1>2. Adds(f, CallActs(n), E) /\ \A act \in CallActs(n) : f[<<act>>] = Written[act.of]
  BY <1>1, NextTyped
<1>3. c \in Seq(CallActs(n)) /\ \A act \in CallActs(n) : act.of \in Nodes
  BY CallsAndEvents, TraceIsATree
<1>4. end \in Seq(E)
  BY TraceEventsOf
<1>5. \A m \in Nodes : Written[m] \in Seq(E)
  BY TreeTyped
<1>6. \A k : RestAfter(n, k) = f[SubSeq(c, k, Len(c))] \o end
  BY Zenon DEF RestAfter
<1>7. Written[n] = (<<Calling(0, n)>> \o EventsTold(n)) \o (f[c] \o end)
  BY TreeTyped DEF BelowTold
<1> HIDE DEF f, c, E, end
<1>8. Len(c) \in Nat /\ \A i \in 1..Len(c) : c[i] \in CallActs(n)
  BY <1>3
<1>9. /\ f[<<>>] = <<>>
      /\ \A s \in Seq(CallActs(n)) : f[s] \in Seq(E)
      /\ \A s, t \in Seq(CallActs(n)) : f[s \o t] = f[s] \o f[t]
  BY <1>2 DEF Adds
<1>10. ASSUME NEW k \in Nat \ {0} PROVE SubSeq(c, k, Len(c)) \in Seq(CallActs(n))
  <2>1. \A i \in k..Len(c) : c[i] \in CallActs(n)
    BY <1>8
  <2> QED BY <1>8, <2>1, SubSeqProperties
<1>11. \A u, v \in Seq(E) : u \o v \in Seq(E)
  BY ConcatProperties
<1>12. ASSUME NEW k \in Nat \ {0} PROVE RestAfter(n, k) \in Seq(E)
  <2>1. SubSeq(c, k, Len(c)) \in Seq(CallActs(n))
    BY <1>10
  <2>2. f[SubSeq(c, k, Len(c))] \in Seq(E)
    BY <1>9, <2>1
  <2> QED BY <1>4, <1>6, <1>11, <2>2
<1>13. ASSUME NEW k \in 1..Len(c) PROVE c[k].of \in Nodes /\ RestAfter(n, k) = Written[c[k].of] \o RestAfter(n, k + 1)
  <2>1. k \in Nat \ {0} /\ k + 1 \in Nat \ {0} /\ Len(c) \in k..Len(c)
    BY <1>8
  <2>2. SubSeq(c, k, Len(c)) = <<c[k]>> \o SubSeq(c, k + 1, Len(c))
    BY <1>3, <2>1, SubSeqRecursiveFirst
  <2>3. c[k] \in CallActs(n) /\ c[k].of \in Nodes
    BY <1>3, <1>8
  <2>4. <<c[k]>> \in Seq(CallActs(n))
    BY <2>3
  <2>5. SubSeq(c, k + 1, Len(c)) \in Seq(CallActs(n))
    BY <1>10, <2>1
  <2>6. f[SubSeq(c, k, Len(c))] = Written[c[k].of] \o f[SubSeq(c, k + 1, Len(c))]
    BY <1>2, <1>9, <2>2, <2>3, <2>4, <2>5, Zenon
  <2>7. f[SubSeq(c, k + 1, Len(c))] \in Seq(E) /\ Written[c[k].of] \in Seq(E)
    BY <1>5, <1>9, <2>3, <2>5, Zenon
  <2>8. (Written[c[k].of] \o f[SubSeq(c, k + 1, Len(c))]) \o end = Written[c[k].of] \o (f[SubSeq(c, k + 1, Len(c))] \o end)
    <3>1. \A u, v, r \in Seq(E) : (u \o v) \o r = u \o (v \o r)
      BY ThreeInOrder
    <3> QED BY <1>4, <2>7, <3>1, Zenon
  <2> QED BY <1>6, <2>3, <2>6, <2>8, Zenon
<1>14. ASSUME NEW k \in Nat, k > Len(c) PROVE RestAfter(n, k) = end
  <2>1. SubSeq(c, k, Len(c)) = <<>>
    BY <1>8, <1>14, SubSeqEmpty
  <2>2. <<>> \o end = end
    BY <1>4
  <2> QED BY <1>6, <1>9, <2>1, <2>2, Zenon
<1>15. Written[n] = (<<Calling(0, n)>> \o EventsTold(n)) \o RestAfter(n, 1)
  <2>1. SubSeq(c, 1, Len(c)) = c
    BY <1>3, SubSeqFull
  <2> QED BY <1>6, <1>7, <2>1, Zenon
<1>16. \A k \in Nat : k > Len(c) => RestAfter(n, k) = <<Returning(0, n)>>
  BY <1>14 DEF end
<1> QED BY <1>8, <1>12, <1>13, <1>15, <1>16 DEF c, E

-----------------------------------------------------------------------------
(***************************************************************************)
(* How far the tree is told, by the events written, the next line, the     *)
(* invocations that are open and the contracts whose changes are written.  *)
(***************************************************************************)
StillToTell(rest, open) ==
  /\ rest \in [0..Len(open) -> Seq(TraceEvents)] /\ rest[0] = <<>>
  /\ \A k \in 1..Len(open) : rest[k] = RestAfter(open[k].node, open[k].next) \o rest[k - 1]

TellsTree(told, ln, open) ==
  IF ln = 1 THEN told = <<>> /\ open = <<>>
  ELSE \E rest : StillToTell(rest, open) /\ told \o rest[Len(open)] = Written[1]

StepsTo(n) == [i \in 1..n |-> StepEv(i)]
WritesTo(n) == Total([i \in 1..n |-> Len(tx.diffs[i].keys)])

Tallied(o, told, ln, df) ==
  /\ Where(o, IsStep) = StepsTo(ln - 1)
  /\ CallsIn(told) = ln - 1
  /\ Len(Where(o, IsEvmEvent)) = EventsIn(told)
  /\ Len(Where(o, IsWrite)) = WritesTo(df)

TreeAt(o, ln, open, df) ==
  /\ IsSequence(o) /\ ln \in Nat \ {0} /\ df \in 0..Len(tx.diffs)
  /\ open \in Seq([node : Nodes, next : Nat \ {0}])
  /\ ToldOf(o) \in Seq(TraceEvents) /\ OpenTold(ToldOf(o))
  /\ Tallied(o, ToldOf(o), ln, df)
  /\ TellsTree(ToldOf(o), ln, open)

LEMMA SameTree ==
  ASSUME tx' = tx
  PROVE  /\ Nodes' = Nodes /\ TraceEvents' = TraceEvents /\ Written' = Written
         /\ \A n, k : RestAfter(n, k)' = RestAfter(n, k)
<1>1. \A n : /\ calls(n)' = calls(n) /\ events(n)' = events(n) /\ Acts(n)' = Acts(n) /\ Acted(n)' = Acted(n)
             /\ CallActs(n)' = CallActs(n) /\ EventActs(n)' = EventActs(n)
  BY DEF calls, events, Acts, Acted, CallActs, EventActs
<1>2. Nodes' = Nodes /\ TraceEvents' = TraceEvents
  BY DEF Nodes, TraceEvents, Calling, Returning, Emitting, CallEv, ReturnEv, SpecialEv, Name, Acted, Acts
<1>3. Written' = Written
  BY DEF Written, Writes, WrittenNext, Below, Emits, EventActs, CallActs, Each, Nodes, TraceEvents, Calling,
         Returning, Emitting, CallEv, ReturnEv, SpecialEv, Name, Acted, Acts, calls, events, IsCall, IsEvent
<1>4. ASSUME NEW n, NEW k PROVE RestAfter(n, k)' = RestAfter(n, k)
  <2>1. Returning(0, n)' = Returning(0, n)
    BY DEF Returning
  <2>2. Below(Written, n)' = Below(Written, n)
    BY <1>1, <1>3 DEF Below
  <2>3. Each(CallActs(n), Below(Written, n))' = Each(CallActs(n), Below(Written, n))
    BY <1>1, <2>2 DEF Each
  <2> QED BY <1>1, <2>1, <2>3 DEF RestAfter
<1> QED BY <1>2, <1>3, <1>4

LEMMA TreeKept ==
  ASSUME tx' = tx, NEW o, NEW ln, NEW open, NEW df
  PROVE  TreeAt(o, ln, open, df)' <=> TreeAt(o, ln, open, df)
<1>1. /\ Nodes' = Nodes /\ TraceEvents' = TraceEvents /\ Written' = Written
      /\ \A n, k : RestAfter(n, k)' = RestAfter(n, k)
  BY SameTree
<1>2. \A r : StillToTell(r, open)' <=> StillToTell(r, open)
  BY <1>1 DEF StillToTell
<1>3. \A told : TellsTree(told, ln, open)' <=> TellsTree(told, ln, open)
  BY <1>1, <1>2 DEF TellsTree
<1>4. \A s : CallsIn(s)' = CallsIn(s) /\ EventsIn(s)' = EventsIn(s)
  BY <1>1 DEF CallsIn, EventsIn, CallWeight, EventWeight
<1>5. \A told : Tallied(o, told, ln, df)' <=> Tallied(o, told, ln, df)
  BY <1>4 DEF Tallied, StepsTo, WritesTo
<1>6. \A s : OpenTold(s)' <=> OpenTold(s)
  BY DEF OpenTold, OpenAt, Name
<1> QED BY <1>1, <1>3, <1>5, <1>6 DEF TreeAt

LEMMA StepsToNext ==
  ASSUME NEW n \in Nat
  PROVE  StepsTo(n) \o <<StepEv(n + 1)>> = StepsTo(n + 1) /\ StepsTo(0) = <<>> /\ StepsTo(n) \o <<>> = StepsTo(n)
<1>1. PICK e : \A i \in Nat : e[i] = StepEv(i)
  <2>1. \A i \in Nat : [k \in Nat |-> StepEv(k)][i] = StepEv(i)
    OBVIOUS
  <2> QED BY <2>1
<1>2. [i \in 1..n |-> e[i]] \o <<e[n + 1]>> = [i \in 1..(n + 1) |-> e[i]]
  BY OneMore
<1>3. \A m \in Nat : [i \in 1..m |-> e[i]] = StepsTo(m)
  <2>1. ASSUME NEW m \in Nat PROVE [i \in 1..m |-> e[i]] = StepsTo(m)
    <3>1. \A i \in 1..m : e[i] = StepEv(i)
      BY <1>1
    <3> QED BY <3>1, Zenon DEF StepsTo
  <2> QED BY <2>1
<1>4. n + 1 \in Nat /\ e[n + 1] = StepEv(n + 1)
  BY <1>1
<1>5. StepsTo(n) \o <<StepEv(n + 1)>> = StepsTo(n + 1)
  BY <1>2, <1>3, <1>4, Zenon
<1>6. StepsTo(0) = <<>>
  BY DEF StepsTo
<1>7. StepsTo(n) \in Seq({StepEv(i) : i \in 1..n})
  BY DEF StepsTo
<1>8. \A S : \A s \in Seq(S) : s \o <<>> = s
  BY ConcatEmptySeq
<1> QED BY <1>5, <1>6, <1>7, <1>8, Zenon

LEMMA WritesToNext ==
  ASSUME IsTransaction(tx), NEW n \in Nat, n < Len(tx.diffs)
  PROVE  /\ WritesTo(n) \in Nat /\ WritesTo(n) + Len(tx.diffs[n + 1].keys) = WritesTo(n + 1)
<1>1. \A i \in DOMAIN tx.diffs : Len(tx.diffs[i].keys) \in Nat
  BY ChangesSay
<1>2. Len(tx.diffs) \in Nat /\ DOMAIN tx.diffs = 1..Len(tx.diffs)
  BY DEF IsTransaction
<1> DEFINE s == [i \in 1..n |-> Len(tx.diffs[i].keys)]
           x == Len(tx.diffs[n + 1].keys)
           r == [i \in 1..(n + 1) |-> Len(tx.diffs[i].keys)]
<1>3. s \in Seq(Nat) /\ x \in Nat
  <2>1. n + 1 \in DOMAIN tx.diffs /\ \A i \in 1..n : i \in DOMAIN tx.diffs
    BY <1>2
  <2>2. x \in Nat
    BY <1>1, <2>1
  <2>3. s \in Seq(Nat)
    BY <1>1, <2>1
  <2> QED BY <2>2, <2>3
<1>4. Append(s, x) = r
  BY <1>3
<1> HIDE DEF s, x, r
<1>5. Total(s) \in Nat /\ Total(Append(s, x)) = Total(s) + x
  BY <1>3, TotalAppend
<1> QED BY <1>4, <1>5, Zenon DEF WritesTo, s, x, r

LEMMA WritesToIsNat ==
  ASSUME IsTransaction(tx), NEW n \in 0..Len(tx.diffs)
  PROVE  WritesTo(n) \in Nat /\ WritesTo(0) = 0 /\ WritesTo(Len(tx.diffs)) = count_storage_entries
<1>1. \A i \in DOMAIN tx.diffs : Len(tx.diffs[i].keys) \in Nat
  BY ChangesSay
<1>2. Len(tx.diffs) \in Nat /\ DOMAIN tx.diffs = 1..Len(tx.diffs)
  BY DEF IsTransaction
<1> DEFINE s == [i \in 1..n |-> Len(tx.diffs[i].keys)]
<1>3. s \in Seq(Nat)
  BY <1>1, <1>2
<1>4. [i \in 1..0 |-> Len(tx.diffs[i].keys)] = <<>>
  OBVIOUS
<1> HIDE DEF s
<1>5. Total(s) \in Nat /\ Total(<<>>) = 0
  <2>1. 0 \in Nat
    OBVIOUS
  <2> QED BY <1>3, <2>1, TotalAppend
<1>6. WritesTo(n) \in Nat
  BY <1>5 DEF WritesTo, s
<1>7. WritesTo(0) = 0
  BY <1>4, <1>5, Zenon DEF WritesTo
<1>8. WritesTo(Len(tx.diffs)) = count_storage_entries
  BY <1>2, Zenon DEF WritesTo, count_storage_entries
<1> QED BY <1>6, <1>7, <1>8

(* A block of events that takes the telling from one line and one contract *)
(* to others, and where it takes it.                                       *)
Takes(w, steps, told, emitted, writes, ln, ln2, df, df2) ==
  /\ IsSequence(w) /\ told \in Seq(TraceEvents) /\ emitted \in Nat /\ writes \in Nat
  /\ WhatIsIn(w, steps, told, emitted, writes) /\ OpenTold(told)
  /\ ln2 \in Nat \ {0} /\ df2 \in Nat
  /\ StepsTo(ln - 1) \o steps = StepsTo(ln2 - 1) /\ CallsIn(told) = ln2 - ln /\ EventsIn(told) = emitted
  /\ WritesTo(df) + writes = WritesTo(df2)

Grown(o, w, told, ln2, df2) ==
  /\ IsSequence(o \o w) /\ ToldOf(o \o w) = ToldOf(o) \o told
  /\ ToldOf(o \o w) \in Seq(TraceEvents) /\ OpenTold(ToldOf(o \o w))
  /\ Tallied(o \o w, ToldOf(o \o w), ln2, df2)

LEMMA TreeGrows ==
  ASSUME IsTransaction(tx), NEW o, NEW ln, NEW open, NEW df, TreeAt(o, ln, open, df),
         NEW w, NEW steps, NEW told, NEW emitted, NEW writes, NEW ln2, NEW df2,
         Takes(w, steps, told, emitted, writes, ln, ln2, df, df2)
  PROVE  Grown(o, w, told, ln2, df2)
<1>0. /\ IsSequence(w) /\ told \in Seq(TraceEvents) /\ emitted \in Nat /\ writes \in Nat
      /\ WhatIsIn(w, steps, told, emitted, writes) /\ OpenTold(told)
      /\ ln2 \in Nat \ {0} /\ df2 \in Nat
      /\ StepsTo(ln - 1) \o steps = StepsTo(ln2 - 1) /\ CallsIn(told) = ln2 - ln /\ EventsIn(told) = emitted
      /\ WritesTo(df) + writes = WritesTo(df2)
  BY Zenon DEF Takes
<1>1. /\ IsSequence(o) /\ ln \in Nat \ {0} /\ df \in 0..Len(tx.diffs)
      /\ ToldOf(o) \in Seq(TraceEvents) /\ OpenTold(ToldOf(o)) /\ Tallied(o, ToldOf(o), ln, df)
  BY DEF TreeAt
<1>2. PICK S : o \in Seq(S) /\ w \in Seq(S)
  BY <1>0, <1>1, ThreeSequences
<1>3. WhatIsIn(o, StepsTo(ln - 1), ToldOf(o), EventsIn(ToldOf(o)), WritesTo(df))
  BY <1>1, Zenon DEF WhatIsIn, Tallied
<1>4. WhatIsIn(o \o w, StepsTo(ln - 1) \o steps, ToldOf(o) \o told, EventsIn(ToldOf(o)) + emitted, WritesTo(df) + writes)
  BY <1>0, <1>2, <1>3, WhatIsInBoth
<1>5. WhatIsIn(o \o w, StepsTo(ln2 - 1), ToldOf(o) \o told, EventsIn(ToldOf(o)) + emitted, WritesTo(df2))
  BY <1>0, <1>4, Zenon
<1>6. ToldOf(o \o w) = ToldOf(o) \o told
  BY <1>5, Zenon DEF WhatIsIn
<1>7. /\ Where(o \o w, IsStep) = StepsTo(ln2 - 1)
      /\ Len(Where(o \o w, IsEvmEvent)) = EventsIn(ToldOf(o)) + emitted
      /\ Len(Where(o \o w, IsWrite)) = WritesTo(df2)
  BY <1>5, Zenon DEF WhatIsIn
<1>8. ToldOf(o) \o told \in Seq(TraceEvents)
  BY <1>0, <1>1, ConcatProperties
<1>9. OpenTold(ToldOf(o) \o told)
  BY <1>0, <1>1, OpenedBoth
<1>10. /\ CallsIn(ToldOf(o) \o told) = CallsIn(ToldOf(o)) + CallsIn(told)
       /\ EventsIn(ToldOf(o) \o told) = EventsIn(ToldOf(o)) + EventsIn(told)
  BY <1>0, <1>1, WeightsCount, Zenon DEF CallsIn, EventsIn, Counts
<1>11. CallsIn(ToldOf(o)) = ln - 1
  BY <1>1, Zenon DEF Tallied
<1>12. CallsIn(ToldOf(o) \o told) = ln2 - 1
  BY <1>0, <1>1, <1>10, <1>11
<1>13. EventsIn(ToldOf(o) \o told) = EventsIn(ToldOf(o)) + emitted
  BY <1>0, <1>10, Zenon
<1>14. Tallied(o \o w, ToldOf(o) \o told, ln2, df2)
  BY <1>7, <1>12, <1>13, Zenon DEF Tallied
<1>15. IsSequence(o \o w)
  BY <1>0, <1>1, Concatenation
<1> QED BY <1>6, <1>8, <1>9, <1>14, <1>15, Zenon DEF Grown

(* The stack with its top gone past one more call.                         *)
Moved(open) == [i \in DOMAIN open |-> IF i = Len(open) THEN [open[i] EXCEPT !.next = @ + 1] ELSE open[i]]

LEMMA TreeEnters ==
  ASSUME IsTransaction(tx), TreeAt(out, lines, stack, diffed), NEW n \in Nodes,
         \/ stack = <<>> /\ lines = 1 /\ n = 1
         \/ stack # <<>> /\ lines # 1 /\ CallsLeft /\ n = calls(Top.node)[Top.next].of
  PROVE  TreeAt(out \o Entered(n), lines + 1, Append(Moved(stack), [node |-> n, next |-> 1]), diffed)
<1> DEFINE Frames == [node : Nodes, next : Nat \ {0}]
           open == Append(Moved(stack), [node |-> n, next |-> 1])
           told == <<Calling(0, n)>> \o EventsTold(n)
           E == TraceEvents
<1>1. /\ IsSequence(out) /\ lines \in Nat \ {0} /\ diffed \in 0..Len(tx.diffs)
      /\ stack \in Seq(Frames) /\ ToldOf(out) \in Seq(E) /\ TellsTree(ToldOf(out), lines, stack)
  BY DEF TreeAt
<1>2. told \in Seq(E) /\ OpenTold(told)
  BY InvocationOpens
<1>3. /\ Len(events(n)) \in Nat /\ CallsIn(told) = 1 /\ EventsIn(told) = Len(events(n))
  <2>1. CallsIn(EventsTold(n)) = 0 /\ EventsIn(EventsTold(n)) = Len(events(n)) /\ Len(events(n)) \in Nat
    BY EventsWeigh
  <2>2. CallsIn(<<Calling(0, n)>>) = 1 /\ EventsIn(<<Calling(0, n)>>) = 0
    BY WeightsCount
  <2>3. <<Calling(0, n)>> \in Seq(E) /\ EventsTold(n) \in Seq(E)
    BY TraceEventsOf, TreeTyped
  <2>4. /\ CallsIn(told) = CallsIn(<<Calling(0, n)>>) + CallsIn(EventsTold(n))
        /\ EventsIn(told) = EventsIn(<<Calling(0, n)>>) + EventsIn(EventsTold(n))
    BY <2>3, WeightsCount, Zenon DEF CallsIn, EventsIn, Counts
  <2> QED BY <2>1, <2>2, <2>4
<1>4. WhatIsIn(Entered(n), <<StepEv(lines)>>, told, Len(events(n)), 0) /\ IsSequence(Entered(n))
  BY EnteredSays
<1>5. StepsTo(lines - 1) \o <<StepEv(lines)>> = StepsTo((lines + 1) - 1)
  <2>0. lines \in Nat \ {0}
    BY <1>1
  <2>1. lines - 1 \in Nat /\ (lines - 1) + 1 = lines /\ (lines + 1) - 1 = lines
    BY <2>0
  <2>2. StepsTo(lines - 1) \o <<StepEv((lines - 1) + 1)>> = StepsTo((lines - 1) + 1)
    BY <2>1, StepsToNext
  <2> QED BY <2>1, <2>2
<1>6. WritesTo(diffed) + 0 = WritesTo(diffed) /\ diffed \in Nat
  <2>1. WritesTo(diffed) \in Nat
    BY <1>1, WritesToIsNat
  <2> QED BY <1>1, <2>1
<1>7. (lines + 1) - lines = 1 /\ lines + 1 \in Nat \ {0} /\ lines + 1 # 1 /\ 0 \in Nat
  BY <1>1
<1>8. /\ IsSequence(out \o Entered(n)) /\ ToldOf(out \o Entered(n)) = ToldOf(out) \o told
      /\ ToldOf(out \o Entered(n)) \in Seq(E) /\ OpenTold(ToldOf(out \o Entered(n)))
      /\ Tallied(out \o Entered(n), ToldOf(out \o Entered(n)), lines + 1, diffed)
  <2>1. CallsIn(told) = (lines + 1) - lines
    BY <1>3, <1>7
  <2>2. told \in Seq(TraceEvents) /\ EventsIn(told) = Len(events(n)) /\ OpenTold(told)
    BY <1>2, <1>3
  <2> HIDE DEF told, E
  <2>3. lines + 1 \in Nat \ {0} /\ diffed \in Nat /\ Len(events(n)) \in Nat /\ 0 \in Nat
    BY <1>3, <1>6, <1>7
  <2>4. WritesTo(diffed) + 0 = WritesTo(diffed)
    BY <1>6
  <2>5. Takes(Entered(n), <<StepEv(lines)>>, told, Len(events(n)), 0, lines, lines + 1, diffed, diffed)
    BY <1>4, <1>5, <2>1, <2>2, <2>3, <2>4, Zenon DEF Takes
  <2>6. Grown(out, Entered(n), told, lines + 1, diffed)
    BY <2>5, TreeGrows
  <2> QED BY <2>6, Zenon DEF Grown, E
<1>9. /\ Len(stack) \in Nat /\ DOMAIN stack = 1..Len(stack) /\ \A i \in 1..Len(stack) : stack[i] \in Frames
  <2> HIDE DEF Frames
  <2> QED BY <1>1
<1>10. Moved(stack) \in Seq(Frames) /\ Len(Moved(stack)) = Len(stack) /\ \A i \in 1..Len(stack) : Moved(stack)[i] = IF i = Len(stack) THEN [stack[i] EXCEPT !.next = @ + 1] ELSE stack[i]
  <2>1. \A r \in Frames : [r EXCEPT !.next = @ + 1] \in Frames
    OBVIOUS
  <2> HIDE DEF Frames
  <2>2. Moved(stack) \in [1..Len(stack) -> Frames]
    BY <1>9, <2>1 DEF Moved
  <2>3. \A i \in 1..Len(stack) : Moved(stack)[i] = IF i = Len(stack) THEN [stack[i] EXCEPT !.next = @ + 1] ELSE stack[i]
    BY <1>9, Zenon DEF Moved
  <2> QED BY <1>9, <2>2, <2>3, SeqDef
<1>11. [node |-> n, next |-> 1] \in Frames
  OBVIOUS
<1>12. /\ open \in Seq(Frames) /\ Len(open) = Len(stack) + 1 /\ open[Len(stack) + 1] = [node |-> n, next |-> 1]
       /\ \A i \in 1..Len(stack) : open[i] = Moved(stack)[i]
  <2> HIDE DEF Frames
  <2> QED BY <1>9, <1>10, <1>11, AppendProperties
<1>13. Written[1] \in Seq(E) /\ Written[n] \in Seq(E) /\ \A k \in Nat \ {0} : RestAfter(n, k) \in Seq(E)
  BY TreeTyped, TraceIsATree, RestUnfolds
<1>14. Written[n] = told \o RestAfter(n, 1)
  BY RestUnfolds
<1>15. TellsTree(ToldOf(out) \o told, lines + 1, open)
  <2>1. CASE stack = <<>> /\ lines = 1 /\ n = 1
    <3> DEFINE rest == [k \in 0..1 |-> IF k = 0 THEN <<>> ELSE RestAfter(n, 1)]
    <3>1. RestAfter(n, 1) \in Seq(E) /\ RestAfter(n, 1) \o <<>> = RestAfter(n, 1)
      BY <1>13, ConcatEmptySeq
    <3>2. Len(open) = 1 /\ open[1].node = n /\ open[1].next = 1
      BY <1>12, <2>1
    <3>3. rest \in [0..1 -> Seq(E)] /\ rest[0] = <<>> /\ rest[1] = RestAfter(n, 1)
      BY <3>1
    <3> HIDE DEF rest, open
    <3>4. StillToTell(rest, open)
      <4>1. \A k \in 1..1 : rest[k] = RestAfter(open[k].node, open[k].next) \o rest[k - 1]
        BY <3>1, <3>2, <3>3
      <4> QED BY <3>2, <3>3, <4>1 DEF StillToTell
    <3>5. ToldOf(out) = <<>>
      BY <1>1, <2>1 DEF TellsTree
    <3>6. <<>> \o told = told
      BY <1>2, ConcatEmptySeq
    <3>7. (ToldOf(out) \o told) \o rest[Len(open)] = Written[1]
      BY <1>14, <2>1, <3>2, <3>3, <3>5, <3>6
    <3> QED BY <1>7, <3>4, <3>7, Zenon DEF TellsTree
  <2>2. CASE stack # <<>> /\ lines # 1 /\ CallsLeft /\ n = calls(Top.node)[Top.next].of
    <3> DEFINE L == Len(stack)
               m == stack[L].node
               j == stack[L].next
    <3>1. L \in Nat \ {0} /\ m \in Nodes /\ j \in Nat \ {0} /\ Top = stack[L]
      BY <1>1, <1>9, <2>2 DEF Top
    <3>2. PICK rest : StillToTell(rest, stack) /\ ToldOf(out) \o rest[L] = Written[1]
      BY <1>1, <2>2, Zenon DEF TellsTree
    <3>3. /\ rest \in [0..L -> Seq(E)] /\ rest[0] = <<>>
          /\ \A k \in 1..L : rest[k] = RestAfter(stack[k].node, stack[k].next) \o rest[k - 1]
      BY <3>2 DEF StillToTell
    <3>4. j \in 1..Len(calls(m)) /\ n = calls(m)[j].of
      <4>1. Len(calls(m)) \in Nat
        BY <3>1, RestUnfolds
      <4> QED BY <2>2, <3>1, <4>1 DEF CallsLeft
    <3>5. RestAfter(m, j) = Written[n] \o RestAfter(m, j + 1) /\ RestAfter(m, j + 1) \in Seq(E)
      <4>1. \A k \in 1..Len(calls(m)) : RestAfter(m, k) = Written[calls(m)[k].of] \o RestAfter(m, k + 1)
        BY <3>1, RestUnfolds
      <4>2. \A k \in Nat \ {0} : RestAfter(m, k) \in Seq(E)
        BY <3>1, RestUnfolds
      <4>3. j + 1 \in Nat \ {0}
        BY <3>1
      <4> HIDE DEF j, m, E
      <4> QED BY <3>4, <4>1, <4>2, <4>3
    <3> DEFINE base == rest[L - 1]
               lower == RestAfter(m, j + 1) \o base
               upper == RestAfter(n, 1) \o lower
               new == [k \in 0..(L + 1) |-> IF k < L THEN rest[k] ELSE IF k = L THEN lower ELSE upper]
    <3>6. base \in Seq(E) /\ rest[L] = RestAfter(m, j) \o base
      <4>1. L - 1 \in 0..L /\ L \in 1..L
        BY <3>1
      <4> HIDE DEF L, E
      <4>2. base \in Seq(E)
        BY <3>3, <4>1
      <4>3. rest[L] = RestAfter(m, j) \o base
        BY <3>3, <4>1, Zenon
      <4> QED BY <4>2, <4>3
    <3>7. \A u, v \in Seq(E) : u \o v \in Seq(E)
      BY ConcatProperties
    <3>8. \A u, v, r \in Seq(E) : (u \o v) \o r = u \o (v \o r)
      BY ThreeInOrder
    <3>9. RestAfter(n, 1) \in Seq(E)
      BY <1>13
    <3> HIDE DEF L, m, j, base, E, Frames, told, open
    <3>10. lower \in Seq(E) /\ upper \in Seq(E)
      <4>1. lower \in Seq(E)
        BY <3>5, <3>6, <3>7
      <4> HIDE DEF lower
      <4> QED BY <3>7, <3>9, <4>1
    <3>11. (ToldOf(out) \o told) \o upper = Written[1]
      <4>1. (ToldOf(out) \o told) \o upper = ToldOf(out) \o (told \o upper)
        <5> HIDE DEF upper
        <5> QED BY <1>1, <1>2, <3>8, <3>10, Zenon
      <4>2. told \o upper = (told \o RestAfter(n, 1)) \o lower
        <5>1. told \o (RestAfter(n, 1) \o lower) = (told \o RestAfter(n, 1)) \o lower
          <6> HIDE DEF lower
          <6> QED BY <1>2, <3>8, <3>9, <3>10, Zenon
        <5> QED BY <5>1
      <4>3. Written[n] \o (RestAfter(m, j + 1) \o base) = (Written[n] \o RestAfter(m, j + 1)) \o base
        BY <1>13, <3>5, <3>6, <3>8, Zenon
      <4>4. told \o upper = rest[L]
        BY <1>14, <3>5, <3>6, <4>2, <4>3, Zenon
      <4> QED BY <3>2, <4>1, <4>4, Zenon
    <3> HIDE DEF lower, upper
    <3>12. /\ new \in [0..(L + 1) -> Seq(E)] /\ new[0] = <<>> /\ new[L] = lower /\ new[L + 1] = upper
           /\ \A k \in 0..(L - 1) : new[k] = rest[k]
      BY <3>1, <3>3, <3>10
    <3> HIDE DEF new
    <3>13. Len(open) = L + 1 /\ open[L + 1].node = n /\ open[L + 1].next = 1
      BY <1>12 DEF L
    <3>14. open[L].node = m /\ open[L].next = j + 1
      <4>1. open[L] = [stack[L] EXCEPT !.next = @ + 1] /\ stack[L] \in Frames
        BY <1>9, <1>10, <1>12, <3>1 DEF L
      <4> QED BY <4>1 DEF m, j, Frames
    <3>15. \A k \in 1..(L - 1) : open[k] = stack[k]
      <4>1. ASSUME NEW k \in 1..(L - 1) PROVE open[k] = stack[k]
        <5>1. k \in 1..L /\ k # L
          BY <3>1
        <5> QED BY <1>10, <1>12, <5>1 DEF L
      <4> QED BY <4>1
    <3>16. ASSUME NEW k \in 1..(L + 1) PROVE new[k] = RestAfter(open[k].node, open[k].next) \o new[k - 1]
      <4>1. CASE k = L + 1
        <5>1. k - 1 = L
          BY <3>1, <4>1
        <5> QED BY <3>12, <3>13, <4>1, <5>1, Zenon DEF upper
      <4>2. CASE k = L
        <5>1. new[k - 1] = base
          <6>1. L - 1 \in 0..(L - 1)
            BY <3>1
          <6> QED BY <3>12, <4>2, <6>1, Zenon DEF base
        <5> QED BY <3>12, <3>14, <4>2, <5>1, Zenon DEF lower
      <4>3. CASE k \notin {L, L + 1}
        <5>1. k \in 1..(L - 1) /\ k \in 1..L /\ k - 1 \in 0..(L - 1) /\ k \in 0..(L - 1)
          BY <3>1, <4>3
        <5>2. new[k] = rest[k] /\ new[k - 1] = rest[k - 1] /\ open[k] = stack[k]
          BY <3>12, <3>15, <5>1
        <5>3. rest[k] = RestAfter(stack[k].node, stack[k].next) \o rest[k - 1]
          BY <3>3, <5>1
        <5> QED BY <5>2, <5>3, Zenon
      <4> QED BY <4>1, <4>2, <4>3
    <3>17. StillToTell(new, open)
      BY <3>12, <3>13, <3>16, Zenon DEF StillToTell, E
    <3>18. (ToldOf(out) \o told) \o new[Len(open)] = Written[1]
      BY <3>11, <3>12, <3>13, Zenon
    <3> QED BY <1>7, <3>17, <3>18, Zenon DEF TellsTree
  <2> QED BY <2>1, <2>2
<1> HIDE DEF told, open
<1>16. TreeAt(out \o Entered(n), lines + 1, open, diffed)
  BY <1>1, <1>7, <1>8, <1>12, <1>15, Zenon DEF TreeAt
<1> QED BY <1>16 DEF open

LEMMA TreeReturns ==
  ASSUME IsTransaction(tx), TreeAt(out, lines, stack, diffed), stack # <<>>, ~CallsLeft
  PROVE  TreeAt(out \o <<Returning(lines - 1, Top.node)>>, lines, Front(stack), diffed)
<1> DEFINE Frames == [node : Nodes, next : Nat \ {0}]
           open == Front(stack)
           L == Len(stack)
           m == stack[L].node
           j == stack[L].next
           w == <<Returning(lines - 1, m)>>
           told == <<Returning(0, m)>>
           E == TraceEvents
<1>1. /\ IsSequence(out) /\ lines \in Nat \ {0} /\ diffed \in 0..Len(tx.diffs)
      /\ stack \in Seq(Frames) /\ ToldOf(out) \in Seq(E) /\ TellsTree(ToldOf(out), lines, stack)
  BY DEF TreeAt
<1>2. /\ L \in Nat \ {0} /\ \A i \in 1..L : stack[i] \in Frames
  <2> HIDE DEF Frames
  <2> QED BY <1>1
<1>3. m \in Nodes /\ j \in Nat \ {0} /\ Top = stack[L] /\ L \in 1..L /\ L - 1 \in Nat /\ L - 1 \in 0..L
  <2>1. L \in 1..L /\ L - 1 \in Nat /\ L - 1 \in 0..L
    BY <1>2
  <2>2. stack[L] \in Frames
    BY <1>2, <2>1
  <2> QED BY <2>1, <2>2 DEF Top
<1>4. told \in Seq(E) /\ OpenTold(told)
  BY <1>3, InvocationOpens
<1>5. CallsIn(told) = 0 /\ EventsIn(told) = 0
  BY <1>3, WeightsCount
<1>6. WhatIsIn(w, <<>>, told, 0, 0) /\ IsSequence(w)
  BY ReturnedSays
<1>7. StepsTo(lines - 1) \o <<>> = StepsTo(lines - 1) /\ lines - lines = 0 /\ lines \in Nat \ {0}
  <2>0. lines \in Nat \ {0}
    BY <1>1
  <2>1. lines - 1 \in Nat /\ lines - lines = 0
    BY <2>0
  <2> QED BY <2>0, <2>1, StepsToNext
<1>8. WritesTo(diffed) + 0 = WritesTo(diffed) /\ diffed \in Nat
  <2>0. diffed \in 0..Len(tx.diffs) /\ Len(tx.diffs) \in Nat
    BY <1>1 DEF IsTransaction
  <2>1. WritesTo(diffed) \in Nat
    BY <2>0, WritesToIsNat
  <2> QED BY <2>0, <2>1
<1>9. Takes(w, <<>>, told, 0, 0, lines, lines, diffed, diffed)
  <2>1. 0 \in Nat /\ CallsIn(told) = lines - lines /\ told \in Seq(TraceEvents)
    BY <1>4, <1>5, <1>7
  <2> HIDE DEF told, w
  <2> QED BY <1>4, <1>5, <1>6, <1>7, <1>8, <2>1, Zenon DEF Takes
<1>10. Grown(out, w, told, lines, diffed)
  <2> HIDE DEF told, w
  <2> QED BY <1>9, TreeGrows
<1>11. open \in Seq(Frames) /\ Len(open) = L - 1 /\ \A i \in 1..(L - 1) : open[i] = stack[i]
  <2> HIDE DEF Frames
  <2>1. open \in Seq(Frames) /\ Len(open) = L - 1
    BY <1>1, FrontIsShorter
  <2>2. \A i \in 1..(L - 1) : stack[i] \in Frames
    BY <1>2
  <2>3. \A i \in 1..(L - 1 - 1 + 1) : SubSeq(stack, 1, L - 1)[i] = stack[1 + i - 1]
    BY <1>3, <2>2, SubSeqProperties
  <2>4. ASSUME NEW i \in 1..(L - 1) PROVE open[i] = stack[i]
    <3>1. i \in 1..(L - 1 - 1 + 1) /\ 1 + i - 1 = i
      BY <1>3
    <3> QED BY <2>3, <3>1, Zenon DEF Front
  <2> QED BY <2>1, <2>4
<1>12. TellsTree(ToldOf(out) \o told, lines, open)
  <2>1. lines # 1
    BY <1>1 DEF TellsTree
  <2>2. PICK rest : StillToTell(rest, stack) /\ ToldOf(out) \o rest[L] = Written[1]
    BY <1>1, <2>1, Zenon DEF TellsTree
  <2>3. /\ rest \in [0..L -> Seq(E)] /\ rest[0] = <<>>
        /\ \A k \in 1..L : rest[k] = RestAfter(stack[k].node, stack[k].next) \o rest[k - 1]
    BY <2>2 DEF StillToTell
  <2>4. RestAfter(m, j) = told
    <3>1. Len(calls(m)) \in Nat /\ \A k \in Nat : k > Len(calls(m)) => RestAfter(m, k) = <<Returning(0, m)>>
      BY <1>3, RestUnfolds
    <3>2. ~(j <= Len(calls(m)))
      BY <1>3 DEF CallsLeft
    <3> HIDE DEF j, m
    <3> QED BY <1>3, <3>1, <3>2
  <2> DEFINE new == [k \in 0..(L - 1) |-> rest[k]]
  <2> HIDE DEF L, E, told, open, Frames
  <2>5. rest[L - 1] \in Seq(E)
    BY <1>3, <2>3
  <2>6. rest[L] = told \o rest[L - 1]
    BY <1>3, <2>3, <2>4
  <2>7. (ToldOf(out) \o told) \o rest[L - 1] = Written[1]
    <3>1. \A u, v, r \in Seq(E) : (u \o v) \o r = u \o (v \o r)
      BY ThreeInOrder
    <3>2. (ToldOf(out) \o told) \o rest[L - 1] = ToldOf(out) \o (told \o rest[L - 1])
      BY <1>1, <1>4, <2>5, <3>1, Zenon
    <3> QED BY <2>2, <2>6, <3>2, Zenon
  <2>8. new \in [0..(L - 1) -> Seq(E)] /\ new[0] = <<>> /\ new[L - 1] = rest[L - 1] /\ \A k \in 0..(L - 1) : new[k] = rest[k]
    BY <1>3, <2>3
  <2> HIDE DEF new
  <2>9. ASSUME NEW k \in 1..(L - 1) PROVE new[k] = RestAfter(open[k].node, open[k].next) \o new[k - 1]
    <3>1. k \in 1..L /\ k \in 0..(L - 1) /\ k - 1 \in 0..(L - 1)
      BY <1>3
    <3>2. new[k] = rest[k] /\ new[k - 1] = rest[k - 1] /\ open[k] = stack[k]
      BY <1>11, <2>8, <3>1
    <3>3. rest[k] = RestAfter(stack[k].node, stack[k].next) \o rest[k - 1]
      BY <2>3, <3>1
    <3> QED BY <3>2, <3>3, Zenon
  <2>10. StillToTell(new, open)
    BY <1>11, <2>8, <2>9, Zenon DEF StillToTell, E
  <2>11. (ToldOf(out) \o told) \o new[Len(open)] = Written[1]
    BY <1>11, <2>7, <2>8, Zenon
  <2> QED BY <2>1, <2>10, <2>11, Zenon DEF TellsTree
<1>13. TreeAt(out \o w, lines, open, diffed)
  <2> HIDE DEF told, w, open
  <2> QED BY <1>1, <1>10, <1>11, <1>12, Zenon DEF TreeAt, Grown
<1> QED BY <1>3, <1>13, Zenon

LEMMA TreeChanges ==
  ASSUME IsTransaction(tx), TreeAt(out, lines, stack, diffed), diffed < Len(tx.diffs)
  PROVE  TreeAt(out \o Changes(diffed + 1), lines, stack, diffed + 1)
<1> DEFINE w == Changes(diffed + 1)
           keys == Len(tx.diffs[diffed + 1].keys)
<1>1. /\ IsSequence(out) /\ lines \in Nat \ {0} /\ diffed \in 0..Len(tx.diffs)
      /\ stack \in Seq([node : Nodes, next : Nat \ {0}])
      /\ ToldOf(out) \in Seq(TraceEvents) /\ TellsTree(ToldOf(out), lines, stack)
  BY DEF TreeAt
<1>2. diffed \in Nat /\ diffed + 1 \in Nat /\ diffed + 1 \in DOMAIN tx.diffs /\ diffed + 1 \in 0..Len(tx.diffs)
  <2>1. diffed \in 0..Len(tx.diffs) /\ Len(tx.diffs) \in Nat /\ DOMAIN tx.diffs = 1..Len(tx.diffs)
    BY <1>1 DEF IsTransaction
  <2> QED BY <2>1
<1>3. WhatIsIn(w, <<>>, <<>>, 0, keys) /\ IsSequence(w) /\ keys \in Nat
  BY <1>2, ChangesSay
<1>4. WritesTo(diffed) + keys = WritesTo(diffed + 1)
  BY <1>2, WritesToNext
<1>5. StepsTo(lines - 1) \o <<>> = StepsTo(lines - 1) /\ lines - lines = 0 /\ lines \in Nat \ {0}
  <2>0. lines \in Nat \ {0}
    BY <1>1
  <2>1. lines - 1 \in Nat /\ lines - lines = 0
    BY <2>0
  <2> QED BY <2>0, <2>1, StepsToNext
<1>6. <<>> \in Seq(TraceEvents) /\ OpenTold(<<>>) /\ CallsIn(<<>>) = 0 /\ EventsIn(<<>>) = 0 /\ 0 \in Nat
  <2>1. CallsIn(<<>>) = 0 /\ EventsIn(<<>>) = 0
    BY WeightsCount, Zenon DEF CallsIn, EventsIn, Counts
  <2>2. 1 \in Nodes
    BY TraceIsATree
  <2>3. OpenTold(<<>>)
    BY <2>2, InvocationOpens
  <2> QED BY <2>1, <2>3
<1> HIDE DEF w, keys
<1>7. Takes(w, <<>>, <<>>, 0, keys, lines, lines, diffed, diffed + 1)
  BY <1>2, <1>3, <1>4, <1>5, <1>6, Zenon DEF Takes
<1>8. Grown(out, w, <<>>, lines, diffed + 1)
  BY <1>7, TreeGrows
<1>9. ToldOf(out) \o <<>> = ToldOf(out)
  BY <1>1, ConcatEmptySeq
<1>10. TellsTree(ToldOf(out \o w), lines, stack)
  BY <1>1, <1>8, <1>9, Zenon DEF Grown
<1>11. TreeAt(out \o w, lines, stack, diffed + 1)
  BY <1>1, <1>2, <1>8, <1>10, Zenon DEF TreeAt, Grown
<1> QED BY <1>11 DEF w

LEMMA TreeStarts ==
  ASSUME IsTransaction(tx)
  PROVE  TreeAt(<<>>, 1, <<>>, 0)
<1>1. WhatIsIn(<<>>, <<>>, <<>>, 0, 0)
  BY WhatIsInOne
<1>2. CallsIn(<<>>) = 0 /\ EventsIn(<<>>) = 0
  BY WeightsCount, Zenon DEF CallsIn, EventsIn, Counts
<1>3. 1 \in Nodes
  BY TraceIsATree
<1>4. OpenTold(<<>>)
  BY <1>3, InvocationOpens
<1>5. StepsTo(0) = <<>>
  <2>1. 0 \in Nat
    OBVIOUS
  <2> QED BY <2>1, StepsToNext
<1>6. 0 \in 0..Len(tx.diffs)
  BY DEF IsTransaction
<1>7. WritesTo(0) = 0
  BY <1>6, WritesToIsNat
<1>8. 1 - 1 = 0 /\ 1 \in Nat \ {0}
  OBVIOUS
<1>9. Tallied(<<>>, <<>>, 1, 0)
  BY <1>1, <1>2, <1>5, <1>7, <1>8, Zenon DEF WhatIsIn, Tallied
<1>10. ToldOf(<<>>) = <<>>
  BY <1>1, Zenon DEF WhatIsIn
<1>11. IsSequence(<<>>)
  BY Tuples
<1>12. <<>> \in Seq(TraceEvents) /\ <<>> \in Seq([node : Nodes, next : Nat \ {0}])
  OBVIOUS
<1>13. TellsTree(<<>>, 1, <<>>)
  BY Zenon DEF TellsTree
<1> QED BY <1>4, <1>6, <1>8, <1>9, <1>10, <1>11, <1>12, <1>13, Zenon DEF TreeAt

-----------------------------------------------------------------------------
(***************************************************************************)
(* A replay tells the tree.                                                *)
(***************************************************************************)
===============================================================================
