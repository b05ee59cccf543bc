---------------------------- MODULE SequenceLemmas ----------------------------
(***************************************************************************)
(* Induction and recursion in a form the provers can use, and what they    *)
(* show of the sequence operators the models are built from.  The          *)
(* induction theorems of the library take the property as an operator;     *)
(* here it is the set of the numbers that have it.                         *)
(***************************************************************************)
EXTENDS Integers, Sequences, SequencesExt, SequenceTheorems, FiniteSetTheorems,
        WellFoundedInduction, TLAPS

\* A set of naturals that is not empty has a least element.
LEMMA LeastElement ==
  ASSUME NEW T \in SUBSET Nat, T # {}
  PROVE  \E n \in T : \A m \in T : ~(m < n)
<1> DEFINE R == {ss \in Nat \X Nat : ss[1] < ss[2]}
<1>1. R = OpToRel(<, Nat)
  BY DEF OpToRel
<1>2. IsWellFoundedOn(R, Nat)
  BY <1>1, NatLessThanWellFounded
<1> HIDE DEF R
<1>3. PICK n \in T : \A m \in T : ~(<<m, n>> \in R)
  BY <1>2, WFMin
<1>4. \A m \in T : m < n => <<m, n>> \in R
  BY DEF R
<1>5. QED
  BY <1>3, <1>4

\* A set of places that is not empty has a greatest one.
LEMMA MaxIsGreatest ==
  ASSUME NEW n \in Nat, NEW T \in SUBSET (1 .. n), T # {}
  PROVE  Max(T) \in T /\ \A m \in T : Max(T) >= m
<1> DEFINE D == {n - m : m \in T}
<1>1. \A m \in T : m \in Nat /\ n - m \in Nat
  OBVIOUS
<1>2. D \in SUBSET Nat /\ D # {}
  BY <1>1
<1> HIDE DEF D
<1>3. PICK d \in D : \A e \in D : ~(e < d)
  BY <1>2, LeastElement
<1>4. PICK g \in T : d = n - g
  BY DEF D
<1>5. ASSUME NEW m \in T PROVE g >= m
  <2>1. n - m \in D
    BY DEF D
  <2>2. ~(n - m < n - g)
    BY <1>3, <1>4, <2>1
  <2>3. QED
    BY <1>1, <2>2
<1>6. QED
  BY <1>5 DEF Max

\* Induction: a set of naturals with 0 and every successor is all of them.
LEMMA SetInduction ==
  ASSUME NEW S \in SUBSET Nat, 0 \in S, \A n \in S : n + 1 \in S
  PROVE  \A n \in Nat : n \in S
<1> SUFFICES ASSUME Nat \ S # {} PROVE FALSE
  OBVIOUS
<1>1. PICK n \in Nat \ S : \A m \in Nat \ S : ~(m < n)
  BY LeastElement
<1>2. n # 0 /\ n - 1 \in Nat /\ n - 1 < n
  OBVIOUS
<1>3. n - 1 \in S
  BY <1>1, <1>2
<1>4. (n - 1) + 1 \in S
  BY <1>3
<1>5. QED
  BY <1>4

\* f holds the values of a recursion of N steps that starts with base.
Iterates(f, V, base, N, step) ==
  f \in [0 .. N -> V] /\ f[0] = base /\ \A i \in 1 .. N : f[i] = step[<<i, f[i - 1]>>]

\* Recursion: a step on the values of a set defines a function.
LEMMA RecursionExists ==
  ASSUME NEW V, NEW base \in V, NEW N \in Nat, NEW step \in [(1 .. N) \X V -> V]
  PROVE  \E f : Iterates(f, V, base, N, step)
<1> DEFINE Good(n) == \E f \in [0 .. n -> V] :
                        f[0] = base /\ \A i \in 1 .. n : f[i] = step[<<i, f[i - 1]>>]
           S == {n \in Nat : n <= N => Good(n)}
<1>1. 0 \in S
  <2>1. [i \in 0 .. 0 |-> base] \in [0 .. 0 -> V]
    OBVIOUS
  <2>2. 1 .. 0 = {} /\ [i \in 0 .. 0 |-> base][0] = base
    OBVIOUS
  <2>3. Good(0)
    BY <2>1, <2>2
  <2>4. QED
    BY <2>3
<1>2. ASSUME NEW n \in S PROVE n + 1 \in S
  <2> SUFFICES ASSUME n + 1 <= N PROVE Good(n + 1)
    OBVIOUS
  <2>1. PICK f \in [0 .. n -> V] : f[0] = base /\ \A i \in 1 .. n : f[i] = step[<<i, f[i - 1]>>]
    BY <1>2
  <2> DEFINE g == [i \in 0 .. n + 1 |-> IF i = n + 1 THEN step[<<n + 1, f[n]>>] ELSE f[i]]
  <2>2. step[<<n + 1, f[n]>>] \in V
    BY <2>1
  <2>3. g \in [0 .. n + 1 -> V]
    BY <2>2
  <2>4. g[0] = base
    BY <2>1
  <2>5. ASSUME NEW i \in 1 .. n + 1 PROVE g[i] = step[<<i, g[i - 1]>>]
    <3>1. CASE i = n + 1
      <4>1. g[i] = step[<<n + 1, f[n]>>] /\ i - 1 = n
        BY <3>1
      <4>2. g[n] = f[n]
        BY <3>1
      <4>3. QED
        BY <3>1, <4>1, <4>2
    <3>2. CASE i # n + 1
      BY <2>1, <3>2
    <3>3. QED
      BY <3>1, <3>2
  <2>6. QED
    BY <2>3, <2>4, <2>5
<1> HIDE DEF S
<1>3. N \in S
  BY <1>1, <1>2, SetInduction DEF S
<1>4. QED
  BY <1>3 DEF S, Iterates

-----------------------------------------------------------------------------
(* FlattenSeq.                                                             *)

\* start[b] is the length of the first b sequences of s.
IsOffsets(start, s) ==
  /\ start \in [0 .. Len(s) -> Nat]
  /\ start[0] = 0
  /\ \A b \in 1 .. Len(s) : start[b] = start[b - 1] + Len(s[b])

\* Every sequence of sequences has its offsets.
LEMMA OffsetsExist ==
  ASSUME NEW S, NEW s \in Seq(Seq(S))
  PROVE  \E start : IsOffsets(start, s)
<1> DEFINE N == Len(s)
           step == [x \in (1 .. N) \X Nat |-> x[2] + Len(s[x[1]])]
<1>1. N \in Nat /\ \A b \in 1 .. N : s[b] \in Seq(S) /\ Len(s[b]) \in Nat
  OBVIOUS
<1>2. step \in [(1 .. N) \X Nat -> Nat]
  BY <1>1
<1>3. \A b \in 1 .. N, n \in Nat : step[<<b, n>>] = n + Len(s[b])
  OBVIOUS
<1> HIDE DEF N, step
<1>4. PICK f : Iterates(f, Nat, 0, N, step)
  BY <1>1, <1>2, RecursionExists
<1>5. /\ f \in [0 .. N -> Nat] /\ f[0] = 0
      /\ \A i \in 1 .. N : f[i] = step[<<i, f[i - 1]>>]
  BY <1>4 DEF Iterates
<1>6. ASSUME NEW b \in 1 .. N PROVE f[b] = f[b - 1] + Len(s[b])
  <2>1. f[b - 1] \in Nat
    BY <1>1, <1>5
  <2>2. QED
    BY <1>3, <1>5, <2>1
<1>7. QED
  BY <1>5, <1>6 DEF IsOffsets, N

\* Offsets never fall.
LEMMA OffsetsMonotone ==
  ASSUME NEW S, NEW s \in Seq(Seq(S)), NEW start, IsOffsets(start, s),
         NEW b \in 0 .. Len(s), NEW c \in 0 .. Len(s), b <= c
  PROVE  start[b] <= start[c]
<1> DEFINE T == {n \in Nat : b + n <= Len(s) => start[b] <= start[b + n]}
<1>1. start \in [0 .. Len(s) -> Nat] /\ Len(s) \in Nat
  BY DEF IsOffsets
<1>2. 0 \in T
  <2>1. b \in Int /\ b + 0 = b
    BY <1>1
  <2>2. start[b] \in Nat
    BY <1>1
  <2>3. start[b] <= start[b]
    BY <2>2
  <2>4. QED
    BY <2>1, <2>3
<1>3. ASSUME NEW n \in T PROVE n + 1 \in T
  <2> SUFFICES ASSUME b + (n + 1) <= Len(s) PROVE start[b] <= start[b + (n + 1)]
    OBVIOUS
  <2> DEFINE d == b + (n + 1)
  <2>1. d \in 1 .. Len(s) /\ d - 1 = b + n /\ b + n \in 0 .. Len(s) /\ b + n <= Len(s)
    BY <1>1
  <2>2. start[d] = start[d - 1] + Len(s[d])
    BY <2>1 DEF IsOffsets
  <2>3. Len(s[d]) \in Nat
    BY <2>1
  <2>4. start[b] <= start[b + n] /\ start[b + n] \in Nat /\ start[b] \in Nat
    BY <1>1, <1>3, <2>1
  <2> HIDE DEF d
  <2>5. start[b] <= start[d]
    BY <2>1, <2>2, <2>3, <2>4
  <2>6. QED
    BY <2>5 DEF d
<1> HIDE DEF T
<1>4. c - b \in T
  <2>1. T \in SUBSET Nat
    BY DEF T
  <2>2. c - b \in Nat
    BY <1>1
  <2>3. QED
    BY <1>2, <1>3, <2>1, <2>2, SetInduction
<1>5. b + (c - b) = c
  BY <1>1
<1>6. QED
  BY <1>4, <1>5 DEF T

\* Every place of the flattened sequence is in one of its parts.
LEMMA OffsetsCover ==
  ASSUME NEW S, NEW s \in Seq(Seq(S)), NEW start, IsOffsets(start, s),
         NEW k \in 1 .. start[Len(s)]
  PROVE  \E b \in 1 .. Len(s) : \E i \in 1 .. Len(s[b]) : k = start[b - 1] + i
<1> DEFINE T == {b \in 0 .. Len(s) : k <= start[b]}
<1>1. start \in [0 .. Len(s) -> Nat] /\ Len(s) \in Nat /\ start[0] = 0
  BY DEF IsOffsets
<1>2. T \in SUBSET Nat /\ Len(s) \in T
  BY <1>1
<1>3. PICK b \in T : \A c \in T : ~(c < b)
  BY <1>2, LeastElement
<1>4. b \in 1 .. Len(s) /\ b - 1 \in 0 .. Len(s)
  BY <1>1, <1>3
<1>5. start[b - 1] \in Nat /\ start[b] \in Nat /\ Len(s[b]) \in Nat
  <2>1. s[b] \in Seq(S)
    BY <1>4
  <2>2. Len(s[b]) \in Nat
    BY <2>1
  <2>3. start[b - 1] \in Nat /\ start[b] \in Nat
    BY <1>1, <1>4
  <2>4. QED
    BY <2>2, <2>3
<1>6. start[b - 1] < k
  BY <1>3, <1>4, <1>5
<1>7. k <= start[b - 1] + Len(s[b])
  BY <1>3, <1>4 DEF IsOffsets
<1>8. k - start[b - 1] \in 1 .. Len(s[b]) /\ k = start[b - 1] + (k - start[b - 1])
  BY <1>5, <1>6, <1>7
<1>9. QED
  BY <1>4, <1>8

\* ... and in one only.
LEMMA OffsetsApart ==
  ASSUME NEW S, NEW s \in Seq(Seq(S)), NEW start, IsOffsets(start, s),
         NEW b \in 1 .. Len(s), NEW c \in 1 .. Len(s),
         NEW i \in 1 .. Len(s[b]), NEW j \in 1 .. Len(s[c]),
         start[b - 1] + i = start[c - 1] + j
  PROVE  b = c /\ i = j
<1> DEFINE B == b - 1
           C == c - 1
           lb == Len(s[b])
           lc == Len(s[c])
<1>1. Len(s) \in Nat /\ start \in [0 .. Len(s) -> Nat]
  BY DEF IsOffsets
<1>2. B \in 0 .. Len(s) /\ C \in 0 .. Len(s) /\ b \in 0 .. Len(s) /\ c \in 0 .. Len(s)
  BY <1>1
<1>3. b \in Int /\ c \in Int /\ B \in Int /\ C \in Int /\ b = B + 1 /\ c = C + 1
  BY <1>1
<1>4. lb \in Nat /\ lc \in Nat /\ i \in 1 .. lb /\ j \in 1 .. lc
  <2>1. s[b] \in Seq(S) /\ s[c] \in Seq(S)
    OBVIOUS
  <2>2. QED
    BY <2>1
<1>5. start[b] = start[B] + lb /\ start[c] = start[C] + lc /\ start[B] + i = start[C] + j
  BY DEF IsOffsets
<1> HIDE DEF B, C, lb, lc
<1>6. start[B] \in Nat /\ start[C] \in Nat /\ start[b] \in Nat /\ start[c] \in Nat
  BY <1>1, <1>2
<1> DEFINE before == start[B]
           next == start[c]
           other == start[C]
           after == start[b]
<1>7. b <= C => after <= other
  BY <1>2, OffsetsMonotone
<1>8. c <= B => next <= before
  BY <1>2, OffsetsMonotone
<1>9. /\ before \in Nat /\ other \in Nat /\ lb \in Nat /\ lc \in Nat /\ i \in 1 .. lb /\ j \in 1 .. lc
       /\ after = before + lb /\ next = other + lc /\ before + i = other + j
  BY <1>4, <1>5, <1>6
<1> HIDE DEF before, next, other, after
<1>10. ~(after <= other) /\ ~(next <= before)
  BY <1>9
<1>11. b = c
  BY <1>3, <1>7, <1>8, <1>10
<1>12. B = C
  BY <1>11 DEF B, C
<1>13. QED
  BY <1>4, <1>5, <1>6, <1>11, <1>12

\* What FlattenSeq does: the parts one after the other, each at its offset.
LEMMA FlattenAt ==
  ASSUME NEW S, NEW s \in Seq(Seq(S)), NEW start, IsOffsets(start, s)
  PROVE  /\ FlattenSeq(s) \in Seq(S)
         /\ Len(FlattenSeq(s)) = start[Len(s)]
         /\ \A b \in 1 .. Len(s) : \A i \in 1 .. Len(s[b]) :
              start[b - 1] + i \in 1 .. start[Len(s)] /\ FlattenSeq(s)[start[b - 1] + i] = s[b][i]
<1> DEFINE N == Len(s)
           F(g) == [i \in 1 .. Len(s) |-> IF i = 1 THEN s[i] ELSE g[i - 1] \o s[i]]
           flatten == CHOOSE g : g = F(g)
<1>1. /\ N \in Nat /\ DOMAIN s = 1 .. N /\ start \in [0 .. N -> Nat] /\ start[0] = 0
      /\ \A b \in 1 .. N : s[b] \in Seq(S)
      /\ \A b \in 1 .. N : start[b] = start[b - 1] + Len(s[b])
  BY DEF IsOffsets
<1>2. CASE N = 0
  <2>1. s = <<>> /\ FlattenSeq(s) = s
    BY <1>2 DEF FlattenSeq
  <2>2. QED
    BY <1>1, <1>2, <2>1
<1>3. CASE N # 0
  <2>1. \E g : g = F(g)
    <3> DEFINE step == [x \in (1 .. N) \X Seq(S) |-> x[2] \o s[x[1]]]
    <3>1. step \in [(1 .. N) \X Seq(S) -> Seq(S)]
      BY <1>1
    <3>2. <<>> \in Seq(S)
      OBVIOUS
    <3>3. \A i \in 1 .. N, u \in Seq(S) : step[<<i, u>>] = u \o s[i]
      OBVIOUS
    <3> HIDE DEF step, N
    <3>4. PICK f : Iterates(f, Seq(S), <<>>, N, step)
      BY <1>1, <3>1, <3>2, RecursionExists
    <3>5. f \in [0 .. N -> Seq(S)] /\ f[0] = <<>> /\ \A i \in 1 .. N : f[i] = step[<<i, f[i - 1]>>]
      BY <3>4 DEF Iterates
    <3>6. ASSUME NEW i \in 1 .. N PROVE f[i] = f[i - 1] \o s[i]
      <4>1. f[i - 1] \in Seq(S)
        BY <1>1, <3>5
      <4>2. QED
        BY <3>3, <3>5, <4>1
    <3> DEFINE g == [i \in 1 .. N |-> f[i]]
    <3>7. ASSUME NEW i \in 1 .. N PROVE g[i] = IF i = 1 THEN s[i] ELSE g[i - 1] \o s[i]
      <4>1. CASE i = 1
        <5>1. f[1] = f[1 - 1] \o s[1] /\ 1 - 1 = 0 /\ s[1] \in Seq(S)
          BY <1>1, <3>6, <4>1
        <5>2. <<>> \o s[1] = s[1]
          BY <5>1, ConcatEmptySeq
        <5>3. f[1 - 1] = <<>>
          BY <3>5, <5>1
        <5>4. QED
          BY <4>1, <5>1, <5>2, <5>3
      <4>2. CASE i # 1
        <5>1. i - 1 \in 1 .. N
          BY <1>1, <4>2
        <5>2. QED
          BY <3>6, <4>2, <5>1
      <4>3. QED
        BY <4>1, <4>2
    <3> HIDE DEF g
    <3>8. g = [i \in 1 .. N |-> g[i]]
      BY DEF g
    <3>9. g = [i \in 1 .. N |-> IF i = 1 THEN s[i] ELSE g[i - 1] \o s[i]]
      BY <3>7, <3>8
    <3>10. QED
      BY <3>9 DEF N
  <2>2. flatten = F(flatten)
    BY <2>1
  <2>3. FlattenSeq(s) = flatten[N]
    BY <1>3 DEF FlattenSeq
  <2> HIDE DEF flatten
  <2>4. \A i \in 1 .. N : flatten[i] = IF i = 1 THEN s[i] ELSE flatten[i - 1] \o s[i]
    BY <1>1, <2>2
  <2> HIDE DEF F, N
  <2> DEFINE Upto(n) == /\ flatten[n] \in Seq(S)
                        /\ Len(flatten[n]) = start[n]
                        /\ \A b \in 1 .. n : \A i \in 1 .. Len(s[b]) :
                             /\ start[b - 1] + i \in 1 .. start[n]
                             /\ flatten[n][start[b - 1] + i] = s[b][i]
             T == {n \in Nat : n + 1 <= N => Upto(n + 1)}
  <2>5. Upto(1)
    <3>1. 1 \in 1 .. N /\ s[1] \in Seq(S) /\ flatten[1] = s[1]
      BY <1>1, <1>3, <2>4
    <3>2. start[1] = start[1 - 1] + Len(s[1])
      BY <1>1, <3>1
    <3>3. start[1 - 1] = 0 /\ Len(s[1]) \in Nat
      BY <1>1, <3>1
    <3>4. start[1] = Len(s[1])
      BY <3>2, <3>3
    <3>5. ASSUME NEW b \in 1 .. 1, NEW i \in 1 .. Len(s[b])
          PROVE  start[b - 1] + i \in 1 .. start[1] /\ flatten[1][start[b - 1] + i] = s[b][i]
      <4>1. b = 1
        OBVIOUS
      <4>2. start[b - 1] + i = i /\ i \in 1 .. Len(s[1])
        BY <3>3, <4>1
      <4>3. QED
        BY <3>1, <3>4, <4>1, <4>2
    <3>6. QED
      BY <3>1, <3>4, <3>5
  <2>6. ASSUME NEW n \in 1 .. N, n + 1 <= N, Upto(n) PROVE Upto(n + 1)
    <3> DEFINE m == n + 1
    <3>1. m \in 1 .. N /\ m # 1 /\ m - 1 = n /\ n \in Nat
      BY <1>1, <2>6
    <3>2. flatten[m] = flatten[n] \o s[m]
      BY <2>4, <3>1
    <3>3. s[m] \in Seq(S) /\ flatten[n] \in Seq(S) /\ Len(flatten[n]) = start[n]
      BY <1>1, <2>6, <3>1
    <3>4. start[m] = start[n] + Len(s[m])
      BY <1>1, <3>1
    <3>5. start[n] \in Nat /\ Len(s[m]) \in Nat
      BY <1>1, <3>1, <3>3
    <3> HIDE DEF m
    <3> DEFINE u == flatten[n]
    <3>0. /\ u \o s[m] \in Seq(S) /\ Len(u \o s[m]) = Len(u) + Len(s[m])
          /\ \A k \in 1 .. Len(u) + Len(s[m]) :
               (u \o s[m])[k] = IF k <= Len(u) THEN u[k] ELSE s[m][k - Len(u)]
      <4> HIDE DEF u
      <4>1. u \in Seq(S) /\ s[m] \in Seq(S)
        BY <3>3 DEF u
      <4>2. QED
        BY <4>1, ConcatProperties
    <3>6. flatten[m] \in Seq(S) /\ Len(flatten[m]) = start[m]
      BY <3>2, <3>3, <3>4, <3>0
    <3>7. ASSUME NEW b \in 1 .. m, NEW i \in 1 .. Len(s[b])
          PROVE  start[b - 1] + i \in 1 .. start[m] /\ flatten[m][start[b - 1] + i] = s[b][i]
      <4>1. CASE b = m
        <5>1. start[b - 1] + i = start[n] + i /\ i \in 1 .. Len(s[m])
          BY <3>1, <4>1
        <5>2. start[n] + i \in 1 .. start[m]
          BY <3>4, <3>5, <5>1
        <5>3. (flatten[n] \o s[m])[start[n] + i] = s[m][i]
          <6>1. start[n] + i \in 1 .. Len(u) + Len(s[m])
            BY <3>3, <3>5, <5>1
          <6>2. ~(start[n] + i <= Len(u)) /\ (start[n] + i) - Len(u) = i
            BY <3>3, <3>5, <5>1
          <6>3. QED
            BY <3>0, <6>1, <6>2
        <5>4. QED
          BY <3>2, <4>1, <5>1, <5>2, <5>3
      <4>2. CASE b # m
        <5>1. b \in 1 .. n
          BY <3>1, <4>2
        <5>2. start[b - 1] + i \in 1 .. start[n] /\ flatten[n][start[b - 1] + i] = s[b][i]
          BY <2>6, <5>1
        <5>3. start[b - 1] + i \in 1 .. start[m]
          BY <3>4, <3>5, <5>2
        <5>4. (flatten[n] \o s[m])[start[b - 1] + i] = flatten[n][start[b - 1] + i]
          <6>1. start[b - 1] + i \in 1 .. Len(u) + Len(s[m]) /\ start[b - 1] + i <= Len(u)
            BY <3>3, <3>5, <5>2
          <6>2. QED
            BY <3>0, <6>1
        <5>5. QED
          BY <3>2, <5>2, <5>3, <5>4
      <4>3. QED
        BY <4>1, <4>2
    <3>8. Upto(m)
      BY <3>6, <3>7
    <3>9. QED
      BY <3>8 DEF m
  <2> HIDE DEF Upto
  <2>7. 0 \in T
    BY <2>5
  <2>8. ASSUME NEW n \in T PROVE n + 1 \in T
    <3> SUFFICES ASSUME (n + 1) + 1 <= N PROVE Upto((n + 1) + 1)
      OBVIOUS
    <3>1. n + 1 \in 1 .. N /\ Upto(n + 1)
      BY <1>1, <2>8
    <3>2. QED
      BY <2>6, <3>1
  <2> HIDE DEF T
  <2>9. T \in SUBSET Nat
    BY DEF T
  <2>10. N - 1 \in T
    <3>1. \A n \in Nat : n \in T
      BY <2>7, <2>8, <2>9, SetInduction
    <3>2. QED
      BY <1>1, <1>3, <3>1
  <2>11. Upto(N)
    <3>1. (N - 1) + 1 = N
      BY <1>1
    <3>2. N <= N
      BY <1>1
    <3>3. QED
      BY <2>10, <3>1, <3>2 DEF T
  <2>12. QED
    BY <2>3, <2>11 DEF Upto, N
<1>4. QED
  BY <1>2, <1>3

\* start lays the parts of s out in the flattened sequence: every place of it
\* is the place of one element of one part.
LaysOut(start, s) ==
  /\ \A b \in 1 .. Len(s) : \A i \in 1 .. Len(s[b]) :
       /\ start[b - 1] + i \in 1 .. Len(FlattenSeq(s))
       /\ FlattenSeq(s)[start[b - 1] + i] = s[b][i]
  /\ \A k \in 1 .. Len(FlattenSeq(s)) :
       \E b \in 1 .. Len(s) : \E i \in 1 .. Len(s[b]) : k = start[b - 1] + i
  /\ \A b, c \in 1 .. Len(s) : \A i \in 1 .. Len(s[b]), j \in 1 .. Len(s[c]) :
       start[b - 1] + i = start[c - 1] + j => b = c /\ i = j

\* FlattenSeq as a layout of the parts.
LEMMA FlattenLaysOut ==
  ASSUME NEW S, NEW s \in Seq(Seq(S))
  PROVE  FlattenSeq(s) \in Seq(S) /\ \E start : LaysOut(start, s)
<1>1. PICK start : IsOffsets(start, s)
  BY OffsetsExist
<1>2. /\ FlattenSeq(s) \in Seq(S) /\ Len(FlattenSeq(s)) = start[Len(s)]
      /\ \A b \in 1 .. Len(s) : \A i \in 1 .. Len(s[b]) :
           /\ start[b - 1] + i \in 1 .. Len(FlattenSeq(s))
           /\ FlattenSeq(s)[start[b - 1] + i] = s[b][i]
  BY <1>1, FlattenAt
<1>3. ASSUME NEW k \in 1 .. start[Len(s)]
      PROVE  \E b \in 1 .. Len(s) : \E i \in 1 .. Len(s[b]) : k = start[b - 1] + i
  BY <1>1, OffsetsCover
<1>4. ASSUME NEW b \in 1 .. Len(s), NEW c \in 1 .. Len(s),
             NEW i \in 1 .. Len(s[b]), NEW j \in 1 .. Len(s[c]),
             start[b - 1] + i = start[c - 1] + j
      PROVE  b = c /\ i = j
  BY <1>1, <1>4, OffsetsApart
<1>5. LaysOut(start, s)
  BY <1>2, <1>3, <1>4 DEF LaysOut
<1>6. QED
  BY <1>2, <1>5

\* Parts of one element each.
LEMMA FlattenSingletons ==
  ASSUME NEW S, NEW s \in Seq(Seq(S)), \A b \in 1 .. Len(s) : Len(s[b]) = 1
  PROVE  Len(FlattenSeq(s)) = Len(s) /\ \A b \in 1 .. Len(s) : FlattenSeq(s)[b] = s[b][1]
<1>1. Len(s) \in Nat
  OBVIOUS
<1>2. PICK start : IsOffsets(start, s)
  BY OffsetsExist
<1> DEFINE T == {n \in Nat : n <= Len(s) => start[n] = n}
<1>3. 0 \in T
  BY <1>2 DEF IsOffsets
<1>4. ASSUME NEW n \in T PROVE n + 1 \in T
  <2> SUFFICES ASSUME n + 1 <= Len(s) PROVE start[n + 1] = n + 1
    OBVIOUS
  <2>1. n + 1 \in 1 .. Len(s) /\ (n + 1) - 1 = n /\ start[n] = n
    BY <1>1, <1>4
  <2>2. start[n + 1] = start[(n + 1) - 1] + Len(s[n + 1])
    BY <1>2, <2>1 DEF IsOffsets
  <2>3. QED
    BY <2>1, <2>2
<1> HIDE DEF T
<1>5. T \in SUBSET Nat
  BY DEF T
<1>6. \A n \in Nat : n \in T
  BY <1>3, <1>4, <1>5, SetInduction
<1>7. \A n \in 0 .. Len(s) : start[n] = n
  BY <1>1, <1>6 DEF T
<1>8. Len(FlattenSeq(s)) = Len(s)
  BY <1>1, <1>2, <1>7, FlattenAt
<1>9. ASSUME NEW b \in 1 .. Len(s) PROVE FlattenSeq(s)[b] = s[b][1]
  <2>1. start[b - 1] + 1 = b /\ 1 \in 1 .. Len(s[b])
    <3>1. b - 1 \in 0 .. Len(s) /\ b \in Int
      BY <1>1
    <3>2. start[b - 1] = b - 1 /\ Len(s[b]) = 1
      BY <1>7, <3>1
    <3>3. QED
      BY <3>1, <3>2
  <2>2. FlattenSeq(s)[start[b - 1] + 1] = s[b][1]
    BY <1>2, <2>1, FlattenAt
  <2>3. QED
    BY <2>1, <2>2
<1>10. QED
  BY <1>8, <1>9

\* For parts of at most one element: part[k] is the part that the flattened
\* sequence's place k comes from, in their order and none left out.
ComesFrom(part, s) ==
  /\ part \in [1 .. Len(FlattenSeq(s)) -> 1 .. Len(s)]
  /\ \A k \in 1 .. Len(FlattenSeq(s)) :
       Len(s[part[k]]) = 1 /\ FlattenSeq(s)[k] = s[part[k]][1]
  /\ \A k, l \in 1 .. Len(FlattenSeq(s)) : k < l => part[k] < part[l]
  /\ \A b \in 1 .. Len(s) : Len(s[b]) = 1 => \E k \in 1 .. Len(FlattenSeq(s)) : part[k] = b

\* Parts of at most one element: the places of the flattened sequence come from
\* parts in the order of the parts, and no part is left out.
LEMMA FlattenAtMostOne ==
  ASSUME NEW S, NEW s \in Seq(Seq(S)), \A b \in 1 .. Len(s) : Len(s[b]) <= 1
  PROVE  \E part : ComesFrom(part, s)
<1> DEFINE N == Len(FlattenSeq(s))
<1>1. Len(s) \in Nat /\ \A b \in 1 .. Len(s) : Len(s[b]) \in Nat
  OBVIOUS
<1>2. PICK start : IsOffsets(start, s)
  BY OffsetsExist
<1>3. start \in [0 .. Len(s) -> Nat]
  BY <1>2 DEF IsOffsets
<1>4. N = start[Len(s)]
  BY <1>2, FlattenAt
<1> HIDE DEF N
<1>5. ASSUME NEW k \in 1 .. N
      PROVE  \E b \in 1 .. Len(s) : k = start[b - 1] + 1 /\ Len(s[b]) = 1 /\ FlattenSeq(s)[k] = s[b][1]
  <2>1. PICK b \in 1 .. Len(s) : \E i \in 1 .. Len(s[b]) : k = start[b - 1] + i
    BY <1>2, <1>4, OffsetsCover
  <2>2. PICK i \in 1 .. Len(s[b]) : k = start[b - 1] + i
    BY <2>1
  <2>3. i = 1 /\ Len(s[b]) = 1
    <3>1. Len(s[b]) \in Nat /\ Len(s[b]) <= 1
      BY <1>1
    <3>2. i \in 1 .. Len(s[b])
      BY <2>2
    <3>3. \A m \in Nat : m <= 1 /\ i \in 1 .. m => i = 1 /\ m = 1
      OBVIOUS
    <3>4. QED
      BY <3>1, <3>2, <3>3
  <2>4. FlattenSeq(s)[start[b - 1] + i] = s[b][i]
    BY <1>2, <2>2, FlattenAt
  <2>5. QED
    BY <2>2, <2>3, <2>4
<1> DEFINE part == [k \in 1 .. N |-> CHOOSE b \in 1 .. Len(s) :
                      k = start[b - 1] + 1 /\ Len(s[b]) = 1 /\ FlattenSeq(s)[k] = s[b][1]]
<1>6. ASSUME NEW k \in 1 .. N
      PROVE  /\ part[k] \in 1 .. Len(s) /\ k = start[part[k] - 1] + 1
             /\ Len(s[part[k]]) = 1 /\ FlattenSeq(s)[k] = s[part[k]][1]
  BY <1>5
<1>7. part \in [1 .. N -> 1 .. Len(s)]
  BY <1>5
<1> HIDE DEF part
<1>8. ASSUME NEW k \in 1 .. N, NEW l \in 1 .. N, k < l PROVE part[k] < part[l]
  <2> DEFINE b == part[k] - 1
             c == part[l] - 1
  <2>1. b \in 0 .. Len(s) /\ c \in 0 .. Len(s) /\ k = start[b] + 1 /\ l = start[c] + 1
    BY <1>1, <1>6
  <2>2. part[k] \in Int /\ part[l] \in Int
    BY <1>1, <1>6
  <2>3. start[b] \in Nat /\ start[c] \in Nat
    BY <1>3, <2>1
  <2>4. start[b] < start[c]
    BY <1>8, <2>1, <2>3
  <2>5. b \in Int /\ c \in Int
    BY <2>2
  <2>6. ~(c <= b)
    <3> HIDE DEF b, c
    <3>1. c <= b => start[c] <= start[b]
      BY <1>2, <2>1, OffsetsMonotone
    <3>2. QED
      BY <2>3, <2>4, <3>1
  <2>7. QED
    BY <2>2, <2>6
<1>9. ASSUME NEW b \in 1 .. Len(s), Len(s[b]) = 1 PROVE \E k \in 1 .. N : part[k] = b
  <2>1. 1 \in 1 .. Len(s[b])
    BY <1>9
  <2>2. start[b - 1] + 1 \in 1 .. start[Len(s)]
    BY <1>2, <2>1, FlattenAt
  <2> DEFINE k == start[b - 1] + 1
             c == part[k]
  <2>3. k \in 1 .. N
    BY <1>4, <2>2
  <2> HIDE DEF k
  <2>4. c \in 1 .. Len(s) /\ k = start[c - 1] + 1 /\ Len(s[c]) = 1
    BY <1>6, <2>3
  <2> HIDE DEF c
  <2>5. b \in 0 .. Len(s) /\ b - 1 \in 0 .. Len(s) /\ c \in 0 .. Len(s) /\ c - 1 \in 0 .. Len(s)
    BY <1>1, <2>4
  <2>6. start[b - 1] \in Nat /\ start[c - 1] \in Nat /\ start[b - 1] = start[c - 1]
    <3>1. start[b - 1] \in Nat /\ start[c - 1] \in Nat
      BY <1>3, <2>5
    <3>2. QED
      BY <2>4, <3>1 DEF k
  <2>7. start[b] = start[b - 1] + 1 /\ start[c] = start[c - 1] + 1
    BY <1>2, <1>9, <2>4 DEF IsOffsets
  <2>8. ~(b <= c - 1)
    <3>1. b <= c - 1 => start[b] <= start[c - 1]
      BY <1>2, <2>5, OffsetsMonotone
    <3>2. QED
      BY <2>6, <2>7, <3>1
  <2>9. ~(c <= b - 1)
    <3>1. c <= b - 1 => start[c] <= start[b - 1]
      BY <1>2, <2>5, OffsetsMonotone
    <3>2. QED
      BY <2>6, <2>7, <3>1
  <2>10. b = c
    BY <1>1, <2>4, <2>8, <2>9
  <2>11. QED
    BY <2>3, <2>10 DEF c
<1>10. QED
  BY <1>6, <1>7, <1>8, <1>9 DEF N, ComesFrom


-----------------------------------------------------------------------------
(* Folds over sets.                                                        *)

\* Induction on the subsets of a finite set: every subset that is not empty has
\* an element without which it is good only if it is good itself.
LEMMA SubsetInduction ==
  ASSUME NEW S, IsFiniteSet(S), NEW Good, {} \in Good,
         \A s \in SUBSET S : s # {} => \E x \in s : s \ {x} \in Good => s \in Good
  PROVE  \A s \in SUBSET S : s \in Good
<1> DEFINE T == {n \in Nat : \A s \in SUBSET S : Cardinality(s) = n => s \in Good}
<1>1. \A s \in SUBSET S : IsFiniteSet(s) /\ Cardinality(s) \in Nat
  BY FS_Subset, FS_CardinalityType
<1>2. 0 \in T
  <2> SUFFICES ASSUME NEW s \in SUBSET S, Cardinality(s) = 0 PROVE s \in Good
    OBVIOUS
  <2>1. s = {}
    BY <1>1, FS_EmptySet
  <2> QED
    BY <2>1
<1>3. ASSUME NEW n \in T PROVE n + 1 \in T
  <2> SUFFICES ASSUME NEW s \in SUBSET S, Cardinality(s) = n + 1 PROVE s \in Good
    OBVIOUS
  <2>1. s # {}
    <3>1. n \in Nat /\ n + 1 # 0
      OBVIOUS
    <3> QED
      BY <1>1, <3>1, FS_EmptySet
  <2>2. PICK x \in s : s \ {x} \in Good => s \in Good
    BY <2>1
  <2>3. Cardinality(s \ {x}) = Cardinality(s) - 1
    BY <1>1, FS_RemoveElement
  <2>4. Cardinality(s \ {x}) = n
    BY <2>3
  <2> QED
    BY <2>2, <2>4
<1> HIDE DEF T
<1>4. \A n \in Nat : n \in T
  <2>1. T \in SUBSET Nat
    BY DEF T
  <2> QED
    BY <1>2, <1>3, <2>1, SetInduction
<1> QED
  BY <1>1, <1>4 DEF T

(* pick chooses an element of every subset of S that has any.              *)
Picks(pick, S) == \A s \in SUBSET S : s # {} => pick[s] \in s

(* g holds the folds of the subsets of S: pick chooses what is folded last. *)
Folds(g, step, pick, base, S) ==
  g = [s \in SUBSET S |-> IF s = {} THEN base ELSE step[<<pick[s], g[s \ {pick[s]}]>>]]

\* The recursion of a fold defines a function on the subsets of a finite set.
LEMMA FoldsExist ==
  ASSUME NEW S, IsFiniteSet(S), NEW W, NEW base \in W, NEW step \in [S \X W -> W],
         NEW pick, Picks(pick, S)
  PROVE  \E g \in [SUBSET S -> W] : Folds(g, step, pick, base, S)
<1> DEFINE V == [SUBSET S -> W]
           N == Cardinality(S)
           F(g) == [s \in SUBSET S |->
                      IF s = {} THEN base ELSE step[<<pick[s], g[s \ {pick[s]}]>>]]
           first == [s \in SUBSET S |-> base]
           again == [x \in (1 .. N + 1) \X V |-> F(x[2])]
<1>1. N \in Nat
  BY FS_CardinalityType
<1>2. ASSUME NEW s \in SUBSET S, s # {}
      PROVE  /\ pick[s] \in S /\ s \ {pick[s]} \in SUBSET S
             /\ Cardinality(s) \in Nat /\ Cardinality(s \ {pick[s]}) \in Nat
             /\ Cardinality(s \ {pick[s]}) = Cardinality(s) - 1
  <2>1. pick[s] \in s
    BY <1>2 DEF Picks
  <2>2. IsFiniteSet(s)
    BY FS_Subset
  <2> QED
    BY <2>1, <2>2, FS_RemoveElement, FS_CardinalityType
<1>3. ASSUME NEW g \in V PROVE F(g) \in V
  <2>1. ASSUME NEW s \in SUBSET S
        PROVE (IF s = {} THEN base ELSE step[<<pick[s], g[s \ {pick[s]}]>>]) \in W
    <3>1. CASE s = {}
      BY <3>1
    <3>2. CASE s # {}
      <4>1. pick[s] \in S /\ g[s \ {pick[s]}] \in W
        BY <1>2, <3>2
      <4> QED
        BY <3>2, <4>1
    <3> QED
      BY <3>1, <3>2
  <2> QED
    BY <2>1
<1>4. first \in V
  OBVIOUS
<1>5. again \in [(1 .. N + 1) \X V -> V]
  BY <1>3
<1>6. \A i \in 1 .. N + 1, g \in V : again[<<i, g>>] = F(g)
  OBVIOUS
<1>7. \A g \in V, s \in SUBSET S :
        F(g)[s] = IF s = {} THEN base ELSE step[<<pick[s], g[s \ {pick[s]}]>>]
  OBVIOUS
<1> HIDE DEF N, V, again, F
<1>8. N + 1 \in Nat
  BY <1>1
<1>9. PICK f : Iterates(f, V, first, N + 1, again)
  BY <1>4, <1>5, <1>8, RecursionExists
<1>10. /\ f \in [0 .. N + 1 -> V] /\ f[0] = first
       /\ \A i \in 1 .. N + 1 : f[i] = again[<<i, f[i - 1]>>]
  BY <1>9 DEF Iterates
<1>11. ASSUME NEW i \in 1 .. N + 1 PROVE f[i - 1] \in V /\ f[i] \in V /\ f[i] = F(f[i - 1])
  <2>1. f[i - 1] \in V /\ f[i] \in V
    BY <1>1, <1>10
  <2> QED
    BY <1>6, <1>10, <2>1
<1> DEFINE Stable(n) == \A s \in SUBSET S : Cardinality(s) <= n => f[n + 1][s] = f[n][s]
           T == {n \in Nat : n <= N => Stable(n)}
<1>12. 0 \in T
  <2> SUFFICES ASSUME NEW s \in SUBSET S, Cardinality(s) <= 0 PROVE f[0 + 1][s] = f[0][s]
    OBVIOUS
  <2>1. s = {}
    <3>1. IsFiniteSet(s) /\ Cardinality(s) \in Nat
      BY FS_Subset, FS_CardinalityType
    <3>2. Cardinality(s) = 0
      BY <3>1
    <3> QED
      BY <3>1, <3>2, FS_EmptySet
  <2>2. f[1] = F(f[1 - 1]) /\ f[1 - 1] \in V
    BY <1>1, <1>11
  <2>3. f[1][s] = base
    BY <1>7, <2>1, <2>2
  <2>4. first[s] = base
    OBVIOUS
  <2> QED
    BY <1>10, <2>3, <2>4
<1>13. ASSUME NEW n \in T PROVE n + 1 \in T
  <2> SUFFICES ASSUME n + 1 <= N, NEW s \in SUBSET S, Cardinality(s) <= n + 1
               PROVE f[(n + 1) + 1][s] = f[n + 1][s]
    OBVIOUS
  <2>1. /\ n + 1 \in 1 .. N + 1 /\ (n + 1) - 1 = n
        /\ (n + 1) + 1 \in 1 .. N + 1 /\ ((n + 1) + 1) - 1 = n + 1
    BY <1>1
  <2>2. /\ f[n] \in V /\ f[n + 1] \in V /\ f[n + 1] = F(f[n])
    BY <1>11, <2>1
  <2>3. f[(n + 1) + 1] = F(f[n + 1])
    BY <1>11, <2>1
  <2>4. CASE s = {}
    BY <1>7, <2>2, <2>3, <2>4
  <2>5. CASE s # {}
    <3>1. /\ s \ {pick[s]} \in SUBSET S
          /\ Cardinality(s \ {pick[s]}) = Cardinality(s) - 1 /\ Cardinality(s) \in Nat
      BY <1>2, <2>5
    <3>2. Cardinality(s \ {pick[s]}) <= n
      BY <3>1
    <3>3. n <= N
      BY <1>1
    <3>4. f[n + 1][s \ {pick[s]}] = f[n][s \ {pick[s]}]
      BY <3>1, <3>2, <3>3
    <3>5. F(f[n + 1])[s] = step[<<pick[s], f[n + 1][s \ {pick[s]}]>>]
      BY <1>7, <2>2, <2>5
    <3>6. F(f[n])[s] = step[<<pick[s], f[n][s \ {pick[s]}]>>]
      BY <1>7, <2>2, <2>5
    <3> QED
      BY <2>2, <2>3, <3>4, <3>5, <3>6
  <2> QED
    BY <2>4, <2>5
<1> HIDE DEF T
<1>14. N \in T
  <2>1. T \in SUBSET Nat
    BY DEF T
  <2> QED
    BY <1>1, <1>12, <1>13, <2>1, SetInduction
<1>15. f[N] \in V /\ f[N + 1] \in V /\ f[N + 1] = F(f[N])
  <2>1. N + 1 \in 1 .. N + 1 /\ (N + 1) - 1 = N
    BY <1>1
  <2> QED
    BY <1>11, <2>1
<1>16. \A s \in SUBSET S : f[N + 1][s] = f[N][s]
  <2>1. \A s \in SUBSET S : Cardinality(s) <= N
    BY FS_Subset DEF N
  <2>2. Stable(N)
    BY <1>1, <1>14 DEF T
  <2> QED
    BY <2>1, <2>2
<1>17. f[N + 1] = f[N]
  BY <1>15, <1>16 DEF V
<1> QED
  BY <1>15, <1>17 DEF Folds, F, V

-----------------------------------------------------------------------------
(* SumFunction.                                                            *)

(* iter holds the sums of w over the subsets of S.                         *)
Sums(iter, w, S) ==
  iter = [s \in SUBSET S |->
            IF s = {} THEN 0 ELSE w[CHOOSE x \in s : TRUE] + iter[s \ {CHOOSE x \in s : TRUE}]]

\* The recursion of SumFunction defines a function on the subsets of a finite set.
LEMMA SumsExist ==
  ASSUME NEW S, IsFiniteSet(S), NEW w \in [S -> Nat]
  PROVE  \E iter \in [SUBSET S -> Nat] : Sums(iter, w, S)
<1> DEFINE c(s) == CHOOSE x \in s : TRUE
           pick == [s \in SUBSET S |-> c(s)]
           add == [x \in S \X Nat |-> w[x[1]] + x[2]]
<1>1. add \in [S \X Nat -> Nat]
  OBVIOUS
<1>2. \A s \in SUBSET S : s # {} => c(s) \in s
  OBVIOUS
<1>3. \A s \in SUBSET S : pick[s] = c(s)
  OBVIOUS
<1>4. \A x \in S, n \in Nat : add[<<x, n>>] = w[x] + n
  OBVIOUS
<1> HIDE DEF c, pick, add
<1>5. PICK g \in [SUBSET S -> Nat] : Folds(g, add, pick, 0, S)
  <2>1. Picks(pick, S)
    BY <1>2, <1>3 DEF Picks
  <2>2. 0 \in Nat
    OBVIOUS
  <2> QED
    BY <1>1, <2>1, <2>2, FoldsExist
<1>6. \A s \in SUBSET S : s # {} => add[<<pick[s], g[s \ {pick[s]}]>>] = w[c(s)] + g[s \ {c(s)}]
  BY <1>2, <1>3, <1>4
<1>7. g = [s \in SUBSET S |-> IF s = {} THEN 0 ELSE w[c(s)] + g[s \ {c(s)}]]
  BY <1>5, <1>6 DEF Folds
<1> QED
  BY <1>7 DEF Sums, c

\* A sum of naturals is at least that of any two of its terms, and is zero when
\* all of them are.
LEMMA SumBounds ==
  ASSUME NEW S, IsFiniteSet(S), NEW w \in [S -> Nat]
  PROVE  /\ SumFunction(w) \in Nat
         /\ (\A x \in S : w[x] = 0) => SumFunction(w) = 0
         /\ \A x \in S : SumFunction(w) >= w[x]
         /\ \A x, y \in S : x # y => SumFunction(w) >= w[x] + w[y]
<1> DEFINE c(s) == CHOOSE x \in s : TRUE
           sum == CHOOSE iter : Sums(iter, w, S)
<1>1. SumFunction(w) = sum[S]
  BY DEF SumFunction, SumFunctionOnSet, FoldFunctionOnSet, MapThenFoldSet, Sums
<1>2. Sums(sum, w, S)
  BY SumsExist
<1>3. \A s \in SUBSET S : sum[s] = IF s = {} THEN 0 ELSE w[c(s)] + sum[s \ {c(s)}]
  BY <1>2 DEF Sums
<1> HIDE DEF sum
<1> DEFINE Bounded(s) ==
             /\ sum[s] \in Nat
             /\ (\A x \in s : w[x] = 0) => sum[s] = 0
             /\ \A x \in s : sum[s] >= w[x]
             /\ \A x, y \in s : x # y => sum[s] >= w[x] + w[y]
           T == {n \in Nat : \A s \in SUBSET S : Cardinality(s) = n => Bounded(s)}
<1>4. \A s \in SUBSET S : IsFiniteSet(s) /\ Cardinality(s) \in Nat
  BY FS_Subset, FS_CardinalityType
<1>5. 0 \in T
  <2> SUFFICES ASSUME NEW s \in SUBSET S, Cardinality(s) = 0 PROVE Bounded(s)
    OBVIOUS
  <2>1. s = {}
    BY <1>4, FS_EmptySet
  <2>2. sum[s] = 0
    BY <1>3, <2>1
  <2> QED
    BY <2>1, <2>2
<1>6. ASSUME NEW n \in T PROVE n + 1 \in T
  <2> SUFFICES ASSUME NEW s \in SUBSET S, Cardinality(s) = n + 1 PROVE Bounded(s)
    OBVIOUS
  <2>1. s # {}
    <3>1. n \in Nat
      OBVIOUS
    <3>2. Cardinality(s) # 0
      BY <3>1
    <3> QED
      BY <3>2, FS_EmptySet
  <2> DEFINE u == c(s)
             r == s \ {u}
  <2>2. u \in s
    BY <2>1
  <2>3. sum[s] = w[u] + sum[r]
    BY <1>3, <2>1
  <2> HIDE DEF u, c
  <2>4. r \in SUBSET S /\ Cardinality(r) = n
    <3>1. Cardinality(r) = Cardinality(s) - 1
      BY <1>4, <2>2, FS_RemoveElement
    <3>2. Cardinality(r) = n
      BY <3>1
    <3> QED
      BY <3>2
  <2>5. Bounded(r)
    BY <2>4
  <2>6. \A x \in s : w[x] \in Nat /\ (x = u \/ x \in r)
    OBVIOUS
  <2>7. sum[s] \in Nat
    BY <2>2, <2>3, <2>5, <2>6
  <2>8. ASSUME \A x \in s : w[x] = 0 PROVE sum[s] = 0
    BY <2>2, <2>3, <2>5, <2>8
  <2>9. ASSUME NEW x \in s PROVE sum[s] >= w[x]
    <3>1. sum[r] \in Nat /\ w[u] \in Nat /\ w[x] \in Nat
      BY <2>2, <2>5, <2>6
    <3>2. x = u \/ sum[r] >= w[x]
      BY <2>5, <2>6, <2>9
    <3> HIDE DEF r
    <3> QED
      BY <2>3, <3>1, <3>2
  <2>10. ASSUME NEW x \in s, NEW y \in s, x # y PROVE sum[s] >= w[x] + w[y]
    <3>1. CASE x = u
      <4>1. y \in r
        BY <2>6, <2>10, <3>1
      <4>2. sum[r] >= w[y]
        BY <2>5, <4>1
      <4> QED
        BY <2>2, <2>3, <2>5, <2>6, <3>1, <4>2
    <3>2. CASE y = u
      <4>1. x \in r
        BY <2>6, <2>10, <3>2
      <4>2. sum[r] >= w[x]
        BY <2>5, <4>1
      <4> QED
        BY <2>2, <2>3, <2>5, <2>6, <3>2, <4>2
    <3>3. CASE x # u /\ y # u
      <4>1. x \in r /\ y \in r
        BY <2>6, <3>3
      <4>2. sum[r] >= w[x] + w[y]
        BY <2>5, <2>10, <4>1
      <4> QED
        BY <2>2, <2>3, <2>5, <2>6, <4>2
    <3> QED
      BY <3>1, <3>2, <3>3
  <2> QED
    BY <2>7, <2>8, <2>9, <2>10
<1> HIDE DEF T
<1>7. \A n \in Nat : n \in T
  <2>1. T \in SUBSET Nat
    BY DEF T
  <2> QED
    BY <1>5, <1>6, <2>1, SetInduction
<1>8. Bounded(S)
  <2>1. Cardinality(S) \in T
    BY <1>4, <1>7
  <2> QED
    BY <2>1 DEF T
<1> QED
  BY <1>1, <1>8

(* Every term of every sum of w may be split off.                          *)
Splits(sum, w, S) == \A s \in SUBSET S : \A x \in s : sum[s] = w[x] + sum[s \ {x}]

\* Any term may be split off a sum.
LEMMA SumsSplit ==
  ASSUME NEW S, IsFiniteSet(S), NEW w \in [S -> Nat],
         NEW sum \in [SUBSET S -> Nat], Sums(sum, w, S)
  PROVE  Splits(sum, w, S)
<1> DEFINE c(s) == CHOOSE x \in s : TRUE
           Split(s) == \A x \in s : sum[s] = w[x] + sum[s \ {x}]
           T == {n \in Nat : \A s \in SUBSET S : Cardinality(s) = n => Split(s)}
<1>1. \A s \in SUBSET S : s # {} => sum[s] = w[c(s)] + sum[s \ {c(s)}]
  BY DEF Sums
<1>2. \A s \in SUBSET S : IsFiniteSet(s) /\ Cardinality(s) \in Nat
  BY FS_Subset, FS_CardinalityType
<1>3. \A s \in SUBSET S : s # {} => c(s) \in s
  OBVIOUS
<1> HIDE DEF c
<1>4. 0 \in T
  BY <1>2, FS_EmptySet
<1>5. ASSUME NEW n \in T PROVE n + 1 \in T
  <2> SUFFICES ASSUME NEW s \in SUBSET S, Cardinality(s) = n + 1, NEW x \in s
               PROVE sum[s] = w[x] + sum[s \ {x}]
    OBVIOUS
  <2> DEFINE u == c(s)
  <2>1. u \in s /\ sum[s] = w[u] + sum[s \ {u}]
    BY <1>1, <1>3
  <2> HIDE DEF u
  <2>2. CASE x = u
    BY <2>1, <2>2
  <2>3. CASE x # u
    <3> DEFINE r == s \ {u}
               t == s \ {x}
               both == (s \ {u}) \ {x}
    <3>1. /\ r \in SUBSET S /\ t \in SUBSET S /\ both \in SUBSET S
          /\ x \in r /\ u \in t /\ r \ {x} = both /\ t \ {u} = both
      BY <2>1, <2>3
    <3>2. Cardinality(r) = (n + 1) - 1 /\ Cardinality(t) = (n + 1) - 1
      BY <1>2, <2>1, FS_RemoveElement
    <3>3. n \in Nat /\ (n + 1) - 1 = n
      OBVIOUS
    <3>4. Split(r) /\ Split(t)
      BY <3>1, <3>2, <3>3
    <3>5. sum[r] = w[x] + sum[both] /\ sum[t] = w[u] + sum[both]
      BY <3>1, <3>4
    <3>6. w[x] \in Nat /\ w[u] \in Nat /\ sum[both] \in Nat
      BY <2>1, <3>1
    <3> HIDE DEF r, t, both
    <3>7. sum[s] = w[u] + sum[r]
      BY <2>1 DEF r
    <3>8. sum[s] = w[x] + sum[t]
      BY <3>5, <3>6, <3>7
    <3> QED
      BY <3>8 DEF t
  <2> QED
    BY <2>2, <2>3
<1> HIDE DEF T
<1>6. \A n \in Nat : n \in T
  <2>1. T \in SUBSET Nat
    BY DEF T
  <2> QED
    BY <1>4, <1>5, <2>1, SetInduction
<1>7. ASSUME NEW s \in SUBSET S PROVE Split(s)
  <2>1. Cardinality(s) \in T
    BY <1>2, <1>6
  <2> QED
    BY <2>1 DEF T
<1> QED
  BY <1>7 DEF Splits

\* SumFunction is the last of its sums.
LEMMA SumFunctionSums ==
  ASSUME NEW S, IsFiniteSet(S), NEW w \in [S -> Nat]
  PROVE  \E sum \in [SUBSET S -> Nat] : Sums(sum, w, S) /\ SumFunction(w) = sum[S]
<1> DEFINE sum == CHOOSE iter : Sums(iter, w, S)
           c(s) == CHOOSE x \in s : TRUE
           T == {n \in Nat : \A s \in SUBSET S : Cardinality(s) = n => sum[s] \in Nat}
<1>1. SumFunction(w) = sum[S]
  BY DEF SumFunction, SumFunctionOnSet, FoldFunctionOnSet, MapThenFoldSet, Sums
<1>2. Sums(sum, w, S)
  BY SumsExist
<1>3. /\ sum = [s \in SUBSET S |-> sum[s]]
      /\ \A s \in SUBSET S : sum[s] = IF s = {} THEN 0 ELSE w[c(s)] + sum[s \ {c(s)}]
  BY <1>2 DEF Sums
<1> HIDE DEF sum
<1>4. \A s \in SUBSET S : IsFiniteSet(s) /\ Cardinality(s) \in Nat
  BY FS_Subset, FS_CardinalityType
<1>5. 0 \in T
  BY <1>3, <1>4, FS_EmptySet
<1>6. ASSUME NEW n \in T PROVE n + 1 \in T
  <2> SUFFICES ASSUME NEW s \in SUBSET S, Cardinality(s) = n + 1 PROVE sum[s] \in Nat
    OBVIOUS
  <2>1. CASE s = {}
    <3>1. sum[s] = 0
      BY <1>3, <2>1
    <3> QED
      BY <3>1
  <2>2. CASE s # {}
    <3> DEFINE u == c(s)
    <3>1. u \in s /\ sum[s] = w[u] + sum[s \ {u}]
      BY <1>3, <2>2
    <3> HIDE DEF u, c
    <3>2. Cardinality(s \ {u}) = (n + 1) - 1
      BY <1>4, <3>1, FS_RemoveElement
    <3>3. n \in Nat /\ (n + 1) - 1 = n /\ s \ {u} \in SUBSET S
      OBVIOUS
    <3>4. sum[s \ {u}] \in Nat
      BY <3>2, <3>3
    <3>5. w[u] \in Nat
      BY <3>1
    <3> QED
      BY <3>1, <3>4, <3>5
  <2> QED
    BY <2>1, <2>2
<1> HIDE DEF T
<1>7. \A n \in Nat : n \in T
  <2>1. T \in SUBSET Nat
    BY DEF T
  <2> QED
    BY <1>5, <1>6, <2>1, SetInduction
<1>8. \A s \in SUBSET S : sum[s] \in Nat
  <2> SUFFICES ASSUME NEW s \in SUBSET S PROVE sum[s] \in Nat
    OBVIOUS
  <2>1. Cardinality(s) \in T
    BY <1>4, <1>7
  <2> QED
    BY <2>1 DEF T
<1>9. sum \in [SUBSET S -> Nat]
  BY <1>3, <1>8
<1> QED
  BY <1>1, <1>2, <1>9

\* A sum with further and with greater terms is no smaller.
LEMMA SumMonotone ==
  ASSUME NEW U, IsFiniteSet(U), NEW S \in SUBSET U,
         NEW w \in [S -> Nat], NEW v \in [U -> Nat],
         \A x \in S : w[x] <= v[x]
  PROVE  SumFunction(w) <= SumFunction(v)
<1>1. IsFiniteSet(S)
  BY FS_Subset
<1>2. PICK low \in [SUBSET S -> Nat] : Sums(low, w, S) /\ SumFunction(w) = low[S]
  BY <1>1, SumFunctionSums
<1>3. PICK high \in [SUBSET U -> Nat] : Sums(high, v, U) /\ SumFunction(v) = high[U]
  BY SumFunctionSums
<1>4. \A s \in SUBSET S : \A x \in s : low[s] = w[x] + low[s \ {x}]
  <2>1. Sums(low, w, S)
    BY <1>2
  <2>2. Splits(low, w, S)
    BY <1>1, <2>1, SumsSplit
  <2> QED
    BY <2>2 DEF Splits
<1>5. \A s \in SUBSET U : \A x \in s : high[s] = v[x] + high[s \ {x}]
  <2>1. Sums(high, v, U)
    BY <1>3
  <2>2. Splits(high, v, U)
    BY <2>1, SumsSplit
  <2> QED
    BY <2>2 DEF Splits
<1>6. low[{}] = 0 /\ high[{}] = 0
  BY <1>2, <1>3 DEF Sums
<1>7. \A u \in SUBSET U : IsFiniteSet(u) /\ Cardinality(u) \in Nat
  BY FS_Subset, FS_CardinalityType
<1> DEFINE Below(u) == low[u \cap S] <= high[u]
           T == {n \in Nat : \A u \in SUBSET U : Cardinality(u) = n => Below(u)}
<1>8. 0 \in T
  <2> SUFFICES ASSUME NEW u \in SUBSET U, Cardinality(u) = 0 PROVE Below(u)
    OBVIOUS
  <2>1. u = {} /\ u \cap S = {}
    BY <1>7, FS_EmptySet
  <2> QED
    BY <1>6, <2>1
<1>9. ASSUME NEW n \in T PROVE n + 1 \in T
  <2> SUFFICES ASSUME NEW u \in SUBSET U, Cardinality(u) = n + 1 PROVE Below(u)
    OBVIOUS
  <2>1. u # {}
    <3>1. n \in Nat
      OBVIOUS
    <3>2. Cardinality(u) # 0
      BY <3>1
    <3> QED
      BY <3>2, FS_EmptySet
  <2>2. PICK x \in u : TRUE
    BY <2>1
  <2> DEFINE r == u \ {x}
  <2>3. r \in SUBSET U /\ r \cap S \in SUBSET S /\ u \cap S \in SUBSET S
    OBVIOUS
  <2>4. Cardinality(r) = (n + 1) - 1
    BY <1>7, FS_RemoveElement
  <2>5. n \in Nat /\ (n + 1) - 1 = n
    OBVIOUS
  <2>6. Below(r)
    BY <2>3, <2>4, <2>5
  <2>7. high[u] = v[x] + high[r]
    BY <1>5
  <2>8. v[x] \in Nat /\ high[r] \in Nat /\ low[r \cap S] \in Nat
    BY <2>3
  <2>9. CASE x \in S
    <3>1. (u \cap S) \ {x} = r \cap S /\ x \in u \cap S
      BY <2>9
    <3>2. low[u \cap S] = w[x] + low[r \cap S]
      BY <1>4, <2>3, <3>1
    <3>3. w[x] \in Nat /\ w[x] <= v[x]
      BY <2>9
    <3> HIDE DEF r
    <3> QED
      BY <2>6, <2>7, <2>8, <3>2, <3>3
  <2>10. CASE x \notin S
    <3>1. low[u \cap S] = low[r \cap S]
      <4>1. u \cap S = r \cap S
        BY <2>10
      <4> QED
        BY <4>1
    <3>2. v[x] \in Nat /\ high[r] \in Nat /\ low[r \cap S] \in Nat
      BY <2>8
    <3>3. low[r \cap S] <= high[r]
      BY <2>6
    <3> HIDE DEF r
    <3>4. low[r \cap S] <= high[u]
      BY <2>7, <3>2, <3>3
    <3> QED
      BY <3>1, <3>4
  <2> QED
    BY <2>9, <2>10
<1> HIDE DEF T
<1>10. \A n \in Nat : n \in T
  <2>1. T \in SUBSET Nat
    BY DEF T
  <2> QED
    BY <1>8, <1>9, <2>1, SetInduction
<1>11. Below(U)
  <2>1. Cardinality(U) \in T
    BY <1>7, <1>10
  <2> QED
    BY <2>1 DEF T
<1>12. U \cap S = S
  OBVIOUS
<1> QED
  BY <1>2, <1>3, <1>11, <1>12

-----------------------------------------------------------------------------
(* Sorting: the rank of an element in a strict order on a finite set.      *)

StrictOrder(R, X) ==
  /\ \A x \in X : <<x, x>> \notin R
  /\ \A x, y, z \in X : <<x, y>> \in R /\ <<y, z>> \in R => <<x, z>> \in R
  /\ \A x, y \in X : x # y => <<x, y>> \in R \/ <<y, x>> \in R

RankIn(R, X, x) == Cardinality({y \in X : <<y, x>> \in R})

\* The ranks of the elements are the numbers from 0, each the rank of one element.
LEMMA RanksOrder ==
  ASSUME NEW X, IsFiniteSet(X), NEW R, StrictOrder(R, X)
  PROVE  /\ \A x \in X : RankIn(R, X, x) \in 0 .. Cardinality(X) - 1
         /\ \A x, y \in X : RankIn(R, X, x) = RankIn(R, X, y) => x = y
         /\ \A i \in 0 .. Cardinality(X) - 1 : \E x \in X : RankIn(R, X, x) = i
<1> DEFINE n == Cardinality(X)
           below(x) == {y \in X : <<y, x>> \in R}
           f == [x \in X |-> Cardinality(below(x))]
<1>1. n \in Nat
  BY FS_CardinalityType
<1>2. \A x \in X : IsFiniteSet(below(x)) /\ Cardinality(below(x)) \in Nat
  BY FS_Subset, FS_CardinalityType
<1>3. ASSUME NEW x \in X PROVE Cardinality(below(x)) \in 0 .. n - 1
  <2>1. below(x) \subseteq X \ {x}
    BY DEF StrictOrder
  <2>2. IsFiniteSet(X \ {x}) /\ Cardinality(X \ {x}) = n - 1
    BY FS_RemoveElement
  <2>3. Cardinality(below(x)) <= n - 1
    <3> HIDE DEF below
    <3>1. Cardinality(below(x)) <= Cardinality(X \ {x})
      BY <2>1, <2>2, FS_Subset
    <3> QED
      BY <2>2, <3>1
  <2> QED
    BY <1>1, <1>2, <2>3
<1>4. ASSUME NEW x \in X, NEW y \in X, <<x, y>> \in R
      PROVE  Cardinality(below(x)) < Cardinality(below(y))
  <2>1. below(x) \cup {x} \subseteq below(y) /\ x \notin below(x)
    BY <1>4 DEF StrictOrder
  <2>2. IsFiniteSet(below(x) \cup {x}) /\ Cardinality(below(x) \cup {x}) = Cardinality(below(x)) + 1
    BY <1>2, <2>1, FS_AddElement
  <2>3. Cardinality(below(x) \cup {x}) <= Cardinality(below(y))
    BY <1>2, <2>1, FS_Subset
  <2> HIDE DEF below
  <2> QED
    BY <1>2, <2>2, <2>3
<1>5. ASSUME NEW x \in X, NEW y \in X, Cardinality(below(x)) = Cardinality(below(y)) PROVE x = y
  <2> SUFFICES ASSUME x # y PROVE FALSE
    OBVIOUS
  <2>1. <<x, y>> \in R \/ <<y, x>> \in R
    BY DEF StrictOrder
  <2> HIDE DEF below
  <2> QED
    BY <1>2, <1>4, <1>5, <2>1
<1>6. f \in Injection(X, 0 .. n - 1)
  BY <1>3, <1>5 DEF Injection, IsInjective
<1>7. IsFiniteSet(0 .. n - 1) /\ Cardinality(0 .. n - 1) = n
  <2>1. IsFiniteSet(0 .. n - 1)
    BY <1>1, FS_Interval
  <2>2. Cardinality(0 .. n - 1) = IF 0 > n - 1 THEN 0 ELSE (n - 1) - 0 + 1
    BY <1>1, FS_Interval
  <2> QED
    BY <1>1, <2>1, <2>2
<1>8. \A x \in X : f[x] = Cardinality(below(x)) /\ RankIn(R, X, x) = Cardinality(below(x))
  BY DEF RankIn
<1> HIDE DEF f, below, n
<1>9. f \in Surjection(X, 0 .. n - 1)
  BY <1>6, <1>7, FS_Injection DEF n
<1>10. \A i \in 0 .. n - 1 : \E x \in X : f[x] = i
  BY <1>9 DEF Surjection
<1>11. \A x \in X : RankIn(R, X, x) \in 0 .. n - 1
  BY <1>3, <1>8
<1>12. \A x, y \in X : RankIn(R, X, x) = RankIn(R, X, y) => x = y
  BY <1>5, <1>8
<1>13. \A i \in 0 .. n - 1 : \E x \in X : RankIn(R, X, x) = i
  BY <1>8, <1>10
<1> QED
  BY <1>11, <1>12, <1>13 DEF n

(* s lists every element of X once.                                        *)
Lists(s, X) ==
  /\ s \in [1 .. Cardinality(X) -> X]
  /\ \A i, j \in 1 .. Cardinality(X) : s[i] = s[j] => i = j
  /\ \A x \in X : \E i \in 1 .. Cardinality(X) : s[i] = x

\* Counting the elements of a list that have a property is counting its places.
LEMMA PlacesCount ==
  ASSUME NEW X, IsFiniteSet(X), NEW s, Lists(s, X), NEW A \in SUBSET X
  PROVE  Cardinality({i \in 1 .. Cardinality(X) : s[i] \in A}) = Cardinality(A)
<1> DEFINE D == {i \in 1 .. Cardinality(X) : s[i] \in A}
           f == [i \in D |-> s[i]]
<1>1. IsFiniteSet(A)
  BY FS_Subset
<1>2. f \in [D -> A] /\ (\A i, j \in D : f[i] = f[j] => i = j) /\ \A x \in A : \E i \in D : f[i] = x
  BY DEF Lists
<1>3. f \in Injection(D, A) /\ f \in Surjection(D, A)
  BY <1>2 DEF Injection, IsInjective, Surjection
<1> HIDE DEF D, f
<1>4. Cardinality(D) <= Cardinality(A) /\ IsFiniteSet(D)
  BY <1>1, <1>3, FS_Injection
<1>5. Cardinality(A) <= Cardinality(D)
  BY <1>3, <1>4, FS_Surjection
<1>6. Cardinality(A) \in Nat /\ Cardinality(D) \in Nat
  BY <1>1, <1>4, FS_CardinalityType
<1> QED
  BY <1>4, <1>5, <1>6 DEF D

(* t lists X in the order R.                                               *)
Sorted(t, R, X) ==
  /\ t \in [1 .. Cardinality(X) -> X]
  /\ \A i \in 1 .. Cardinality(X) : RankIn(R, X, t[i]) = i - 1

\* Taking from a list, for every place, the element that so many others precede
\* sorts it.
LEMMA SortByRank ==
  ASSUME NEW X, IsFiniteSet(X), NEW R, StrictOrder(R, X), NEW s, Lists(s, X),
         NEW t, NEW before,
         before \in [DOMAIN s -> SUBSET (DOMAIN s)],
         \A j, k \in DOMAIN s : j \in before[k] <=> <<s[j], s[k]>> \in R,
         t = [i \in DOMAIN s |->
                s[CHOOSE k \in DOMAIN s : Cardinality(before[k]) = i - 1]]
  PROVE  Sorted(t, R, X)
<1> DEFINE D == DOMAIN s
<1>1. Cardinality(X) \in Nat /\ D = 1 .. Cardinality(X)
  BY FS_CardinalityType DEF Lists
<1>2. ASSUME NEW k \in D PROVE s[k] \in X /\ Cardinality(before[k]) = RankIn(R, X, s[k])
  <2>1. s[k] \in X
    BY <1>1 DEF Lists
  <2> DEFINE A == {y \in X : <<y, s[k]>> \in R}
  <2>2. before[k] = {j \in 1 .. Cardinality(X) : s[j] \in A}
    <3>1. \A j \in D : s[j] \in X /\ (j \in before[k] <=> <<s[j], s[k]>> \in R)
      BY <1>1 DEF Lists
    <3>2. before[k] = {j \in D : s[j] \in A}
      BY <3>1
    <3> QED
      BY <1>1, <3>2
  <2>3. A \in SUBSET X
    OBVIOUS
  <2>4. RankIn(R, X, s[k]) = Cardinality(A)
    BY DEF RankIn
  <2> HIDE DEF A
  <2>5. Cardinality(before[k]) = Cardinality(A)
    BY <2>2, <2>3, PlacesCount
  <2> QED
    BY <2>1, <2>4, <2>5
<1>3. ASSUME NEW i \in D
      PROVE  t[i] \in X /\ RankIn(R, X, t[i]) = i - 1
  <2>1. i - 1 \in 0 .. Cardinality(X) - 1
    BY <1>1
  <2>2. PICK x \in X : RankIn(R, X, x) = i - 1
    BY <2>1, RanksOrder
  <2>3. PICK l \in D : s[l] = x
    BY <1>1 DEF Lists
  <2>4. Cardinality(before[l]) = i - 1
    BY <1>2, <2>2, <2>3
  <2> DEFINE k == CHOOSE m \in D : Cardinality(before[m]) = i - 1
  <2>5. k \in D /\ Cardinality(before[k]) = i - 1
    BY <2>4
  <2>6. t[i] = s[k]
    OBVIOUS
  <2> HIDE DEF k
  <2> QED
    BY <1>2, <2>5, <2>6
<1>4. t \in [D -> X]
  BY <1>3
<1> QED
  BY <1>1, <1>3, <1>4 DEF Sorted

\* Sorting gives one list for one set, and a list of all of it.
LEMMA SortedOnce ==
  ASSUME NEW X, IsFiniteSet(X), NEW R, StrictOrder(R, X), NEW t, Sorted(t, R, X)
  PROVE  /\ Lists(t, X)
         /\ \A u : Sorted(u, R, X) => u = t
<1> DEFINE D == 1 .. Cardinality(X)
<1>1. Cardinality(X) \in Nat
  BY FS_CardinalityType
<1>2. t \in [D -> X] /\ \A i \in D : RankIn(R, X, t[i]) = i - 1
  BY DEF Sorted
<1>3. \A i, j \in D : t[i] = t[j] => i = j
  BY <1>1, <1>2
<1>4. ASSUME NEW x \in X PROVE \E i \in D : t[i] = x
  <2>1. RankIn(R, X, x) \in 0 .. Cardinality(X) - 1
    BY RanksOrder
  <2>2. RankIn(R, X, x) + 1 \in D /\ (RankIn(R, X, x) + 1) - 1 = RankIn(R, X, x)
    BY <1>1, <2>1
  <2>3. RankIn(R, X, t[RankIn(R, X, x) + 1]) = RankIn(R, X, x)
    BY <1>2, <2>2
  <2>4. t[RankIn(R, X, x) + 1] = x
    BY <1>2, <2>2, <2>3, RanksOrder
  <2> QED
    BY <2>2, <2>4
<1>5. ASSUME NEW u, Sorted(u, R, X) PROVE u = t
  <2>1. u \in [D -> X] /\ \A i \in D : RankIn(R, X, u[i]) = i - 1
    BY <1>5 DEF Sorted
  <2>2. \A i \in D : u[i] = t[i]
    BY <1>2, <2>1, RanksOrder
  <2> HIDE DEF D
  <2> QED
    BY <1>2, <2>1, <2>2
<1> QED
  BY <1>2, <1>3, <1>4, <1>5 DEF Lists

(* s lists every element of X once, however many there are.                *)
Enumerates(s, X) ==
  /\ s \in Seq(X)
  /\ \A i, j \in 1 .. Len(s) : s[i] = s[j] => i = j
  /\ \A x \in X : \E i \in 1 .. Len(s) : s[i] = x

\* A set that is listed is finite and has as many elements as its list.
LEMMA EnumeratesLists ==
  ASSUME NEW X, NEW s, Enumerates(s, X)
  PROVE  IsFiniteSet(X) /\ Len(s) = Cardinality(X) /\ Lists(s, X)
<1>1. Len(s) \in Nat /\ s \in [1 .. Len(s) -> X]
  BY DEF Enumerates
<1>2. IsFiniteSet(1 .. Len(s)) /\ Cardinality(1 .. Len(s)) = Len(s)
  <2>1. IsFiniteSet(1 .. Len(s))
    BY <1>1, FS_Interval
  <2>2. Cardinality(1 .. Len(s)) = IF 1 > Len(s) THEN 0 ELSE Len(s) - 1 + 1
    BY <1>1, FS_Interval
  <2> QED
    BY <1>1, <2>1, <2>2
<1>3. s \in Surjection(1 .. Len(s), X) /\ s \in Injection(1 .. Len(s), X)
  BY <1>1 DEF Enumerates, Surjection, Injection, IsInjective
<1>4. IsFiniteSet(X) /\ Cardinality(X) <= Len(s)
  BY <1>2, <1>3, FS_Surjection
<1>5. Len(s) <= Cardinality(X)
  BY <1>2, <1>3, <1>4, FS_Injection
<1>6. Len(s) = Cardinality(X)
  BY <1>1, <1>4, <1>5, FS_CardinalityType
<1> QED
  BY <1>1, <1>4, <1>6 DEF Lists, Enumerates

\* The other way round.
LEMMA ListsEnumerates ==
  ASSUME NEW X, IsFiniteSet(X), NEW s, Lists(s, X)
  PROVE  Enumerates(s, X) /\ Len(s) = Cardinality(X)
<1>1. Cardinality(X) \in Nat
  BY FS_CardinalityType
<1>2. s \in Seq(X) /\ Len(s) = Cardinality(X)
  BY <1>1 DEF Lists
<1> QED
  BY <1>2 DEF Lists, Enumerates

\* SetToSeqs(X) has the lists of X only.
LEMMA SetToSeqsEnumerate ==
  ASSUME NEW X, IsFiniteSet(X), NEW s \in SetToSeqs(X)
  PROVE  Enumerates(s, X)
<1> DEFINE n == Cardinality(X)
<1>1. n \in Nat
  BY FS_CardinalityType
<1>2. s \in [1 .. n -> X] /\ \A i, j \in 1 .. n : s[i] = s[j] => i = j
  BY DEF SetToSeqs
<1>3. IsFiniteSet(1 .. n) /\ Cardinality(1 .. n) = n
  <2>1. IsFiniteSet(1 .. n)
    BY <1>1, FS_Interval
  <2>2. Cardinality(1 .. n) = IF 1 > n THEN 0 ELSE n - 1 + 1
    BY <1>1, FS_Interval
  <2> QED
    BY <1>1, <2>1, <2>2
<1>4. s \in Injection(1 .. n, X)
  BY <1>2 DEF Injection, IsInjective
<1>5. s \in Surjection(1 .. n, X)
  BY <1>3, <1>4, FS_Injection
<1>6. \A x \in X : \E i \in 1 .. n : s[i] = x
  BY <1>5 DEF Surjection
<1>7. Lists(s, X)
  BY <1>2, <1>6 DEF Lists
<1> QED
  BY <1>7, ListsEnumerates

\* Two lists of sets that share nothing, one after the other.
LEMMA EnumeratesConcat ==
  ASSUME NEW X, NEW Y, NEW s, NEW t, Enumerates(s, X), Enumerates(t, Y), X \cap Y = {}
  PROVE  Enumerates(s \o t, X \cup Y)
<1> DEFINE u == s \o t
           Z == X \cup Y
<1>1. s \in Seq(Z) /\ t \in Seq(Z) /\ Len(s) \in Nat /\ Len(t) \in Nat
  <2>1. s \in Seq(X) /\ t \in Seq(Y) /\ X \subseteq Z /\ Y \subseteq Z
    BY DEF Enumerates
  <2> HIDE DEF Z
  <2> QED
    BY <2>1
<1>2. /\ u \in Seq(Z) /\ Len(u) = Len(s) + Len(t)
      /\ \A k \in 1 .. Len(s) + Len(t) : u[k] = IF k <= Len(s) THEN s[k] ELSE t[k - Len(s)]
  <2> HIDE DEF Z
  <2> QED
    BY <1>1, ConcatProperties
<1>3. /\ \A i \in 1 .. Len(s) : s[i] \in X
      /\ \A i \in 1 .. Len(t) : t[i] \in Y
  BY DEF Enumerates
<1> HIDE DEF u, Z
<1>4. ASSUME NEW i \in 1 .. Len(u), NEW j \in 1 .. Len(u), u[i] = u[j] PROVE i = j
  <2>1. CASE i <= Len(s) /\ j <= Len(s)
    <3>1. i \in 1 .. Len(s) /\ j \in 1 .. Len(s) /\ s[i] = s[j]
      BY <1>1, <1>2, <1>4, <2>1
    <3> QED
      BY <3>1 DEF Enumerates
  <2>2. CASE i > Len(s) /\ j > Len(s)
    <3> DEFINE a == i - Len(s)
               b == j - Len(s)
    <3>1. a \in 1 .. Len(t) /\ b \in 1 .. Len(t)
      BY <1>1, <1>2, <2>2
    <3>2. t[a] = t[b]
      BY <1>1, <1>2, <1>4, <2>2
    <3>3. a = b
      <4> HIDE DEF a, b
      <4> QED
        BY <3>1, <3>2 DEF Enumerates
    <3> QED
      BY <1>1, <1>2, <3>3
  <2>3. CASE i <= Len(s) /\ j > Len(s)
    <3>1. j - Len(s) \in 1 .. Len(t) /\ i \in 1 .. Len(s)
      BY <1>1, <1>2, <2>3
    <3>2. u[i] = s[i] /\ u[j] = t[j - Len(s)]
      BY <1>1, <1>2, <2>3, <3>1
    <3>3. u[i] \in X /\ u[j] \in Y
      BY <1>3, <3>1, <3>2
    <3> QED
      BY <1>4, <3>3
  <2>4. CASE i > Len(s) /\ j <= Len(s)
    <3>1. i - Len(s) \in 1 .. Len(t) /\ j \in 1 .. Len(s)
      BY <1>1, <1>2, <2>4
    <3>2. u[j] = s[j] /\ u[i] = t[i - Len(s)]
      BY <1>1, <1>2, <2>4, <3>1
    <3>3. u[j] \in X /\ u[i] \in Y
      BY <1>3, <3>1, <3>2
    <3> QED
      BY <1>4, <3>3
  <2> QED
    BY <1>1, <1>2, <2>1, <2>2, <2>3, <2>4
<1>5. ASSUME NEW x \in Z PROVE \E i \in 1 .. Len(u) : u[i] = x
  <2>1. CASE x \in X
    <3>1. PICK i \in 1 .. Len(s) : s[i] = x
      BY <2>1 DEF Enumerates
    <3>2. i \in 1 .. Len(u) /\ u[i] = x
      BY <1>1, <1>2, <3>1
    <3> QED
      BY <3>2
  <2>2. CASE x \in Y
    <3>1. PICK i \in 1 .. Len(t) : t[i] = x
      BY <2>2 DEF Enumerates
    <3> DEFINE k == Len(s) + i
    <3>2. k \in 1 .. Len(u) /\ ~(k <= Len(s)) /\ k - Len(s) = i
      BY <1>1, <1>2, <3>1
    <3>3. u[k] = x
      BY <1>2, <3>1, <3>2
    <3> QED
      BY <3>2, <3>3
  <2> QED
    BY <2>1, <2>2 DEF Z
<1> QED
  BY <1>2, <1>4, <1>5 DEF Enumerates, u, Z

=============================================================================
