---------------------------- MODULE PlanningProofs ----------------------------
(***************************************************************************)
(* What module Planning promises, for every catalogue, every request and   *)
(* every plan a model can write.                                           *)
(***************************************************************************)
EXTENDS Planning, SequenceLemmas, FiniteSetTheorems

Skips == OnlyIn(drafted, Entry \ Kept)

\* What the gate makes of the request.
Runs == {p \in requested : Runnable(p)}
Stays == {p \in requested : ~Runnable(p)}

\* The gate splits the request, and lists no packet twice.
GateInv ==
  /\ Range(candidates) = Runs /\ IsInjective(candidates)
  /\ Range(gateSkips) = Stays /\ IsInjective(gateSkips)

\* A plan's entries were offered to the planner; the suppression splits them into
\* those that keep their worker and those on record as skipped, after the
\* gate's; the fallback's plan is the candidates.
DraftInv ==
  /\ Range(drafted) \subseteq Offered(Workable)
  /\ selected = OnlyIn(drafted, Kept)
  /\ Range(gateSkips) \cup Range(Ids(Skips)) \subseteq Range(Ids(skipped))
  /\ planner = "fallback" => Ids(drafted) = candidates /\ Ids(skipped) = gateSkips \o Ids(Skips)

LaunchInv ==
  launched = Ids(OnlyIn(selected, Offered(Workable))) /\ buckets = BucketByGroup(launched)

PlanInv ==
  /\ PlanTypeOK
  /\ phase # "gating" => GateInv
  /\ Planned => DraftInv
  /\ ~Done => launched = <<>> /\ buckets = <<>>
  /\ Done => LaunchInv

-----------------------------------------------------------------------------
(* Filtering.                                                              *)

\* part tells where in s the elements of the filtered sequence r come from.
TakenFrom(part, r, s, S) ==
  /\ part \in [1 .. Len(r) -> 1 .. Len(s)]
  /\ \A k \in 1 .. Len(r) : r[k] = s[part[k]] /\ r[k] \in S
  /\ \A k, l \in 1 .. Len(r) : k < l => part[k] < part[l]
  /\ \A i \in 1 .. Len(s) : s[i] \in S => \E k \in 1 .. Len(r) : part[k] = i

\* The filter keeps the elements of S, all of them, in their order.
LEMMA OnlyInPicks ==
  ASSUME NEW T, NEW s \in Seq(T), NEW S
  PROVE  OnlyIn(s, S) \in Seq(T) /\ \E part : TakenFrom(part, OnlyIn(s, S), s, S)
<1> DEFINE parts == [i \in DOMAIN s |-> IF s[i] \in S THEN <<s[i]>> ELSE <<>>]
           r == OnlyIn(s, S)
<1>1. Len(s) \in Nat /\ DOMAIN s = 1 .. Len(s) /\ \A i \in 1 .. Len(s) : s[i] \in T
  OBVIOUS
<1>2. r = FlattenSeq(parts)
  BY DEF OnlyIn
<1>3. \A i \in 1 .. Len(s) : parts[i] = IF s[i] \in S THEN <<s[i]>> ELSE <<>>
  BY <1>1
<1>4. parts \in [1 .. Len(s) -> Seq(T)]
  <2>1. \A t \in T : <<t>> \in Seq(T)
    OBVIOUS
  <2>2. <<>> \in Seq(T)
    OBVIOUS
  <2>3. \A i \in 1 .. Len(s) : (IF s[i] \in S THEN <<s[i]>> ELSE <<>>) \in Seq(T)
    BY <1>1, <2>1, <2>2
  <2>4. QED
    BY <1>1, <2>3
<1> HIDE DEF parts, r
<1>5. parts \in Seq(Seq(T)) /\ Len(parts) = Len(s)
  <2>1. \A U, n : n \in Nat /\ parts \in [1 .. n -> U] => parts \in Seq(U) /\ Len(parts) = n
    OBVIOUS
  <2>2. QED
    BY <1>1, <1>4, <2>1
<1>6. \A t : Len(<<t>>) = 1 /\ <<t>>[1] = t
  OBVIOUS
<1>7. Len(<<>>) = 0
  OBVIOUS
<1>8. ASSUME NEW i \in 1 .. Len(s) PROVE (Len(parts[i]) = 1 <=> s[i] \in S) /\ Len(parts[i]) <= 1
  <2>1. CASE s[i] \in S
    <3>1. parts[i] = <<s[i]>>
      BY <1>3, <2>1
    <3>2. Len(parts[i]) = 1
      BY <1>6, <3>1
    <3>3. QED
      BY <2>1, <3>2
  <2>2. CASE s[i] \notin S
    <3>1. parts[i] = <<>>
      BY <1>3, <2>2
    <3>2. Len(parts[i]) = 0
      BY <1>7, <3>1
    <3>3. QED
      BY <2>2, <3>2
  <2>3. QED
    BY <2>1, <2>2
<1>9. \A i \in 1 .. Len(s) : s[i] \in S => parts[i][1] = s[i]
  BY <1>3, <1>6
<1>10. PICK part \in [1 .. Len(r) -> 1 .. Len(parts)] :
         /\ \A k \in 1 .. Len(r) : Len(parts[part[k]]) = 1 /\ r[k] = parts[part[k]][1]
         /\ \A k, l \in 1 .. Len(r) : k < l => part[k] < part[l]
         /\ \A b \in 1 .. Len(parts) : Len(parts[b]) = 1 => \E k \in 1 .. Len(r) : part[k] = b
  <2>1. \A b \in 1 .. Len(parts) : Len(parts[b]) <= 1
    BY <1>5, <1>8
  <2>2. PICK part : ComesFrom(part, parts)
    BY <1>5, <2>1, FlattenAtMostOne
  <2>3. QED
    BY <1>2, <2>2 DEF ComesFrom
<1>11. TakenFrom(part, r, s, S)
  <2>1. part \in [1 .. Len(r) -> 1 .. Len(s)]
    BY <1>5, <1>10
  <2>2. ASSUME NEW k \in 1 .. Len(r) PROVE r[k] = s[part[k]] /\ r[k] \in S
    BY <1>8, <1>9, <1>10, <2>1
  <2>3. \A i \in 1 .. Len(s) : s[i] \in S => \E k \in 1 .. Len(r) : part[k] = i
    BY <1>5, <1>8, <1>10
  <2>4. QED
    BY <1>10, <2>1, <2>2, <2>3 DEF TakenFrom
<1>12. r \in Seq(T)
  <2>1. PICK start : IsOffsets(start, parts)
    BY <1>5, OffsetsExist
  <2>2. QED
    BY <1>2, <1>5, <2>1, FlattenAt
<1>13. QED
  BY <1>11, <1>12 DEF r

\* What is in a sequence.
LEMMA SequenceRange ==
  ASSUME NEW T, NEW s \in Seq(T)
  PROVE  /\ Len(s) \in Nat /\ DOMAIN s = 1 .. Len(s)
         /\ Range(s) = {s[i] : i \in 1 .. Len(s)} /\ Range(s) \subseteq T
         /\ IsInjective(s) <=> \A i, j \in 1 .. Len(s) : s[i] = s[j] => i = j
  BY DEF Range, IsInjective

\* What a selection contains, and that it repeats nothing its list does not.
LEMMA OnlyInRange ==
  ASSUME NEW T, NEW s \in Seq(T), NEW S
  PROVE  /\ OnlyIn(s, S) \in Seq(T \cap S)
         /\ Range(OnlyIn(s, S)) = Range(s) \cap S
         /\ IsInjective(s) => IsInjective(OnlyIn(s, S))
<1> DEFINE r == OnlyIn(s, S)
<1>1. r \in Seq(T)
  BY OnlyInPicks
<1>2. PICK part : TakenFrom(part, r, s, S)
  BY OnlyInPicks
<1>3. /\ part \in [1 .. Len(r) -> 1 .. Len(s)]
      /\ \A k \in 1 .. Len(r) : r[k] = s[part[k]] /\ r[k] \in S
      /\ \A k, l \in 1 .. Len(r) : k < l => part[k] < part[l]
      /\ \A i \in 1 .. Len(s) : s[i] \in S => \E k \in 1 .. Len(r) : part[k] = i
  BY <1>2 DEF TakenFrom
<1> HIDE DEF r
<1>4. /\ Len(r) \in Nat /\ Range(r) = {r[k] : k \in 1 .. Len(r)} /\ DOMAIN r = 1 .. Len(r)
      /\ IsInjective(r) <=> \A k, l \in 1 .. Len(r) : r[k] = r[l] => k = l
  BY <1>1, SequenceRange
<1>5. /\ Len(s) \in Nat /\ Range(s) = {s[i] : i \in 1 .. Len(s)}
      /\ IsInjective(s) <=> \A i, j \in 1 .. Len(s) : s[i] = s[j] => i = j
  BY SequenceRange
<1>6. Range(r) = Range(s) \cap S
  <2>1. ASSUME NEW k \in 1 .. Len(r) PROVE r[k] \in Range(s) \cap S
    BY <1>3, <1>5
  <2>2. ASSUME NEW i \in 1 .. Len(s), s[i] \in S PROVE s[i] \in Range(r)
    BY <1>3, <1>4, <2>2
  <2>3. QED
    BY <1>4, <1>5, <2>1, <2>2
<1>7. r \in Seq(T \cap S)
  <2>1. \A k \in 1 .. Len(r) : r[k] \in T \cap S
    BY <1>1, <1>3
  <2>2. QED
    BY <1>1, <2>1
<1>8. ASSUME IsInjective(s) PROVE IsInjective(r)
  <2> SUFFICES ASSUME NEW k \in 1 .. Len(r), NEW l \in 1 .. Len(r), r[k] = r[l] PROVE k = l
    BY <1>4
  <2>1. part[k] = part[l] /\ part[k] \in Nat
    BY <1>3, <1>5, <1>8
  <2>2. ~(k < l) /\ ~(l < k)
    BY <1>3, <2>1
  <2>3. QED
    BY <2>2
<1>9. QED
  BY <1>6, <1>7, <1>8 DEF r

\* Concatenation: what is in it, and when nothing is in it twice.
LEMMA ConcatRange ==
  ASSUME NEW T, NEW s \in Seq(T), NEW t \in Seq(T)
  PROVE  /\ s \o t \in Seq(T)
         /\ Range(s \o t) = Range(s) \cup Range(t)
         /\ IsInjective(s) /\ IsInjective(t) /\ Range(s) \cap Range(t) = {} => IsInjective(s \o t)
<1> DEFINE u == s \o t
           m == Len(s)
           n == Len(t)
<1>1. /\ u \in Seq(T) /\ Len(u) = m + n
      /\ \A i \in 1 .. m + n : u[i] = IF i <= m THEN s[i] ELSE t[i - m]
  BY ConcatProperties
<1>2. /\ m \in Nat /\ Range(s) = {s[i] : i \in 1 .. m}
      /\ IsInjective(s) <=> \A i, j \in 1 .. m : s[i] = s[j] => i = j
  BY SequenceRange
<1>3. /\ n \in Nat /\ Range(t) = {t[i] : i \in 1 .. n}
      /\ IsInjective(t) <=> \A i, j \in 1 .. n : t[i] = t[j] => i = j
  BY SequenceRange
<1> HIDE DEF u, m, n
<1>4. /\ Range(u) = {u[i] : i \in 1 .. m + n}
      /\ IsInjective(u) <=> \A i, j \in 1 .. m + n : u[i] = u[j] => i = j
  BY <1>1, SequenceRange
<1>5. \A i \in 1 .. m + n : \/ i \in 1 .. m /\ u[i] = s[i]
                            \/ i - m \in 1 .. n /\ u[i] = t[i - m]
  BY <1>1, <1>2, <1>3
<1>6. \A i \in 1 .. m : i \in 1 .. m + n /\ u[i] = s[i]
  BY <1>1, <1>2, <1>3
<1>7. \A i \in 1 .. n : m + i \in 1 .. m + n /\ u[m + i] = t[i]
  <2> SUFFICES ASSUME NEW i \in 1 .. n PROVE m + i \in 1 .. m + n /\ u[m + i] = t[i]
    OBVIOUS
  <2>1. m + i \in 1 .. m + n /\ ~(m + i <= m) /\ (m + i) - m = i
    BY <1>2, <1>3
  <2>2. QED
    BY <1>1, <2>1
<1>8. Range(u) = Range(s) \cup Range(t)
  <2>1. ASSUME NEW i \in 1 .. m + n PROVE u[i] \in Range(s) \cup Range(t)
    BY <1>2, <1>3, <1>5
  <2>2. \A i \in 1 .. m : s[i] \in Range(u)
    BY <1>4, <1>6
  <2>3. \A i \in 1 .. n : t[i] \in Range(u)
    <3> SUFFICES ASSUME NEW i \in 1 .. n PROVE t[i] \in Range(u)
      OBVIOUS
    <3>1. m + i \in 1 .. m + n /\ u[m + i] = t[i]
      BY <1>7
    <3>2. QED
      BY <1>4, <3>1
  <2>4. Range(u) \subseteq Range(s) \cup Range(t)
    BY <1>4, <2>1
  <2>5. Range(s) \subseteq Range(u)
    BY <1>2, <2>2
  <2>6. Range(t) \subseteq Range(u)
    BY <1>3, <2>3
  <2>7. QED
    BY <2>4, <2>5, <2>6
<1>9. ASSUME IsInjective(s), IsInjective(t), Range(s) \cap Range(t) = {} PROVE IsInjective(u)
  <2> SUFFICES ASSUME NEW i \in 1 .. m + n, NEW j \in 1 .. m + n, u[i] = u[j] PROVE i = j
    BY <1>4
  <2>1. \A k \in 1 .. m : s[k] \in Range(s)
    BY <1>2
  <2>2. \A k \in 1 .. n : t[k] \in Range(t)
    BY <1>3
  <2>3. CASE i \in 1 .. m /\ u[i] = s[i]
    <3>1. ~(j - m \in 1 .. n /\ u[j] = t[j - m])
      BY <1>9, <2>1, <2>2, <2>3
    <3>2. j \in 1 .. m /\ u[j] = s[j]
      BY <1>5, <3>1
    <3>3. QED
      BY <1>2, <1>9, <2>3, <3>2
  <2>4. CASE i - m \in 1 .. n /\ u[i] = t[i - m]
    <3>1. ~(j \in 1 .. m /\ u[j] = s[j])
      BY <1>9, <2>1, <2>2, <2>4
    <3>2. j - m \in 1 .. n /\ u[j] = t[j - m]
      BY <1>5, <3>1
    <3>3. i - m = j - m
      BY <1>3, <1>9, <2>4, <3>2
    <3>4. QED
      BY <1>2, <1>3, <3>3
  <2>5. QED
    BY <1>5, <2>3, <2>4
<1>10. QED
  BY <1>1, <1>8, <1>9 DEF u

\* The ids of a list of entries.
LEMMA IdsRange ==
  ASSUME NEW s \in Seq(Entry)
  PROVE  /\ Ids(s) \in Seq(Packet \cup {Foreign})
         /\ Range(Ids(s)) = {e.id : e \in Range(s)}
         /\ \A S : IsInjective(Ids(s)) => IsInjective(Ids(OnlyIn(s, S)))
<1>1. Len(s) \in Nat /\ DOMAIN s = 1 .. Len(s) /\ \A i \in 1 .. Len(s) : s[i] \in Entry
  OBVIOUS
<1>2. \A e \in Entry : e.id \in Packet \cup {Foreign}
  BY DEF Entry
<1>3. Ids(s) \in Seq(Packet \cup {Foreign})
  BY <1>1, <1>2 DEF Ids
<1>4. Range(Ids(s)) = {e.id : e \in Range(s)}
  BY <1>1 DEF Ids, Range
<1>5. ASSUME NEW S, IsInjective(Ids(s)) PROVE IsInjective(Ids(OnlyIn(s, S)))
  <2> DEFINE r == OnlyIn(s, S)
  <2>1. r \in Seq(Entry)
    BY OnlyInPicks
  <2>2. PICK part : TakenFrom(part, r, s, S)
    BY OnlyInPicks
  <2> HIDE DEF r
  <2>3. Len(r) \in Nat /\ DOMAIN r = 1 .. Len(r)
    BY <2>1
  <2>4. ASSUME NEW k \in 1 .. Len(r), NEW l \in 1 .. Len(r), r[k].id = r[l].id PROVE k = l
    <3>1. part[k] \in 1 .. Len(s) /\ part[l] \in 1 .. Len(s) /\ r[k] = s[part[k]] /\ r[l] = s[part[l]]
      BY <2>2 DEF TakenFrom
    <3>2. part[k] = part[l]
      BY <1>1, <1>5, <2>4, <3>1 DEF IsInjective, Ids
    <3>3. part[k] \in Nat
      BY <1>1, <3>1
    <3>4. ~(k < l) /\ ~(l < k)
      BY <2>2, <3>2, <3>3 DEF TakenFrom
    <3>5. QED
      BY <2>3, <3>4
  <2>5. QED
    BY <2>3, <2>4 DEF IsInjective, Ids, r
<1>6. QED
  BY <1>3, <1>4, <1>5

\* The ids of a list, one for each entry and in its place.
LEMMA IdsAt ==
  ASSUME NEW T, NEW s \in Seq([id : T, decision : Decision])
  PROVE  /\ Len(s) \in Nat /\ Ids(s) \in Seq(T) /\ Len(Ids(s)) = Len(s)
         /\ \A i \in 1 .. Len(s) : Ids(s)[i] = s[i].id
<1> DEFINE E == [id : T, decision : Decision]
<1>1. \A e \in E : e.id \in T
  OBVIOUS
<1> HIDE DEF E
<1>2. s \in Seq(E)
  BY DEF E
<1>3. Len(s) \in Nat /\ DOMAIN s = 1 .. Len(s) /\ \A i \in 1 .. Len(s) : s[i] \in E
  BY <1>2
<1>4. \A i \in 1 .. Len(s) : s[i].id \in T
  BY <1>1, <1>3
<1>5. Ids(s) \in [1 .. Len(s) -> T] /\ \A i \in 1 .. Len(s) : Ids(s)[i] = s[i].id
  BY <1>3, <1>4 DEF Ids
<1>6. \A U, n, f : n \in Nat /\ f \in [1 .. n -> U] => f \in Seq(U) /\ Len(f) = n
  OBVIOUS
<1>7. QED
  BY <1>3, <1>5, <1>6

\* The ids of two lists of entries, one after the other.
LEMMA IdsConcat ==
  ASSUME NEW T, NEW a \in Seq([id : T, decision : Decision]), NEW b \in Seq([id : T, decision : Decision])
  PROVE  Ids(a \o b) = Ids(a) \o Ids(b)
<1> DEFINE E == [id : T, decision : Decision]
           x == Ids(a \o b)
           y == Ids(a) \o Ids(b)
           m == Len(a)
           n == Len(b)
<1>1. /\ a \o b \in Seq(E) /\ Len(a \o b) = m + n
      /\ \A i \in 1 .. m + n : (a \o b)[i] = IF i <= m THEN a[i] ELSE b[i - m]
  BY ConcatProperties
<1>2. m \in Nat /\ Ids(a) \in Seq(T) /\ Len(Ids(a)) = m /\ \A i \in 1 .. m : Ids(a)[i] = a[i].id
  BY IdsAt
<1>3. n \in Nat /\ Ids(b) \in Seq(T) /\ Len(Ids(b)) = n /\ \A i \in 1 .. n : Ids(b)[i] = b[i].id
  BY IdsAt
<1>4. x \in Seq(T) /\ Len(x) = Len(a \o b) /\ \A i \in 1 .. Len(a \o b) : x[i] = (a \o b)[i].id
  BY <1>1, IdsAt
<1>5. /\ y \in Seq(T) /\ Len(y) = Len(Ids(a)) + Len(Ids(b))
      /\ \A i \in 1 .. Len(Ids(a)) + Len(Ids(b)) :
           y[i] = IF i <= Len(Ids(a)) THEN Ids(a)[i] ELSE Ids(b)[i - Len(Ids(a))]
  <2> HIDE DEF y, m, n
  <2>1. y = Ids(a) \o Ids(b)
    BY DEF y
  <2>2. QED
    BY <1>2, <1>3, <2>1, ConcatProperties
<1> HIDE DEF x, y, m, n
<1>6. /\ Len(y) = m + n
      /\ \A i \in 1 .. m + n : y[i] = IF i <= m THEN Ids(a)[i] ELSE Ids(b)[i - m]
  BY <1>2, <1>3, <1>5
<1>7. ASSUME NEW i \in 1 .. m + n PROVE x[i] = y[i]
  <2>1. CASE i <= m
    <3>1. i \in 1 .. m
      BY <1>2, <1>3, <2>1
    <3>2. x[i] = a[i].id
      BY <1>1, <1>4, <2>1
    <3>3. y[i] = Ids(a)[i]
      BY <1>6, <2>1
    <3>4. QED
      BY <1>2, <3>1, <3>2, <3>3
  <2>2. CASE ~(i <= m)
    <3>1. i - m \in 1 .. n
      BY <1>2, <1>3, <2>2
    <3>2. x[i] = b[i - m].id
      BY <1>1, <1>4, <2>2
    <3>3. y[i] = Ids(b)[i - m]
      BY <1>6, <2>2
    <3>4. QED
      BY <1>3, <3>1, <3>2, <3>3
  <2>3. QED
    BY <2>1, <2>2
<1>8. x = y
  BY <1>1, <1>4, <1>5, <1>6, <1>7
<1>9. QED
  BY <1>8 DEF x, y

\* Entries made of ids.
LEMMA EntriesIds ==
  ASSUME NEW T, NEW ids \in Seq(T), NEW d \in Decision
  PROVE  /\ Entries(ids, d) \in Seq([id : T, decision : Decision])
         /\ Ids(Entries(ids, d)) = ids
<1>1. Len(ids) \in Nat /\ DOMAIN ids = 1 .. Len(ids) /\ \A i \in 1 .. Len(ids) : ids[i] \in T
  OBVIOUS
<1>2. Entries(ids, d) \in [1 .. Len(ids) -> [id : T, decision : Decision]]
  BY <1>1 DEF Entries
<1>3. Entries(ids, d) \in Seq([id : T, decision : Decision])
  <2>1. \A U, n, f : n \in Nat /\ f \in [1 .. n -> U] => f \in Seq(U)
    OBVIOUS
  <2>2. QED
    BY <1>1, <1>2, <2>1
<1>4. Ids(Entries(ids, d)) = ids
  <2>1. DOMAIN Entries(ids, d) = DOMAIN ids /\ \A i \in DOMAIN ids : Entries(ids, d)[i].id = ids[i]
    BY DEF Entries
  <2>2. Ids(Entries(ids, d)) = [i \in DOMAIN ids |-> ids[i]]
    BY <2>1 DEF Ids
  <2>3. ids = [i \in DOMAIN ids |-> ids[i]]
    OBVIOUS
  <2>4. QED
    BY <2>2, <2>3
<1>5. QED
  BY <1>3, <1>4

-----------------------------------------------------------------------------
(* Buckets.                                                                *)

\* The places that open a bucket, and their list.
Opens(ps) ==
  {i \in DOMAIN ps : ~Grouped(ps[i]) \/ \A j \in 1 .. i - 1 : GroupOf[ps[j]] # GroupOf[ps[i]]}
Places(ps) == OnlyIn([i \in DOMAIN ps |-> i], Opens(ps))
BucketAt(ps, i) == IF Grouped(ps[i]) THEN Mates(ps, ps[i]) ELSE <<ps[i]>>

\* The buckets, one per place that opens one.
LEMMA BucketsAtPlaces ==
  ASSUME NEW ps
  PROVE  BucketByGroup(ps) = [b \in DOMAIN Places(ps) |-> BucketAt(ps, Places(ps)[b])]
  BY DEF BucketByGroup, Places, Opens, BucketAt

\* The list has every place that opens a bucket, in order.
LEMMA PlacesInOrder ==
  ASSUME NEW T, NEW ps \in Seq(T)
  PROVE  /\ Places(ps) \in Seq(1 .. Len(ps)) /\ Range(Places(ps)) = Opens(ps)
         /\ \A b, c \in DOMAIN Places(ps) : b < c => Places(ps)[b] < Places(ps)[c]
<1> DEFINE id == [i \in DOMAIN ps |-> i]
           n == Len(ps)
           r == Places(ps)
<1>1. n \in Nat /\ DOMAIN ps = 1 .. n
  OBVIOUS
<1>2. id \in [1 .. n -> 1 .. n] /\ \A i \in 1 .. n : id[i] = i
  BY <1>1
<1>3. r = OnlyIn(id, Opens(ps))
  BY DEF Places
<1> HIDE DEF id, n, r
<1>4. id \in Seq(1 .. n) /\ Len(id) = n
  <2>1. \A U, m, f : m \in Nat /\ f \in [1 .. m -> U] => f \in Seq(U) /\ Len(f) = m
    OBVIOUS
  <2>2. QED
    BY <1>1, <1>2, <2>1
<1>5. r \in Seq(1 .. n)
  BY <1>3, <1>4, OnlyInPicks
<1>6. Range(r) = Opens(ps)
  <2>1. Range(r) = Range(id) \cap Opens(ps)
    BY <1>3, <1>4, OnlyInRange
  <2>2. Range(id) = 1 .. n
    BY <1>2 DEF Range
  <2>3. Opens(ps) \subseteq 1 .. n
    BY <1>1 DEF Opens
  <2>4. QED
    BY <2>1, <2>2, <2>3
<1>7. \A b, c \in DOMAIN r : b < c => r[b] < r[c]
  <2>1. PICK part : TakenFrom(part, r, id, Opens(ps))
    BY <1>3, <1>4, OnlyInPicks
  <2>2. DOMAIN r = 1 .. Len(r)
    BY <1>5
  <2>3. \A k \in 1 .. Len(r) : r[k] = part[k]
    BY <1>2, <1>4, <2>1 DEF TakenFrom
  <2>4. QED
    BY <2>1, <2>2, <2>3 DEF TakenFrom
<1>8. QED
  BY <1>5, <1>6, <1>7 DEF n, r

\* A bucket has packets of the list, at least the one that opened it.
LEMMA BucketAtPlace ==
  ASSUME NEW T \in SUBSET Packet, NEW ps \in Seq(T), NEW i \in 1 .. Len(ps)
  PROVE  /\ BucketAt(ps, i) \in Seq(T)
         /\ ps[i] \in Range(BucketAt(ps, i))
         /\ BucketAt(ps, i) # <<>>
         /\ Grouped(ps[i]) => Range(BucketAt(ps, i)) = {q \in Range(ps) : GroupOf[q] = GroupOf[ps[i]]}
         /\ ~Grouped(ps[i]) => BucketAt(ps, i) = <<ps[i]>>
<1>1. ps[i] \in T /\ ps[i] \in Range(ps) /\ Range(ps) \subseteq T
  BY DEF Range
<1>2. CASE Grouped(ps[i])
  <2> DEFINE S == {q \in Packet : GroupOf[q] = GroupOf[ps[i]]}
  <2>1. BucketAt(ps, i) = OnlyIn(ps, S)
    BY <1>2 DEF BucketAt, Mates
  <2>2. OnlyIn(ps, S) \in Seq(T) /\ Range(OnlyIn(ps, S)) = Range(ps) \cap S
    BY OnlyInPicks, OnlyInRange
  <2>3. Range(ps) \cap S = {q \in Range(ps) : GroupOf[q] = GroupOf[ps[i]]}
    BY <1>1
  <2>4. ps[i] \in Range(OnlyIn(ps, S))
    BY <1>1, <2>2, <2>3
  <2>5. Range(<<>>) = {}
    BY DEF Range
  <2>6. QED
    BY <1>2, <2>1, <2>2, <2>3, <2>4, <2>5
<1>3. CASE ~Grouped(ps[i])
  <2>1. BucketAt(ps, i) = <<ps[i]>>
    BY <1>3 DEF BucketAt
  <2>2. <<ps[i]>> \in Seq(T) /\ <<ps[i]>> # <<>>
    BY <1>1
  <2>3. 1 \in DOMAIN <<ps[i]>> /\ <<ps[i]>>[1] = ps[i]
    OBVIOUS
  <2>4. ps[i] \in Range(<<ps[i]>>)
    BY <2>3 DEF Range
  <2>5. QED
    BY <1>3, <2>1, <2>2, <2>4
<1>4. QED
  BY <1>2, <1>3

\* Buckets of packets of T are sequences of packets of T, and none is empty.
LEMMA BucketsType ==
  ASSUME NEW T \in SUBSET Packet, NEW ps \in Seq(T)
  PROVE  BucketByGroup(ps) \in Seq(Seq(T) \ {<<>>})
<1> DEFINE r == Places(ps)
           B == BucketByGroup(ps)
<1>1. r \in Seq(1 .. Len(ps))
  BY PlacesInOrder
<1>2. Len(r) \in Nat /\ DOMAIN r = 1 .. Len(r) /\ \A b \in 1 .. Len(r) : r[b] \in 1 .. Len(ps)
  BY <1>1
<1>3. B = [b \in DOMAIN r |-> BucketAt(ps, r[b])]
  BY BucketsAtPlaces
<1> HIDE DEF r, B
<1>4. \A b \in 1 .. Len(r) : BucketAt(ps, r[b]) \in Seq(T) \ {<<>>}
  BY <1>2, BucketAtPlace
<1>5. B \in [1 .. Len(r) -> Seq(T) \ {<<>>}]
  BY <1>2, <1>3, <1>4
<1>6. \A U, n, f : n \in Nat /\ f \in [1 .. n -> U] => f \in Seq(U)
  OBVIOUS
<1>7. QED
  BY <1>2, <1>5, <1>6 DEF B

-----------------------------------------------------------------------------
(* What the buckets hold.                                                  *)

\* The places of the list that the bucket opened at i takes.
Members(ps, i) ==
  IF Grouped(ps[i]) THEN {j \in 1 .. Len(ps) : GroupOf[ps[j]] = GroupOf[ps[i]]} ELSE {i}

\* from tells which place of the list each packet of that bucket comes from.
Sources(from, ps, i) ==
  /\ from \in [1 .. Len(BucketAt(ps, i)) -> Members(ps, i)]
  /\ \A k \in 1 .. Len(BucketAt(ps, i)) : BucketAt(ps, i)[k] = ps[from[k]]
  /\ \A k, l \in 1 .. Len(BucketAt(ps, i)) : k < l => from[k] < from[l]
  /\ \A j \in Members(ps, i) : \E k \in 1 .. Len(BucketAt(ps, i)) : from[k] = j

\* A bucket takes each of its places once, in order.
LEMMA BucketSources ==
  ASSUME NEW T \in SUBSET Packet, NEW ps \in Seq(T), NEW i \in 1 .. Len(ps)
  PROVE  \E from : Sources(from, ps, i)
<1>1. Len(ps) \in Nat /\ \A j \in 1 .. Len(ps) : ps[j] \in Packet
  OBVIOUS
<1>2. CASE Grouped(ps[i])
  <2> DEFINE S == {q \in Packet : GroupOf[q] = GroupOf[ps[i]]}
             r == OnlyIn(ps, S)
  <2>1. BucketAt(ps, i) = r
    BY <1>2 DEF BucketAt, Mates
  <2>2. PICK from : TakenFrom(from, r, ps, S)
    BY OnlyInPicks
  <2>3. Members(ps, i) = {j \in 1 .. Len(ps) : GroupOf[ps[j]] = GroupOf[ps[i]]}
    BY <1>2 DEF Members
  <2>4. \A j \in 1 .. Len(ps) : j \in Members(ps, i) <=> ps[j] \in S
    BY <1>1, <2>3
  <2> HIDE DEF S, r
  <2>5. /\ from \in [1 .. Len(r) -> 1 .. Len(ps)]
        /\ \A k \in 1 .. Len(r) : r[k] = ps[from[k]] /\ r[k] \in S
        /\ \A k, l \in 1 .. Len(r) : k < l => from[k] < from[l]
        /\ \A j \in 1 .. Len(ps) : ps[j] \in S => \E k \in 1 .. Len(r) : from[k] = j
    BY <2>2 DEF TakenFrom
  <2>6. \A k \in 1 .. Len(r) : from[k] \in Members(ps, i)
    BY <2>4, <2>5
  <2>7. from \in [1 .. Len(r) -> Members(ps, i)]
    BY <2>5, <2>6
  <2>8. \A j \in Members(ps, i) : \E k \in 1 .. Len(r) : from[k] = j
    BY <2>3, <2>4, <2>5
  <2>9. Sources(from, ps, i)
    BY <2>1, <2>5, <2>7, <2>8 DEF Sources
  <2>10. QED
    BY <2>9
<1>3. CASE ~Grouped(ps[i])
  <2>1. BucketAt(ps, i) = <<ps[i]>> /\ Members(ps, i) = {i}
    BY <1>3 DEF BucketAt, Members
  <2>2. Len(BucketAt(ps, i)) = 1 /\ BucketAt(ps, i)[1] = ps[i]
    BY <2>1
  <2> DEFINE from == [k \in 1 .. 1 |-> i]
  <2>3. from \in [1 .. 1 -> {i}] /\ from[1] = i /\ \A k, l \in 1 .. 1 : k = 1 /\ l = 1 /\ ~(k < l)
    OBVIOUS
  <2> HIDE DEF from
  <2>4. Sources(from, ps, i)
    BY <2>1, <2>2, <2>3 DEF Sources
  <2>5. QED
    BY <2>4
<1>4. QED
  BY <1>2, <1>3

\* Every place of the list is taken by one of the buckets, and by no other.
LEMMA MembersSplit ==
  ASSUME NEW T, NEW ps \in Seq(T), NEW j \in 1 .. Len(ps)
  PROVE  /\ \E o \in Opens(ps) : j \in Members(ps, o)
         /\ \A o, u \in Opens(ps) : j \in Members(ps, o) /\ j \in Members(ps, u) => o = u
<1>1. Len(ps) \in Nat /\ DOMAIN ps = 1 .. Len(ps)
  OBVIOUS
<1>2. \A o \in Opens(ps) : /\ o \in 1 .. Len(ps)
                           /\ Grouped(ps[o]) => \A i \in 1 .. o - 1 : GroupOf[ps[i]] # GroupOf[ps[o]]
  BY <1>1 DEF Opens
<1>3. CASE ~Grouped(ps[j])
  <2>1. j \in Opens(ps) /\ j \in Members(ps, j)
    BY <1>1, <1>3 DEF Opens, Members
  <2>2. ASSUME NEW o \in Opens(ps), j \in Members(ps, o) PROVE o = j
    BY <1>3, <2>2 DEF Members, Grouped
  <2>3. QED
    BY <2>1, <2>2
<1>4. CASE Grouped(ps[j])
  <2> DEFINE S == {i \in 1 .. Len(ps) : GroupOf[ps[i]] = GroupOf[ps[j]]}
  <2>1. S \in SUBSET Nat /\ S # {}
    BY <1>1
  <2>2. PICK o \in S : \A i \in S : ~(i < o)
    BY <2>1, LeastElement
  <2>3. o \in Nat /\ o \in 1 .. Len(ps) /\ GroupOf[ps[o]] = GroupOf[ps[j]]
    BY <1>1
  <2>4. ASSUME NEW i \in 1 .. o - 1 PROVE GroupOf[ps[i]] # GroupOf[ps[o]]
    <3>1. i \in 1 .. Len(ps) /\ i < o
      BY <1>1, <2>3
    <3>2. QED
      BY <2>2, <2>3, <3>1
  <2>5. o \in Opens(ps)
    BY <1>1, <2>3, <2>4 DEF Opens
  <2>6. j \in Members(ps, o)
    BY <1>4, <2>3 DEF Members, Grouped
  <2>7. ASSUME NEW u \in Opens(ps), NEW v \in Opens(ps), j \in Members(ps, u), j \in Members(ps, v)
        PROVE  u = v
    <3>1. /\ Grouped(ps[u]) /\ GroupOf[ps[u]] = GroupOf[ps[j]]
          /\ Grouped(ps[v]) /\ GroupOf[ps[v]] = GroupOf[ps[j]]
      BY <1>4, <2>7 DEF Members, Grouped
    <3>2. u \in 1 .. Len(ps) /\ v \in 1 .. Len(ps)
      BY <1>2
    <3>3. u \notin 1 .. v - 1 /\ v \notin 1 .. u - 1
      BY <1>2, <3>1
    <3>4. QED
      BY <1>1, <3>2, <3>3
  <2>8. QED
    BY <2>5, <2>6, <2>7
<1>5. QED
  BY <1>3, <1>4

\* A bucket begins with the packet that opened it.
LEMMA BucketFirst ==
  ASSUME NEW T \in SUBSET Packet, NEW ps \in Seq(T), NEW o \in Opens(ps)
  PROVE  BucketAt(ps, o)[1] = ps[o]
<1>1. Len(ps) \in Nat /\ DOMAIN ps = 1 .. Len(ps) /\ o \in 1 .. Len(ps)
  BY DEF Opens
<1>2. CASE ~Grouped(ps[o])
  <2>1. BucketAt(ps, o) = <<ps[o]>>
    BY <1>2 DEF BucketAt
  <2>2. QED
    BY <2>1
<1>3. CASE Grouped(ps[o])
  <2> DEFINE r == BucketAt(ps, o)
  <2>1. PICK from : Sources(from, ps, o)
    BY <1>1, BucketSources
  <2>2. Len(r) \in Nat
    BY <1>1, BucketAtPlace
  <2>3. Members(ps, o) = {j \in 1 .. Len(ps) : GroupOf[ps[j]] = GroupOf[ps[o]]}
    BY <1>3 DEF Members
  <2>4. o \in Members(ps, o) /\ \A j \in Members(ps, o) : j \notin 1 .. o - 1
    BY <1>1, <1>3, <2>3 DEF Opens
  <2>5. PICK k \in 1 .. Len(r) : from[k] = o
    BY <2>1, <2>4 DEF Sources
  <2>6. 1 \in 1 .. Len(r)
    BY <2>2
  <2>7. from[1] \in Members(ps, o)
    BY <2>1, <2>6 DEF Sources
  <2>8. ~(from[1] < o)
    <3>1. from[1] \in 1 .. Len(ps)
      BY <2>3, <2>7
    <3>2. QED
      BY <1>1, <2>4, <2>7, <3>1
  <2>9. ~(1 < k)
    BY <2>1, <2>5, <2>6, <2>8 DEF Sources
  <2>10. k = 1
    BY <2>2, <2>9
  <2>11. QED
    BY <2>1, <2>5, <2>10 DEF Sources
<1>4. QED
  BY <1>2, <1>3

\* Sequences whose places pair up hold every element as often as each other.
LEMMA PairedPlaces ==
  ASSUME NEW T, NEW s \in Seq(T), NEW t \in Seq(T), NEW X,
         NEW pos \in Bijection(X, 1 .. Len(t)), NEW src \in Bijection(X, 1 .. Len(s)),
         \A x \in X : t[pos[x]] = s[src[x]], NEW p
  PROVE  Occurrences(p, t) = Occurrences(p, s)
<1> DEFINE Y == {x \in X : t[pos[x]] = p}
           K == {k \in DOMAIN t : t[k] = p}
           J == {j \in DOMAIN s : s[j] = p}
           g == [x \in Y |-> pos[x]]
           h == [x \in Y |-> src[x]]
<1>1. DOMAIN t = 1 .. Len(t) /\ DOMAIN s = 1 .. Len(s) /\ Len(t) \in Int
  OBVIOUS
<1>2. /\ pos \in [X -> 1 .. Len(t)] /\ \A x, y \in X : pos[x] = pos[y] => x = y
      /\ \A k \in 1 .. Len(t) : \E x \in X : pos[x] = k
  BY DEF Bijection, Injection, Surjection, IsInjective
<1>3. /\ src \in [X -> 1 .. Len(s)] /\ \A x, y \in X : src[x] = src[y] => x = y
      /\ \A j \in 1 .. Len(s) : \E x \in X : src[x] = j
  BY DEF Bijection, Injection, Surjection, IsInjective
<1>4. /\ g \in [Y -> K] /\ \A x, y \in Y : g[x] = g[y] => x = y
      /\ \A k \in K : \E x \in Y : g[x] = k
  BY <1>1, <1>2
<1>5. /\ h \in [Y -> J] /\ \A x, y \in Y : h[x] = h[y] => x = y
      /\ \A j \in J : \E x \in Y : h[x] = j
  BY <1>1, <1>3
<1>6. K \in SUBSET (1 .. Len(t))
  BY <1>1
<1> HIDE DEF Y, K, J, g, h
<1>7. g \in Bijection(Y, K) /\ g \in Injection(Y, K)
  BY <1>4 DEF Bijection, Injection, Surjection, IsInjective
<1>8. h \in Bijection(Y, J)
  BY <1>5 DEF Bijection, Injection, Surjection, IsInjective
<1>9. IsFiniteSet(K)
  <2>1. IsFiniteSet(1 .. Len(t))
    BY <1>1, FS_Interval
  <2>2. QED
    BY <1>6, <2>1, FS_Subset
<1>10. IsFiniteSet(Y)
  BY <1>7, <1>9, FS_Injection
<1>11. Cardinality(K) = Cardinality(Y)
  BY <1>7, <1>10, FS_Bijection DEF ExistsBijection
<1>12. Cardinality(J) = Cardinality(Y)
  BY <1>8, <1>10, FS_Bijection DEF ExistsBijection
<1>13. QED
  BY <1>11, <1>12 DEF Occurrences, K, J

\* The parts take every place of s once: from[b][i] is the place of s that is at
\* place i of part b.
TakesEach(from, parts, s) ==
  /\ \A b \in 1 .. Len(parts) : \A i \in 1 .. Len(parts[b]) :
       from[b][i] \in 1 .. Len(s) /\ parts[b][i] = s[from[b][i]]
  /\ \A b, c \in 1 .. Len(parts) : \A i \in 1 .. Len(parts[b]), j \in 1 .. Len(parts[c]) :
       from[b][i] = from[c][j] => b = c /\ i = j
  /\ \A m \in 1 .. Len(s) : \E b \in 1 .. Len(parts) : \E i \in 1 .. Len(parts[b]) : from[b][i] = m

\* One after the other they hold every element as often as s does.
LEMMA PartsHoldAll ==
  ASSUME NEW T, NEW s \in Seq(T), NEW parts \in Seq(Seq(T)), NEW from, NEW p,
         TakesEach(from, parts, s)
  PROVE  Occurrences(p, FlattenSeq(parts)) = Occurrences(p, s)
<1> DEFINE N == Len(parts)
           F == FlattenSeq(parts)
           X == {x \in (1 .. N) \X Nat : x[2] \in 1 .. Len(parts[x[1]])}
<1>1. F \in Seq(T)
  BY FlattenLaysOut
<1>2. PICK start : LaysOut(start, parts)
  BY FlattenLaysOut
<1>3. \A b \in 1 .. N : \A i \in 1 .. Len(parts[b]) :
        start[b - 1] + i \in 1 .. Len(F) /\ F[start[b - 1] + i] = parts[b][i]
  BY <1>2 DEF LaysOut
<1>4. /\ \A k \in 1 .. Len(F) : \E b \in 1 .. N : \E i \in 1 .. Len(parts[b]) : k = start[b - 1] + i
      /\ \A b, c \in 1 .. N : \A i \in 1 .. Len(parts[b]), j \in 1 .. Len(parts[c]) :
           start[b - 1] + i = start[c - 1] + j => b = c /\ i = j
  BY <1>2 DEF LaysOut
<1>5. \A b \in 1 .. N : \A i \in 1 .. Len(parts[b]) : <<b, i>> \in X
  OBVIOUS
<1>6. \A x \in X : /\ x[1] \in 1 .. N /\ x[2] \in 1 .. Len(parts[x[1]]) /\ x = <<x[1], x[2]>>
  OBVIOUS
<1> HIDE DEF N, F, X
<1> DEFINE pos == [x \in X |-> start[x[1] - 1] + x[2]]
           src == [x \in X |-> from[x[1]][x[2]]]
<1>7. \A b \in 1 .. N : \A i \in 1 .. Len(parts[b]) :
        pos[<<b, i>>] = start[b - 1] + i /\ src[<<b, i>>] = from[b][i]
  BY <1>5
<1>8. pos \in Bijection(X, 1 .. Len(F))
  <2>1. pos \in [X -> 1 .. Len(F)]
    BY <1>3, <1>6
  <2>2. ASSUME NEW x \in X, NEW y \in X, pos[x] = pos[y] PROVE x = y
    <3> DEFINE b == x[1]
               i == x[2]
               c == y[1]
               j == y[2]
    <3>1. start[b - 1] + i = start[c - 1] + j
      BY <2>2
    <3>2. b \in 1 .. N /\ i \in 1 .. Len(parts[b]) /\ c \in 1 .. N /\ j \in 1 .. Len(parts[c])
      BY <1>6
    <3> HIDE DEF b, i, c, j
    <3>3. b = c /\ i = j
      BY <1>4, <3>1, <3>2
    <3>4. QED
      BY <1>6, <3>3 DEF b, i, c, j
  <2>3. ASSUME NEW k \in 1 .. Len(F) PROVE \E x \in X : pos[x] = k
    <3>1. PICK b \in 1 .. N : \E i \in 1 .. Len(parts[b]) : k = start[b - 1] + i
      BY <1>4
    <3>2. PICK i \in 1 .. Len(parts[b]) : k = start[b - 1] + i
      BY <3>1
    <3>3. <<b, i>> \in X /\ pos[<<b, i>>] = k
      BY <1>5, <1>7, <3>2
    <3>4. QED
      BY <3>3
  <2>4. DOMAIN pos = X
    OBVIOUS
  <2> HIDE DEF pos
  <2>5. QED
    BY <2>1, <2>2, <2>3, <2>4 DEF Bijection, Injection, Surjection, IsInjective
<1>9. src \in Bijection(X, 1 .. Len(s))
  <2>1. /\ \A b \in 1 .. N : \A i \in 1 .. Len(parts[b]) : from[b][i] \in 1 .. Len(s)
        /\ \A b, c \in 1 .. N : \A i \in 1 .. Len(parts[b]), j \in 1 .. Len(parts[c]) :
             from[b][i] = from[c][j] => b = c /\ i = j
        /\ \A m \in 1 .. Len(s) : \E b \in 1 .. N : \E i \in 1 .. Len(parts[b]) : from[b][i] = m
    BY DEF TakesEach, N
  <2>2. src \in [X -> 1 .. Len(s)]
    BY <1>6, <2>1
  <2>3. ASSUME NEW x \in X, NEW y \in X, src[x] = src[y] PROVE x = y
    <3> DEFINE b == x[1]
               i == x[2]
               c == y[1]
               j == y[2]
    <3>1. from[b][i] = from[c][j]
      BY <2>3
    <3>2. b \in 1 .. N /\ i \in 1 .. Len(parts[b]) /\ c \in 1 .. N /\ j \in 1 .. Len(parts[c])
      BY <1>6
    <3> HIDE DEF b, i, c, j
    <3>3. b = c /\ i = j
      BY <2>1, <3>1, <3>2
    <3>4. QED
      BY <1>6, <3>3 DEF b, i, c, j
  <2>4. ASSUME NEW m \in 1 .. Len(s) PROVE \E x \in X : src[x] = m
    <3>1. PICK b \in 1 .. N : \E i \in 1 .. Len(parts[b]) : from[b][i] = m
      BY <2>1
    <3>2. PICK i \in 1 .. Len(parts[b]) : from[b][i] = m
      BY <3>1
    <3>3. <<b, i>> \in X /\ src[<<b, i>>] = m
      BY <1>5, <1>7, <3>2
    <3>4. QED
      BY <3>3
  <2>5. DOMAIN src = X
    OBVIOUS
  <2> HIDE DEF src
  <2>6. QED
    BY <2>2, <2>3, <2>4, <2>5 DEF Bijection, Injection, Surjection, IsInjective
<1>10. ASSUME NEW x \in X PROVE F[pos[x]] = s[src[x]]
  <2> DEFINE b == x[1]
             i == x[2]
  <2>1. b \in 1 .. N /\ i \in 1 .. Len(parts[b])
    BY <1>6
  <2>2. pos[x] = start[b - 1] + i /\ src[x] = from[b][i]
    OBVIOUS
  <2> HIDE DEF b, i, pos, src
  <2>3. parts[b][i] = s[from[b][i]]
    BY <2>1 DEF TakesEach, N
  <2>4. QED
    BY <1>3, <2>1, <2>2, <2>3
<1> HIDE DEF pos, src
<1>11. Occurrences(p, F) = Occurrences(p, s)
  BY <1>1, <1>8, <1>9, <1>10, PairedPlaces
<1>12. QED
  BY <1>11 DEF F

\* The buckets hold the packets of the list, each as often as the list does.
LEMMA BucketsHoldAll ==
  ASSUME NEW T \in SUBSET Packet, NEW ps \in Seq(T), NEW p
  PROVE  Occurrences(p, FlattenSeq(BucketByGroup(ps))) = Occurrences(p, ps)
<1> DEFINE r == Places(ps)
           B == BucketByGroup(ps)
           N == Len(r)
           n == Len(ps)
<1>1. /\ r \in Seq(1 .. n) /\ Range(r) = Opens(ps)
      /\ \A b, c \in DOMAIN r : b < c => r[b] < r[c]
  BY PlacesInOrder
<1>2. /\ N \in Nat /\ DOMAIN r = 1 .. N
      /\ \A b \in 1 .. N : r[b] \in 1 .. n /\ r[b] \in Opens(ps)
      /\ \A o \in Opens(ps) : \E b \in 1 .. N : r[b] = o
  <2>1. N \in Nat /\ DOMAIN r = 1 .. N /\ \A b \in 1 .. N : r[b] \in 1 .. n
    BY <1>1
  <2>2. QED
    BY <1>1, <2>1 DEF Range
<1>3. n \in Nat
  OBVIOUS
<1>4. B = [b \in DOMAIN r |-> BucketAt(ps, r[b])]
  BY BucketsAtPlaces
<1>5. B \in Seq(Seq(T) \ {<<>>})
  BY BucketsType
<1> HIDE DEF r, B, N, n
<1>6. B \in Seq(Seq(T)) /\ Len(B) = N /\ \A b \in 1 .. N : B[b] = BucketAt(ps, r[b])
  <2>1. B \in Seq(Seq(T))
    BY <1>5
  <2>2. DOMAIN B = 1 .. N /\ DOMAIN B = 1 .. Len(B)
    BY <1>2, <1>4, <2>1
  <2>3. Len(B) = N
    BY <1>2, <2>1, <2>2
  <2>4. QED
    BY <1>2, <1>4, <2>1, <2>3
<1>7. \A b, c \in 1 .. N : r[b] = r[c] => b = c
  <2> SUFFICES ASSUME NEW b \in 1 .. N, NEW c \in 1 .. N, r[b] = r[c] PROVE b = c
    OBVIOUS
  <2>1. r[b] \in Int /\ ~(r[b] < r[b])
    BY <1>2, <1>3
  <2>2. ~(b < c) /\ ~(c < b)
    BY <1>1, <1>2, <2>1
  <2>3. QED
    BY <1>2, <2>2
<1> DEFINE from == [b \in 1 .. N |-> CHOOSE f : Sources(f, ps, r[b])]
<1>8. ASSUME NEW b \in 1 .. N PROVE Sources(from[b], ps, r[b])
  <2>1. r[b] \in 1 .. Len(ps)
    BY <1>2 DEF n
  <2>2. \E f : Sources(f, ps, r[b])
    BY <2>1, BucketSources
  <2>3. QED
    BY <2>2
<1> HIDE DEF from
<1>9. ASSUME NEW b \in 1 .. N
      PROVE  /\ Len(B[b]) \in Nat
             /\ \A i \in 1 .. Len(B[b]) : from[b][i] \in Members(ps, r[b]) /\ B[b][i] = ps[from[b][i]]
             /\ \A i, j \in 1 .. Len(B[b]) : i < j => from[b][i] < from[b][j]
             /\ \A j \in Members(ps, r[b]) : \E i \in 1 .. Len(B[b]) : from[b][i] = j
             /\ Members(ps, r[b]) \subseteq 1 .. n
  <2>1. B[b] = BucketAt(ps, r[b])
    BY <1>6
  <2>2. B[b] \in Seq(T)
    BY <1>6
  <2>3. Len(B[b]) \in Nat
    BY <2>2
  <2>4. Members(ps, r[b]) \subseteq 1 .. n
    BY <1>2 DEF Members, n
  <2> DEFINE f == from[b]
             o == r[b]
             t == B[b]
  <2>5. Sources(f, ps, o) /\ t = BucketAt(ps, o)
    BY <1>8, <2>1
  <2> HIDE DEF f, o, t
  <2>6. /\ f \in [1 .. Len(t) -> Members(ps, o)]
        /\ \A i \in 1 .. Len(t) : t[i] = ps[f[i]]
        /\ \A i, j \in 1 .. Len(t) : i < j => f[i] < f[j]
        /\ \A j \in Members(ps, o) : \E i \in 1 .. Len(t) : f[i] = j
    BY <2>5 DEF Sources
  <2>7. \A i \in 1 .. Len(t) : f[i] \in Members(ps, o)
    BY <2>6
  <2>8. QED
    BY <2>3, <2>4, <2>6, <2>7 DEF f, o, t
<1>10. ASSUME NEW b \in 1 .. N, NEW c \in 1 .. N,
              NEW i \in 1 .. Len(B[b]), NEW j \in 1 .. Len(B[c]), from[b][i] = from[c][j]
       PROVE  b = c /\ i = j
  <2> DEFINE m == from[b][i]
  <2>1. m \in Members(ps, r[b]) /\ m \in Members(ps, r[c]) /\ m \in 1 .. n
    BY <1>9, <1>10
  <2> HIDE DEF m
  <2>2. r[b] \in Opens(ps) /\ r[c] \in Opens(ps)
    BY <1>2
  <2>3. r[b] = r[c]
    BY <2>1, <2>2, MembersSplit DEF n
  <2>4. b = c
    BY <1>7, <2>3
  <2>5. from[b][i] \in Int /\ from[b][i] = from[b][j] /\ j \in 1 .. Len(B[b])
    BY <1>3, <1>10, <2>1, <2>4 DEF m
  <2>6. ~(i < j) /\ ~(j < i)
    BY <1>9, <2>5
  <2>7. QED
    BY <1>9, <2>4, <2>5, <2>6
<1>11. ASSUME NEW m \in 1 .. n PROVE \E b \in 1 .. N : \E i \in 1 .. Len(B[b]) : from[b][i] = m
  <2>1. PICK o \in Opens(ps) : m \in Members(ps, o)
    BY MembersSplit DEF n
  <2>2. PICK b \in 1 .. N : r[b] = o
    BY <1>2
  <2>3. QED
    BY <1>9, <2>1, <2>2
<1>12. QED
  <2>1. \A b \in 1 .. N : \A i \in 1 .. Len(B[b]) : from[b][i] \in 1 .. n /\ B[b][i] = ps[from[b][i]]
    BY <1>9
  <2>2. B \in Seq(Seq(T)) /\ Len(B) = N
    BY <1>6
  <2>3. TakesEach(from, B, ps)
    BY <1>10, <1>11, <2>1, <2>2 DEF TakesEach, n
  <2>4. Occurrences(p, FlattenSeq(B)) = Occurrences(p, ps)
    BY <2>2, <2>3, PartsHoldAll
  <2>5. QED
    BY <2>4 DEF B

\* The buckets are apart, of one group each, and in the order of the packets
\* that opened them.
LEMMA BucketsApart ==
  ASSUME NEW T \in SUBSET Packet, NEW ps \in Seq(T)
  PROVE  LET B == BucketByGroup(ps) IN
         /\ \A b \in DOMAIN B : \A p, q \in Range(B[b]) :
              p = q \/ (Grouped(p) /\ GroupOf[p] = GroupOf[q])
         /\ \A b, c \in DOMAIN B : \A p \in Range(B[b]), q \in Range(B[c]) :
              Grouped(p) /\ GroupOf[p] = GroupOf[q] => b = c
         /\ \E place \in [DOMAIN B -> DOMAIN ps] :
              /\ \A b \in DOMAIN B : ps[place[b]] = B[b][1]
              /\ \A b, c \in DOMAIN B : b < c => place[b] < place[c]
<1> DEFINE B == BucketByGroup(ps)
           r == Places(ps)
           N == Len(r)
<1>1. /\ r \in Seq(1 .. Len(ps)) /\ Range(r) = Opens(ps)
      /\ \A b, c \in DOMAIN r : b < c => r[b] < r[c]
  BY PlacesInOrder
<1>2. B = [b \in DOMAIN r |-> BucketAt(ps, r[b])]
  BY BucketsAtPlaces
<1>3. Len(ps) \in Nat /\ DOMAIN ps = 1 .. Len(ps)
  OBVIOUS
<1> HIDE DEF B, r, N
<1>4. /\ N \in Nat /\ DOMAIN r = 1 .. N /\ DOMAIN B = 1 .. N
      /\ \A b \in 1 .. N : r[b] \in 1 .. Len(ps) /\ r[b] \in Opens(ps) /\ B[b] = BucketAt(ps, r[b])
  <2>1. N \in Nat /\ DOMAIN r = 1 .. N /\ \A b \in 1 .. N : r[b] \in 1 .. Len(ps)
    BY <1>1 DEF N
  <2>2. QED
    BY <1>1, <1>2, <2>1 DEF Range
<1>5. ASSUME NEW b \in 1 .. N
      PROVE  /\ \A p \in Range(B[b]) : GroupOf[p] = GroupOf[ps[r[b]]]
             /\ ~Grouped(ps[r[b]]) => Range(B[b]) = {ps[r[b]]}
             /\ B[b][1] = ps[r[b]]
  <2>1. r[b] \in 1 .. Len(ps) /\ r[b] \in Opens(ps) /\ B[b] = BucketAt(ps, r[b])
    BY <1>4
  <2>2. Grouped(ps[r[b]]) => Range(B[b]) = {q \in Range(ps) : GroupOf[q] = GroupOf[ps[r[b]]]}
    BY <2>1, BucketAtPlace
  <2>3. ~Grouped(ps[r[b]]) => B[b] = <<ps[r[b]]>>
    BY <2>1, BucketAtPlace
  <2>4. B[b][1] = ps[r[b]]
    BY <2>1, BucketFirst
  <2>5. \A x : Range(<<x>>) = {x}
    BY DEF Range
  <2>6. CASE Grouped(ps[r[b]])
    BY <2>2, <2>4, <2>6
  <2>7. CASE ~Grouped(ps[r[b]])
    <3>1. Range(B[b]) = {ps[r[b]]}
      BY <2>3, <2>5, <2>7
    <3>2. QED
      BY <2>4, <2>7, <3>1
  <2>8. QED
    BY <2>6, <2>7
<1>6. ASSUME NEW b \in 1 .. N, NEW p \in Range(B[b]), NEW q \in Range(B[b])
      PROVE  p = q \/ (Grouped(p) /\ GroupOf[p] = GroupOf[q])
  <2>1. GroupOf[p] = GroupOf[ps[r[b]]] /\ GroupOf[q] = GroupOf[ps[r[b]]]
    BY <1>5
  <2>2. CASE Grouped(ps[r[b]])
    BY <2>1, <2>2 DEF Grouped
  <2>3. CASE ~Grouped(ps[r[b]])
    <3>1. Range(B[b]) = {ps[r[b]]}
      BY <1>5, <2>3
    <3>2. QED
      BY <3>1
  <2>4. QED
    BY <2>2, <2>3
<1>7. ASSUME NEW b \in 1 .. N, NEW c \in 1 .. N, NEW p \in Range(B[b]), NEW q \in Range(B[c]),
             Grouped(p), GroupOf[p] = GroupOf[q]
      PROVE  b = c
  <2> DEFINE o == r[b]
             u == r[c]
  <2>1. GroupOf[p] = GroupOf[ps[o]] /\ GroupOf[q] = GroupOf[ps[u]]
    BY <1>5
  <2>2. o \in 1 .. Len(ps) /\ u \in 1 .. Len(ps) /\ o \in Opens(ps) /\ u \in Opens(ps)
    BY <1>4
  <2> HIDE DEF o, u
  <2>3. Grouped(ps[o]) /\ Grouped(ps[u]) /\ GroupOf[ps[o]] = GroupOf[ps[u]]
    BY <1>7, <2>1 DEF Grouped
  <2>4. o \notin 1 .. u - 1 /\ u \notin 1 .. o - 1
    BY <2>2, <2>3 DEF Opens
  <2>5. o = u
    BY <1>3, <2>2, <2>4
  <2>6. ~(o < u) /\ ~(u < o)
    BY <1>3, <2>2, <2>5
  <2>7. ~(b < c) /\ ~(c < b)
    BY <1>1, <1>4, <2>6 DEF o, u
  <2>8. QED
    BY <1>4, <2>7
<1>8. \E place \in [1 .. N -> 1 .. Len(ps)] :
        /\ \A b \in 1 .. N : ps[place[b]] = B[b][1]
        /\ \A b, c \in 1 .. N : b < c => place[b] < place[c]
  <2>1. r \in [1 .. N -> 1 .. Len(ps)]
    BY <1>1 DEF N
  <2>2. \A b \in 1 .. N : ps[r[b]] = B[b][1]
    BY <1>5
  <2>3. QED
    BY <1>1, <1>4, <2>1, <2>2
<1>9. QED
  BY <1>3, <1>4, <1>6, <1>7, <1>8 DEF B

-----------------------------------------------------------------------------
(* The invariant.                                                          *)

RequestEntry == [id : requested, decision : Decision]

\* The plan is empty at first.
LEMMA PlanStarts == Init => PlanInv
<1> SUFFICES ASSUME Init PROVE PlanInv
  OBVIOUS
<1>1. \A S : <<>> \in Seq(S)
  OBVIOUS
<1>2. PlanTypeOK
  BY <1>1 DEF Init, PlanTypeOK
<1>3. QED
  BY <1>2 DEF Init, PlanInv, Planned, Done

\* The gate parts the catalogue into candidates and skips (orchestrator.ts, gate).
LEMMA GateKeeps == PlanInv /\ Gate => PlanInv'
<1> SUFFICES ASSUME PlanInv, Gate PROVE PlanInv'
  OBVIOUS
<1>1. /\ phase = "gating" /\ phase' = "planning"
      /\ candidates' = OnlyIn(Catalog, Runs) /\ gateSkips' = OnlyIn(Catalog, Stays)
      /\ UNCHANGED <<requested, populated, counted, planner, drafted, selected, skipped, launched, buckets>>
  BY DEF Gate, evidence, plan, Runs, Stays
<1>2. PlanTypeOK
  BY DEF PlanInv
<1>3. /\ Catalog \in Seq(Packet) /\ IsInjective(Catalog) /\ Range(Catalog) = Packet
      /\ requested \subseteq Packet
  BY <1>2, PlanningConstants DEF PlanTypeOK, Packet
<1>4. Runs \in SUBSET requested /\ Stays \in SUBSET requested
  BY DEF Runs, Stays
<1>6. Runs' = Runs /\ Stays' = Stays
  BY <1>1 DEF Runs, Stays, Runnable, GateDecision
<1>7. /\ candidates' \in Seq(Packet \cap Runs) /\ Range(candidates') = Packet \cap Runs
      /\ IsInjective(candidates')
      /\ gateSkips' \in Seq(Packet \cap Stays) /\ Range(gateSkips') = Packet \cap Stays
      /\ IsInjective(gateSkips')
  BY <1>1, <1>3, OnlyInRange
<1>8. Packet \cap Runs = Runs /\ Packet \cap Stays = Stays
  BY <1>3, <1>4
<1>9. \A s, A, B : A \subseteq B /\ s \in Seq(A) => s \in Seq(B)
  OBVIOUS
<1>10. candidates' \in Seq(requested) /\ gateSkips' \in Seq(requested)
  BY <1>4, <1>7, <1>8, <1>9
<1>11. launched' \in Seq(Range(candidates')) /\ buckets' \in Seq(Seq(Range(candidates')) \ {<<>>})
  <2>1. launched' = <<>> /\ buckets' = <<>>
    BY <1>1 DEF PlanInv, Done
  <2>2. \A S : <<>> \in Seq(S)
    OBVIOUS
  <2>3. QED
    BY <2>1, <2>2
<1>12. PlanTypeOK'
  BY <1>1, <1>2, <1>10, <1>11 DEF PlanTypeOK
<1>13. GateInv'
  BY <1>6, <1>7, <1>8 DEF GateInv
<1>14. launched' = <<>> /\ buckets' = <<>>
  BY <1>1 DEF PlanInv, Done
<1>15. ~Planned' /\ ~Done'
  BY <1>1 DEF Planned, Done
<1>16. QED
  BY <1>12, <1>13, <1>14, <1>15 DEF PlanInv

\* What both planners do: a draft of entries that were offered, suppressed, with
\* the gate's skips on record.
LEMMA PlanKeeps ==
  ASSUME PlanInv, phase = "planning", phase' = "planned",
         drafted' \in Seq(Entry), Range(drafted') \subseteq Offered(Workable),
         NEW before \in Seq(RequestEntry), Range(gateSkips) \subseteq Range(Ids(before)),
         Suppress(drafted', before), planner' \in {"master", "fallback"},
         planner' = "fallback" => Ids(drafted') = candidates /\ Ids(before) = gateSkips,
         UNCHANGED <<requested, populated, counted, candidates, gateSkips, launched, buckets>>
  PROVE  PlanInv'
<1> DEFINE d == drafted'
           off == OnlyIn(d, Entry \ Kept)
           late == Entries(Ids(off), "skip")
<1>1. PlanTypeOK /\ requested \subseteq Packet
  BY PlanningConstants DEF PlanInv, PlanTypeOK
<1>2. GateInv
  BY DEF PlanInv
<1>3. selected' = OnlyIn(d, Kept) /\ skipped' = before \o late
  BY DEF Suppress
<1>4. Offered(Workable) \subseteq RequestEntry
  BY <1>2 DEF GateInv, Runs, Offered, Entry, RequestEntry
<1> HIDE DEF d, off, late
<1>5. d \in Seq(RequestEntry)
  <2>1. d \in Seq(Entry) /\ Range(d) \subseteq RequestEntry
    BY <1>4 DEF d
  <2>2. \A i \in 1 .. Len(d) : d[i] \in RequestEntry
    BY <2>1 DEF Range
  <2>3. QED
    BY <2>1, <2>2
<1>6. off \in Seq(RequestEntry) /\ selected' \in Seq(RequestEntry)
  BY <1>3, <1>5, OnlyInPicks DEF off
<1>7. RequestEntry \subseteq Entry
  BY <1>1 DEF RequestEntry, Entry
<1>8. off \in Seq(Entry)
  BY <1>6, <1>7
<1>9. Ids(off) \in Seq(requested)
  BY <1>6, IdsAt DEF RequestEntry
<1>10. late \in Seq(RequestEntry) /\ Ids(late) = Ids(off)
  <2>1. "skip" \in Decision
    BY DEF Decision
  <2>2. QED
    BY <1>9, <2>1, EntriesIds DEF late, RequestEntry
<1>11. skipped' \in Seq(RequestEntry) /\ Range(skipped') = Range(before) \cup Range(late)
  BY <1>3, <1>10, ConcatRange
<1>12. Range(Ids(skipped')) = Range(Ids(before)) \cup Range(Ids(off))
  <2>1. before \in Seq(Entry) /\ late \in Seq(Entry) /\ skipped' \in Seq(Entry)
    BY <1>7, <1>10, <1>11
  <2>2. /\ Range(Ids(skipped')) = {e.id : e \in Range(skipped')}
        /\ Range(Ids(before)) = {e.id : e \in Range(before)}
        /\ Range(Ids(late)) = {e.id : e \in Range(late)}
    BY <2>1, IdsRange
  <2>3. QED
    BY <1>10, <1>11, <2>2
<1>13. Ids(skipped') = Ids(before) \o Ids(off)
  BY <1>3, <1>10, IdsConcat DEF RequestEntry
<1>14. launched' = <<>> /\ buckets' = <<>>
  BY DEF PlanInv, Done
<1>15. PlanTypeOK'
  <2>1. \A s \in {drafted, selected, skipped}' : s \in Seq(RequestEntry)
    BY <1>5, <1>6, <1>11 DEF d
  <2>2. RequestEntry' = RequestEntry
    BY DEF RequestEntry
  <2>3. phase' \in {"gating", "planning", "planned", "launched"} /\ planner' \in {"none", "master", "fallback"}
    OBVIOUS
  <2>4. QED
    BY <1>1, <2>1, <2>2, <2>3 DEF PlanTypeOK, RequestEntry
<1>16. Range(drafted)' \subseteq Offered(Workable)' /\ selected' = OnlyIn(drafted, Kept)'
  BY <1>3 DEF Offered, d
<1>17. Skips' = off
  BY DEF Skips, off, d
<1>18. DraftInv'
  BY <1>12, <1>13, <1>16, <1>17 DEF DraftInv
<1>19. GateInv'
  <2>1. Runs' = Runs /\ Stays' = Stays
    BY DEF Runs, Stays, Runnable, GateDecision
  <2>2. QED
    BY <1>2, <2>1 DEF GateInv
<1>20. ~Done'
  BY DEF Done
<1>21. QED
  BY <1>14, <1>15, <1>16, <1>18, <1>19, <1>20 DEF PlanInv

\* The gate's skips as entries of a plan.
LEMMA GateSkipEntries ==
  ASSUME PlanTypeOK
  PROVE  /\ Entries(gateSkips, "skip") \in Seq(RequestEntry)
         /\ Ids(Entries(gateSkips, "skip")) = gateSkips
<1>1. gateSkips \in Seq(requested) /\ "skip" \in Decision
  BY DEF PlanTypeOK, Decision
<1>2. QED
  BY <1>1, EntriesIds DEF RequestEntry

\* A plan of the master model keeps the books, whatever it asks for.
LEMMA MasterKeeps ==
  ASSUME PlanInv, NEW asked \in Seq(Entry), NEW turnedDown \in Seq(Entry),
         PlanByMaster(asked, turnedDown)
  PROVE  PlanInv'
<1> DEFINE down == OnlyIn(turnedDown, Offered({"skip"}))
           gate == Entries(gateSkips, "skip")
<1>1. /\ phase = "planning" /\ phase' = "planned" /\ planner' = "master"
      /\ drafted' = OnlyIn(asked, Offered(Workable)) /\ Suppress(drafted', down \o gate)
      /\ UNCHANGED <<requested, populated, counted, candidates, gateSkips, launched, buckets>>
  BY DEF PlanByMaster, evidence
<1>2. PlanTypeOK /\ GateInv
  BY <1>1 DEF PlanInv
<1>3. drafted' \in Seq(Entry) /\ Range(drafted') \subseteq Offered(Workable)
  <2>1. drafted' \in Seq(Entry)
    BY <1>1, OnlyInPicks
  <2>2. Range(drafted') = Range(asked) \cap Offered(Workable)
    BY <1>1, OnlyInRange
  <2>3. QED
    BY <2>1, <2>2
<1>4. gate \in Seq(RequestEntry) /\ Ids(gate) = gateSkips
  BY <1>2, GateSkipEntries
<1>5. Offered({"skip"}) \subseteq RequestEntry
  BY <1>2 DEF GateInv, Runs, Offered, Entry, RequestEntry
<1> HIDE DEF down, gate
<1>6. down \in Seq(RequestEntry)
  <2>1. down \in Seq(Entry \cap Offered({"skip"}))
    BY OnlyInRange DEF down
  <2>2. Entry \cap Offered({"skip"}) \subseteq RequestEntry
    BY <1>5
  <2>3. \A s, A, B : A \subseteq B /\ s \in Seq(A) => s \in Seq(B)
    OBVIOUS
  <2>4. QED
    BY <2>1, <2>2, <2>3
<1>7. down \o gate \in Seq(RequestEntry) /\ Ids(down \o gate) = Ids(down) \o gateSkips
  <2>1. down \o gate \in Seq(RequestEntry)
    BY <1>4, <1>6
  <2>2. Ids(down \o gate) = Ids(down) \o Ids(gate)
    BY <1>4, <1>6, IdsConcat DEF RequestEntry
  <2>3. QED
    BY <1>4, <2>1, <2>2
<1>8. Range(gateSkips) \subseteq Range(Ids(down \o gate))
  <2>1. Ids(down) \in Seq(requested) /\ gateSkips \in Seq(requested)
    BY <1>2, <1>6, IdsAt DEF RequestEntry, PlanTypeOK
  <2>2. QED
    BY <1>7, <2>1, ConcatRange
<1>9. QED
  BY <1>1, <1>3, <1>7, <1>8, PlanKeeps

\* So does the plan made without the master.
LEMMA FallbackKeeps == PlanInv /\ PlanByFallback => PlanInv'
<1> SUFFICES ASSUME PlanInv, PlanByFallback PROVE PlanInv'
  OBVIOUS
<1> DEFINE d == [i \in DOMAIN candidates |->
                   [id |-> candidates[i], decision |-> DefaultDecision(candidates[i])]]
           gate == Entries(gateSkips, "skip")
<1>1. /\ phase = "planning" /\ phase' = "planned" /\ planner' = "fallback"
      /\ drafted' = d /\ Suppress(drafted', gate)
      /\ UNCHANGED <<requested, populated, counted, candidates, gateSkips, launched, buckets>>
  BY DEF PlanByFallback, evidence
<1>2. PlanTypeOK /\ GateInv /\ requested \subseteq Packet
  BY <1>1, PlanningConstants DEF PlanInv, PlanTypeOK
<1>3. gate \in Seq(RequestEntry) /\ Ids(gate) = gateSkips
  BY <1>2, GateSkipEntries
<1>4. /\ Len(candidates) \in Nat /\ DOMAIN candidates = 1 .. Len(candidates)
      /\ \A i \in 1 .. Len(candidates) : candidates[i] \in requested /\ candidates[i] \in Range(candidates)
  BY <1>2 DEF PlanTypeOK, Range
<1>5. \A p : DefaultDecision(p) \in Workable
  BY DEF DefaultDecision, Workable, Decision
<1>6. \A i \in 1 .. Len(candidates) : d[i] \in Offered(Workable) /\ d[i].id = candidates[i]
  BY <1>2, <1>4, <1>5 DEF Offered, Entry, Workable
<1>7. d \in [1 .. Len(candidates) -> Entry] /\ Range(d) \subseteq Offered(Workable)
  <2>1. Offered(Workable) \subseteq Entry
    BY DEF Offered
  <2>2. DOMAIN d = 1 .. Len(candidates) /\ d = [i \in 1 .. Len(candidates) |-> d[i]]
    BY <1>4
  <2> HIDE DEF d
  <2>3. QED
    BY <1>6, <2>1, <2>2 DEF Range
<1>8. Ids(d) = candidates
  <2>1. DOMAIN d = DOMAIN candidates
    OBVIOUS
  <2> HIDE DEF d
  <2>2. Ids(d) = [i \in DOMAIN candidates |-> candidates[i]]
    BY <1>4, <1>6, <2>1 DEF Ids
  <2>3. candidates = [i \in DOMAIN candidates |-> candidates[i]]
    BY <1>2 DEF PlanTypeOK
  <2>4. QED
    BY <2>2, <2>3
<1> HIDE DEF d, gate
<1>9. d \in Seq(Entry)
  <2>1. \A U, n, f : n \in Nat /\ f \in [1 .. n -> U] => f \in Seq(U)
    OBVIOUS
  <2>2. QED
    BY <1>4, <1>7, <2>1
<1>10. QED
  BY <1>1, <1>3, <1>7, <1>8, <1>9, PlanKeeps

\* And the selection that is launched.
LEMMA SelectKeeps == PlanInv /\ Select => PlanInv'
<1> SUFFICES ASSUME PlanInv, Select PROVE PlanInv'
  OBVIOUS
<1> DEFINE chosen == OnlyIn(selected, Offered(Workable))
<1>1. /\ phase = "planned" /\ phase' = "launched"
      /\ launched' = Ids(chosen) /\ buckets' = BucketByGroup(launched')
      /\ UNCHANGED <<requested, populated, counted, candidates, gateSkips, planner, drafted, selected, skipped>>
  BY DEF Select, evidence, plan
<1>2. PlanTypeOK /\ GateInv /\ DraftInv /\ requested \subseteq Packet
  BY <1>1, PlanningConstants DEF PlanInv, PlanTypeOK, Planned
<1>3. selected \in Seq(RequestEntry)
  BY <1>2 DEF PlanTypeOK, RequestEntry
<1> HIDE DEF chosen
<1>4. Range(candidates) \in SUBSET Packet
  BY <1>2 DEF GateInv, Runs
<1>5. chosen \in Seq([id : Range(candidates), decision : Decision])
  <2>1. chosen \in Seq(RequestEntry \cap Offered(Workable))
    BY <1>3, OnlyInRange DEF chosen
  <2>2. RequestEntry \cap Offered(Workable) \subseteq [id : Range(candidates), decision : Decision]
    BY DEF RequestEntry, Offered
  <2>3. \A s, A, B : A \subseteq B /\ s \in Seq(A) => s \in Seq(B)
    OBVIOUS
  <2>4. QED
    BY <2>1, <2>2, <2>3
<1>6. launched' \in Seq(Range(candidates))
  BY <1>1, <1>5, IdsAt
<1>7. buckets' \in Seq(Seq(Range(candidates)) \ {<<>>})
  BY <1>1, <1>4, <1>6, BucketsType
<1>8. PlanTypeOK'
  BY <1>1, <1>2, <1>6, <1>7 DEF PlanTypeOK
<1>9. GateInv' /\ DraftInv'
  <2>1. Runs' = Runs /\ Stays' = Stays /\ Skips' = Skips /\ Offered(Workable)' = Offered(Workable)
    BY <1>1 DEF Runs, Stays, Runnable, GateDecision, Skips, Offered
  <2>2. QED
    BY <1>1, <1>2, <2>1 DEF GateInv, DraftInv
<1>10. LaunchInv'
  BY <1>1 DEF LaunchInv, Offered, chosen
<1>11. Done'
  BY <1>1 DEF Done
<1>12. QED
  BY <1>8, <1>9, <1>10, <1>11 DEF PlanInv

\* A plan of the model is two lists of entries.
LEMMA PlanLists == \A n \in Int : \A s \in BoundedEntries(n) : s \in Seq(Entry)
<1> SUFFICES ASSUME NEW n \in Int, NEW s \in BoundedEntries(n) PROVE s \in Seq(Entry)
  OBVIOUS
<1>1. PICK m \in 0 .. n : s \in [1 .. m -> Entry]
  BY DEF BoundedEntries
<1>2. QED
  BY <1>1

\* The invariant holds in every state of the planning.
THEOREM PlanningInvariant == Spec => []PlanInv
<1>1. PlanInv /\ [Next]_vars => PlanInv'
  <2> SUFFICES ASSUME PlanInv, [Next]_vars PROVE PlanInv'
    OBVIOUS
  <2>1. ASSUME NEW asked \in BoundedEntries(MaxEntries),
               NEW turnedDown \in BoundedEntries(MaxEntries - Len(asked)),
               PlanByMaster(asked, turnedDown)
        PROVE  PlanInv'
    <3>1. MaxEntries \in Int /\ asked \in Seq(Entry)
      BY PlanLists, PlanningConstants
    <3>2. MaxEntries - Len(asked) \in Int
      BY <3>1
    <3>3. turnedDown \in Seq(Entry)
      BY <3>2, PlanLists
    <3>4. QED
      BY <2>1, <3>1, <3>3, MasterKeeps
  <2>2. CASE UNCHANGED vars
    <3>1. UNCHANGED <<phase, requested, populated, counted, candidates, gateSkips, planner, drafted,
                      selected, skipped, launched, buckets>>
      BY <2>2 DEF vars, evidence, plan
    <3>2. Runs' = Runs /\ Stays' = Stays /\ Skips' = Skips /\ Offered(Workable)' = Offered(Workable)
      BY <3>1 DEF Runs, Stays, Runnable, GateDecision, Skips, Offered
    <3>3. PlanTypeOK' = PlanTypeOK /\ GateInv' = GateInv /\ DraftInv' = DraftInv /\ LaunchInv' = LaunchInv
      BY <3>1, <3>2 DEF PlanTypeOK, GateInv, DraftInv, LaunchInv
    <3>4. QED
      BY <3>1, <3>3 DEF PlanInv, Planned, Done
  <2>3. QED
    BY <2>1, <2>2, GateKeeps, FallbackKeeps, SelectKeeps DEF Next
<1>2. QED
  BY <1>1, PlanStarts, PTL DEF Spec

\* A packet whose gate found no evidence gets no worker and is on record as
\* skipped, whatever the model's plan says (_gate_candidate_heuristics,
\* _investigation_plan_from_tool_calls).
THEOREM PlanningGate == Spec => []GateSkipsStand
<1>1. PlanInv => GateSkipsStand
  <2> SUFFICES ASSUME PlanInv, NEW p \in requested, p # Synthesis, p \notin populated
               PROVE  (Planned => p \in Range(Ids(skipped))) /\ p \notin Range(launched)
    BY DEF GateSkipsStand
  <2>1. ~Runnable(p)
    BY DEF Runnable, GateDecision
  <2>2. p \in Stays /\ p \notin Runs
    BY <2>1 DEF Stays, Runs
  <2>3. Planned => p \in Range(Ids(skipped))
    <3> SUFFICES ASSUME Planned PROVE p \in Range(Ids(skipped))
      OBVIOUS
    <3>1. GateInv /\ DraftInv
      BY DEF PlanInv, Planned
    <3>2. QED
      BY <2>2, <3>1 DEF GateInv, DraftInv
  <2>4. p \notin Range(launched)
    <3>1. CASE Done
      <4>1. Range(candidates) = Runs
        BY <3>1 DEF PlanInv, GateInv, Done
      <4>2. Range(launched) \subseteq Range(candidates)
        BY SequenceRange DEF PlanInv, PlanTypeOK
      <4>3. QED
        BY <2>2, <4>1, <4>2
    <3>2. CASE ~Done
      <4>1. launched = <<>>
        BY <3>2 DEF PlanInv
      <4>2. QED
        BY <4>1 DEF Range
    <3>3. QED
      BY <3>1, <3>2
  <2>5. QED
    BY <2>3, <2>4
<1>2. QED
  BY <1>1, PlanningInvariant, PTL

\* The suppression and the selection lose no entry of a plan between them, and
\* launch a worker for absence only for the synthesis packet
\* (_suppress_absence_workers, the selection of _investigate).
THEOREM PlanningAccounts == Spec => []PlannedIsAccounted
<1>1. PlanInv => PlannedIsAccounted
  <2> SUFFICES ASSUME PlanInv PROVE PlannedIsAccounted
    OBVIOUS
  <2>1. PlanTypeOK
    BY DEF PlanInv
  <2> SUFFICES ASSUME Done
               PROVE  /\ \A e \in Range(drafted) : e.id \in Range(launched) \cup Range(Ids(skipped))
                      /\ \A p \in Range(launched) \ {Synthesis} :
                           \E e \in Range(drafted) : e = [id |-> p, decision |-> "run"]
    BY <2>1 DEF PlannedIsAccounted
  <2>2. DraftInv /\ LaunchInv
    BY DEF PlanInv, Planned, Done
  <2>3. drafted \in Seq(Entry) /\ selected \in Seq(Entry)
    <3>1. RequestEntry \subseteq Entry
      BY <2>1, PlanningConstants DEF PlanTypeOK, RequestEntry, Entry
    <3>2. drafted \in Seq(RequestEntry) /\ selected \in Seq(RequestEntry)
      BY <2>1 DEF PlanTypeOK, RequestEntry
    <3>3. QED
      BY <3>1, <3>2
  <2>4. Range(selected) = Range(drafted) \cap Kept
    BY <2>2, <2>3, OnlyInRange DEF DraftInv
  <2> DEFINE chosen == OnlyIn(selected, Offered(Workable))
  <2>5. chosen \in Seq(Entry) /\ Range(chosen) = Range(selected) \cap Offered(Workable)
    BY <2>3, OnlyInPicks, OnlyInRange
  <2>6. Range(launched) = {e.id : e \in Range(chosen)}
    BY <2>2, <2>5, IdsRange DEF LaunchInv
  <2> HIDE DEF chosen
  <2>7. Skips \in Seq(Entry) /\ Range(Skips) = Range(drafted) \cap (Entry \ Kept)
    BY <2>3, OnlyInPicks, OnlyInRange DEF Skips
  <2>8. Range(Ids(Skips)) = {e.id : e \in Range(Skips)}
    BY <2>7, IdsRange
  <2>9. Range(drafted) \subseteq Offered(Workable) /\ Range(drafted) \subseteq Entry
    BY <2>2, <2>3, SequenceRange DEF DraftInv
  <2>10. ASSUME NEW e \in Range(drafted) PROVE e.id \in Range(launched) \cup Range(Ids(skipped))
    <3>1. CASE e \in Kept
      BY <2>4, <2>5, <2>6, <2>9, <3>1
    <3>2. CASE e \notin Kept
      <4>1. e.id \in Range(Ids(Skips))
        BY <2>7, <2>8, <2>9, <3>2
      <4>2. QED
        BY <2>2, <4>1 DEF DraftInv
    <3>3. QED
      BY <3>1, <3>2
  <2>11. ASSUME NEW p \in Range(launched) \ {Synthesis}
         PROVE  \E e \in Range(drafted) : e = [id |-> p, decision |-> "run"]
    <3>1. PICK e \in Range(drafted) : e \in Kept /\ e \in Offered(Workable) /\ e.id = p
      BY <2>4, <2>5, <2>6
    <3>2. e \in Entry /\ e.decision = "run"
      BY <3>1 DEF Kept, Offered, Workable, Decision
    <3>3. e = [id |-> p, decision |-> "run"]
      BY <3>1, <3>2 DEF Entry
    <3>4. QED
      BY <3>3
  <2>12. QED
    BY <2>10, <2>11
<1>2. QED
  BY <1>1, PlanningInvariant, PTL

\* Without a master plan every packet of the request is launched once or skipped
\* once (_fallback_investigation_plan).
THEOREM PlanningFallback == Spec => []FallbackCoversRequest
<1>1. PlanInv => FallbackCoversRequest
  <2> SUFFICES ASSUME PlanInv, Done, planner = "fallback"
               PROVE  /\ Range(launched \o Ids(skipped)) = requested
                      /\ IsInjective(launched \o Ids(skipped))
    BY DEF FallbackCoversRequest
  <2>1. PlanTypeOK /\ GateInv /\ DraftInv /\ LaunchInv
    BY DEF PlanInv, Planned, Done
  <2>2. RequestEntry \subseteq Entry
    BY <2>1, PlanningConstants DEF PlanTypeOK, RequestEntry, Entry
  <2>3. drafted \in Seq(Entry) /\ selected \in Seq(Entry) /\ drafted \in Seq(RequestEntry)
    <3>1. drafted \in Seq(RequestEntry) /\ selected \in Seq(RequestEntry)
      BY <2>1 DEF PlanTypeOK, RequestEntry
    <3>2. QED
      BY <2>2, <3>1
  <2> DEFINE chosen == OnlyIn(selected, Offered(Workable))
  <2>4. Ids(drafted) = candidates /\ Ids(skipped) = gateSkips \o Ids(Skips) /\ selected = OnlyIn(drafted, Kept)
    BY <2>1 DEF DraftInv
  <2>5. launched = Ids(chosen)
    BY <2>1 DEF LaunchInv
  <2>6. /\ Range(selected) = Range(drafted) \cap Kept
        /\ chosen \in Seq(Entry) /\ Range(chosen) = Range(selected) \cap Offered(Workable)
        /\ Skips \in Seq(Entry) /\ Range(Skips) = Range(drafted) \cap (Entry \ Kept)
    <3>1. Range(selected) = Range(drafted) \cap Kept
      BY <2>3, <2>4, OnlyInRange
    <3>2. chosen \in Seq(Entry)
      BY <2>3, OnlyInPicks
    <3>3. Range(chosen) = Range(selected) \cap Offered(Workable)
      BY <2>3, OnlyInRange
    <3>4. Skips \in Seq(Entry)
      BY <2>3, OnlyInPicks DEF Skips
    <3>5. Range(Skips) = Range(drafted) \cap (Entry \ Kept)
      BY <2>3, OnlyInRange DEF Skips
    <3>6. QED
      BY <3>1, <3>2, <3>3, <3>4, <3>5
  <2>7. IsInjective(Ids(chosen)) /\ IsInjective(Ids(Skips))
    <3>1. IsInjective(Ids(drafted))
      BY <2>1, <2>4 DEF GateInv
    <3>2. IsInjective(Ids(selected)) /\ IsInjective(Ids(Skips))
      BY <2>3, <2>4, <3>1, IdsRange DEF Skips
    <3>3. QED
      BY <2>3, <3>2, IdsRange
  <2> HIDE DEF chosen
  <2>8. /\ Range(launched) = {e.id : e \in Range(chosen)}
        /\ Range(Ids(Skips)) = {e.id : e \in Range(Skips)}
        /\ Range(candidates) = {e.id : e \in Range(drafted)}
    BY <2>3, <2>4, <2>5, <2>6, IdsRange
  <2>9. Range(drafted) \subseteq Offered(Workable) /\ Range(drafted) \subseteq Entry
    BY <2>1, <2>3, SequenceRange DEF DraftInv
  <2>10. \A e, f \in Range(drafted) : e.id = f.id => e = f
    <3>1. /\ DOMAIN drafted = 1 .. Len(drafted) /\ Len(Ids(drafted)) = Len(drafted)
          /\ \A i \in 1 .. Len(drafted) : Ids(drafted)[i] = drafted[i].id
      <4>1. drafted \in Seq([id : requested, decision : Decision])
        BY <2>3 DEF RequestEntry
      <4>2. DOMAIN drafted = 1 .. Len(drafted)
        BY <4>1
      <4>3. QED
        BY <4>1, <4>2, IdsAt
    <3>2. \A i, j \in 1 .. Len(drafted) : Ids(drafted)[i] = Ids(drafted)[j] => i = j
      BY <2>1, <2>4, <3>1 DEF GateInv, IsInjective, Ids
    <3>3. QED
      BY <3>1, <3>2 DEF Range
  <2>11. Range(launched) \cap Range(Ids(Skips)) = {}
    BY <2>6, <2>8, <2>10
  <2>12. Range(launched) \cup Range(Ids(Skips)) = Runs
    <3>1. \A e \in Range(drafted) : e.id \in Range(launched) \cup Range(Ids(Skips))
      BY <2>6, <2>8, <2>9
    <3>2. Range(candidates) = Runs
      BY <2>1 DEF GateInv
    <3>3. Range(chosen) \subseteq Range(drafted) /\ Range(Skips) \subseteq Range(drafted)
      BY <2>6
    <3>4. Range(launched) \subseteq Range(candidates) /\ Range(Ids(Skips)) \subseteq Range(candidates)
      BY <2>8, <3>3
    <3>5. Range(candidates) \subseteq Range(launched) \cup Range(Ids(Skips))
      BY <2>8, <3>1
    <3>6. QED
      BY <3>2, <3>4, <3>5
  <2>13. Range(gateSkips) = Stays /\ IsInjective(gateSkips)
    BY <2>1 DEF GateInv
  <2>14. Runs \cap Stays = {} /\ Runs \cup Stays = requested
    BY DEF Runs, Stays
  <2> DEFINE T == Packet \cup {Foreign}
  <2>15. launched \in Seq(T) /\ gateSkips \in Seq(T) /\ Ids(Skips) \in Seq(T)
    <3>1. gateSkips \in Seq(requested) /\ requested \subseteq T
      BY <2>1, PlanningConstants DEF PlanTypeOK
    <3>2. QED
      BY <2>5, <2>6, <3>1, IdsRange
  <2> HIDE DEF T
  <2>16. /\ gateSkips \o Ids(Skips) \in Seq(T)
         /\ Range(gateSkips \o Ids(Skips)) = Stays \cup Range(Ids(Skips))
         /\ IsInjective(gateSkips \o Ids(Skips))
    <3>1. Range(gateSkips) \cap Range(Ids(Skips)) = {}
      BY <2>12, <2>13, <2>14
    <3>2. QED
      BY <2>7, <2>13, <2>15, <3>1, ConcatRange
  <2>17. Range(launched) \cap Range(Ids(skipped)) = {}
    BY <2>4, <2>11, <2>12, <2>14, <2>16
  <2>18. /\ Range(launched \o Ids(skipped)) = Range(launched) \cup Range(Ids(skipped))
         /\ IsInjective(launched \o Ids(skipped))
    <3>1. Ids(skipped) \in Seq(T) /\ IsInjective(Ids(skipped))
      BY <2>4, <2>16
    <3>2. launched \in Seq(T) /\ IsInjective(launched)
      BY <2>5, <2>7, <2>15
    <3>3. QED
      BY <2>17, <3>1, <3>2, ConcatRange
  <2>19. QED
    BY <2>4, <2>12, <2>14, <2>16, <2>18
<1>2. QED
  BY <1>1, PlanningInvariant, PTL

\* The workers get every launched packet, one that a plan lists twice both times;
\* the packets of a group share one bucket and strangers none; the buckets come
\* in the order of the packets that opened them (_bucket_by_group).
THEOREM PlanningBuckets == Spec => []BucketsPartition
<1>1. PlanInv => BucketsPartition
  <2> SUFFICES ASSUME PlanInv, Done PROVE BucketsPartition
    BY DEF BucketsPartition
  <2> DEFINE T == Range(candidates)
  <2>1. launched \in Seq(T) /\ buckets = BucketByGroup(launched)
    BY DEF PlanInv, PlanTypeOK, LaunchInv
  <2>2. T \in SUBSET Packet
    BY PlanningConstants DEF PlanInv, PlanTypeOK, GateInv, Runs, Done
  <2> HIDE DEF T
  <2>3. \A p \in Packet : Occurrences(p, FlattenSeq(buckets)) = Occurrences(p, launched)
    BY <2>1, <2>2, BucketsHoldAll
  <2>4. QED
    BY <2>1, <2>2, <2>3, BucketsApart DEF BucketsPartition
<1>2. QED
  BY <1>1, PlanningInvariant, PTL

===============================================================================
