--------------------------- MODULE FingerprintProofs ---------------------------
(***************************************************************************)
(* Proofs about FingerprintProbe: its budget is exactly what its reads     *)
(* need, and its keys tell apart the data they cover and nothing else, for *)
(* any rows and people an address may have and any window on them.         *)
(***************************************************************************)
EXTENDS FingerprintProbe, SequenceLemmas

(* Keys.  What a probe of the data w is to read, as a set of records.      *)
Probed(people) == {p \in people : Cardinality({q \in people : q < p}) < MaxProbed}
AddressRecords(w) == {compact_row_record(AddressScope, 0, r) : r \in w.rows}
PeopleRecords(w) == {<<PersonScope, p, Identity>> : p \in w.people}
PersonRecords(w, p) == {compact_row_record(PersonScope, p, r) : r \in w.of[p]}
RowsOf(w, ps) == UNION {PersonRecords(w, p) : p \in ps}
Records(w) == AddressRecords(w) \cup PeopleRecords(w) \cup RowsOf(w, Probed(w.people))

Triples == Int \X Int \X Int
RecordOrder == {x \in Triples \X Triples : Precedes(x[1], x[2])}
IdOrder == {x \in Int \X Int : x[1] < x[2]}

\* Records are compared by scope, then subject, then row.
LEMMA PrecedesByPart ==
  ASSUME NEW a \in Triples, NEW b \in Triples
  PROVE  Precedes(a, b) <=> \/ a[1] < b[1]
                            \/ a[1] = b[1] /\ a[2] < b[2]
                            \/ a[1] = b[1] /\ a[2] = b[2] /\ a[3] < b[3]
<1>1. DOMAIN a = {1, 2, 3}
  BY DEF Triples
<1>2. 1 .. 1 - 1 = {} /\ 1 .. 2 - 1 = {1} /\ 1 .. 3 - 1 = {1, 2}
  OBVIOUS
<1> DEFINE P(i) == a[i] < b[i] /\ \A j \in 1 .. i - 1 : a[j] = b[j]
<1>3. Precedes(a, b) <=> P(1) \/ P(2) \/ P(3)
  BY <1>1 DEF Precedes
<1>4. P(1) <=> a[1] < b[1]
  BY <1>2
<1>5. P(2) <=> a[1] = b[1] /\ a[2] < b[2]
  BY <1>2
<1>6. P(3) <=> a[1] = b[1] /\ a[2] = b[2] /\ a[3] < b[3]
  BY <1>2
<1> HIDE DEF P
<1> QED
  BY <1>3, <1>4, <1>5, <1>6

\* The order of the records is total.
LEMMA RecordsOrdered ==
  ASSUME NEW X \in SUBSET Triples
  PROVE  /\ StrictOrder(RecordOrder, X)
         /\ \A a, b \in X : <<a, b>> \in RecordOrder <=> Precedes(a, b)
<1>1. \A a \in Triples : a[1] \in Int /\ a[2] \in Int /\ a[3] \in Int /\ a = <<a[1], a[2], a[3]>>
  BY DEF Triples
<1>2. \A a, b \in Triples :
        <<a, b>> \in RecordOrder <=> \/ a[1] < b[1]
                                     \/ a[1] = b[1] /\ a[2] < b[2]
                                     \/ a[1] = b[1] /\ a[2] = b[2] /\ a[3] < b[3]
  BY PrecedesByPart DEF RecordOrder
<1>3. \A a, b \in X : <<a, b>> \in RecordOrder <=> Precedes(a, b)
  BY DEF RecordOrder
<1>4. \A x \in X : <<x, x>> \notin RecordOrder
  BY <1>1, <1>2
<1>5. ASSUME NEW x \in X, NEW y \in X, NEW z \in X,
             <<x, y>> \in RecordOrder, <<y, z>> \in RecordOrder
      PROVE  <<x, z>> \in RecordOrder
  <2>1. \/ x[1] < y[1]
        \/ x[1] = y[1] /\ x[2] < y[2]
        \/ x[1] = y[1] /\ x[2] = y[2] /\ x[3] < y[3]
    BY <1>2, <1>5
  <2>2. \/ y[1] < z[1]
        \/ y[1] = z[1] /\ y[2] < z[2]
        \/ y[1] = z[1] /\ y[2] = z[2] /\ y[3] < z[3]
    BY <1>2, <1>5
  <2>3. \/ x[1] < z[1]
        \/ x[1] = z[1] /\ x[2] < z[2]
        \/ x[1] = z[1] /\ x[2] = z[2] /\ x[3] < z[3]
    BY <1>1, <2>1, <2>2
  <2> QED
    BY <1>2, <2>3
<1>6. ASSUME NEW x \in X, NEW y \in X, x # y
      PROVE  <<x, y>> \in RecordOrder \/ <<y, x>> \in RecordOrder
  <2>1. x[1] # y[1] \/ x[2] # y[2] \/ x[3] # y[3]
    BY <1>1, <1>6
  <2> QED
    BY <1>1, <1>2, <2>1
<1> QED
  BY <1>3, <1>4, <1>5, <1>6 DEF StrictOrder

\* Ids are compared as numbers.
LEMMA IdsOrdered ==
  ASSUME NEW X \in SUBSET Int
  PROVE  StrictOrder(IdOrder, X)
  BY DEF IdOrder, StrictOrder

\* A list of records is sorted into the list of its set.
LEMMA RecordsSorted ==
  ASSUME NEW X \in SUBSET Triples, NEW s, Enumerates(s, X)
  PROVE  Sorted(sort_records(s), RecordOrder, X)
<1> DEFINE before == [k \in DOMAIN s |->
                        {j \in DOMAIN s : Precedes(s[j], s[k]) \/ (s[j] = s[k] /\ j < k)}]
           t == sort_records(s)
<1>1. IsFiniteSet(X) /\ Lists(s, X) /\ DOMAIN s = 1 .. Cardinality(X)
  BY EnumeratesLists DEF Lists
<1>2. before \in [DOMAIN s -> SUBSET (DOMAIN s)]
  OBVIOUS
<1>3. ASSUME NEW j \in DOMAIN s, NEW k \in DOMAIN s
      PROVE  j \in before[k] <=> <<s[j], s[k]>> \in RecordOrder
  <2>1. s[j] \in X /\ s[k] \in X /\ (s[j] = s[k] => j = k)
    BY <1>1 DEF Lists
  <2>2. ~(s[j] = s[k] /\ j < k)
    BY <1>1, <2>1, FS_CardinalityType
  <2>3. j \in before[k] <=> Precedes(s[j], s[k])
    BY <2>2
  <2> QED
    BY <2>1, <2>3, RecordsOrdered
<1>4. t = [i \in DOMAIN s |-> s[CHOOSE k \in DOMAIN s : Cardinality(before[k]) = i - 1]]
  BY DEF sort_records, ByRank
<1>5. StrictOrder(RecordOrder, X)
  BY RecordsOrdered
<1> HIDE DEF before, t
<1>6. Sorted(t, RecordOrder, X)
  BY <1>1, <1>2, <1>3, <1>4, <1>5, SortByRank
<1> QED
  BY <1>6 DEF t

\* The key of a list is the key of its set, and of no other set.
LEMMA OneKeyPerSet ==
  ASSUME NEW X \in SUBSET Triples, NEW Y \in SUBSET Triples, NEW s, NEW t,
         Enumerates(s, X), Enumerates(t, Y)
  PROVE  records_fingerprint(s) = records_fingerprint(t) <=> X = Y
<1> DEFINE a == sort_records(s)
           b == sort_records(t)
<1>1. records_fingerprint(s) = records_fingerprint(t) <=> a = b
  BY DEF records_fingerprint
<1>2. IsFiniteSet(X) /\ StrictOrder(RecordOrder, X) /\ Sorted(a, RecordOrder, X)
  BY RecordsSorted, RecordsOrdered, EnumeratesLists
<1>3. IsFiniteSet(Y) /\ StrictOrder(RecordOrder, Y) /\ Sorted(b, RecordOrder, Y)
  BY RecordsSorted, RecordsOrdered, EnumeratesLists
<1> HIDE DEF a, b
<1>4. Lists(a, X) /\ \A u : Sorted(u, RecordOrder, X) => u = a
  BY <1>2, SortedOnce
<1>5. Lists(b, Y)
  BY <1>3, SortedOnce
<1>6. X = Y => a = b
  BY <1>3, <1>4
<1>7. a = b => X = Y
  <2> SUFFICES ASSUME a = b PROVE X = Y
    OBVIOUS
  <2>1. X = {a[i] : i \in DOMAIN a}
    BY <1>4 DEF Lists
  <2>2. Y = {b[i] : i \in DOMAIN b}
    BY <1>5 DEF Lists
  <2> QED
    BY <2>1, <2>2
<1> QED
  BY <1>1, <1>6, <1>7

\* The window is the probed people, each once.
LEMMA WindowEnumerates ==
  ASSUME NEW people \in SUBSET Person, NEW nodes \in SetToSeqs(people)
  PROVE  Enumerates(Window(nodes), Probed(people)) /\ Len(Window(nodes)) <= MaxProbed
<1> DEFINE n == Cardinality(people)
           D == 1 .. n
           m == IF n < MaxProbed THEN n ELSE MaxProbed
           before == [k \in DOMAIN nodes |-> {j \in DOMAIN nodes : nodes[j] < nodes[k]}]
           byId == ByRank(nodes, before)
<1>1. people \in SUBSET Int /\ IsFiniteSet(people) /\ n \in Nat
  BY ProbeConstants, FS_Subset, FS_CardinalityType
<1>2. Enumerates(nodes, people)
  BY <1>1, SetToSeqsEnumerate
<1>3. Lists(nodes, people) /\ Len(nodes) = n /\ DOMAIN nodes = D
  BY <1>2, EnumeratesLists DEF Lists
<1>4. \A j, k \in DOMAIN nodes : j \in before[k] <=> <<nodes[j], nodes[k]>> \in IdOrder
  <2>1. \A j \in DOMAIN nodes : nodes[j] \in Int
    BY <1>1, <1>3 DEF Lists
  <2> QED
    BY <2>1 DEF IdOrder
<1>5. Window(nodes) = [i \in 1 .. m |-> byId[i]]
  BY <1>3 DEF Window
<1>6. before \in [DOMAIN nodes -> SUBSET (DOMAIN nodes)]
  OBVIOUS
<1>7. byId = [i \in DOMAIN nodes |->
                nodes[CHOOSE k \in DOMAIN nodes : Cardinality(before[k]) = i - 1]]
  BY DEF ByRank
<1>8. StrictOrder(IdOrder, people)
  BY <1>1, IdsOrdered
<1> HIDE DEF before, byId, n
<1>9. Sorted(byId, IdOrder, people)
  BY <1>1, <1>3, <1>4, <1>6, <1>7, <1>8, SortByRank
<1>10. byId \in [D -> people] /\ \A i \in D : RankIn(IdOrder, people, byId[i]) = i - 1
  BY <1>9 DEF Sorted, n
<1>11. \A i, j \in D : byId[i] = byId[j] => i = j
  BY <1>1, <1>10
<1>12. \A p \in people : \E i \in D : byId[i] = p
  BY <1>1, <1>8, <1>9, SortedOnce DEF Lists, n
<1>13. \A p \in people : RankIn(IdOrder, people, p) = Cardinality({q \in people : q < p})
  <2> SUFFICES ASSUME NEW p \in people
               PROVE  {q \in people : <<q, p>> \in IdOrder} = {q \in people : q < p}
    BY DEF RankIn
  <2> QED
    BY <1>1 DEF IdOrder
<1>14. m \in Nat /\ m <= MaxProbed /\ \A i : i \in 1 .. m <=> i \in D /\ i - 1 < MaxProbed
  BY <1>1, ProbeConstants
<1>15. ASSUME NEW i \in 1 .. m
       PROVE  i \in D /\ byId[i] \in Probed(people)
  <2>1. i \in D /\ i - 1 < MaxProbed /\ byId[i] \in people
    BY <1>10, <1>14
  <2>2. Cardinality({q \in people : q < byId[i]}) = i - 1
    BY <1>10, <1>13, <2>1
  <2> QED
    BY <2>1, <2>2 DEF Probed
<1>16. ASSUME NEW p \in Probed(people)
       PROVE  \E i \in 1 .. m : byId[i] = p
  <2>1. p \in people /\ Cardinality({q \in people : q < p}) < MaxProbed
    BY DEF Probed
  <2>2. PICK i \in D : byId[i] = p
    BY <1>12, <2>1
  <2>3. i - 1 < MaxProbed
    BY <1>10, <1>13, <2>1, <2>2
  <2>4. i \in 1 .. m
    BY <1>14, <2>3
  <2> QED
    BY <2>2, <2>4
<1> DEFINE w == [i \in 1 .. m |-> byId[i]]
<1> HIDE DEF m
<1>17. w \in Seq(Probed(people)) /\ Len(w) = m /\ \A i \in 1 .. m : w[i] = byId[i]
  BY <1>14, <1>15
<1> HIDE DEF w
<1>18. Enumerates(w, Probed(people))
  BY <1>11, <1>15, <1>16, <1>17 DEF Enumerates
<1> QED
  BY <1>5, <1>14, <1>17, <1>18 DEF w

-----------------------------------------------------------------------------
(* The budget.                                                             *)

(* The calls paid so far, read by read: a person still to be read has a    *)
(* call left.  And what the service has done so far has not cost the key.  *)
Paid ==
  /\ pc = "resolve" => calls = 0
  /\ pc = "address" => calls = 1
  /\ pc = "people" => calls = 2
  /\ pc = "person" =>
       /\ calls \in Nat
       /\ \E S : persons \in Seq(S)
       /\ persons # <<>>
       /\ calls + Len(persons) <= MaxCalls
  /\ pc # "settled" => key = Unavailable /\ trouble \in {"none", "timed_out"}
  /\ pc \in {"settled", "resolve", "address", "people", "person"}

ProbeInv == NullOnlyForCause /\ Paid

\* The people at the address are people.
LEMMA WorldTyped == ProbeSpec => [](world \in Worlds)
<1>1. ProbeInit => world \in Worlds
  BY DEF ProbeInit
<1>2. world \in Worlds /\ [ProbeNext]_probeVars => (world \in Worlds)'
  BY DEF probeVars, ProbeNext, probe, resolve, fetch_address_records_multi,
     fetch_people_at_address, fetch_person_records, Call, Change
<1> QED
  BY <1>1, <1>2, PTL DEF ProbeSpec

\* The window is a list of at most MaxProbed people.
LEMMA WindowBounds ==
  ASSUME NEW people \in SUBSET Person, NEW nodes \in SetToSeqs(people)
  PROVE  /\ \E S : Window(nodes) \in Seq(S)
         /\ Len(Window(nodes)) \in Nat
         /\ Len(Window(nodes)) <= MaxProbed
<1>1. Window(nodes) \in Seq(Probed(people)) /\ Len(Window(nodes)) <= MaxProbed
  BY WindowEnumerates DEF Enumerates
<1> QED
  BY <1>1

\* A hash is not the null.
LEMMA HashIsAKey ==
  ASSUME NEW seq
  PROVE  records_fingerprint(seq) # Unavailable
  BY DEF records_fingerprint, Unavailable

\* However many people an address has, a probe that the service answers ends
\* with a key: no call of it is ever over its own budget.
THEOREM ProbeNeverOverBudget == ProbeSpec => []NullOnlyForCause
<1>1. ProbeInit => ProbeInv
  BY DEF ProbeInit, ProbeInv, Paid, NullOnlyForCause
<1>2. ProbeInv /\ world \in Worlds /\ [ProbeNext]_probeVars => ProbeInv'
  <2> SUFFICES ASSUME ProbeInv, world \in Worlds, [ProbeNext]_probeVars
               PROVE ProbeInv'
    OBVIOUS
  <2> USE ProbeConstants DEF ProbeInv, Paid, NullOnlyForCause, MaxCalls, OverBudget
  <2>1. ASSUME Abort("failed") \/ Abort("unresolved")
        PROVE ProbeInv'
    BY <2>1 DEF Abort, Settle
  <2>2. CASE UNCHANGED probeVars
    BY <2>2 DEF probeVars
  <2>3. CASE probe
    BY <2>3 DEF probe
  <2>4. CASE resolve
    <3>1. calls = 0 /\ calls < MaxCalls
      BY <2>4 DEF resolve, Call
    <3>2. CASE Abort("failed") \/ Abort("unresolved")
      BY <2>1, <3>2
    <3>3. CASE Proceed("address", <<>>, <<>>, "none")
      <4>1. calls' = 1
        BY <2>4, <3>1 DEF resolve, Call
      <4> QED
        BY <2>4, <3>3, <4>1 DEF resolve, Call, Proceed
    <3> QED
      BY <2>4, <3>1, <3>2, <3>3 DEF resolve, Call
  <2>5. CASE fetch_address_records_multi
    <3>1. calls = 1 /\ calls < MaxCalls
      BY <2>5 DEF fetch_address_records_multi, Call
    <3>2. CASE Abort("failed")
      BY <2>1, <3>2
    <3>3. ASSUME NEW rows, Proceed("people", rows, <<>>, "none")
          PROVE ProbeInv'
      <4>1. calls' = 2
        BY <2>5, <3>1 DEF fetch_address_records_multi, Call
      <4> QED
        BY <2>5, <3>3, <4>1 DEF fetch_address_records_multi, Call, Proceed
    <3> QED
      BY <2>5, <3>1, <3>2, <3>3 DEF fetch_address_records_multi, Call
  <2>6. CASE fetch_people_at_address
    <3>1. calls = 2 /\ calls < MaxCalls
      BY <2>6 DEF fetch_people_at_address, Call
    <3>2. CASE Abort("failed")
      BY <2>1, <3>2
    <3>3. ASSUME NEW nodes \in SetToSeqs(world.people), NEW read,
                 Proceed("person", read, Window(nodes), "none")
          PROVE ProbeInv'
      <4>1. calls' = 3
        BY <2>6, <3>1 DEF fetch_people_at_address, Call
      <4>2. CASE Window(nodes) = <<>>
        BY <3>3, <4>2, HashIsAKey DEF Proceed, Settle
      <4>3. CASE Window(nodes) # <<>>
        <5>1. /\ pc' = "person" /\ persons' = Window(nodes)
              /\ key' = key /\ trouble' = "none"
          BY <3>3, <4>3 DEF Proceed
        <5>4. world.people \in SUBSET Person
          BY DEF Worlds
        <5>2. \E S : Window(nodes) \in Seq(S)
          BY WindowBounds, <5>4
        <5>3. calls' + Len(persons') <= MaxCalls
          BY <4>1, <5>1, WindowBounds, <5>4
        <5> QED
          BY <2>6, <4>1, <4>3, <5>1, <5>2, <5>3 DEF fetch_people_at_address, Call
      <4> QED
        BY <4>2, <4>3
    <3> QED
      BY <2>6, <3>1, <3>2, <3>3 DEF fetch_people_at_address, Call
  <2>7. CASE fetch_person_records
    <3>1. PICK S : persons \in Seq(S)
      BY <2>7 DEF fetch_person_records, Call
    <3>2. Len(persons) \in Nat \ {0} /\ calls < MaxCalls
      BY <2>7, <3>1 DEF fetch_person_records, Call
    <3>3. CASE Abort("failed")
      BY <2>1, <3>3
    <3>4. ASSUME NEW read, NEW why \in {"none", "timed_out"},
                 Proceed("person", read, Tail(persons), why)
          PROVE ProbeInv'
      <4>1. calls' = calls + 1
        BY <2>7, <3>2 DEF fetch_person_records, Call
      <4>2. Tail(persons) \in Seq(S) /\ Len(Tail(persons)) = Len(persons) - 1
        BY <3>1, <3>2
      <4>3. CASE Tail(persons) = <<>>
        BY <3>4, <4>3, HashIsAKey DEF Proceed, Settle
      <4>4. CASE Tail(persons) # <<>>
        <5>1. /\ pc' = "person" /\ persons' = Tail(persons)
              /\ key' = key /\ trouble' = why
          BY <3>4, <4>4 DEF Proceed
        <5>2. calls \in Nat /\ calls + Len(persons) <= MaxCalls /\ key = Unavailable
          BY <2>7 DEF fetch_person_records, Call
        <5>3. calls' \in Nat /\ calls' + Len(persons') <= MaxCalls
          BY <3>2, <4>1, <4>2, <5>1, <5>2
        <5>4. \E T : persons' \in Seq(T)
          BY <4>2, <5>1
        <5> QED
          BY <4>4, <5>1, <5>2, <5>3, <5>4
      <4> QED
        BY <4>3, <4>4
    <3> QED
      BY <2>7, <3>2, <3>3, <3>4 DEF fetch_person_records, Call
  <2>8. CASE Change
    BY <2>8 DEF Change
  <2> QED
    BY <2>2, <2>3, <2>4, <2>5, <2>6, <2>7, <2>8 DEF ProbeNext
<1>3. ProbeInv => NullOnlyForCause
  BY DEF ProbeInv
<1> QED
  BY <1>1, <1>2, <1>3, WorldTyped, PTL DEF ProbeSpec

-----------------------------------------------------------------------------
(* The reads.                                                              *)

\* The rows of an answer, each once.
LEMMA AnswersEnumerate ==
  ASSUME NEW scope, NEW subject, NEW rows, IsFiniteSet(rows),
         NEW answer \in Answers(scope, subject, rows)
  PROVE  Enumerates(answer, {compact_row_record(scope, subject, r) : r \in rows})
<1> DEFINE X == {compact_row_record(scope, subject, r) : r \in rows}
<1>1. PICK order \in SetToSeqs(rows) :
        answer = [i \in DOMAIN order |-> compact_row_record(scope, subject, order[i])]
  BY DEF Answers
<1>2. Enumerates(order, rows)
  BY SetToSeqsEnumerate
<1>3. /\ order \in Seq(rows) /\ Len(order) \in Nat /\ DOMAIN order = 1 .. Len(order)
      /\ \A i \in 1 .. Len(order) : order[i] \in rows
  BY <1>2 DEF Enumerates
<1>4. \A i \in 1 .. Len(order) : answer[i] = <<scope, subject, order[i]>>
  BY <1>1, <1>3 DEF compact_row_record
<1>5. answer \in Seq(X) /\ Len(answer) = Len(order)
  <2>1. \A i \in 1 .. Len(order) : compact_row_record(scope, subject, order[i]) \in X
    BY <1>3
  <2> HIDE DEF X
  <2> QED
    BY <1>1, <1>3, <2>1
<1>6. \A i, j \in 1 .. Len(answer) : answer[i] = answer[j] => i = j
  BY <1>2, <1>4, <1>5 DEF Enumerates
<1>7. ASSUME NEW x \in X PROVE \E i \in 1 .. Len(answer) : answer[i] = x
  <2>1. PICK r \in rows : x = <<scope, subject, r>>
    BY DEF compact_row_record
  <2>2. PICK i \in 1 .. Len(order) : order[i] = r
    BY <1>2 DEF Enumerates
  <2> QED
    BY <1>4, <1>5, <2>1, <2>2
<1> QED
  BY <1>5, <1>6, <1>7 DEF Enumerates

\* The identities of the people, each once.
LEMMA IdentitiesEnumerate ==
  ASSUME NEW people, NEW nodes, Enumerates(nodes, people)
  PROVE  Enumerates(Identities(nodes), {<<PersonScope, p, Identity>> : p \in people})
<1> DEFINE X == {<<PersonScope, p, Identity>> : p \in people}
           answer == Identities(nodes)
<1>1. /\ nodes \in Seq(people) /\ Len(nodes) \in Nat /\ DOMAIN nodes = 1 .. Len(nodes)
      /\ \A i \in 1 .. Len(nodes) : nodes[i] \in people
  BY DEF Enumerates
<1>2. \A i \in 1 .. Len(nodes) : answer[i] = <<PersonScope, nodes[i], Identity>>
  BY <1>1 DEF Identities
<1>3. answer \in Seq(X) /\ Len(answer) = Len(nodes)
  <2>1. \A i \in 1 .. Len(nodes) : <<PersonScope, nodes[i], Identity>> \in X
    BY <1>1
  <2> HIDE DEF X
  <2> QED
    BY <1>1, <2>1 DEF Identities
<1> HIDE DEF answer
<1>4. \A i, j \in 1 .. Len(answer) : answer[i] = answer[j] => i = j
  BY <1>2, <1>3 DEF Enumerates
<1>5. ASSUME NEW x \in X PROVE \E i \in 1 .. Len(answer) : answer[i] = x
  <2>1. PICK p \in people : x = <<PersonScope, p, Identity>>
    OBVIOUS
  <2>2. PICK i \in 1 .. Len(nodes) : nodes[i] = p
    BY DEF Enumerates
  <2> QED
    BY <1>2, <1>3, <2>1, <2>2
<1> QED
  BY <1>3, <1>4, <1>5 DEF Enumerates, answer

\* Taking the first off a list.
LEMMA EnumeratesTail ==
  ASSUME NEW X, NEW s, Enumerates(s, X), s # <<>>
  PROVE  Head(s) \in X /\ Enumerates(Tail(s), X \ {Head(s)})
<1> DEFINE t == Tail(s)
           Y == X \ {Head(s)}
<1>1. s \in Seq(X) /\ Len(s) \in Nat /\ Len(s) >= 1
  BY DEF Enumerates
<1>2. Head(s) = s[1] /\ s[1] \in X /\ t \in Seq(X) /\ Len(t) = Len(s) - 1
  BY <1>1
<1>3. \A i \in 1 .. Len(t) : i + 1 \in 1 .. Len(s) /\ t[i] = s[i + 1]
  BY <1>1, <1>2
<1> HIDE DEF t
<1>4. \A i \in 1 .. Len(t) : t[i] \in Y
  <2> SUFFICES ASSUME NEW i \in 1 .. Len(t) PROVE t[i] \in Y
    OBVIOUS
  <2>1. i + 1 \in 1 .. Len(s) /\ 1 \in 1 .. Len(s) /\ i + 1 # 1
    BY <1>1, <1>3
  <2>2. s[i + 1] # s[1] /\ s[i + 1] \in X
    BY <1>1, <2>1 DEF Enumerates
  <2> QED
    BY <1>2, <1>3, <2>2
<1>5. t \in Seq(Y)
  <2> HIDE DEF Y
  <2> QED
    BY <1>2, <1>4
<1>6. \A i, j \in 1 .. Len(t) : t[i] = t[j] => i = j
  <2> SUFFICES ASSUME NEW i \in 1 .. Len(t), NEW j \in 1 .. Len(t), t[i] = t[j] PROVE i = j
    OBVIOUS
  <2>1. i + 1 \in 1 .. Len(s) /\ j + 1 \in 1 .. Len(s) /\ s[i + 1] = s[j + 1]
    BY <1>3
  <2>2. i + 1 = j + 1
    BY <2>1 DEF Enumerates
  <2> QED
    BY <1>2, <2>2
<1>7. ASSUME NEW x \in Y PROVE \E i \in 1 .. Len(t) : t[i] = x
  <2>1. PICK k \in 1 .. Len(s) : s[k] = x
    BY DEF Enumerates
  <2>2. k # 1
    BY <1>2, <2>1
  <2>3. k - 1 \in 1 .. Len(t) /\ (k - 1) + 1 = k
    BY <1>1, <1>2, <2>2
  <2>4. t[k - 1] = x
    BY <1>3, <2>1, <2>3
  <2> QED
    BY <2>3, <2>4
<1> QED
  BY <1>2, <1>5, <1>6, <1>7 DEF Enumerates, t

\* What the parts of the data are.
LEMMA WorldParts ==
  ASSUME NEW w \in Worlds
  PROVE  /\ w.rows \in SUBSET Int /\ IsFiniteSet(w.rows) /\ w.rows \in SUBSET AddressRow
         /\ w.people \in SUBSET Person /\ w.people \in SUBSET Int /\ IsFiniteSet(w.people)
         /\ \A p \in Person : /\ w.of[p] \in SUBSET PersonRow /\ w.of[p] \in SUBSET Int
                              /\ Identity \notin w.of[p] /\ IsFiniteSet(w.of[p])
         /\ Probed(w.people) \in SUBSET w.people
<1>1. w.rows \in SUBSET AddressRow /\ w.people \in SUBSET Person /\ w.of \in [Person -> SUBSET PersonRow]
  BY DEF Worlds
<1>2. Probed(w.people) \in SUBSET w.people
  BY DEF Probed
<1>3. IsFiniteSet(w.rows) /\ IsFiniteSet(w.people) /\ \A p \in Person : IsFiniteSet(w.of[p])
  BY <1>1, ProbeConstants, FS_Subset
<1> QED
  BY <1>1, <1>2, <1>3, ProbeConstants

\* What is read once the rows of the people ps are still to be read.
ReadUpTo(w, ps) == AddressRecords(w) \cup PeopleRecords(w) \cup RowsOf(w, Probed(w.people) \ ps)

\* The address and the people are apart.
LEMMA ScopesApart ==
  ASSUME NEW w
  PROVE  AddressRecords(w) \cap PeopleRecords(w) = {}
  BY DEF AddressRecords, PeopleRecords, compact_row_record, AddressScope, PersonScope

\* The read of a person brings records that were not there.
LEMMA ReadsApart ==
  ASSUME NEW w \in Worlds, NEW S \in SUBSET Probed(w.people), NEW p \in S
  PROVE  /\ ReadUpTo(w, S) \cap PersonRecords(w, p) = {}
         /\ ReadUpTo(w, S \ {p}) = ReadUpTo(w, S) \cup PersonRecords(w, p)
<1> USE DEF AddressRecords, PeopleRecords, RowsOf, PersonRecords, compact_row_record, AddressScope, PersonScope
<1> DEFINE more == {compact_row_record(PersonScope, p, r) : r \in w.of[p]}
<1>2. p \in Person /\ Identity \notin w.of[p]
  BY WorldParts
<1>3. AddressRecords(w) \cap more = {}
  OBVIOUS
<1>4. PeopleRecords(w) \cap more = {}
  BY <1>2
<1>5. RowsOf(w, Probed(w.people) \ S) \cap more = {}
  OBVIOUS
<1>6. RowsOf(w, Probed(w.people) \ (S \ {p})) = RowsOf(w, Probed(w.people) \ S) \cup more
  <2>1. Probed(w.people) \ (S \ {p}) = (Probed(w.people) \ S) \cup {p}
    OBVIOUS
  <2> QED
    BY <2>1
<1> QED
  BY <1>3, <1>4, <1>5, <1>6 DEF ReadUpTo

\* Records are compared as triples of numbers.
LEMMA RecordsTyped ==
  ASSUME NEW w \in Worlds
  PROVE  Records(w) \in SUBSET Triples
<1>1. AddressRecords(w) \subseteq Triples
  <2> SUFFICES ASSUME NEW r \in w.rows PROVE <<AddressScope, 0, r>> \in Triples
    BY DEF AddressRecords, compact_row_record
  <2>1. r \in Int
    BY WorldParts
  <2> QED
    BY <2>1 DEF AddressScope, Triples
<1>2. PeopleRecords(w) \subseteq Triples
  <2> SUFFICES ASSUME NEW p \in w.people PROVE <<PersonScope, p, Identity>> \in Triples
    BY DEF PeopleRecords
  <2>1. p \in Int
    BY WorldParts
  <2> QED
    BY <2>1 DEF PersonScope, Identity, Triples
<1>3. RowsOf(w, Probed(w.people)) \subseteq Triples
  <2> SUFFICES ASSUME NEW p \in Probed(w.people), NEW r \in w.of[p]
               PROVE  <<PersonScope, p, r>> \in Triples
    BY DEF RowsOf, PersonRecords, compact_row_record
  <2>1. p \in w.people
    BY WorldParts
  <2>2. p \in Person /\ p \in Int
    BY <2>1, WorldParts
  <2>3. r \in Int
    BY <2>2, WorldParts
  <2> QED
    BY <2>2, <2>3 DEF PersonScope, Triples
<1> QED
  BY <1>1, <1>2, <1>3 DEF Records

\* The records are those of the covered data: neither tells less than the other.
LEMMA RecordsAreCovered ==
  ASSUME NEW w \in Worlds, NEW v \in Worlds
  PROVE  Records(w) = Records(v) <=> Covered(w) = Covered(v)
<1> DEFINE Same == /\ w.rows = v.rows /\ w.people = v.people
                   /\ \A p \in Probed(w.people) : w.of[p] = v.of[p]
<1>1. ASSUME NEW x \in Worlds
      PROVE  /\ \A r : <<AddressScope, 0, r>> \in Records(x) <=> r \in x.rows
             /\ \A p : <<PersonScope, p, Identity>> \in Records(x) <=> p \in x.people
             /\ \A p, r : r # Identity =>
                  (<<PersonScope, p, r>> \in Records(x) <=> p \in Probed(x.people) /\ r \in x.of[p])
  <2> USE DEF Records, AddressRecords, PeopleRecords, RowsOf, PersonRecords, compact_row_record, AddressScope, PersonScope
  <2>1. \A p \in Probed(x.people) : p \in Person /\ Identity \notin x.of[p]
    BY WorldParts
  <2>2. \A r : <<AddressScope, 0, r>> \in Records(x) <=> r \in x.rows
    OBVIOUS
  <2>3. \A p : <<PersonScope, p, Identity>> \in Records(x) <=> p \in x.people
    BY <2>1
  <2>4. \A p, r : r # Identity =>
                  (<<PersonScope, p, r>> \in Records(x) <=> p \in Probed(x.people) /\ r \in x.of[p])
    OBVIOUS
  <2> QED
    BY <2>2, <2>3, <2>4
<1>2. ASSUME NEW x \in Worlds
      PROVE  /\ \A r : <<"row", r>> \in Covered(x) <=> r \in x.rows
             /\ \A p : <<"person", p>> \in Covered(x) <=> p \in x.people
             /\ \A p, r : <<"of", p, r>> \in Covered(x) <=> p \in Probed(x.people) /\ r \in x.of[p]
  <2>1. \A p \in Probed(x.people) : p \in Person /\ p \in x.people
    BY WorldParts
  <2>2. \A r : <<"row", r>> \in Rows(x) <=> r \in x.rows
    BY DEF Rows
  <2>3. \A p : <<"person", p>> \in Rows(x) <=> p \in x.people
    BY DEF Rows
  <2>4. \A p, r : <<"of", p, r>> \in Rows(x) <=> p \in Person /\ r \in x.of[p]
    BY DEF Rows
  <2>5. \A r : <<"row", r>> \in Covered(x) <=> r \in x.rows
    BY <2>2 DEF Covered
  <2>6. \A p : <<"person", p>> \in Covered(x) <=> p \in x.people
    BY <2>3 DEF Covered
  <2>7. \A p, r : <<"of", p, r>> \in Covered(x) <=> p \in Probed(x.people) /\ r \in x.of[p]
    BY <2>1, <2>4 DEF Covered, Probed
  <2> QED
    BY <2>5, <2>6, <2>7
<1>3. \A p \in Probed(w.people) : w.of[p] \in SUBSET PersonRow /\ v.of[p] \in SUBSET PersonRow
  BY WorldParts
<1>4. Records(w) = Records(v) => Same
  <2> SUFFICES ASSUME Records(w) = Records(v) PROVE Same
    OBVIOUS
  <2>1. w.rows = v.rows
    BY <1>1
  <2>2. w.people = v.people
    BY <1>1
  <2>3. ASSUME NEW p \in Probed(w.people) PROVE w.of[p] = v.of[p]
    <3>1. \A r \in PersonRow : r # Identity
      BY ProbeConstants
    <3>2. \A r \in PersonRow : r \in w.of[p] <=> r \in v.of[p]
      BY <1>1, <2>2, <3>1
    <3> QED
      BY <1>3, <3>2
  <2> QED
    BY <2>1, <2>2, <2>3
<1>5. Same => Records(w) = Records(v)
  BY DEF Records, AddressRecords, PeopleRecords, RowsOf, PersonRecords
<1>6. Covered(w) = Covered(v) => Same
  <2> SUFFICES ASSUME Covered(w) = Covered(v) PROVE Same
    OBVIOUS
  <2>1. w.rows = v.rows
    BY <1>2
  <2>2. w.people = v.people
    BY <1>2
  <2>3. ASSUME NEW p \in Probed(w.people) PROVE w.of[p] = v.of[p]
    BY <1>2, <2>2
  <2> QED
    BY <2>1, <2>2, <2>3
<1>7. Same => Covered(w) = Covered(v)
  <2> SUFFICES ASSUME Same PROVE Covered(w) = Covered(v)
    OBVIOUS
  <2>1. ASSUME NEW f \in Covered(w) PROVE f \in Covered(v)
    <3>1. \/ \E r : f = <<"row", r>>
          \/ \E p : f = <<"person", p>>
          \/ \E p, r : f = <<"of", p, r>>
      BY DEF Covered, Rows
    <3> QED
      BY <1>2, <3>1
  <2>2. ASSUME NEW f \in Covered(v) PROVE f \in Covered(w)
    <3>1. \/ \E r : f = <<"row", r>>
          \/ \E p : f = <<"person", p>>
          \/ \E p, r : f = <<"of", p, r>>
      BY DEF Covered, Rows
    <3> QED
      BY <1>2, <3>1
  <2> QED
    BY <2>1, <2>2
<1> HIDE DEF Same
<1> QED
  BY <1>4, <1>5, <1>6, <1>7

-----------------------------------------------------------------------------
(* The inductive invariant: while the service answers in full and the data *)
(* stands still, the records read are those of the reads that are done,    *)
(* each once, and the people left are the others of the window.            *)

\* k is the key of the data w.
IsKeyOf(k, w) == \E s : Enumerates(s, Records(w)) /\ k = records_fingerprint(s)

KeyInv ==
  /\ pc # "settled" /\ steady => world = taken
  /\ pc = "people" /\ Sound => Enumerates(records, AddressRecords(taken))
  /\ pc = "person" /\ Sound =>
       \E S \in SUBSET Probed(taken.people) :
         Enumerates(persons, S) /\ Enumerates(records, ReadUpTo(taken, S))
  /\ pc = "settled" /\ Sound => IsKeyOf(key, taken)
  /\ last.sound => IsKeyOf(last.key, last.world)
  /\ last.world \in Worlds
  /\ pc = "person" => persons # <<>>
  /\ pc # "settled" => trouble \in {"none", "timed_out"}
  /\ pc = "people" => trouble = "none"

\* The probe reads on, or its last read gives the key of the data.
LEMMA PersonRead ==
  ASSUME ProbeTypeOK, NEW read, NEW left, NEW why \in {"none", "timed_out"},
         Proceed("person", read, left, why), left \in Seq(Person),
         UNCHANGED <<world, taken, steady, last>>, calls' \in 0 .. MaxCalls,
         KeyInv, pc # "settled",
         why = "none" /\ steady =>
           \E S \in SUBSET Probed(taken.people) :
             Enumerates(left, S) /\ Enumerates(read, ReadUpTo(taken, S))
  PROVE  ProbeTypeOK' /\ KeyInv'
<1>1. CASE left = <<>>
  <2>1. /\ pc' = "settled" /\ key' = records_fingerprint(read) /\ trouble' = why
        /\ persons' = <<>>
    BY <1>1 DEF Proceed, Settle
  <2>2. ProbeTypeOK'
    BY <2>1 DEF ProbeTypeOK
  <2>3. ASSUME Sound' PROVE IsKeyOf(key', taken')
    <3>1. PICK S \in SUBSET Probed(taken.people) :
            Enumerates(left, S) /\ Enumerates(read, ReadUpTo(taken, S))
      BY <2>1, <2>3 DEF Sound
    <3>2. S = {}
      BY <1>1, <3>1 DEF Enumerates
    <3>3. ReadUpTo(taken, S) = Records(taken)
      BY <3>2 DEF ReadUpTo, Records
    <3> QED
      BY <2>1, <3>1, <3>3 DEF IsKeyOf
  <2>4. /\ pc' # "settled" /\ steady' => world' = taken'
        /\ last'.sound => IsKeyOf(last'.key, last'.world)
        /\ last'.world \in Worlds
    BY DEF KeyInv
  <2> QED
    BY <2>1, <2>2, <2>3, <2>4 DEF KeyInv
<1>2. CASE left # <<>>
  <2>1. pc' = "person" /\ records' = read /\ persons' = left /\ trouble' = why
    BY <1>2 DEF Proceed
  <2>2. ProbeTypeOK'
    BY <2>1 DEF ProbeTypeOK
  <2>3. ASSUME Sound'
        PROVE  \E S \in SUBSET Probed(taken'.people) :
                 Enumerates(persons', S) /\ Enumerates(records', ReadUpTo(taken', S))
    <3>1. PICK S \in SUBSET Probed(taken.people) :
            Enumerates(left, S) /\ Enumerates(read, ReadUpTo(taken, S))
      BY <2>1, <2>3 DEF Sound
    <3> QED
      BY <2>1, <3>1
  <2>4. /\ pc' # "settled" /\ steady' => world' = taken'
        /\ last'.sound => IsKeyOf(last'.key, last'.world)
        /\ last'.world \in Worlds
    BY DEF KeyInv
  <2> QED
    BY <1>2, <2>1, <2>2, <2>3, <2>4 DEF KeyInv
<1> QED
  BY <1>1, <1>2

\* A probe that gives up leaves no key behind, and the one before alone.
LEMMA AbortKeeps ==
  ASSUME ProbeTypeOK, KeyInv, NEW why \in {"failed", "unresolved", "over_budget"}, Abort(why),
         UNCHANGED <<world, taken, steady, last>>, calls' \in 0 .. MaxCalls
  PROVE  ProbeTypeOK' /\ KeyInv'
<1>1. pc' = "settled" /\ trouble' = why /\ persons' = <<>>
  BY DEF Abort, Settle
<1>2. ProbeTypeOK'
  BY <1>1 DEF ProbeTypeOK
<1>3. ~Sound'
  BY <1>1 DEF Sound
<1> QED
  BY <1>1, <1>2, <1>3 DEF KeyInv

\* A call is paid within the budget.
LEMMA CallPaid ==
  ASSUME ProbeTypeOK, NEW read, Call(read)
  PROVE  calls' \in 0 .. MaxCalls
  BY ProbeConstants DEF ProbeTypeOK, Call, OverBudget, MaxCalls

\* Every step keeps the records in step with the reads.
LEMMA KeyStep == ProbeTypeOK /\ KeyInv /\ [ProbeNext]_probeVars => ProbeTypeOK' /\ KeyInv'
<1> SUFFICES ASSUME ProbeTypeOK, KeyInv, [ProbeNext]_probeVars
             PROVE  ProbeTypeOK' /\ KeyInv'
  OBVIOUS
<1>1. CASE UNCHANGED probeVars
  BY <1>1 DEF probeVars, ProbeTypeOK, KeyInv, Sound
<1>2. CASE probe
  <2>1. /\ pc' = "resolve" /\ last' = [key |-> key, world |-> taken, sound |-> Sound]
        /\ trouble' = "none" /\ taken' = world /\ steady' = TRUE /\ calls' = 0
        /\ pc = "settled" /\ UNCHANGED <<world, persons>>
    BY <1>2 DEF probe
  <2>2. 0 \in 0 .. MaxCalls
    BY ProbeConstants DEF MaxCalls
  <2>3. ProbeTypeOK'
    BY <2>1, <2>2 DEF ProbeTypeOK
  <2>4. last'.sound => IsKeyOf(last'.key, last'.world)
    BY <2>1 DEF KeyInv
  <2>5. last'.world \in Worlds
    BY <2>1 DEF ProbeTypeOK
  <2> QED
    BY <2>1, <2>3, <2>4, <2>5 DEF KeyInv
<1>3. CASE resolve
  <2>1. UNCHANGED <<world, taken, steady, last>> /\ calls' \in 0 .. MaxCalls
    BY <1>3, CallPaid DEF resolve, Call
  <2>2. CASE \E why \in {"failed", "unresolved", "over_budget"} : Abort(why)
    BY <2>1, <2>2, AbortKeeps
  <2>3. CASE Proceed("address", <<>>, <<>>, "none")
    <3>1. pc' = "address" /\ persons' = <<>> /\ trouble' = "none" /\ pc # "settled"
      BY <1>3, <2>3 DEF Proceed, resolve, Call
    <3>2. ProbeTypeOK'
      BY <2>1, <3>1 DEF ProbeTypeOK
    <3> QED
      BY <2>1, <3>1, <3>2 DEF KeyInv
  <2> QED
    BY <1>3, <2>2, <2>3 DEF resolve
<1>4. CASE fetch_address_records_multi
  <2>1. UNCHANGED <<world, taken, steady, last>> /\ calls' \in 0 .. MaxCalls
    BY <1>4, CallPaid DEF fetch_address_records_multi, Call
  <2>2. CASE \E why \in {"failed", "unresolved", "over_budget"} : Abort(why)
    BY <2>1, <2>2, AbortKeeps
  <2>3. CASE \E rows \in Answers(AddressScope, 0, world.rows) : Proceed("people", rows, <<>>, "none")
    <3>1. PICK rows \in Answers(AddressScope, 0, world.rows) : Proceed("people", rows, <<>>, "none")
      BY <2>3
    <3>2. /\ pc' = "people" /\ persons' = <<>> /\ trouble' = "none" /\ records' = rows
          /\ pc # "settled"
      BY <1>4, <3>1 DEF Proceed, fetch_address_records_multi, Call
    <3>3. ProbeTypeOK'
      BY <2>1, <3>2 DEF ProbeTypeOK
    <3>4. world \in Worlds
      BY DEF ProbeTypeOK
    <3>5. IsFiniteSet(world.rows)
      BY <3>4, WorldParts
    <3>6. Enumerates(rows, AddressRecords(world))
      BY <3>1, <3>5, AnswersEnumerate DEF AddressRecords
    <3>7. Sound' => Enumerates(records', AddressRecords(taken'))
      BY <2>1, <3>2, <3>6 DEF KeyInv, Sound
    <3> QED
      BY <2>1, <3>2, <3>3, <3>7 DEF KeyInv
  <2> QED
    BY <1>4, <2>2, <2>3 DEF fetch_address_records_multi
<1>5. CASE fetch_people_at_address
  <2>1. UNCHANGED <<world, taken, steady, last>> /\ calls' \in 0 .. MaxCalls /\ pc = "people"
    BY <1>5, CallPaid DEF fetch_people_at_address, Call
  <2>2. CASE \E why \in {"failed", "unresolved", "over_budget"} : Abort(why)
    BY <2>1, <2>2, AbortKeeps
  <2>3. ASSUME NEW nodes \in SetToSeqs(world.people),
               Proceed("person", records \o Identities(nodes), Window(nodes), "none")
        PROVE  ProbeTypeOK' /\ KeyInv'
    <3>1. world \in Worlds /\ taken \in Worlds
      BY DEF ProbeTypeOK
    <3>2. world.people \in SUBSET Person /\ IsFiniteSet(world.people)
      BY <3>1, WorldParts
    <3>3. Enumerates(Window(nodes), Probed(world.people))
      BY <3>2, WindowEnumerates
    <3>4. Window(nodes) \in Seq(Person)
      <4>1. Window(nodes) \in Seq(Probed(world.people)) /\ Probed(world.people) \subseteq Person
        BY <3>2, <3>3 DEF Enumerates, Probed
      <4> QED
        BY <4>1
    <3>5. ASSUME steady
          PROVE  \E S \in SUBSET Probed(taken.people) :
                   Enumerates(Window(nodes), S) /\ Enumerates(records \o Identities(nodes), ReadUpTo(taken, S))
      <4>1. world = taken
        BY <2>1, <3>5 DEF KeyInv
      <4>2. trouble = "none"
        BY <2>1 DEF KeyInv
      <4>3. Enumerates(records, AddressRecords(taken))
        BY <2>1, <3>5, <4>2 DEF KeyInv, Sound
      <4>4. Enumerates(nodes, taken.people)
        BY <3>2, <4>1, SetToSeqsEnumerate
      <4>5. Enumerates(Identities(nodes), PeopleRecords(taken))
        BY <4>4, IdentitiesEnumerate DEF PeopleRecords
      <4>6. AddressRecords(taken) \cap PeopleRecords(taken) = {}
        BY ScopesApart
      <4>7. Enumerates(records \o Identities(nodes), AddressRecords(taken) \cup PeopleRecords(taken))
        BY <4>3, <4>5, <4>6, EnumeratesConcat
      <4>8. ReadUpTo(taken, Probed(taken.people)) = AddressRecords(taken) \cup PeopleRecords(taken)
        BY DEF ReadUpTo, RowsOf
      <4> QED
        BY <3>3, <4>1, <4>7, <4>8
    <3> DEFINE read == records \o Identities(nodes)
               left == Window(nodes)
    <3>6. /\ Proceed("person", read, left, "none") /\ left \in Seq(Person) /\ pc # "settled"
          /\ steady => \E S \in SUBSET Probed(taken.people) :
                         Enumerates(left, S) /\ Enumerates(read, ReadUpTo(taken, S))
      BY <2>1, <2>3, <3>4, <3>5
    <3> HIDE DEF read, left
    <3> QED
      BY <2>1, <3>6, PersonRead
  <2> QED
    BY <1>5, <2>2, <2>3 DEF fetch_people_at_address
<1>6. CASE fetch_person_records
  <2>1. UNCHANGED <<world, taken, steady, last>> /\ calls' \in 0 .. MaxCalls /\ pc = "person"
    BY <1>6, CallPaid DEF fetch_person_records, Call
  <2>2. CASE \E why \in {"failed", "unresolved", "over_budget"} : Abort(why)
    BY <2>1, <2>2, AbortKeeps
  <2>3. ASSUME NEW held \in SUBSET world.of[Head(persons)],
               NEW rows \in Answers(PersonScope, Head(persons), held),
               Proceed("person", records \o rows, Tail(persons),
                       IF held = world.of[Head(persons)] THEN trouble ELSE "timed_out")
        PROVE  ProbeTypeOK' /\ KeyInv'
    <3> DEFINE p == Head(persons)
               read == records \o rows
               left == Tail(persons)
               why == IF held = world.of[p] THEN trouble ELSE "timed_out"
    <3>1. world \in Worlds /\ taken \in Worlds /\ persons \in Seq(Person) /\ persons # <<>>
      BY <2>1 DEF ProbeTypeOK, KeyInv
    <3>2. p \in Person /\ left \in Seq(Person)
      BY <3>1
    <3>3. IsFiniteSet(held)
      BY <3>1, <3>2, WorldParts, FS_Subset
    <3>4. Enumerates(rows, {compact_row_record(PersonScope, p, r) : r \in held})
      BY <3>3, AnswersEnumerate
    <3>5. ASSUME why = "none", steady
          PROVE  \E S \in SUBSET Probed(taken.people) :
                   Enumerates(left, S) /\ Enumerates(read, ReadUpTo(taken, S))
      <4>1. world = taken /\ trouble = "none" /\ held = taken.of[p]
        BY <2>1, <3>5 DEF KeyInv
      <4>2. PICK S \in SUBSET Probed(taken.people) :
              Enumerates(persons, S) /\ Enumerates(records, ReadUpTo(taken, S))
        BY <2>1, <3>5, <4>1 DEF KeyInv, Sound
      <4>3. p \in S /\ Enumerates(left, S \ {p})
        BY <3>1, <4>2, EnumeratesTail
      <4>4. Enumerates(rows, PersonRecords(taken, p))
        BY <3>4, <4>1 DEF PersonRecords
      <4> HIDE DEF p
      <4>5. /\ ReadUpTo(taken, S) \cap PersonRecords(taken, p) = {}
            /\ ReadUpTo(taken, S \ {p}) = ReadUpTo(taken, S) \cup PersonRecords(taken, p)
        BY <3>1, <4>2, <4>3, ReadsApart
      <4>6. Enumerates(read, ReadUpTo(taken, S) \cup PersonRecords(taken, p))
        BY <4>2, <4>4, <4>5, EnumeratesConcat
      <4> QED
        BY <4>3, <4>5, <4>6
    <3>6. Proceed("person", read, left, why)
      BY <2>3
    <3>7. why \in {"none", "timed_out"} /\ pc # "settled"
      BY <2>1 DEF KeyInv
    <3> HIDE DEF read, left, why
    <3> QED
      BY <2>1, <3>2, <3>5, <3>6, <3>7, PersonRead
  <2> QED
    BY <1>6, <2>2, <2>3 DEF fetch_person_records
<1>7. CASE Change
  <2>1. /\ world' \in Worlds /\ steady' = (steady /\ pc = "settled")
        /\ UNCHANGED <<pc, calls, records, persons, key, trouble, taken, last>>
    BY <1>7 DEF Change
  <2>2. ProbeTypeOK'
    BY <2>1 DEF ProbeTypeOK
  <2>3. Sound' => Sound /\ pc = "settled"
    BY <2>1 DEF Sound
  <2> QED
    BY <2>1, <2>2, <2>3 DEF KeyInv
<1> QED
  BY <1>1, <1>2, <1>3, <1>4, <1>5, <1>6, <1>7 DEF ProbeNext

\* The data of two probes that were answered in full is told apart by their keys,
\* and by nothing else.
THEOREM KeysFollowData == ProbeSpec => []KeysTellDataApart
<1>1. ProbeInit => ProbeTypeOK /\ KeyInv
  <2> SUFFICES ASSUME ProbeInit PROVE ProbeTypeOK /\ KeyInv
    OBVIOUS
  <2>1. 0 \in 0 .. MaxCalls
    BY ProbeConstants DEF MaxCalls
  <2>2. ProbeTypeOK
    <3>1. world \in Worlds /\ taken = world /\ persons = <<>> /\ calls = 0 /\ pc = "settled"
          /\ trouble = "failed" /\ steady = FALSE
      BY DEF ProbeInit
    <3>2. <<>> \in Seq(Person)
      OBVIOUS
    <3> QED
      BY <2>1, <3>1, <3>2 DEF ProbeTypeOK
  <2>3. last.sound = FALSE /\ last.world = world
    BY DEF ProbeInit
  <2>4. pc = "settled" /\ steady = FALSE /\ world \in Worlds
    BY DEF ProbeInit
  <2> QED
    BY <2>2, <2>3, <2>4 DEF KeyInv, Sound
<1>2. ProbeTypeOK /\ KeyInv => KeysTellDataApart
  <2> SUFFICES ASSUME ProbeTypeOK, KeyInv, pc = "settled", Sound, last.sound
               PROVE  key = last.key <=> Covered(taken) = Covered(last.world)
    BY DEF KeysTellDataApart
  <2>1. taken \in Worlds /\ last.world \in Worlds
    BY DEF ProbeTypeOK, KeyInv
  <2>2. PICK s : Enumerates(s, Records(taken)) /\ key = records_fingerprint(s)
    BY DEF KeyInv, IsKeyOf
  <2>3. PICK t : Enumerates(t, Records(last.world)) /\ last.key = records_fingerprint(t)
    BY DEF KeyInv, IsKeyOf
  <2>4. Records(taken) \in SUBSET Triples /\ Records(last.world) \in SUBSET Triples
    BY <2>1, RecordsTyped
  <2>5. key = last.key <=> Records(taken) = Records(last.world)
    BY <2>2, <2>3, <2>4, OneKeyPerSet
  <2> QED
    BY <2>1, <2>5, RecordsAreCovered
<1> QED
  BY <1>1, <1>2, KeyStep, PTL DEF ProbeSpec
=============================================================================
