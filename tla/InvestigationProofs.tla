------------------------- MODULE InvestigationProofs -------------------------
(***************************************************************************)
(* An investigation runs the worker pool (its steps are steps of module    *)
(* WorkerPool or leave it alone), conserves its permits, reports every     *)
(* packet it launched, rejects only for the causes it names and leaves no  *)
(* same-person call behind.                                                *)
(***************************************************************************)
EXTENDS Investigation, SequenceLemmas, FiniteSetTheorems

-----------------------------------------------------------------------------
(* The inductive invariants.                                               *)

\* What the worker of a bucket returned; nothing until it did.
Answers(b) ==
  IF worker[b] = "done" THEN Pool!AgentResults(b) \cup {Pool!ErrorResults(b)} ELSE {<<>>}

\* The waiters are the queued workers, each once; permits are free or held, and
\* none is free while a worker waits; a worker that is done has answered for
\* its own bucket; the report is the collection of these answers.
PoolInv ==
  /\ Pool!PoolTypeOK
  /\ permits + Cardinality(Pool!Holding) = MaxConcurrency
  /\ waiters # <<>> => permits = 0
  /\ \A i \in DOMAIN waiters : worker[waiters[i]] = "queued"
  /\ \A i, j \in DOMAIN waiters : waiters[i] = waiters[j] => i = j
  /\ \A b \in Pool!W : results[b] \in Answers(b)
  /\ collected => \A b \in Pool!W : worker[b] = "done"
  /\ report = IF collected THEN Pool!Collected ELSE <<>>

Preparing == {"resolving", "people", "schema", "context"}
Deciding == {"adjudicating", "adjudicated"}

\* The preflight never runs out of its budget; only the adjudication's phases
\* follow an adjudication call, and only within its retries; a cancellation
\* before them keeps the investigation out of them; the same-person call
\* starts after the preflight, and settles before its groups are used.
PipelineInv ==
  /\ phase = "resolving" => calls = 0
  /\ phase = "people" => calls <= 1
  /\ lost = failing
  /\ phase \notin Deciding \cup {"reported"} => attempt = 0
  /\ phase = "adjudicating" => attempt <= MaxOutputRetries
  /\ phase = "failed" => failure \in {"resolve", "unknown_packet", "cancelled"}
  /\ failure = "cancelled" => cancelled
  /\ phase \in {"adjudicated", "reported"} => adjudication # "none"
  /\ cancelledIn # "never" => cancelled
  /\ cancelledIn \in Running \ Deciding => phase \notin Deciding \cup {"reported"}
  /\ phase \in Preparing => pairCall = "none"
  /\ pairGroups = "groups" => pairCall = "settled"
  /\ late \/ aborted \/ applied = "groups" => phase = "reported"
  /\ applied = "groups" => ~late /\ ~aborted /\ pairCall = "settled"
  /\ phase = "reported" => pairCall # "asking" \/ aborted

IInv == InvestigationTypeOK /\ PoolInv /\ PipelineInv

-----------------------------------------------------------------------------
(* The workers.                                                            *)

\* What is assumed of the buckets, and what follows of each.
LEMMA Buckets ==
  /\ Len(Bucket) \in Nat /\ Pool!W = 1 .. Len(Bucket)
  /\ MaxConcurrency \in Nat \ {0}
  /\ Bucket \in Seq(Seq(Packet))
  /\ \A b \in Pool!W : /\ Bucket[b] \in Seq(Packet)
                       /\ Len(Bucket[b]) \in Nat
                       /\ DOMAIN Bucket[b] = 1 .. Len(Bucket[b])
                       /\ \A i \in DOMAIN Bucket[b] : Bucket[b][i] \in Packet
<1>1. Bucket \in Seq(Seq(Packet) \ {<<>>}) /\ MaxConcurrency \in Nat \ {0}
  BY InvestigationConstants DEF Pool!PoolConstants
<1>2. Bucket \in Seq(Seq(Packet))
  BY <1>1
<1>3. Len(Bucket) \in Nat /\ Pool!W = 1 .. Len(Bucket)
  BY <1>2 DEF Pool!W
<1>4. ASSUME NEW b \in Pool!W PROVE Bucket[b] \in Seq(Packet)
  BY <1>2, <1>3
<1>5. \A b \in Pool!W : /\ Len(Bucket[b]) \in Nat
                        /\ DOMAIN Bucket[b] = 1 .. Len(Bucket[b])
                        /\ \A i \in DOMAIN Bucket[b] : Bucket[b][i] \in Packet
  BY <1>4
<1>6. QED
  BY <1>1, <1>2, <1>3, <1>4, <1>5

\* A worker's answer, an error one included, has one result for each packet of
\* its bucket, in order.
LEMMA AnswersFitTheBucket ==
  ASSUME NEW b \in Pool!W, NEW rs \in Pool!AgentResults(b) \cup {Pool!ErrorResults(b)}
  PROVE  /\ rs \in Seq(Pool!Result)
         /\ Len(rs) = Len(Bucket[b])
         /\ \A i \in 1 .. Len(Bucket[b]) : rs[i].of = Bucket[b][i]
<1>1. /\ Bucket[b] \in Seq(Packet) /\ DOMAIN Bucket[b] = 1 .. Len(Bucket[b])
      /\ Len(Bucket[b]) \in Nat /\ \A i \in DOMAIN Bucket[b] : Bucket[b][i] \in Packet
  BY Buckets
<1>2. rs \in [1 .. Len(Bucket[b]) -> Pool!Result]
  BY <1>1 DEF Pool!AgentResults, Pool!ErrorResults, Pool!Result
<1>3. rs \in Seq(Pool!Result) /\ Len(rs) = Len(Bucket[b])
  <2>1. \A S, n : n \in Nat /\ rs \in [1 .. n -> S] => rs \in Seq(S) /\ Len(rs) = n
    OBVIOUS
  <2>2. QED
    BY <1>1, <1>2, <2>1
<1>4. \A i \in 1 .. Len(Bucket[b]) : rs[i].of = Bucket[b][i]
  <2>1. CASE rs \in Pool!AgentResults(b)
    BY <1>1, <2>1 DEF Pool!AgentResults
  <2>2. CASE rs = Pool!ErrorResults(b)
    BY <1>1, <2>2 DEF Pool!ErrorResults
  <2>3. QED
    BY <2>1, <2>2
<1>5. QED
  BY <1>3, <1>4

\* The initial permits: the first workers hold one each, the rest wait in order.
LEMMA PoolStarts == Pool!Init => PoolInv
<1> SUFFICES ASSUME Pool!Init PROVE PoolInv
  OBVIOUS
<1> DEFINE n == Len(Bucket)
           m == MaxConcurrency
<1>1. n \in Nat /\ m \in Nat /\ m # 0 /\ Pool!W = 1 .. n
  BY Buckets
<1>2. \A b \in Pool!W : worker[b] = IF b <= m THEN "granted" ELSE "queued"
  BY DEF Pool!Init
<1>3. Pool!Holding = IF n < m THEN 1 .. n ELSE 1 .. m
  BY <1>1, <1>2 DEF Pool!Holding
<1>4. Cardinality(1 .. n) = n /\ Cardinality(1 .. m) = m
  <2>1. ASSUME NEW k \in Nat PROVE Cardinality(1 .. k) = k
    <3>1. Cardinality(1 .. k) = IF 1 > k THEN 0 ELSE k - 1 + 1
      BY FS_Interval
    <3>2. QED
      BY <3>1
  <2>2. QED
    BY <1>1, <2>1
<1>5. permits \in 0 .. m /\ permits + Cardinality(Pool!Holding) = m
  <2>1. permits = IF n < m THEN m - n ELSE 0
    BY DEF Pool!Init
  <2>2. CASE n < m
    BY <1>1, <1>3, <1>4, <2>1, <2>2
  <2>3. CASE ~(n < m)
    BY <1>1, <1>3, <1>4, <2>1, <2>3
  <2>4. QED
    BY <2>2, <2>3
<1>6. /\ waiters \in Seq(Pool!W) /\ Len(waiters) = IF m + 1 <= n THEN n - m ELSE 0
      /\ \A i \in 1 .. Len(waiters) : waiters[i] = m + i
  <2> DEFINE id == [b \in 1 .. n |-> b]
  <2>1. \A i \in m + 1 .. n : id[i] \in Pool!W
    BY <1>1
  <2>2. \A i \in m + 1 .. n : id[i] = i
    BY <1>1
  <2>3. waiters = SubSeq(id, m + 1, n)
    BY <1>1 DEF Pool!Init
  <2> HIDE DEF id, n, m
  <2>4. /\ waiters \in Seq(Pool!W)
        /\ Len(waiters) = IF m + 1 <= n THEN n - (m + 1) + 1 ELSE 0
        /\ \A i \in 1 .. n - (m + 1) + 1 : waiters[i] = id[m + 1 + i - 1]
    BY <1>1, <2>1, <2>3, SubSeqProperties
  <2>5. n - (m + 1) + 1 = n - m
    BY <1>1
  <2>6. ASSUME NEW i \in 1 .. Len(waiters) PROVE waiters[i] = m + i
    <3>1. i \in 1 .. n - (m + 1) + 1 /\ m + 1 + i - 1 = m + i /\ m + i \in m + 1 .. n
      BY <1>1, <2>4
    <3>2. waiters[i] = id[m + i]
      BY <2>4, <3>1
    <3>3. QED
      BY <2>2, <3>1, <3>2
  <2>7. QED
    BY <2>4, <2>5, <2>6
<1>7. waiters # <<>> => permits = 0
  <2>1. waiters # <<>> => Len(waiters) # 0
    BY <1>6
  <2>2. QED
    BY <1>1, <1>6, <2>1 DEF Pool!Init
<1>8. DOMAIN waiters = 1 .. Len(waiters) /\ Len(waiters) \in Nat
  BY <1>6
<1>9. \A i \in DOMAIN waiters : waiters[i] \in Pool!W /\ ~(waiters[i] <= m)
  BY <1>1, <1>6, <1>8
<1>10. \A i \in DOMAIN waiters : worker[waiters[i]] = "queued"
  BY <1>2, <1>9
<1>11. \A i, j \in DOMAIN waiters : waiters[i] = waiters[j] => i = j
  <2>1. ASSUME NEW i \in 1 .. Len(waiters), NEW j \in 1 .. Len(waiters), m + i = m + j
        PROVE  i = j
    BY <1>1, <1>8, <2>1
  <2>2. ASSUME NEW i \in 1 .. Len(waiters), NEW j \in 1 .. Len(waiters),
               waiters[i] = waiters[j]
        PROVE  m + i = m + j
    <3>1. waiters[i] = m + i /\ waiters[j] = m + j
      BY <1>6
    <3>2. QED
      BY <2>2, <3>1
  <2>3. QED
    BY <1>8, <2>1, <2>2
<1>12. Pool!PoolTypeOK
  <2>1. worker \in [Pool!W -> {"queued", "granted", "running", "done"}]
    BY DEF Pool!Init
  <2>2. \A S : <<>> \in Seq(S)
    OBVIOUS
  <2>3. results \in [Pool!W -> Seq(Pool!Result)]
    BY <2>2 DEF Pool!Init
  <2>4. cancelled \in BOOLEAN /\ collected \in BOOLEAN /\ active \in SUBSET Pool!W
    BY DEF Pool!Init
  <2>5. launched \in Seq(Pool!W) /\ report \in Seq(Pool!Result)
    BY <2>2 DEF Pool!Init
  <2>6. QED
    BY <1>5, <1>6, <2>1, <2>3, <2>4, <2>5 DEF Pool!PoolTypeOK
<1>13. \A b \in Pool!W : results[b] \in Answers(b)
  BY DEF Pool!Init, Answers
<1>14. ~collected /\ report = <<>>
  BY DEF Pool!Init
<1>15. QED
  BY <1>5, <1>7, <1>10, <1>11, <1>12, <1>13, <1>14 DEF PoolInv

\* The workers holding a permit are finitely many.
LEMMA HoldingFinite ==
  IsFiniteSet(Pool!Holding) /\ Cardinality(Pool!Holding) \in Nat
<1>1. Pool!Holding \in SUBSET (1 .. Len(Bucket)) /\ IsFiniteSet(1 .. Len(Bucket))
  BY Buckets, FS_Interval DEF Pool!Holding
<1>2. QED
  BY <1>1, FS_Subset, FS_CardinalityType

\* A worker that returns hands its permit to the first waiter, or frees it.
LEMMA PoolReturns ==
  ASSUME PoolInv, NEW b \in Pool!W, worker[b] \in {"granted", "running"},
         NEW rs \in Pool!AgentResults(b) \cup {Pool!ErrorResults(b)}, Pool!Return(b, rs),
         active' \in SUBSET Pool!W, UNCHANGED <<cancelled, launched, collected, report>>
  PROVE  PoolInv'
<1> DEFINE to == [worker EXCEPT ![b] = "done"]
           m == MaxConcurrency
           Handed ==
              /\ worker' \in [Pool!W -> {"queued", "granted", "running", "done"}]
              /\ worker'[b] = "done"
              /\ \A c \in Pool!W : c # b => (worker'[c] = "done" <=> worker[c] = "done")
              /\ permits' + Cardinality(Pool!Holding') = m /\ waiters' \in Seq(Pool!W)
              /\ waiters' # <<>> => permits' = 0
              /\ \A i \in DOMAIN waiters' : worker'[waiters'[i]] = "queued"
              /\ \A i, j \in DOMAIN waiters' : waiters'[i] = waiters'[j] => i = j
<1>1. PoolInv /\ Pool!PoolTypeOK
  BY DEF PoolInv
<1>2. /\ worker \in [Pool!W -> {"queued", "granted", "running", "done"}]
      /\ permits \in Nat /\ m \in Nat /\ waiters \in Seq(Pool!W)
  BY <1>1, Buckets DEF Pool!PoolTypeOK
<1>3. \A c \in Pool!W : to[c] = IF c = b THEN "done" ELSE worker[c]
  BY <1>2
<1>4. to \in [Pool!W -> {"queued", "granted", "running", "done"}]
  BY <1>2
<1>5. ~collected /\ ~collected' /\ report' = <<>>
  BY <1>1 DEF PoolInv
<1>6. results' = [results EXCEPT ![b] = rs] /\ Pool!Release(to)
  BY DEF Pool!Return
<1> HIDE DEF to
<1>7. b \in Pool!Holding
  BY DEF Pool!Holding
<1>8. ASSUME waiters = <<>> PROVE Handed
  <2>1. worker' = to /\ permits' = permits + 1 /\ waiters' = waiters
    BY <1>6, <1>8 DEF Pool!Release
  <2>2. Pool!Holding' = Pool!Holding \ {b}
    BY <1>3, <2>1 DEF Pool!Holding
  <2>3. Cardinality(Pool!Holding') = Cardinality(Pool!Holding) - 1
    BY <1>7, <2>2, HoldingFinite, FS_RemoveElement
  <2>4. permits' + Cardinality(Pool!Holding') = m
    BY <1>1, <1>2, <2>1, <2>3, HoldingFinite DEF PoolInv
  <2>5. worker' \in [Pool!W -> {"queued", "granted", "running", "done"}]
    BY <1>4, <2>1
  <2>6. worker'[b] = "done" /\ \A c \in Pool!W : c # b => worker'[c] = worker[c]
    BY <1>3, <2>1
  <2>7. waiters' \in Seq(Pool!W) /\ (waiters' # <<>> => permits' = 0)
    BY <1>2, <1>8, <2>1
  <2>8. DOMAIN waiters' = {}
    BY <1>8, <2>1
  <2>9. QED
    BY <2>4, <2>5, <2>6, <2>7, <2>8
<1>9. ASSUME waiters # <<>> PROVE Handed
  <2>1. worker' = [to EXCEPT ![Head(waiters)] = "granted"] /\ permits' = permits /\ waiters' = Tail(waiters)
    BY <1>6, <1>9 DEF Pool!Release
  <2> DEFINE h == Head(waiters)
  <2>2. /\ h \in Pool!W /\ Tail(waiters) \in Seq(Pool!W) /\ Len(Tail(waiters)) = Len(waiters) - 1
        /\ \A i \in 1 .. Len(Tail(waiters)) : Tail(waiters)[i] = waiters[i + 1]
    BY <1>2, <1>9, HeadTailProperties
  <2>3. Len(waiters) \in Nat /\ DOMAIN waiters = 1 .. Len(waiters) /\ 1 \in DOMAIN waiters /\ h = waiters[1]
    BY <1>2, <1>9
  <2>4. worker[h] = "queued" /\ h # b
    BY <1>1, <2>3 DEF PoolInv
  <2> HIDE DEF h
  <2>5. worker' \in [Pool!W -> {"queued", "granted", "running", "done"}]
    BY <1>4, <2>1 DEF h
  <2>6. /\ worker'[h] = "granted" /\ worker'[b] = "done"
        /\ \A c \in Pool!W : c # b /\ c # h => worker'[c] = worker[c]
    BY <1>3, <1>4, <2>1, <2>2, <2>4 DEF h
  <2>7. Pool!Holding' = (Pool!Holding \ {b}) \cup {h} /\ h \notin Pool!Holding \ {b}
    BY <2>2, <2>4, <2>6 DEF Pool!Holding
  <2>8. Cardinality(Pool!Holding \ {b}) = Cardinality(Pool!Holding) - 1 /\ IsFiniteSet(Pool!Holding \ {b})
    BY <1>7, HoldingFinite, FS_RemoveElement
  <2>9. Cardinality(Pool!Holding') = Cardinality(Pool!Holding)
    <3>1. Cardinality((Pool!Holding \ {b}) \cup {h}) = Cardinality(Pool!Holding \ {b}) + 1
      BY <2>7, <2>8, FS_AddElement
    <3>2. QED
      BY <2>7, <2>8, <3>1, HoldingFinite
  <2>10. permits' + Cardinality(Pool!Holding') = m /\ (waiters' # <<>> => permits' = 0)
    BY <1>1, <1>9, <2>1, <2>9 DEF PoolInv
  <2>11. waiters' \in Seq(Pool!W)
    BY <2>1, <2>2
  <2>12. DOMAIN waiters' = 1 .. Len(waiters) - 1 /\ \A i \in DOMAIN waiters' : waiters'[i] = waiters[i + 1]
    BY <2>1, <2>2
  <2>13. \A i \in DOMAIN waiters' : i + 1 \in DOMAIN waiters /\ i + 1 # 1 /\ i \in Nat
    BY <2>3, <2>12
  <2>14. \A i, j \in DOMAIN waiters' : waiters'[i] = waiters'[j] => i = j
    <3>1. \A i, j \in DOMAIN waiters' : waiters'[i] = waiters'[j] => i + 1 = j + 1
      BY <1>1, <2>12, <2>13 DEF PoolInv
    <3>2. QED
      BY <2>13, <3>1
  <2>15. ASSUME NEW i \in DOMAIN waiters' PROVE worker'[waiters'[i]] = "queued"
    <3>1. worker[waiters[i + 1]] = "queued" /\ waiters[i + 1] # h
      BY <1>1, <2>3, <2>13 DEF PoolInv
    <3>2. waiters[i + 1] \in Pool!W
      BY <1>2, <2>13
    <3>3. waiters[i + 1] # b
      BY <3>1
    <3>4. QED
      BY <2>6, <2>12, <3>1, <3>2, <3>3
  <2>16. \A c \in Pool!W : c # b => (worker'[c] = "done" <=> worker[c] = "done")
    BY <2>4, <2>6
  <2>17. QED
    BY <2>5, <2>6, <2>10, <2>11, <2>14, <2>15, <2>16
<1>10. Handed
  BY <1>8, <1>9
<1>11. permits' \in 0 .. MaxConcurrency
  <2>1. permits' \in Nat
    BY <1>2, <1>6 DEF Pool!Release
  <2>2. Cardinality(Pool!Holding)' \in Nat
    <3>1. Pool!Holding' \in SUBSET (1 .. Len(Bucket)) /\ IsFiniteSet(1 .. Len(Bucket))
      BY Buckets, FS_Interval DEF Pool!Holding
    <3>2. QED
      BY <3>1, FS_Subset, FS_CardinalityType
  <2>3. QED
    BY <1>2, <1>10, <2>1, <2>2
<1>12. results' \in [Pool!W -> Seq(Pool!Result)]
  BY <1>1, <1>6, AnswersFitTheBucket DEF Pool!PoolTypeOK
<1>13. Pool!PoolTypeOK'
  BY <1>1, <1>10, <1>11, <1>12 DEF Pool!PoolTypeOK
<1>14. ASSUME NEW c \in Pool!W PROVE results'[c] \in Answers(c)'
  <2>1. results[c] \in Answers(c)
    BY <1>1 DEF PoolInv
  <2>2. results'[c] = IF c = b THEN rs ELSE results[c]
    BY <1>1, <1>6 DEF Pool!PoolTypeOK
  <2>3. QED
    BY <1>10, <2>1, <2>2 DEF Answers
<1>15. QED
  BY <1>5, <1>10, <1>13, <1>14 DEF PoolInv

-----------------------------------------------------------------------------
(* The report.                                                             *)

\* The operators of the worker pool's module are those of the lemmas.
LEMMA PoolOperators ==
  /\ \A S : Pool!Cardinality(S) = Cardinality(S)
  /\ \A s : Pool!FlattenSeq(s) = FlattenSeq(s)
  /\ \A S : Pool!Max(S) = Max(S)
  /\ \A s : Pool!ToSet(s) = {s[i] : i \in DOMAIN s}
<1>1. \A S : Pool!Cardinality(S) = Cardinality(S)
  BY DEF Pool!Cardinality, Cardinality
<1>2. QED
  BY <1>1 DEF Pool!FlattenSeq, FlattenSeq, Pool!Max, Max, Pool!ToSet

\* What is launched is packets, and each is in a bucket.
LEMMA PlanInBuckets ==
  /\ Heuristics \in Seq(Packet)
  /\ Len(Heuristics) \in Nat
  /\ DOMAIN Heuristics = 1 .. Len(Heuristics)
  /\ \A i \in DOMAIN Heuristics :
       \E k \in DOMAIN FlattenSeq(Bucket) : Heuristics[i] = FlattenSeq(Bucket)[k]
<1>1. /\ Heuristics \in Seq(Packet)
      /\ Pool!ToSet(Heuristics) = Pool!ToSet(Pool!FlattenSeq(Bucket))
  BY InvestigationConstants DEF Pool!PoolConstants
<1>2. {Heuristics[i] : i \in DOMAIN Heuristics}
        = {FlattenSeq(Bucket)[k] : k \in DOMAIN FlattenSeq(Bucket)}
  BY <1>1, PoolOperators
<1>3. \A s \in Seq(Packet) : Len(s) \in Nat /\ DOMAIN s = 1 .. Len(s)
  OBVIOUS
<1>4. QED
  BY <1>1, <1>2, <1>3

\* The results of all workers, as a sequence of sequences.
Parts == [b \in Pool!W |-> results[b]]

\* All results of the pool, bucket after bucket, are one list of results.
LEMMA EverythingFlat ==
  ASSUME Pool!PoolTypeOK
  PROVE  /\ Parts \in Seq(Seq(Pool!Result)) /\ Len(Parts) = Len(Bucket)
         /\ \A b \in Pool!W : Parts[b] = results[b]
         /\ Pool!Everything = FlattenSeq(Parts)
         /\ Pool!Everything \in Seq(Pool!Result)
         /\ Len(Pool!Everything) \in Nat
         /\ DOMAIN Pool!Everything = 1 .. Len(Pool!Everything)
         /\ \A k \in DOMAIN Pool!Everything : Pool!Everything[k] \in Pool!Result
<1>1. Len(Bucket) \in Nat /\ Pool!W = 1 .. Len(Bucket)
  BY Buckets
<1>2. \A b \in Pool!W : results[b] \in Seq(Pool!Result)
  BY DEF Pool!PoolTypeOK
<1>3. Parts \in [1 .. Len(Bucket) -> Seq(Pool!Result)] /\ \A b \in Pool!W : Parts[b] = results[b]
  BY <1>1, <1>2 DEF Parts
<1>4. Parts \in Seq(Seq(Pool!Result)) /\ Len(Parts) = Len(Bucket)
  <2>1. \A S, n : n \in Nat /\ Parts \in [1 .. n -> S] => Parts \in Seq(S) /\ Len(Parts) = n
    OBVIOUS
  <2>2. QED
    BY <1>1, <1>3, <2>1
<1>5. Pool!Everything = FlattenSeq(Parts)
  BY PoolOperators DEF Pool!Everything, Parts
<1>6. PICK start : IsOffsets(start, Parts)
  BY <1>4, OffsetsExist
<1>7. FlattenSeq(Parts) \in Seq(Pool!Result)
  BY <1>4, <1>6, FlattenAt
<1>8. \A s \in Seq(Pool!Result) : /\ Len(s) \in Nat /\ DOMAIN s = 1 .. Len(s)
                                  /\ \A k \in DOMAIN s : s[k] \in Pool!Result
  OBVIOUS
<1>9. QED
  BY <1>3, <1>4, <1>5, <1>7, <1>8

\* by_id finds a result of that id whenever there is one.
LEMMA ByIdFinds ==
  ASSUME Pool!PoolTypeOK, NEW p
  PROVE  /\ Pool!ById(p) \in Seq(Pool!Result) /\ Len(Pool!ById(p)) <= 1
         /\ Len(Pool!ById(p)) = 1 =>
              \E k \in DOMAIN Pool!Everything :
                Pool!ById(p)[1] = Pool!Everything[k] /\ Pool!Everything[k].id = p
         /\ (\E k \in DOMAIN Pool!Everything : Pool!Everything[k].id = p) => Len(Pool!ById(p)) = 1
<1> DEFINE mine == {k \in DOMAIN Pool!Everything : Pool!Everything[k].id = p}
<1>1. Pool!ById(p) = IF mine = {} THEN <<>> ELSE <<Pool!Everything[Max(mine)]>>
  BY PoolOperators DEF Pool!ById
<1>2. mine # {} => Max(mine) \in mine
  <2>1. Len(Pool!Everything) \in Nat /\ mine \in SUBSET (1 .. Len(Pool!Everything))
    BY EverythingFlat
  <2> HIDE DEF mine
  <2>2. QED
    BY <2>1, MaxIsGreatest
<1>3. \A k \in mine : Pool!Everything[k] \in Pool!Result /\ Pool!Everything[k].id = p
  BY EverythingFlat
<1>4. CASE mine = {}
  <2>1. Pool!ById(p) = <<>>
    BY <1>1, <1>4
  <2>2. <<>> \in Seq(Pool!Result) /\ Len(<<>>) = 0
    OBVIOUS
  <2>3. QED
    BY <1>4, <2>1, <2>2
<1>5. CASE mine # {}
  <2>1. Pool!ById(p) = <<Pool!Everything[Max(mine)]>> /\ Max(mine) \in mine
    BY <1>1, <1>2, <1>5
  <2>2. \A e \in Pool!Result : <<e>> \in Seq(Pool!Result) /\ Len(<<e>>) = 1 /\ <<e>>[1] = e
    OBVIOUS
  <2>3. QED
    BY <1>3, <2>1, <2>2
<1>6. QED
  BY <1>4, <1>5

\* Every reported result answers for a launched packet, its own by id, and the
\* places of the report follow those of the plan.
LEMMA CollectedInPlanOrder ==
  ASSUME Pool!PoolTypeOK
  PROVE  /\ Pool!Collected \in Seq(Pool!Result)
         /\ \E place \in [DOMAIN Pool!Collected -> DOMAIN Heuristics] :
              /\ \A k \in DOMAIN Pool!Collected :
                   /\ Pool!Collected[k].id = Heuristics[place[k]]
                   /\ Pool!Collected[k] = Pool!ById(Heuristics[place[k]])[1]
              /\ \A k, l \in DOMAIN Pool!Collected : k < l => place[k] < place[l]
<1> DEFINE L == Heuristics
           s == [i \in DOMAIN L |-> Pool!ById(L[i])]
           C == Pool!Collected
<1>1. /\ Len(L) \in Nat /\ DOMAIN L = 1 .. Len(L)
  BY PlanInBuckets
<1>2. C = FlattenSeq(s)
  BY PoolOperators DEF Pool!Collected
<1>3. \A i \in DOMAIN L : s[i] = Pool!ById(L[i])
  OBVIOUS
<1>4. s \in Seq(Seq(Pool!Result)) /\ Len(s) = Len(L)
  <2>1. s \in [1 .. Len(L) -> Seq(Pool!Result)]
    BY <1>1, ByIdFinds
  <2> HIDE DEF s
  <2>2. \A S, n : n \in Nat /\ s \in [1 .. n -> S] => s \in Seq(S) /\ Len(s) = n
    OBVIOUS
  <2>3. QED
    BY <1>1, <2>1, <2>2
<1> HIDE DEF s, L, C
<1>5. \A i \in 1 .. Len(s) : Len(s[i]) <= 1
  BY <1>1, <1>3, <1>4, ByIdFinds
<1>6. C \in Seq(Pool!Result)
  <2>1. PICK start : IsOffsets(start, s)
    BY <1>4, OffsetsExist
  <2>2. QED
    BY <1>2, <1>4, <2>1, FlattenAt
<1>7. PICK part \in [1 .. Len(C) -> 1 .. Len(s)] :
        /\ \A k \in 1 .. Len(C) : Len(s[part[k]]) = 1 /\ C[k] = s[part[k]][1]
        /\ \A k, l \in 1 .. Len(C) : k < l => part[k] < part[l]
  <2>1. PICK part : ComesFrom(part, s)
    BY <1>4, <1>5, FlattenAtMostOne
  <2>2. QED
    BY <1>2, <2>1 DEF ComesFrom
<1>8. DOMAIN C = 1 .. Len(C) /\ 1 .. Len(s) = DOMAIN L
  BY <1>1, <1>4, <1>6
<1>9. ASSUME NEW k \in DOMAIN C PROVE C[k].id = L[part[k]] /\ C[k] = Pool!ById(L[part[k]])[1]
  <2>1. part[k] \in DOMAIN L /\ s[part[k]] = Pool!ById(L[part[k]])
    BY <1>3, <1>7, <1>8
  <2>2. Len(Pool!ById(L[part[k]])) = 1 /\ C[k] = Pool!ById(L[part[k]])[1]
    BY <1>7, <1>8, <2>1
  <2>3. QED
    BY <2>2, ByIdFinds
<1>10. QED
  BY <1>6, <1>7, <1>8, <1>9 DEF L, C

\* Every launched packet has a result of its own worker.
LEMMA EveryLaunchAnswered ==
  ASSUME PoolInv, \A b \in Pool!W : worker[b] = "done", NEW i \in DOMAIN Heuristics
  PROVE  \E k \in DOMAIN Pool!Everything : Pool!Everything[k].of = Heuristics[i]
<1>1. Pool!PoolTypeOK
  BY DEF PoolInv
<1>2. /\ Parts \in Seq(Seq(Pool!Result)) /\ Len(Parts) = Len(Bucket)
      /\ \A b \in Pool!W : Parts[b] = results[b]
      /\ Pool!Everything = FlattenSeq(Parts) /\ DOMAIN Pool!Everything = 1 .. Len(Pool!Everything)
  BY <1>1, EverythingFlat
<1>3. Pool!W = 1 .. Len(Bucket) /\ Len(Bucket) \in Nat /\ Bucket \in Seq(Seq(Packet))
  BY Buckets
<1>4. \A b \in Pool!W : /\ Len(Parts[b]) = Len(Bucket[b])
                        /\ \A j \in 1 .. Len(Bucket[b]) : Parts[b][j].of = Bucket[b][j]
  <2>1. ASSUME NEW b \in Pool!W
        PROVE  results[b] \in Pool!AgentResults(b) \cup {Pool!ErrorResults(b)}
    BY DEF PoolInv, Answers
  <2>2. QED
    BY <1>2, <2>1, AnswersFitTheBucket
<1>5. PICK start : IsOffsets(start, Bucket)
  BY <1>3, OffsetsExist
<1>6. IsOffsets(start, Parts)
  BY <1>2, <1>3, <1>4, <1>5 DEF IsOffsets
<1>7. PICK n \in 1 .. start[Len(Bucket)] : FlattenSeq(Bucket)[n] = Heuristics[i]
  <2>1. FlattenSeq(Bucket) \in Seq(Packet) /\ Len(FlattenSeq(Bucket)) = start[Len(Bucket)]
    BY <1>3, <1>5, FlattenAt
  <2>2. DOMAIN FlattenSeq(Bucket) = 1 .. start[Len(Bucket)]
    BY <2>1
  <2>3. QED
    BY <2>2, PlanInBuckets
<1>8. PICK b \in 1 .. Len(Bucket) : \E j \in 1 .. Len(Bucket[b]) : n = start[b - 1] + j
  BY <1>3, <1>5, <1>7, OffsetsCover
<1>9. PICK j \in 1 .. Len(Bucket[b]) : n = start[b - 1] + j
  BY <1>8
<1>10. FlattenSeq(Bucket)[n] = Bucket[b][j]
  BY <1>3, <1>5, <1>9, FlattenAt
<1>11. FlattenSeq(Parts)[n] = Parts[b][j] /\ n \in 1 .. Len(FlattenSeq(Parts))
  <2>1. j \in 1 .. Len(Parts[b]) /\ b \in 1 .. Len(Parts)
    BY <1>2, <1>3, <1>4
  <2>2. FlattenSeq(Parts)[start[b - 1] + j] = Parts[b][j]
    BY <1>2, <1>6, <2>1, FlattenAt
  <2>3. Len(FlattenSeq(Parts)) = start[Len(Bucket)]
    BY <1>2, <1>6, FlattenAt
  <2>4. QED
    BY <1>7, <1>9, <2>2, <2>3
<1>12. Parts[b][j].of = Bucket[b][j]
  BY <1>3, <1>4
<1>13. QED
  BY <1>2, <1>7, <1>10, <1>11, <1>12

\* The report of the workers: in the order of the plan; and, if no result is
\* filed under a foreign id, complete.
LEMMA ReportIsComplete == PoolInv => Pool!EveryPacketReported
<1> SUFFICES ASSUME PoolInv PROVE Pool!EveryPacketReported
  OBVIOUS
<1> DEFINE L == Heuristics
           C == Pool!Collected
           E == Pool!Everything
<1>1. Pool!PoolTypeOK /\ report = IF collected THEN C ELSE <<>>
  BY DEF PoolInv
<1>2. PICK place \in [DOMAIN C -> DOMAIN L] :
        /\ \A k \in DOMAIN C : C[k].id = L[place[k]] /\ C[k] = Pool!ById(L[place[k]])[1]
        /\ \A k, l \in DOMAIN C : k < l => place[k] < place[l]
  BY <1>1, CollectedInPlanOrder
<1>3. Pool!ToSet(L) = {L[i] : i \in DOMAIN L}
  BY PoolOperators
<1>4. Pool!ReportInPlanOrder
  <2>1. CASE collected
    <3>1. report = C
      BY <1>1, <2>1
    <3> HIDE DEF C, L
    <3>2. \A k \in DOMAIN C : C[k].id \in Pool!ToSet(L)
      BY <1>2, <1>3
    <3>3. \A k, l \in DOMAIN C : k < l => \E m, n \in DOMAIN L :
             m < n /\ L[m] = C[k].id /\ L[n] = C[l].id
      BY <1>2
    <3>4. QED
      BY <3>1, <3>2, <3>3 DEF Pool!ReportInPlanOrder, L
  <2>2. CASE ~collected
    <3>1. report = <<>> /\ DOMAIN <<>> = {}
      BY <1>1, <2>2
    <3>2. DOMAIN report = {}
      BY <3>1
    <3>3. QED
      BY <3>2 DEF Pool!ReportInPlanOrder
  <2>3. QED
    BY <2>1, <2>2
<1>5. ASSUME collected, \A k \in DOMAIN E : E[k].id = E[k].of
      PROVE  /\ Len(report) = Len(L)
             /\ \A k \in DOMAIN report : report[k].id = L[k] /\ report[k].of = L[k]
             /\ \A k, l \in DOMAIN report : report[k].id = report[l].id => report[k] = report[l]
  <2>1. report = C /\ \A b \in Pool!W : worker[b] = "done"
    BY <1>1, <1>5 DEF PoolInv
  <2>2. Len(L) \in Nat /\ DOMAIN L = 1 .. Len(L)
    BY PlanInBuckets
  <2>3. ASSUME NEW i \in DOMAIN L
        PROVE  /\ Pool!ById(L[i]) \in Seq(Pool!Result) /\ Len(Pool!ById(L[i])) = 1
               /\ Pool!ById(L[i])[1].id = L[i] /\ Pool!ById(L[i])[1].of = L[i]
    <3>1. PICK k \in DOMAIN E : E[k].of = L[i]
      BY <2>1, EveryLaunchAnswered
    <3>2. E[k].id = L[i]
      BY <1>5, <3>1
    <3>3. Len(Pool!ById(L[i])) = 1 /\ Pool!ById(L[i]) \in Seq(Pool!Result)
      BY <1>1, <3>2, ByIdFinds
    <3>4. PICK m \in DOMAIN E : Pool!ById(L[i])[1] = E[m] /\ E[m].id = L[i]
      BY <1>1, <3>3, ByIdFinds
    <3>5. QED
      BY <1>5, <3>3, <3>4
  <2> DEFINE s == [i \in DOMAIN L |-> Pool!ById(L[i])]
  <2>4. C = FlattenSeq(s) /\ \A i \in DOMAIN L : s[i] = Pool!ById(L[i])
    BY PoolOperators DEF Pool!Collected
  <2>5. s \in Seq(Seq(Pool!Result)) /\ Len(s) = Len(L)
    <3>1. s \in [1 .. Len(L) -> Seq(Pool!Result)]
      BY <2>2, <2>3
    <3> HIDE DEF s
    <3>2. \A S, n : n \in Nat /\ s \in [1 .. n -> S] => s \in Seq(S) /\ Len(s) = n
      OBVIOUS
    <3>3. QED
      BY <2>2, <3>1, <3>2
  <2> HIDE DEF s, L, E
  <2>6. \A i \in 1 .. Len(s) : Len(s[i]) = 1
    BY <2>2, <2>3, <2>4, <2>5
  <2>7. Len(C) = Len(L) /\ \A i \in 1 .. Len(L) : C[i] = s[i][1]
    BY <2>4, <2>5, <2>6, FlattenSingletons
  <2>8. \A i \in DOMAIN L : C[i] = Pool!ById(L[i])[1] /\ C[i].id = L[i] /\ C[i].of = L[i]
    BY <2>2, <2>3, <2>4, <2>7
  <2>9. DOMAIN C = DOMAIN L
    <3>1. C \in Seq(Pool!Result)
      BY <1>1, CollectedInPlanOrder
    <3>2. DOMAIN C = 1 .. Len(C)
      BY <3>1
    <3>3. QED
      BY <2>2, <2>7, <3>2
  <2> HIDE DEF C
  <2>10. \A k \in DOMAIN C : C[k].id = L[k] /\ C[k].of = L[k]
    BY <2>8, <2>9
  <2>11. \A k, l \in DOMAIN C : C[k].id = C[l].id => C[k] = C[l]
    BY <2>8, <2>9
  <2>12. QED
    BY <2>1, <2>7, <2>10, <2>11
<1>6. QED
  BY <1>4, <1>5 DEF Pool!EveryPacketReported

-----------------------------------------------------------------------------
(* Every step keeps the workers' invariant.                                *)

\* The variables of the worker pool.
PoolVars == <<cancelled, permits, waiters, worker, active, launched, results, collected, report>>

\* A step that leaves the pool alone keeps its invariant.
LEMMA PoolUnchanged == PoolInv /\ UNCHANGED PoolVars => PoolInv'
<1> SUFFICES ASSUME PoolInv, UNCHANGED PoolVars PROVE PoolInv'
  OBVIOUS
<1>1. UNCHANGED <<cancelled, permits, waiters, worker, active, launched, results, collected, report>>
  BY DEF PoolVars
<1>2. Pool!PoolTypeOK' /\ Pool!Holding' = Pool!Holding
  BY <1>1 DEF PoolInv, Pool!PoolTypeOK, Pool!Holding
<1>3. Pool!Collected' = Pool!Collected
  BY <1>1 DEF Pool!Collected, Pool!ById, Pool!Everything
<1>4. \A b \in Pool!W : Answers(b)' = Answers(b)
  BY <1>1 DEF Answers
<1>5. QED
  BY <1>1, <1>2, <1>3, <1>4 DEF PoolInv

\* And so does every step of the pool.
LEMMA PoolSteps == PoolInv /\ [Pool!Next]_PoolVars => PoolInv'
<1> SUFFICES ASSUME PoolInv, [Pool!Next]_PoolVars PROVE PoolInv'
  OBVIOUS
<1>1. Pool!PoolTypeOK
  BY DEF PoolInv
<1>2. ASSUME NEW b \in Pool!W, Pool!Launch(b) PROVE PoolInv'
  <2>1. /\ worker[b] = "granted" /\ worker' = [worker EXCEPT ![b] = "running"]
        /\ active' = active \cup {b} /\ launched' = Append(launched, b)
        /\ UNCHANGED <<cancelled, permits, waiters, results, collected, report>>
    BY <1>2 DEF Pool!Launch, Pool!outcome
  <2>2. worker' \in [Pool!W -> {"queued", "granted", "running", "done"}]
    BY <1>1, <2>1 DEF Pool!PoolTypeOK
  <2>3. \A c \in Pool!W : worker'[c] = IF c = b THEN "running" ELSE worker[c]
    BY <1>1, <2>1 DEF Pool!PoolTypeOK
  <2>4. Pool!Holding' = Pool!Holding
    BY <2>1, <2>3 DEF Pool!Holding
  <2>5. launched' \in Seq(Pool!W) /\ active' \in SUBSET Pool!W
    BY <1>1, <2>1 DEF Pool!PoolTypeOK
  <2>6. Pool!PoolTypeOK'
    BY <1>1, <2>1, <2>2, <2>5 DEF Pool!PoolTypeOK
  <2>7. ~collected
    BY <2>1 DEF PoolInv
  <2>8. \A c \in Pool!W : results'[c] \in Answers(c)'
    <3> SUFFICES ASSUME NEW c \in Pool!W PROVE results'[c] \in Answers(c)'
      OBVIOUS
    <3>1. worker'[c] = "done" <=> worker[c] = "done"
      BY <2>1, <2>3
    <3>2. Answers(c)' = Answers(c)
      BY <3>1 DEF Answers
    <3>3. results[c] \in Answers(c)
      BY DEF PoolInv
    <3>4. QED
      BY <2>1, <3>2, <3>3
  <2>9. \A i \in DOMAIN waiters' : worker'[waiters'[i]] = "queued"
    <3>1. \A i \in DOMAIN waiters : waiters[i] \in Pool!W /\ worker[waiters[i]] = "queued"
      BY <1>1 DEF PoolInv, Pool!PoolTypeOK
    <3>2. QED
      BY <2>1, <2>3, <3>1
  <2>10. QED
    BY <2>1, <2>4, <2>6, <2>7, <2>8, <2>9 DEF PoolInv
<1>3. ASSUME NEW b \in Pool!W, Pool!Skip(b) PROVE PoolInv'
  <2>1. /\ worker[b] = "granted" /\ Pool!Return(b, Pool!ErrorResults(b))
        /\ UNCHANGED <<cancelled, active, launched, collected, report>>
    BY <1>3 DEF Pool!Skip, Pool!outcome
  <2>2. active' \in SUBSET Pool!W
    BY <1>1, <2>1 DEF Pool!PoolTypeOK
  <2>3. QED
    BY <2>1, <2>2, PoolReturns
<1>4. ASSUME NEW b \in Pool!W, Pool!Finish(b) PROVE PoolInv'
  <2>1. PICK rs \in Pool!AgentResults(b) \cup {Pool!ErrorResults(b)} :
          /\ worker[b] = "running" /\ Pool!Return(b, rs) /\ active' = active \ {b}
          /\ UNCHANGED <<cancelled, launched, collected, report>>
    BY <1>4 DEF Pool!Finish, Pool!outcome
  <2>2. active' \in SUBSET Pool!W
    BY <1>1, <2>1 DEF Pool!PoolTypeOK
  <2>3. QED
    BY <2>1, <2>2, PoolReturns
<1>5. ASSUME NEW b \in Pool!W, Pool!Timeout(b) PROVE PoolInv'
  <2>1. /\ worker[b] = "running" /\ Pool!Return(b, Pool!ErrorResults(b))
        /\ UNCHANGED <<cancelled, active, launched, collected, report>>
    BY <1>5 DEF Pool!Timeout, Pool!outcome
  <2>2. active' \in SUBSET Pool!W
    BY <1>1, <2>1 DEF Pool!PoolTypeOK
  <2>3. QED
    BY <2>1, <2>2, PoolReturns
<1>6. ASSUME UNCHANGED <<permits, waiters, worker, launched, results, collected, report>>,
             cancelled' \in BOOLEAN, active' \in SUBSET Pool!W
      PROVE  PoolInv'
  <2>1. Pool!PoolTypeOK' /\ Pool!Holding' = Pool!Holding
    BY <1>1, <1>6 DEF Pool!PoolTypeOK, Pool!Holding
  <2>2. Pool!Collected' = Pool!Collected
    BY <1>6 DEF Pool!Collected, Pool!ById, Pool!Everything
  <2>3. \A b \in Pool!W : Answers(b)' = Answers(b)
    BY <1>6 DEF Answers
  <2>4. QED
    BY <1>6, <2>1, <2>2, <2>3 DEF PoolInv
<1>7. ASSUME NEW b \in Pool!W, Pool!Abandoned(b) PROVE PoolInv'
  BY <1>1, <1>6, <1>7 DEF Pool!Abandoned, Pool!outcome, Pool!PoolTypeOK
<1>8. ASSUME Pool!Cancel PROVE PoolInv'
  BY <1>1, <1>6, <1>8 DEF Pool!Cancel, Pool!outcome, Pool!PoolTypeOK
<1>9. ASSUME Pool!Collect PROVE PoolInv'
  <2>1. /\ \A b \in Pool!W : worker[b] = "done"
        /\ collected' = TRUE /\ report' = Pool!Collected
        /\ UNCHANGED <<cancelled, permits, waiters, worker, active, launched, results>>
    BY <1>9 DEF Pool!Collect
  <2>2. Pool!Collected' = Pool!Collected
    BY <2>1 DEF Pool!Collected, Pool!ById, Pool!Everything
  <2>3. Pool!Collected \in Seq(Pool!Result)
    BY <1>1, CollectedInPlanOrder
  <2>4. Pool!PoolTypeOK' /\ Pool!Holding' = Pool!Holding
    BY <1>1, <2>1, <2>3 DEF Pool!PoolTypeOK, Pool!Holding
  <2>5. \A b \in Pool!W : Answers(b)' = Answers(b)
    BY <2>1 DEF Answers
  <2>6. QED
    BY <2>1, <2>2, <2>4, <2>5 DEF PoolInv
<1>10. CASE UNCHANGED PoolVars
  BY <1>10, PoolUnchanged
<1>11. QED
  BY <1>2, <1>3, <1>4, <1>5, <1>7, <1>8, <1>9, <1>10 DEF Pool!Next, Pool!Work, Pool!Worker

-----------------------------------------------------------------------------
(* The pipeline.                                                           *)

\* A step of the investigation is a step of the worker pool, or leaves it alone.
LEMMA PoolStepOrStutter == [Next]_vars => [Pool!Next]_PoolVars
<1> SUFFICES ASSUME [Next]_vars PROVE [Pool!Next]_PoolVars
  OBVIOUS
<1>1. CASE UNCHANGED vars
  BY <1>1 DEF vars, flag, workers, PoolVars
<1>2. ASSUME UNCHANGED <<flag, workers>> PROVE [Pool!Next]_PoolVars
  BY <1>2 DEF flag, workers, PoolVars
<1>3. ASSUME Pipeline PROVE [Pool!Next]_PoolVars
  <2>1. CASE Resolve
    BY <1>2, <2>1 DEF Resolve
  <2>2. CASE \E ok \in BOOLEAN : People(ok) \/ Schema(ok)
    BY <1>2, <2>2 DEF People, Schema
  <2>3. CASE StartPlanning
    BY <1>2, <2>3 DEF StartPlanning
  <2>4. CASE PlanReady
    BY <1>2, <2>4 DEF PlanReady
  <2>5. CASE LaunchWorkers \/ Score
    BY <1>2, <2>5 DEF LaunchWorkers, Score, Check
  <2>6. CASE WorkersReturn
    BY <2>6 DEF WorkersReturn, Pool!Next
  <2>7. CASE AdjudicateWithoutModel
    BY <1>2, <2>7 DEF AdjudicateWithoutModel
  <2>8. CASE \E outcome \in {"valid", "invalid", "thrown"} : Adjudicate(outcome)
    BY <1>2, <2>8 DEF Adjudicate
  <2>9. CASE Report
    BY <1>2, <2>9 DEF Report
  <2>10. QED
    BY <1>3, <2>1, <2>2, <2>3, <2>4, <2>5, <2>6, <2>7, <2>8, <2>9 DEF Pipeline
<1>4. CASE ReportLate
  BY <1>2, <1>4 DEF ReportLate
<1>5. CASE WorkersStep
  BY <1>5 DEF WorkersStep, Pool!Next
<1>6. CASE AbandonedWorker
  BY <1>6 DEF AbandonedWorker, Pool!Next, Pool!W
<1>7. CASE \E groups \in {"none", "groups"} : PairCallSettles(groups)
  BY <1>2, <1>7 DEF PairCallSettles
<1>8. CASE Cancel
  BY <1>8 DEF Cancel, Pool!Next
<1>9. QED
  BY <1>1, <1>3, <1>4, <1>5, <1>6, <1>7, <1>8 DEF Next

\* An investigation starts within its invariant.
LEMMA PipelineStarts == Init => InvestigationTypeOK /\ PipelineInv
<1> SUFFICES ASSUME Init PROVE InvestigationTypeOK /\ PipelineInv
  OBVIOUS
<1>1. Pool!PoolTypeOK
  BY PoolStarts DEF Init, PoolInv
<1>2. MaxOutputRetries \in Nat /\ PreflightBudget \in Nat
  BY InvestigationConstants
<1>3. InvestigationTypeOK
  <2>1. calls \in 0 .. PreflightBudget /\ attempt \in 0 .. MaxOutputRetries + 1
    BY <1>2 DEF Init
  <2>2. /\ phase \in Running \cup Ended /\ master \in {"none", "plain", "tools"}
        /\ lost \subseteq {"people", "schema"} /\ failing \subseteq {"people", "schema"}
        /\ pairCall \in {"none", "asking", "settled"}
        /\ pairGroups \in {"none", "groups"} /\ applied \in {"none", "groups"}
        /\ aborted \in BOOLEAN /\ late \in BOOLEAN
        /\ adjudication \in {"none", "model", "fallback"}
        /\ cancelledIn \in Running \cup {"never"}
        /\ failure \in {"none", "resolve", "unknown_packet", "cancelled"}
    BY DEF Init, Running, Ended
  <2>3. QED
    BY <1>1, <2>1, <2>2 DEF InvestigationTypeOK
<1>4. PipelineInv
  BY <1>2 DEF Init, PipelineInv, Running, Deciding, Preparing
<1>5. QED
  BY <1>3, <1>4

\* A client that went away does not come back.
LEMMA CancelledStays == [Pool!Next]_PoolVars /\ cancelled => cancelled'
  BY DEF Pool!Next, Pool!Work, Pool!Worker, Pool!Launch, Pool!Skip, Pool!Finish, Pool!Timeout,
         Pool!Abandoned, Pool!Cancel, Pool!Collect, PoolVars

\* The variables the workers do not touch.
PipelineVars == <<phase, master, calls, lost, failing, pairCall, pairGroups, aborted, late, applied,
                  attempt, adjudication, cancelledIn, failure>>

\* Every step of the pipeline keeps it.
LEMMA PipelineSteps ==
  ASSUME IInv, [Next]_vars, Pool!PoolTypeOK'
  PROVE  InvestigationTypeOK' /\ PipelineInv'
<1> USE DEF PipelineInv, InvestigationTypeOK, Running, Ended, Deciding, Preparing
<1>1. InvestigationTypeOK /\ PipelineInv
  BY DEF IInv
<1>2. MaxOutputRetries \in Nat /\ PreflightBudget \in Nat /\ PreflightBudget >= 2
  BY InvestigationConstants
<1>3. cancelled => cancelled'
  BY PoolStepOrStutter, CancelledStays
<1>4. ASSUME UNCHANGED PipelineVars PROVE InvestigationTypeOK' /\ PipelineInv'
  BY <1>1, <1>3, <1>4 DEF PipelineVars
<1>5. CASE Resolve
  BY <1>1, <1>2, <1>3, <1>5 DEF Resolve, Spend, Fail, AfterPeople, pair, verdict, flag
<1>6. ASSUME NEW ok \in BOOLEAN, People(ok) PROVE InvestigationTypeOK' /\ PipelineInv'
  BY <1>1, <1>2, <1>3, <1>6 DEF People, Spend, Without, AfterPeople, pair, verdict, flag
<1>7. ASSUME NEW ok \in BOOLEAN, Schema(ok) PROVE InvestigationTypeOK' /\ PipelineInv'
  BY <1>1, <1>2, <1>3, <1>7 DEF Schema, Without, pair, verdict, flag
<1>8. CASE StartPlanning
  BY <1>1, <1>2, <1>3, <1>8 DEF StartPlanning, Fail, verdict, flag
<1>9. CASE PlanReady
  BY <1>1, <1>2, <1>3, <1>9 DEF PlanReady, preflight, pair, verdict, flag
<1>10. CASE LaunchWorkers
  BY <1>1, <1>2, <1>3, <1>10 DEF LaunchWorkers, Check, Fail, preflight, pair, verdict, flag
<1>11. CASE WorkersReturn
  BY <1>1, <1>2, <1>3, <1>11 DEF WorkersReturn, Beside, preflight, pair, verdict
<1>12. CASE Score
  BY <1>1, <1>2, <1>3, <1>12 DEF Score, Check, Fail, preflight, pair, verdict, flag
<1>13. CASE AdjudicateWithoutModel
  BY <1>1, <1>2, <1>3, <1>13 DEF AdjudicateWithoutModel, Adjudicated, preflight, pair, flag
<1>14. ASSUME NEW outcome \in {"valid", "invalid", "thrown"}, Adjudicate(outcome)
       PROVE  InvestigationTypeOK' /\ PipelineInv'
  BY <1>1, <1>2, <1>3, <1>14 DEF Adjudicate, Adjudicated, preflight, pair, flag
<1>15. CASE Report
  BY <1>1, <1>2, <1>3, <1>15 DEF Report, preflight, verdict, flag
<1>16. CASE ReportLate
  BY <1>1, <1>2, <1>3, <1>16 DEF ReportLate, preflight, verdict, flag
<1>17. CASE WorkersStep \/ AbandonedWorker
  BY <1>4, <1>17 DEF WorkersStep, AbandonedWorker, Beside, preflight, pair, verdict, PipelineVars
<1>18. ASSUME NEW groups \in {"none", "groups"}, PairCallSettles(groups)
       PROVE  InvestigationTypeOK' /\ PipelineInv'
  BY <1>1, <1>2, <1>3, <1>18 DEF PairCallSettles, preflight, verdict, flag
<1>19. CASE Cancel
  BY <1>1, <1>2, <1>3, <1>19 DEF Cancel, Pool!Cancel, preflight, pair, verdict
<1>20. CASE UNCHANGED vars
  BY <1>4, <1>20 DEF vars, preflight, pair, verdict, flag, PipelineVars
<1>21. QED
  BY <1>5, <1>6, <1>7, <1>8, <1>9, <1>10, <1>11, <1>12, <1>13, <1>14, <1>15, <1>16, <1>17,
     <1>18, <1>19, <1>20 DEF Next, Pipeline

-----------------------------------------------------------------------------
(* The theorems.                                                           *)

\* The invariant of the workers and of the pipeline holds in every state of
\* every investigation.
THEOREM InvestigationInvariant == Spec => []IInv
<1>1. Init => IInv
  BY PoolStarts, PipelineStarts DEF Init, IInv
<1>2. IInv /\ [Next]_vars => IInv'
  <2> SUFFICES ASSUME IInv, [Next]_vars PROVE IInv'
    OBVIOUS
  <2>1. PoolInv'
    BY PoolStepOrStutter, PoolSteps DEF IInv
  <2>2. Pool!PoolTypeOK'
    BY <2>1 DEF PoolInv
  <2>3. QED
    BY <2>1, <2>2, PipelineSteps DEF IInv
<1>3. QED
  BY <1>1, <1>2, PTL DEF Spec

\* The limiter of workers (Semaphore) neither leaks nor invents a permit, and a
\* free permit never meets a waiting worker: for any plan, any concurrency and
\* every way a worker can end.
THEOREM InvestigationPermits == Spec => []PermitsConserved
<1>1. IInv => PermitsConserved
  <2> SUFFICES ASSUME IInv PROVE PermitsConserved
    OBVIOUS
  <2>1. permits + Cardinality(Pool!Holding) = MaxConcurrency /\ (waiters # <<>> => permits = 0)
    BY DEF IInv, PoolInv
  <2>2. Pool!PermitsConserved
    BY <2>1, PoolOperators DEF Pool!PermitsConserved
  <2>3. QED
    BY <2>2 DEF IInv, PermitsConserved
<1>2. QED
  BY <1>1, InvestigationInvariant, PTL

\* Whatever the plan and its buckets, the groups interleaved or not, and whatever
\* the order in which their workers return, time out or are skipped, the report of
\* _run_subagents keeps the order of the plan and misses no packet, unless a result
\* was filed under a foreign id.
THEOREM InvestigationReportsAll == Spec => []EveryPacketReported
<1>1. IInv => EveryPacketReported
  BY ReportIsComplete DEF IInv, EveryPacketReported
<1>2. QED
  BY <1>1, InvestigationInvariant, PTL

\* _investigate rejects only for the causes it names; no retry of the
\* adjudicator follows a cancellation before it.
THEOREM InvestigationFailures == Spec => []FailsOnlyForCause
<1>1. IInv => FailsOnlyForCause
  <2> SUFFICES ASSUME IInv PROVE FailsOnlyForCause
    OBVIOUS
  <2>1. InvestigationTypeOK /\ PipelineInv
    BY DEF IInv
  <2>2. QED
    BY <2>1 DEF FailsOnlyForCause, InvestigationTypeOK, PipelineInv, Running, Ended, Deciding
<1>2. QED
  BY <1>1, InvestigationInvariant, PTL

\* The groups of resolve_same_person enter the report only when the call
\* settled in time; a call the report did not wait for was aborted.
THEOREM InvestigationPairCall == Spec => []PairCallSettledOrCut
<1>1. IInv => PairCallSettledOrCut
  BY DEF IInv, PipelineInv, PairCallSettledOrCut
<1>2. QED
  BY <1>1, InvestigationInvariant, PTL

\* The workers of an investigation are those of module WorkerPool: every step
\* of the pipeline is one of theirs or leaves them as they are.
THEOREM InvestigationRunsPool == Spec => Pool!Spec
<1>1. Init => Pool!Init
  BY DEF Init
<1>2. [Next]_vars => [Pool!Next]_Pool!vars
  BY PoolStepOrStutter DEF PoolVars, Pool!vars, Pool!outcome
<1>3. QED
  BY <1>1, <1>2, PTL DEF Spec, Pool!Spec

===============================================================================
