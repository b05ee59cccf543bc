-------------------------- MODULE DataAccessProofs --------------------------
(***************************************************************************)
(* Proofs about QueryCache, for any sets of calls and keys, and about      *)
(* DataAccess, which is built on it, for any number of workers and any     *)
(* budget.  The cache: CacheInv is inductive; single flight, agreement of  *)
(* answers and the refinement of ReadThroughMemo follow from it.  The      *)
(* workers: they use the cache as QueryCache describes it, and the budget  *)
(* and the logs of every worker agree.                                     *)
(***************************************************************************)
EXTENDS DataAccess, FiniteSetTheorems, TLAPS

(* The cache.                                                              *)

\* A fresh cache satisfies the invariant.
LEMMA CacheInitInv ==
  ASSUME CacheConstants PROVE CacheInit => CacheInv
  BY DEF CacheConstants, CacheInit, CacheInv, CacheTypeOK, IdleIsFresh, OwnerIsInflight,
     FromOneExecution, ReturnedIsKept, InflightIsOwned, KeptWasReturned

\* Each step of a call preserves the invariant.
LEMMA CacheStepInv ==
  ASSUME CacheConstants PROVE CacheInv /\ [CacheNext]_cacheVars => CacheInv'
<1> SUFFICES ASSUME CacheInv, [CacheNext]_cacheVars PROVE CacheInv'
  OBVIOUS
<1> USE DEF CacheConstants
<1>0. CacheTypeOK /\ IdleIsFresh /\ OwnerIsInflight /\ FromOneExecution
        /\ ReturnedIsKept /\ InflightIsOwned /\ KeptWasReturned
  BY DEF CacheInv
<1>1. ASSUME NEW c \in Call, NEW k \in Key, Ask(c, k) PROVE CacheInv'
  <2> USE <1>0, <1>1 DEF Ask, CacheTypeOK
  <2>1. CASE Hit(c, k)
    <3> USE <2>1 DEF Hit, cache
    <3>1. CacheTypeOK'
      OBVIOUS
    <3>2. IdleIsFresh'
      BY DEF IdleIsFresh
    <3>3. OwnerIsInflight'
      BY DEF IdleIsFresh, OwnerIsInflight, InflightIsOwned, FromOneExecution
    <3>4. FromOneExecution'
      BY DEF FromOneExecution, IdleIsFresh, KeptWasReturned, InflightIsOwned,
           OwnerIsInflight
    <3>5. ReturnedIsKept'
      BY DEF ReturnedIsKept, IdleIsFresh, FromOneExecution, KeptWasReturned,
             InflightIsOwned, OwnerIsInflight
    <3>6. InflightIsOwned'
      BY DEF InflightIsOwned, IdleIsFresh, OwnerIsInflight, KeptWasReturned
    <3>7. KeptWasReturned'
      BY DEF KeptWasReturned, IdleIsFresh, InflightIsOwned, OwnerIsInflight
    <3>8. QED
      BY <3>1, <3>2, <3>3, <3>4, <3>5, <3>6, <3>7 DEF CacheInv
  <2>2. CASE Join(c, k)
    <3> USE <2>2 DEF Join, cache
    <3>1. CacheTypeOK'
      OBVIOUS
    <3>2. IdleIsFresh'
      BY DEF IdleIsFresh
    <3>3. OwnerIsInflight'
      BY DEF IdleIsFresh, OwnerIsInflight, InflightIsOwned, FromOneExecution
    <3>4. FromOneExecution'
      BY DEF FromOneExecution, IdleIsFresh, KeptWasReturned, InflightIsOwned,
           OwnerIsInflight
    <3>5. ReturnedIsKept'
      BY DEF ReturnedIsKept, IdleIsFresh, FromOneExecution, KeptWasReturned,
             InflightIsOwned, OwnerIsInflight
    <3>6. InflightIsOwned'
      BY DEF InflightIsOwned, IdleIsFresh, OwnerIsInflight, KeptWasReturned
    <3>7. KeptWasReturned'
      BY DEF KeptWasReturned, IdleIsFresh, InflightIsOwned, OwnerIsInflight
    <3>8. QED
      BY <3>1, <3>2, <3>3, <3>4, <3>5, <3>6, <3>7 DEF CacheInv
  <2>3. CASE Own(c, k)
    <3> USE <2>3 DEF Own
    <3>1. CacheTypeOK'
      OBVIOUS
    <3>2. IdleIsFresh'
      BY DEF IdleIsFresh
    <3>3. OwnerIsInflight'
      BY DEF IdleIsFresh, OwnerIsInflight, InflightIsOwned, FromOneExecution
    <3>4. FromOneExecution'
      BY DEF FromOneExecution, IdleIsFresh, KeptWasReturned, InflightIsOwned,
           OwnerIsInflight
    <3>5. ReturnedIsKept'
      BY DEF ReturnedIsKept, IdleIsFresh, FromOneExecution, KeptWasReturned,
             InflightIsOwned, OwnerIsInflight
    <3>6. InflightIsOwned'
      BY DEF InflightIsOwned, IdleIsFresh, OwnerIsInflight, KeptWasReturned
    <3>7. KeptWasReturned'
      BY DEF KeptWasReturned, IdleIsFresh, InflightIsOwned, OwnerIsInflight
    <3>8. QED
      BY <3>1, <3>2, <3>3, <3>4, <3>5, <3>6, <3>7 DEF CacheInv
  <2>4. QED
    BY <1>1, <2>1, <2>2, <2>3 DEF Ask
<1>2. ASSUME NEW c \in Call, NEW as \in {"fulfilled", "rejected"}, Settle(c, as)
      PROVE  CacheInv'
  <2> USE <1>0, <1>2 DEF Settle, cache, CacheTypeOK
  <2>1. CacheTypeOK'
    OBVIOUS
  <2>2. IdleIsFresh'
    BY DEF IdleIsFresh
  <2>3. OwnerIsInflight'
    <3>1. \A d \in Call : promise'[d] = "pending" => promise[d] = "pending"
      OBVIOUS
    <3>2. QED
      BY <3>1 DEF OwnerIsInflight
  <2>4. FromOneExecution'
    BY DEF FromOneExecution, IdleIsFresh, KeptWasReturned, InflightIsOwned,
           OwnerIsInflight
  <2>5. ReturnedIsKept'
    BY DEF ReturnedIsKept, IdleIsFresh, FromOneExecution, KeptWasReturned,
           InflightIsOwned, OwnerIsInflight
  <2>6. InflightIsOwned'
    BY DEF InflightIsOwned, IdleIsFresh, OwnerIsInflight, KeptWasReturned
  <2>7. KeptWasReturned'
    BY DEF KeptWasReturned, IdleIsFresh, InflightIsOwned, OwnerIsInflight
  <2>8. QED
    BY <2>1, <2>2, <2>3, <2>4, <2>5, <2>6, <2>7 DEF CacheInv
<1>3. ASSUME NEW c \in Call, OwnerReturns(c) PROVE CacheInv'
  <2> USE <1>0, <1>3 DEF OwnerReturns, CacheTypeOK
  <2>1. CacheTypeOK'
    OBVIOUS
  <2>2. IdleIsFresh'
    BY DEF IdleIsFresh
  <2>3. OwnerIsInflight'
    BY DEF IdleIsFresh, OwnerIsInflight, InflightIsOwned, FromOneExecution
  <2>4. FromOneExecution'
    BY DEF FromOneExecution, IdleIsFresh, KeptWasReturned, InflightIsOwned,
           OwnerIsInflight
  <2>5. ReturnedIsKept'
    BY DEF ReturnedIsKept, IdleIsFresh, FromOneExecution, KeptWasReturned,
           InflightIsOwned, OwnerIsInflight
  <2>6. InflightIsOwned'
    BY DEF InflightIsOwned, IdleIsFresh, OwnerIsInflight, KeptWasReturned
  <2>7. KeptWasReturned'
    BY DEF KeptWasReturned, IdleIsFresh, InflightIsOwned, OwnerIsInflight
  <2>8. QED
    BY <2>1, <2>2, <2>3, <2>4, <2>5, <2>6, <2>7 DEF CacheInv
<1>4. ASSUME NEW c \in Call, OwnerThrows(c) PROVE CacheInv'
  <2> USE <1>0, <1>4 DEF OwnerThrows, CacheTypeOK
  <2>1. CacheTypeOK'
    OBVIOUS
  <2>2. IdleIsFresh'
    BY DEF IdleIsFresh
  <2>3. OwnerIsInflight'
    BY DEF IdleIsFresh, OwnerIsInflight, InflightIsOwned, FromOneExecution
  <2>4. FromOneExecution'
    BY DEF FromOneExecution, IdleIsFresh, KeptWasReturned, InflightIsOwned,
           OwnerIsInflight
  <2>5. ReturnedIsKept'
    BY DEF ReturnedIsKept, IdleIsFresh, FromOneExecution, KeptWasReturned,
           InflightIsOwned, OwnerIsInflight
  <2>6. InflightIsOwned'
    BY DEF InflightIsOwned, IdleIsFresh, OwnerIsInflight, KeptWasReturned
  <2>7. KeptWasReturned'
    BY DEF KeptWasReturned, IdleIsFresh, InflightIsOwned, OwnerIsInflight
  <2>8. QED
    BY <2>1, <2>2, <2>3, <2>4, <2>5, <2>6, <2>7 DEF CacheInv
<1>5. ASSUME NEW c \in Call, JoinerResumes(c) PROVE CacheInv'
  <2> USE <1>0, <1>5 DEF JoinerResumes, cache, CacheTypeOK
  <2>1. CacheTypeOK'
    OBVIOUS
  <2>2. IdleIsFresh'
    BY DEF IdleIsFresh
  <2>3. OwnerIsInflight'
    BY DEF IdleIsFresh, OwnerIsInflight, InflightIsOwned, FromOneExecution
  <2>4. FromOneExecution'
    BY DEF FromOneExecution, IdleIsFresh, KeptWasReturned, InflightIsOwned,
           OwnerIsInflight
  <2>5. ReturnedIsKept'
    BY DEF ReturnedIsKept, IdleIsFresh, FromOneExecution, KeptWasReturned,
           InflightIsOwned, OwnerIsInflight
  <2>6. InflightIsOwned'
    BY DEF InflightIsOwned, IdleIsFresh, OwnerIsInflight, KeptWasReturned
  <2>7. KeptWasReturned'
    BY DEF KeptWasReturned, IdleIsFresh, InflightIsOwned, OwnerIsInflight
  <2>8. QED
    BY <2>1, <2>2, <2>3, <2>4, <2>5, <2>6, <2>7 DEF CacheInv
<1>6. CASE UNCHANGED cacheVars
  BY <1>6 DEF cacheVars, CacheInv, CacheTypeOK, IdleIsFresh, OwnerIsInflight,
     FromOneExecution, ReturnedIsKept, InflightIsOwned, KeptWasReturned
<1>7. QED
  BY <1>1, <1>2, <1>3, <1>4, <1>5, <1>6 DEF CacheNext, SettleAny, Resume

\* The invariant holds in every reachable state.
THEOREM CacheInvariant ==
  ASSUME CacheConstants PROVE CacheSpec => []CacheInv
  BY CacheInitInv, CacheStepInv, PTL DEF CacheSpec

\* Identical concurrent calls of get_or_execute are one execution.
THEOREM CacheSingleFlight ==
  ASSUME CacheConstants PROVE CacheSpec => []SingleFlight
<1>1. CacheInv => SingleFlight
  BY DEF CacheInv, CacheTypeOK, OwnerIsInflight, SingleFlight
<1>2. QED
  BY <1>1, CacheInvariant, PTL

\* All answers of a key come from one execution.
THEOREM CacheAnswersAgree ==
  ASSUME CacheConstants PROVE CacheSpec => []AnswersAgree
<1>1. CacheInv => AnswersAgree
  BY DEF CacheInv, ReturnedIsKept, AnswersAgree
<1>2. QED
  BY <1>1, CacheInvariant, PTL

\* An error is never replayed to a call that came after its owner threw.
THEOREM CacheNoFailureReplayed ==
  ASSUME CacheConstants PROVE CacheSpec => NoFailureReplayed
<1> USE DEF CacheConstants
<1>1. ASSUME CacheInv, [CacheNext]_cacheVars, NEW c \in Call,
             status[c] = "idle", from'[c] \in Call
      PROVE  status[from'[c]] # "threw"
  <2>1. PICK d \in Call : \/ \E k \in Key : Ask(d, k)
                          \/ SettleAny(d) \/ Resume(d) \/ UNCHANGED cacheVars
    BY <1>1 DEF CacheNext
  <2>2. from[c] = None
    BY <1>1 DEF CacheInv, IdleIsFresh
  <2>3. ~(SettleAny(d) \/ Resume(d) \/ UNCHANGED cacheVars)
    BY <1>1, <2>2 DEF SettleAny, Settle, Resume, OwnerReturns, OwnerThrows,
                      JoinerResumes, cacheVars
  <2>4. PICK k \in Key : Ask(d, k)
    BY <2>1, <2>3
  <2>5. from' = [from EXCEPT ![d] = from'[d]]
    BY <2>4 DEF Ask, Hit, Join, Own, CacheInv, CacheTypeOK
  <2>6. d = c
    BY <1>1, <2>2, <2>5 DEF CacheInv, CacheTypeOK
  <2>7. QED
    BY <1>1, <2>4, <2>6 DEF Ask, Hit, Join, Own, CacheInv, CacheTypeOK,
                            InflightIsOwned, KeptWasReturned
<1>2. CacheInv /\ [CacheNext]_cacheVars =>
        [\A c \in Call : status[c] = "idle" /\ from'[c] \in Call
                            => status[from'[c]] # "threw"]_cacheVars
  BY <1>1
<1>3. QED
  BY <1>2, CacheInvariant, PTL DEF CacheSpec, NoFailureReplayed

\* Every step of the cache is a step of the memo or leaves it unchanged.
THEOREM CacheImplementsMemo ==
  ASSUME CacheConstants PROVE CacheSpec => ImplementsMemo
<1> DEFINE Told == [c \in Call |-> CASE status[c] = "returned" -> from[c]
                                     [] status[c] = "threw" -> "threw"
                                     [] OTHER -> None]
           Computing == {k \in Key : inflight[k] # None}
<1> USE DEF CacheConstants
<1>1. CacheInit => Memo!Init
  BY DEF CacheInit, Memo!Init
<1>2. CacheInv /\ [CacheNext]_cacheVars => [Memo!Next]_(Memo!vars)
  <2> SUFFICES ASSUME CacheInv, [CacheNext]_cacheVars PROVE [Memo!Next]_(Memo!vars)
    OBVIOUS
  <2> USE DEF CacheInv, CacheTypeOK
  <2>1. ASSUME NEW c \in Call, NEW k \in Key, Ask(c, k) PROVE Memo!Ask(c, k)
    <3>1. /\ asked[c] = None /\ asked' = [asked EXCEPT ![c] = k]
          /\ UNCHANGED results
      BY <2>1 DEF Ask, Hit, Join, Own, cache, IdleIsFresh
    <3>2. Told' = [Told EXCEPT ![c] = results[k]]
      BY <2>1 DEF Ask, Hit, Join, Own, cache, IdleIsFresh
    <3>3. Computing' = IF results[k] = None THEN Computing \cup {k} ELSE Computing
      BY <2>1 DEF Ask, Hit, Join, Own, cache, IdleIsFresh
    <3>4. QED
      BY <3>1, <3>2, <3>3 DEF Memo!Ask
  <2>2. ASSUME NEW c \in Call, NEW as \in {"fulfilled", "rejected"}, Settle(c, as)
        PROVE  UNCHANGED Memo!vars
    BY <2>2 DEF Settle, cache, Memo!vars
  <2>3. ASSUME NEW c \in Call, OwnerReturns(c) PROVE Memo!Fill(c)
    <3>1. /\ asked[c] \in Key /\ inflight[asked[c]] = c /\ from[c] = c
          /\ results[asked[c]] = None /\ asked[c] # None
      BY <2>3 DEF OwnerReturns, IdleIsFresh, OwnerIsInflight, InflightIsOwned
    <3>2. Told[c] = None /\ asked[c] \in Computing
      BY <2>3, <3>1 DEF OwnerReturns
    <3>3. Told' = [Told EXCEPT ![c] = c]
      BY <2>3, <3>1 DEF OwnerReturns
    <3>4. Computing' = Computing \ {asked[c]}
      BY <2>3, <3>1 DEF OwnerReturns
    <3>5. QED
      BY <2>3, <3>1, <3>2, <3>3, <3>4 DEF OwnerReturns, Memo!Fill, Memo!Open
  <2>4. ASSUME NEW c \in Call, OwnerThrows(c) PROVE Memo!Abandon(c)
    <3>1. /\ asked[c] \in Key /\ inflight[asked[c]] = c /\ asked[c] # None
      BY <2>4 DEF OwnerThrows, IdleIsFresh, OwnerIsInflight
    <3>2. Told[c] = None /\ asked[c] \in Computing
      BY <2>4, <3>1 DEF OwnerThrows
    <3>3. Told' = [Told EXCEPT ![c] = "threw"]
      BY <2>4, <3>1 DEF OwnerThrows
    <3>4. Computing' = Computing \ {asked[c]}
      BY <2>4, <3>1 DEF OwnerThrows
    <3>5. QED
      BY <2>4, <3>1, <3>2, <3>3, <3>4 DEF OwnerThrows, Memo!Abandon, Memo!Open
  <2>5. ASSUME NEW c \in Call, JoinerResumes(c) PROVE Memo!Read(c) \/ Memo!Throw(c)
    <3>1. /\ from[c] \in Call /\ asked[c] # None /\ asked[from[c]] = asked[c]
          /\ from[from[c]] = from[c]
      BY <2>5 DEF JoinerResumes, IdleIsFresh, FromOneExecution
    <3>2. Told[c] = None /\ Computing' = Computing
      BY <2>5 DEF JoinerResumes, cache
    <3>3. CASE status[from[c]] = "returned"
      <4>1. results[asked[c]] = from[c]
        BY <3>1, <3>3 DEF ReturnedIsKept
      <4>2. Told' = [Told EXCEPT ![c] = from[c]]
        BY <2>5, <3>1, <3>3 DEF JoinerResumes
      <4>3. QED
        BY <2>5, <3>1, <3>2, <4>1, <4>2 DEF JoinerResumes, cache, Memo!Read, Memo!Open
    <3>4. CASE status[from[c]] = "threw"
      <4>1. Told' = [Told EXCEPT ![c] = "threw"]
        BY <2>5, <3>1, <3>4 DEF JoinerResumes
      <4>2. QED
        BY <2>5, <3>1, <3>2, <4>1 DEF JoinerResumes, cache, Memo!Throw, Memo!Open
    <3>5. QED
      BY <2>5, <3>3, <3>4 DEF JoinerResumes
  <2>6. CASE UNCHANGED cacheVars
    BY <2>6 DEF cacheVars, Memo!vars
  <2>7. QED
    BY <2>1, <2>2, <2>3, <2>4, <2>5, <2>6 DEF CacheNext, SettleAny, Resume, Memo!Next
<1>3. QED
  BY <1>1, <1>2, CacheInvariant, PTL DEF CacheSpec, Memo!Spec, ImplementsMemo

-----------------------------------------------------------------------------
(* The workers.                                                            *)

\* Every step of the workers is a step of the cache or leaves it alone.
LEMMA CacheStep == [Next]_vars => [CacheNext]_cacheVars
<1> SUFFICES ASSUME [Next]_vars PROVE [CacheNext]_cacheVars
  OBVIOUS
<1>1. ASSUME NEW c \in Call, NEW k \in Key, Spend(c, k) PROVE CacheNext
  BY <1>1 DEF Spend, CacheNext
<1>2. ASSUME NEW c \in Call, NEW as \in Kind, Answer(c, as) PROVE CacheNext
  BY <1>2 DEF Answer, CacheNext, SettleAny
<1>3. ASSUME NEW c \in Call, ResumeCached(c) PROVE CacheNext
  BY <1>3 DEF ResumeCached, CacheNext
<1>4. ASSUME NEW c \in Call, OverBudget(c) \/ Log(c) \/ LogRefusal(c) PROVE UNCHANGED cacheVars
  BY <1>4 DEF OverBudget, Log, LogRefusal, cacheVars
<1>5. CASE UNCHANGED vars
  BY <1>5 DEF vars
<1>6. QED
  BY <1>1, <1>2, <1>3, <1>4, <1>5 DEF Next

\* The workers are a client of QueryCache: what is proved of the cache holds
\* under the calls they really make.
THEOREM DataRunsCache == Spec => CacheSpec
<1>1. Init => CacheInit
  BY DEF Init
<1>2. QED
  BY <1>1, CacheStep, PTL DEF Spec, CacheSpec

-----------------------------------------------------------------------------
\* A call that has its answer got it from an execution that ended, of a known
\* kind, and only such calls are accounted for.
AnswersHaveKinds ==
  /\ \A c \in Call : promise[c] \in {"fulfilled", "rejected"} => kind[c] # "none"
  /\ \A c \in Call : status[c] \in {"returned", "threw"} =>
       promise[from[c]] \in {"fulfilled", "rejected"}
  /\ \A c \in logged : status[c] \in {"returned", "threw"}
  /\ done \subseteq logged

AskedBy(l) == {c \in Of(l) : status[c] # "idle"}

CallsCounted == \A l \in Lane : calls[l] = Cardinality(AskedBy(l))

Balanced ==
  \A l \in Lane :
    calls[l] = logs[l] + Cardinality(Outstanding(l)) + Cardinality(Crashed(l))

RefusalsCounted == \A l \in Lane : refusals[l] = Cardinality(Declined(l))

LedgerInv ==
  CacheInv /\ DataTypeOK /\ AnswersHaveKinds /\ CallsCounted /\ Balanced /\ RefusalsCounted

\* The sets the ledger counts are finite.
LEMMA CountedSetsFinite ==
  \A l \in Lane : /\ IsFiniteSet(AskedBy(l)) /\ Cardinality(AskedBy(l)) \in Nat
                  /\ IsFiniteSet(Outstanding(l)) /\ Cardinality(Outstanding(l)) \in Nat
                  /\ IsFiniteSet(Crashed(l)) /\ Cardinality(Crashed(l)) \in Nat
                  /\ IsFiniteSet(Declined(l)) /\ Cardinality(Declined(l)) \in Nat
<1> TAKE l \in Lane
<1>1. IsFiniteSet(Call)
  BY LaneConstants
<1>2. /\ AskedBy(l) \subseteq Call /\ Outstanding(l) \subseteq Call /\ Crashed(l) \subseteq Call
      /\ Declined(l) \subseteq Call
  BY DEF AskedBy, Outstanding, Crashed, Declined, Of
<1>3. QED
  BY <1>1, <1>2, FS_Subset, FS_CardinalityType

\* Before any call every ledger is empty.
LEMMA LedgerInit == Init => LedgerInv
<1> SUFFICES ASSUME Init PROVE LedgerInv
  OBVIOUS
<1>1. CacheInv
  BY CacheInitInv, LaneConstants DEF Init
<1>2. DataTypeOK /\ AnswersHaveKinds
  BY <1>1, LaneConstants DEF Init, CacheInit, CacheInv, DataTypeOK, AnswersHaveKinds
<1>3. \A l \in Lane : AskedBy(l) = {} /\ Outstanding(l) = {} /\ Crashed(l) = {}
                        /\ Declined(l) = {}
  BY DEF Init, CacheInit, AskedBy, Outstanding, Crashed, Declined, Of
<1>4. CallsCounted /\ Balanced /\ RefusalsCounted
  BY <1>3, FS_EmptySet DEF Init, CallsCounted, Balanced, RefusalsCounted
<1>5. QED
  BY <1>1, <1>2, <1>4 DEF LedgerInv

-----------------------------------------------------------------------------
\* Answers keep having kinds, whatever step the cache and the service take.
LEMMA KindsStep ==
  ASSUME CacheInv, DataTypeOK, AnswersHaveKinds, [Next]_vars PROVE AnswersHaveKinds'
<1> USE DEF AnswersHaveKinds, CacheInv, CacheTypeOK, DataTypeOK
<1>1. ASSUME NEW c \in Call, NEW k \in Key, Spend(c, k) PROVE AnswersHaveKinds'
  <2> USE <1>1 DEF Spend, Ask
  <2>1. promise[c] = "none" /\ c \notin logged
    BY DEF IdleIsFresh
  <2>2. CASE Hit(c, k)
    BY <2>1, <2>2 DEF Hit, KeptWasReturned
  <2>3. CASE Join(c, k)
    BY <2>1, <2>3 DEF Join
  <2>4. CASE Own(c, k)
    <3>1. \A d \in Call : status[d] \in {"returned", "threw"} => from[d] # c
      BY <2>1
    <3>2. QED
      BY <2>1, <2>4, <3>1 DEF Own, FromOneExecution
  <2>5. QED
    BY <2>2, <2>3, <2>4
<1>2. ASSUME NEW c \in Call, NEW as \in Kind, Answer(c, as) PROVE AnswersHaveKinds'
  BY <1>2 DEF Answer, Settle, cache, Kind, FromOneExecution
<1>3. ASSUME NEW c \in Call, ResumeCached(c) PROVE AnswersHaveKinds'
  <2> USE <1>3 DEF ResumeCached, Resume
  <2>1. CASE OwnerReturns(c) \/ OwnerThrows(c)
    BY <2>1 DEF OwnerReturns, OwnerThrows, OwnerIsInflight
  <2>2. CASE JoinerResumes(c)
    BY <2>2 DEF JoinerResumes, FromOneExecution
  <2>3. QED
    BY <2>1, <2>2
<1>4. ASSUME NEW c \in Call, OverBudget(c) \/ Log(c) \/ LogRefusal(c)
      PROVE  AnswersHaveKinds'
  BY <1>4 DEF OverBudget, Log, LogRefusal, Answered, cacheVars
<1>5. CASE UNCHANGED vars
  BY <1>5 DEF vars, cacheVars
<1>6. QED
  BY <1>1, <1>2, <1>3, <1>4, <1>5 DEF Next

\* A call paid for is one more outstanding call of its worker.
LEMMA SpendStep ==
  ASSUME LedgerInv, CacheInv', NEW c \in Call, NEW k \in Key, Spend(c, k)
  PROVE  DataTypeOK' /\ CallsCounted' /\ Balanced'
<1> DEFINE m == LaneOf[c]
<1>0. /\ CacheTypeOK /\ CacheTypeOK' /\ DataTypeOK /\ AnswersHaveKinds
      /\ CallsCounted /\ Balanced /\ m \in Lane
  BY LaneConstants DEF LedgerInv, CacheInv
<1>1. /\ status[c] = "idle" /\ c \notin logged /\ calls[m] < MaxCalls
      /\ calls' = [calls EXCEPT ![m] = @ + 1]
      /\ UNCHANGED <<kind, logs, refusals, logged, done, refused>>
  BY <1>0 DEF Spend, Fresh, Pay, AnswersHaveKinds
<1>2. /\ status'[c] # "idle"
      /\ \A d \in Call \ {c} : status'[d] = status[d] /\ from'[d] = from[d]
  BY <1>0, <1>1 DEF Spend, Ask, Hit, Join, Own, CacheTypeOK
<1>3. DataTypeOK'
  BY <1>0, <1>1, LaneConstants DEF DataTypeOK
<1>4. \A l \in Lane \ {m} : /\ AskedBy(l)' = AskedBy(l)
                            /\ Outstanding(l)' = Outstanding(l)
  BY <1>1, <1>2 DEF AskedBy, Outstanding, Of
<1>5. \A l \in Lane : Crashed(l)' = Crashed(l)
  BY <1>1, <1>2 DEF Crashed, Why, Of
<1>6. /\ AskedBy(m)' = AskedBy(m) \cup {c} /\ c \notin AskedBy(m)
      /\ Outstanding(m)' = Outstanding(m) \cup {c} /\ c \notin Outstanding(m)
  BY <1>1, <1>2 DEF AskedBy, Outstanding, Of
<1>7. /\ Cardinality(AskedBy(m)') = Cardinality(AskedBy(m)) + 1
      /\ Cardinality(Outstanding(m)') = Cardinality(Outstanding(m)) + 1
  BY <1>0, <1>6, CountedSetsFinite, FS_AddElement
<1>8. CallsCounted'
  BY <1>0, <1>1, <1>4, <1>7 DEF CallsCounted, DataTypeOK
<1>9. Balanced'
  <2>1. ASSUME NEW l \in Lane
        PROVE  calls'[l] = logs'[l] + Cardinality(Outstanding(l)') + Cardinality(Crashed(l)')
    <3>1. /\ calls[l] = logs[l] + Cardinality(Outstanding(l)) + Cardinality(Crashed(l))
          /\ calls[l] \in Nat /\ logs[l] \in Nat /\ Cardinality(Outstanding(l)) \in Nat
          /\ Cardinality(Crashed(l)) \in Nat
      BY <1>0, CountedSetsFinite, LaneConstants DEF Balanced, DataTypeOK
    <3>2. Crashed(l)' = Crashed(l) /\ logs'[l] = logs[l]
      BY <1>1, <1>5
    <3>3. CASE l = m
      <4>1. calls'[l] = calls[l] + 1
        BY <1>0, <1>1, <3>3 DEF DataTypeOK
      <4>2. QED
        BY <1>7, <3>1, <3>2, <3>3, <4>1
    <3>4. CASE l # m
      BY <1>0, <1>1, <1>4, <3>1, <3>2, <3>4 DEF DataTypeOK
    <3>5. QED
      BY <3>3, <3>4
  <2>2. QED
    BY <2>1 DEF Balanced
<1>10. QED
  BY <1>3, <1>8, <1>9

\* Refusing a call, settling a promise and resuming its callers move nothing in
\* the ledger: a call already accounted for keeps its kind.
LEMMA FreeStep ==
  ASSUME LedgerInv, CacheInv', NEW c \in Call,
         OverBudget(c) \/ ResumeCached(c) \/ (\E as \in Kind : Answer(c, as))
  PROVE  DataTypeOK' /\ CallsCounted' /\ Balanced'
<1>0. /\ CacheInv /\ CacheTypeOK /\ CacheTypeOK' /\ DataTypeOK /\ AnswersHaveKinds
      /\ CallsCounted /\ Balanced
  BY DEF LedgerInv, CacheInv
<1>1. UNCHANGED <<calls, logs, refusals, logged, done>>
  BY DEF OverBudget, ResumeCached, Answer, ledger
<1>2. DataTypeOK'
  BY <1>0, <1>1 DEF OverBudget, ResumeCached, Answer, DataTypeOK
<1>3. /\ from' = from
      /\ \A d \in Call : status'[d] = "idle" <=> status[d] = "idle"
  <2>1. CASE OverBudget(c) \/ (\E as \in Kind : Answer(c, as))
    BY <2>1 DEF OverBudget, Answer, Settle, cacheVars
  <2>2. CASE ResumeCached(c)
    BY <1>0, <2>2 DEF ResumeCached, Resume, OwnerReturns, OwnerThrows, JoinerResumes,
                      CacheTypeOK
  <2>3. QED
    BY <2>1, <2>2
<1>4. \A d \in logged : kind'[from[d]] = kind[from[d]]
  <2>1. CASE OverBudget(c) \/ ResumeCached(c)
    BY <2>1 DEF OverBudget, ResumeCached
  <2>2. ASSUME NEW as \in Kind, Answer(c, as)
        PROVE  \A d \in logged : kind'[from[d]] = kind[from[d]]
    <3>1. promise[c] = "pending" /\ kind' = [kind EXCEPT ![c] = as]
      BY <2>2 DEF Answer, Settle
    <3>2. \A d \in logged : d \in Call /\ from[d] # c
      BY <1>0, <3>1 DEF AnswersHaveKinds, DataTypeOK
    <3>3. \A d \in logged : from[d] \in Call
      BY <1>0, <3>2 DEF AnswersHaveKinds, CacheInv, FromOneExecution
    <3>4. QED
      BY <1>0, <3>1, <3>2, <3>3 DEF DataTypeOK
  <2>3. QED
    BY <2>1, <2>2
<1>5. \A l \in Lane : /\ AskedBy(l)' = AskedBy(l)
                      /\ Outstanding(l)' = Outstanding(l)
                      /\ Crashed(l)' = Crashed(l)
  BY <1>1, <1>3, <1>4 DEF AskedBy, Outstanding, Crashed, Why, Of
<1>6. QED
  BY <1>0, <1>1, <1>2, <1>5 DEF CallsCounted, Balanced

\* An answered call leaves the outstanding ones for the log, or for the calls
\* lost to an exception that is not a DataClientError.
LEMMA LogStep ==
  ASSUME LedgerInv, CacheInv', NEW c \in Call, Log(c)
  PROVE  DataTypeOK' /\ CallsCounted' /\ Balanced'
<1> DEFINE m == LaneOf[c]
           why == Why(c)
<1>0. /\ CacheInv /\ CacheTypeOK /\ DataTypeOK /\ AnswersHaveKinds
      /\ CallsCounted /\ Balanced /\ m \in Lane
  BY LaneConstants DEF LedgerInv, CacheInv
<1>1. /\ status[c] \in {"returned", "threw"} /\ c \notin logged
      /\ logged' = logged \cup {c}
      /\ logs' = [logs EXCEPT ![m] = IF why \in Logged THEN @ + 1 ELSE @]
      /\ UNCHANGED <<status, from, kind, calls, refusals, done, refused>>
  BY DEF Log, Answered, cacheVars
<1>2. why \in Kind
  BY <1>0, <1>1 DEF AnswersHaveKinds, CacheInv, FromOneExecution, DataTypeOK, Why
<1>3. DataTypeOK'
  <2>1. refusals' \in [Lane -> Nat]
    BY <1>0, <1>1 DEF DataTypeOK
  <2>2. logs' \in [Lane -> Nat]
    BY <1>0, <1>1 DEF DataTypeOK
  <2>3. CacheTypeOK'
    BY DEF CacheInv
  <2>4. QED
    BY <1>0, <1>1, <2>1, <2>2, <2>3 DEF DataTypeOK
<1>4. CallsCounted'
  BY <1>0, <1>1 DEF CallsCounted, AskedBy, Of
<1>5. \A l \in Lane \ {m} : /\ Outstanding(l)' = Outstanding(l)
                            /\ Crashed(l)' = Crashed(l)
  BY <1>1 DEF Outstanding, Crashed, Why, Of
<1>6. Outstanding(m)' = Outstanding(m) \ {c} /\ c \in Outstanding(m)
  BY <1>1 DEF Outstanding, Of
<1>7. Cardinality(Outstanding(m)') = Cardinality(Outstanding(m)) - 1
  BY <1>0, <1>6, CountedSetsFinite, FS_RemoveElement
<1>8. Cardinality(Crashed(m)') = Cardinality(Crashed(m)) + (IF why \in Logged THEN 0 ELSE 1)
  <2>1. CASE why \in Logged
    <3>1. Crashed(m)' = Crashed(m)
      BY <1>1, <2>1 DEF Crashed, Why, Of, Logged
    <3>2. QED
      BY <1>0, <2>1, <3>1, CountedSetsFinite
  <2>2. CASE why \notin Logged
    <3>1. Crashed(m)' = Crashed(m) \cup {c} /\ c \notin Crashed(m)
      BY <1>1, <1>2, <2>2 DEF Crashed, Why, Of, Logged
    <3>2. QED
      BY <1>0, <2>2, <3>1, CountedSetsFinite, FS_AddElement
  <2>3. QED
    BY <2>1, <2>2
<1>9. Balanced'
  <2>1. ASSUME NEW l \in Lane
        PROVE  calls'[l] = logs'[l] + Cardinality(Outstanding(l)') + Cardinality(Crashed(l)')
    <3>1. /\ calls[l] = logs[l] + Cardinality(Outstanding(l)) + Cardinality(Crashed(l))
          /\ calls'[l] = calls[l]
          /\ calls[l] \in Nat /\ logs[l] \in Nat /\ Cardinality(Outstanding(l)) \in Nat
          /\ Cardinality(Crashed(l)) \in Nat
      BY <1>0, <1>1, CountedSetsFinite, LaneConstants DEF Balanced, DataTypeOK
    <3>2. CASE l = m
      <4>1. logs'[l] = logs[l] + (IF why \in Logged THEN 1 ELSE 0)
        BY <1>0, <1>1, <3>2 DEF DataTypeOK
      <4>2. QED
        BY <1>7, <1>8, <3>1, <3>2, <4>1
    <3>3. CASE l # m
      BY <1>0, <1>1, <1>5, <3>1, <3>3 DEF DataTypeOK
    <3>4. QED
      BY <3>2, <3>3
  <2>2. QED
    BY <2>1 DEF Balanced
<1>10. QED
  BY <1>3, <1>4, <1>9

\* The refusal log is written when the call is off the ledger of calls.
LEMMA DeliverStep ==
  ASSUME LedgerInv, CacheInv', NEW c \in Call, LogRefusal(c)
  PROVE  DataTypeOK' /\ CallsCounted' /\ Balanced'
<1>0. DataTypeOK /\ CacheTypeOK' /\ CallsCounted /\ Balanced
  BY DEF LedgerInv, CacheInv
<1>1. UNCHANGED <<status, from, kind, calls, logs, logged, refused>>
  BY DEF LogRefusal, cacheVars
<1>2. DataTypeOK'
  <2>1. refusals' \in [Lane -> Nat]
    <3>1. refusals \in [Lane -> Nat]
      BY <1>0 DEF DataTypeOK
    <3>2. LogRefusal(c) /\ LaneOf[c] \in Lane
      BY LaneConstants
    <3>3. refusals' = [refusals EXCEPT ![LaneOf[c]] =
                         IF Why(c) = "refusal" THEN refusals[LaneOf[c]] + 1
                                               ELSE refusals[LaneOf[c]]]
      BY <3>1, <3>2 DEF LogRefusal
    <3>4. QED
      BY <3>1, <3>2, <3>3
  <2>2. done' \in SUBSET Call
    BY <1>0 DEF LogRefusal, DataTypeOK
  <2>3. QED
    BY <1>0, <1>1, <2>1, <2>2 DEF DataTypeOK
<1>3. CallsCounted'
  BY <1>0, <1>1 DEF CallsCounted, AskedBy, Of
<1>4. \A l \in Lane : Outstanding(l)' = Outstanding(l) /\ Crashed(l)' = Crashed(l)
  BY <1>1 DEF Outstanding, Crashed, Why, Of
<1>5. Balanced'
  BY <1>0, <1>1, <1>4 DEF Balanced
<1>6. QED
  BY <1>2, <1>3, <1>5

\* What a call was answered stays what it was once it is accounted for, and the
\* refusal logs grow with the calls that were answered by a refusal.
LEMMA RefusalsStep == ASSUME LedgerInv, [Next]_vars PROVE RefusalsCounted'
<1>0. /\ CacheInv /\ CacheTypeOK /\ DataTypeOK /\ AnswersHaveKinds /\ RefusalsCounted
  BY DEF LedgerInv, CacheInv
<1>1. ASSUME UNCHANGED <<refusals, done>>,
             \A d \in done : kind'[from'[d]] = kind[from[d]]
      PROVE  RefusalsCounted'
  <2>1. \A l \in Lane : Declined(l)' = Declined(l)
    BY <1>1 DEF Declined, Why, Of
  <2>2. QED
    BY <1>0, <1>1, <2>1 DEF RefusalsCounted
<1>2. ASSUME NEW c \in Call, NEW k \in Key, Spend(c, k) PROVE RefusalsCounted'
  <2>1. c \notin done /\ UNCHANGED <<kind, refusals, done>>
    BY <1>0, <1>2 DEF Spend, Fresh, AnswersHaveKinds
  <2>2. \A d \in done : d \in Call /\ from'[d] = from[d]
    BY <1>0, <1>2, <2>1 DEF Spend, Ask, Hit, Join, Own, CacheTypeOK, DataTypeOK
  <2>3. QED
    BY <1>1, <2>1, <2>2
<1>3. ASSUME NEW c \in Call, OverBudget(c) \/ ResumeCached(c) \/ Log(c)
      PROVE  RefusalsCounted'
  <2>1. UNCHANGED <<kind, from, refusals, done>>
    BY <1>3 DEF OverBudget, ResumeCached, Resume, OwnerReturns, OwnerThrows,
                JoinerResumes, Log, cacheVars, cache, ledger
  <2>2. QED
    BY <1>1, <2>1
<1>4. ASSUME NEW c \in Call, NEW as \in Kind, Answer(c, as) PROVE RefusalsCounted'
  <2>1. /\ promise[c] = "pending" /\ kind' = [kind EXCEPT ![c] = as]
        /\ UNCHANGED <<from, refusals, done>>
    BY <1>4 DEF Answer, Settle, ledger
  <2>2. \A d \in done : d \in Call /\ from[d] # c
    BY <1>0, <2>1 DEF AnswersHaveKinds, DataTypeOK
  <2>3. \A d \in done : from[d] \in Call
    BY <1>0, <2>2 DEF AnswersHaveKinds, CacheInv, FromOneExecution
  <2>4. \A d \in done : kind'[from'[d]] = kind[from[d]]
    BY <1>0, <2>1, <2>2, <2>3 DEF DataTypeOK
  <2>5. QED
    BY <1>1, <2>1, <2>4
<1>5. ASSUME NEW c \in Call, LogRefusal(c) PROVE RefusalsCounted'
  <2> DEFINE m == LaneOf[c]
             why == Why(c)
  <2>1. /\ c \notin done /\ m \in Lane
        /\ done' = done \cup {c}
        /\ refusals' = [refusals EXCEPT ![m] = IF why = "refusal" THEN @ + 1 ELSE @]
        /\ UNCHANGED <<from, kind>>
    BY <1>5, LaneConstants DEF LogRefusal, cacheVars
  <2>2. \A l \in Lane \ {m} : Declined(l)' = Declined(l) /\ refusals'[l] = refusals[l]
    BY <1>0, <2>1 DEF Declined, Why, Of, DataTypeOK
  <2>3. CASE why = "refusal"
    <3>1. Declined(m)' = Declined(m) \cup {c} /\ c \notin Declined(m)
      BY <2>1, <2>3 DEF Declined, Why, Of
    <3>2. Cardinality(Declined(m)') = Cardinality(Declined(m)) + 1
      BY <2>1, <3>1, CountedSetsFinite, FS_AddElement
    <3>3. refusals'[m] = refusals[m] + 1
      BY <1>0, <2>1, <2>3 DEF DataTypeOK
    <3>4. QED
      BY <1>0, <2>1, <2>2, <3>2, <3>3 DEF RefusalsCounted
  <2>4. CASE why # "refusal"
    <3>1. Declined(m)' = Declined(m) /\ refusals'[m] = refusals[m]
      BY <1>0, <2>1, <2>4 DEF Declined, Why, Of, DataTypeOK
    <3>2. QED
      BY <1>0, <2>2, <3>1 DEF RefusalsCounted
  <2>5. QED
    BY <2>3, <2>4
<1>6. CASE UNCHANGED vars
  BY <1>1, <1>6 DEF vars, cacheVars, ledger
<1>7. QED
  BY <1>2, <1>3, <1>4, <1>5, <1>6 DEF Next

\* Every step preserves the ledger's invariant.
LEMMA LedgerStep == LedgerInv /\ [Next]_vars => LedgerInv'
<1> SUFFICES ASSUME LedgerInv, [Next]_vars PROVE LedgerInv'
  OBVIOUS
<1>1. CacheInv'
  BY CacheStep, CacheStepInv, LaneConstants DEF LedgerInv
<1>2. AnswersHaveKinds'
  BY KindsStep DEF LedgerInv
<1>3. DataTypeOK' /\ CallsCounted' /\ Balanced'
  <2>1. ASSUME NEW c \in Call, NEW k \in Key, Spend(c, k)
        PROVE  DataTypeOK' /\ CallsCounted' /\ Balanced'
    BY <1>1, <2>1, SpendStep
  <2>2. ASSUME NEW c \in Call,
               OverBudget(c) \/ ResumeCached(c) \/ (\E as \in Kind : Answer(c, as))
        PROVE  DataTypeOK' /\ CallsCounted' /\ Balanced'
    BY <1>1, <2>2, FreeStep
  <2>3. ASSUME NEW c \in Call, Log(c) \/ LogRefusal(c)
        PROVE  DataTypeOK' /\ CallsCounted' /\ Balanced'
    BY <1>1, <2>3, LogStep, DeliverStep
  <2>4. CASE UNCHANGED vars
    <3>1. /\ UNCHANGED <<results, inflight, promise, asked, from, status>>
          /\ UNCHANGED <<kind, calls, logs, refusals, logged, done, refused>>
      BY <2>4 DEF vars, cacheVars, ledger
    <3>2. DataTypeOK'
      BY <1>1, <3>1 DEF LedgerInv, DataTypeOK, CacheInv
    <3>3. CallsCounted'
      BY <3>1 DEF LedgerInv, CallsCounted, AskedBy, Of
    <3>4. Balanced'
      BY <3>1 DEF LedgerInv, Balanced, Outstanding, Crashed, Why, Of
    <3>5. QED
      BY <3>2, <3>3, <3>4
  <2>5. QED
    BY <2>1, <2>2, <2>3, <2>4 DEF Next
<1>4. RefusalsCounted'
  BY RefusalsStep
<1>5. QED
  BY <1>1, <1>2, <1>3, <1>4 DEF LedgerInv

\* A worker never asks beyond its budget, and its logs account for every call it
\* paid for, in every reachable state.
THEOREM DataLedger == Spec => []LedgerBalances
<1>1. LedgerInv => LedgerBalances
  <2> SUFFICES ASSUME LedgerInv PROVE LedgerBalances
    OBVIOUS
  <2>1. \A l \in Lane : Cardinality(AskedBy(l)) <= MaxCalls
    BY LaneConstants DEF LedgerInv, DataTypeOK, CallsCounted
  <2>2. BudgetHeld
    BY <2>1 DEF BudgetHeld, AskedBy
  <2>3. QED
    BY <2>2 DEF LedgerInv, Balanced, RefusalsCounted, LedgerBalances
<1>2. QED
  BY <1>1, LedgerInit, LedgerStep, PTL DEF Spec

=============================================================================
