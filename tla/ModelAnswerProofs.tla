-------------------------- MODULE ModelAnswerProofs --------------------------
(***************************************************************************)
(* Proofs about the two conversations with the model that decide what a    *)
(* report says: HeuristicAgent, for any set of packets, any budgets of the *)
(* request and any number of tool calls in a response; and SamePerson, for *)
(* any number of people, any last names and joint rows, any limit and any  *)
(* answers.                                                                *)
(***************************************************************************)
EXTENDS HeuristicAgent, SamePerson, SequenceLemmas

Live == state \in {"asking", "handling"}

Unanswered == {p \in bucket : result[p] = "none"}

(***************************************************************************)
(* The inductive invariant.  The loop is left in the step that spends the  *)
(* reminders, a response being handled has calls left, and a solo run that *)
(* goes on has accepted nothing: it takes its submissions whatever their   *)
(* id, and only that keeps a second one from replacing the first.          *)
(***************************************************************************)
Conversation ==
  /\ EveryPacketAnswered
  /\ Live => silent <= MaxOutputRetries
  /\ state = "handling" => todo # <<>>
  /\ Live /\ Solo => pending = bucket

\* A bucket has packets, finitely many.
LEMMA BucketSize ==
  ASSUME AgentTypeOK
  PROVE  IsFiniteSet(bucket) /\ Cardinality(bucket) \in Nat /\ bucket # {}
<1>1. bucket \subseteq Packet /\ bucket # {} /\ IsFiniteSet(Packet)
  BY AgentConstants DEF AgentTypeOK
<1>2. IsFiniteSet(bucket)
  BY <1>1, FS_Subset
<1>3. QED
  BY <1>1, <1>2, FS_CardinalityType

\* A solo run's bucket is its one packet.
LEMMA SoloBucket ==
  ASSUME AgentTypeOK, Solo, NEW p \in bucket
  PROVE  bucket = {p}
<1>1. IsFiniteSet(bucket) /\ Cardinality(bucket) = 1
  BY BucketSize DEF Solo
<1>2. QED
  BY <1>1, FS_Singleton

\* The turn budget is a number.
LEMMA MaxTurnsType ==
  ASSUME AgentTypeOK
  PROVE  MaxTurns \in Nat
<1>1. \A a, b \in Nat : a * b \in Nat
  OBVIOUS
<1>2. (MaxOutputRetries + 2) * Cardinality(bucket) \in Nat
  BY <1>1, BucketSize, AgentConstants
<1>3. QED
  BY <1>2, AgentConstants DEF MaxTurns

-----------------------------------------------------------------------------
(* What the shared endings of the handlers do.                             *)

\* Leaving the loop: a group has a result for every packet, the collected ones
\* among them, and a solo run has none.
LEMMA LeaveKeeps ==
  ASSUME Conversation, Live, Leave
  PROVE  /\ state' \in {"done", "threw"}
         /\ pending' = pending /\ todo' = <<>> /\ cancelled' = cancelled
         /\ result' \in [bucket -> {"none", "finding", "demoted", "error"}]
         /\ \A p \in bucket : result[p] # "none" => result'[p] = result[p]
         /\ state' = "done" => \A p \in bucket : result'[p] # "none"
<1>1. result \in [bucket -> {"none", "finding", "demoted", "error"}]
  BY DEF Conversation, EveryPacketAnswered, AgentTypeOK
<1>2. QED
  BY <1>1 DEF Leave, Fill

\* Going on to the next call: the conversation is only over when nothing is
\* pending.
LEMMA NextCallKeeps ==
  ASSUME Conversation, state = "handling", NEW left, NextCall(left)
  PROVE  /\ todo' \in Seq(ToolCall)
         /\ state' \in {"asking", "handling", "done"}
         /\ state' = "handling" => todo' # <<>>
         /\ state' = "done" => left = {}
<1>1. todo \in Seq(ToolCall) /\ todo # <<>>
  BY DEF Conversation, EveryPacketAnswered, AgentTypeOK
<1>2. Tail(todo) \in Seq(ToolCall)
  BY <1>1, HeadTailProperties
<1>3. Len(todo) > 1 => Tail(todo) # <<>>
  <2>1. Len(Tail(todo)) = Len(todo) - 1 /\ Len(todo) \in Nat
    BY <1>1, HeadTailProperties
  <2>2. ASSUME NEW t, Len(t) = Len(todo) - 1, Len(todo) > 1 PROVE t # <<>>
    BY <2>1, <2>2
  <2>3. QED
    BY <2>1, <2>2
<1>4. QED
  BY <1>2, <1>3 DEF NextCall

\* Accepting the submission of a packet of the bucket: nothing else is
\* answered, and a conversation that ends has answered for every packet.
LEMMA AcceptKeeps ==
  ASSUME Conversation, state = "handling", NEW p \in bucket, result[p] = "none",
         NEW as \in {"finding", "demoted"}, Accept(p, as)
  PROVE  /\ todo' \in Seq(ToolCall)
         /\ state' \in {"asking", "handling", "done"}
         /\ state' = "handling" => todo' # <<>>
         /\ Solo => state' = "done"
         /\ result' \in [bucket -> {"none", "finding", "demoted", "error"}]
         /\ \A q \in bucket : result[q] # "none" => result'[q] = result[q]
         /\ pending' \in SUBSET bucket
         /\ pending' = {q \in bucket : result'[q] = "none"}
         /\ state' = "done" => \A q \in bucket : result'[q] # "none"
<1>1. /\ result \in [bucket -> {"none", "finding", "demoted", "error"}]
      /\ pending \in SUBSET bucket
      /\ pending = {q \in bucket : result[q] = "none"}
      /\ AgentTypeOK
  BY DEF Conversation, EveryPacketAnswered, AgentTypeOK
<1>2. result' = [result EXCEPT ![p] = as] /\ pending' = pending \ {p}
  BY DEF Accept
<1>3. /\ result' \in [bucket -> {"none", "finding", "demoted", "error"}]
      /\ result'[p] = as
      /\ \A q \in bucket : q # p => result'[q] = result[q]
  BY <1>1, <1>2
<1>4. pending' \in SUBSET bucket /\ pending' = {q \in bucket : result'[q] = "none"}
  BY <1>1, <1>2, <1>3
<1>5. CASE Solo
  <2>1. state' = "done" /\ todo' = <<>>
    BY <1>5 DEF Accept
  <2>2. bucket = {p}
    BY <1>1, <1>5, SoloBucket
  <2>3. todo' \in Seq(ToolCall)
    BY <2>1
  <2>4. \A q \in bucket : result'[q] # "none"
    BY <1>3, <2>2
  <2>5. QED
    BY <1>1, <1>3, <1>4, <2>1, <2>3, <2>4
<1>6. CASE ~Solo
  <2>1. NextCall(pending \ {p})
    BY <1>6 DEF Accept
  <2>2. /\ todo' \in Seq(ToolCall)
        /\ state' \in {"asking", "handling", "done"}
        /\ state' = "handling" => todo' # <<>>
        /\ state' = "done" => pending \ {p} = {}
    BY <2>1, NextCallKeeps
  <2>3. QED
    BY <1>2, <1>3, <1>4, <1>6, <2>2
<1>7. QED
  BY <1>5, <1>6

-----------------------------------------------------------------------------
(* The steps.  Kept says of a step what both theorems need.                *)

Kept ==
  /\ Conversation'
  /\ \A p \in bucket : result[p] # "none" => result'[p] = result[p]

\* A packet a submission is filed under is unanswered.
LEMMA TargetUnanswered ==
  ASSUME Conversation, state = "handling", NEW s, NEW p \in Target(s)
  PROVE  p \in bucket /\ result[p] = "none"
  BY DEF Conversation, EveryPacketAnswered, AgentTypeOK, Target, Live

\* An accepted submission, valid or demoted.
LEMMA AcceptStep ==
  ASSUME Conversation, state = "handling", NEW p \in bucket, result[p] = "none",
         NEW as \in {"finding", "demoted"}, Accept(p, as), failures' \in Nat,
         UNCHANGED <<bucket, silent>>
  PROVE  Kept
<1>1. /\ todo' \in Seq(ToolCall)
      /\ state' \in {"asking", "handling", "done"}
      /\ state' = "handling" => todo' # <<>>
      /\ Solo => state' = "done"
      /\ result' \in [bucket -> {"none", "finding", "demoted", "error"}]
      /\ \A q \in bucket : result[q] # "none" => result'[q] = result[q]
      /\ pending' \in SUBSET bucket
      /\ pending' = {q \in bucket : result'[q] = "none"}
      /\ state' = "done" => \A q \in bucket : result'[q] # "none"
  BY AcceptKeeps
<1>2. AgentTypeOK /\ (Live => silent <= MaxOutputRetries) /\ Live
  BY DEF Conversation, EveryPacketAnswered, Live
<1>3. turn' = turn /\ cancelled' = cancelled
  BY DEF Accept
<1>4. MaxTurns' = MaxTurns /\ (Solo' <=> Solo)
  BY DEF MaxTurns, Solo
<1>5. AgentTypeOK'
  BY <1>1, <1>2, <1>3, <1>4 DEF AgentTypeOK
<1>6. QED
  BY <1>1, <1>2, <1>4, <1>5 DEF Kept, Conversation, EveryPacketAnswered, Live

\* Leaving the loop, with the turn and the diagnostics it was left with.
LEMMA LeaveStep ==
  ASSUME Conversation, Live, Leave, turn' \in 0 .. MaxTurns, failures' \in Nat,
         silent' \in 0 .. MaxOutputRetries + 1, UNCHANGED bucket
  PROVE  Kept
<1>1. /\ state' \in {"done", "threw"}
      /\ pending' = pending /\ todo' = <<>> /\ cancelled' = cancelled
      /\ result' \in [bucket -> {"none", "finding", "demoted", "error"}]
      /\ \A p \in bucket : result[p] # "none" => result'[p] = result[p]
      /\ state' = "done" => \A p \in bucket : result'[p] # "none"
  BY LeaveKeeps
<1>2. AgentTypeOK
  BY DEF Conversation, EveryPacketAnswered
<1>3. MaxTurns' = MaxTurns
  BY DEF MaxTurns, Solo
<1>4. todo' \in Seq(ToolCall)
  BY <1>1
<1>5. AgentTypeOK'
  BY <1>1, <1>2, <1>3, <1>4 DEF AgentTypeOK
<1>6. QED
  BY <1>1, <1>5 DEF Kept, Conversation, EveryPacketAnswered, Live

\* A call that files nothing.
LEMMA NextCallStep ==
  ASSUME Conversation, state = "handling", NextCall(pending), failures' \in Nat,
         UNCHANGED <<bucket, cancelled, turn, pending, result, silent>>
  PROVE  Kept
<1>1. /\ todo' \in Seq(ToolCall)
      /\ state' \in {"asking", "handling", "done"}
      /\ state' = "handling" => todo' # <<>>
      /\ state' = "done" => pending = {}
  BY NextCallKeeps
<1>2. AgentTypeOK /\ pending = Unanswered /\ silent <= MaxOutputRetries
      /\ (Solo => pending = bucket)
  BY DEF Conversation, EveryPacketAnswered, Live, Unanswered
<1>3. MaxTurns' = MaxTurns /\ (Solo' <=> Solo)
  BY DEF MaxTurns, Solo
<1>4. AgentTypeOK'
  BY <1>1, <1>2, <1>3 DEF AgentTypeOK
<1>5. EveryPacketAnswered'
  BY <1>1, <1>2, <1>4 DEF EveryPacketAnswered, Unanswered
<1>6. QED
  BY <1>1, <1>2, <1>3, <1>5 DEF Kept, Conversation, Live

\* A model response: the turn is counted, and one without a tool call spends a
\* reminder or ends the conversation.
LEMMA TurnStep ==
  ASSUME Conversation, Turn, UNCHANGED bucket
  PROVE  Kept
<1>1. AgentTypeOK
  BY DEF Conversation, EveryPacketAnswered
<1>2. turn \in 0 .. MaxTurns /\ MaxTurns \in Nat /\ failures \in Nat
      /\ silent \in 0 .. MaxOutputRetries + 1 /\ MaxOutputRetries \in Nat
  BY <1>1, MaxTurnsType, AgentConstants DEF AgentTypeOK
<1>3. ASSUME NEW calls \in Responses, Ask(calls) PROVE Kept
  <2>1. /\ todo' = calls /\ state' = "handling" /\ turn' = turn + 1 /\ turn < MaxTurns
        /\ UNCHANGED <<bucket, cancelled, pending, result, failures, silent>>
        /\ Live
    BY <1>3 DEF Ask, diagnostics, Live
  <2>2. PICK n \in 1 .. MaxCallsPerTurn : calls \in [1 .. n -> ToolCall]
    BY DEF Responses
  <2>3. n \in Nat /\ n >= 1
    BY AgentConstants
  <2>4. calls \in Seq(ToolCall) /\ Len(calls) = n
    BY <2>2, <2>3
  <2>5. calls # <<>>
    BY <2>3, <2>4
  <2>6. turn' \in 0 .. MaxTurns
    BY <1>2, <2>1
  <2>7. MaxTurns' = MaxTurns /\ (Solo' <=> Solo)
    BY <2>1 DEF MaxTurns, Solo
  <2>8. AgentTypeOK'
    BY <1>1, <2>1, <2>4, <2>6, <2>7 DEF AgentTypeOK
  <2>9. EveryPacketAnswered'
    BY <2>1, <2>8 DEF Conversation, EveryPacketAnswered, Live
  <2>10. QED
    BY <2>1, <2>5, <2>7, <2>9 DEF Kept, Conversation, Live
<1>4. CASE Silence
  <2>1. /\ turn' = turn + 1 /\ turn < MaxTurns /\ silent' = silent + 1
        /\ failures' = failures /\ Live /\ state = "asking"
    BY <1>4 DEF Silence, Live
  <2>2. turn' \in 0 .. MaxTurns /\ silent' \in 0 .. MaxOutputRetries + 1
    BY <1>2, <2>1 DEF Conversation
  <2>3. CASE silent' > MaxOutputRetries
    BY <1>2, <1>4, <2>1, <2>2, <2>3, LeaveStep DEF Silence
  <2>4. CASE ~(silent' > MaxOutputRetries)
    <3>1. UNCHANGED <<bucket, state, cancelled, todo, pending, result>>
      BY <1>4, <2>4 DEF Silence
    <3>2. silent' <= MaxOutputRetries
      BY <1>2, <2>2, <2>4
    <3>3. MaxTurns' = MaxTurns /\ (Solo' <=> Solo)
      BY <3>1 DEF MaxTurns, Solo
    <3>4. AgentTypeOK'
      BY <1>1, <2>1, <2>2, <3>1, <3>3 DEF AgentTypeOK
    <3>5. EveryPacketAnswered'
      BY <3>1, <3>4 DEF Conversation, EveryPacketAnswered
    <3>6. QED
      BY <2>1, <3>1, <3>2, <3>3, <3>5 DEF Kept, Conversation, Live
  <2>5. QED
    BY <2>3, <2>4
<1>5. CASE GiveUp
  <2>1. Leave /\ Live /\ UNCHANGED <<turn, failures, silent>>
    BY <1>5 DEF GiveUp, Live, diagnostics
  <2>2. QED
    BY <1>2, <2>1, LeaveStep
<1>6. QED
  BY <1>3, <1>4, <1>5 DEF Turn

\* A tool call, whatever it is.
LEMMA HandleStep ==
  ASSUME Conversation, Handle, UNCHANGED bucket
  PROVE  Kept
<1>1. /\ AgentTypeOK /\ state = "handling" /\ Live
      /\ turn \in 0 .. MaxTurns /\ failures \in Nat /\ silent \in 0 .. MaxOutputRetries + 1
  BY DEF Conversation, EveryPacketAnswered, AgentTypeOK, Live, Handle, Fetch, FetchThrows,
         Misaddressed, SubmitValid, SubmitInvalid
<1>2. CASE Fetch \/ Misaddressed
  BY <1>1, <1>2, NextCallStep DEF Fetch, Misaddressed, diagnostics
<1>3. CASE FetchThrows
  BY <1>1, <1>3, LeaveStep DEF FetchThrows, diagnostics
<1>4. CASE SubmitValid
  <2>1. PICK p \in Target(Head(todo)) : Accept(p, "finding")
    BY <1>4 DEF SubmitValid
  <2>2. UNCHANGED <<failures, silent>>
    BY <1>4 DEF SubmitValid, diagnostics
  <2>3. p \in bucket /\ result[p] = "none"
    BY <1>1, TargetUnanswered
  <2>4. QED
    BY <1>1, <2>1, <2>2, <2>3, AcceptStep
<1>5. CASE SubmitInvalid
  <2>1. PICK p \in Target(Head(todo)) :
          /\ failures' = failures + 1
          /\ \/ NextCall(pending) /\ UNCHANGED <<cancelled, turn, pending, result>>
             \/ Accept(p, "demoted")
             \/ Leave /\ UNCHANGED turn
    BY <1>5 DEF SubmitInvalid
  <2>2. failures' \in Nat /\ silent' = silent
    BY <1>1, <1>5, <2>1 DEF SubmitInvalid
  <2>3. p \in bucket /\ result[p] = "none"
    BY <1>1, TargetUnanswered
  <2>4. CASE NextCall(pending) /\ UNCHANGED <<cancelled, turn, pending, result>>
    BY <1>1, <2>2, <2>4, NextCallStep
  <2>5. CASE Accept(p, "demoted")
    BY <1>1, <2>2, <2>3, <2>5, AcceptStep
  <2>6. CASE Leave /\ UNCHANGED turn
    BY <1>1, <2>2, <2>6, LeaveStep
  <2>7. QED
    BY <2>1, <2>4, <2>5, <2>6
<1>6. QED
  BY <1>2, <1>3, <1>4, <1>5 DEF Handle

\* Every step keeps the invariant and every result already there.
LEMMA ConversationStep == Conversation /\ [Next]_vars => Kept
<1> SUFFICES ASSUME Conversation, [Next]_vars PROVE Kept
  OBVIOUS
<1>1. CASE Turn /\ UNCHANGED bucket
  BY <1>1, TurnStep
<1>2. CASE Handle /\ UNCHANGED bucket
  BY <1>2, HandleStep
<1>3. CASE (Cancel \/ UNCHANGED <<cancelled, state, turn, todo, pending, result, diagnostics>>)
           /\ UNCHANGED bucket
  <2>1. UNCHANGED <<bucket, state, turn, todo, pending, result, failures, silent>>
    BY <1>3 DEF Cancel, diagnostics
  <2>2. cancelled' \in BOOLEAN
    BY <1>3 DEF Cancel, Conversation, EveryPacketAnswered, AgentTypeOK
  <2>3. MaxTurns' = MaxTurns /\ (Solo' <=> Solo)
    BY <2>1 DEF MaxTurns, Solo
  <2>4. AgentTypeOK'
    BY <2>1, <2>2, <2>3 DEF Conversation, EveryPacketAnswered, AgentTypeOK
  <2>5. QED
    BY <2>1, <2>3, <2>4 DEF Kept, Conversation, EveryPacketAnswered, Live
<1>4. QED
  BY <1>1, <1>2, <1>3 DEF Next, vars

-----------------------------------------------------------------------------
\* The conversation is always in order: no turn beyond its budget, no packet
\* both pending and answered.
THEOREM AgentConversation == Spec => []Conversation
<1>1. Init => Conversation
  <2> SUFFICES ASSUME Init PROVE Conversation
    OBVIOUS
  <2>1. MaxTurns \in Nat
    <3>1. bucket \subseteq Packet /\ IsFiniteSet(Packet)
      BY AgentConstants DEF Init
    <3>2. Cardinality(bucket) \in Nat
      BY <3>1, FS_Subset, FS_CardinalityType
    <3>3. \A a, b \in Nat : a * b \in Nat
      OBVIOUS
    <3>4. (MaxOutputRetries + 2) * Cardinality(bucket) \in Nat
      BY <3>2, <3>3, AgentConstants
    <3>5. QED
      BY <3>4, AgentConstants DEF MaxTurns
  <2>2. <<>> \in Seq(ToolCall)
    OBVIOUS
  <2>3. AgentTypeOK
    <3>1. 0 \in 0 .. MaxTurns /\ 0 \in 0 .. MaxOutputRetries + 1
      BY <2>1, AgentConstants
    <3>2. result \in [bucket -> {"none", "finding", "demoted", "error"}]
      BY DEF Init
    <3>3. QED
      BY <2>2, <3>1, <3>2 DEF Init, AgentTypeOK
  <2>4. QED
    BY <2>3, AgentConstants DEF Init, Conversation, EveryPacketAnswered, Live
<1>2. Conversation /\ [Next]_vars => Conversation'
  BY ConversationStep DEF Kept
<1>3. QED
  BY <1>1, <1>2, PTL DEF Spec

\* A group answers for every packet of its bucket, and what is pending while
\* the conversation goes on is what has no accepted submission.
THEOREM AgentAnswersAll == Spec => []EveryPacketAnswered
<1>1. Conversation => EveryPacketAnswered
  BY DEF Conversation
<1>2. QED
  BY <1>1, AgentConversation, PTL

\* An accepted submission is never replaced, by a later one or by the error
\* fill that ends the conversation.
THEOREM AgentKeepsAccepted == Spec => AcceptedIsKept
<1>1. Conversation /\ [Next]_vars => [\A p \in bucket : result[p] # "none" => result'[p] = result[p]]_vars
  BY ConversationStep DEF Kept
<1>2. QED
  BY <1>1, AgentConversation, PTL DEF Spec, AcceptedIsKept

-----------------------------------------------------------------------------
(* Same-person resolution: pairs of people.                                *)

\* A pair of people has two members, and either one tells the other.
LEMMA PairMembers ==
  ASSUME NEW S \in SUBSET Person, NEW p \in kSubset(2, S)
  PROVE  /\ p \in SUBSET S /\ p # {} /\ IsFiniteSet(p)
         /\ \A a \in p : \E b \in p : b # a /\ p = {a, b}
<1>1. p \in SUBSET S /\ Cardinality(p) = 2
  BY DEF kSubset
<1>2. IsFiniteSet(Person)
  BY PeopleConstants, FS_Interval DEF Person
<1>3. IsFiniteSet(p)
  BY <1>1, <1>2, FS_Subset
<1>4. p # {}
  BY <1>1, FS_EmptySet
<1>5. ASSUME NEW a \in p PROVE \E b \in p : b # a /\ p = {a, b}
  <2>1. Cardinality(p \ {a}) = 1 /\ IsFiniteSet(p \ {a})
    BY <1>1, <1>3, FS_RemoveElement
  <2>2. PICK b : p \ {a} = {b}
    BY <2>1, FS_Singleton
  <2> QED
    BY <2>2
<1> QED
  BY <1>1, <1>3, <1>4, <1>5

\* Two people are a pair.
LEMMA PairOf ==
  ASSUME NEW S \in SUBSET Person, NEW a \in S, NEW b \in S, a # b
  PROVE  {a, b} \in kSubset(2, S)
<1>1. IsFiniteSet({a}) /\ Cardinality({a}) = 1
  BY FS_Singleton
<1>2. Cardinality({a} \cup {b}) = 2
  BY <1>1, FS_AddElement
<1>3. {a} \cup {b} = {a, b}
  OBVIOUS
<1> QED
  BY <1>2, <1>3 DEF kSubset

\* There are finitely many pairs.
LEMMA PairsFinite ==
  ASSUME NEW S \in SUBSET Person
  PROVE  /\ IsFiniteSet(Person)
         /\ kSubset(2, S) \in SUBSET kSubset(2, Person) /\ IsFiniteSet(kSubset(2, S))
<1>1. IsFiniteSet(Person)
  BY PeopleConstants, FS_Interval DEF Person
<1>2. IsFiniteSet(S)
  BY <1>1, FS_Subset
<1>3. IsFiniteSet(SUBSET S)
  BY <1>2, FS_SUBSET
<1>4. kSubset(2, S) \subseteq SUBSET S
  BY DEF kSubset
<1>5. IsFiniteSet(kSubset(2, S))
  BY <1>3, <1>4, FS_Subset
<1> QED
  BY <1>1, <1>5 DEF kSubset

-----------------------------------------------------------------------------
(* The candidate pairs.                                                    *)

(* A list of pairs within the limit, every last-name group whole or not    *)
(* at all.                                                                 *)
WholeGroups(acc) ==
  /\ acc \in SUBSET kSubset(2, Person)
  /\ Cardinality(acc) <= MaxPairs
  /\ \A p \in acc : \A a \in p : kSubset(2, Block(lastName[a])) \subseteq acc

\* Offering one more group keeps that.
LEMMA OfferBlockKeeps ==
  ASSUME NEW acc, WholeGroups(acc), NEW n
  PROVE  WholeGroups(OfferBlock(acc, n))
<1> DEFINE pairs == kSubset(2, Block(n))
<1>1. Block(n) \in SUBSET Person
  BY DEF Block
<1>2. pairs \in SUBSET kSubset(2, Person) /\ IsFiniteSet(pairs)
  BY <1>1, PairsFinite
<1>3. acc \in SUBSET kSubset(2, Person) /\ IsFiniteSet(acc)
  BY PairsFinite, FS_Subset DEF WholeGroups
<1>4. \A p \in pairs : \A a \in p : lastName[a] = n
  BY DEF kSubset, Block
<1> HIDE DEF pairs
<1>5. CASE Cardinality(acc) + Cardinality(pairs) > MaxPairs
  BY <1>5 DEF OfferBlock, pairs
<1>6. CASE ~(Cardinality(acc) + Cardinality(pairs) > MaxPairs)
  <2>1. OfferBlock(acc, n) = acc \cup pairs
    BY <1>6 DEF OfferBlock, pairs
  <2>2. Cardinality(acc \cup pairs) <= MaxPairs
    <3>1. Cardinality(acc \cup pairs) = Cardinality(acc) + Cardinality(pairs) - Cardinality(acc \cap pairs)
      BY <1>2, <1>3, FS_Union
    <3>2. IsFiniteSet(acc \cap pairs)
      BY <1>2, FS_Subset
    <3>3. Cardinality(acc) \in Nat /\ Cardinality(pairs) \in Nat /\ Cardinality(acc \cap pairs) \in Nat
      BY <1>2, <1>3, <3>2, FS_CardinalityType
    <3> QED
      BY <1>6, <3>1, <3>3, PeopleConstants
  <2>3. ASSUME NEW p \in acc \cup pairs, NEW a \in p
        PROVE  kSubset(2, Block(lastName[a])) \subseteq acc \cup pairs
    <3>1. CASE p \in acc
      BY <3>1 DEF WholeGroups
    <3>2. CASE p \in pairs
      BY <1>4, <3>2 DEF pairs
    <3> QED
      BY <3>1, <3>2
  <2>4. acc \cup pairs \in SUBSET kSubset(2, Person)
    BY <1>2, <1>3
  <2> QED
    BY <2>1, <2>2, <2>3, <2>4 DEF WholeGroups
<1> QED
  BY <1>5, <1>6

\* A finite set of numbers that is not empty has a greatest one.
LEMMA GreatestName ==
  ASSUME NEW S \in SUBSET Nat, IsFiniteSet(S)
  PROVE  \A s \in SUBSET S : s # {} => Max(s) \in s
<1> DEFINE Good == {s \in SUBSET S : s # {} => \E x \in s : \A y \in s : x >= y}
<1>1. {} \in Good
  OBVIOUS
<1>2. ASSUME NEW s \in SUBSET S, s # {} PROVE \E x \in s : s \ {x} \in Good => s \in Good
  <2>1. PICK x \in s : TRUE
    BY <1>2
  <2>2. ASSUME s \ {x} \in Good PROVE s \in Good
    <3>1. CASE s \ {x} = {}
      <4>1. s = {x}
        BY <2>1, <3>1
      <4> QED
        BY <4>1
    <3>2. CASE s \ {x} # {}
      <4>1. PICK y \in s \ {x} : \A z \in s \ {x} : y >= z
        BY <2>2, <3>2
      <4>2. x \in Nat /\ \A z \in s : z \in Nat
        OBVIOUS
      <4>3. CASE x >= y
        <5>1. \A z \in s : x >= z
          BY <4>1, <4>2, <4>3
        <5> QED
          BY <5>1
      <4>4. CASE ~(x >= y)
        <5>1. \A z \in s : y >= z
          BY <4>1, <4>2, <4>4
        <5> QED
          BY <4>1, <5>1
      <4> QED
        BY <4>3, <4>4
    <3> QED
      BY <3>1, <3>2
  <2> QED
    BY <2>2
<1> HIDE DEF Good
<1>3. \A s \in SUBSET S : s \in Good
  BY <1>1, <1>2, SubsetInduction
<1> QED
  BY <1>3 DEF Good, Max

\* The list of candidate pairs is such a list.
LEMMA CandidatesWhole ==
  ASSUME lastName \in LastNames
  PROVE  WholeGroups(CandidatePairs)
<1> DEFINE S == Names
           W == SUBSET kSubset(2, Person)
           pick == [s \in SUBSET S |-> Max(s)]
           step == [x \in S \X W |-> OfferBlock(x[2], x[1])]
           R(f) == [s \in SUBSET S |-> IF s = {} THEN {} ELSE OfferBlock(f[s \ {Max(s)}], Max(s))]
           g == CHOOSE f : f = R(f)
<1>1. S \in SUBSET Nat /\ IsFiniteSet(S)
  <2>1. lastName \in [Person -> Nat]
    BY PeopleConstants
  <2>2. IsFiniteSet(Person)
    BY PairsFinite
  <2>3. IsFiniteSet({lastName[a] : a \in Person})
    <3> DEFINE T == {lastName[a] : a \in Person}
    <3>1. lastName \in Surjection(Person, T)
      BY <2>1 DEF Surjection
    <3> HIDE DEF T
    <3>2. IsFiniteSet(T)
      BY <2>2, <3>1, FS_Surjection
    <3> QED
      BY <3>2 DEF T
  <2>4. S \subseteq {lastName[a] : a \in Person}
    BY DEF Names
  <2>5. IsFiniteSet(S)
    BY <2>3, <2>4, FS_Subset
  <2> QED
    BY <2>1, <2>5 DEF Names
<1>2. CandidatePairs = g[S]
  BY DEF CandidatePairs, MapThenFoldSet
<1>3. \A s \in SUBSET S : s # {} => Max(s) \in s
  BY <1>1, GreatestName
<1>4. ASSUME NEW n, NEW acc \in W PROVE OfferBlock(acc, n) \in W
  <2>1. Block(n) \in SUBSET Person
    BY DEF Block
  <2>2. kSubset(2, Block(n)) \in SUBSET kSubset(2, Person)
    BY <2>1, PairsFinite
  <2> QED
    BY <2>2 DEF OfferBlock
<1>5. step \in [S \X W -> W]
  BY <1>4
<1>6. \A x \in S, acc \in W : step[<<x, acc>>] = OfferBlock(acc, x)
  OBVIOUS
<1>7. \A s \in SUBSET S : pick[s] = Max(s)
  OBVIOUS
<1>8. {} \in W
  OBVIOUS
<1> HIDE DEF S, W, pick, step
<1>9. Picks(pick, S)
  BY <1>3, <1>7 DEF Picks
<1>10. PICK f \in [SUBSET S -> W] : Folds(f, step, pick, {}, S)
  BY <1>1, <1>5, <1>8, <1>9, FoldsExist
<1>11. f = R(f)
  <2>1. \A s \in SUBSET S : s # {} => Max(s) \in S /\ f[s \ {Max(s)}] \in W
    BY <1>3
  <2>2. \A s \in SUBSET S : s # {} =>
          step[<<pick[s], f[s \ {pick[s]}]>>] = OfferBlock(f[s \ {Max(s)}], Max(s))
    BY <1>6, <1>7, <2>1
  <2> QED
    BY <1>10, <2>2 DEF Folds
<1>12. g = R(g)
  BY <1>11
<1> HIDE DEF g
<1> DEFINE Good == {s \in SUBSET S : WholeGroups(g[s])}
<1>13. {} \in Good
  <2>1. g[{}] = {}
    BY <1>12
  <2>2. WholeGroups({})
    BY FS_EmptySet, PeopleConstants DEF WholeGroups
  <2> QED
    BY <2>1, <2>2
<1>14. ASSUME NEW s \in SUBSET S, s # {} PROVE \E x \in s : s \ {x} \in Good => s \in Good
  <2>1. g[s] = OfferBlock(g[s \ {Max(s)}], Max(s))
    BY <1>12, <1>14
  <2>2. s \ {Max(s)} \in Good => s \in Good
    BY <2>1, OfferBlockKeeps
  <2> QED
    BY <1>3, <1>14, <2>2
<1> HIDE DEF Good
<1>15. \A s \in SUBSET S : s \in Good
  BY <1>1, <1>13, <1>14, SubsetInduction
<1>16. S \in Good
  BY <1>15
<1> QED
  BY <1>2, <1>16 DEF Good


-----------------------------------------------------------------------------
(* The groups of the verdicts.                                             *)

(* The trees of a union-find after the edges of s: they are apart, every   *)
(* edge lies in one, everyone in a tree has an edge there, and nobody is   *)
(* in one who is not connected to all of it.                               *)
Grouped(s, parts) ==
  /\ parts \in SUBSET SUBSET Person
  /\ \A c, d \in parts : c # d => c \cap d = {}
  /\ \A q \in s : \E c \in parts : q \subseteq c
  /\ \A c \in parts : \A a \in c : \E q \in s : a \in q /\ q \subseteq c
  /\ \A set \in SUBSET Person :
       (\A q \in s : q \cap set # {} => q \subseteq set) =>
         \A c \in parts : c \cap set # {} => c \subseteq set

\* Joining the trees of the ends of one more edge keeps that.
LEMMA JoinKeeps ==
  ASSUME NEW s, NEW parts, Grouped(s, parts), NEW p \in SUBSET Person, p # {}
  PROVE  Grouped(s \cup {p}, Join(p, parts))
<1> DEFINE touched == {c \in parts : c \cap p # {}}
           new == p \cup UNION touched
           joined == (parts \ touched) \cup {new}
<1>1. Join(p, parts) = joined
  BY DEF Join
<1>2. /\ parts \in SUBSET SUBSET Person
      /\ \A c, d \in parts : c # d => c \cap d = {}
  BY DEF Grouped
<1>3. touched \in SUBSET parts /\ new \in SUBSET Person /\ p \subseteq new
      /\ \A c \in touched : c \subseteq new
  BY <1>2
<1>4. joined \in SUBSET SUBSET Person
  BY <1>2, <1>3
<1>5. \A c \in parts \ touched : c \cap new = {}
  <2> SUFFICES ASSUME NEW c \in parts \ touched, NEW a \in c, a \in new PROVE FALSE
    OBVIOUS
  <2>1. a \notin p
    OBVIOUS
  <2>2. PICK d \in touched : a \in d
    BY <2>1
  <2> QED
    BY <1>2, <2>2
<1>6. \A c, d \in joined : c # d => c \cap d = {}
  BY <1>2, <1>5
<1>7. ASSUME NEW q \in s \cup {p} PROVE \E c \in joined : q \subseteq c
  <2>1. CASE q = p
    BY <1>3, <2>1
  <2>2. CASE q \in s
    <3>1. PICK c \in parts : q \subseteq c
      BY <2>2 DEF Grouped
    <3>2. CASE c \in touched
      BY <1>3, <3>1, <3>2
    <3>3. CASE c \notin touched
      BY <3>1, <3>3
    <3> QED
      BY <3>2, <3>3
  <2> QED
    BY <2>1, <2>2
<1>8. ASSUME NEW c \in joined, NEW a \in c PROVE \E q \in s \cup {p} : a \in q /\ q \subseteq c
  <2>1. \A d \in parts : a \in d => \E q \in s : a \in q /\ q \subseteq d
    BY DEF Grouped
  <2>2. CASE c \in parts \ touched
    BY <2>1, <2>2
  <2>3. CASE c = new
    <3>1. CASE a \in p
      BY <1>3, <2>3, <3>1
    <3>2. CASE a \notin p
      <4>1. PICK d \in touched : a \in d
        BY <2>3, <3>2
      <4>2. PICK q \in s : a \in q /\ q \subseteq d
        BY <1>3, <2>1, <4>1
      <4> QED
        BY <1>3, <2>3, <4>1, <4>2
    <3> QED
      BY <3>1, <3>2
  <2> QED
    BY <2>2, <2>3
<1>9. ASSUME NEW set \in SUBSET Person, \A q \in s \cup {p} : q \cap set # {} => q \subseteq set,
             NEW c \in joined, c \cap set # {}
      PROVE  c \subseteq set
  <2>1. \A d \in parts : d \cap set # {} => d \subseteq set
    BY <1>9 DEF Grouped
  <2>2. CASE c \in parts \ touched
    BY <1>9, <2>1, <2>2
  <2>3. CASE c = new
    <3>1. p \cap set # {}
      <4>1. PICK a \in c : a \in set
        BY <1>9
      <4>2. CASE a \in p
        BY <4>1, <4>2
      <4>3. CASE a \notin p
        <5>1. PICK d \in touched : a \in d
          BY <2>3, <4>1, <4>3
        <5>2. d \subseteq set
          BY <1>3, <2>1, <4>1, <5>1
        <5> QED
          BY <5>2
      <4> QED
        BY <4>2, <4>3
    <3>2. p \subseteq set
      BY <1>9, <3>1
    <3>3. \A d \in touched : d \subseteq set
      BY <1>3, <2>1, <3>2
    <3> QED
      BY <2>3, <3>2, <3>3
  <2> QED
    BY <2>2, <2>3
<1> HIDE DEF joined
<1> QED
  BY <1>1, <1>4, <1>6, <1>7, <1>8, <1>9 DEF Grouped

\* The components are the trees of all the edges.
LEMMA ComponentsGrouped ==
  ASSUME Edges \in SUBSET kSubset(2, Person)
  PROVE  Grouped(Edges, Components)
<1> DEFINE S == Edges
           W == SUBSET SUBSET Person
           c(s) == CHOOSE p \in s : TRUE
           pick == [s \in SUBSET S |-> c(s)]
           step == [x \in S \X W |-> Join(x[1], x[2])]
           R(f) == [s \in SUBSET S |-> IF s = {} THEN {} ELSE Join(c(s), f[s \ {c(s)}])]
           g == CHOOSE f : f = R(f)
<1>1. IsFiniteSet(S)
  BY PairsFinite, FS_Subset
<1>2. Components = g[S]
  BY DEF Components, FoldSet, MapThenFoldSet
<1>3. \A s \in SUBSET S : s # {} => c(s) \in s
  OBVIOUS
<1>4. \A p \in S : p \in SUBSET Person /\ p # {}
  BY PairMembers
<1>5. ASSUME NEW p \in S, NEW parts \in W PROVE Join(p, parts) \in W
  BY <1>4 DEF Join
<1>6. step \in [S \X W -> W]
  BY <1>5
<1>7. \A x \in S, parts \in W : step[<<x, parts>>] = Join(x, parts)
  OBVIOUS
<1>8. \A s \in SUBSET S : pick[s] = c(s)
  OBVIOUS
<1>9. {} \in W
  OBVIOUS
<1> HIDE DEF S, W, c, pick, step
<1>10. Picks(pick, S)
  BY <1>3, <1>8 DEF Picks
<1>11. PICK f \in [SUBSET S -> W] : Folds(f, step, pick, {}, S)
  BY <1>1, <1>6, <1>9, <1>10, FoldsExist
<1>12. f = R(f)
  <2>1. \A s \in SUBSET S : s # {} => c(s) \in S /\ f[s \ {c(s)}] \in W
    BY <1>3
  <2>2. \A s \in SUBSET S : s # {} =>
          step[<<pick[s], f[s \ {pick[s]}]>>] = Join(c(s), f[s \ {c(s)}])
    BY <1>7, <1>8, <2>1
  <2> QED
    BY <1>11, <2>2 DEF Folds
<1>13. g = R(g)
  BY <1>12
<1> HIDE DEF g
<1> DEFINE Good == {s \in SUBSET S : Grouped(s, g[s])}
<1>14. {} \in Good
  <2>1. g[{}] = {}
    BY <1>13
  <2>2. Grouped({}, {})
    BY DEF Grouped
  <2> QED
    BY <2>1, <2>2
<1>15. ASSUME NEW s \in SUBSET S, s # {} PROVE \E x \in s : s \ {x} \in Good => s \in Good
  <2>1. g[s] = Join(c(s), g[s \ {c(s)}])
    BY <1>13, <1>15
  <2>2. c(s) \in SUBSET Person /\ c(s) # {} /\ (s \ {c(s)}) \cup {c(s)} = s
    BY <1>3, <1>4, <1>15
  <2>3. ASSUME s \ {c(s)} \in Good PROVE s \in Good
    <3>1. Grouped(s \ {c(s)}, g[s \ {c(s)}])
      BY <2>3
    <3>2. Grouped((s \ {c(s)}) \cup {c(s)}, Join(c(s), g[s \ {c(s)}]))
      BY <2>2, <3>1, JoinKeeps
    <3> QED
      BY <2>1, <2>2, <3>2
  <2> QED
    BY <1>3, <1>15, <2>3
<1> HIDE DEF Good
<1>16. \A s \in SUBSET S : s \in Good
  BY <1>1, <1>14, <1>15, SubsetInduction
<1>17. S \in Good
  BY <1>16
<1> QED
  BY <1>2, <1>17 DEF Good, S

-----------------------------------------------------------------------------
(* The merged list.                                                        *)

(* Groups of people, apart from one another and none of them empty.        *)
Apart(gs) ==
  /\ gs \in SUBSET (SUBSET Person) /\ \A g \in gs : g # {}
  /\ \A g, h \in gs : g # h => g \cap h = {}

(* place says whose place in people_at_address an entry of l stands at:    *)
(* that of somebody in no group, or of the first member of a group.        *)
EntriesAt(place, gs, l) ==
  /\ l \in Seq(SUBSET Person)
  /\ place \in [1 .. Len(l) -> Person]
  /\ \A k, m \in 1 .. Len(l) : k < m => place[k] < place[m]
  /\ \A k \in 1 .. Len(l) :
       \/ l[k] = {place[k]} /\ \A g \in gs : place[k] \notin g
       \/ l[k] \in gs /\ place[k] = Min(l[k])
  /\ \A a \in Person : (\A g \in gs : a \notin g) => \E k \in 1 .. Len(l) : place[k] = a
  /\ \A g \in gs : \E k \in 1 .. Len(l) : l[k] = g

\* The first member of a group is one of its members and before all others.
LEMMA FirstMember ==
  ASSUME NEW g \in SUBSET Person, g # {}
  PROVE  Min(g) \in g /\ \A a \in g : Min(g) <= a
<1>1. g \in SUBSET Nat
  BY DEF Person
<1>2. PICK n \in g : \A m \in g : ~(m < n)
  BY <1>1, LeastElement
<1>3. \A m \in g : n <= m
  BY <1>1, <1>2
<1> QED
  BY <1>2, <1>3 DEF Min

\* The merge puts every entry at such a place.
LEMMA MergeEntries ==
  ASSUME NEW gs, Apart(gs)
  PROVE  \E place : EntriesAt(place, gs, FlattenSeq([i \in Person |-> MergedEntry(gs, i)]))
<1> DEFINE s == [i \in Person |-> MergedEntry(gs, i)]
           mine(i) == {g \in gs : i \in g}
           l == FlattenSeq(s)
<1>1. gs \in SUBSET (SUBSET Person) /\ \A g \in gs : g # {}
  BY DEF Apart
<1>2. ASSUME NEW i \in Person, mine(i) = {} PROVE MergedEntry(gs, i) = <<{i}>>
  BY <1>2 DEF MergedEntry
<1>3. ASSUME NEW g \in gs, NEW i \in g
      PROVE  MergedEntry(gs, i) = IF i = Min(g) THEN <<g>> ELSE <<>>
  <2>1. mine(i) = {g}
    BY <1>1 DEF Apart
  <2>2. (CHOOSE h \in mine(i) : TRUE) = g
    BY <2>1
  <2> QED
    BY <2>1, <2>2 DEF MergedEntry
<1>4. \A i \in Person : /\ MergedEntry(gs, i) \in Seq(SUBSET Person)
                        /\ Len(MergedEntry(gs, i)) <= 1
  <2> SUFFICES ASSUME NEW i \in Person
               PROVE  /\ MergedEntry(gs, i) \in Seq(SUBSET Person)
                      /\ Len(MergedEntry(gs, i)) <= 1
    OBVIOUS
  <2>1. CASE mine(i) = {}
    <3>1. MergedEntry(gs, i) = <<{i}>>
      BY <1>2, <2>1
    <3> QED
      BY <3>1
  <2>2. CASE mine(i) # {}
    <3>1. PICK g \in gs : i \in g
      BY <2>2
    <3>2. MergedEntry(gs, i) = IF i = Min(g) THEN <<g>> ELSE <<>>
      BY <1>3, <3>1
    <3>3. g \in SUBSET Person
      BY <1>1
    <3>4. <<g>> \in Seq(SUBSET Person) /\ Len(<<g>>) <= 1
      BY <3>3
    <3>5. <<>> \in Seq(SUBSET Person) /\ Len(<<>>) <= 1
      OBVIOUS
    <3>6. CASE i = Min(g)
      <4>1. MergedEntry(gs, i) = <<g>>
        BY <3>2, <3>6
      <4> QED
        BY <3>4, <4>1
    <3>7. CASE i # Min(g)
      <4>1. MergedEntry(gs, i) = <<>>
        BY <3>2, <3>7
      <4> QED
        BY <3>5, <4>1
    <3> QED
      BY <3>6, <3>7
  <2> QED
    BY <2>1, <2>2
<1>5. s \in Seq(Seq(SUBSET Person)) /\ Len(s) = People /\ \A b \in 1 .. Len(s) : Len(s[b]) <= 1
  <2>1. s \in [1 .. People -> Seq(SUBSET Person)]
    BY <1>4 DEF Person
  <2>2. s \in Seq(Seq(SUBSET Person)) /\ Len(s) = People
    BY <2>1, PeopleConstants
  <2> QED
    BY <1>4, <2>2 DEF Person
<1>6. \A i \in Person : s[i] = MergedEntry(gs, i)
  OBVIOUS
<1>7. 1 .. Len(s) = Person
  BY <1>5 DEF Person
<1> HIDE DEF s, mine
<1>8. PICK part : ComesFrom(part, s)
  BY <1>5, FlattenAtMostOne
<1>9. l \in Seq(SUBSET Person)
  BY <1>5, FlattenLaysOut
<1>10. /\ part \in [1 .. Len(l) -> Person]
       /\ \A k \in 1 .. Len(l) : Len(s[part[k]]) = 1 /\ l[k] = s[part[k]][1]
       /\ \A k, m \in 1 .. Len(l) : k < m => part[k] < part[m]
       /\ \A b \in Person : Len(s[b]) = 1 => \E k \in 1 .. Len(l) : part[k] = b
  BY <1>7, <1>8 DEF ComesFrom
<1>11. ASSUME NEW k \in 1 .. Len(l)
       PROVE  \/ l[k] = {part[k]} /\ \A g \in gs : part[k] \notin g
              \/ l[k] \in gs /\ part[k] = Min(l[k])
  <2>1. part[k] \in Person /\ Len(s[part[k]]) = 1 /\ l[k] = s[part[k]][1]
    BY <1>10
  <2>2. CASE mine(part[k]) = {}
    <3>1. s[part[k]] = <<{part[k]}>>
      BY <1>2, <1>6, <2>1, <2>2
    <3>2. l[k] = {part[k]}
      BY <2>1, <3>1
    <3> QED
      BY <2>2, <3>2 DEF mine
  <2>3. CASE mine(part[k]) # {}
    <3>1. PICK g \in gs : part[k] \in g
      BY <2>3 DEF mine
    <3>2. s[part[k]] = IF part[k] = Min(g) THEN <<g>> ELSE <<>>
      BY <1>3, <1>6, <2>1, <3>1
    <3>3. part[k] = Min(g)
      <4>1. Len(<<>>) # 1
        OBVIOUS
      <4> QED
        BY <2>1, <3>2, <4>1
    <3>4. l[k] = g
      <4>1. s[part[k]] = <<g>>
        BY <3>2, <3>3
      <4> QED
        BY <2>1, <4>1
    <3> QED
      BY <3>3, <3>4
  <2> QED
    BY <2>2, <2>3
<1>12. ASSUME NEW a \in Person, \A g \in gs : a \notin g
       PROVE  \E k \in 1 .. Len(l) : part[k] = a
  <2>1. s[a] = <<{a}>>
    BY <1>2, <1>6, <1>12 DEF mine
  <2>2. Len(s[a]) = 1
    BY <2>1
  <2> QED
    BY <1>10, <2>2
<1>13. ASSUME NEW g \in gs PROVE \E k \in 1 .. Len(l) : l[k] = g
  <2>1. Min(g) \in g /\ Min(g) \in Person
    BY <1>1, FirstMember
  <2>2. s[Min(g)] = <<g>>
    BY <1>3, <1>6, <2>1
  <2>3. Len(s[Min(g)]) = 1 /\ s[Min(g)][1] = g
    BY <2>2
  <2>4. PICK k \in 1 .. Len(l) : part[k] = Min(g)
    BY <1>10, <2>1, <2>3
  <2> QED
    BY <1>10, <2>3, <2>4
<1>14. EntriesAt(part, gs, l)
  BY <1>9, <1>10, <1>11, <1>12, <1>13 DEF EntriesAt
<1> QED
  BY <1>14 DEF s

\* With every entry at its place, everyone is in one entry and the entries are
\* in the order of their first members.
LEMMA PlacesList ==
  ASSUME NEW gs, Apart(gs), NEW place, EntriesAt(place, gs, list)
  PROVE  EveryoneOnce
<1> DEFINE D == 1 .. Len(list)
<1>1. DOMAIN list = D
  BY DEF EntriesAt
<1>2. /\ place \in [D -> Person]
      /\ \A k, m \in D : k < m => place[k] < place[m]
      /\ \A k \in D : \/ list[k] = {place[k]} /\ \A g \in gs : place[k] \notin g
                      \/ list[k] \in gs /\ place[k] = Min(list[k])
  BY DEF EntriesAt
<1>3. gs \in SUBSET (SUBSET Person) /\ \A g \in gs : g # {}
  BY DEF Apart
<1>4. \A k \in D : k \in Nat
  OBVIOUS
<1>5. \A k \in D : place[k] \in Nat /\ place[k] \in Person
  BY <1>2 DEF Person
<1> HIDE DEF D
<1>6. \A k, m \in D : place[k] = place[m] => k = m
  <2> SUFFICES ASSUME NEW k \in D, NEW m \in D, place[k] = place[m], k # m PROVE FALSE
    OBVIOUS
  <2>1. k < m \/ m < k
    BY <1>4
  <2> QED
    BY <1>2, <1>5, <2>1
<1>7. ASSUME NEW k \in D PROVE Min(list[k]) = place[k] /\ list[k] \in SUBSET Person
  <2>1. CASE list[k] = {place[k]}
    <3>1. Min(list[k]) \in list[k]
      BY <1>5, <2>1, FirstMember
    <3> QED
      BY <1>5, <2>1, <3>1
  <2>2. CASE list[k] \in gs /\ place[k] = Min(list[k])
    BY <1>3, <2>2
  <2> QED
    BY <1>2, <2>1, <2>2
<1>8. ASSUME NEW a \in Person PROVE Cardinality({i \in DOMAIN list : a \in list[i]}) = 1
  <2>1. PICK k \in D : a \in list[k]
    <3>1. CASE \A g \in gs : a \notin g
      <4>1. PICK k \in D : place[k] = a
        BY <3>1 DEF EntriesAt, D
      <4>2. a \in list[k]
        <5>1. CASE list[k] = {place[k]}
          BY <4>1, <5>1
        <5>2. CASE list[k] \in gs /\ place[k] = Min(list[k])
          BY <1>3, <3>1, <4>1, <5>2, FirstMember
        <5> QED
          BY <1>2, <5>1, <5>2
      <4> QED
        BY <4>2
    <3>2. CASE \E g \in gs : a \in g
      <4>1. PICK g \in gs : a \in g
        BY <3>2
      <4>2. PICK k \in D : list[k] = g
        BY DEF EntriesAt, D
      <4> QED
        BY <4>1, <4>2
    <3> QED
      BY <3>1, <3>2
  <2>2. ASSUME NEW m \in D, a \in list[m] PROVE m = k
    <3>1. place[m] = place[k]
      <4>1. CASE \A g \in gs : a \notin g
        <5>1. list[m] = {place[m]} /\ list[k] = {place[k]}
          BY <1>2, <2>1, <2>2, <4>1
        <5> QED
          BY <2>1, <2>2, <5>1
      <4>2. CASE \E g \in gs : a \in g
        <5>1. PICK g \in gs : a \in g
          BY <4>2
        <5>2. list[m] = g /\ list[k] = g
          <6>1. ASSUME NEW j \in D, a \in list[j] PROVE list[j] = g
            <7>1. CASE list[j] = {place[j]} /\ \A h \in gs : place[j] \notin h
              BY <5>1, <6>1, <7>1
            <7>2. CASE list[j] \in gs
              BY <5>1, <6>1, <7>2 DEF Apart
            <7> QED
              BY <1>2, <7>1, <7>2
          <6> QED
            BY <2>1, <2>2, <6>1
        <5> QED
          BY <1>7, <5>2
      <4> QED
        BY <4>1, <4>2
    <3> QED
      BY <1>6, <3>1
  <2>3. {i \in DOMAIN list : a \in list[i]} = {k}
    BY <1>1, <2>1, <2>2
  <2> QED
    BY <2>3, FS_Singleton
<1>9. \A i, j \in DOMAIN list : i < j => Min(list[i]) < Min(list[j])
  BY <1>1, <1>2, <1>7
<1> QED
  BY <1>8, <1>9 DEF EveryoneOnce

-----------------------------------------------------------------------------
(* The inductive invariant: the pairs are offered group by group, and the  *)
(* merged list is what the verdicts make of the people.                    *)

PeopleInvariant ==
  /\ PeopleTypeOK
  /\ WholeGroups(offered)
  /\ phase # "merged" => groups = {} /\ list = [i \in Person |-> {i}]
  /\ phase = "merged" =>
       /\ groups = Validated(GroupsFromVerdicts)
       /\ list = FlattenSeq([i \in Person |-> MergedEntry(groups, i)])

\* The components of the verdicts are trees of pairs that were offered.
LEMMA VerdictsGrouped ==
  ASSUME offered \in SUBSET kSubset(2, Person)
  PROVE  Grouped(Edges, Components)
<1>1. Edges \in SUBSET kSubset(2, Person)
  BY DEF Edges
<1> QED
  BY <1>1, ComponentsGrouped

\* The groups that validation keeps are apart.
LEMMA ValidatedApart ==
  ASSUME offered \in SUBSET kSubset(2, Person)
  PROVE  Apart(Validated(GroupsFromVerdicts))
<1>1. GroupsFromVerdicts \in SUBSET (SUBSET Person)
  BY VerdictsGrouped DEF GroupsFromVerdicts, Grouped
<1>2. ASSUME NEW g \in Validated(GroupsFromVerdicts) PROVE g # {}
  <2>1. Cardinality(g) >= 2
    BY DEF Validated
  <2> QED
    BY <2>1, FS_EmptySet
<1>3. \A g, h \in Validated(GroupsFromVerdicts) : g # h => g \cap h = {}
  BY DEF Validated
<1>4. Validated(GroupsFromVerdicts) \subseteq GroupsFromVerdicts
  BY DEF Validated
<1> QED
  BY <1>1, <1>2, <1>3, <1>4 DEF Apart

\* Nobody is listed yet but as himself.
LEMMA PeopleStart ==
  ASSUME PeopleInit
  PROVE  PeopleInvariant
<1>1. list \in Seq(SUBSET Person)
  <2>1. list \in [1 .. People -> SUBSET Person]
    BY DEF PeopleInit, Person
  <2> QED
    BY <2>1, PeopleConstants
<1>2. said \in [offered -> Seq(Verdict)]
  BY DEF PeopleInit
<1>3. PeopleTypeOK
  BY <1>1, <1>2 DEF PeopleInit, PeopleTypeOK
<1>4. WholeGroups(offered)
  BY FS_EmptySet, PeopleConstants DEF PeopleInit, WholeGroups
<1> QED
  BY <1>3, <1>4 DEF PeopleInit, PeopleInvariant

\* What the merge reads and writes is the same wherever the verdicts are.
LEMMA VerdictsUnchanged ==
  ASSUME UNCHANGED <<joint, offered, said>>
  PROVE  Validated(GroupsFromVerdicts)' = Validated(GroupsFromVerdicts)
<1>1. /\ Answered' = Answered /\ CalledDifferent' = CalledDifferent
  BY DEF Answered, CalledDifferent
<1>2. Edges' = Edges
  BY DEF Edges, PlainLinks, JointLinks, Ambiguous, IsLink, IsJoint
<1>3. Components' = Components
  BY <1>2 DEF Components, Join, FoldSet, MapThenFoldSet
<1> QED
  BY <1>1, <1>3 DEF GroupsFromVerdicts, Validated, Contradictory, Incomplete

\* Every step keeps the invariant.
LEMMA PeopleSteps ==
  ASSUME PeopleInvariant, [PeopleNext]_peopleVars
  PROVE  PeopleInvariant'
<1> USE DEF PeopleInvariant
<1>1. CASE Offer
  <2>1. WholeGroups(offered)'
    <3>1. WholeGroups(CandidatePairs)
      BY CandidatesWhole DEF PeopleTypeOK
    <3> QED
      BY <1>1, <3>1 DEF Offer, WholeGroups, Block
  <2>2. said' \in [offered' -> Seq(Verdict)]
    BY <1>1 DEF Offer
  <2>3. PeopleTypeOK'
    BY <1>1, <2>1, <2>2 DEF Offer, PeopleTypeOK, WholeGroups
  <2> QED
    BY <1>1, <2>1, <2>3 DEF Offer
<1>2. CASE Judge
  <2>1. PeopleTypeOK'
    BY <1>2 DEF Judge, PeopleTypeOK
  <2>2. WholeGroups(offered)'
    BY <1>2 DEF Judge, WholeGroups, Block
  <2> QED
    BY <1>2, <2>1, <2>2 DEF Judge
<1>3. CASE Merge
  <2>1. offered \in SUBSET kSubset(2, Person) /\ UNCHANGED <<lastName, joint, offered, said>>
    BY <1>3 DEF Merge, PeopleTypeOK
  <2>2. groups' = Validated(GroupsFromVerdicts)
    BY <1>3 DEF Merge
  <2>3. Validated(GroupsFromVerdicts)' = Validated(GroupsFromVerdicts)
    BY <2>1, VerdictsUnchanged
  <2>4. Apart(groups')
    BY <2>1, <2>2, ValidatedApart
  <2>5. list' = FlattenSeq([i \in Person |-> MergedEntry(groups', i)])
    BY <1>3 DEF Merge
  <2>6. PICK place : EntriesAt(place, groups', list')
    BY <2>4, <2>5, MergeEntries
  <2>7. PeopleTypeOK'
    BY <1>3, <2>1, <2>4, <2>6 DEF Merge, PeopleTypeOK, Apart, EntriesAt
  <2>8. WholeGroups(offered)'
    BY <2>1 DEF WholeGroups, Block
  <2>9. (list = FlattenSeq([i \in Person |-> MergedEntry(groups, i)]))'
    BY <2>5 DEF MergedEntry
  <2>10. phase' = "merged"
    BY <1>3 DEF Merge
  <2> QED
    BY <2>2, <2>3, <2>7, <2>8, <2>9, <2>10
<1>4. CASE UNCHANGED peopleVars
  <2>1. UNCHANGED <<phase, lastName, joint, offered, said, groups, list>>
    BY <1>4 DEF peopleVars
  <2>2. Validated(GroupsFromVerdicts)' = Validated(GroupsFromVerdicts)
    BY <2>1, VerdictsUnchanged
  <2>3. PeopleTypeOK' /\ WholeGroups(offered)'
    BY <2>1 DEF PeopleTypeOK, WholeGroups, Block
  <2>4. FlattenSeq([i \in Person |-> MergedEntry(groups, i)])' = FlattenSeq([i \in Person |-> MergedEntry(groups, i)])
    BY <2>1 DEF MergedEntry
  <2> QED
    BY <2>1, <2>2, <2>3, <2>4
<1> QED
  BY <1>1, <1>2, <1>3, <1>4 DEF PeopleNext

\* The pairs are offered in whole last-name groups within the limit, and the
\* people list is the one the verdicts make.
THEOREM PeopleListed == PeopleSpec => []PeopleInvariant
<1>1. PeopleInit => PeopleInvariant
  BY PeopleStart
<1>2. PeopleInvariant /\ [PeopleNext]_peopleVars => PeopleInvariant'
  BY PeopleSteps
<1> QED
  BY <1>1, <1>2, PTL DEF PeopleSpec

\* Everyone is listed once: before the merge as himself, after it as the places
\* of the entries have it.
LEMMA ListPlaced ==
  ASSUME PeopleInvariant
  PROVE  /\ \E gs, place : Apart(gs) /\ EntriesAt(place, gs, list)
         /\ \A i \in DOMAIN list :
              \/ \E a \in Person : list[i] = {a}
              \/ phase = "merged" /\ list[i] \in Validated(GroupsFromVerdicts)
<1>1. CASE phase # "merged"
  <2> DEFINE place == [i \in Person |-> i]
  <2>1. list = [i \in Person |-> {i}]
    BY <1>1 DEF PeopleInvariant
  <2>2. list \in Seq(SUBSET Person) /\ 1 .. Len(list) = Person
    <3>1. list \in [1 .. People -> SUBSET Person]
      BY <2>1 DEF Person
    <3>2. list \in Seq(SUBSET Person) /\ Len(list) = People
      BY <3>1, PeopleConstants
    <3> QED
      BY <3>2 DEF Person
  <2>3. place \in [Person -> Person] /\ \A i \in Person : place[i] = i /\ list[i] = {place[i]}
    BY <2>1
  <2>4. \A k, m \in Person : k < m => place[k] < place[m]
    BY <2>3 DEF Person
  <2>5. \A k \in Person : list[k] = {place[k]}
    BY <2>3
  <2>6. \A a \in Person : \E k \in Person : place[k] = a
    BY <2>3
  <2> HIDE DEF place
  <2>7. EntriesAt(place, {}, list)
    BY <2>2, <2>3, <2>4, <2>5, <2>6 DEF EntriesAt
  <2>8. Apart({})
    BY DEF Apart
  <2> QED
    BY <2>1, <2>7, <2>8
<1>2. CASE phase = "merged"
  <2>1. /\ groups = Validated(GroupsFromVerdicts)
        /\ list = FlattenSeq([i \in Person |-> MergedEntry(groups, i)])
    BY <1>2 DEF PeopleInvariant
  <2>2. Apart(groups)
    BY <2>1, ValidatedApart DEF PeopleInvariant, WholeGroups
  <2>3. PICK place : EntriesAt(place, groups, list)
    BY <2>1, <2>2, MergeEntries
  <2>4. \A i \in DOMAIN list : (\E a \in Person : list[i] = {a}) \/ list[i] \in groups
    BY <2>3 DEF EntriesAt
  <2> QED
    BY <1>2, <2>1, <2>2, <2>3, <2>4
<1> QED
  BY <1>1, <1>2

\* Nobody is lost or listed twice, and the entries keep the order of their
\* first members.
THEOREM EveryoneListedOnce == PeopleSpec => []EveryoneOnce
<1>1. PeopleInvariant => EveryoneOnce
  BY ListPlaced, PlacesList
<1> QED
  BY <1>1, PeopleListed, PTL

\* A group that validation keeps is a component in which every pair was judged
\* and none was called different people.
LEMMA ValidatedJudged ==
  ASSUME NEW g \in Validated(GroupsFromVerdicts)
  PROVE  g \in Components /\ \A p \in kSubset(2, g) : p \in Answered \ CalledDifferent
<1>1. g \in Components /\ ~Contradictory(g) /\ ~Incomplete(g)
  BY DEF Validated, GroupsFromVerdicts
<1>2. \A p \in kSubset(2, g) : p \in Answered /\ p \subseteq g
  BY <1>1 DEF Incomplete, kSubset
<1> QED
  BY <1>1, <1>2 DEF Contradictory

\* One person is no pair.
LEMMA NoPairAlone ==
  ASSUME NEW a \in Person
  PROVE  kSubset(2, {a}) = {}
<1> SUFFICES ASSUME NEW p \in kSubset(2, {a}) PROVE FALSE
  OBVIOUS
<1>1. p # {} /\ p \subseteq {a} /\ \A b \in p : \E d \in p : d # b
  BY PairMembers
<1> QED
  BY <1>1

\* Two lines share an entry only if the model judged this very pair and did not
\* call it different people.
THEOREM MergesJudgedOnly == PeopleSpec => []OnlyJudgedMerges
<1>1. ASSUME PeopleInvariant, NEW i \in DOMAIN list, NEW p \in kSubset(2, list[i])
      PROVE  p \in Answered \ CalledDifferent
  <2>1. CASE \E a \in Person : list[i] = {a}
    BY <1>1, <2>1, NoPairAlone
  <2>2. CASE list[i] \in Validated(GroupsFromVerdicts)
    BY <1>1, <2>2, ValidatedJudged
  <2> QED
    BY <1>1, <2>1, <2>2, ListPlaced
<1>2. PeopleInvariant => OnlyJudgedMerges
  BY <1>1 DEF OnlyJudgedMerges
<1> QED
  BY <1>2, PeopleListed, PTL

\* A joint row that loses its links to two lines is in a group only by the link
\* to another joint row.
LEMMA TwiceLinkedGroup ==
  ASSUME offered \in SUBSET kSubset(2, Person), joint \in SUBSET Person,
         said \in [offered -> Seq(Verdict)],
         NEW g \in Validated(GroupsFromVerdicts),
         NEW a \in g \cap joint, LinkedTwice(a)
  PROVE  \E d \in (g \cap joint) \ {a} : "same" \in Range(said[{a, d}])
<1>1. g \in Components
  BY VerdictsGrouped, ValidatedJudged DEF Grouped, Answered
<1>2. PICK b \in Person \ joint, c \in Person \ joint : b # c /\ LinkedTo(a, b) /\ LinkedTo(a, c)
  BY DEF LinkedTwice
<1>3. a \in Ambiguous
  <2> DEFINE p == {a, b}
             q == {a, c}
  <2>1. p \in offered /\ q \in offered /\ a \in p \cap q /\ p # q
    BY <1>2 DEF LinkedTo
  <2>2. PICK i \in JointLinks(p), j \in JointLinks(q) : TRUE
    BY <1>2 DEF LinkedTo
  <2> HIDE DEF p, q
  <2>3. <<p, i>> # <<q, j>>
    BY <2>1
  <2> QED
    BY <2>1, <2>2, <2>3 DEF Ambiguous
<1>4. PICK q \in Edges : a \in q /\ q \subseteq g
  BY <1>1, VerdictsGrouped DEF Grouped
<1>5. q \in offered /\ PlainLinks(q) # {}
  BY <1>3, <1>4 DEF Edges
<1>6. PICK d \in q : d # a /\ q = {a, d}
  BY <1>4, <1>5, PairMembers
<1>7. PICK i \in DOMAIN said[q] : IsLink(q, said[q][i]) /\ ~IsJoint(q, said[q][i])
  BY <1>5 DEF PlainLinks
<1>8. said[q][i] = "same" /\ Cardinality(q \cap joint) # 1
  BY <1>7 DEF IsLink, IsJoint
<1>9. d \in joint
  <2> SUFFICES ASSUME d \notin joint PROVE FALSE
    OBVIOUS
  <2>1. q \cap joint = {a}
    BY <1>6
  <2> QED
    BY <1>8, <2>1, FS_Singleton
<1>10. "same" \in Range(said[q])
  BY <1>7, <1>8 DEF Range
<1> QED
  BY <1>4, <1>6, <1>9, <1>10

\* A joint row that is linked to two separate lines (groups_from_verdicts) is listed
\* alone or with another joint row it was called the same as.
THEOREM JointRowsOneLink == PeopleSpec => []OneLinkPerJointRow
<1>1. ASSUME PeopleInvariant, phase = "merged", NEW a \in joint, LinkedTwice(a),
             NEW i \in DOMAIN list, a \in list[i], list[i] # {a}
      PROVE  \E d \in (list[i] \cap joint) \ {a} : "same" \in Range(said[{a, d}])
  <2>1. list[i] \in Validated(GroupsFromVerdicts)
    <3>1. ~\E e \in Person : list[i] = {e}
      BY <1>1
    <3> QED
      BY <1>1, <3>1, ListPlaced
  <2>2. offered \in SUBSET kSubset(2, Person) /\ said \in [offered -> Seq(Verdict)]
    BY <1>1 DEF PeopleInvariant, PeopleTypeOK
  <2>3. joint \in SUBSET Person
    BY <1>1, PeopleConstants DEF PeopleInvariant, PeopleTypeOK
  <2>4. a \in list[i] \cap joint
    BY <1>1
  <2> QED
    BY <1>1, <2>1, <2>2, <2>3, <2>4, TwiceLinkedGroup
<1>2. PeopleInvariant => OneLinkPerJointRow
  BY <1>1 DEF OneLinkPerJointRow
<1> QED
  BY <1>2, PeopleListed, PTL

\* Without joint rows, two lines called the same are in one component, which
\* reaches no further than the links the model made.
LEMMA SameIsConnected ==
  ASSUME offered \in SUBSET kSubset(2, Person), said \in [offered -> Seq(Verdict)], joint = {},
         NEW p \in offered, "same" \in Range(said[p])
  PROVE  \E c \in Components : p \subseteq c /\ \A a \in p : c \subseteq Reach(a)
<1>1. ASSUME NEW q \in offered PROVE Cardinality(q \cap joint) = 0
  <2>1. q \cap joint = {}
    OBVIOUS
  <2> QED
    BY <2>1, FS_EmptySet
<1>2. \A q \in offered : \A v \in Verdict : IsLink(q, v) => v = "same" /\ ~IsJoint(q, v)
  BY <1>1 DEF IsLink, IsJoint
<1>3. \A q \in offered : JointLinks(q) = {}
  <2> SUFFICES ASSUME NEW q \in offered, NEW i \in JointLinks(q) PROVE FALSE
    OBVIOUS
  <2>1. said[q] \in Seq(Verdict) /\ i \in DOMAIN said[q]
    BY DEF JointLinks
  <2>2. said[q][i] \in Verdict
    BY <2>1
  <2> QED
    BY <1>2, <2>2 DEF JointLinks
<1>4. PlainLinks(p) # {}
  <2>1. PICK i \in DOMAIN said[p] : said[p][i] = "same"
    BY DEF Range
  <2>2. IsLink(p, "same") /\ ~IsJoint(p, "same")
    BY <1>1 DEF IsLink, IsJoint
  <2> QED
    BY <2>1, <2>2 DEF PlainLinks
<1>5. Edges = {q \in offered : PlainLinks(q) # {}}
  BY <1>3 DEF Edges
<1>6. Grouped(Edges, Components)
  BY VerdictsGrouped
<1>7. PICK c \in Components : p \subseteq c
  BY <1>4, <1>5, <1>6 DEF Grouped
<1>8. ASSUME NEW a \in p, NEW b \in c PROVE b \in Reach(a)
  <2>1. b \in Person
    BY <1>6 DEF Grouped
  <2>2. ASSUME NEW set \in SUBSET Person, a \in set, Closed(set) PROVE b \in set
    <3>1. \A q \in Edges : q \cap set # {} => q \subseteq set
      BY <1>5, <2>2 DEF Closed
    <3>2. c \cap set # {}
      BY <1>7, <1>8, <2>2
    <3>3. c \subseteq set
      BY <1>6, <3>1, <3>2 DEF Grouped
    <3> QED
      BY <3>3
  <2> QED
    BY <2>1, <2>2 DEF Reach
<1> QED
  BY <1>7, <1>8

\* A last-name group is listed whole or not at all, within the limit; and without
\* joint rows two lines called the same share an entry, unless some pair they are
\* connected to was called different people or was not judged.
THEOREM AgreedMergeComplete == PeopleSpec => []AgreedLinesMerge
<1>1. ASSUME PeopleInvariant, phase = "merged", joint = {},
             NEW p \in offered, "same" \in Range(said[p])
      PROVE  \/ \E i \in DOMAIN list : p \subseteq list[i]
             \/ \E a \in p : \E q \in kSubset(2, Reach(a)) : q \notin Answered \/ q \in CalledDifferent
  <2>1. offered \in SUBSET kSubset(2, Person) /\ said \in [offered -> Seq(Verdict)]
    BY <1>1 DEF PeopleInvariant, PeopleTypeOK
  <2>2. PICK c \in Components : p \subseteq c /\ \A a \in p : c \subseteq Reach(a)
    BY <1>1, <2>1, SameIsConnected
  <2>3. PICK a \in p : TRUE
    BY <2>1, PairMembers
  <2>4. /\ c \in SUBSET Person /\ \A d \in Components : c # d => c \cap d = {}
    BY <2>1, VerdictsGrouped DEF Grouped
  <2>5. CASE Contradictory(c)
    <3>1. PICK q \in CalledDifferent : q \subseteq c
      BY <2>5 DEF Contradictory
    <3>2. q \in kSubset(2, Reach(a))
      BY <2>1, <2>2, <3>1 DEF CalledDifferent, kSubset
    <3> QED
      BY <3>1, <3>2
  <2>6. CASE Incomplete(c)
    <3>1. PICK q \in kSubset(2, c) : q \notin Answered
      BY <2>6 DEF Incomplete
    <3>2. q \in kSubset(2, Reach(a))
      BY <2>2, <3>1 DEF kSubset
    <3> QED
      BY <3>1, <3>2
  <2>7. CASE ~Contradictory(c) /\ ~Incomplete(c)
    <3>1. c \in GroupsFromVerdicts
      BY <2>7 DEF GroupsFromVerdicts
    <3>2. Cardinality(c) >= 2
      <4>1. IsFiniteSet(c) /\ Cardinality(p) = 2
        BY <2>1, <2>4, PairsFinite, FS_Subset DEF kSubset
      <4> QED
        BY <2>2, <4>1, FS_Subset
    <3>3. c \in Validated(GroupsFromVerdicts)
      BY <2>4, <3>1, <3>2 DEF Validated, GroupsFromVerdicts
    <3>4. /\ groups = Validated(GroupsFromVerdicts)
          /\ list = FlattenSeq([i \in Person |-> MergedEntry(groups, i)])
      BY <1>1 DEF PeopleInvariant
    <3>5. PICK place : EntriesAt(place, groups, list)
      BY <2>1, <3>4, ValidatedApart, MergeEntries
    <3>6. PICK k \in DOMAIN list : list[k] = c
      <4>1. \E k \in 1 .. Len(list) : list[k] = c
        BY <3>3, <3>4, <3>5 DEF EntriesAt
      <4>2. list \in Seq(SUBSET Person)
        BY <3>5 DEF EntriesAt
      <4> QED
        BY <4>1, <4>2
    <3> QED
      BY <2>2, <3>6
  <2> QED
    BY <2>5, <2>6, <2>7
<1>2. PeopleInvariant => AgreedLinesMerge
  BY <1>1 DEF AgreedLinesMerge, PeopleInvariant, WholeGroups
<1> QED
  BY <1>2, PeopleListed, PTL

=============================================================================
