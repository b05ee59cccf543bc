--------------------------- MODULE HeuristicAgent ---------------------------
(***************************************************************************)
(* One heuristic worker's conversation with the model: run and run_group   *)
(* of src/agents/subagents.ts, over the packets of a bucket.  A turn is a  *)
(* model response, no tool call or several, handled one after the other.   *)
(* A bucket of one is a solo run, which returns its first accepted         *)
(* submission and throws where a group fills in error results.             *)
(***************************************************************************)
EXTENDS Integers, FiniteSets, Sequences

CONSTANTS
  Packet,            \* heuristic ids
  Unknown,           \* an id that is no heuristic's
  MaxDataCalls, SchemaBudget, MaxOutputRetries, MaxRepairs,  \* of the request
  MaxCallsPerTurn    \* bound: tool calls in one response

ASSUME AgentConstants ==
  /\ IsFiniteSet(Packet) /\ Packet # {}
  /\ Unknown \notin Packet
  /\ {MaxDataCalls, SchemaBudget, MaxOutputRetries, MaxRepairs} \subseteq Nat
  /\ MaxCallsPerTurn \in Nat \ {0}

VARIABLES
  bucket,     \* the packets of the worker
  state,      \* "asking" the model, "handling" its calls, "done" or "threw"
  cancelled,  \* what should_cancel() answers
  turn,       \* turns taken
  todo,       \* tool calls of the response still to handle
  pending,    \* packets without an accepted submission
  result,     \* what a packet was answered
  failures,   \* output_validation_failures of the shared diagnostics
  silent      \* raw_model_failures of the shared diagnostics

diagnostics == <<failures, silent>>
vars == <<bucket, state, cancelled, turn, todo, pending, result, diagnostics>>

Solo == Cardinality(bucket) = 1

\* The turn budget, scaled with the size of a group.
MaxTurns ==
  MaxDataCalls + SchemaBudget + MaxRepairs + 4
    + IF Solo THEN MaxOutputRetries ELSE (MaxOutputRetries + 2) * Cardinality(bucket)

\* A payload of a submission: valid; invalid for want of evidence, so that
\* _coerce_status_to_valid makes it valid; or invalid beyond that.
Payload == {"valid", "uncited", "malformed"}
Fetching == [packet |-> Unknown, payload |-> "fetch"]
ToolCall == [packet : Packet \cup {Unknown}, payload : Payload] \cup {Fetching}

AgentTypeOK ==
  /\ bucket \in (SUBSET Packet) \ {{}}
  /\ state \in {"asking", "handling", "done", "threw"}
  /\ cancelled \in BOOLEAN
  /\ turn \in 0 .. MaxTurns
  /\ todo \in Seq(ToolCall)
  /\ pending \in SUBSET bucket
  /\ result \in [bucket -> {"none", "finding", "demoted", "error"}]
  /\ failures \in Nat
  /\ silent \in 0 .. MaxOutputRetries + 1

Init ==
  /\ bucket \in (SUBSET Packet) \ {{}}
  /\ state = "asking"
  /\ cancelled = FALSE
  /\ turn = 0
  /\ todo = <<>>
  /\ pending = bucket
  /\ result = [p \in bucket |-> "none"]
  /\ failures = 0
  /\ silent = 0

-----------------------------------------------------------------------------
\* No fill after the loop.
FillNothing(res) == res

\* The packets already collected are kept, only the rest is error-filled.
Fill(res) == [p \in bucket |-> IF res[p] = "none" THEN "error" ELSE res[p]]

\* The loop ends: a group fills in the missing results.
Leave ==
  /\ state' = IF Solo THEN "threw" ELSE "done"
  /\ result' = IF Solo THEN result ELSE Fill(result)
  /\ todo' = <<>>
  /\ UNCHANGED <<cancelled, pending>>

\* A loop that counts only the turns without a tool call.
AskUncounted(calls) ==
  /\ state = "asking" /\ turn < MaxTurns /\ ~cancelled
  /\ todo' = calls
  /\ state' = "handling"
  /\ UNCHANGED <<cancelled, turn, pending, result, diagnostics>>

\* The model answers with tool calls.
Ask(calls) ==
  /\ state = "asking" /\ turn < MaxTurns /\ ~cancelled
  /\ turn' = turn + 1
  /\ todo' = calls
  /\ state' = "handling"
  /\ UNCHANGED <<cancelled, pending, result, diagnostics>>

\* The model answers without a tool call: reminded, or given up on.
Silence ==
  /\ state = "asking" /\ turn < MaxTurns /\ ~cancelled
  /\ turn' = turn + 1
  /\ silent' = silent + 1
  /\ UNCHANGED failures
  /\ IF silent' > MaxOutputRetries THEN Leave
     ELSE UNCHANGED <<state, cancelled, todo, pending, result>>

\* The model call fails, or the flag is found set, or the turns are spent.
GiveUp ==
  /\ state = "asking"
  /\ Leave
  /\ UNCHANGED <<turn, diagnostics>>

-----------------------------------------------------------------------------
\* After a call: the next one, or the next turn if packets are pending.
NextCall(left) ==
  /\ todo' = Tail(todo)
  /\ state' = IF Len(todo) > 1 THEN "handling"
              ELSE IF left = {} THEN "done" ELSE "asking"

Accept(p, as) ==
  /\ result' = [result EXCEPT ![p] = as]
  /\ pending' = pending \ {p}
  /\ IF Solo THEN state' = "done" /\ todo' = <<>> ELSE NextCall(pending \ {p})
  /\ UNCHANGED <<cancelled, turn>>

\* A fetch, or a group submission for a packet unknown or answered before: the
\* tool message says so and the loop goes on.
Fetch ==
  /\ state = "handling" /\ Head(todo) = Fetching
  /\ NextCall(pending)
  /\ UNCHANGED <<cancelled, turn, pending, result, diagnostics>>

\* An exception of a tool.
FetchThrows ==
  /\ state = "handling" /\ Head(todo) = Fetching
  /\ Leave
  /\ UNCHANGED <<turn, diagnostics>>

\* The id of a submission is only looked at in a group; a solo run files every
\* submission under its own packet.
TargetUnchecked(s) == IF Solo THEN bucket ELSE {s.packet} \cap bucket
Target(s) == IF Solo THEN bucket ELSE {s.packet} \cap pending

Misaddressed ==
  /\ state = "handling" /\ Head(todo) # Fetching
  /\ Target(Head(todo)) = {}
  /\ NextCall(pending)
  /\ UNCHANGED <<cancelled, turn, pending, result, diagnostics>>

SubmitValid ==
  /\ state = "handling" /\ Head(todo) # Fetching /\ Head(todo).payload = "valid"
  /\ \E p \in Target(Head(todo)) : Accept(p, "finding")
  /\ UNCHANGED diagnostics

\* An invalid submission within the retries is returned with instructions; past
\* them it is demoted to inconclusive, or thrown if that does not make it valid.
SubmitInvalid ==
  /\ state = "handling" /\ Head(todo) # Fetching /\ Head(todo).payload # "valid"
  /\ \E p \in Target(Head(todo)) :
       /\ failures' = failures + 1
       /\ \/ /\ failures' <= MaxOutputRetries
             /\ NextCall(pending)
             /\ UNCHANGED <<cancelled, turn, pending, result>>
          \/ /\ failures' > MaxOutputRetries
             /\ IF Head(todo).payload = "uncited" THEN Accept(p, "demoted")
                ELSE Leave /\ UNCHANGED turn
  /\ UNCHANGED silent

Cancel ==
  /\ ~cancelled /\ state \in {"asking", "handling"}
  /\ cancelled' = TRUE
  /\ UNCHANGED <<state, turn, todo, pending, result, diagnostics>>

Responses == UNION {[1 .. n -> ToolCall] : n \in 1 .. MaxCallsPerTurn}

Handle == Fetch \/ FetchThrows \/ Misaddressed \/ SubmitValid \/ SubmitInvalid

Turn == (\E calls \in Responses : Ask(calls)) \/ Silence \/ GiveUp

Next == (Turn \/ Handle \/ Cancel) /\ UNCHANGED bucket

Spec == Init /\ [][Next]_vars

\* The tool calls of a response are handled: the data calls carry a timeout.
\* Nothing is assumed of the model, and nobody need cancel.
FairSpec == Spec /\ WF_vars(Handle /\ UNCHANGED bucket)

\* The model's calls settle.  A premise, since Gemini's carry no timeout.
ModelAnswers == WF_vars(Turn /\ UNCHANGED bucket)

-----------------------------------------------------------------------------
\* A group always answers for every packet of its bucket, one result each, and
\* a solo run either answers or throws: no packet falls between the accepted
\* submissions, the pending set and the error fill.
EveryPacketAnswered ==
  /\ AgentTypeOK
  /\ state = "done" => \A p \in bucket : result[p] # "none"
  /\ state \in {"asking", "handling"} => pending = {p \in bucket : result[p] = "none"}

\* "keep packets already collected": an accepted submission is never replaced,
\* neither by a later one nor by what ends the conversation.
AcceptedIsKept ==
  [][\A p \in bucket : result[p] # "none" => result'[p] = result[p]]_vars

\* A conversation that does not end waits for an answer of the model: if each
\* comes, it ends, whatever the model keeps answering.
ConversationEnds ==
  /\ []<>(state # "handling")
  /\ ModelAnswers => <>(state \in {"done", "threw"})

=============================================================================
