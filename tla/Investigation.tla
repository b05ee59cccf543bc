---------------------------- MODULE Investigation ---------------------------
(***************************************************************************)
(* The pipeline of one investigation (AgentOrchestrator._investigate,      *)
(* src/agents/orchestrator.ts): preflight, planning, workers,              *)
(* adjudication and report, with the same-person call running beside it,   *)
(* the client's cancellation and the models' failures.  The workers are    *)
(* those of module WorkerPool, on the buckets a plan of module Planning    *)
(* left; the cancellation flag is the same for both.                       *)
(***************************************************************************)
EXTENDS Integers, Sequences, FiniteSets

CONSTANTS
  MaxOutputRetries,  \* max_output_retries of the request
  PreflightBudget,   \* max_calls of the preflight's client: 2
  Packet, Heuristics, Bucket, MaxConcurrency, Label(_)  \* as in WorkerPool

VARIABLES
  phase,
  master,       \* the master model: "none", "plain" without tools, "tools"
  calls,        \* data calls of the preflight's client
  lost,         \* what the preflight went without: {"people", "schema"}
  failing,      \* what the data service failed to answer: {"people", "schema"}
  pairCall,     \* same_person_call: "none", "asking", "settled"
  pairGroups,   \* what it settled with: "none", "groups"
  aborted,      \* same_person_abort has fired
  late,         \* the report did not wait for the call
  applied,      \* the groups in the report: "none", "groups"
  attempt,      \* adjudication calls made
  adjudication, \* "none", "model", "fallback"
  cancelledIn,  \* the phase should_cancel() turned true in, or "never"
  failure,      \* why the investigation rejected
  cancelled, permits, waiters, worker, active, launched, results, collected,
  report        \* the workers, as in WorkerPool

preflight == <<calls, lost, failing>>
pair == <<pairCall, pairGroups, aborted, late, applied>>
verdict == <<attempt, adjudication>>
workers == <<permits, waiters, worker, active, launched, results, collected, report>>
flag == <<cancelled, cancelledIn>>
vars == <<phase, master, preflight, pair, verdict, flag, failure, workers>>

Pool == INSTANCE WorkerPool

ASSUME InvestigationConstants ==
  /\ MaxOutputRetries \in Nat
  /\ PreflightBudget \in Nat /\ PreflightBudget >= 2
  /\ Pool!PoolConstants

Running == {"resolving", "people", "schema", "context", "planning", "planned",
            "workers", "scoring", "adjudicating", "adjudicated"}
Ended == {"reported", "failed"}

InvestigationTypeOK ==
  /\ Pool!PoolTypeOK
  /\ phase \in Running \cup Ended
  /\ master \in {"none", "plain", "tools"}
  /\ calls \in 0 .. PreflightBudget
  /\ lost \subseteq {"people", "schema"} /\ failing \subseteq {"people", "schema"}
  /\ pairCall \in {"none", "asking", "settled"}
  /\ pairGroups \in {"none", "groups"} /\ applied \in {"none", "groups"}
  /\ aborted \in BOOLEAN /\ late \in BOOLEAN
  /\ attempt \in 0 .. MaxOutputRetries + 1
  /\ adjudication \in {"none", "model", "fallback"}
  /\ cancelledIn \in Running \cup {"never"}
  /\ failure \in {"none", "resolve", "unknown_packet", "cancelled"}

Init ==
  /\ Pool!Init
  /\ phase = "resolving"
  /\ master \in {"none", "plain", "tools"}
  /\ calls = 0 /\ lost = {} /\ failing = {}
  /\ pairCall = "none" /\ pairGroups = "none"
  /\ aborted = FALSE /\ late = FALSE /\ applied = "none"
  /\ attempt = 0 /\ adjudication = "none"
  /\ cancelledIn = "never" /\ failure = "none"

Fail(why) == phase' = "failed" /\ failure' = why

-----------------------------------------------------------------------------
(* preflight: a budget of two data calls.  Only resolve can fail it: the    *)
(* service failed or knows no such address.                                *)

\* The schema is fetched in the "tools" retrieval mode only.
AfterPeople == {"schema", "context"}

Spend == calls' = IF calls < PreflightBudget THEN calls + 1 ELSE calls

\* A preflight step that goes on without what it could not get.
Without(what, ok, withinBudget) ==
  /\ failing' = IF ok THEN failing ELSE failing \cup {what}
  /\ lost' = IF ok /\ withinBudget THEN lost ELSE lost \cup {what}

Resolve ==
  /\ phase = "resolving"
  /\ Spend
  /\ \/ phase' \in {"people"} \cup AfterPeople /\ UNCHANGED failure  \* selected or not
     \/ Fail("resolve")
  /\ UNCHANGED <<master, lost, failing, pair, verdict, flag, workers>>

\* address_people of the selected candidate, never fatal.
People(ok) ==
  /\ phase = "people"
  /\ phase' \in AfterPeople
  /\ Spend
  /\ Without("people", ok, calls < PreflightBudget)
  /\ UNCHANGED <<master, pair, verdict, flag, failure, workers>>

\* The schema paid out of the preflight's data calls.
SchemaOnBudget(ok) ==
  /\ phase = "schema"
  /\ phase' = "context"
  /\ Spend
  /\ Without("schema", ok, calls < PreflightBudget)
  /\ UNCHANGED <<master, pair, verdict, flag, failure, workers>>

\* The curated schema, on a counter of its own, never fatal.
Schema(ok) ==
  /\ phase = "schema"
  /\ phase' = "context"
  /\ Without("schema", ok, TRUE)
  /\ UNCHANGED <<master, calls, pair, verdict, flag, failure, workers>>

-----------------------------------------------------------------------------
(* The same-person call: started once the context is there, if there is a  *)
(* master model and a pair of people to judge.                             *)

\* The call is under way when selected_heuristics rejects an unknown id.  The
\* preflight's client is forgotten.
StartPlanning ==
  /\ phase = "context"
  /\ pairCall' \in IF master = "none" THEN {"none"} ELSE {"none", "asking"}
  /\ \/ phase' = "planning" /\ UNCHANGED failure
     \/ Fail("unknown_packet")
  /\ calls' = 0 /\ lost' = {} /\ failing' = {}
  /\ UNCHANGED <<master, pairGroups, aborted, late, applied, verdict, flag, workers>>

\* resolve_same_person never rejects: an error, a malformed answer, the 30 s
\* timer and the abort all settle it without groups, as does a model that has
\* no tools.
PairCallSettles(groups) ==
  /\ pairCall = "asking"
  /\ master = "plain" => groups = "none"
  /\ pairCall' = "settled"
  /\ pairGroups' = groups
  /\ UNCHANGED <<phase, master, preflight, aborted, late, applied, verdict, flag,
                 failure, workers>>

-----------------------------------------------------------------------------
(* The phases, and the checks between them. *)

\* The planner's call returned or failed; either way there is a plan.
PlanReady ==
  /\ phase = "planning"
  /\ phase' = "planned"
  /\ UNCHANGED <<master, preflight, pair, verdict, flag, failure, workers>>

\* _ensure_not_cancelled
Check(from, to) ==
  /\ phase = from
  /\ \/ cancelled /\ Fail("cancelled")
     \/ ~cancelled /\ phase' = to /\ UNCHANGED failure
  /\ UNCHANGED <<master, preflight, pair, verdict, flag, workers>>

LaunchWorkers == Check("planned", "workers")

Beside == UNCHANGED <<master, preflight, pair, verdict, cancelledIn, failure>>

WorkersStep ==
  /\ phase = "workers"
  /\ Pool!Work
  /\ UNCHANGED phase /\ Beside

WorkersReturn ==
  /\ phase = "workers"
  /\ Pool!Collect
  /\ phase' = "scoring" /\ Beside

\* A worker that timed out outlives the workers' phase, and the report.
AbandonedWorker ==
  /\ \E b \in DOMAIN Bucket : Pool!Abandoned(b)
  /\ UNCHANGED phase /\ Beside

\* Scored results are adjudicated at once.
ScoreUnchecked ==
  /\ phase = "scoring"
  /\ phase' = "adjudicating"
  /\ UNCHANGED <<master, preflight, pair, verdict, flag, failure, workers>>

Score == Check("scoring", "adjudicating")

Adjudicated(by) == phase' = "adjudicated" /\ adjudication' = by

AdjudicateWithoutModel ==
  /\ phase = "adjudicating" /\ master # "tools"
  /\ Adjudicated("fallback")
  /\ UNCHANGED <<master, preflight, pair, attempt, flag, failure, workers>>

\* A provider error is rethrown to the caller of the investigation.
AdjudicateThrowing(outcome) ==
  /\ phase = "adjudicating" /\ master = "tools"
  /\ attempt' = attempt + 1
  /\ \/ outcome = "valid" /\ Adjudicated("model") /\ UNCHANGED failure
     \/ outcome = "thrown" /\ Fail("resolve") /\ UNCHANGED adjudication
     \/ /\ outcome = "invalid"
        /\ IF attempt >= MaxOutputRetries
           THEN Adjudicated("fallback") ELSE UNCHANGED <<phase, adjudication>>
        /\ UNCHANGED failure
  /\ UNCHANGED <<master, preflight, pair, flag, workers>>

\* One call: a valid adjudication, an answer to correct (retried while the
\* budget lasts), or a provider error, which ends it at once.
Adjudicate(outcome) ==
  /\ phase = "adjudicating" /\ master = "tools"
  /\ attempt' = attempt + 1
  /\ \/ outcome = "valid" /\ Adjudicated("model")
     \/ outcome = "thrown" /\ Adjudicated("fallback")
     \/ /\ outcome = "invalid"
        /\ IF attempt >= MaxOutputRetries
           THEN Adjudicated("fallback") ELSE UNCHANGED <<phase, adjudication>>
  /\ UNCHANGED <<master, preflight, pair, flag, failure, workers>>

\* The call settled, or there was none: its groups go into the report.
Report ==
  /\ phase = "adjudicated" /\ pairCall # "asking"
  /\ phase' = "reported"
  /\ applied' = pairGroups
  /\ UNCHANGED <<master, preflight, pairCall, pairGroups, aborted, late, verdict, flag,
                 failure, workers>>

\* The report goes out and the call is left to itself.
ReportLateLeavingCall ==
  /\ phase = "adjudicated" /\ pairCall = "asking"
  /\ phase' = "reported"
  /\ late' = TRUE
  /\ UNCHANGED <<master, preflight, pairCall, pairGroups, aborted, applied, verdict, flag,
                 failure, workers>>

\* No timer beside the call.
ReportLateNever == FALSE /\ UNCHANGED vars

\* The grace timer wins the race: the call is aborted and its groups are not
\* waited for.
ReportLate ==
  /\ phase = "adjudicated" /\ pairCall = "asking"
  /\ phase' = "reported"
  /\ late' = TRUE /\ aborted' = TRUE
  /\ UNCHANGED <<master, preflight, pairCall, pairGroups, applied, verdict, flag,
                 failure, workers>>

\* The client's abort, at any time.
Cancel ==
  /\ phase \in Running
  /\ Pool!Cancel
  /\ cancelledIn' = phase
  /\ UNCHANGED <<phase, master, preflight, pair, verdict, failure>>

Pipeline ==
  \/ Resolve
  \/ \E ok \in BOOLEAN : People(ok) \/ Schema(ok)
  \/ StartPlanning \/ PlanReady \/ LaunchWorkers
  \/ WorkersReturn \/ Score
  \/ AdjudicateWithoutModel
  \/ \E outcome \in {"valid", "invalid", "thrown"} : Adjudicate(outcome)
  \/ Report

Next ==
  \/ Pipeline
  \/ ReportLate
  \/ WorkersStep \/ AbandonedWorker
  \/ \E groups \in {"none", "groups"} : PairCallSettles(groups)
  \/ Cancel

Spec == Init /\ [][Next]_vars

\* The planner's or the adjudicator's call is under way.
AwaitingMaster == master = "tools" /\ phase \in {"planning", "adjudicating"}

\* The pipeline's other awaits return: data calls have a timeout; a granted
\* worker goes on and its timer fires; the grace timer fires.  Nothing is
\* assumed of the master model, of the same-person call or of a subagent, which
\* may never settle.
FairSpec ==
  /\ Spec
  /\ WF_vars(~AwaitingMaster /\ Pipeline) /\ WF_vars(ReportLate)
  /\ \A b \in DOMAIN Bucket :
       /\ WF_vars(phase = "workers" /\ (Pool!Launch(b) \/ Pool!Skip(b)) /\ UNCHANGED phase /\ Beside)
       /\ WF_vars(phase = "workers" /\ Pool!Timeout(b) /\ UNCHANGED phase /\ Beside)

\* The master's calls settle.  A premise, since Gemini's carry no timeout.
MasterAnswers == WF_vars(AwaitingMaster /\ Pipeline)

-----------------------------------------------------------------------------
\* The investigation rejects for an address that does not resolve, a packet id
\* nobody knows or its client's cancellation; no failure of a model, of the
\* people list or of the schema costs the report, and the preflight's own budget
\* costs it neither of them.  A client that went away before the adjudication
\* gets no report, and its investigation makes no adjudication call.
FailsOnlyForCause ==
  /\ phase = "failed" =>
       \/ failure \in {"resolve", "unknown_packet"} /\ attempt = 0
       \/ failure = "cancelled" /\ cancelled
  /\ phase = "reported" => adjudication # "none"
  /\ lost = failing
  /\ cancelledIn \in Running \ {"adjudicating", "adjudicated"} =>
       phase # "reported" /\ attempt = 0

\* Groups reach the report only from a call that settled in time, and a report
\* leaves no same-person call spending behind it.
PairCallSettledOrCut ==
  /\ applied = "groups" => ~late /\ ~aborted /\ pairCall = "settled"
  /\ phase = "reported" => pairCall # "asking" \/ aborted

\* An investigation that does not end waits for its master model and for nobody
\* else, even if the same-person call never answers and subagents hang; if the
\* master's calls settle, it ends.
InvestigationEnds ==
  /\ []<>(phase \in Ended \/ AwaitingMaster)
  /\ MasterAnswers => <>(phase \in Ended)

\* The properties of WorkerPool, in this composition.
PermitsConserved == InvestigationTypeOK /\ Pool!PermitsConserved
EveryPacketReported == Pool!EveryPacketReported

=============================================================================
