--------------------------- MODULE AtomicEvaluation ---------------------------
(***************************************************************************)
(* evaluate_atomic_evidence of src/heuristics/atomic_eval.ts: the gates of *)
(* the heuristics, the evaluation of those that run, and the synthesis of  *)
(* the case.  A report says what the gates decided and, for every path of  *)
(* a heuristic that ran, its status, strength and cited rows.              *)
(***************************************************************************)
EXTENDS AtomicRules

Counted(e, source) == e.source_counts[source] > 0
AnyOf(e, sources) == \E s \in sources : Counted(e, s)

\* _owner_count and _hint_count (an evidence of the index has no freshness
\* hints).  Property types are "condo" alone: _has_portfolio_hint is left
\* with the count of owners.
_owner_count(e) == e.owner_summaries
_has_hints(e) ==
  e.owner_presence_hints \cup e.owner_elsewhere_hints \cup e.nonowner_occupancy_hints # {}
_has_portfolio_hint(e) == _owner_count(e) > 1

IdentityMissing(e) == ~Counted(e, "tax") \/ _owner_count(e) = 0

RunsForAbsence(id, e) ==
  \/ id = "evidence_quality_and_synthesis" /\ ~Counted(e, "tax")
  \/ id = "owner_identity_and_cross_source_context" /\ IdentityMissing(e)

\* A gate asks for the sources its heuristic requires (_gate_decision tests
\* them heuristic by heuristic) and some ask for more.
OwnerContextComparable(e) ==
  ~IdentityMissing(e) /\ (AnyOf(e, STRONG_OCCUPANCY_SOURCES) \/ _has_hints(e))
MoreThanTwoParcels(e) == e.source_counts["tax"] > 2
PortfolioContext(e) == e.source_counts["tax"] > 1 \/ _has_portfolio_hint(e)

Runs(id, e) ==
  /\ \A s \in RequiredSources[id] : Counted(e, s)
  /\ id = "evidence_quality_and_synthesis" => Counted(e, "tax")
  /\ id = "owner_identity_and_cross_source_context" => OwnerContextComparable(e)
  /\ id = "auto_only_owner_elsewhere_discount" => ~Counted(e, "drive")
  /\ id = "auto_at_subject_but_stronger_legal_elsewhere" => Counted(e, "drive")
  /\ id = "utility_only_no_dates_discount" => ~AnyOf(e, STRONGER_THAN_UTILITY)
  /\ id = "trace_only_presence_discount" => ~AnyOf(e, STRONGER_THAN_TRACE)
  /\ id = "portfolio_primary_comparison_analysis" => PortfolioContext(e)
  /\ id = "owner_loan_elsewhere" => _owner_count(e) > 0

_gate_decision(id, e) ==
  IF RunsForAbsence(id, e) THEN "run_for_absence"
  ELSE IF Runs(id, e) THEN "run" ELSE "skip"

-----------------------------------------------------------------------------
\* evaluate_gates, and the paths _evaluate_heuristic looks at.
evaluate_gates(e) == [id \in heuristic_ids |-> _gate_decision(id, e)]

HeuristicOf ==
  [p \in reasoning_path_ids |->
     (CHOOSE h \in ATOMIC_HEURISTICS : p \in DOMAIN h.roles).id]

Evaluated(gates, p) ==
  \/ gates[HeuristicOf[p]] = "run"
  \/ /\ gates[HeuristicOf[p]] = "run_for_absence"
     /\ RoleOf[p] \in {"quality", "synthesis", "context"}

_evaluate_path(p, outcome) ==
  [status |-> Status(RoleOf[p], outcome.verdict),
   strength |-> outcome.strength,
   refs |-> outcome.refs]

evaluate_atomic_evidence(e) ==
  LET gates == evaluate_gates(e)
      outcomes == PATH_EXECUTORS(e)
  IN  [gates |-> gates,
       paths |-> [p \in {q \in reasoning_path_ids : Evaluated(gates, q)} |->
                    _evaluate_path(p, outcomes[p])]]

\* What a report says of a heuristic (_rollup_status).
ACTIVE_STATUSES == {"triggered", "context", "mitigation", "quality"}
PathStatuses(report, id) ==
  {report.paths[p].status : p \in {q \in DOMAIN report.paths : HeuristicOf[q] = id}}
_rollup_status(report, id) ==
  LET seen == PathStatuses(report, id)
  IN  IF seen = {} THEN "skipped"
      ELSE IF "triggered" \in seen THEN "triggered"
      ELSE IF "mitigation" \in seen THEN "mitigation"
      ELSE IF "quality" \in seen THEN "quality"
      ELSE IF "context" \in seen THEN "context"
      ELSE IF "inconclusive" \in seen THEN "inconclusive"
      ELSE "not_triggered"

active_paths(report) ==
  {p \in DOMAIN report.paths : report.paths[p].status \in ACTIVE_STATUSES}

-----------------------------------------------------------------------------
(* _synthesize_case. *)
StrongAsModerate == [none |-> 0, weak |-> 1, moderate |-> 2, strong |-> 2]
weights == [none |-> 0, weak |-> 1, moderate |-> 2, strong |-> 3]

_path_weight(report, p) ==
  IF report.paths[p].status = "triggered" /\ RoleOf[p] = "risk"
  THEN weights[report.paths[p].strength] ELSE 0

raw_signal_score(report) ==
  SumFunction([p \in DOMAIN report.paths |-> _path_weight(report, p)])

ManualFlags == {"unit_collapsed_address_ambiguity", "malformed_address_equivalence"}
AnyNonowner ==
  {"nonowner_drive_at_subject", "nonowner_auto_at_subject",
   "nonowner_loan_renter_at_subject", "nonowner_utility_at_subject",
   "nonowner_trace_at_subject"}

case_archetype(e, active) ==
  IF ~Counted(e, "tax") THEN "insufficient_ownership_data"
  ELSE IF \/ {"owner_drive_elsewhere", "nonowner_drive_at_subject"} \cap active # {}
          \/ /\ {"owner_drive_elsewhere",
                 "tax_owner_mailing_differs_from_situs"} \cap active # {}
             /\ {"nonowner_loan_renter_at_subject",
                 "unrelated_nonowner_legal_presence"} \cap active # {}
    THEN "clear_absentee_rental"
  ELSE IF /\ "same_surname_family_household_context" \in active
          /\ {"nonowner_loan_renter_at_subject",
              "nonowner_drive_at_subject"} \cap active # {}
    THEN "family_household_rental"
  ELSE IF {"owner_present_plus_nonowner_renter_context",
           "owner_utility_plus_nonowner_utility_context"} \cap active # {}
    THEN "owner_present_with_rental_indicators"
  ELSE IF AnyNonowner \cap active # {} THEN "ambiguous_nonowner_occupancy"
  ELSE IF {"owner_drive_at_subject", "owner_utility_at_subject",
           "tax_owner_mailing_matches_situs"} \cap active # {}
    THEN "low_evidence_owner_occupied"
  ELSE "mixed_evidence"

verdict_band(score, archetype, active) ==
  IF ManualFlags \cap active # {} THEN "manual_verification"
  ELSE IF score >= 8 /\ archetype = "clear_absentee_rental" THEN "high_priority_review"
  ELSE IF score >= 5 THEN "review"
  ELSE IF score >= 2 THEN "monitor"
  ELSE "low_evidence"

_synthesize_case(e, report) ==
  LET score == raw_signal_score(report)
      active == active_paths(report)
      archetype == case_archetype(e, active)
  IN  [score |-> score, archetype |-> archetype,
       band |-> verdict_band(score, archetype, active)]
=============================================================================
