------------------------------ MODULE PacketRules ------------------------------
(***************************************************************************)
(* The packet layer over the atomic evaluation: the packets (packets.ts),  *)
(* their gates (packet_gates.ts), their evaluations (engine.ts) and the    *)
(* synthesis weighted by the reliability of the sources (policy.ts,        *)
(* synthesis.ts).  Scores are in hundredths, so that every weighted score  *)
(* is a whole number.                                                      *)
(***************************************************************************)
EXTENDS AtomicEvaluation

\* The heuristics of every packet.
PACKETS ==
  [property_tax_context |->
     {"residential_tax_subject", "liened_residential_subject",
      "base_mortgage_or_refi_at_subject", "foreclosure_or_distress_marker",
      "company_or_trust_owner", "single_family_clean_address_context",
      "tax_ownerrescount_portfolio_pattern"},
   owner_identity_and_mailing |->
     {"owner_identity_and_cross_source_context", "tax_mailing_situs_analysis",
      "base_subject_owner_alignment"},
   subject_occupancy_surfaces |->
     {"trace_address_subject_analysis", "utility_subject_occupancy_analysis",
      "utility_only_no_dates_discount", "trace_only_presence_discount"},
   legal_address_presence |->
     {"drive_address_subject_analysis", "auto_address_subject_analysis",
      "owner_legal_records_conflict", "auto_only_owner_elsewhere_discount",
      "auto_at_subject_but_stronger_legal_elsewhere"},
   loan_tenure |-> {"loan_tenure_subject_analysis", "owner_loan_elsewhere"},
   portfolio_and_primary_comparison |->
     {"portfolio_primary_comparison_analysis", "tax_ownerrescount_portfolio_pattern"},
   case_quality_and_synthesis |-> {"evidence_quality_and_synthesis"}]

packet_ids == DOMAIN PACKETS

-----------------------------------------------------------------------------
(* Field gates: which packets have the fields they need. *)

\* A row with a name and an address; a tax row with an owner.
_has_identity(r) == r.name # NoName
Usable(r) == _has_identity(r) /\ r.at # NoAddress
TaxIdentity(r) == r.owner # NoName \/ r.entity \/ (r.name.first # "" /\ r.name.last # "")

\* The gate's own list of mortgage fields: refiamountinthousands and
\* refilendername are not the fields the heuristic reads.
MortgageFields == {"mortgage", "purchase"}

\* The line is compared as text.
_row_address_differs_from_subject(r) == r.at # "subject"

_field_gate_property_tax_context(e) ==
  \/ \E r \in e.rows["tax"] :
       r.residential \/ r.condo \/ r.lien \/ r.distress \/ r.entity \/ r.described
         \/ r.rescount > 0
  \/ \E r \in e.rows["base"] : r.mortgage \in MortgageFields

_field_gate_owner_identity_and_mailing(e) ==
  /\ \E r \in e.rows["tax"] : TaxIdentity(r)
  /\ \/ \E r \in e.rows["tax"] : r.mailing # NoAddress
     \/ \E r \in e.rows["base"] : _has_identity(r)
     \/ \E r \in From(e, STRONG_OCCUPANCY_SOURCES) : Usable(r)
     \/ _has_hints(e)

_field_gate_subject_occupancy_surfaces(e) ==
  \E r \in From(e, {"trace", "utility"}) : Usable(r)

_field_gate_legal_address_presence(e) ==
  \E r \in From(e, {"drive", "auto"}) : Usable(r)

_field_gate_loan_tenure(e) ==
  /\ \E r \in e.rows["loan"] : Usable(r)
  /\ (\E r \in e.rows["loan"] : r.tenure # "") \/ (\E r \in e.rows["tax"] : TaxIdentity(r))

_field_gate_portfolio_and_primary_comparison(e) ==
  \/ \E r \in e.rows["tax"] : r.rescount > 1
  \/ e.owner_elsewhere_hints # {}
  \/ \E r \in From(e, {"base", "drive", "auto"}) :
       Usable(r) /\ _row_address_differs_from_subject(r)

_evaluate_packet_field_gate(packet, e) ==
  CASE packet = "property_tax_context" -> _field_gate_property_tax_context(e)
    [] packet = "owner_identity_and_mailing" -> _field_gate_owner_identity_and_mailing(e)
    [] packet = "subject_occupancy_surfaces" -> _field_gate_subject_occupancy_surfaces(e)
    [] packet = "legal_address_presence" -> _field_gate_legal_address_presence(e)
    [] packet = "loan_tenure" -> _field_gate_loan_tenure(e)
    [] packet = "portfolio_and_primary_comparison" ->
         _field_gate_portfolio_and_primary_comparison(e)

\* Judged by the counts.
NothingCounted(e) == \A s \in SUBSTANTIVE_SOURCES : e.source_counts[s] = 0
_has_no_row_payload(e) == \A s \in SUBSTANTIVE_SOURCES : e.rows[s] = {}

evaluate_packet_gate(packet, e, gates) ==
  IF packet = "case_quality_and_synthesis"
    THEN IF Counted(e, "tax") THEN "run" ELSE "run_for_absence"
  ELSE IF \/ _evaluate_packet_field_gate(packet, e)
          \/ /\ _has_no_row_payload(e)
             /\ \E id \in PACKETS[packet] : gates[id] = "run"
    THEN "run"
  ELSE "skip"

evaluate_packet_gates(e) ==
  LET gates == evaluate_gates(e)
  IN  [packet \in packet_ids |-> evaluate_packet_gate(packet, e, gates)]

\* _evaluate_packet: the packet's status and the paths it reports.
PacketPaths(report, packet) ==
  {p \in active_paths(report) : HeuristicOf[p] \in PACKETS[packet]}
_evaluate_packet(report, decision, packet) ==
  IF decision = "skip" THEN "skipped"
  ELSE IF PacketPaths(report, packet) # {} THEN "triggered"
  ELSE "inconclusive"

-----------------------------------------------------------------------------
(* Weighted synthesis. *)
SOURCE_RELIABILITY_WEIGHTS ==
  [tax |-> 125, loan |-> 105, auto |-> 90, drive |-> 75, utility |-> 75]
RANKED_SOURCE_ORDER == <<"tax", "loan", "auto", "drive", "utility">>

_source_rank(s) == CHOOSE i \in DOMAIN RANKED_SOURCE_ORDER : RANKED_SOURCE_ORDER[i] = s

\* The scored paths whose id contains the name of a source
\* (_SOURCE_TOKEN_BY_PATH).
PathsNaming ==
  [tax |-> {"tax_owner_mailing_differs_from_situs",
            "tax_mailing_subject_but_owner_legal_elsewhere",
            "tax_ownerrescount_portfolio_pattern",
            "loan_owner_claim_not_supported_by_tax"},
   loan |-> {"loan_owner_claim_not_supported_by_tax", "nonowner_loan_renter_at_subject",
             "nonowner_loan_owner_claim_at_subject", "owner_loan_elsewhere"},
   auto |-> {"owner_auto_elsewhere", "nonowner_auto_at_subject"},
   drive |-> {"owner_drive_elsewhere", "nonowner_drive_at_subject"},
   trace |-> {"owner_trace_elsewhere", "nonowner_trace_at_subject"},
   utility |-> {"nonowner_utility_at_subject", "multiple_nonowner_utility_names"}]

_path_sources(report, p) ==
  {r.source : r \in report.paths[p].refs} \cup
  {s \in DOMAIN PathsNaming : p \in PathsNaming[s]}

\* The best ranked source of a path, if it has a ranked one.
Ranked(report, p) == _path_sources(report, p) \cap DOMAIN SOURCE_RELIABILITY_WEIGHTS
WeakestSource(report, p) ==
  CHOOSE s \in Ranked(report, p) :
    \A other \in Ranked(report, p) : _source_rank(s) >= _source_rank(other)
applied_source(report, p) ==
  CHOOSE s \in Ranked(report, p) :
    \A other \in Ranked(report, p) : _source_rank(s) <= _source_rank(other)

weighted_score(report, p) ==
  IF Ranked(report, p) = {} THEN 0
  ELSE _path_weight(report, p) * SOURCE_RELIABILITY_WEIGHTS[applied_source(report, p)]

Scored(report) == {p \in DOMAIN report.paths : _path_weight(report, p) > 0}
weighted_signal_score(report) ==
  SumFunction([p \in Scored(report) |-> weighted_score(report, p)])
dominant_sources(report) ==
  {applied_source(report, p) : p \in {q \in Scored(report) : Ranked(report, q) # {}}}

SomeLowerTier(report) == dominant_sources(report) \cap {"drive", "utility"} # {}
_lower_tier_nonowner_only(report) ==
  dominant_sources(report) # {} /\ dominant_sources(report) \subseteq {"drive", "utility"}

\* The active paths of the synthesis.
_has_family_rental_context(active) ==
  /\ "same_surname_family_household_context" \in active
  /\ {"nonowner_loan_renter_at_subject", "nonowner_drive_at_subject"} \cap active # {}

_has_clear_absentee_context(active) ==
  \/ {"owner_drive_elsewhere", "nonowner_drive_at_subject"} \subseteq active
  \/ /\ {"owner_drive_elsewhere", "owner_auto_elsewhere",
         "tax_owner_mailing_differs_from_situs"} \cap active # {}
     /\ {"nonowner_drive_at_subject", "nonowner_loan_renter_at_subject",
         "unrelated_nonowner_legal_presence"} \cap active # {}

_has_owner_present_context(active) ==
  {"owner_drive_at_subject", "owner_auto_at_subject", "owner_loan_own_at_subject",
   "owner_utility_at_subject", "owner_trace_at_subject",
   "tax_owner_mailing_matches_situs", "owner_base_primary_at_subject"} \cap active # {}

_owner_present_dominates(active) ==
  /\ _has_owner_present_context(active)
  /\ {"owner_drive_elsewhere", "nonowner_drive_at_subject",
      "nonowner_loan_renter_at_subject",
      "unrelated_nonowner_legal_presence"} \cap active = {}

_has_owner_present_rental_context(active) ==
  {"owner_present_plus_nonowner_renter_context",
   "owner_utility_plus_nonowner_utility_context"} \cap active # {}

_has_absentee_owner_context(active) ==
  {"owner_drive_elsewhere", "owner_auto_elsewhere", "owner_loan_elsewhere",
   "owner_trace_elsewhere", "tax_owner_mailing_differs_from_situs",
   "tax_mailing_subject_but_owner_legal_elsewhere",
   "owner_primary_comparison_elsewhere"} \cap active # {}

_has_strong_rental_use_context(active) ==
  {"nonowner_drive_at_subject", "nonowner_auto_at_subject",
   "nonowner_loan_renter_at_subject", "unrelated_nonowner_legal_presence",
   "repeated_nonowner_cross_source_corroboration"} \cap active # {}

_has_non_rental_absentee_context(active) ==
  /\ _has_absentee_owner_context(active)
  /\ ~_has_owner_present_context(active)
  /\ ~_has_strong_rental_use_context(active)

_has_nonowner_occupancy(active) == AnyNonowner \cap active # {}

_weighted_archetype(active, e) ==
  IF ~Counted(e, "tax") THEN "insufficient_ownership_data"
  ELSE IF _has_family_rental_context(active) THEN "family_household_rental"
  ELSE IF _has_clear_absentee_context(active) /\ ~_owner_present_dominates(active)
    THEN "clear_absentee_rental"
  ELSE IF _has_owner_present_rental_context(active)
    THEN "owner_present_with_rental_indicators"
  ELSE IF _has_non_rental_absentee_context(active) THEN "non_rental_absentee_owner"
  ELSE IF _has_nonowner_occupancy(active) THEN "ambiguous_nonowner_occupancy"
  ELSE IF _has_owner_present_context(active) THEN "low_evidence_owner_occupied"
  ELSE "mixed_evidence"

_weighted_band(score, archetype, report) ==
  IF ManualFlags \cap active_paths(report) # {} THEN "manual_verification"
  ELSE IF _lower_tier_nonowner_only(report)
    THEN IF score >= 200 THEN "monitor" ELSE "low_evidence"
  ELSE IF score >= 800 /\ archetype = "clear_absentee_rental" THEN "high_priority_review"
  ELSE IF score >= 500 THEN "review"
  ELSE IF score >= 200 THEN "monitor"
  ELSE "low_evidence"

weighted_synthesis(e, report) ==
  LET score == weighted_signal_score(report)
      archetype == _weighted_archetype(active_paths(report), e)
  IN  [score |-> score, archetype |-> archetype,
       band |-> _weighted_band(score, archetype, report)]
=============================================================================
