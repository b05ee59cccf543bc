---------------------------- MODULE AtomicCatalog ----------------------------
(***************************************************************************)
(* The atomic heuristics (src/heuristics/atomic.ts) and the sources their  *)
(* gates require (GATES, src/heuristics/atomic_eval.ts).  A heuristic is   *)
(* its id and its reasoning paths; of a path the role is kept, the one     *)
(* attribute the evaluation reads.  Titles, predicates, indicators and     *)
(* verdict contributions are prose.                                        *)
(***************************************************************************)
EXTENDS FiniteSets

Role == {"risk", "support", "mitigation", "quality", "synthesis", "context"}

\* family(...): a heuristic with reasoning paths of its own.
Family(id, roles) == [id |-> id, roles |-> roles]

\* heuristic(...) without reasoning paths: _synthetic_path_for gives it one,
\* under its own id and role.
Single(id, role) == [id |-> id, roles |-> [path \in {id} |-> role]]

-----------------------------------------------------------------------------
ResidentialTax == Single("residential_tax_subject", "context")
LienedResidential == Single("liened_residential_subject", "context")
BaseMortgage == Single("base_mortgage_or_refi_at_subject", "context")
Foreclosure == Single("foreclosure_or_distress_marker", "risk")
CompanyOwner == Single("company_or_trust_owner", "risk")

EvidenceQuality == Family("evidence_quality_and_synthesis",
  [stale_or_missing_mortgage_exposure    |-> "quality",
   missing_dates_confidence_discount     |-> "quality",
   same_person_name_variant_ambiguity    |-> "quality",
   malformed_address_equivalence         |-> "quality",
   unit_collapsed_address_ambiguity      |-> "quality",
   integrated_internal_occupancy_verdict |-> "synthesis"])

OwnerIdentity == Family("owner_identity_and_cross_source_context",
  [tax_owner_identity_present                   |-> "context",
   repeated_nonowner_cross_source_corroboration |-> "risk",
   unrelated_nonowner_legal_presence            |-> "risk",
   same_surname_family_household_context        |-> "mitigation",
   owner_present_plus_nonowner_renter_context   |-> "mitigation",
   portfolio_owner_with_nonowner_occupancy      |-> "risk"])

TaxMailing == Family("tax_mailing_situs_analysis",
  [tax_owner_mailing_matches_situs               |-> "support",
   tax_owner_mailing_differs_from_situs          |-> "risk",
   tax_mailing_subject_but_owner_legal_elsewhere |-> "risk"])

BaseAlignment == Family("base_subject_owner_alignment",
  [base_person_not_tax_owner_at_subject |-> "quality",
   owner_base_primary_at_subject        |-> "support"])

LoanTenure == Family("loan_tenure_subject_analysis",
  [loan_owner_claim_not_supported_by_tax |-> "risk",
   owner_loan_rent_conflict              |-> "quality",
   owner_loan_own_at_subject             |-> "support",
   nonowner_loan_renter_at_subject       |-> "risk",
   nonowner_loan_owner_claim_at_subject  |-> "risk"])

OwnerLoanElsewhere == Single("owner_loan_elsewhere", "risk")

DriveAddress == Family("drive_address_subject_analysis",
  [owner_drive_at_subject    |-> "support",
   owner_drive_elsewhere     |-> "risk",
   nonowner_drive_at_subject |-> "risk"])

AutoAddress == Family("auto_address_subject_analysis",
  [owner_auto_at_subject    |-> "support",
   owner_auto_elsewhere     |-> "risk",
   nonowner_auto_at_subject |-> "risk"])

LegalConflict == Single("owner_legal_records_conflict", "quality")
AutoOnlyDiscount == Single("auto_only_owner_elsewhere_discount", "mitigation")

TraceAddress == Family("trace_address_subject_analysis",
  [owner_trace_at_subject    |-> "support",
   owner_trace_elsewhere     |-> "risk",
   nonowner_trace_at_subject |-> "risk"])

UtilityOccupancy == Family("utility_subject_occupancy_analysis",
  [owner_utility_at_subject                    |-> "support",
   nonowner_utility_at_subject                 |-> "risk",
   multiple_nonowner_utility_names             |-> "risk",
   owner_utility_plus_nonowner_utility_context |-> "mitigation"])

UtilityOnlyDiscount == Single("utility_only_no_dates_discount", "quality")
TraceOnlyDiscount == Single("trace_only_presence_discount", "quality")
StrongerLegalElsewhere ==
  Single("auto_at_subject_but_stronger_legal_elsewhere", "quality")
SingleFamily == Single("single_family_clean_address_context", "support")

PortfolioComparison == Family("portfolio_primary_comparison_analysis",
  [owner_multiple_liened_residential_properties |-> "risk",
   owner_primary_comparison_elsewhere           |-> "risk"])

OwnerResCount == Single("tax_ownerrescount_portfolio_pattern", "risk")

ATOMIC_HEURISTICS ==
  {ResidentialTax, LienedResidential, BaseMortgage, Foreclosure, CompanyOwner,
   EvidenceQuality, OwnerIdentity, TaxMailing, BaseAlignment, LoanTenure,
   OwnerLoanElsewhere, DriveAddress, AutoAddress, LegalConflict,
   AutoOnlyDiscount, TraceAddress, UtilityOccupancy, UtilityOnlyDiscount,
   TraceOnlyDiscount, StrongerLegalElsewhere, SingleFamily,
   PortfolioComparison, OwnerResCount}

heuristic_ids == {h.id : h \in ATOMIC_HEURISTICS}

\* reasoning_path_ids, the synthetic ones included.
reasoning_path_ids == UNION {DOMAIN h.roles : h \in ATOMIC_HEURISTICS}

get_heuristic_by_id(id) == CHOOSE h \in ATOMIC_HEURISTICS : h.id = id

-----------------------------------------------------------------------------
SUBSTANTIVE_SOURCES == {"tax", "base", "loan", "drive", "auto", "trace", "utility"}
STRONG_OCCUPANCY_SOURCES == {"drive", "auto", "loan", "trace", "utility"}
STRONGER_THAN_UTILITY == {"drive", "auto", "loan", "trace"}
STRONGER_THAN_TRACE == {"drive", "auto", "loan", "utility"}

\* required_sources of GATES, by heuristic.
RequiredSources ==
  [h \in heuristic_ids |->
     CASE h \in {"base_subject_owner_alignment"} -> {"tax", "base"}
       [] h \in {"owner_loan_elsewhere"} -> {"loan", "tax"}
       [] h \in {"owner_legal_records_conflict"} -> {"drive", "auto"}
       [] h \in {"base_mortgage_or_refi_at_subject"} -> {"base"}
       [] h \in {"loan_tenure_subject_analysis"} -> {"loan"}
       [] h \in {"drive_address_subject_analysis"} -> {"drive"}
       [] h \in {"auto_address_subject_analysis",
                 "auto_only_owner_elsewhere_discount",
                 "auto_at_subject_but_stronger_legal_elsewhere"} -> {"auto"}
       [] h \in {"trace_address_subject_analysis",
                 "trace_only_presence_discount"} -> {"trace"}
       [] h \in {"utility_subject_occupancy_analysis",
                 "utility_only_no_dates_discount"} -> {"utility"}
       [] h \in {"evidence_quality_and_synthesis"} -> {}
       [] OTHER -> {"tax"}]
=============================================================================
