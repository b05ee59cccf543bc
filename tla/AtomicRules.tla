------------------------------ MODULE AtomicRules ------------------------------
(***************************************************************************)
(* The atomic evaluation of src/heuristics/atomic_eval.ts: which           *)
(* heuristics the gates let run, what every reasoning path finds in the    *)
(* evidence, and the case synthesis made of it.                            *)
(*                                                                         *)
(* A path's executor answers with an outcome: what it found, how strong    *)
(* that is and the rows it cites, the first few of those it found (_refs,  *)
(* _refs_multi).  Reasons and caveats are prose.                           *)
(***************************************************************************)
EXTENDS AddressEvidence, Functions

Outcome(verdict, strength, refs) ==
  [verdict |-> verdict, strength |-> strength, refs |-> refs]
No == Outcome("no", "none", {})
Unclear(refs) == Outcome("unclear", "none", refs)
When(found, strength, refs) ==
  IF found THEN Outcome("found", strength, refs) ELSE No

\* Citations: the first rows of one source, and of several listed in turn.
_refs(rows) == {r \in rows : Cardinality({q \in rows : Listed(q, r)}) < 5}
_refs_multi(rows) == {r \in rows : Cardinality({q \in rows : Listed(q, r)}) < 8}

\* A path that finds something when it finds a row, of one source or of several.
Rows(rows, strength) == When(rows # {}, strength, _refs(rows))
RowsOfMany(rows, strength) == When(rows # {}, strength, _refs_multi(rows))

\* _trigger: the status of a find is that of its path's role.  Without one the
\* path is inconclusive or not triggered.
Status(role, verdict) ==
  IF verdict = "unclear" THEN "inconclusive"
  ELSE IF verdict = "no" THEN "not_triggered"
  ELSE IF role \in {"context", "support"} THEN "context"
  ELSE IF role \in {"mitigation", "quality"} THEN role
  ELSE "triggered"

RoleOf ==
  [p \in reasoning_path_ids |->
     (CHOOSE h \in ATOMIC_HEURISTICS : p \in DOMAIN h.roles).roles[p]]

\* Rows of several sources.
From(e, sources) == UNION {e.rows[s] : s \in sources}
PersonSources == {"base", "loan", "drive", "auto", "trace", "utility"}
NoOwner(e) == e.owner_ids = {} /\ e.owner_name_keys = {}
Strangers(e, sources) == {r \in From(e, sources) : ~_is_owner_row(e, r)}
Owners(e, sources) == {r \in From(e, sources) : _is_owner_row(e, r)}
OwnerNames(e) == {r \in e.rows["utility"] : _is_owner_name_row(e, r)}
OtherNames(e) == {r \in e.rows["utility"] : ~_is_owner_name_row(e, r)}
OwnerLasts(e) == {n.last : n \in e.owner_name_keys} \ {""}

_owner_related_rows_by_id(e, source) == {r \in e.rows[source] : r.id \in e.owner_ids}
_owner_elsewhere_rows(e, sources) ==
  {r \in UNION {_owner_related_rows_by_id(e, s) : s \in sources} : Away(r.at)}
_portfolio_rows(e) == {r \in e.rows["tax"] : r.rescount >= 2}
_base_mortgage_present(r) == r.mortgage \in {"mortgage", "refinance"}
Renters(e) == {r \in Strangers(e, {"loan"}) : r.tenure = "rent"}
Liened(e) == {r \in e.rows["tax"] : r.residential /\ r.lien}

-----------------------------------------------------------------------------
(* Property paths. *)
_residential_tax_subject(e) == Rows({r \in e.rows["tax"] : r.residential}, "weak")
_liened_residential_subject(e) == Rows(Liened(e), "moderate")
_base_mortgage_or_refi_at_subject(e) ==
  Rows({r \in e.rows["base"] : _base_mortgage_present(r)}, "moderate")
_foreclosure_or_distress_marker(e) == Rows({r \in e.rows["tax"] : r.distress}, "weak")
_company_or_trust_owner(e) == Rows({r \in e.rows["tax"] : r.entity}, "weak")
_single_family_clean_address_context(e) ==
  Rows({r \in e.rows["tax"] : r.residential /\ ~r.condo}, "weak")
_tax_ownerrescount_portfolio_pattern(e) == Rows(_portfolio_rows(e), "weak")
_owner_multiple_liened_residential_properties(e) ==
  When(Cardinality(Liened(e)) >= 2, "moderate", _refs(Liened(e)))
_owner_primary_comparison_elsewhere(e) ==
  RowsOfMany(_owner_elsewhere_rows(e, {"drive", "auto"}), "moderate")

(* Identity and mailing paths. *)
_tax_owner_identity_present(e) ==
  IF NoOwner(e) THEN Unclear({}) ELSE Outcome("found", "weak", _refs(e.rows["tax"]))
_tax_owner_mailing_matches_situs(e) ==
  Rows({r \in e.rows["tax"] : r.mailing \in SubjectLine}, "weak")
_tax_owner_mailing_differs_from_situs(e) ==
  Rows({r \in e.rows["tax"] : Away(r.mailing)}, "moderate")

\* The first path is evaluated under this path's own role.
_tax_mailing_subject_but_owner_legal_elsewhere(e) ==
  LET role == RoleOf["tax_mailing_subject_but_owner_legal_elsewhere"]
  IN  IF Status(role, _tax_owner_mailing_matches_situs(e).verdict) # "context"
      THEN No
      ELSE RowsOfMany(_owner_elsewhere_rows(e, {"drive", "auto"}), "moderate")

_base_person_not_tax_owner_at_subject(e) == Rows(Strangers(e, {"base"}), "weak")
_owner_base_primary_at_subject(e) == Rows(Owners(e, {"base"}), "moderate")

_same_surname_family_household_context(e) ==
  RowsOfMany({r \in Strangers(e, PersonSources) : r.name.last \in OwnerLasts(e)}, "moderate")

\* Every person found in two sources has a list of citations of its own.
_repeated_nonowner_cross_source_corroboration(e) ==
  LET of(n) == {r \in Strangers(e, PersonSources) : r.name = n}
      repeated == {n \in {r.name : r \in Strangers(e, PersonSources)} \ {NoName} :
                     \E r, other \in of(n) : other.source # r.source}
  IN  When(repeated # {}, "strong", UNION {_refs_multi(of(n)) : n \in repeated})

_unrelated_nonowner_legal_presence(e) ==
  RowsOfMany({r \in Strangers(e, {"drive", "auto"}) :
          r.name.last # "" /\ r.name.last \notin OwnerLasts(e)}, "strong")

_owner_present_plus_nonowner_renter_context(e) ==
  When(/\ Owners(e, {"drive", "auto", "loan", "trace"}) # {} \/ OwnerNames(e) # {}
       /\ Renters(e) # {}, "moderate", {})

_portfolio_owner_with_nonowner_occupancy(e) ==
  When(/\ _portfolio_rows(e) # {}
       /\ Strangers(e, {"drive", "auto", "loan", "trace"}) # {},
       "moderate", _refs(_portfolio_rows(e)))

-----------------------------------------------------------------------------
(* Loan paths. *)
_loan_owner_claim_not_supported_by_tax(e) ==
  Rows({r \in Strangers(e, {"loan"}) : r.tenure = "own"}, "moderate")
_nonowner_loan_owner_claim_at_subject(e) == _loan_owner_claim_not_supported_by_tax(e)
_owner_loan_rent_conflict(e) ==
  Rows({r \in Owners(e, {"loan"}) : r.tenure = "rent"}, "weak")
_owner_loan_own_at_subject(e) ==
  Rows({r \in Owners(e, {"loan"}) : r.tenure = "own"}, "moderate")
_nonowner_loan_renter_at_subject(e) ==
  IF NoOwner(e) THEN Unclear(_refs(e.rows["loan"])) ELSE Rows(Renters(e), "strong")

\* A missing address counts as elsewhere.
_owner_loan_elsewhere(e) ==
  Rows({r \in _owner_related_rows_by_id(e, "loan") : r.at \notin SubjectLine}, "weak")

(* Address paths of one source. *)
SourceStrength(source) == IF source = "drive" THEN "strong" ELSE "moderate"
_owner_source_at_subject(e, source) == Rows(Owners(e, {source}), "moderate")
_owner_source_elsewhere(e, source) ==
  Rows({r \in _owner_related_rows_by_id(e, source) : Away(r.at)}, SourceStrength(source))
\* Nobody is a stranger beside an owner.
NoStrangerBesideOwner(e, source) ==
  IF NoOwner(e) THEN Unclear(_refs(e.rows[source]))
  ELSE IF Owners(e, {source}) # {} THEN No
  ELSE Rows(Strangers(e, {source}), SourceStrength(source))
_nonowner_source_at_subject(e, source) ==
  IF NoOwner(e) THEN Unclear(_refs(e.rows[source]))
                ELSE Rows(Strangers(e, {source}), SourceStrength(source))

_owner_legal_records_conflict(e) ==
  LET rows == {r \in Owners(e, {"drive", "auto"}) : r.at # NoAddress}
      lines == {IF r.at \in SubjectLine THEN "subject" ELSE r.at : r \in rows}
  IN  When(Cardinality(lines) >= 2, "moderate", _refs_multi(rows))

\* Here too under this path's own role.
_auto_only_owner_elsewhere_discount(e) ==
  LET role == RoleOf["auto_only_owner_elsewhere_discount"]
      owner_auto == _owner_source_elsewhere(e, "auto")
  IN  When(/\ Status(role, owner_auto.verdict) = "triggered"
           /\ _owner_elsewhere_rows(e, {"drive"}) = {}, "weak", owner_auto.refs)

\* A vehicle and a licence of one name, cited pair by pair: the first four.
_auto_at_subject_but_stronger_legal_elsewhere(e) ==
  LET pairs == {x \in e.rows["auto"] \X e.rows["drive"] :
                  /\ x[1].name # NoName /\ x[1].name = x[2].name
                  /\ x[2].at \notin SubjectLine}
      before(x, y) == Listed(x[1], y[1]) \/ (x[1] = y[1] /\ Listed(x[2], y[2]))
      cited == {y \in pairs : Cardinality({x \in pairs : before(x, y)}) < 4}
  IN  When(pairs # {}, "weak", {y[1] : y \in cited} \cup {y[2] : y \in cited})

(* Utility paths: utility rows are told apart by name alone. *)
_owner_utility_at_subject(e) == Rows(OwnerNames(e), "moderate")
_nonowner_utility_at_subject(e) == Rows(OtherNames(e), "moderate")
_multiple_nonowner_utility_names(e) ==
  When(Cardinality({r.name : r \in OtherNames(e)} \ {NoName}) >= 2, "weak",
       _refs(OtherNames(e)))
_owner_utility_plus_nonowner_utility_context(e) ==
  When(OwnerNames(e) # {} /\ OtherNames(e) # {}, "weak",
       _refs(OwnerNames(e)) \cup _refs(OtherNames(e)))

(* Quality paths. *)
Only(e, source, stronger) ==
  e.source_counts[source] > 0 /\ \A s \in stronger : e.source_counts[s] = 0
_utility_only_no_dates_discount(e) ==
  When(Only(e, "utility", STRONGER_THAN_UTILITY), "weak", _refs(e.rows["utility"]))
_trace_only_presence_discount(e) ==
  When(Only(e, "trace", STRONGER_THAN_TRACE), "weak", _refs(e.rows["trace"]))
_missing_dates_confidence_discount(e) ==
  When(e.source_counts["utility"] > 0 \/ e.source_counts["loan"] > 0, "weak", {})
_stale_or_missing_mortgage_exposure(e) ==
  When(/\ \A r \in e.rows["tax"] : ~r.lien
       /\ \A r \in e.rows["base"] : ~_base_mortgage_present(r), "weak", {})
_same_person_name_variant_ambiguity(e) ==
  LET rows == {r \in From(e, PersonSources \ {"utility"}) : r.id # NoId}
  IN  When(\E r, other \in rows : r.id = other.id /\ r.name # other.name, "weak", {})
_malformed_address_equivalence(e) == When(~e.numbered, "weak", {})
_unit_collapsed_address_ambiguity(e) ==
  Rows({r \in e.rows["tax"] : r.condo}, "moderate")
_integrated_internal_occupancy_verdict(e) == Outcome("found", "weak", {})

PATH_EXECUTORS(e) ==
  [residential_tax_subject |-> _residential_tax_subject(e),
   liened_residential_subject |-> _liened_residential_subject(e),
   base_mortgage_or_refi_at_subject |-> _base_mortgage_or_refi_at_subject(e),
   foreclosure_or_distress_marker |-> _foreclosure_or_distress_marker(e),
   company_or_trust_owner |-> _company_or_trust_owner(e),
   tax_owner_identity_present |-> _tax_owner_identity_present(e),
   same_surname_family_household_context |-> _same_surname_family_household_context(e),
   repeated_nonowner_cross_source_corroboration |->
     _repeated_nonowner_cross_source_corroboration(e),
   unrelated_nonowner_legal_presence |-> _unrelated_nonowner_legal_presence(e),
   owner_present_plus_nonowner_renter_context |->
     _owner_present_plus_nonowner_renter_context(e),
   portfolio_owner_with_nonowner_occupancy |-> _portfolio_owner_with_nonowner_occupancy(e),
   tax_owner_mailing_matches_situs |-> _tax_owner_mailing_matches_situs(e),
   tax_owner_mailing_differs_from_situs |-> _tax_owner_mailing_differs_from_situs(e),
   tax_mailing_subject_but_owner_legal_elsewhere |->
     _tax_mailing_subject_but_owner_legal_elsewhere(e),
   base_person_not_tax_owner_at_subject |-> _base_person_not_tax_owner_at_subject(e),
   owner_base_primary_at_subject |-> _owner_base_primary_at_subject(e),
   loan_owner_claim_not_supported_by_tax |-> _loan_owner_claim_not_supported_by_tax(e),
   owner_loan_rent_conflict |-> _owner_loan_rent_conflict(e),
   owner_loan_own_at_subject |-> _owner_loan_own_at_subject(e),
   nonowner_loan_renter_at_subject |-> _nonowner_loan_renter_at_subject(e),
   nonowner_loan_owner_claim_at_subject |-> _nonowner_loan_owner_claim_at_subject(e),
   owner_loan_elsewhere |-> _owner_loan_elsewhere(e),
   owner_drive_at_subject |-> _owner_source_at_subject(e, "drive"),
   owner_drive_elsewhere |-> _owner_source_elsewhere(e, "drive"),
   nonowner_drive_at_subject |-> _nonowner_source_at_subject(e, "drive"),
   owner_auto_at_subject |-> _owner_source_at_subject(e, "auto"),
   owner_auto_elsewhere |-> _owner_source_elsewhere(e, "auto"),
   nonowner_auto_at_subject |-> _nonowner_source_at_subject(e, "auto"),
   owner_legal_records_conflict |-> _owner_legal_records_conflict(e),
   auto_only_owner_elsewhere_discount |-> _auto_only_owner_elsewhere_discount(e),
   owner_trace_at_subject |-> _owner_source_at_subject(e, "trace"),
   owner_trace_elsewhere |-> _owner_source_elsewhere(e, "trace"),
   nonowner_trace_at_subject |-> _nonowner_source_at_subject(e, "trace"),
   owner_utility_at_subject |-> _owner_utility_at_subject(e),
   nonowner_utility_at_subject |-> _nonowner_utility_at_subject(e),
   multiple_nonowner_utility_names |-> _multiple_nonowner_utility_names(e),
   owner_utility_plus_nonowner_utility_context |->
     _owner_utility_plus_nonowner_utility_context(e),
   utility_only_no_dates_discount |-> _utility_only_no_dates_discount(e),
   trace_only_presence_discount |-> _trace_only_presence_discount(e),
   auto_at_subject_but_stronger_legal_elsewhere |->
     _auto_at_subject_but_stronger_legal_elsewhere(e),
   single_family_clean_address_context |-> _single_family_clean_address_context(e),
   owner_multiple_liened_residential_properties |->
     _owner_multiple_liened_residential_properties(e),
   owner_primary_comparison_elsewhere |-> _owner_primary_comparison_elsewhere(e),
   tax_ownerrescount_portfolio_pattern |-> _tax_ownerrescount_portfolio_pattern(e),
   missing_dates_confidence_discount |-> _missing_dates_confidence_discount(e),
   stale_or_missing_mortgage_exposure |-> _stale_or_missing_mortgage_exposure(e),
   same_person_name_variant_ambiguity |-> _same_person_name_variant_ambiguity(e),
   malformed_address_equivalence |-> _malformed_address_equivalence(e),
   unit_collapsed_address_ambiguity |-> _unit_collapsed_address_ambiguity(e),
   integrated_internal_occupancy_verdict |-> _integrated_internal_occupancy_verdict(e)]
=============================================================================
