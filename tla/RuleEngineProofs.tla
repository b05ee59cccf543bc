---------------------------- MODULE RuleEngineProofs ----------------------------
(***************************************************************************)
(* What holds of every report of the rule engine, for any rows, people and *)
(* addresses.                                                              *)
(***************************************************************************)
EXTENDS RuleEngine, SequenceLemmas, FiniteSetTheorems, TLAPS

(* The report is always that of the rows the index holds: nothing of an    *)
(* earlier evaluation survives in it.                                      *)
Fresh ==
  /\ db \subseteq Candidates /\ IsFiniteSet(db)
  /\ query \in Queries
  /\ evidence = build_evidence(db, query)
  /\ report = evaluate_evidence(evidence)

\* Every report is the evaluation of the evidence the index now holds.
THEOREM EvaluationIsFresh == Spec => []Fresh
<1>1. Init => Fresh
  BY FS_EmptySet DEF Init, Fresh
<1>2. Fresh /\ [Next]_vars => Fresh'
  <2> SUFFICES ASSUME Fresh, [Next]_vars
               PROVE Fresh'
    OBVIOUS
  <2>1. CASE UNCHANGED vars
    BY <2>1 DEF vars, Fresh
  <2>2. ASSUME NEW r \in Candidates, Ingest(r)
        PROVE Fresh'
    BY <2>2, FS_AddElement DEF Ingest, evaluate_address, Fresh
  <2> QED
    BY <2>1, <2>2 DEF Next
<1> QED
  BY <1>1, <1>2, PTL DEF Spec

-----------------------------------------------------------------------------
(* Rows of an evidence. *)

\* What build_evidence gathers for a source: the rows at the address and, for
\* the sources fetched by id, the rows of the owners.
LEMMA EvidenceRows ==
  ASSUME NEW rows, NEW q
  PROVE  LET e == build_evidence(rows, q)
         IN  /\ \A s \in SUBSTANTIVE_SOURCES : \A r \in e.rows[s] :
                  \/ r \in rows /\ r.source = s /\ r.at \in SubjectLine
                  \/ r \in rows /\ r.source = s /\ s \in FetchedById /\ r.id \in e.owner_ids
             /\ NoId \notin e.owner_ids
  BY DEF build_evidence, _address_rows, _id_rows

\* A row that is nobody's of the owners' was fetched by address.
LEMMA StrangerRowsAtSubject ==
  ASSUME NEW rows, NEW q, NEW s \in SUBSTANTIVE_SOURCES,
         NEW r \in build_evidence(rows, q).rows[s],
         ~_is_owner_row(build_evidence(rows, q), r)
  PROVE  r.at \in SubjectLine
  BY EvidenceRows DEF _is_owner_row

\* So was a utility row, whoever it belongs to, and any row without owners.
LEMMA OtherRowsAtSubject ==
  ASSUME NEW rows, NEW q, NEW s \in SUBSTANTIVE_SOURCES,
         NEW r \in build_evidence(rows, q).rows[s],
         s = "utility" \/ NoOwner(build_evidence(rows, q))
  PROVE  r.at \in SubjectLine
  BY EvidenceRows DEF NoOwner, FetchedById

\* A path of a report cites the rows its executor cites.
LEMMA CitedRows ==
  ASSUME NEW e, NEW p \in DOMAIN evaluate_evidence(e).atomic.paths
  PROVE  evaluate_evidence(e).atomic.paths[p].refs = PATH_EXECUTORS(e)[p].refs
  BY DEF evaluate_evidence, evaluate_atomic_evidence, _evaluate_path

\* Citations are rows that were found.
LEMMA CitedAmongFound ==
  /\ \A S : _refs(S) \subseteq S /\ _refs_multi(S) \subseteq S
  /\ \A S, strength : /\ Rows(S, strength).refs \subseteq S
                      /\ RowsOfMany(S, strength).refs \subseteq S
<1>1. \A S : _refs(S) \subseteq S /\ _refs_multi(S) \subseteq S
  BY DEF _refs, _refs_multi
<1>2. \A found, strength, S : When(found, strength, S).refs \subseteq S
  BY DEF When, No, Outcome
<1> QED
  BY <1>1, <1>2 DEF Rows, RowsOfMany

\* What an executor cites for a non-owner is at the subject, path by path.
LEMMA NonownerRefsAtSubject ==
  ASSUME NEW rows, NEW q, NEW p \in NonownerPaths,
         NEW r \in PATH_EXECUTORS(build_evidence(rows, q))[p].refs
  PROVE  r.at \in SubjectLine
<1> DEFINE e == build_evidence(rows, q)
<1> HIDE DEF e
<1>1. r \in PATH_EXECUTORS(e)[p].refs
  BY DEF e
<1>2. ASSUME NEW sources \in SUBSET SUBSTANTIVE_SOURCES, r \in Strangers(e, sources)
      PROVE r.at \in SubjectLine
  BY <1>2, StrangerRowsAtSubject DEF Strangers, From, e
<1>3. ASSUME NEW s \in SUBSTANTIVE_SOURCES, r \in e.rows[s], s = "utility" \/ NoOwner(e)
      PROVE r.at \in SubjectLine
  BY <1>3, OtherRowsAtSubject DEF e
<1>4. ASSUME NEW s \in {"drive", "auto", "trace"},
             r \in _nonowner_source_at_subject(e, s).refs
      PROVE r.at \in SubjectLine
  <2>1. s \in SUBSTANTIVE_SOURCES
    BY DEF SUBSTANTIVE_SOURCES
  <2>2. r \in Strangers(e, {s}) \/ (r \in e.rows[s] /\ NoOwner(e))
    BY <1>4, CitedAmongFound DEF _nonowner_source_at_subject, Unclear, Outcome
  <2> QED
    BY <1>2, <1>3, <2>1, <2>2
<1>5. CASE p = "nonowner_drive_at_subject"
  BY <1>1, <1>4, <1>5 DEF PATH_EXECUTORS
<1>6. CASE p = "nonowner_auto_at_subject"
  BY <1>1, <1>4, <1>6 DEF PATH_EXECUTORS
<1>7. CASE p = "nonowner_trace_at_subject"
  BY <1>1, <1>4, <1>7 DEF PATH_EXECUTORS
<1>8. CASE p = "nonowner_loan_renter_at_subject"
  <2>1. r \in _nonowner_loan_renter_at_subject(e).refs
    BY <1>1, <1>8 DEF PATH_EXECUTORS
  <2>2. r \in Strangers(e, {"loan"}) \/ (r \in e.rows["loan"] /\ NoOwner(e))
    BY <2>1, CitedAmongFound DEF _nonowner_loan_renter_at_subject, Renters, Unclear, Outcome
  <2> QED
    BY <1>2, <1>3, <2>2 DEF SUBSTANTIVE_SOURCES
<1>9. CASE p = "nonowner_loan_owner_claim_at_subject"
  <2>1. r \in _loan_owner_claim_not_supported_by_tax(e).refs
    BY <1>1, <1>9 DEF PATH_EXECUTORS, _nonowner_loan_owner_claim_at_subject
  <2>2. r \in Strangers(e, {"loan"})
    BY <2>1, CitedAmongFound DEF _loan_owner_claim_not_supported_by_tax
  <2> QED
    BY <1>2, <2>2 DEF SUBSTANTIVE_SOURCES
<1>10. CASE p = "base_person_not_tax_owner_at_subject"
  <2>1. r \in _base_person_not_tax_owner_at_subject(e).refs
    BY <1>1, <1>10 DEF PATH_EXECUTORS
  <2>2. r \in Strangers(e, {"base"})
    BY <2>1, CitedAmongFound DEF _base_person_not_tax_owner_at_subject
  <2> QED
    BY <1>2, <2>2 DEF SUBSTANTIVE_SOURCES
<1>11. CASE p = "unrelated_nonowner_legal_presence"
  <2>1. r \in _unrelated_nonowner_legal_presence(e).refs
    BY <1>1, <1>11 DEF PATH_EXECUTORS
  <2>2. r \in Strangers(e, {"drive", "auto"})
    BY <2>1, CitedAmongFound DEF _unrelated_nonowner_legal_presence
  <2> QED
    BY <1>2, <2>2 DEF SUBSTANTIVE_SOURCES
<1>12. CASE p = "nonowner_utility_at_subject"
  <2>1. r \in _nonowner_utility_at_subject(e).refs
    BY <1>1, <1>12 DEF PATH_EXECUTORS
  <2>2. r \in e.rows["utility"]
    BY <2>1, CitedAmongFound DEF _nonowner_utility_at_subject, OtherNames
  <2> QED
    BY <1>3, <2>2 DEF SUBSTANTIVE_SOURCES
<1> QED
  BY <1>5, <1>6, <1>7, <1>8, <1>9, <1>10, <1>11, <1>12 DEF NonownerPaths, AnyNonowner

\* Whatever the index holds, a row cited for a non-owner at the subject is at
\* the subject: the executors need not look at its address.
THEOREM NonownersNeverBorrowed == Spec => []NonownersAreAtSubject
<1>1. Fresh => NonownersAreAtSubject
  BY CitedRows, NonownerRefsAtSubject DEF Fresh, NonownersAreAtSubject
<1> QED
  BY <1>1, EvaluationIsFresh, PTL

-----------------------------------------------------------------------------
(* Risks accumulate.                                                       *)

(* The rows of a list have a place in it.                                  *)
Listable(T) == \A t \in T : t.source \in SUBSTANTIVE_SOURCES /\ t.rowid \in Nat

\* The order of a list is strict and transitive.
LEMMA ListedIsOrder ==
  ASSUME NEW x, NEW y, NEW z, Listable({x, y, z})
  PROVE  ~Listed(x, x) /\ (Listed(x, y) /\ Listed(y, z) => Listed(x, z))
<1>1. \A s \in SUBSTANTIVE_SOURCES : SourceOrder[s] \in Nat
  BY DEF SUBSTANTIVE_SOURCES, SourceOrder
<1>2. /\ SourceOrder[x.source] \in Nat /\ SourceOrder[y.source] \in Nat
      /\ SourceOrder[z.source] \in Nat
      /\ x.rowid \in Nat /\ y.rowid \in Nat /\ z.rowid \in Nat
  BY <1>1 DEF Listable
<1>3. ~Listed(x, x)
  BY <1>2 DEF Listed
<1>4. ASSUME Listed(x, y), Listed(y, z) PROVE Listed(x, z)
  BY <1>2, <1>4 DEF Listed
<1> QED
  BY <1>3, <1>4

\* A list that is not empty has a first row, which is cited.
LEMMA SomethingCited ==
  ASSUME NEW T, IsFiniteSet(T), T # {}, Listable(T)
  PROVE  _refs(T) # {}
<1> DEFINE before(t) == {q \in T : Listed(q, t)}
           sizes == {Cardinality(before(t)) : t \in T}
<1>1. \A t \in T : IsFiniteSet(before(t)) /\ Cardinality(before(t)) \in Nat
  BY FS_Subset, FS_CardinalityType
<1>2. sizes \in SUBSET Nat /\ sizes # {}
  BY <1>1
<1> HIDE DEF before
<1>3. PICK n \in sizes : \A m \in sizes : ~(m < n)
  BY <1>2, LeastElement
<1>4. PICK t \in T : Cardinality(before(t)) = n
  BY <1>3
<1>5. ASSUME NEW q \in before(t) PROVE FALSE
  <2>1. q \in T /\ Listed(q, t)
    BY <1>5 DEF before
  <2>2. before(q) \subseteq before(t)
    BY <2>1, ListedIsOrder DEF before, Listable
  <2>3. q \notin before(q)
    BY <2>1, ListedIsOrder DEF before, Listable
  <2>4. before(q) # before(t)
    BY <1>5, <2>3
  <2>5. /\ Cardinality(before(q)) <= Cardinality(before(t))
        /\ Cardinality(before(t)) = Cardinality(before(q)) => before(t) = before(q)
    BY <1>1, <2>2, FS_Subset
  <2>6. Cardinality(before(q)) \in sizes /\ Cardinality(before(q)) \in Nat
    BY <1>1, <2>1
  <2> HIDE DEF sizes
  <2> QED
    BY <1>1, <1>3, <1>4, <2>4, <2>5, <2>6
<1>6. before(t) = {} /\ Cardinality(before(t)) < 5
  BY <1>5, FS_EmptySet
<1> QED
  BY <1>6 DEF _refs, before

\* One more row takes a row off a list of citations only if the list was full:
\* the rows before it are cited too.
LEMMA CrowdedOut ==
  ASSUME NEW S, NEW T, NEW new, IsFiniteSet(T), Listable(T),
         S \subseteq T, T \subseteq S \cup {new},
         NEW t \in _refs_multi(S), t \notin _refs_multi(T)
  PROVE  Cardinality(_refs_multi(S)) >= 8
<1> DEFINE before == {q \in S : Listed(q, t)}
           after == {q \in T : Listed(q, t)}
<1>1. /\ t \in S /\ t \in T /\ IsFiniteSet(S) /\ Listable(S)
      /\ Cardinality(before) < 8 /\ ~(Cardinality(after) < 8)
  BY FS_Subset DEF _refs_multi, Listable
<1>2. /\ IsFiniteSet(before) /\ IsFiniteSet(after)
      /\ Cardinality(before) \in Nat /\ Cardinality(after) \in Nat
  BY <1>1, FS_Subset, FS_CardinalityType
<1>3. Cardinality(before) >= 7
  <2>1. after \subseteq before \cup {new}
    OBVIOUS
  <2> HIDE DEF before, after
  <2>5. /\ IsFiniteSet(before \cup {new})
        /\ Cardinality(before \cup {new})
             = IF new \in before THEN Cardinality(before) ELSE Cardinality(before) + 1
    BY <1>2, FS_AddElement
  <2>2. IsFiniteSet(before \cup {new}) /\ Cardinality(before \cup {new}) <= Cardinality(before) + 1
    BY <1>2, <2>5
  <2>3. Cardinality(after) <= Cardinality(before \cup {new})
    BY <2>1, <2>2, FS_Subset
  <2>4. Cardinality(before \cup {new}) \in Nat
    BY <2>2, FS_CardinalityType
  <2> QED
    BY <1>1, <1>2, <2>2, <2>3, <2>4
<1>4. ASSUME NEW q \in before PROVE q \in _refs_multi(S)
  <2> DEFINE earlier == {x \in S : Listed(x, q)}
  <2>1. earlier \subseteq before
    BY <1>1, ListedIsOrder DEF Listable
  <2>2. Cardinality(earlier) \in Nat /\ Cardinality(earlier) <= Cardinality(before)
    BY <1>2, <2>1, FS_Subset, FS_CardinalityType
  <2>3. Cardinality(earlier) < 8
    BY <1>1, <1>2, <2>2
  <2> QED
    BY <1>4, <2>3 DEF _refs_multi
<1>5. before \cup {t} \subseteq _refs_multi(S)
  BY <1>4
<1>6. t \notin before
  BY <1>1, ListedIsOrder DEF Listable
<1>7. Cardinality(before \cup {t}) = Cardinality(before) + 1
  BY <1>2, <1>6, FS_AddElement
<1>8. IsFiniteSet(_refs_multi(S))
  BY <1>1, FS_Subset DEF _refs_multi
<1>9. /\ Cardinality(before \cup {t}) <= Cardinality(_refs_multi(S))
      /\ Cardinality(_refs_multi(S)) \in Nat
  BY <1>5, <1>8, FS_Subset, FS_CardinalityType
<1> HIDE DEF before, after
<1> QED
  BY <1>2, <1>3, <1>7, <1>9

(* f is an evidence with the taxes and the owners of e and no fewer rows,  *)
(* one more at most.                                                       *)
Extended(e, f) ==
  /\ f.owner_ids = e.owner_ids
  /\ f.owner_name_keys = e.owner_name_keys
  /\ f.rows["tax"] = e.rows["tax"]
  /\ f.source_counts["tax"] = e.source_counts["tax"]
  /\ f.owner_summaries = e.owner_summaries
  /\ \A s \in SUBSTANTIVE_SOURCES :
       e.rows[s] \subseteq f.rows[s] /\ IsFiniteSet(f.rows[s])
  /\ \A s \in SUBSTANTIVE_SOURCES : \A t \in f.rows[s] : t.source = s /\ t.rowid \in Nat
  /\ \E new : \A s \in SUBSTANTIVE_SOURCES : f.rows[s] \subseteq e.rows[s] \cup {new}
  /\ \A s \in SUBSTANTIVE_SOURCES : Counted(e, s) => Counted(f, s)
  /\ _has_hints(e) => _has_hints(f)

\* A source is counted exactly if the evidence has a row of it.
LEMMA CountsAreRows ==
  ASSUME NEW rows, NEW q, NEW s \in SUBSTANTIVE_SOURCES, IsFiniteSet(rows)
  PROVE  LET e == build_evidence(rows, q)
         IN  /\ IsFiniteSet(e.rows[s])
             /\ e.source_counts[s] = Cardinality(e.rows[s])
             /\ Counted(e, s) <=> e.rows[s] # {}
<1> DEFINE e == build_evidence(rows, q)
<1>1. e.rows[s] \subseteq rows
  BY EvidenceRows
<1>2. IsFiniteSet(e.rows[s])
  BY <1>1, FS_Subset
<1>3. e.source_counts[s] = Cardinality(e.rows[s])
  BY DEF build_evidence
<1>4. Cardinality(e.rows[s]) \in Nat /\ (Cardinality(e.rows[s]) = 0 <=> e.rows[s] = {})
  BY <1>2, FS_CardinalityType, FS_EmptySet
<1> QED
  BY <1>2, <1>3, <1>4 DEF Counted

\* Ownership is a matter of the tax rows alone.
LEMMA SameOwners ==
  ASSUME NEW e, NEW f, NEW r,
         f.owner_ids = e.owner_ids, f.owner_name_keys = e.owner_name_keys
  PROVE  /\ _is_owner_row(e, r) <=> _is_owner_row(f, r)
         /\ _is_owner_name_row(e, r) <=> _is_owner_name_row(f, r)
  BY DEF _is_owner_row, _is_owner_name_row

\* A row of any source but tax only adds to an evidence.
LEMMA IngestExtends ==
  ASSUME NEW rows, NEW q, NEW r, IsFiniteSet(rows), rows \cup {r} \subseteq Row,
         r.source # "tax"
  PROVE  Extended(build_evidence(rows, q), build_evidence(rows \cup {r}, q))
<1> DEFINE more == rows \cup {r}
           e == build_evidence(rows, q)
           f == build_evidence(more, q)
<1>1. IsFiniteSet(more)
  BY FS_AddElement
<1>2. _address_rows(more, "tax") = _address_rows(rows, "tax")
  BY DEF _address_rows
<1>3. /\ f.owner_ids = e.owner_ids
      /\ f.owner_name_keys = e.owner_name_keys
      /\ f.owner_summaries = e.owner_summaries
  BY <1>2 DEF build_evidence
<1>4. f.rows["tax"] = e.rows["tax"]
  BY <1>2 DEF build_evidence, FetchedById, SUBSTANTIVE_SOURCES
<1>5. f.source_counts["tax"] = e.source_counts["tax"]
  BY <1>1, <1>4, CountsAreRows DEF SUBSTANTIVE_SOURCES
<1>6. \A s \in SUBSTANTIVE_SOURCES : e.rows[s] \subseteq f.rows[s]
  BY <1>2 DEF build_evidence, _address_rows, _id_rows
<1>7. ASSUME NEW s \in SUBSTANTIVE_SOURCES
      PROVE IsFiniteSet(f.rows[s]) /\ (Counted(e, s) => Counted(f, s))
  <2>1. e.rows[s] \subseteq f.rows[s]
    BY <1>6
  <2>2. Counted(e, s) <=> e.rows[s] # {}
    BY CountsAreRows
  <2>3. IsFiniteSet(f.rows[s]) /\ (Counted(f, s) <=> f.rows[s] # {})
    BY <1>1, CountsAreRows
  <2> QED
    BY <2>1, <2>2, <2>3
<1>8. _has_hints(e) => _has_hints(f)
  <2> DEFINE ids == {t.id : t \in _address_rows(rows, "tax")} \ {NoId}
             facts(d) == [rows |-> build_evidence(d, q).rows, numbered |-> q.numbered,
                          owner_ids |-> ids,
                          owner_name_keys |-> _owner_name_keys(_address_rows(rows, "tax"))]
  <2>1. /\ e.owner_presence_hints = _owner_presence_hints(facts(rows))
        /\ e.owner_elsewhere_hints = _owner_elsewhere_hints(rows, facts(rows))
        /\ e.nonowner_occupancy_hints = _nonowner_hints(facts(rows))
    BY DEF build_evidence
  <2>2. /\ f.owner_presence_hints = _owner_presence_hints(facts(more))
        /\ f.owner_elsewhere_hints = _owner_elsewhere_hints(more, facts(more))
        /\ f.nonowner_occupancy_hints = _nonowner_hints(facts(more))
    BY <1>2 DEF build_evidence
  <2>3. \A s \in SUBSTANTIVE_SOURCES : facts(rows).rows[s] \subseteq facts(more).rows[s]
    BY <1>6
  <2>4. facts(more).rows["tax"] = facts(rows).rows["tax"]
    BY <1>4
  <2>5. /\ facts(more).owner_ids = facts(rows).owner_ids
        /\ facts(more).owner_name_keys = facts(rows).owner_name_keys
    OBVIOUS
  <2> HIDE DEF facts, e, f, more
  <2>6. \A t : /\ _is_owner_row(facts(rows), t) <=> _is_owner_row(facts(more), t)
               /\ _is_owner_name_row(facts(rows), t) <=> _is_owner_name_row(facts(more), t)
    BY <2>5, SameOwners
  <2>7. _owner_presence_hints(facts(rows)) \subseteq _owner_presence_hints(facts(more))
    BY <2>3, <2>6 DEF _owner_presence_hints, FetchedById, SUBSTANTIVE_SOURCES
  <2>8. _nonowner_hints(facts(rows)) \subseteq _nonowner_hints(facts(more))
    BY <2>3, <2>6 DEF _nonowner_hints, FetchedById, SUBSTANTIVE_SOURCES
  <2>9. _owner_elsewhere_hints(rows, facts(rows)) \subseteq _owner_elsewhere_hints(more, facts(more))
    BY <2>4, <2>5 DEF _owner_elsewhere_hints, _id_rows, more
  <2> QED
    BY <2>1, <2>2, <2>7, <2>8, <2>9 DEF _has_hints
<1>9. \A s \in SUBSTANTIVE_SOURCES : f.rows[s] \subseteq e.rows[s] \cup {r}
  BY <1>2 DEF build_evidence, _address_rows, _id_rows
<1>10. \A s \in SUBSTANTIVE_SOURCES : \A t \in f.rows[s] : t.source = s /\ t.rowid \in Nat
  <2>1. \A t \in Row : t.rowid \in Nat
    BY DEF Row, PersonRow, LoanRow, BaseRow, TaxRow
  <2> QED
    BY <2>1, EvidenceRows
<1> HIDE DEF e, f, more
<1>11. \E new : \A s \in SUBSTANTIVE_SOURCES : f.rows[s] \subseteq e.rows[s] \cup {new}
  BY <1>9
<1>12. Extended(e, f)
  BY <1>3, <1>4, <1>5, <1>6, <1>7, <1>8, <1>10, <1>11 DEF Extended
<1> QED
  BY <1>12 DEF e, f, more

\* The heuristics whose gates close when a further source appears.
Discounts ==
  {"auto_only_owner_elsewhere_discount", "utility_only_no_dates_discount",
   "trace_only_presence_discount"}

RiskPaths ==
  {"foreclosure_or_distress_marker", "company_or_trust_owner",
   "repeated_nonowner_cross_source_corroboration", "unrelated_nonowner_legal_presence",
   "portfolio_owner_with_nonowner_occupancy", "tax_owner_mailing_differs_from_situs",
   "tax_mailing_subject_but_owner_legal_elsewhere",
   "loan_owner_claim_not_supported_by_tax", "nonowner_loan_renter_at_subject",
   "nonowner_loan_owner_claim_at_subject", "owner_loan_elsewhere",
   "owner_drive_elsewhere", "nonowner_drive_at_subject", "owner_auto_elsewhere",
   "nonowner_auto_at_subject", "owner_trace_elsewhere", "nonowner_trace_at_subject",
   "nonowner_utility_at_subject", "multiple_nonowner_utility_names",
   "owner_multiple_liened_residential_properties", "owner_primary_comparison_elsewhere",
   "tax_ownerrescount_portfolio_pattern"}

\* The catalogue's risk paths, none of which is a discount's.
LEMMA CatalogueRisks ==
  ASSUME NEW p \in reasoning_path_ids, RoleOf[p] = "risk"
  PROVE  p \in RiskPaths /\ HeuristicOf[p] \in heuristic_ids \ Discounts
<1>1. ASSUME NEW h \in ATOMIC_HEURISTICS, p \in DOMAIN h.roles, h.roles[p] = "risk"
      PROVE p \in RiskPaths /\ h.id \notin Discounts
  <2>1. CASE h \in {ResidentialTax, LienedResidential, BaseMortgage, Foreclosure,
                    CompanyOwner, OwnerLoanElsewhere, LegalConflict, AutoOnlyDiscount}
    BY <1>1, <2>1 DEF RiskPaths, Discounts, Single, ResidentialTax, LienedResidential,
       BaseMortgage, Foreclosure, CompanyOwner, OwnerLoanElsewhere, LegalConflict,
       AutoOnlyDiscount
  <2>2. CASE h \in {UtilityOnlyDiscount, TraceOnlyDiscount, StrongerLegalElsewhere,
                    SingleFamily, OwnerResCount}
    BY <1>1, <2>2 DEF RiskPaths, Discounts, Single, UtilityOnlyDiscount,
       TraceOnlyDiscount, StrongerLegalElsewhere, SingleFamily, OwnerResCount
  <2>3. CASE h \in {EvidenceQuality, OwnerIdentity, TaxMailing, BaseAlignment}
    BY <1>1, <2>3 DEF RiskPaths, Discounts, Family, EvidenceQuality, OwnerIdentity,
       TaxMailing, BaseAlignment
  <2>4. CASE h \in {LoanTenure, DriveAddress, AutoAddress, TraceAddress,
                    UtilityOccupancy, PortfolioComparison}
    BY <1>1, <2>4 DEF RiskPaths, Discounts, Family, LoanTenure, DriveAddress,
       AutoAddress, TraceAddress, UtilityOccupancy, PortfolioComparison
  <2> QED
    BY <2>1, <2>2, <2>3, <2>4 DEF ATOMIC_HEURISTICS
<1> DEFINE h == CHOOSE h \in ATOMIC_HEURISTICS : p \in DOMAIN h.roles
<1>2. h \in ATOMIC_HEURISTICS /\ p \in DOMAIN h.roles
  BY DEF reasoning_path_ids
<1>3. RoleOf[p] = h.roles[p] /\ HeuristicOf[p] = h.id
  BY DEF RoleOf, HeuristicOf
<1> HIDE DEF h
<1> QED
  BY <1>1, <1>2, <1>3 DEF heuristic_ids

\* Further rows close no gate but those of the discounts.
LEMMA GateStaysOpen ==
  ASSUME NEW e, NEW f, Extended(e, f), NEW id \in heuristic_ids \ Discounts,
         _gate_decision(id, e) = "run"
  PROVE  _gate_decision(id, f) = "run"
<1>1. Counted(e, "tax") <=> Counted(f, "tax")
  BY DEF Extended, Counted
<1>2. IdentityMissing(e) <=> IdentityMissing(f)
  BY <1>1 DEF IdentityMissing, Extended, _owner_count
<1>3. ~RunsForAbsence(id, f) /\ Runs(id, e)
  BY <1>1, <1>2 DEF _gate_decision, RunsForAbsence
<1>4. \A s \in SUBSTANTIVE_SOURCES : Counted(e, s) => Counted(f, s)
  BY DEF Extended
<1>5. OwnerContextComparable(e) => OwnerContextComparable(f)
  BY <1>2, <1>4 DEF OwnerContextComparable, AnyOf, Extended, STRONG_OCCUPANCY_SOURCES,
     SUBSTANTIVE_SOURCES
<1>6. PortfolioContext(e) => PortfolioContext(f)
  BY <1>1 DEF PortfolioContext, Extended, _has_portfolio_hint, _owner_count
<1>7. RequiredSources[id] \subseteq SUBSTANTIVE_SOURCES
  BY DEF RequiredSources, SUBSTANTIVE_SOURCES
<1>8. Runs(id, f)
  BY <1>3, <1>4, <1>5, <1>6, <1>7
     DEF Runs, Discounts, SUBSTANTIVE_SOURCES, _owner_count, Extended
<1> QED
  BY <1>3, <1>8 DEF _gate_decision

(* The outcome b finds what a does, from the sources a cites unless the    *)
(* citations of a are as many as a list holds.                             *)
Stays(a, b) ==
  a.verdict = "found" =>
    /\ b.verdict = "found" /\ b.strength = a.strength
    /\ \/ Cardinality(a.refs) >= 8
       \/ \A t \in a.refs : \E u \in b.refs : u.source = t.source

\* A risk path looks for rows, never for their absence.
LEMMA FindStays ==
  ASSUME NEW e, NEW f, Extended(e, f), NEW p \in RiskPaths
  PROVE  Stays(PATH_EXECUTORS(e)[p], PATH_EXECUTORS(f)[p])
<1>24. ASSUME NEW s \in SUBSTANTIVE_SOURCES, NEW S, NEW T, S \subseteq T, T \subseteq f.rows[s]
       PROVE  \A t \in _refs(S) : \E u \in _refs(T) : u.source = t.source
  <2>1. /\ IsFiniteSet(T) /\ Listable(T)
        /\ \A t \in T : t.source = s
    BY <1>24, FS_Subset DEF Extended, Listable
  <2>2. S # {} => _refs(T) # {}
    BY <1>24, <2>1, SomethingCited
  <2>3. _refs(S) \subseteq S /\ _refs(T) \subseteq T
    BY DEF _refs
  <2> QED
    BY <1>24, <2>1, <2>2, <2>3
<1>1. ASSUME NEW s \in SUBSTANTIVE_SOURCES, NEW S, NEW T, NEW strength,
             S \subseteq T, T \subseteq f.rows[s]
      PROVE Stays(Rows(S, strength), Rows(T, strength))
  <2>1. \A t \in _refs(S) : \E u \in _refs(T) : u.source = t.source
    BY <1>1, <1>24
  <2> QED
    BY <1>1, <2>1 DEF Stays, Rows, When, Outcome, No
<1>25. PICK new : \A s \in SUBSTANTIVE_SOURCES : f.rows[s] \subseteq e.rows[s] \cup {new}
  BY DEF Extended
<1>26. ASSUME NEW A \in SUBSET SUBSTANTIVE_SOURCES
       PROVE  /\ IsFiniteSet(From(f, A)) /\ Listable(From(f, A))
              /\ From(f, A) \subseteq From(e, A) \cup {new}
  <2>1. IsFiniteSet(SUBSTANTIVE_SOURCES)
    <3>1. SUBSTANTIVE_SOURCES = {"tax", "base", "loan"} \cup {"drive", "auto"} \cup {"trace", "utility"}
      BY DEF SUBSTANTIVE_SOURCES
    <3>2. /\ IsFiniteSet({"tax"} \cup {"base"} \cup {"loan"}) /\ IsFiniteSet({"drive"} \cup {"auto"})
          /\ IsFiniteSet({"trace"} \cup {"utility"})
      BY FS_Singleton, FS_Union
    <3>3. /\ {"tax", "base", "loan"} = {"tax"} \cup {"base"} \cup {"loan"}
          /\ {"drive", "auto"} = {"drive"} \cup {"auto"}
          /\ {"trace", "utility"} = {"trace"} \cup {"utility"}
      OBVIOUS
    <3> QED
      BY <3>1, <3>2, <3>3, FS_Union
  <2>2. IsFiniteSet(A)
    BY <2>1, FS_Subset
  <2> DEFINE parts == {f.rows[s] : s \in A}
             at == [s \in A |-> f.rows[s]]
  <2>3. at \in Surjection(A, parts)
    BY DEF Surjection
  <2>4. IsFiniteSet(parts)
    BY <2>2, <2>3, FS_Surjection
  <2>5. \A part \in parts : IsFiniteSet(part)
    BY DEF Extended
  <2>6. IsFiniteSet(UNION parts)
    BY <2>4, <2>5, FS_UNION
  <2>7. From(f, A) = UNION parts
    BY DEF From
  <2>8. Listable(From(f, A)) /\ From(f, A) \subseteq From(e, A) \cup {new}
    BY <1>25 DEF From, Listable, Extended
  <2> QED
    BY <2>6, <2>7, <2>8
<1>27. ASSUME NEW A \in SUBSET SUBSTANTIVE_SOURCES, NEW S, NEW T, NEW strength,
              S \subseteq T, T \subseteq From(f, A), T \subseteq S \cup {new}
       PROVE  /\ Stays(RowsOfMany(S, strength), RowsOfMany(T, strength))
              /\ \/ Cardinality(_refs_multi(S)) >= 8
                 \/ _refs_multi(S) \subseteq _refs_multi(T)
  <2>1. IsFiniteSet(T) /\ Listable(T)
    BY <1>26, <1>27, FS_Subset DEF Listable
  <2>2. \/ Cardinality(_refs_multi(S)) >= 8
        \/ _refs_multi(S) \subseteq _refs_multi(T)
    BY <1>27, <2>1, CrowdedOut
  <2> QED
    BY <1>27, <2>2 DEF Stays, RowsOfMany, When, Outcome, No
<1>2. \A S : S \subseteq SUBSTANTIVE_SOURCES =>
        /\ Strangers(e, S) \subseteq Strangers(f, S)
        /\ Owners(e, S) \subseteq Owners(f, S)
  BY SameOwners DEF Extended, Strangers, Owners, From
<1>3. \A s \in SUBSTANTIVE_SOURCES :
        _owner_related_rows_by_id(e, s) \subseteq _owner_related_rows_by_id(f, s)
  BY DEF Extended, _owner_related_rows_by_id
<1>4. OtherNames(e) \subseteq OtherNames(f)
  BY SameOwners DEF Extended, OtherNames, SUBSTANTIVE_SOURCES
<1>5. NoOwner(e) <=> NoOwner(f)
  BY DEF Extended, NoOwner
<1>6. OwnerLasts(e) = OwnerLasts(f)
  BY DEF Extended, OwnerLasts
<1>7. Renters(e) \subseteq Renters(f)
  BY <1>2 DEF Renters, SUBSTANTIVE_SOURCES
<1>8. _portfolio_rows(e) = _portfolio_rows(f)
  BY DEF Extended, _portfolio_rows
<1>9. _owner_elsewhere_rows(e, {"drive", "auto"})
        \subseteq _owner_elsewhere_rows(f, {"drive", "auto"})
  BY <1>3 DEF _owner_elsewhere_rows, SUBSTANTIVE_SOURCES
<1>28. /\ {"drive", "auto"} \in SUBSET SUBSTANTIVE_SOURCES
       /\ PersonSources \in SUBSET SUBSTANTIVE_SOURCES
       /\ {"drive", "auto", "trace", "loan", "utility"} \in SUBSET SUBSTANTIVE_SOURCES
  BY DEF PersonSources, SUBSTANTIVE_SOURCES
<1>29. \A A \in SUBSET SUBSTANTIVE_SOURCES :
         /\ Strangers(f, A) \subseteq From(f, A)
         /\ Strangers(f, A) \subseteq Strangers(e, A) \cup {new}
  BY <1>26, SameOwners DEF Strangers, Extended
<1>30. ASSUME NEW strength
       PROVE  Stays(RowsOfMany(_owner_elsewhere_rows(e, {"drive", "auto"}), strength),
                    RowsOfMany(_owner_elsewhere_rows(f, {"drive", "auto"}), strength))
  <2>1. _owner_elsewhere_rows(f, {"drive", "auto"}) \subseteq From(f, {"drive", "auto"})
    BY DEF _owner_elsewhere_rows, _owner_related_rows_by_id, From
  <2>2. _owner_elsewhere_rows(f, {"drive", "auto"})
          \subseteq _owner_elsewhere_rows(e, {"drive", "auto"}) \cup {new}
    BY <1>25, <1>28 DEF _owner_elsewhere_rows, _owner_related_rows_by_id, Extended
  <2> QED
    BY <1>9, <1>27, <1>28, <2>1, <2>2
<1>31. \A s \in SUBSTANTIVE_SOURCES : /\ Strangers(f, {s}) \subseteq f.rows[s]
                                     /\ _owner_related_rows_by_id(f, s) \subseteq f.rows[s]
  BY DEF Strangers, From, _owner_related_rows_by_id
<1>32. OtherNames(f) \subseteq f.rows["utility"] /\ Renters(f) \subseteq f.rows["loan"]
  BY <1>28, <1>31 DEF OtherNames, Renters
<1>23. /\ \A a : Stays(a, a)
       /\ \A b : Stays(No, b) /\ \A S : Stays(Unclear(S), b)
  BY DEF Stays, No, Unclear, Outcome
<1>10. CASE p \in {"foreclosure_or_distress_marker", "company_or_trust_owner",
                   "tax_owner_mailing_differs_from_situs",
                   "tax_ownerrescount_portfolio_pattern",
                   "owner_multiple_liened_residential_properties"}
  <2>1. PATH_EXECUTORS(e)[p] = PATH_EXECUTORS(f)[p]
    BY <1>8, <1>10 DEF PATH_EXECUTORS, Extended, _foreclosure_or_distress_marker,
       _company_or_trust_owner, _tax_owner_mailing_differs_from_situs,
       _tax_ownerrescount_portfolio_pattern, _owner_multiple_liened_residential_properties,
       Liened
  <2> QED
    BY <1>23, <2>1
<1>11. CASE p = "repeated_nonowner_cross_source_corroboration"
  <2> DEFINE of(d, n) == {r \in Strangers(d, PersonSources) : r.name = n}
             repeated(d) == {n \in {r.name : r \in Strangers(d, PersonSources)} \ {NoName} :
                               \E r, other \in of(d, n) : other.source # r.source}
             cited(d) == UNION {_refs_multi(of(d, n)) : n \in repeated(d)}
  <2>1. /\ PATH_EXECUTORS(e)[p] = When(repeated(e) # {}, "strong", cited(e))
        /\ PATH_EXECUTORS(f)[p] = When(repeated(f) # {}, "strong", cited(f))
    BY <1>11 DEF PATH_EXECUTORS, _repeated_nonowner_cross_source_corroboration
  <2>2. Strangers(e, PersonSources) \subseteq Strangers(f, PersonSources)
    BY <1>2, <1>28
  <2>3. \A n : /\ of(e, n) \subseteq of(f, n) /\ of(f, n) \subseteq of(e, n) \cup {new}
               /\ of(f, n) \subseteq From(f, PersonSources)
    BY <1>28, <1>29, <2>2
  <2>4. repeated(e) \subseteq repeated(f)
    BY <2>2
  <2>5. \A n : _refs_multi(of(e, n)) \subseteq Strangers(e, PersonSources)
    BY DEF _refs_multi
  <2> HIDE DEF of, repeated
  <2>6. ASSUME ~(Cardinality(cited(e)) >= 8), NEW n \in repeated(e)
        PROVE  _refs_multi(of(e, n)) \subseteq _refs_multi(of(f, n))
    <3>1. \/ Cardinality(_refs_multi(of(e, n))) >= 8
          \/ _refs_multi(of(e, n)) \subseteq _refs_multi(of(f, n))
      BY <1>27, <1>28, <2>3
    <3>2. _refs_multi(of(e, n)) \subseteq cited(e)
      BY <2>6
    <3>3. cited(e) \subseteq From(f, PersonSources)
      BY <1>28, <1>29, <2>2, <2>5
    <3>4. IsFiniteSet(cited(e))
      BY <1>26, <1>28, <3>3, FS_Subset
    <3>5. /\ Cardinality(_refs_multi(of(e, n))) <= Cardinality(cited(e))
          /\ Cardinality(_refs_multi(of(e, n))) \in Nat /\ Cardinality(cited(e)) \in Nat
      BY <3>2, <3>4, FS_Subset, FS_CardinalityType
    <3> HIDE DEF cited
    <3> QED
      BY <2>6, <3>1, <3>5
  <2>7. Cardinality(cited(e)) >= 8 \/ cited(e) \subseteq cited(f)
    BY <2>4, <2>6
  <2> HIDE DEF cited
  <2> QED
    BY <2>1, <2>4, <2>7 DEF Stays, When, Outcome, No
<1>12. CASE p = "unrelated_nonowner_legal_presence"
  <2>1. Strangers(e, {"drive", "auto"}) \subseteq Strangers(f, {"drive", "auto"})
    BY <1>2 DEF SUBSTANTIVE_SOURCES
  <2> DEFINE unrelated(d) == {r \in Strangers(d, {"drive", "auto"}) :
                               r.name.last # "" /\ r.name.last \notin OwnerLasts(d)}
  <2>2. unrelated(e) \subseteq unrelated(f)
    BY <1>6, <2>1
  <2>3. /\ unrelated(f) \subseteq From(f, {"drive", "auto"})
        /\ unrelated(f) \subseteq unrelated(e) \cup {new}
    BY <1>6, <1>28, <1>29
  <2>4. Stays(RowsOfMany(unrelated(e), "strong"), RowsOfMany(unrelated(f), "strong"))
    BY <1>27, <1>28, <2>2, <2>3
  <2>5. /\ _unrelated_nonowner_legal_presence(e) = RowsOfMany(unrelated(e), "strong")
        /\ _unrelated_nonowner_legal_presence(f) = RowsOfMany(unrelated(f), "strong")
    BY DEF _unrelated_nonowner_legal_presence
  <2> HIDE DEF unrelated
  <2> QED
    BY <1>12, <2>4, <2>5 DEF PATH_EXECUTORS
<1>13. CASE p = "portfolio_owner_with_nonowner_occupancy"
  <2>1. Strangers(e, {"drive", "auto", "loan", "trace"})
          \subseteq Strangers(f, {"drive", "auto", "loan", "trace"})
    BY <1>2 DEF SUBSTANTIVE_SOURCES
  <2> QED
    BY <1>8, <1>13, <2>1 DEF PATH_EXECUTORS, _portfolio_owner_with_nonowner_occupancy,
       Stays, When, Outcome, No
<1>14. CASE p = "tax_mailing_subject_but_owner_legal_elsewhere"
  <2>1. _tax_owner_mailing_matches_situs(e) = _tax_owner_mailing_matches_situs(f)
    BY DEF Extended, _tax_owner_mailing_matches_situs
  <2> QED
    BY <1>14, <1>23, <1>30, <2>1
       DEF PATH_EXECUTORS, _tax_mailing_subject_but_owner_legal_elsewhere
<1>15. CASE p \in {"loan_owner_claim_not_supported_by_tax",
                   "nonowner_loan_owner_claim_at_subject"}
  <2>1. Strangers(e, {"loan"}) \subseteq Strangers(f, {"loan"})
    BY <1>2 DEF SUBSTANTIVE_SOURCES
  <2>2. "loan" \in SUBSTANTIVE_SOURCES
    BY DEF SUBSTANTIVE_SOURCES
  <2> DEFINE claims(d) == {r \in Strangers(d, {"loan"}) : r.tenure = "own"}
  <2>3. claims(e) \subseteq claims(f) /\ claims(f) \subseteq f.rows["loan"]
    BY <1>31, <2>1, <2>2
  <2>4. Stays(Rows(claims(e), "moderate"), Rows(claims(f), "moderate"))
    BY <1>1, <2>2, <2>3
  <2> QED
    BY <1>15, <2>4 DEF PATH_EXECUTORS, _nonowner_loan_owner_claim_at_subject,
       _loan_owner_claim_not_supported_by_tax
<1>16. CASE p = "nonowner_loan_renter_at_subject"
  <2>1. Stays(Rows(Renters(e), "strong"), Rows(Renters(f), "strong"))
    BY <1>1, <1>7, <1>28, <1>32
  <2> QED
    BY <1>5, <1>16, <1>23, <2>1 DEF PATH_EXECUTORS, _nonowner_loan_renter_at_subject
<1>17. CASE p = "owner_loan_elsewhere"
  <2>1. _owner_related_rows_by_id(e, "loan") \subseteq _owner_related_rows_by_id(f, "loan")
    BY <1>3 DEF SUBSTANTIVE_SOURCES
  <2> DEFINE away(d) == {r \in _owner_related_rows_by_id(d, "loan") : r.at \notin SubjectLine}
  <2>2. away(e) \subseteq away(f) /\ away(f) \subseteq f.rows["loan"]
    BY <1>28, <1>31, <2>1
  <2>3. Stays(Rows(away(e), "weak"), Rows(away(f), "weak"))
    BY <1>1, <1>28, <2>2
  <2> QED
    BY <1>17, <2>3 DEF PATH_EXECUTORS, _owner_loan_elsewhere
<1>18. ASSUME NEW s \in {"drive", "auto", "trace"}
       PROVE /\ Stays(_owner_source_elsewhere(e, s), _owner_source_elsewhere(f, s))
             /\ Stays(_nonowner_source_at_subject(e, s), _nonowner_source_at_subject(f, s))
  <2>1. /\ _owner_related_rows_by_id(e, s) \subseteq _owner_related_rows_by_id(f, s)
        /\ Strangers(e, {s}) \subseteq Strangers(f, {s})
    BY <1>2, <1>3 DEF SUBSTANTIVE_SOURCES
  <2>2. {r \in _owner_related_rows_by_id(e, s) : Away(r.at)}
          \subseteq {r \in _owner_related_rows_by_id(f, s) : Away(r.at)}
    BY <2>1
  <2>3. s \in SUBSTANTIVE_SOURCES
    BY DEF SUBSTANTIVE_SOURCES
  <2>4. \A strength : Stays(Rows({r \in _owner_related_rows_by_id(e, s) : Away(r.at)}, strength),
                           Rows({r \in _owner_related_rows_by_id(f, s) : Away(r.at)}, strength))
    BY <1>1, <1>31, <2>2, <2>3
  <2>5. \A strength : Stays(Rows(Strangers(e, {s}), strength), Rows(Strangers(f, {s}), strength))
    BY <1>1, <1>31, <2>1, <2>3
  <2> QED
    BY <1>5, <1>23, <2>4, <2>5 DEF _owner_source_elsewhere, _nonowner_source_at_subject
<1>19. CASE p \in {"owner_drive_elsewhere", "nonowner_drive_at_subject",
                   "owner_auto_elsewhere", "nonowner_auto_at_subject",
                   "owner_trace_elsewhere", "nonowner_trace_at_subject"}
  BY <1>18, <1>19 DEF PATH_EXECUTORS
<1>20. CASE p = "nonowner_utility_at_subject"
  <2>1. Stays(Rows(OtherNames(e), "moderate"), Rows(OtherNames(f), "moderate"))
    BY <1>1, <1>4, <1>28, <1>32
  <2> QED
    BY <1>20, <2>1 DEF PATH_EXECUTORS, _nonowner_utility_at_subject
<1>21. CASE p = "multiple_nonowner_utility_names"
  <2> DEFINE names(d) == {r.name : r \in OtherNames(d)} \ {NoName}
  <2>1. IsFiniteSet(OtherNames(f))
    BY FS_Subset DEF OtherNames, Extended, SUBSTANTIVE_SOURCES
  <2>2. IsFiniteSet({r.name : r \in OtherNames(f)})
    <3> DEFINE named == [r \in OtherNames(f) |-> r.name]
    <3>1. named \in Surjection(OtherNames(f), {r.name : r \in OtherNames(f)})
      BY DEF Surjection
    <3> QED
      BY <2>1, <3>1, FS_Surjection
  <2>3. IsFiniteSet(names(f))
    BY <2>2, FS_Subset
  <2>4. names(e) \subseteq names(f)
    BY <1>4
  <2>5. /\ Cardinality(names(e)) \in Nat /\ Cardinality(names(f)) \in Nat
        /\ Cardinality(names(e)) <= Cardinality(names(f))
    BY <2>3, <2>4, FS_Subset, FS_CardinalityType
  <2> HIDE DEF names
  <2>6. _multiple_nonowner_utility_names(e)
          = When(Cardinality(names(e)) >= 2, "weak", _refs(OtherNames(e)))
    BY DEF _multiple_nonowner_utility_names, names
  <2>7. _multiple_nonowner_utility_names(f)
          = When(Cardinality(names(f)) >= 2, "weak", _refs(OtherNames(f)))
    BY DEF _multiple_nonowner_utility_names, names
  <2>8. Cardinality(names(e)) >= 2 => Cardinality(names(f)) >= 2
    BY <2>5
  <2>9. Stays(_multiple_nonowner_utility_names(e), _multiple_nonowner_utility_names(f))
    <3>1. \A t \in _refs(OtherNames(e)) : \E u \in _refs(OtherNames(f)) : u.source = t.source
      BY <1>4, <1>24, <1>28, <1>32
    <3> QED
      BY <2>6, <2>7, <2>8, <3>1 DEF Stays, When, Outcome, No
  <2> QED
    BY <1>21, <2>9 DEF PATH_EXECUTORS
<1>22. CASE p = "owner_primary_comparison_elsewhere"
  BY <1>22, <1>30 DEF PATH_EXECUTORS, _owner_primary_comparison_elsewhere
<1> QED
  BY <1>10, <1>11, <1>12, <1>13, <1>14, <1>15, <1>16, <1>17, <1>19, <1>20, <1>21, <1>22
     DEF RiskPaths

(* An outcome's verdict and strength are of the known kinds.               *)
WellJudged(o) ==
  o.verdict \in {"found", "no", "unclear"} /\ o.strength \in {"none", "weak", "moderate", "strong"}

\* A risk path finds something, finds nothing or cannot tell.
LEMMA RiskVerdict ==
  ASSUME NEW e, NEW p \in RiskPaths
  PROVE  WellJudged(PATH_EXECUTORS(e)[p])
<1> USE DEF WellJudged
<1>1. CASE p \in {"foreclosure_or_distress_marker", "company_or_trust_owner",
                  "tax_owner_mailing_differs_from_situs",
                  "tax_ownerrescount_portfolio_pattern"}
  BY <1>1 DEF PATH_EXECUTORS, Rows, When, Outcome, No, _foreclosure_or_distress_marker,
     _company_or_trust_owner, _tax_owner_mailing_differs_from_situs,
     _tax_ownerrescount_portfolio_pattern
<1>6. CASE p = "repeated_nonowner_cross_source_corroboration"
  BY <1>6 DEF PATH_EXECUTORS, When, Outcome, No,
     _repeated_nonowner_cross_source_corroboration
<1>7. CASE p = "unrelated_nonowner_legal_presence"
  BY <1>7 DEF PATH_EXECUTORS, RowsOfMany, When, Outcome, No, _unrelated_nonowner_legal_presence
<1>2. CASE p \in {"loan_owner_claim_not_supported_by_tax",
                  "nonowner_loan_owner_claim_at_subject", "owner_loan_elsewhere",
                  "nonowner_utility_at_subject", "owner_primary_comparison_elsewhere"}
  BY <1>2 DEF PATH_EXECUTORS, Rows, RowsOfMany, When, Outcome, No,
     _loan_owner_claim_not_supported_by_tax, _nonowner_loan_owner_claim_at_subject,
     _owner_loan_elsewhere, _nonowner_utility_at_subject,
     _owner_primary_comparison_elsewhere
<1>3. CASE p \in {"portfolio_owner_with_nonowner_occupancy",
                  "multiple_nonowner_utility_names",
                  "owner_multiple_liened_residential_properties"}
  BY <1>3 DEF PATH_EXECUTORS, When, Outcome, No, _portfolio_owner_with_nonowner_occupancy,
     _multiple_nonowner_utility_names, _owner_multiple_liened_residential_properties
<1>4. CASE p \in {"tax_mailing_subject_but_owner_legal_elsewhere",
                  "nonowner_loan_renter_at_subject"}
  BY <1>4 DEF PATH_EXECUTORS, Rows, RowsOfMany, When, Outcome, No, Unclear,
     _tax_mailing_subject_but_owner_legal_elsewhere, _nonowner_loan_renter_at_subject
<1>5. CASE p \in {"owner_drive_elsewhere", "nonowner_drive_at_subject",
                  "owner_auto_elsewhere", "nonowner_auto_at_subject",
                  "owner_trace_elsewhere", "nonowner_trace_at_subject"}
  <2>1. \A s : /\ WellJudged(_owner_source_elsewhere(e, s))
               /\ WellJudged(_nonowner_source_at_subject(e, s))
    BY DEF Rows, When, Outcome, No, Unclear, SourceStrength, _owner_source_elsewhere,
       _nonowner_source_at_subject
  <2> QED
    BY <1>5, <2>1 DEF PATH_EXECUTORS
<1> QED
  BY <1>1, <1>2, <1>3, <1>4, <1>5, <1>6, <1>7 DEF RiskPaths

\* A triggered risk is triggered in every extension of the evidence.
LEMMA RiskStays ==
  ASSUME NEW e, NEW f, Extended(e, f),
         NEW p \in TriggeredRisks(evaluate_evidence(e))
  PROVE  p \in TriggeredRisks(evaluate_evidence(f))
<1>1. /\ p \in reasoning_path_ids /\ RoleOf[p] = "risk"
      /\ Evaluated(evaluate_gates(e), p)
      /\ Status("risk", PATH_EXECUTORS(e)[p].verdict) = "triggered"
  BY DEF TriggeredRisks, evaluate_evidence, evaluate_atomic_evidence, _evaluate_path
<1>2. p \in RiskPaths /\ HeuristicOf[p] \in heuristic_ids \ Discounts
  BY <1>1, CatalogueRisks
<1>3. Evaluated(evaluate_gates(f), p)
  BY <1>1, <1>2, GateStaysOpen DEF Evaluated, evaluate_gates
<1>4. PATH_EXECUTORS(f)[p].verdict = "found"
  <2>1. PATH_EXECUTORS(e)[p].verdict \in {"found", "no", "unclear"}
    BY <1>2, RiskVerdict DEF WellJudged
  <2>2. PATH_EXECUTORS(e)[p].verdict = "found"
    BY <1>1, <2>1 DEF Status
  <2> QED
    BY <1>2, <2>2, FindStays DEF Stays
<1>5. Status("risk", "found") = "triggered"
  BY DEF Status
<1> QED
  BY <1>1, <1>3, <1>4, <1>5 DEF TriggeredRisks, evaluate_evidence,
     evaluate_atomic_evidence, _evaluate_path

\* For any rows: a further record of a person takes no triggered risk back.
THEOREM RisksOnlyAccumulate == Spec => RisksAccumulate
<1>1. Fresh /\ [Next]_vars
        => [PersonRowsOnly => TriggeredRisks(report) \subseteq TriggeredRisks(report')]_vars
  <2> SUFFICES ASSUME Fresh, Next, PersonRowsOnly
               PROVE TriggeredRisks(report) \subseteq TriggeredRisks(report')
    BY DEF vars
  <2>1. PICK r \in Candidates : Ingest(r)
    BY DEF Next
  <2>2. r.source # "tax"
    BY <2>1 DEF PersonRowsOnly, NewRows, Ingest, evaluate_address
  <2>3. /\ report = evaluate_evidence(build_evidence(db, query))
        /\ report' = evaluate_evidence(build_evidence(db \cup {r}, query))
    BY <2>1 DEF Fresh, Ingest, evaluate_address
  <2>4. Extended(build_evidence(db, query), build_evidence(db \cup {r}, query))
    BY <2>2, IngestExtends, EngineConstants DEF Fresh
  <2> QED
    BY <2>3, <2>4, RiskStays
<1> QED
  BY <1>1, EvaluationIsFresh, PTL DEF Spec, RisksAccumulate

-----------------------------------------------------------------------------
(* What the gates let through. *)

\* The heuristic of every risk path.
RiskOf(p, id) ==
  \/ p = id /\ id \in {"foreclosure_or_distress_marker", "company_or_trust_owner",
                       "owner_loan_elsewhere", "tax_ownerrescount_portfolio_pattern"}
  \/ /\ id = "owner_identity_and_cross_source_context"
     /\ p \in {"repeated_nonowner_cross_source_corroboration",
               "unrelated_nonowner_legal_presence", "portfolio_owner_with_nonowner_occupancy"}
  \/ /\ id = "tax_mailing_situs_analysis"
     /\ p \in {"tax_owner_mailing_differs_from_situs",
               "tax_mailing_subject_but_owner_legal_elsewhere"}
  \/ /\ id = "loan_tenure_subject_analysis"
     /\ p \in {"loan_owner_claim_not_supported_by_tax", "nonowner_loan_renter_at_subject",
               "nonowner_loan_owner_claim_at_subject"}
  \/ /\ id = "drive_address_subject_analysis"
     /\ p \in {"owner_drive_elsewhere", "nonowner_drive_at_subject"}
  \/ /\ id = "auto_address_subject_analysis"
     /\ p \in {"owner_auto_elsewhere", "nonowner_auto_at_subject"}
  \/ /\ id = "trace_address_subject_analysis"
     /\ p \in {"owner_trace_elsewhere", "nonowner_trace_at_subject"}
  \/ /\ id = "utility_subject_occupancy_analysis"
     /\ p \in {"nonowner_utility_at_subject", "multiple_nonowner_utility_names"}
  \/ /\ id = "portfolio_primary_comparison_analysis"
     /\ p \in {"owner_multiple_liened_residential_properties",
               "owner_primary_comparison_elsewhere"}

\* The catalogue puts every risk path under its heuristic.
LEMMA CatalogueRiskOf ==
  ASSUME NEW p \in reasoning_path_ids, RoleOf[p] = "risk"
  PROVE  RiskOf(p, HeuristicOf[p]) /\ HeuristicOf[p] \in heuristic_ids
<1>1. ASSUME NEW h \in ATOMIC_HEURISTICS, p \in DOMAIN h.roles, h.roles[p] = "risk"
      PROVE RiskOf(p, h.id)
  <2>1. CASE h \in {ResidentialTax, LienedResidential, BaseMortgage, Foreclosure,
                    CompanyOwner, OwnerLoanElsewhere, LegalConflict, AutoOnlyDiscount}
    BY <1>1, <2>1 DEF RiskOf, Single, ResidentialTax, LienedResidential,
       BaseMortgage, Foreclosure, CompanyOwner, OwnerLoanElsewhere, LegalConflict,
       AutoOnlyDiscount
  <2>2. CASE h \in {UtilityOnlyDiscount, TraceOnlyDiscount, StrongerLegalElsewhere,
                    SingleFamily, OwnerResCount}
    BY <1>1, <2>2 DEF RiskOf, Single, UtilityOnlyDiscount,
       TraceOnlyDiscount, StrongerLegalElsewhere, SingleFamily, OwnerResCount
  <2>3. CASE h \in {EvidenceQuality, OwnerIdentity, TaxMailing, BaseAlignment}
    BY <1>1, <2>3 DEF RiskOf, Family, EvidenceQuality, OwnerIdentity,
       TaxMailing, BaseAlignment
  <2>4. CASE h \in {LoanTenure, DriveAddress, AutoAddress}
    BY <1>1, <2>4 DEF RiskOf, Family, LoanTenure, DriveAddress, AutoAddress
  <2>5. CASE h \in {TraceAddress, UtilityOccupancy, PortfolioComparison}
    BY <1>1, <2>5 DEF RiskOf, Family, TraceAddress, UtilityOccupancy, PortfolioComparison
  <2> QED
    BY <2>1, <2>2, <2>3, <2>4, <2>5 DEF ATOMIC_HEURISTICS
<1> DEFINE h == CHOOSE h \in ATOMIC_HEURISTICS : p \in DOMAIN h.roles
<1>2. h \in ATOMIC_HEURISTICS /\ p \in DOMAIN h.roles
  BY DEF reasoning_path_ids
<1>3. RoleOf[p] = h.roles[p] /\ HeuristicOf[p] = h.id
  BY DEF RoleOf, HeuristicOf
<1> HIDE DEF h
<1> QED
  BY <1>1, <1>2, <1>3 DEF heuristic_ids

\* A stranger's row is a hint of its own.
LEMMA StrangersHint ==
  ASSUME NEW rows, NEW q, NEW S \in SUBSET (FetchedById \cup {"utility"}),
         Strangers(build_evidence(rows, q), S) # {}
  PROVE  _has_hints(build_evidence(rows, q))
<1> DEFINE e == build_evidence(rows, q)
           tax == _address_rows(rows, "tax")
           facts == [rows |-> e.rows, numbered |-> q.numbered,
                     owner_ids |-> {r.id : r \in tax} \ {NoId}, owner_name_keys |-> _owner_name_keys(tax)]
<1>1. e.nonowner_occupancy_hints = _nonowner_hints(facts)
  BY DEF build_evidence
<1>2. facts.owner_ids = e.owner_ids /\ facts.owner_name_keys = e.owner_name_keys
  BY DEF build_evidence
<1>3. facts.rows = e.rows
  OBVIOUS
<1> HIDE DEF e, facts
<1>4. PICK s \in S : \E r \in e.rows[s] : ~_is_owner_row(e, r)
  BY DEF Strangers, From, e
<1>5. PICK r \in e.rows[s] : ~_is_owner_row(e, r)
  BY <1>4
<1>6. ~_is_owner_row(facts, r)
  BY <1>2, <1>5, SameOwners
<1>7. s \in _nonowner_hints(facts)
  BY <1>3, <1>5, <1>6 DEF _nonowner_hints
<1> QED
  BY <1>1, <1>7 DEF _has_hints, e

\* What a risk path that finds something has found.
LEMMA FoundRows ==
  ASSUME NEW S, NEW strength,
         Rows(S, strength).verdict = "found" \/ RowsOfMany(S, strength).verdict = "found"
  PROVE  S # {}
  BY DEF Rows, RowsOfMany, When, No, Outcome

\* Once the owner is known, a risk path that would find something is behind an
\* open gate.
LEMMA RiskGateOpen ==
  ASSUME NEW rows, NEW q, IsFiniteSet(rows), ~IdentityMissing(build_evidence(rows, q)),
         NEW p, NEW id \in heuristic_ids, RiskOf(p, id), p # "owner_primary_comparison_elsewhere",
         PATH_EXECUTORS(build_evidence(rows, q))[p].verdict = "found"
  PROVE  _gate_decision(id, build_evidence(rows, q)) = "run"
<1> DEFINE e == build_evidence(rows, q)
<1>1. Counted(e, "tax") /\ _owner_count(e) # 0
  BY DEF IdentityMissing
<1>2. _owner_count(e) > 0
  <2>1. IsFiniteSet(_address_rows(rows, "tax"))
    BY FS_Subset DEF _address_rows
  <2>2. Cardinality(_address_rows(rows, "tax")) \in Nat
    BY <2>1, FS_CardinalityType
  <2>3. e.owner_summaries \in Nat
    BY <2>2 DEF build_evidence
  <2> HIDE DEF e
  <2> QED
    BY <1>1, <2>3 DEF _owner_count
<1>3. \A s \in SUBSTANTIVE_SOURCES : e.rows[s] # {} => Counted(e, s)
  BY CountsAreRows
<1>4. \A S \in SUBSET (FetchedById \cup {"utility"}) : Strangers(e, S) # {} => _has_hints(e)
  BY StrangersHint
<1>5. IsFiniteSet(e.rows["tax"]) /\ e.source_counts["tax"] = Cardinality(e.rows["tax"])
  BY CountsAreRows DEF SUBSTANTIVE_SOURCES
<1>6. ~IdentityMissing(e) /\ PATH_EXECUTORS(e)[p].verdict = "found"
  OBVIOUS
<1> HIDE DEF e
<1>7. ~RunsForAbsence(id, e)
  BY <1>1, <1>6 DEF RunsForAbsence
<1>8. ASSUME p = id PROVE Runs(id, e)
  <2>1. ASSUME id = "owner_loan_elsewhere" PROVE Runs(id, e)
    <3>1. _owner_loan_elsewhere(e).verdict = "found"
      BY <1>6, <1>8, <2>1 DEF PATH_EXECUTORS
    <3>2. e.rows["loan"] # {}
      BY <3>1, FoundRows DEF _owner_loan_elsewhere, _owner_related_rows_by_id
    <3>3. Counted(e, "loan")
      BY <1>3, <3>2 DEF SUBSTANTIVE_SOURCES
    <3>4. RequiredSources[id] = {"loan", "tax"}
      BY <2>1 DEF RequiredSources
    <3> QED
      BY <1>1, <1>2, <2>1, <3>3, <3>4 DEF Runs
  <2>2. ASSUME id \in {"foreclosure_or_distress_marker", "company_or_trust_owner",
                       "tax_ownerrescount_portfolio_pattern"}
        PROVE  Runs(id, e)
    <3>1. RequiredSources[id] = {"tax"}
      BY <2>2 DEF RequiredSources
    <3> QED
      BY <1>1, <2>2, <3>1 DEF Runs
  <2>3. id \in {"foreclosure_or_distress_marker", "company_or_trust_owner",
                "owner_loan_elsewhere", "tax_ownerrescount_portfolio_pattern"}
    BY <1>8 DEF RiskOf
  <2> QED
    BY <2>1, <2>2, <2>3
<1>9. ASSUME id = "owner_identity_and_cross_source_context",
              p \in {"repeated_nonowner_cross_source_corroboration",
                     "unrelated_nonowner_legal_presence", "portfolio_owner_with_nonowner_occupancy"}
       PROVE  Runs(id, e)
  <2>1. ASSUME p = "repeated_nonowner_cross_source_corroboration" PROVE _has_hints(e)
    <3>1. _repeated_nonowner_cross_source_corroboration(e).verdict = "found"
      BY <1>6, <2>1 DEF PATH_EXECUTORS
    <3>2. Strangers(e, PersonSources) # {}
      BY <3>1 DEF _repeated_nonowner_cross_source_corroboration, When, No, Outcome
    <3> QED
      BY <1>4, <3>2 DEF PersonSources, FetchedById
  <2>2. ASSUME p = "unrelated_nonowner_legal_presence" PROVE _has_hints(e)
    <3>1. _unrelated_nonowner_legal_presence(e).verdict = "found"
      BY <1>6, <2>2 DEF PATH_EXECUTORS
    <3>2. Strangers(e, {"drive", "auto"}) # {}
      BY <3>1, FoundRows DEF _unrelated_nonowner_legal_presence
    <3> QED
      BY <1>4, <3>2 DEF FetchedById
  <2>3. ASSUME p = "portfolio_owner_with_nonowner_occupancy" PROVE _has_hints(e)
    <3>1. _portfolio_owner_with_nonowner_occupancy(e).verdict = "found"
      BY <1>6, <2>3 DEF PATH_EXECUTORS
    <3>2. Strangers(e, {"drive", "auto", "loan", "trace"}) # {}
      BY <3>1 DEF _portfolio_owner_with_nonowner_occupancy, When, No, Outcome
    <3> QED
      BY <1>4, <3>2 DEF FetchedById
  <2>4. OwnerContextComparable(e)
    BY <1>6, <1>9, <2>1, <2>2, <2>3 DEF OwnerContextComparable
  <2>5. RequiredSources[id] = {"tax"}
    BY <1>9 DEF RequiredSources
  <2> QED
    BY <1>1, <1>9, <2>4, <2>5 DEF Runs
<1>10. ASSUME id = "tax_mailing_situs_analysis" PROVE Runs(id, e)
  <2>1. RequiredSources[id] = {"tax"}
    BY <1>10 DEF RequiredSources
  <2> QED
    BY <1>1, <1>10, <2>1 DEF Runs
<1>11. ASSUME NEW s \in SUBSTANTIVE_SOURCES, RequiredSources[id] = {s}, e.rows[s] # {},
              id \in {"loan_tenure_subject_analysis", "drive_address_subject_analysis",
                      "auto_address_subject_analysis", "trace_address_subject_analysis",
                      "utility_subject_occupancy_analysis"}
       PROVE  Runs(id, e)
  <2>1. Counted(e, s)
    BY <1>3, <1>11
  <2> QED
    BY <1>11, <2>1 DEF Runs
<1>12. ASSUME id = "loan_tenure_subject_analysis",
              p \in {"loan_owner_claim_not_supported_by_tax", "nonowner_loan_renter_at_subject",
                     "nonowner_loan_owner_claim_at_subject"}
       PROVE  Runs(id, e)
  <2>1. RequiredSources[id] = {"loan"}
    BY <1>12 DEF RequiredSources
  <2>2. ASSUME p \in {"loan_owner_claim_not_supported_by_tax", "nonowner_loan_owner_claim_at_subject"}
        PROVE  Strangers(e, {"loan"}) # {}
    <3>1. _loan_owner_claim_not_supported_by_tax(e).verdict = "found"
      BY <1>6, <2>2 DEF PATH_EXECUTORS, _nonowner_loan_owner_claim_at_subject
    <3> QED
      BY <3>1, FoundRows DEF _loan_owner_claim_not_supported_by_tax
  <2>3. ASSUME p = "nonowner_loan_renter_at_subject" PROVE Strangers(e, {"loan"}) # {}
    <3>1. _nonowner_loan_renter_at_subject(e).verdict = "found"
      BY <1>6, <2>3 DEF PATH_EXECUTORS
    <3>2. Rows(Renters(e), "strong").verdict = "found"
      BY <3>1 DEF _nonowner_loan_renter_at_subject, Unclear, Outcome
    <3> QED
      BY <3>2, FoundRows DEF Renters
  <2>4. e.rows["loan"] # {}
    BY <1>12, <2>2, <2>3 DEF Strangers, From
  <2> QED
    BY <1>11, <1>12, <2>1, <2>4 DEF SUBSTANTIVE_SOURCES
<1>13. ASSUME NEW s \in {"drive", "auto", "trace"},
              \/ _owner_source_elsewhere(e, s).verdict = "found"
              \/ _nonowner_source_at_subject(e, s).verdict = "found"
       PROVE  e.rows[s] # {}
  <2>1. ASSUME _owner_source_elsewhere(e, s).verdict = "found" PROVE e.rows[s] # {}
    BY <2>1, FoundRows DEF _owner_source_elsewhere, _owner_related_rows_by_id
  <2>2. ASSUME _nonowner_source_at_subject(e, s).verdict = "found" PROVE e.rows[s] # {}
    <3>1. Rows(Strangers(e, {s}), SourceStrength(s)).verdict = "found"
      BY <2>2 DEF _nonowner_source_at_subject, Unclear, Outcome
    <3> QED
      BY <3>1, FoundRows DEF Strangers, From
  <2> QED
    BY <1>13, <2>1, <2>2
<1>14. ASSUME id = "drive_address_subject_analysis",
              p \in {"owner_drive_elsewhere", "nonowner_drive_at_subject"}
       PROVE  Runs(id, e)
  <2>1. RequiredSources[id] = {"drive"}
    BY <1>14 DEF RequiredSources
  <2>2. e.rows["drive"] # {}
    BY <1>6, <1>13, <1>14 DEF PATH_EXECUTORS
  <2> QED
    BY <1>11, <1>14, <2>1, <2>2 DEF SUBSTANTIVE_SOURCES
<1>15. ASSUME id = "auto_address_subject_analysis",
              p \in {"owner_auto_elsewhere", "nonowner_auto_at_subject"}
       PROVE  Runs(id, e)
  <2>1. RequiredSources[id] = {"auto"}
    BY <1>15 DEF RequiredSources
  <2>2. e.rows["auto"] # {}
    BY <1>6, <1>13, <1>15 DEF PATH_EXECUTORS
  <2> QED
    BY <1>11, <1>15, <2>1, <2>2 DEF SUBSTANTIVE_SOURCES
<1>16. ASSUME id = "trace_address_subject_analysis",
              p \in {"owner_trace_elsewhere", "nonowner_trace_at_subject"}
       PROVE  Runs(id, e)
  <2>1. RequiredSources[id] = {"trace"}
    BY <1>16 DEF RequiredSources
  <2>2. e.rows["trace"] # {}
    BY <1>6, <1>13, <1>16 DEF PATH_EXECUTORS
  <2> QED
    BY <1>11, <1>16, <2>1, <2>2 DEF SUBSTANTIVE_SOURCES
<1>17. ASSUME id = "utility_subject_occupancy_analysis",
              p \in {"nonowner_utility_at_subject", "multiple_nonowner_utility_names"}
       PROVE  Runs(id, e)
  <2>1. RequiredSources[id] = {"utility"}
    BY <1>17 DEF RequiredSources
  <2>2. ASSUME p = "nonowner_utility_at_subject" PROVE OtherNames(e) # {}
    <3>1. _nonowner_utility_at_subject(e).verdict = "found"
      BY <1>6, <2>2 DEF PATH_EXECUTORS
    <3> QED
      BY <3>1, FoundRows DEF _nonowner_utility_at_subject
  <2>3. ASSUME p = "multiple_nonowner_utility_names" PROVE OtherNames(e) # {}
    <3>1. _multiple_nonowner_utility_names(e).verdict = "found"
      BY <1>6, <2>3 DEF PATH_EXECUTORS
    <3>2. Cardinality({r.name : r \in OtherNames(e)} \ {NoName}) >= 2
      BY <3>1 DEF _multiple_nonowner_utility_names, When, No, Outcome
    <3>3. {r.name : r \in OtherNames(e)} \ {NoName} # {}
      BY <3>2, FS_EmptySet
    <3> QED
      BY <3>3
  <2>4. e.rows["utility"] # {}
    BY <1>17, <2>2, <2>3 DEF OtherNames
  <2> QED
    BY <1>11, <1>17, <2>1, <2>4 DEF SUBSTANTIVE_SOURCES
<1>18. ASSUME id = "portfolio_primary_comparison_analysis",
              p = "owner_multiple_liened_residential_properties"
       PROVE  Runs(id, e)
  <2>1. RequiredSources[id] = {"tax"}
    BY <1>18 DEF RequiredSources
  <2>2. _owner_multiple_liened_residential_properties(e).verdict = "found"
    BY <1>6, <1>18 DEF PATH_EXECUTORS
  <2>3. Cardinality(Liened(e)) >= 2
    BY <2>2 DEF _owner_multiple_liened_residential_properties, When, No, Outcome
  <2>4. /\ Cardinality(Liened(e)) <= Cardinality(e.rows["tax"])
        /\ Cardinality(Liened(e)) \in Nat /\ Cardinality(e.rows["tax"]) \in Nat
    BY <1>5, FS_Subset, FS_CardinalityType DEF Liened
  <2>5. e.source_counts["tax"] > 1
    BY <1>5, <2>3, <2>4
  <2> QED
    BY <1>1, <1>18, <2>1, <2>5 DEF Runs, PortfolioContext
<1>19. Runs(id, e)
  BY <1>8, <1>9, <1>10, <1>12, <1>14, <1>15, <1>16, <1>17, <1>18 DEF RiskOf
<1> QED
  BY <1>7, <1>19 DEF _gate_decision, e

\* Once the owner is known, whatever the index holds, no gate hides a risk path
\* that would find something, but for the comparison of addresses (the gates of
\* evaluate_gates against the executors of PATH_EXECUTORS).
THEOREM NoRiskHidden == Spec => []GatesHideNoRisk
<1>1. Fresh => GatesHideNoRisk
  <2> SUFFICES ASSUME Fresh, ~IdentityMissing(evidence), NEW p \in reasoning_path_ids,
                      RoleOf[p] = "risk", p # "owner_primary_comparison_elsewhere",
                      PATH_EXECUTORS(evidence)[p].verdict = "found"
               PROVE  p \in TriggeredRisks(report)
    BY DEF GatesHideNoRisk
  <2>1. RiskOf(p, HeuristicOf[p]) /\ HeuristicOf[p] \in heuristic_ids
    BY CatalogueRiskOf
  <2>2. _gate_decision(HeuristicOf[p], evidence) = "run"
    BY <2>1, RiskGateOpen DEF Fresh
  <2>3. Evaluated(evaluate_gates(evidence), p)
    BY <2>1, <2>2 DEF Evaluated, evaluate_gates
  <2>4. Status("risk", "found") = "triggered"
    BY DEF Status
  <2> QED
    BY <2>3, <2>4 DEF Fresh, TriggeredRisks, evaluate_evidence, evaluate_atomic_evidence,
       _evaluate_path
<1> QED
  BY <1>1, EvaluationIsFresh, PTL

-----------------------------------------------------------------------------
(* The paths, a source or a matter at a time.                              *)
PropertyPaths ==
  {"residential_tax_subject", "liened_residential_subject",
   "base_mortgage_or_refi_at_subject"} \cup
  {"foreclosure_or_distress_marker", "company_or_trust_owner",
   "single_family_clean_address_context"} \cup
  {"tax_ownerrescount_portfolio_pattern", "owner_multiple_liened_residential_properties",
   "owner_primary_comparison_elsewhere"}
IdentityPaths ==
  {"tax_owner_identity_present", "same_surname_family_household_context",
   "owner_present_plus_nonowner_renter_context",
   "portfolio_owner_with_nonowner_occupancy"} \cup
  {"repeated_nonowner_cross_source_corroboration", "unrelated_nonowner_legal_presence",
   "base_person_not_tax_owner_at_subject", "owner_base_primary_at_subject"} \cup
  {"tax_owner_mailing_matches_situs", "tax_owner_mailing_differs_from_situs",
   "tax_mailing_subject_but_owner_legal_elsewhere"}
LoanPaths ==
  {"loan_owner_claim_not_supported_by_tax", "owner_loan_rent_conflict",
   "owner_loan_own_at_subject"} \cup
  {"nonowner_loan_renter_at_subject", "nonowner_loan_owner_claim_at_subject",
   "owner_loan_elsewhere"}
AddressPaths ==
  {"owner_drive_at_subject", "owner_drive_elsewhere", "nonowner_drive_at_subject"} \cup
  {"owner_auto_at_subject", "owner_auto_elsewhere", "nonowner_auto_at_subject"} \cup
  {"owner_trace_at_subject", "owner_trace_elsewhere", "nonowner_trace_at_subject"}
LegalPaths ==
  {"owner_legal_records_conflict", "auto_only_owner_elsewhere_discount",
   "auto_at_subject_but_stronger_legal_elsewhere"}
UtilityPaths ==
  {"owner_utility_at_subject", "nonowner_utility_at_subject",
   "multiple_nonowner_utility_names", "owner_utility_plus_nonowner_utility_context"}
QualityPaths ==
  {"utility_only_no_dates_discount", "trace_only_presence_discount",
   "missing_dates_confidence_discount", "stale_or_missing_mortgage_exposure"} \cup
  {"same_person_name_variant_ambiguity", "malformed_address_equivalence",
   "unit_collapsed_address_ambiguity", "integrated_internal_occupancy_verdict"}
AllPaths ==
  PropertyPaths \cup IdentityPaths \cup LoanPaths \cup AddressPaths \cup LegalPaths
    \cup UtilityPaths \cup QualityPaths

\* The catalogue has no other path.
LEMMA CataloguePaths == reasoning_path_ids \subseteq AllPaths
<1> USE DEF AllPaths
<1>1. ASSUME NEW h \in ATOMIC_HEURISTICS, NEW p \in DOMAIN h.roles
      PROVE p \in AllPaths
  <2>1. CASE h \in {ResidentialTax, LienedResidential, BaseMortgage, Foreclosure,
                    CompanyOwner, SingleFamily, OwnerResCount}
    BY <1>1, <2>1 DEF PropertyPaths, Single, ResidentialTax, LienedResidential,
       BaseMortgage, Foreclosure, CompanyOwner, SingleFamily, OwnerResCount
  <2>2. CASE h = PortfolioComparison
    BY <1>1, <2>2 DEF PropertyPaths, Family, PortfolioComparison
  <2>3. CASE h \in {OwnerIdentity, TaxMailing, BaseAlignment}
    BY <1>1, <2>3 DEF IdentityPaths, Family, OwnerIdentity, TaxMailing, BaseAlignment
  <2>4. CASE h \in {LoanTenure, OwnerLoanElsewhere}
    BY <1>1, <2>4 DEF LoanPaths, Family, Single, LoanTenure, OwnerLoanElsewhere
  <2>5. CASE h \in {DriveAddress, AutoAddress, TraceAddress}
    BY <1>1, <2>5 DEF AddressPaths, Family, DriveAddress, AutoAddress, TraceAddress
  <2>6. CASE h \in {LegalConflict, AutoOnlyDiscount, StrongerLegalElsewhere}
    BY <1>1, <2>6 DEF LegalPaths, Single, LegalConflict, AutoOnlyDiscount,
       StrongerLegalElsewhere
  <2>7. CASE h = UtilityOccupancy
    BY <1>1, <2>7 DEF UtilityPaths, Family, UtilityOccupancy
  <2>8. CASE h \in {EvidenceQuality, UtilityOnlyDiscount, TraceOnlyDiscount}
    BY <1>1, <2>8 DEF QualityPaths, Family, Single, EvidenceQuality, UtilityOnlyDiscount,
       TraceOnlyDiscount
  <2> QED
    BY <2>1, <2>2, <2>3, <2>4, <2>5, <2>6, <2>7, <2>8 DEF ATOMIC_HEURISTICS
<1> QED
  BY <1>1 DEF reasoning_path_ids

\* They are finitely many.
LEMMA FinitelyManyPaths == IsFiniteSet(reasoning_path_ids)
<1>1. \A a, b, c, d : IsFiniteSet({a, b, c, d})
  <2> TAKE a, b, c, d
  <2>1. {a, b, c, d} = (({a} \cup {b}) \cup {c}) \cup {d}
    OBVIOUS
  <2>2. IsFiniteSet({a} \cup {b})
    BY FS_Singleton, FS_AddElement
  <2>3. IsFiniteSet(({a} \cup {b}) \cup {c})
    BY <2>2, FS_AddElement
  <2>4. IsFiniteSet((({a} \cup {b}) \cup {c}) \cup {d})
    BY <2>3, FS_AddElement
  <2> QED
    BY <2>1, <2>4
<1>2. \A a, b, c : IsFiniteSet({a, b, c})
  <2> TAKE a, b, c
  <2>1. {a, b, c} = {a, b, c, c}
    OBVIOUS
  <2> QED
    BY <1>1, <2>1
<1>3. IsFiniteSet(PropertyPaths) /\ IsFiniteSet(IdentityPaths)
  BY <1>1, <1>2, FS_Union DEF PropertyPaths, IdentityPaths
<1>4. IsFiniteSet(LoanPaths) /\ IsFiniteSet(AddressPaths) /\ IsFiniteSet(LegalPaths)
  BY <1>2, FS_Union DEF LoanPaths, AddressPaths, LegalPaths
<1>5. IsFiniteSet(UtilityPaths) /\ IsFiniteSet(QualityPaths)
  BY <1>1, FS_Union DEF UtilityPaths, QualityPaths
<1>6. IsFiniteSet(AllPaths)
  BY <1>3, <1>4, <1>5, FS_Union DEF AllPaths
<1> QED
  BY <1>6, CataloguePaths, FS_Subset

\* What any path cites is rows of the index.
LEMMA RefsAreRows ==
  ASSUME NEW rows, NEW q, NEW p \in reasoning_path_ids
  PROVE  PATH_EXECUTORS(build_evidence(rows, q))[p].refs \subseteq rows
<1> DEFINE e == build_evidence(rows, q)
<1>1. \A s \in SUBSTANTIVE_SOURCES : e.rows[s] \subseteq rows
  BY EvidenceRows
<1> HIDE DEF e
<1> SUFFICES PATH_EXECUTORS(e)[p].refs \subseteq rows
  BY DEF e
<1>2. \A S \in SUBSET SUBSTANTIVE_SOURCES :
        /\ From(e, S) \subseteq rows
        /\ Strangers(e, S) \subseteq rows /\ Owners(e, S) \subseteq rows
  BY <1>1 DEF From, Strangers, Owners
<1>3. \A s \in SUBSTANTIVE_SOURCES : _owner_related_rows_by_id(e, s) \subseteq rows
  BY <1>1 DEF _owner_related_rows_by_id
<1>4. \A S \in SUBSET SUBSTANTIVE_SOURCES : _owner_elsewhere_rows(e, S) \subseteq rows
  BY <1>3 DEF _owner_elsewhere_rows
<1>5. PersonSources \in SUBSET SUBSTANTIVE_SOURCES
  BY DEF PersonSources, SUBSTANTIVE_SOURCES
<1>6. /\ \A s \in {"tax", "base", "loan", "drive", "auto", "trace", "utility"} :
           e.rows[s] \subseteq rows
      /\ Strangers(e, PersonSources) \subseteq rows
      /\ Strangers(e, {"base"}) \subseteq rows /\ Owners(e, {"base"}) \subseteq rows
      /\ Strangers(e, {"loan"}) \subseteq rows /\ Owners(e, {"loan"}) \subseteq rows
      /\ Strangers(e, {"drive", "auto"}) \subseteq rows
      /\ Owners(e, {"drive", "auto"}) \subseteq rows
      /\ _owner_elsewhere_rows(e, {"drive", "auto"}) \subseteq rows
  BY <1>1, <1>2, <1>4, <1>5 DEF SUBSTANTIVE_SOURCES
<1>7. /\ \A S : _refs(S) \subseteq S /\ _refs_multi(S) \subseteq S
      /\ \A S, strength : /\ Rows(S, strength).refs \subseteq S
                          /\ RowsOfMany(S, strength).refs \subseteq S
  BY CitedAmongFound
<1>8. \A found, S, strength : When(found, strength, S).refs \subseteq S
  BY DEF When, No, Outcome
<1>9. No.refs = {} /\ \A S : Unclear(S).refs = S
  BY DEF No, Unclear, Outcome
<1>10. CASE p \in PropertyPaths
  BY <1>6, <1>7, <1>8, <1>10 DEF PropertyPaths, PATH_EXECUTORS,
     _residential_tax_subject, _liened_residential_subject, Liened,
     _base_mortgage_or_refi_at_subject, _foreclosure_or_distress_marker,
     _company_or_trust_owner, _single_family_clean_address_context,
     _tax_ownerrescount_portfolio_pattern, _portfolio_rows,
     _owner_multiple_liened_residential_properties, _owner_primary_comparison_elsewhere
<1>11. CASE p \in IdentityPaths
  <2>1. CASE p = "tax_owner_identity_present"
    BY <1>6, <1>7, <1>9, <2>1 DEF PATH_EXECUTORS, _tax_owner_identity_present, Outcome
  <2>2. CASE p = "same_surname_family_household_context"
    BY <1>6, <1>7, <2>2 DEF PATH_EXECUTORS, _same_surname_family_household_context
  <2>6. CASE p = "repeated_nonowner_cross_source_corroboration"
    <3>1. \A n : _refs_multi({r \in Strangers(e, PersonSources) : r.name = n}) \subseteq rows
      BY <1>6, <1>7
    <3>2. \A N : UNION {_refs_multi({r \in Strangers(e, PersonSources) : r.name = n}) : n \in N}
                   \subseteq rows
      BY <3>1
    <3>3. PATH_EXECUTORS(e)[p] = _repeated_nonowner_cross_source_corroboration(e)
      BY <2>6 DEF PATH_EXECUTORS
    <3>4. _repeated_nonowner_cross_source_corroboration(e).refs \subseteq rows
      BY <1>8, <3>2 DEF _repeated_nonowner_cross_source_corroboration
    <3> QED
      BY <3>3, <3>4
  <2>7. CASE p = "unrelated_nonowner_legal_presence"
    <3>1. PATH_EXECUTORS(e)[p] = _unrelated_nonowner_legal_presence(e)
      BY <2>7 DEF PATH_EXECUTORS
    <3>2. _unrelated_nonowner_legal_presence(e).refs \subseteq rows
      BY <1>6, <1>7 DEF _unrelated_nonowner_legal_presence
    <3> QED
      BY <3>1, <3>2
  <2>3. CASE p = "owner_present_plus_nonowner_renter_context"
    BY <2>3 DEF PATH_EXECUTORS, _owner_present_plus_nonowner_renter_context,
       When, No, Outcome
  <2>8. CASE p = "portfolio_owner_with_nonowner_occupancy"
    <3>1. _portfolio_rows(e) \subseteq rows
      BY <1>6 DEF _portfolio_rows
    <3> QED
      BY <1>7, <2>8, <3>1 DEF PATH_EXECUTORS, _portfolio_owner_with_nonowner_occupancy,
         When, No, Outcome
  <2>4. CASE p \in {"base_person_not_tax_owner_at_subject", "owner_base_primary_at_subject",
                    "tax_owner_mailing_matches_situs", "tax_owner_mailing_differs_from_situs"}
    BY <1>6, <1>7, <2>4 DEF PATH_EXECUTORS, _base_person_not_tax_owner_at_subject,
       _owner_base_primary_at_subject, _tax_owner_mailing_matches_situs,
       _tax_owner_mailing_differs_from_situs
  <2>5. CASE p = "tax_mailing_subject_but_owner_legal_elsewhere"
    BY <1>6, <1>7, <1>9, <2>5
       DEF PATH_EXECUTORS, _tax_mailing_subject_but_owner_legal_elsewhere
  <2> QED
    BY <1>11, <2>1, <2>2, <2>3, <2>4, <2>5, <2>6, <2>7, <2>8 DEF IdentityPaths
<1>12. CASE p \in LoanPaths
  <2>1. _owner_related_rows_by_id(e, "loan") \subseteq rows
    BY <1>3 DEF SUBSTANTIVE_SOURCES
  <2>2. CASE p \in {"loan_owner_claim_not_supported_by_tax", "owner_loan_rent_conflict",
                    "owner_loan_own_at_subject", "nonowner_loan_owner_claim_at_subject",
                    "owner_loan_elsewhere"}
    BY <1>6, <1>7, <2>1, <2>2 DEF PATH_EXECUTORS, _loan_owner_claim_not_supported_by_tax,
       _owner_loan_rent_conflict, _owner_loan_own_at_subject,
       _nonowner_loan_owner_claim_at_subject, _owner_loan_elsewhere
  <2>3. CASE p = "nonowner_loan_renter_at_subject"
    BY <1>6, <1>7, <1>9, <2>3 DEF PATH_EXECUTORS, _nonowner_loan_renter_at_subject, Renters
  <2> QED
    BY <1>12, <2>2, <2>3 DEF LoanPaths
<1>13. ASSUME NEW s \in {"drive", "auto", "trace"}
       PROVE  /\ _owner_source_at_subject(e, s).refs \subseteq rows
              /\ _owner_source_elsewhere(e, s).refs \subseteq rows
              /\ _nonowner_source_at_subject(e, s).refs \subseteq rows
  <2>1. /\ Owners(e, {s}) \subseteq rows /\ Strangers(e, {s}) \subseteq rows
        /\ _owner_related_rows_by_id(e, s) \subseteq rows
    BY <1>2, <1>3 DEF SUBSTANTIVE_SOURCES
  <2>2. _owner_source_at_subject(e, s).refs \subseteq rows
    BY <1>7, <2>1 DEF _owner_source_at_subject
  <2>3. _owner_source_elsewhere(e, s).refs \subseteq rows
    BY <1>7, <2>1 DEF _owner_source_elsewhere
  <2>5. _refs(e.rows[s]) \subseteq rows
    BY <1>6, <1>7, <1>13
  <2>4. _nonowner_source_at_subject(e, s).refs \subseteq rows
    BY <1>7, <1>9, <2>1, <2>5 DEF _nonowner_source_at_subject
  <2> QED
    BY <2>2, <2>3, <2>4
<1>14. CASE p \in AddressPaths
  BY <1>13, <1>14 DEF AddressPaths, PATH_EXECUTORS
<1>15. CASE p \in LegalPaths
  <2>1. CASE p = "owner_legal_records_conflict"
    BY <1>6, <1>7, <1>8, <2>1 DEF PATH_EXECUTORS, _owner_legal_records_conflict
  <2>2. CASE p = "auto_only_owner_elsewhere_discount"
    <3>1. _owner_source_elsewhere(e, "auto").refs \subseteq rows
      BY <1>13
    <3>2. _auto_only_owner_elsewhere_discount(e).refs
            \subseteq _owner_source_elsewhere(e, "auto").refs
      BY <1>8 DEF _auto_only_owner_elsewhere_discount
    <3> QED
      BY <2>2, <3>1, <3>2 DEF PATH_EXECUTORS
  <2>3. CASE p = "auto_at_subject_but_stronger_legal_elsewhere"
    <3>1. \A C \in SUBSET (e.rows["auto"] \X e.rows["drive"]) :
            {y[1] : y \in C} \cup {y[2] : y \in C} \subseteq rows
      BY <1>6
    <3>2. PATH_EXECUTORS(e)[p] = _auto_at_subject_but_stronger_legal_elsewhere(e)
      BY <2>3 DEF PATH_EXECUTORS
    <3>3. _auto_at_subject_but_stronger_legal_elsewhere(e).refs \subseteq rows
      <4>1. PICK C \in SUBSET (e.rows["auto"] \X e.rows["drive"]), found \in BOOLEAN :
              _auto_at_subject_but_stronger_legal_elsewhere(e)
                = When(found, "weak", {y[1] : y \in C} \cup {y[2] : y \in C})
        BY DEF _auto_at_subject_but_stronger_legal_elsewhere
      <4> QED
        BY <1>8, <3>1, <4>1
    <3> QED
      BY <3>2, <3>3
  <2> QED
    BY <1>15, <2>1, <2>2, <2>3 DEF LegalPaths
<1>16. CASE p \in UtilityPaths
  BY <1>6, <1>7, <1>8, <1>16 DEF UtilityPaths, PATH_EXECUTORS, _owner_utility_at_subject,
     _nonowner_utility_at_subject, _multiple_nonowner_utility_names,
     _owner_utility_plus_nonowner_utility_context, OwnerNames, OtherNames
<1>17. CASE p \in QualityPaths
  <2>1. CASE p \in {"utility_only_no_dates_discount", "trace_only_presence_discount"}
    BY <1>6, <1>7, <1>8, <2>1 DEF PATH_EXECUTORS, _utility_only_no_dates_discount,
       _trace_only_presence_discount
  <2>2. CASE p \in {"missing_dates_confidence_discount", "malformed_address_equivalence"}
    BY <1>8, <2>2 DEF PATH_EXECUTORS, _missing_dates_confidence_discount,
       _malformed_address_equivalence
  <2>3. CASE p \in {"stale_or_missing_mortgage_exposure", "same_person_name_variant_ambiguity"}
    BY <2>3 DEF PATH_EXECUTORS, _stale_or_missing_mortgage_exposure,
       _same_person_name_variant_ambiguity, When, No, Outcome
  <2>4. CASE p = "unit_collapsed_address_ambiguity"
    BY <1>6, <1>7, <2>4 DEF PATH_EXECUTORS, _unit_collapsed_address_ambiguity
  <2>5. CASE p = "integrated_internal_occupancy_verdict"
    BY <2>5 DEF PATH_EXECUTORS, _integrated_internal_occupancy_verdict, Outcome
  <2> QED
    BY <1>17, <2>1, <2>2, <2>3, <2>4, <2>5 DEF QualityPaths
<1> QED
  BY <1>10, <1>11, <1>12, <1>14, <1>15, <1>16, <1>17, CataloguePaths DEF AllPaths

-----------------------------------------------------------------------------
(* The packets' gates. *)

\* A packet of at least one heuristic whose gate is open.
Supported(packet, e) == \E id \in PACKETS[packet] : evaluate_gates(e)[id] = "run"

\* The heuristics whose gates ask for the rows of their source alone.
LEMMA SourceGates ==
  ASSUME NEW e
  PROVE  /\ Counted(e, "tax") =>
              /\ evaluate_gates(e)["residential_tax_subject"] = "run"
              /\ evaluate_gates(e)["tax_mailing_situs_analysis"] = "run"
              /\ evaluate_gates(e)["tax_ownerrescount_portfolio_pattern"] = "run"
         /\ Counted(e, "base") =>
              evaluate_gates(e)["base_mortgage_or_refi_at_subject"] = "run"
         /\ Counted(e, "loan") => evaluate_gates(e)["loan_tenure_subject_analysis"] = "run"
         /\ Counted(e, "drive") => evaluate_gates(e)["drive_address_subject_analysis"] = "run"
         /\ Counted(e, "auto") => evaluate_gates(e)["auto_address_subject_analysis"] = "run"
         /\ Counted(e, "trace") => evaluate_gates(e)["trace_address_subject_analysis"] = "run"
         /\ Counted(e, "utility") =>
              evaluate_gates(e)["utility_subject_occupancy_analysis"] = "run"
<1> DEFINE asks == [residential_tax_subject |-> "tax", tax_mailing_situs_analysis |-> "tax",
                    tax_ownerrescount_portfolio_pattern |-> "tax",
                    base_mortgage_or_refi_at_subject |-> "base",
                    loan_tenure_subject_analysis |-> "loan",
                    drive_address_subject_analysis |-> "drive",
                    auto_address_subject_analysis |-> "auto",
                    trace_address_subject_analysis |-> "trace",
                    utility_subject_occupancy_analysis |-> "utility"]
<1>1. ASSUME NEW id \in DOMAIN asks
      PROVE  id \in heuristic_ids
  <2>1. \E h \in ATOMIC_HEURISTICS : h.id = id
    BY DEF ATOMIC_HEURISTICS, Single, Family, ResidentialTax, TaxMailing, OwnerResCount,
       BaseMortgage, LoanTenure, DriveAddress, AutoAddress, TraceAddress, UtilityOccupancy
  <2> QED
    BY <2>1 DEF heuristic_ids
<1>2. ASSUME NEW id \in DOMAIN asks, Counted(e, asks[id])
      PROVE  evaluate_gates(e)[id] = "run"
  <2>1. RequiredSources[id] = {asks[id]}
    BY <1>1 DEF RequiredSources
  <2>2. ~RunsForAbsence(id, e)
    BY DEF RunsForAbsence
  <2>3. Runs(id, e)
    BY <1>2, <2>1 DEF Runs
  <2> QED
    BY <1>1, <2>2, <2>3 DEF evaluate_gates, _gate_decision
<1> QED
  BY <1>2

\* The fields a packet's gate asks for are in rows that are counted, and their
\* source opens the gate of one of the packet's heuristics.
LEMMA FieldsAreSupported ==
  ASSUME NEW rows, NEW q, IsFiniteSet(rows),
         NEW packet \in packet_ids \ {"case_quality_and_synthesis"},
         _evaluate_packet_field_gate(packet, build_evidence(rows, q)),
         packet # "portfolio_and_primary_comparison" \/ Counted(build_evidence(rows, q), "tax")
  PROVE  Supported(packet, build_evidence(rows, q))
<1> DEFINE e == build_evidence(rows, q)
<1>1. \A s \in SUBSTANTIVE_SOURCES : e.rows[s] # {} => Counted(e, s)
  BY CountsAreRows
<1>2. /\ _evaluate_packet_field_gate(packet, e)
      /\ packet # "portfolio_and_primary_comparison" \/ Counted(e, "tax")
  OBVIOUS
<1> HIDE DEF e
<1> SUFFICES Supported(packet, e)
  BY DEF e
<1>3. CASE packet = "property_tax_context"
  <2>1. e.rows["tax"] # {} \/ e.rows["base"] # {}
    BY <1>2, <1>3 DEF _evaluate_packet_field_gate, _field_gate_property_tax_context
  <2>2. Counted(e, "tax") \/ Counted(e, "base")
    BY <1>1, <2>1 DEF SUBSTANTIVE_SOURCES
  <2> QED
    BY <1>3, <2>2, SourceGates DEF Supported, PACKETS
<1>4. CASE packet = "owner_identity_and_mailing"
  <2>1. e.rows["tax"] # {}
    BY <1>2, <1>4 DEF _evaluate_packet_field_gate, _field_gate_owner_identity_and_mailing
  <2>2. Counted(e, "tax")
    BY <1>1, <2>1 DEF SUBSTANTIVE_SOURCES
  <2> QED
    BY <1>4, <2>2, SourceGates DEF Supported, PACKETS
<1>5. CASE packet = "subject_occupancy_surfaces"
  <2>1. e.rows["trace"] # {} \/ e.rows["utility"] # {}
    BY <1>2, <1>5 DEF _evaluate_packet_field_gate, _field_gate_subject_occupancy_surfaces, From
  <2>2. Counted(e, "trace") \/ Counted(e, "utility")
    BY <1>1, <2>1 DEF SUBSTANTIVE_SOURCES
  <2> QED
    BY <1>5, <2>2, SourceGates DEF Supported, PACKETS
<1>6. CASE packet = "legal_address_presence"
  <2>1. e.rows["drive"] # {} \/ e.rows["auto"] # {}
    BY <1>2, <1>6 DEF _evaluate_packet_field_gate, _field_gate_legal_address_presence, From
  <2>2. Counted(e, "drive") \/ Counted(e, "auto")
    BY <1>1, <2>1 DEF SUBSTANTIVE_SOURCES
  <2> QED
    BY <1>6, <2>2, SourceGates DEF Supported, PACKETS
<1>7. CASE packet = "loan_tenure"
  <2>1. e.rows["loan"] # {}
    BY <1>2, <1>7 DEF _evaluate_packet_field_gate, _field_gate_loan_tenure
  <2>2. Counted(e, "loan")
    BY <1>1, <2>1 DEF SUBSTANTIVE_SOURCES
  <2> QED
    BY <1>7, <2>2, SourceGates DEF Supported, PACKETS
<1>8. CASE packet = "portfolio_and_primary_comparison"
  <2>1. Counted(e, "tax")
    BY <1>2, <1>8
  <2> QED
    BY <1>8, <2>1, SourceGates DEF Supported, PACKETS
<1> QED
  BY <1>3, <1>4, <1>5, <1>6, <1>7, <1>8 DEF packet_ids, PACKETS

\* Without its rows the evidence of a case counts and hints the same.
LEMMA CountsGateAlike ==
  ASSUME NEW rows, NEW q
  PROVE  LET e == build_evidence(rows, q)
             f == _evidence_from_report_dict(e)
         IN  /\ evaluate_gates(f) = evaluate_gates(e)
             /\ _has_no_row_payload(f)
             /\ Counted(f, "tax") <=> Counted(e, "tax")
<1> DEFINE e == build_evidence(rows, q)
           f == _evidence_from_report_dict(e)
<1>1. /\ f.source_counts = e.source_counts /\ f.owner_summaries = e.owner_summaries
      /\ f.owner_presence_hints = e.owner_presence_hints
      /\ f.owner_elsewhere_hints = e.owner_elsewhere_hints
      /\ f.nonowner_occupancy_hints = e.nonowner_occupancy_hints
      /\ f.rows = [s \in SUBSTANTIVE_SOURCES |-> {}]
  BY DEF _evidence_from_report_dict, build_evidence
<1> HIDE DEF e, f
<1>2. \A s : Counted(f, s) <=> Counted(e, s)
  BY <1>1 DEF Counted
<1>3. /\ _has_hints(f) <=> _has_hints(e)
      /\ _owner_count(f) = _owner_count(e)
  BY <1>1 DEF _has_hints, _owner_count
<1>4. IdentityMissing(f) <=> IdentityMissing(e)
  BY <1>2, <1>3 DEF IdentityMissing
<1>5. \A S : AnyOf(f, S) <=> AnyOf(e, S)
  BY <1>2 DEF AnyOf
<1>6. /\ OwnerContextComparable(f) <=> OwnerContextComparable(e)
      /\ PortfolioContext(f) <=> PortfolioContext(e)
  BY <1>1, <1>3, <1>4, <1>5 DEF OwnerContextComparable, PortfolioContext, _has_portfolio_hint
<1>7. \A id : (RunsForAbsence(id, f) <=> RunsForAbsence(id, e)) /\ (Runs(id, f) <=> Runs(id, e))
  BY <1>2, <1>3, <1>4, <1>5, <1>6 DEF RunsForAbsence, Runs
<1>8. evaluate_gates(f) = evaluate_gates(e)
  BY <1>7 DEF evaluate_gates, _gate_decision
<1>9. _has_no_row_payload(f)
  BY <1>1 DEF _has_no_row_payload
<1> QED
  BY <1>2, <1>8, <1>9 DEF e, f

\* Every report is well formed: the gates decide for every heuristic and
\* packet, only paths of the catalogue are reported, and they cite rows of the
\* index.
THEOREM ReportsWellFormed == Spec => []TypeOK
<1>1. Fresh => TypeOK
  <2> SUFFICES ASSUME Fresh PROVE TypeOK
    OBVIOUS
  <2>1. report.atomic.gates \in [heuristic_ids -> {"run", "run_for_absence", "skip"}]
    BY DEF Fresh, evaluate_evidence, evaluate_atomic_evidence, evaluate_gates, _gate_decision
  <2>2. DOMAIN report.atomic.paths \subseteq reasoning_path_ids
    BY DEF Fresh, evaluate_evidence, evaluate_atomic_evidence
  <2>3. ASSUME NEW p \in DOMAIN report.atomic.paths
        PROVE  report.atomic.paths[p].refs \subseteq db
    <3> DEFINE e == build_evidence(db, query)
    <3>1. report = evaluate_evidence(e)
      BY DEF Fresh
    <3>2. p \in reasoning_path_ids
      BY <2>2
    <3>3. PATH_EXECUTORS(e)[p].refs \subseteq db
      BY <3>2, RefsAreRows
    <3> HIDE DEF e
    <3>4. p \in DOMAIN evaluate_evidence(e).atomic.paths
      BY <3>1
    <3>5. report.atomic.paths[p].refs = PATH_EXECUTORS(e)[p].refs
      BY <3>1, <3>4, CitedRows
    <3> QED
      BY <3>3, <3>5
  <2>4. report.packets \in [packet_ids -> {"run", "run_for_absence", "skip"}]
    <3>1. ASSUME NEW packet \in packet_ids, NEW gates
          PROVE  evaluate_packet_gate(packet, evidence, gates)
                   \in {"run", "run_for_absence", "skip"}
      BY DEF evaluate_packet_gate
    <3> QED
      BY <3>1 DEF Fresh, evaluate_evidence, evaluate_packet_gates
  <2> QED
    BY <2>1, <2>2, <2>3, <2>4 DEF Fresh, TypeOK
<1> QED
  BY <1>1, EvaluationIsFresh, PTL

\* Whatever the index holds, the gates decided from the counts and hints of a
\* case, as the orchestrator has them, skip no packet that the rows would run,
\* but for the portfolio of an address without tax rows.
THEOREM CountsNeverSkip == Spec => []CountsSkipNoPacket
<1>1. Fresh /\ TypeOK => CountsSkipNoPacket
  <2> DEFINE counted == _evidence_from_report_dict(evidence)
  <2> SUFFICES ASSUME Fresh, TypeOK, NEW packet \in packet_ids,
                      report.packets[packet] = "run",
                      packet # "portfolio_and_primary_comparison" \/ Counted(evidence, "tax")
               PROVE  evaluate_packet_gates(counted)[packet] = "run"
    BY DEF CountsSkipNoPacket
  <2>1. evidence = build_evidence(db, query) /\ IsFiniteSet(db)
    BY DEF Fresh
  <2>2. /\ evaluate_gates(counted) = evaluate_gates(evidence)
        /\ _has_no_row_payload(counted)
        /\ Counted(counted, "tax") <=> Counted(evidence, "tax")
    BY <2>1, CountsGateAlike
  <2>3. report.packets[packet]
          = evaluate_packet_gate(packet, evidence, evaluate_gates(evidence))
    BY DEF Fresh, evaluate_evidence, evaluate_packet_gates
  <2> HIDE DEF counted
  <2>4. CASE packet = "case_quality_and_synthesis"
    BY <2>2, <2>3, <2>4 DEF evaluate_packet_gates, evaluate_packet_gate
  <2>5. CASE packet # "case_quality_and_synthesis"
    <3>1. \/ _evaluate_packet_field_gate(packet, evidence)
          \/ Supported(packet, evidence)
      BY <2>3, <2>5 DEF evaluate_packet_gate, Supported
    <3>2. Supported(packet, evidence)
      BY <2>1, <2>5, <3>1, FieldsAreSupported
    <3>3. Supported(packet, counted)
      BY <2>2, <3>2 DEF Supported
    <3> QED
      BY <2>2, <2>5, <3>3 DEF evaluate_packet_gates, evaluate_packet_gate, Supported
  <2> QED
    BY <2>4, <2>5
<1> QED
  BY <1>1, ReportsWellFormed, EvaluationIsFresh, PTL

-----------------------------------------------------------------------------
(* Scores. *)

\* What a report says of a triggered risk: its heuristic ran and its executor
\* found something of some strength.
LEMMA TriggeredRisk ==
  ASSUME NEW e, NEW p
  PROVE  p \in TriggeredRisks(evaluate_evidence(e)) <=>
           /\ p \in RiskPaths /\ p \in reasoning_path_ids /\ RoleOf[p] = "risk"
           /\ Evaluated(evaluate_gates(e), p)
           /\ PATH_EXECUTORS(e)[p].verdict = "found"
<1>1. p \in TriggeredRisks(evaluate_evidence(e)) <=>
        /\ p \in reasoning_path_ids /\ RoleOf[p] = "risk"
        /\ Evaluated(evaluate_gates(e), p)
        /\ Status("risk", PATH_EXECUTORS(e)[p].verdict) = "triggered"
  BY DEF TriggeredRisks, evaluate_evidence, evaluate_atomic_evidence, _evaluate_path
<1>2. Status("risk", "found") = "triggered"
  BY DEF Status
<1>3. ASSUME p \in RiskPaths, Status("risk", PATH_EXECUTORS(e)[p].verdict) = "triggered"
      PROVE  PATH_EXECUTORS(e)[p].verdict = "found"
  <2>1. PATH_EXECUTORS(e)[p].verdict \in {"found", "no", "unclear"}
    BY <1>3, RiskVerdict DEF WellJudged
  <2> QED
    BY <1>3, <2>1 DEF Status
<1> QED
  BY <1>1, <1>2, <1>3, CatalogueRisks

\* The path of tax mail that matches the subject while a licence points elsewhere
\* triggers in no report: its executor asks the one of the mailing under its own
\* role, where no status is "context".
THEOREM LegalElsewhereNeverTriggers ==
  Spec => []("tax_mailing_subject_but_owner_legal_elsewhere" \notin TriggeredRisks(report))
<1> DEFINE p == "tax_mailing_subject_but_owner_legal_elsewhere"
<1>1. ASSUME Fresh, p \in TriggeredRisks(report)
      PROVE  FALSE
  <2>1. RoleOf[p] = "risk" /\ PATH_EXECUTORS(evidence)[p].verdict = "found"
    BY <1>1, TriggeredRisk DEF Fresh
  <2>2. Status("risk", _tax_owner_mailing_matches_situs(evidence).verdict) # "context"
    BY DEF Status
  <2>3. PATH_EXECUTORS(evidence)[p] = No
    BY <2>1, <2>2 DEF PATH_EXECUTORS, _tax_mailing_subject_but_owner_legal_elsewhere
  <2>4. QED
    BY <2>1, <2>3 DEF No, Outcome
<1>2. Fresh => p \notin TriggeredRisks(report)
  BY <1>1
<1>3. QED
  BY <1>2, EvaluationIsFresh, PTL

\* The weight of a path: that of its strength if it is a triggered risk.
LEMMA PathWeights ==
  ASSUME NEW e, NEW p \in DOMAIN evaluate_evidence(e).atomic.paths
  PROVE  LET rep == evaluate_evidence(e).atomic
         IN  /\ _path_weight(rep, p) \in Nat
             /\ p \in TriggeredRisks(evaluate_evidence(e)) =>
                  _path_weight(rep, p) = weights[PATH_EXECUTORS(e)[p].strength]
             /\ p \notin TriggeredRisks(evaluate_evidence(e)) => _path_weight(rep, p) = 0
<1> DEFINE rep == evaluate_evidence(e).atomic
<1>1. rep.paths[p].strength = PATH_EXECUTORS(e)[p].strength
  BY DEF evaluate_evidence, evaluate_atomic_evidence, _evaluate_path
<1>2. p \in TriggeredRisks(evaluate_evidence(e))
        <=> rep.paths[p].status = "triggered" /\ RoleOf[p] = "risk"
  BY DEF TriggeredRisks
<1> HIDE DEF rep
<1>3. CASE p \in TriggeredRisks(evaluate_evidence(e))
  <2>1. _path_weight(rep, p) = weights[PATH_EXECUTORS(e)[p].strength]
    BY <1>1, <1>2, <1>3 DEF _path_weight
  <2>2. PATH_EXECUTORS(e)[p].strength \in {"none", "weak", "moderate", "strong"}
    BY <1>3, TriggeredRisk, RiskVerdict DEF WellJudged
  <2>3. weights[PATH_EXECUTORS(e)[p].strength] \in Nat
    BY <2>2 DEF weights
  <2> QED
    BY <1>3, <2>1, <2>3 DEF rep
<1>4. CASE p \notin TriggeredRisks(evaluate_evidence(e))
  <2>1. _path_weight(rep, p) = 0
    BY <1>2, <1>4 DEF _path_weight
  <2> QED
    BY <1>4, <2>1 DEF rep
<1> QED
  BY <1>3, <1>4

\* The reported paths are finitely many.
LEMMA ReportedPaths ==
  ASSUME NEW e
  PROVE  /\ DOMAIN evaluate_evidence(e).atomic.paths \subseteq reasoning_path_ids
         /\ IsFiniteSet(DOMAIN evaluate_evidence(e).atomic.paths)
         /\ TriggeredRisks(evaluate_evidence(e)) \subseteq DOMAIN evaluate_evidence(e).atomic.paths
<1>1. DOMAIN evaluate_evidence(e).atomic.paths \subseteq reasoning_path_ids
  BY DEF evaluate_evidence, evaluate_atomic_evidence
<1>2. IsFiniteSet(DOMAIN evaluate_evidence(e).atomic.paths)
  BY <1>1, FinitelyManyPaths, FS_Subset
<1> QED
  BY <1>1, <1>2 DEF TriggeredRisks

\* The ranks of the sources, and their weights the other way round.
LEMMA SourceRanks ==
  /\ DOMAIN SOURCE_RELIABILITY_WEIGHTS = {"tax", "loan", "auto", "drive", "utility"}
  /\ \A s \in DOMAIN SOURCE_RELIABILITY_WEIGHTS :
       _source_rank(s) \in Nat /\ SOURCE_RELIABILITY_WEIGHTS[s] \in Nat
  /\ \A s, t \in DOMAIN SOURCE_RELIABILITY_WEIGHTS :
       _source_rank(s) <= _source_rank(t) =>
         /\ SOURCE_RELIABILITY_WEIGHTS[s] >= SOURCE_RELIABILITY_WEIGHTS[t]
         /\ t \notin {"drive", "utility"} => s \notin {"drive", "utility"}
  /\ \A s, t \in DOMAIN SOURCE_RELIABILITY_WEIGHTS :
       (/\ s \notin {"drive", "utility"}
        /\ SOURCE_RELIABILITY_WEIGHTS[s] <= SOURCE_RELIABILITY_WEIGHTS[t])
       => t \notin {"drive", "utility"}
  /\ \A s \in DOMAIN SOURCE_RELIABILITY_WEIGHTS : SOURCE_RELIABILITY_WEIGHTS[s] > 0
<1>1. DOMAIN SOURCE_RELIABILITY_WEIGHTS = {"tax", "loan", "auto", "drive", "utility"}
  BY DEF SOURCE_RELIABILITY_WEIGHTS
<1>2. DOMAIN RANKED_SOURCE_ORDER = 1 .. 5
  BY DEF RANKED_SOURCE_ORDER
<1>3. /\ RANKED_SOURCE_ORDER[1] = "tax" /\ RANKED_SOURCE_ORDER[2] = "loan"
      /\ RANKED_SOURCE_ORDER[3] = "auto" /\ RANKED_SOURCE_ORDER[4] = "drive"
      /\ RANKED_SOURCE_ORDER[5] = "utility"
  BY DEF RANKED_SOURCE_ORDER
<1>4. ASSUME NEW i \in 1 .. 5 PROVE _source_rank(RANKED_SOURCE_ORDER[i]) = i
  <2>1. \A j \in 1 .. 5 : RANKED_SOURCE_ORDER[j] = RANKED_SOURCE_ORDER[i] => j = i
    BY <1>3
  <2> QED
    BY <1>2, <2>1 DEF _source_rank
<1>5. /\ _source_rank("tax") = 1 /\ _source_rank("loan") = 2 /\ _source_rank("auto") = 3
      /\ _source_rank("drive") = 4 /\ _source_rank("utility") = 5
  BY <1>3, <1>4
<1>6. /\ SOURCE_RELIABILITY_WEIGHTS["tax"] = 125 /\ SOURCE_RELIABILITY_WEIGHTS["loan"] = 105
      /\ SOURCE_RELIABILITY_WEIGHTS["auto"] = 90 /\ SOURCE_RELIABILITY_WEIGHTS["drive"] = 75
      /\ SOURCE_RELIABILITY_WEIGHTS["utility"] = 75
  BY DEF SOURCE_RELIABILITY_WEIGHTS
<1> QED
  BY <1>1, <1>5, <1>6

\* The applied source is the best ranked of the path's.
LEMMA AppliedIsBest ==
  ASSUME NEW rep, NEW p, Ranked(rep, p) # {}
  PROVE  /\ applied_source(rep, p) \in Ranked(rep, p)
         /\ \A s \in Ranked(rep, p) : _source_rank(applied_source(rep, p)) <= _source_rank(s)
<1> DEFINE R == Ranked(rep, p)
           T == {_source_rank(s) : s \in R}
<1>1. \A s \in R : _source_rank(s) \in Nat
  BY SourceRanks DEF Ranked
<1>2. T \in SUBSET Nat /\ T # {}
  BY <1>1
<1>3. PICK n \in T : \A m \in T : ~(m < n)
  BY <1>2, LeastElement
<1>4. PICK s \in R : _source_rank(s) = n
  BY <1>3
<1>5. \A t \in R : _source_rank(s) <= _source_rank(t)
  BY <1>1, <1>3, <1>4
<1>6. \E u \in R : \A t \in R : _source_rank(u) <= _source_rank(t)
  BY <1>5
<1> HIDE DEF T
<1> QED
  BY <1>6 DEF applied_source

\* The weighted score of a path is a natural number.
LEMMA WeightedIsNat ==
  ASSUME NEW e, NEW p \in DOMAIN evaluate_evidence(e).atomic.paths
  PROVE  weighted_score(evaluate_evidence(e).atomic, p) \in Nat
<1> DEFINE rep == evaluate_evidence(e).atomic
<1>1. _path_weight(rep, p) \in Nat
  BY PathWeights
<1> HIDE DEF rep
<1>2. CASE Ranked(rep, p) = {}
  BY <1>2 DEF weighted_score, rep
<1>3. CASE Ranked(rep, p) # {}
  <2>1. applied_source(rep, p) \in DOMAIN SOURCE_RELIABILITY_WEIGHTS
    BY <1>3, AppliedIsBest DEF Ranked
  <2>2. SOURCE_RELIABILITY_WEIGHTS[applied_source(rep, p)] \in Nat
    BY <2>1, SourceRanks
  <2>3. weighted_score(rep, p)
          = _path_weight(rep, p) * SOURCE_RELIABILITY_WEIGHTS[applied_source(rep, p)]
    BY <1>3 DEF weighted_score
  <2>4. \A m, n \in Nat : m * n \in Nat
    OBVIOUS
  <2> QED
    BY <1>1, <2>2, <2>3, <2>4 DEF rep
<1> QED
  BY <1>2, <1>3

\* In an extension of the evidence a triggered risk keeps its strength, and
\* unless its citations are as many as a list holds its best source is no lower.
LEMMA ScoreStays ==
  ASSUME NEW e, NEW f, Extended(e, f),
         NEW p \in TriggeredRisks(evaluate_evidence(e))
  PROVE  LET a == evaluate_evidence(e).atomic
             b == evaluate_evidence(f).atomic
         IN  /\ p \in DOMAIN a.paths /\ p \in DOMAIN b.paths
             /\ _path_weight(a, p) = _path_weight(b, p) /\ _path_weight(a, p) \in Nat
             /\ \/ Cardinality(a.paths[p].refs) >= 8
                \/ weighted_score(a, p) <= weighted_score(b, p)
<1> DEFINE a == evaluate_evidence(e).atomic
           b == evaluate_evidence(f).atomic
<1>1. p \in TriggeredRisks(evaluate_evidence(f))
  BY RiskStays
<1>2. p \in DOMAIN a.paths /\ p \in DOMAIN b.paths
  BY <1>1, ReportedPaths
<1>3. PATH_EXECUTORS(e)[p].verdict = "found" /\ p \in RiskPaths
  BY TriggeredRisk
<1>4. Stays(PATH_EXECUTORS(e)[p], PATH_EXECUTORS(f)[p])
  BY <1>3, FindStays
<1>5. _path_weight(a, p) = _path_weight(b, p) /\ _path_weight(a, p) \in Nat
  BY <1>1, <1>2, <1>3, <1>4, PathWeights DEF Stays
<1>6. \/ Cardinality(a.paths[p].refs) >= 8
      \/ Ranked(a, p) \subseteq Ranked(b, p)
  <2>1. /\ a.paths[p].refs = PATH_EXECUTORS(e)[p].refs
        /\ b.paths[p].refs = PATH_EXECUTORS(f)[p].refs
    BY <1>2, CitedRows
  <2> HIDE DEF a, b
  <2>2. \/ Cardinality(a.paths[p].refs) >= 8
        \/ \A t \in a.paths[p].refs : \E u \in b.paths[p].refs : u.source = t.source
    BY <1>3, <1>4, <2>1 DEF Stays
  <2> QED
    BY <2>2 DEF Ranked, _path_sources
<1>7. weighted_score(b, p) \in Nat
  BY <1>2, WeightedIsNat
<1> HIDE DEF a, b
<1>8. ASSUME Ranked(a, p) \subseteq Ranked(b, p)
      PROVE  weighted_score(a, p) <= weighted_score(b, p)
  <2>1. CASE Ranked(a, p) = {}
    BY <1>7, <2>1 DEF weighted_score
  <2>2. CASE Ranked(a, p) # {}
    <3> DEFINE s == applied_source(a, p)
               t == applied_source(b, p)
    <3>1. /\ s \in Ranked(a, p) /\ t \in Ranked(b, p)
          /\ _source_rank(t) <= _source_rank(s)
      BY <1>8, <2>2, AppliedIsBest
    <3>2. /\ weighted_score(a, p) = _path_weight(a, p) * SOURCE_RELIABILITY_WEIGHTS[s]
          /\ weighted_score(b, p) = _path_weight(b, p) * SOURCE_RELIABILITY_WEIGHTS[t]
      BY <1>8, <2>2 DEF weighted_score
    <3> HIDE DEF s, t
    <3>3. /\ SOURCE_RELIABILITY_WEIGHTS[s] \in Nat /\ SOURCE_RELIABILITY_WEIGHTS[t] \in Nat
          /\ SOURCE_RELIABILITY_WEIGHTS[s] <= SOURCE_RELIABILITY_WEIGHTS[t]
      BY <3>1, SourceRanks DEF Ranked
    <3>4. \A w, m, n \in Nat : m <= n => w * m <= w * n
      OBVIOUS
    <3> QED
      BY <1>5, <3>2, <3>3, <3>4
  <2> QED
    BY <2>1, <2>2
<1> QED
  BY <1>2, <1>5, <1>6, <1>8 DEF a, b

\* One more record extends the evidence of the reports.
LEMMA RecordExtends ==
  ASSUME Fresh, NEW r \in Candidates, Ingest(r), r.source # "tax"
  PROVE  /\ Extended(evidence, evidence')
         /\ report = evaluate_evidence(evidence)
         /\ report' = evaluate_evidence(evidence')
  BY IngestExtends, EngineConstants DEF Fresh, Ingest, evaluate_address

\* A risk that is not lowered off a full list keeps its weighted score.
LEMMA ScoreKept ==
  ASSUME Fresh, NEW r \in Candidates, Ingest(r), r.source # "tax",
         NEW p \in TriggeredRisks(report), ~(Full(p) /\ Lowered(p))
  PROVE  weighted_score(report.atomic, p) <= weighted_score(report'.atomic, p)
<1>1. /\ Extended(evidence, evidence')
      /\ report = evaluate_evidence(evidence)
      /\ report' = evaluate_evidence(evidence')
  BY RecordExtends
<1>2. /\ p \in DOMAIN report.atomic.paths /\ p \in DOMAIN report'.atomic.paths
      /\ \/ Full(p)
         \/ weighted_score(report.atomic, p) <= weighted_score(report'.atomic, p)
  BY <1>1, ScoreStays DEF Full
<1>3. weighted_score(report.atomic, p) \in Nat /\ weighted_score(report'.atomic, p) \in Nat
  BY <1>1, <1>2, WeightedIsNat
<1> QED
  BY <1>2, <1>3 DEF Lowered

\* For any rows: a further record of a person lowers a risk's weighted score
\* only if the risk's list of citations was full.
THEOREM OnlyFullListsLose == Spec => OnlyFullListsLoseWeight
<1>1. Fresh /\ [Next]_vars
        => [PersonRowsOnly => \A p \in TriggeredRisks(report) : Lowered(p) => Full(p)]_vars
  <2> SUFFICES ASSUME Fresh, Next, PersonRowsOnly, NEW p \in TriggeredRisks(report),
                      Lowered(p), ~Full(p)
               PROVE  FALSE
    BY DEF vars
  <2>1. PICK r \in Candidates : Ingest(r)
    BY DEF Next
  <2>2. r.source # "tax"
    BY <2>1 DEF PersonRowsOnly, NewRows, Ingest, evaluate_address
  <2>3. weighted_score(report.atomic, p) <= weighted_score(report'.atomic, p)
    BY <2>1, <2>2, ScoreKept
  <2>4. /\ report = evaluate_evidence(evidence) /\ report' = evaluate_evidence(evidence')
        /\ p \in DOMAIN report.atomic.paths /\ p \in DOMAIN report'.atomic.paths
    BY <2>1, <2>2, RecordExtends, ScoreStays
  <2>5. weighted_score(report.atomic, p) \in Nat /\ weighted_score(report'.atomic, p) \in Nat
    BY <2>4, WeightedIsNat
  <2> QED
    BY <2>3, <2>5 DEF Lowered
<1> QED
  BY <1>1, EvaluationIsFresh, PTL DEF Spec, OnlyFullListsLoseWeight

-----------------------------------------------------------------------------
(* The owner's own house. *)

\* When every record is the owner's own, nobody is a stranger, nothing is
\* elsewhere and the one parcel shows nothing of note.
LEMMA OwnRows ==
  ASSUME Fresh, OwnerOccupied
  PROVE  /\ \A s \in SUBSTANTIVE_SOURCES : \A r \in evidence.rows[s] : r.at \in SubjectLine
         /\ \A s \in SUBSTANTIVE_SOURCES \ {"tax"} : \A r \in evidence.rows[s] :
              _is_owner_row(evidence, r)
         /\ \A r \in evidence.rows["utility"] : _is_owner_name_row(evidence, r)
         /\ \A r \in evidence.rows["tax"] :
              /\ r.mailing \in SubjectLine /\ ~r.distress /\ ~r.entity
              /\ r.rescount \in Nat /\ r.rescount <= 1
              /\ \A t \in evidence.rows["tax"] : r = t
<1> DEFINE e == evidence
           tax == _address_rows(db, "tax")
<1>1. e = build_evidence(db, query)
  BY DEF Fresh
<1>2. \A s \in SUBSTANTIVE_SOURCES : \A r \in e.rows[s] : r \in db /\ r.source = s
  BY <1>1, EvidenceRows
<1>3. e.owner_ids = {t.id : t \in tax} \ {NoId} /\ e.owner_name_keys = _owner_name_keys(tax)
  BY <1>1 DEF build_evidence
<1> HIDE DEF e
<1>4. \A t \in db : t.source = "tax" => t \in tax
  BY DEF OwnerOccupied, _address_rows
<1> HIDE DEF tax
<1>5. ASSUME NEW r, OwnersOwn(r) PROVE _is_owner_row(e, r)
  <2>1. PICK t \in db : /\ t.source = "tax"
                        /\ \/ r.source # "utility" /\ r.id # NoId /\ r.id = t.id
                           \/ r.name # NoName /\ r.name \in {t.name, t.owner}
    BY <1>5 DEF OwnersOwn
  <2>2. t \in tax
    BY <1>4, <2>1
  <2> QED
    BY <1>3, <2>1, <2>2 DEF _is_owner_row, _is_owner_name_row, _owner_name_keys
<1>6. ASSUME NEW r, OwnersOwn(r), r.source = "utility" PROVE _is_owner_name_row(e, r)
  <2>1. PICK t \in db : /\ t.source = "tax"
                        /\ r.name # NoName /\ r.name \in {t.name, t.owner}
    BY <1>6 DEF OwnersOwn
  <2>2. t \in tax
    BY <1>4, <2>1
  <2> QED
    BY <1>3, <2>1, <2>2 DEF _is_owner_name_row, _owner_name_keys
<1>7. \A s \in SUBSTANTIVE_SOURCES \ {"tax"} : \A r \in e.rows[s] : OwnersOwn(r)
  BY <1>2 DEF OwnerOccupied
<1>8. \A s \in SUBSTANTIVE_SOURCES : \A r \in e.rows[s] : r.at \in SubjectLine
  BY <1>2 DEF OwnerOccupied
<1>9. \A s \in SUBSTANTIVE_SOURCES \ {"tax"} : \A r \in e.rows[s] : _is_owner_row(e, r)
  BY <1>5, <1>7
<1>10. "utility" \in SUBSTANTIVE_SOURCES \ {"tax"} /\ "tax" \in SUBSTANTIVE_SOURCES
  BY DEF SUBSTANTIVE_SOURCES
<1>11. \A r \in e.rows["utility"] : _is_owner_name_row(e, r)
  BY <1>2, <1>6, <1>7, <1>10
<1>12. \A r \in e.rows["tax"] :
         /\ r.mailing \in SubjectLine /\ ~r.distress /\ ~r.entity
         /\ r.rescount \in Nat /\ r.rescount <= 1
         /\ \A t \in e.rows["tax"] : r = t
  <2> SUFFICES ASSUME NEW r \in e.rows["tax"]
               PROVE  /\ r.mailing \in SubjectLine /\ ~r.distress /\ ~r.entity
                      /\ r.rescount \in Nat /\ r.rescount <= 1
                      /\ \A t \in e.rows["tax"] : r = t
    OBVIOUS
  <2>1. r \in db /\ r.source = "tax"
    BY <1>2, <1>10
  <2>2. r \in Row
    BY <2>1, EngineConstants DEF Fresh
  <2>3. r.rescount \in Nat
    BY <2>1, <2>2 DEF Row, PersonRow, LoanRow, BaseRow, TaxRow
  <2> QED
    BY <1>2, <1>10, <2>1, <2>3 DEF OwnerOccupied
<1> QED
  BY <1>8, <1>9, <1>11, <1>12 DEF e

\* So no risk path finds anything.
LEMMA OwnHouseFindsNothing ==
  ASSUME Fresh, OwnerOccupied, NEW p \in RiskPaths,
         PATH_EXECUTORS(evidence)[p].verdict = "found"
  PROVE  FALSE
<1> DEFINE e == evidence
<1>1. /\ \A s \in SUBSTANTIVE_SOURCES : \A r \in e.rows[s] : r.at \in SubjectLine
      /\ \A s \in SUBSTANTIVE_SOURCES \ {"tax"} : \A r \in e.rows[s] : _is_owner_row(e, r)
      /\ \A r \in e.rows["utility"] : _is_owner_name_row(e, r)
      /\ \A r \in e.rows["tax"] :
           /\ r.mailing \in SubjectLine /\ ~r.distress /\ ~r.entity
           /\ r.rescount \in Nat /\ r.rescount <= 1
           /\ \A t \in e.rows["tax"] : r = t
  BY OwnRows
<1>2. PATH_EXECUTORS(e)[p].verdict = "found"
  OBVIOUS
<1> HIDE DEF e
<1>3. /\ PersonSources \subseteq SUBSTANTIVE_SOURCES \ {"tax"}
      /\ {"drive", "auto", "loan", "trace", "utility"} \subseteq SUBSTANTIVE_SOURCES \ {"tax"}
  BY DEF PersonSources, SUBSTANTIVE_SOURCES
<1>4. \A S \in SUBSET (SUBSTANTIVE_SOURCES \ {"tax"}) : Strangers(e, S) = {}
  BY <1>1 DEF Strangers, From
<1>5. OtherNames(e) = {}
  BY <1>1 DEF OtherNames
<1>6. \A s \in SUBSTANTIVE_SOURCES :
        {r \in _owner_related_rows_by_id(e, s) : r.at \notin SubjectLine} = {}
  BY <1>1 DEF _owner_related_rows_by_id
<1>7. \A s \in SUBSTANTIVE_SOURCES :
        {r \in _owner_related_rows_by_id(e, s) : Away(r.at)} = {}
  BY <1>6 DEF Away
<1>8. _owner_elsewhere_rows(e, {"drive", "auto"}) = {}
  BY <1>3, <1>7 DEF _owner_elsewhere_rows
<1>9. _portfolio_rows(e) = {}
  <2> SUFFICES ASSUME NEW r \in e.rows["tax"], r.rescount >= 2 PROVE FALSE
    BY DEF _portfolio_rows
  <2> QED
    BY <1>1
<1>10. ASSUME NEW S, NEW strength,
              Rows(S, strength).verdict = "found" \/ RowsOfMany(S, strength).verdict = "found"
       PROVE  S # {}
  BY <1>10, FoundRows
<1>11. CASE p \in {"foreclosure_or_distress_marker", "company_or_trust_owner",
                   "tax_owner_mailing_differs_from_situs"}
  BY <1>1, <1>2, <1>10, <1>11 DEF PATH_EXECUTORS, _foreclosure_or_distress_marker,
     _company_or_trust_owner, _tax_owner_mailing_differs_from_situs, Away
<1>12. CASE p \in {"tax_ownerrescount_portfolio_pattern",
                   "portfolio_owner_with_nonowner_occupancy"}
  BY <1>2, <1>9, <1>12 DEF PATH_EXECUTORS, _tax_ownerrescount_portfolio_pattern,
     _portfolio_owner_with_nonowner_occupancy, Rows, When, No, Outcome
<1>13. CASE p = "owner_multiple_liened_residential_properties"
  <2>1. Cardinality(Liened(e)) >= 2
    BY <1>2, <1>13 DEF PATH_EXECUTORS, _owner_multiple_liened_residential_properties,
       When, No, Outcome
  <2>2. Liened(e) = {} \/ \E r : Liened(e) = {r}
    BY <1>1 DEF Liened
  <2>3. Cardinality(Liened(e)) = 0 \/ Cardinality(Liened(e)) = 1
    BY <2>2, FS_EmptySet, FS_Singleton
  <2> QED
    BY <2>1, <2>3
<1>14. CASE p = "repeated_nonowner_cross_source_corroboration"
  <2>1. Strangers(e, PersonSources) = {}
    BY <1>3, <1>4
  <2> QED
    BY <1>2, <1>14, <2>1 DEF PATH_EXECUTORS, _repeated_nonowner_cross_source_corroboration,
       When, No, Outcome
<1>15. CASE p = "unrelated_nonowner_legal_presence"
  <2>1. Strangers(e, {"drive", "auto"}) = {}
    BY <1>3, <1>4
  <2> QED
    BY <1>2, <1>10, <1>15, <2>1 DEF PATH_EXECUTORS, _unrelated_nonowner_legal_presence
<1>16. CASE p \in {"tax_mailing_subject_but_owner_legal_elsewhere",
                   "owner_primary_comparison_elsewhere"}
  BY <1>2, <1>8, <1>10, <1>16 DEF PATH_EXECUTORS, No, Outcome,
     _tax_mailing_subject_but_owner_legal_elsewhere, _owner_primary_comparison_elsewhere
<1>17. CASE p \in {"loan_owner_claim_not_supported_by_tax",
                   "nonowner_loan_owner_claim_at_subject", "nonowner_loan_renter_at_subject"}
  <2>1. Strangers(e, {"loan"}) = {}
    BY <1>3, <1>4
  <2> QED
    BY <1>2, <1>10, <1>17, <2>1 DEF PATH_EXECUTORS, _loan_owner_claim_not_supported_by_tax,
       _nonowner_loan_owner_claim_at_subject, _nonowner_loan_renter_at_subject, Renters,
       Unclear, Outcome
<1>18. CASE p = "owner_loan_elsewhere"
  BY <1>2, <1>3, <1>6, <1>10, <1>18 DEF PATH_EXECUTORS, _owner_loan_elsewhere
<1>19. ASSUME NEW s \in {"drive", "auto", "trace"}
       PROVE  /\ _owner_source_elsewhere(e, s).verdict # "found"
              /\ _nonowner_source_at_subject(e, s).verdict # "found"
  <2>1. Strangers(e, {s}) = {} /\ {r \in _owner_related_rows_by_id(e, s) : Away(r.at)} = {}
    BY <1>3, <1>4, <1>7
  <2>2. _owner_source_elsewhere(e, s).verdict # "found"
    BY <1>10, <2>1 DEF _owner_source_elsewhere
  <2>3. _nonowner_source_at_subject(e, s).verdict # "found"
    BY <1>10, <2>1 DEF _nonowner_source_at_subject, Unclear, Outcome
  <2> QED
    BY <2>2, <2>3
<1>20. CASE p \in {"owner_drive_elsewhere", "nonowner_drive_at_subject",
                   "owner_auto_elsewhere", "nonowner_auto_at_subject",
                   "owner_trace_elsewhere", "nonowner_trace_at_subject"}
  BY <1>2, <1>19, <1>20 DEF PATH_EXECUTORS
<1>21. CASE p = "nonowner_utility_at_subject"
  BY <1>2, <1>5, <1>10, <1>21 DEF PATH_EXECUTORS, _nonowner_utility_at_subject
<1>22. CASE p = "multiple_nonowner_utility_names"
  <2> DEFINE names == {r.name : r \in OtherNames(e)} \ {NoName}
  <2>1. Cardinality(names) >= 2
    BY <1>2, <1>22 DEF PATH_EXECUTORS, _multiple_nonowner_utility_names, When, No, Outcome
  <2>2. names = {}
    BY <1>5
  <2> QED
    BY <2>1, <2>2, FS_EmptySet
<1> QED
  BY <1>11, <1>12, <1>13, <1>14, <1>15, <1>16, <1>17, <1>18, <1>20, <1>21,
     <1>22 DEF RiskPaths

\* A house where every record is the owner's own, with one plain parcel, scores
\* nothing, whoever the owner is and however many the records are.
THEOREM OwnHouseScoresNothing == Spec => []OwnerOccupiedScoresNothing
<1>1. Fresh => OwnerOccupiedScoresNothing
  <2> SUFFICES ASSUME Fresh, OwnerOccupied
               PROVE  report.synthesis.score = 0 /\ report.final.score = 0
    BY DEF OwnerOccupiedScoresNothing
  <2> DEFINE a == evaluate_evidence(evidence).atomic
  <2>1. TriggeredRisks(evaluate_evidence(evidence)) = {}
    BY TriggeredRisk, OwnHouseFindsNothing
  <2>2. \A p \in DOMAIN a.paths : _path_weight(a, p) = 0
    BY <2>1, PathWeights
  <2>3. IsFiniteSet(DOMAIN a.paths)
    BY ReportedPaths
  <2>4. /\ report.synthesis.score = raw_signal_score(a)
        /\ report.final.score = weighted_signal_score(a)
    BY DEF Fresh, evaluate_evidence, _synthesize_case, weighted_synthesis
  <2> HIDE DEF a
  <2>5. raw_signal_score(a) = 0
    <3> DEFINE w == [p \in DOMAIN a.paths |-> _path_weight(a, p)]
    <3>1. w \in [DOMAIN a.paths -> Nat] /\ \A p \in DOMAIN a.paths : w[p] = 0
      BY <2>2
    <3> HIDE DEF w
    <3>2. SumFunction(w) = 0
      BY <2>3, <3>1, SumBounds
    <3> QED
      BY <3>2 DEF raw_signal_score, w
  <2>6. weighted_signal_score(a) = 0
    <3> DEFINE w == [p \in Scored(a) |-> weighted_score(a, p)]
    <3>1. Scored(a) = {}
      BY <2>2 DEF Scored
    <3>2. IsFiniteSet(Scored(a)) /\ w \in [Scored(a) -> Nat] /\ \A p \in Scored(a) : w[p] = 0
      BY <3>1, FS_EmptySet
    <3> HIDE DEF w
    <3>3. SumFunction(w) = 0
      BY <3>2, SumBounds
    <3> QED
      BY <3>3 DEF weighted_signal_score, w
  <2> QED
    BY <2>4, <2>5, <2>6
<1> QED
  BY <1>1, EvaluationIsFresh, PTL

-----------------------------------------------------------------------------
(* The archetypes and bands. *)

(* The catalogue has p under the heuristic id, with that role.             *)
PathOf(p, id, role) == p \in reasoning_path_ids /\ HeuristicOf[p] = id /\ RoleOf[p] = role

\* Where the catalogue has the paths the archetypes turn on.
LEMMA PlacedPaths ==
  /\ PathOf("owner_drive_elsewhere", "drive_address_subject_analysis", "risk")
  /\ PathOf("nonowner_loan_renter_at_subject", "loan_tenure_subject_analysis", "risk")
  /\ PathOf("nonowner_drive_at_subject", "drive_address_subject_analysis", "risk")
  /\ PathOf("owner_auto_elsewhere", "auto_address_subject_analysis", "risk")
  /\ PathOf("tax_owner_mailing_differs_from_situs", "tax_mailing_situs_analysis", "risk")
  /\ PathOf("unrelated_nonowner_legal_presence",
            "owner_identity_and_cross_source_context", "risk")
  /\ PathOf("same_surname_family_household_context",
            "owner_identity_and_cross_source_context", "mitigation")
  /\ PathOf("malformed_address_equivalence", "evidence_quality_and_synthesis", "quality")
  /\ PathOf("unit_collapsed_address_ambiguity", "evidence_quality_and_synthesis", "quality")
<1> DEFINE home == [owner_drive_elsewhere |-> "drive_address_subject_analysis",
                    nonowner_drive_at_subject |-> "drive_address_subject_analysis",
                    owner_auto_elsewhere |-> "auto_address_subject_analysis",
                    tax_owner_mailing_differs_from_situs |-> "tax_mailing_situs_analysis",
                    unrelated_nonowner_legal_presence |->
                      "owner_identity_and_cross_source_context",
                    nonowner_loan_renter_at_subject |-> "loan_tenure_subject_analysis",
                    same_surname_family_household_context |->
                      "owner_identity_and_cross_source_context",
                    malformed_address_equivalence |-> "evidence_quality_and_synthesis",
                    unit_collapsed_address_ambiguity |-> "evidence_quality_and_synthesis"]
           role == [owner_drive_elsewhere |-> "risk",
                    nonowner_drive_at_subject |-> "risk",
                    owner_auto_elsewhere |-> "risk",
                    tax_owner_mailing_differs_from_situs |-> "risk",
                    unrelated_nonowner_legal_presence |-> "risk",
                    nonowner_loan_renter_at_subject |-> "risk",
                    same_surname_family_household_context |-> "mitigation",
                    malformed_address_equivalence |-> "quality",
                    unit_collapsed_address_ambiguity |-> "quality"]
<1>1. ASSUME NEW p \in DOMAIN home PROVE \E h \in ATOMIC_HEURISTICS : p \in DOMAIN h.roles
  <2>1. \E h \in {DriveAddress, AutoAddress, TaxMailing, LoanTenure, OwnerIdentity,
                  EvidenceQuality} : p \in DOMAIN h.roles
    BY DEF Family, DriveAddress, AutoAddress, TaxMailing, LoanTenure, OwnerIdentity,
       EvidenceQuality
  <2> QED
    BY <2>1 DEF ATOMIC_HEURISTICS
<1>2. ASSUME NEW p \in DOMAIN home, NEW h \in ATOMIC_HEURISTICS, p \in DOMAIN h.roles
      PROVE  h.id = home[p] /\ h.roles[p] = role[p]
  <2>1. CASE h \in {ResidentialTax, LienedResidential, BaseMortgage, Foreclosure,
                    CompanyOwner, OwnerLoanElsewhere, LegalConflict, AutoOnlyDiscount}
    BY <1>2, <2>1 DEF Single, ResidentialTax, LienedResidential, BaseMortgage, Foreclosure,
       CompanyOwner, OwnerLoanElsewhere, LegalConflict, AutoOnlyDiscount
  <2>2. CASE h \in {UtilityOnlyDiscount, TraceOnlyDiscount, StrongerLegalElsewhere,
                    SingleFamily, OwnerResCount}
    BY <1>2, <2>2 DEF Single, UtilityOnlyDiscount, TraceOnlyDiscount,
       StrongerLegalElsewhere, SingleFamily, OwnerResCount
  <2>3. CASE h \in {EvidenceQuality, OwnerIdentity, TaxMailing, BaseAlignment}
    BY <1>2, <2>3 DEF Family, EvidenceQuality, OwnerIdentity, TaxMailing, BaseAlignment
  <2>4. CASE h \in {LoanTenure, DriveAddress, AutoAddress}
    BY <1>2, <2>4 DEF Family, LoanTenure, DriveAddress, AutoAddress
  <2>5. CASE h \in {TraceAddress, UtilityOccupancy, PortfolioComparison}
    BY <1>2, <2>5 DEF Family, TraceAddress, UtilityOccupancy, PortfolioComparison
  <2> QED
    BY <2>1, <2>2, <2>3, <2>4, <2>5 DEF ATOMIC_HEURISTICS
<1>3. ASSUME NEW p \in DOMAIN home PROVE PathOf(p, home[p], role[p])
  <2> DEFINE h == CHOOSE h \in ATOMIC_HEURISTICS : p \in DOMAIN h.roles
  <2>1. h \in ATOMIC_HEURISTICS /\ p \in DOMAIN h.roles
    BY <1>1
  <2>2. p \in reasoning_path_ids
    BY <2>1 DEF reasoning_path_ids
  <2>3. RoleOf[p] = h.roles[p] /\ HeuristicOf[p] = h.id
    BY <2>2 DEF RoleOf, HeuristicOf
  <2> HIDE DEF h, home, role
  <2> QED
    BY <1>2, <2>1, <2>2, <2>3 DEF PathOf
<1> QED
  BY <1>3

\* The bands' ranks.
LEMMA BandRanks ==
  /\ Rank("low_evidence") = 1 /\ Rank("monitor") = 2
  /\ Rank("review") = 3 /\ Rank("high_priority_review") = 4
<1>1. DOMAIN Bands = 1 .. 4
  BY DEF Bands
<1>2. /\ Bands[1] = "low_evidence" /\ Bands[2] = "monitor"
      /\ Bands[3] = "review" /\ Bands[4] = "high_priority_review"
  BY DEF Bands
<1>3. ASSUME NEW i \in 1 .. 4 PROVE Rank(Bands[i]) = i
  <2>1. \A j \in 1 .. 4 : Bands[j] = Bands[i] => j = i
    BY <1>2
  <2> QED
    BY <1>1, <2>1 DEF Rank
<1> QED
  BY <1>2, <1>3

\* A triggered risk is active.
LEMMA RisksAreActive ==
  ASSUME NEW e
  PROVE  TriggeredRisks(evaluate_evidence(e)) \subseteq active_paths(evaluate_evidence(e).atomic)
  BY DEF TriggeredRisks, active_paths, ACTIVE_STATUSES

\* The signal score is a natural number, at least that of any two risks.
LEMMA RawScore ==
  ASSUME NEW e
  PROVE  LET a == evaluate_evidence(e).atomic
         IN  /\ raw_signal_score(a) \in Nat
             /\ \A p, o \in DOMAIN a.paths : p # o =>
                  raw_signal_score(a) >= _path_weight(a, p) + _path_weight(a, o)
<1> DEFINE a == evaluate_evidence(e).atomic
           w == [p \in DOMAIN a.paths |-> _path_weight(a, p)]
<1>1. w \in [DOMAIN a.paths -> Nat] /\ IsFiniteSet(DOMAIN a.paths)
  BY PathWeights, ReportedPaths
<1>2. raw_signal_score(a) = SumFunction(w) /\ \A p \in DOMAIN a.paths : w[p] = _path_weight(a, p)
  BY DEF raw_signal_score
<1> HIDE DEF a, w
<1>3. /\ SumFunction(w) \in Nat
      /\ \A p, o \in DOMAIN a.paths : p # o => SumFunction(w) >= w[p] + w[o]
  BY <1>1, SumBounds
<1> QED
  BY <1>2, <1>3 DEF a

\* So is the weighted one.
LEMMA WeightedScore ==
  ASSUME NEW e
  PROVE  LET a == evaluate_evidence(e).atomic
         IN  /\ weighted_signal_score(a) \in Nat
             /\ \A p, o \in Scored(a) : p # o =>
                  weighted_signal_score(a) >= weighted_score(a, p) + weighted_score(a, o)
<1> DEFINE a == evaluate_evidence(e).atomic
           w == [p \in Scored(a) |-> weighted_score(a, p)]
<1>1. Scored(a) \in SUBSET (DOMAIN a.paths)
  BY DEF Scored
<1>2. w \in [Scored(a) -> Nat]
  BY <1>1, WeightedIsNat
<1>3. IsFiniteSet(Scored(a))
  BY <1>1, ReportedPaths, FS_Subset
<1>4. weighted_signal_score(a) = SumFunction(w)
      /\ \A p \in Scored(a) : w[p] = weighted_score(a, p)
  BY DEF weighted_signal_score
<1> HIDE DEF a, w
<1>5. /\ SumFunction(w) \in Nat
      /\ \A p, o \in Scored(a) : p # o => SumFunction(w) >= w[p] + w[o]
  BY <1>2, <1>3, SumBounds
<1> QED
  BY <1>4, <1>5 DEF a

\* An absentee owner's licence elsewhere and a renter at the subject are two
\* strong risks.
LEMMA AbsenteeRisks ==
  ASSUME Fresh, AbsenteeRental
  PROVE  /\ Counted(evidence, "tax")
         /\ \A p \in {"owner_drive_elsewhere", "nonowner_loan_renter_at_subject"} :
              /\ p \in TriggeredRisks(evaluate_evidence(evidence))
              /\ PATH_EXECUTORS(evidence)[p].strength = "strong"
         /\ \A r \in PATH_EXECUTORS(evidence)["owner_drive_elsewhere"].refs : r.source = "drive"
         /\ \A r \in PATH_EXECUTORS(evidence)["nonowner_loan_renter_at_subject"].refs :
              r.source = "loan"
<1> DEFINE e == evidence
<1>1. e = build_evidence(db, query) /\ IsFiniteSet(db)
  BY DEF Fresh
<1>2. PICK d \in db : d.source = "drive" /\ d.id \in e.owner_ids /\ Away(d.at)
  BY DEF AbsenteeRental
<1>3. Renters(e) # {}
  BY DEF AbsenteeRental
<1>4. d \in e.rows["drive"]
  BY <1>1, <1>2 DEF build_evidence, _id_rows, FetchedById, SUBSTANTIVE_SOURCES
<1>5. e.rows["tax"] # {}
  BY <1>1, <1>2 DEF build_evidence, SUBSTANTIVE_SOURCES
<1>6. e.rows["loan"] # {}
  BY <1>3 DEF Renters, Strangers, From
<1>7. Counted(e, "tax") /\ Counted(e, "drive") /\ Counted(e, "loan")
  BY <1>1, <1>4, <1>5, <1>6, CountsAreRows DEF SUBSTANTIVE_SOURCES
<1>8. /\ \A r \in e.rows["drive"] : r.source = "drive"
      /\ \A r \in e.rows["loan"] : r.source = "loan"
  BY <1>1, EvidenceRows DEF SUBSTANTIVE_SOURCES
<1> HIDE DEF e
<1>9. ~NoOwner(e)
  BY <1>2 DEF NoOwner
<1> DEFINE away == {r \in _owner_related_rows_by_id(e, "drive") : Away(r.at)}
<1>10. away # {} /\ \A r \in away : r.source = "drive"
  BY <1>2, <1>4, <1>8 DEF _owner_related_rows_by_id
<1>11. \A r \in Renters(e) : r.source = "loan"
  BY <1>8 DEF Renters, Strangers, From
<1>12. PATH_EXECUTORS(e)["owner_drive_elsewhere"] = Outcome("found", "strong", _refs(away))
  <2>1. PATH_EXECUTORS(e)["owner_drive_elsewhere"] = _owner_source_elsewhere(e, "drive")
    BY DEF PATH_EXECUTORS
  <2>2. _owner_source_elsewhere(e, "drive") = Rows(away, "strong")
    BY DEF _owner_source_elsewhere, SourceStrength
  <2> HIDE DEF away
  <2>3. Rows(away, "strong") = Outcome("found", "strong", _refs(away))
    BY <1>10 DEF Rows, When
  <2> QED
    BY <2>1, <2>2, <2>3
<1>13. PATH_EXECUTORS(e)["nonowner_loan_renter_at_subject"]
         = Outcome("found", "strong", _refs(Renters(e)))
  <2>1. PATH_EXECUTORS(e)["nonowner_loan_renter_at_subject"]
          = _nonowner_loan_renter_at_subject(e)
    BY DEF PATH_EXECUTORS
  <2>2. _nonowner_loan_renter_at_subject(e) = Rows(Renters(e), "strong")
    BY <1>9 DEF _nonowner_loan_renter_at_subject
  <2>3. Rows(Renters(e), "strong") = Outcome("found", "strong", _refs(Renters(e)))
    BY <1>3 DEF Rows, When
  <2> QED
    BY <2>1, <2>2, <2>3
<1>14. \A S : LET o == Outcome("found", "strong", S)
              IN  o.verdict = "found" /\ o.strength = "strong" /\ o.refs = S
  BY DEF Outcome
<1>15. /\ evaluate_gates(e)["drive_address_subject_analysis"] = "run"
       /\ evaluate_gates(e)["loan_tenure_subject_analysis"] = "run"
  BY <1>7, SourceGates
<1> HIDE DEF away
<1>16. ASSUME NEW p \in {"owner_drive_elsewhere", "nonowner_loan_renter_at_subject"}
       PROVE  /\ p \in TriggeredRisks(evaluate_evidence(e))
              /\ PATH_EXECUTORS(e)[p].strength = "strong"
  <2>1. p \in reasoning_path_ids /\ RoleOf[p] = "risk" /\ evaluate_gates(e)[HeuristicOf[p]] = "run"
    BY <1>15, PlacedPaths DEF PathOf
  <2>2. PATH_EXECUTORS(e)[p].verdict = "found" /\ PATH_EXECUTORS(e)[p].strength = "strong"
    BY <1>12, <1>13, <1>14
  <2>3. p \in RiskPaths
    BY DEF RiskPaths
  <2> QED
    BY <2>1, <2>2, <2>3, TriggeredRisk DEF Evaluated
<1> QED
  BY <1>7, <1>10, <1>11, <1>12, <1>13, <1>14, <1>16, CitedAmongFound DEF e

\* A path that rests on one ranked source is weighed by it.
LEMMA OneSource ==
  ASSUME NEW e, NEW p \in TriggeredRisks(evaluate_evidence(e)), NEW s,
         PATH_EXECUTORS(e)[p].strength = "strong",
         Ranked(evaluate_evidence(e).atomic, p) = {s}
  PROVE  LET a == evaluate_evidence(e).atomic
         IN  /\ p \in Scored(a) /\ _path_weight(a, p) = 3
             /\ applied_source(a, p) = s
             /\ weighted_score(a, p) = 3 * SOURCE_RELIABILITY_WEIGHTS[s]
<1> DEFINE a == evaluate_evidence(e).atomic
<1>1. p \in DOMAIN a.paths
  BY ReportedPaths
<1>2. _path_weight(a, p) = 3
  <2>1. _path_weight(a, p) = weights[PATH_EXECUTORS(e)[p].strength]
    BY <1>1, PathWeights
  <2>2. weights["strong"] = 3
    BY DEF weights
  <2> QED
    BY <2>1, <2>2
<1>3. Ranked(a, p) = {s}
  OBVIOUS
<1> HIDE DEF a
<1>4. applied_source(a, p) = s
  BY <1>3, AppliedIsBest
<1>5. weighted_score(a, p) = 3 * SOURCE_RELIABILITY_WEIGHTS[s]
  BY <1>2, <1>3, <1>4 DEF weighted_score
<1>6. p \in Scored(a)
  BY <1>1, <1>2 DEF Scored
<1> QED
  BY <1>2, <1>4, <1>5, <1>6 DEF a

\* For any rows: a licence of the owner's elsewhere and a renter at the subject
\* are reviewed as an absentee rental.
THEOREM AbsenteesAreReviewed == Spec => []AbsenteeRentalReviewed
<1>1. Fresh => AbsenteeRentalReviewed
  <2> SUFFICES ASSUME Fresh, AbsenteeRental
               PROVE  /\ report.synthesis.archetype = "clear_absentee_rental"
                      /\ report.final.archetype
                           \in {"clear_absentee_rental", "family_household_rental"}
                      /\ \/ report.final.band = Manual
                         \/ Rank(report.final.band) >= Rank("review")
                      /\ \/ report.synthesis.band = Manual
                         \/ Rank(report.synthesis.band) >= Rank("review")
    BY DEF AbsenteeRentalReviewed
  <2> DEFINE a == evaluate_evidence(evidence).atomic
             active == active_paths(a)
             raw == raw_signal_score(a)
             score == weighted_signal_score(a)
             drives == "owner_drive_elsewhere"
             renters == "nonowner_loan_renter_at_subject"
             family == _weighted_archetype(active, evidence)
  <2>1. /\ report.synthesis = _synthesize_case(evidence, a)
        /\ report.final = weighted_synthesis(evidence, a)
    <3>1. report = evaluate_evidence(evidence)
      BY DEF Fresh
    <3> QED
      BY <3>1 DEF evaluate_evidence
  <2>2. drives \in active /\ renters \in active /\ Counted(evidence, "tax")
    BY AbsenteeRisks, RisksAreActive
  <2>3. Ranked(a, drives) = {"drive"} /\ Ranked(a, renters) = {"loan"}
    <3>1. drives \in DOMAIN a.paths /\ renters \in DOMAIN a.paths
      BY AbsenteeRisks, ReportedPaths
    <3>2. /\ \A r \in a.paths[drives].refs : r.source = "drive"
          /\ \A r \in a.paths[renters].refs : r.source = "loan"
      BY <3>1, AbsenteeRisks, CitedRows
    <3> HIDE DEF a
    <3>3. /\ {s \in DOMAIN PathsNaming : drives \in PathsNaming[s]} = {"drive"}
          /\ {s \in DOMAIN PathsNaming : renters \in PathsNaming[s]} = {"loan"}
      BY DEF PathsNaming
    <3>4. _path_sources(a, drives) = {"drive"} /\ _path_sources(a, renters) = {"loan"}
      BY <3>2, <3>3 DEF _path_sources
    <3> QED
      BY <3>4, SourceRanks DEF Ranked
  <2>4. /\ drives \in Scored(a) /\ renters \in Scored(a)
        /\ _path_weight(a, drives) = 3 /\ _path_weight(a, renters) = 3
        /\ weighted_score(a, drives) = 3 * SOURCE_RELIABILITY_WEIGHTS["drive"]
        /\ weighted_score(a, renters) = 3 * SOURCE_RELIABILITY_WEIGHTS["loan"]
        /\ applied_source(a, renters) = "loan"
    BY <2>3, AbsenteeRisks, OneSource
  <2>5. raw \in Nat /\ raw >= 6
    <3>1. drives \in DOMAIN a.paths /\ renters \in DOMAIN a.paths
      BY <2>4 DEF Scored
    <3>2. raw >= _path_weight(a, drives) + _path_weight(a, renters)
      BY <3>1, RawScore
    <3>3. raw \in Nat
      BY RawScore
    <3> QED
      BY <2>4, <3>2, <3>3
  <2>6. score \in Nat /\ score >= 500
    <3>1. score >= weighted_score(a, drives) + weighted_score(a, renters) /\ score \in Nat
      BY <2>4, WeightedScore
    <3>2. SOURCE_RELIABILITY_WEIGHTS["drive"] = 75 /\ SOURCE_RELIABILITY_WEIGHTS["loan"] = 105
      BY DEF SOURCE_RELIABILITY_WEIGHTS
    <3> QED
      BY <2>4, <3>1, <3>2
  <2>7. ~_lower_tier_nonowner_only(a)
    <3>1. "loan" \in dominant_sources(a)
      BY <2>3, <2>4 DEF dominant_sources
    <3> QED
      BY <3>1 DEF _lower_tier_nonowner_only
  <2> HIDE DEF a, raw, score
  <2>8. case_archetype(evidence, active) = "clear_absentee_rental"
    BY <2>2 DEF case_archetype
  <2>9. family \in {"clear_absentee_rental", "family_household_rental"}
    <3>1. _has_clear_absentee_context(active) /\ ~_owner_present_dominates(active)
      BY <2>2 DEF _has_clear_absentee_context, _owner_present_dominates
    <3> QED
      BY <2>2, <3>1 DEF _weighted_archetype
  <2>10. verdict_band(raw, case_archetype(evidence, active), active)
           \in {Manual, "high_priority_review", "review"}
    BY <2>5 DEF verdict_band, Manual
  <2> HIDE DEF family
  <2>11. _weighted_band(score, family, a) \in {Manual, "high_priority_review", "review"}
    BY <2>6, <2>7 DEF _weighted_band, Manual
  <2>12. /\ report.synthesis.archetype = case_archetype(evidence, active)
         /\ report.synthesis.band = verdict_band(raw, case_archetype(evidence, active), active)
    BY <2>1 DEF _synthesize_case, raw
  <2>13. /\ report.final.archetype = family
         /\ report.final.band = _weighted_band(score, family, a)
    BY <2>1 DEF weighted_synthesis, family, score
  <2>14. \A band \in {"high_priority_review", "review"} : Rank(band) >= Rank("review")
    BY BandRanks
  <2> QED
    BY <2>8, <2>9, <2>10, <2>11, <2>12, <2>13, <2>14
<1> QED
  BY <1>1, EvaluationIsFresh, PTL

-----------------------------------------------------------------------------
(* Outsiders. *)

(* No risk of e scores lower in f.                                         *)
ScoresKept(e, f) ==
  \A p \in TriggeredRisks(evaluate_evidence(e)) :
    weighted_score(evaluate_evidence(e).atomic, p)
      <= weighted_score(evaluate_evidence(f).atomic, p)

\* In an extension of the evidence every scored path is scored and, if none is
\* lower, the signal score is no lower.
LEMMA SignalGrows ==
  ASSUME NEW e, NEW f, Extended(e, f), ScoresKept(e, f)
  PROVE  LET a == evaluate_evidence(e).atomic
             b == evaluate_evidence(f).atomic
         IN  /\ Scored(a) \subseteq Scored(b)
             /\ Scored(a) \subseteq TriggeredRisks(evaluate_evidence(e))
             /\ weighted_signal_score(a) <= weighted_signal_score(b)
<1> DEFINE a == evaluate_evidence(e).atomic
           b == evaluate_evidence(f).atomic
           w == [p \in Scored(a) |-> weighted_score(a, p)]
           v == [p \in Scored(b) |-> weighted_score(b, p)]
<1>1. Scored(a) \subseteq TriggeredRisks(evaluate_evidence(e))
  <2> SUFFICES ASSUME NEW p \in Scored(a) PROVE p \in TriggeredRisks(evaluate_evidence(e))
    OBVIOUS
  <2>1. p \in DOMAIN a.paths /\ _path_weight(a, p) > 0
    BY DEF Scored
  <2> QED
    BY <2>1, PathWeights
<1>2. ASSUME NEW p \in Scored(a)
      PROVE  p \in Scored(b) /\ weighted_score(a, p) <= weighted_score(b, p)
  <2>1. _path_weight(a, p) > 0
    BY DEF Scored
  <2>2. /\ _path_weight(a, p) = _path_weight(b, p)
        /\ weighted_score(a, p) <= weighted_score(b, p)
    BY <1>1, ScoreStays DEF ScoresKept
  <2>3. p \in DOMAIN b.paths
    BY <1>1, RiskStays, ReportedPaths
  <2> HIDE DEF a, b
  <2> QED
    BY <2>1, <2>2, <2>3 DEF Scored
<1>3. Scored(a) \subseteq DOMAIN a.paths /\ Scored(b) \subseteq DOMAIN b.paths
  BY DEF Scored
<1>4. w \in [Scored(a) -> Nat] /\ v \in [Scored(b) -> Nat]
  BY <1>3, WeightedIsNat
<1>5. IsFiniteSet(Scored(b))
  BY <1>3, ReportedPaths, FS_Subset
<1>6. \A p \in Scored(a) : w[p] <= v[p]
  BY <1>2
<1>7. weighted_signal_score(a) = SumFunction(w) /\ weighted_signal_score(b) = SumFunction(v)
  BY DEF weighted_signal_score
<1>8. Scored(a) \in SUBSET Scored(b)
  BY <1>2
<1> HIDE DEF a, b, w, v
<1>9. SumFunction(w) <= SumFunction(v)
  BY <1>4, <1>5, <1>6, <1>8, SumMonotone
<1> QED
  BY <1>1, <1>7, <1>8, <1>9 DEF a, b

\* A case that scores and does not rest on the lower-tier sources alone comes
\* to rest on no fewer.
LEMMA TierStays ==
  ASSUME NEW e, NEW f, Extended(e, f), ScoresKept(e, f),
         ~_lower_tier_nonowner_only(evaluate_evidence(e).atomic),
         weighted_signal_score(evaluate_evidence(e).atomic) # 0
  PROVE  ~_lower_tier_nonowner_only(evaluate_evidence(f).atomic)
<1> DEFINE a == evaluate_evidence(e).atomic
           b == evaluate_evidence(f).atomic
           w == [p \in Scored(a) |-> weighted_score(a, p)]
<1>1. PICK p \in Scored(a) : Ranked(a, p) # {}
  <2> SUFFICES ASSUME \A p \in Scored(a) : Ranked(a, p) = {} PROVE FALSE
    OBVIOUS
  <2>1. Scored(a) \subseteq DOMAIN a.paths
    BY DEF Scored
  <2>2. IsFiniteSet(Scored(a))
    BY <2>1, ReportedPaths, FS_Subset
  <2>3. w \in [Scored(a) -> Nat]
    BY <2>1, WeightedIsNat
  <2>4. weighted_signal_score(a) = SumFunction(w)
    BY DEF weighted_signal_score
  <2>5. weighted_signal_score(a) # 0
    OBVIOUS
  <2> HIDE DEF a
  <2>6. \A p \in Scored(a) : w[p] = 0
    BY DEF weighted_score
  <2> HIDE DEF w
  <2> QED
    BY <2>2, <2>3, <2>4, <2>5, <2>6, SumBounds
<1>2. applied_source(a, p) \in dominant_sources(a)
  BY <1>1 DEF dominant_sources
<1>3. PICK o \in Scored(a) :
        Ranked(a, o) # {} /\ applied_source(a, o) \notin {"drive", "utility"}
  <2>1. ~_lower_tier_nonowner_only(a)
    OBVIOUS
  <2> HIDE DEF a
  <2> QED
    BY <1>2, <2>1 DEF _lower_tier_nonowner_only, dominant_sources
<1>4. o \in TriggeredRisks(evaluate_evidence(e)) /\ o \in Scored(b)
  BY SignalGrows
<1>5. /\ _path_weight(a, o) = _path_weight(b, o) /\ _path_weight(a, o) \in Nat
      /\ weighted_score(a, o) <= weighted_score(b, o)
  BY <1>4, ScoreStays DEF ScoresKept
<1>9. _path_weight(a, o) > 0
  BY DEF Scored
<1> HIDE DEF a, b
<1> DEFINE s == applied_source(a, o)
           t == applied_source(b, o)
           u == SOURCE_RELIABILITY_WEIGHTS[s]
           v == SOURCE_RELIABILITY_WEIGHTS[t]
           W == _path_weight(a, o)
<1>10. /\ s \in DOMAIN SOURCE_RELIABILITY_WEIGHTS /\ u \in Nat /\ u > 0
       /\ weighted_score(a, o) = W * u
  BY <1>3, AppliedIsBest, SourceRanks DEF Ranked, weighted_score
<1>11. Ranked(b, o) # {}
  <2> SUFFICES ASSUME Ranked(b, o) = {} PROVE FALSE
    OBVIOUS
  <2>1. weighted_score(b, o) = 0
    BY DEF weighted_score
  <2>2. \A m, n \in Nat : m > 0 /\ n > 0 => m * n > 0
    OBVIOUS
  <2> HIDE DEF u, W
  <2>3. W \in Nat /\ W > 0 /\ u \in Nat /\ u > 0
    BY <1>5, <1>9, <1>10 DEF W
  <2>4. W * u > 0 /\ W * u \in Nat
    BY <2>2, <2>3
  <2>5. W * u <= 0
    BY <1>5, <1>10, <2>1
  <2> QED
    BY <2>4, <2>5
<1>6. /\ t \in Ranked(b, o) /\ t \in DOMAIN SOURCE_RELIABILITY_WEIGHTS /\ v \in Nat
      /\ weighted_score(b, o) = W * v
  BY <1>5, <1>11, AppliedIsBest, SourceRanks DEF Ranked, weighted_score
<1>7. t \notin {"drive", "utility"}
  <2>1. W * u <= W * v /\ W \in Nat /\ W > 0
    BY <1>5, <1>6, <1>9, <1>10
  <2>2. \A k, m, n \in Nat : k > 0 /\ n < m => k * n < k * m
    OBVIOUS
  <2>3. u <= v
    <3> HIDE DEF u, v, W
    <3>1. W * u \in Nat /\ W * v \in Nat
      BY <1>6, <1>10, <2>1
    <3> QED
      BY <1>6, <1>10, <2>1, <2>2, <3>1
  <2> QED
    BY <1>3, <1>6, <1>10, <2>3, SourceRanks
<1>8. t \in dominant_sources(b)
  BY <1>4, <1>11 DEF dominant_sources
<1> QED
  BY <1>7, <1>8 DEF _lower_tier_nonowner_only, b, t

\* A path is active if its heuristic ran and its executor's find counts.
LEMMA ActivePath ==
  ASSUME NEW e, NEW p
  PROVE  p \in active_paths(evaluate_evidence(e).atomic) <=>
           /\ p \in reasoning_path_ids /\ Evaluated(evaluate_gates(e), p)
           /\ Status(RoleOf[p], PATH_EXECUTORS(e)[p].verdict) \in ACTIVE_STATUSES
  BY DEF active_paths, evaluate_evidence, evaluate_atomic_evidence, _evaluate_path

\* What calls for a manual check is a matter of the query and the tax rows.
LEMMA FlagsStay ==
  ASSUME NEW e, NEW f, Extended(e, f), e.numbered = f.numbered,
         NEW p \in ManualFlags
  PROVE  p \in active_paths(evaluate_evidence(e).atomic)
           <=> p \in active_paths(evaluate_evidence(f).atomic)
<1>1. PATH_EXECUTORS(e)[p] = PATH_EXECUTORS(f)[p]
  <2>1. CASE p = "malformed_address_equivalence"
    BY <2>1 DEF PATH_EXECUTORS, _malformed_address_equivalence
  <2>2. CASE p = "unit_collapsed_address_ambiguity"
    BY <2>2 DEF PATH_EXECUTORS, _unit_collapsed_address_ambiguity, Extended
  <2> QED
    BY <2>1, <2>2 DEF ManualFlags
<1>2. HeuristicOf[p] = "evidence_quality_and_synthesis" /\ p \in reasoning_path_ids
  BY PlacedPaths DEF ManualFlags, PathOf
<1>3. Counted(e, "tax") <=> Counted(f, "tax")
  BY DEF Extended, Counted
<1>4. evaluate_gates(e)["evidence_quality_and_synthesis"]
        = evaluate_gates(f)["evidence_quality_and_synthesis"]
  <2>1. "evidence_quality_and_synthesis" \in heuristic_ids
    BY DEF heuristic_ids, ATOMIC_HEURISTICS, EvidenceQuality, Family
  <2>2. RequiredSources["evidence_quality_and_synthesis"] = {}
    BY <2>1 DEF RequiredSources
  <2>3. /\ Runs("evidence_quality_and_synthesis", e) <=> Counted(e, "tax")
        /\ Runs("evidence_quality_and_synthesis", f) <=> Counted(f, "tax")
    BY <2>2 DEF Runs
  <2> QED
    BY <1>3, <2>1, <2>3 DEF evaluate_gates, _gate_decision, RunsForAbsence
<1>5. Evaluated(evaluate_gates(e), p) <=> Evaluated(evaluate_gates(f), p)
  BY <1>2, <1>4 DEF Evaluated
<1> QED
  BY <1>1, <1>5, ActivePath

\* The new record is all that joins the evidence.
LEMMA OnlyTheRecord ==
  ASSUME Fresh, NEW r \in Candidates, Ingest(r), r.source # "tax"
  PROVE  /\ evidence'.numbered = evidence.numbered
         /\ \A s \in SUBSTANTIVE_SOURCES : evidence'.rows[s] \subseteq evidence.rows[s] \cup {r}
<1>1. evidence = build_evidence(db, query) /\ evidence' = build_evidence(db \cup {r}, query)
  BY DEF Fresh, Ingest, evaluate_address
<1>2. _address_rows(db \cup {r}, "tax") = _address_rows(db, "tax")
  BY DEF _address_rows
<1>3. ASSUME NEW s \in SUBSTANTIVE_SOURCES
      PROVE  evidence'.rows[s] \subseteq evidence.rows[s] \cup {r}
  BY <1>1, <1>2 DEF build_evidence, _address_rows, _id_rows
<1> QED
  BY <1>1, <1>3 DEF build_evidence

\* A family found after an outsider's record has a relative on record before.
LEMMA RelativeWasThere ==
  ASSUME Fresh, NEW r \in Candidates, Ingest(r), Outsider(r),
         "same_surname_family_household_context"
           \in active_paths(evaluate_evidence(evidence').atomic)
  PROVE  RelativeOnRecord
<1> DEFINE p == "same_surname_family_household_context"
           kin(d) == {t \in Strangers(d, PersonSources) : t.name.last \in OwnerLasts(d)}
<1>1. Extended(evidence, evidence')
  BY RecordExtends DEF Outsider
<1>2. PATH_EXECUTORS(evidence')[p] = RowsOfMany(kin(evidence'), "moderate")
  BY DEF PATH_EXECUTORS, _same_surname_family_household_context
<1>3. Status(RoleOf[p], PATH_EXECUTORS(evidence')[p].verdict) \in ACTIVE_STATUSES
  BY ActivePath
<1>4. Status(RoleOf[p], "no") = "not_triggered" /\ "not_triggered" \notin ACTIVE_STATUSES
  BY DEF Status, ACTIVE_STATUSES
<1> HIDE DEF kin
<1>5. kin(evidence') # {}
  <2>1. CASE kin(evidence') = {}
    <3>1. PATH_EXECUTORS(evidence')[p].verdict = "no"
      BY <1>2, <2>1 DEF RowsOfMany, When, No, Outcome
    <3> QED
      BY <1>3, <1>4, <3>1
  <2> QED
    BY <2>1
<1>6. PICK t \in Strangers(evidence', PersonSources) : t.name.last \in OwnerLasts(evidence')
  BY <1>5 DEF kin
<1>7. PICK s \in PersonSources : t \in evidence'.rows[s] /\ ~_is_owner_row(evidence', t)
  BY <1>6 DEF Strangers, From
<1>8. OwnerLasts(evidence') = OwnerLasts(evidence)
  BY <1>1 DEF Extended, OwnerLasts
<1>9. t # r
  BY <1>6, <1>8 DEF Outsider
<1>10. s \in SUBSTANTIVE_SOURCES
  BY DEF PersonSources, SUBSTANTIVE_SOURCES
<1>11. t \in evidence.rows[s]
  BY <1>7, <1>9, <1>10, OnlyTheRecord DEF Outsider
<1>12. ~_is_owner_row(evidence, t)
  BY <1>1, <1>7, SameOwners DEF Extended
<1> QED
  BY <1>6, <1>8, <1>11, <1>12 DEF RelativeOnRecord, Strangers, From

\* A clear absentee rental stays one, unless it becomes a family's.
LEMMA AbsenteeStays ==
  ASSUME NEW e, NEW f, Extended(e, f),
         _weighted_archetype(active_paths(evaluate_evidence(e).atomic), e)
           = "clear_absentee_rental"
  PROVE  LET active == active_paths(evaluate_evidence(f).atomic)
         IN  \/ _weighted_archetype(active, f) = "clear_absentee_rental"
             \/ /\ _weighted_archetype(active, f) = "family_household_rental"
                /\ "same_surname_family_household_context" \in active
<1> DEFINE before == active_paths(evaluate_evidence(e).atomic)
           after == active_paths(evaluate_evidence(f).atomic)
           risks == {"owner_drive_elsewhere", "owner_auto_elsewhere",
                     "tax_owner_mailing_differs_from_situs", "nonowner_drive_at_subject",
                     "nonowner_loan_renter_at_subject", "unrelated_nonowner_legal_presence"}
<1>1. ASSUME NEW p \in risks, p \in before PROVE p \in after
  <2>1. RoleOf[p] = "risk" /\ p \in reasoning_path_ids
    BY PlacedPaths DEF PathOf
  <2>2. \A verdict : Status("risk", verdict) \in ACTIVE_STATUSES
                       => Status("risk", verdict) = "triggered"
    BY DEF Status, ACTIVE_STATUSES
  <2>3. p \in TriggeredRisks(evaluate_evidence(e))
    <3>1. p \in DOMAIN evaluate_evidence(e).atomic.paths
      BY <1>1 DEF active_paths
    <3>2. evaluate_evidence(e).atomic.paths[p].status
            = Status("risk", PATH_EXECUTORS(e)[p].verdict)
      BY <2>1, <3>1 DEF evaluate_evidence, evaluate_atomic_evidence, _evaluate_path
    <3>3. Status("risk", PATH_EXECUTORS(e)[p].verdict) \in ACTIVE_STATUSES
      BY <1>1, <2>1, ActivePath
    <3> QED
      BY <2>1, <2>2, <3>1, <3>2, <3>3 DEF TriggeredRisks
  <2> QED
    BY <2>3, RiskStays, RisksAreActive
<1>2. _weighted_archetype(before, e) = "clear_absentee_rental"
  OBVIOUS
<1> HIDE DEF before, after
<1>3. Counted(e, "tax") /\ _has_clear_absentee_context(before)
  BY <1>2 DEF _weighted_archetype
<1>4. Counted(f, "tax")
  BY <1>3 DEF Extended, Counted
<1>5. _has_clear_absentee_context(after)
  BY <1>1, <1>3 DEF _has_clear_absentee_context
<1>6. ~_owner_present_dominates(after)
  BY <1>5 DEF _has_clear_absentee_context, _owner_present_dominates
<1>7. CASE _has_family_rental_context(after)
  BY <1>4, <1>7 DEF _weighted_archetype, _has_family_rental_context, after
<1>8. CASE ~_has_family_rental_context(after)
  BY <1>4, <1>5, <1>6, <1>8 DEF _weighted_archetype, after
<1> QED
  BY <1>7, <1>8

\* The weighted band, by the score and the tier alone.
LEMMA BandOf ==
  ASSUME NEW score \in Nat, NEW archetype, NEW rep
  PROVE  LET band == _weighted_band(score, archetype, rep)
         IN  IF ManualFlags \cap active_paths(rep) # {} THEN band = Manual
             ELSE /\ band \in {"low_evidence", "monitor", "review", "high_priority_review"}
                  /\ score < 200 => band = "low_evidence"
                  /\ score >= 200 => band # "low_evidence"
                  /\ _lower_tier_nonowner_only(rep) => band \in {"low_evidence", "monitor"}
                  /\ (~_lower_tier_nonowner_only(rep) /\ score < 500)
                       => band \in {"low_evidence", "monitor"}
                  /\ (~_lower_tier_nonowner_only(rep) /\ score >= 500)
                       => band = IF score >= 800 /\ archetype = "clear_absentee_rental"
                                 THEN "high_priority_review" ELSE "review"
<1>1. CASE ManualFlags \cap active_paths(rep) # {}
  BY <1>1 DEF _weighted_band, Manual
<1>2. CASE ManualFlags \cap active_paths(rep) = {} /\ _lower_tier_nonowner_only(rep)
  BY <1>2 DEF _weighted_band
<1>3. CASE ManualFlags \cap active_paths(rep) = {} /\ ~_lower_tier_nonowner_only(rep)
  BY <1>3 DEF _weighted_band
<1> QED
  BY <1>1, <1>2, <1>3

\* For any rows: an outsider's record lowers the band only by crowding a source
\* off a full list, or where it turns a clear absentee rental into a relative's.
THEOREM OutsidersKeepBand == Spec => OutsidersLowerBandOnlyBy
<1>1. Fresh /\ [Next]_vars
        => [(/\ \A r \in NewRows : Outsider(r)
             /\ report.final.band # Manual)
            => /\ report'.final.band # Manual
               /\ \/ Rank(report.final.band) <= Rank(report'.final.band)
                  \/ \E p \in TriggeredRisks(report) : Full(p) /\ Lowered(p)
                  \/ /\ RelativeOnRecord
                     /\ report.final.archetype = "clear_absentee_rental"
                     /\ report'.final.archetype = "family_household_rental"
                     /\ report'.final.band = "review"]_vars
  <2> SUFFICES ASSUME Fresh, Next, \A r \in NewRows : Outsider(r),
                      report.final.band # Manual
               PROVE  /\ report'.final.band # Manual
                      /\ \/ Rank(report.final.band) <= Rank(report'.final.band)
                         \/ \E p \in TriggeredRisks(report) : Full(p) /\ Lowered(p)
                         \/ /\ RelativeOnRecord
                            /\ report.final.archetype = "clear_absentee_rental"
                            /\ report'.final.archetype = "family_household_rental"
                            /\ report'.final.band = "review"
    BY DEF vars
  <2> DEFINE e == evidence
             f == evidence'
             a == evaluate_evidence(e).atomic
             b == evaluate_evidence(f).atomic
             low == weighted_signal_score(a)
             high == weighted_signal_score(b)
             kind == _weighted_archetype(active_paths(a), e)
             later == _weighted_archetype(active_paths(b), f)
             Crowded == \E p \in TriggeredRisks(report) : Full(p) /\ Lowered(p)
  <2>1. PICK r \in Candidates : Ingest(r)
    BY DEF Next
  <2>2. Outsider(r)
    BY <2>1 DEF NewRows, Ingest, evaluate_address
  <2>3. /\ Extended(e, f)
        /\ report = evaluate_evidence(e)
        /\ report' = evaluate_evidence(f)
    BY <2>1, <2>2, RecordExtends DEF Outsider
  <2>4. /\ report.final.archetype = kind /\ report.final.band = _weighted_band(low, kind, a)
        /\ report'.final.archetype = later /\ report'.final.band = _weighted_band(high, later, b)
    <3>1. /\ report.final = weighted_synthesis(e, a)
          /\ report'.final = weighted_synthesis(f, b)
      BY <2>3 DEF evaluate_evidence
    <3> QED
      BY <3>1 DEF weighted_synthesis
  <2>14. ~Crowded => ScoresKept(e, f)
    BY <2>1, <2>2, <2>3, ScoreKept DEF ScoresKept, Outsider
  <2>5. low \in Nat /\ high \in Nat /\ (~Crowded => low <= high)
    BY <2>3, <2>14, SignalGrows, WeightedScore
  <2>6. ManualFlags \cap active_paths(a) = {}
    BY <2>4, <2>5, BandOf
  <2>7. ManualFlags \cap active_paths(b) = {}
    BY <2>1, <2>2, <2>3, <2>6, OnlyTheRecord, FlagsStay DEF Outsider
  <2>8. ~Crowded /\ ~_lower_tier_nonowner_only(a) /\ low # 0 => ~_lower_tier_nonowner_only(b)
    BY <2>3, <2>14, TierStays
  <2>9. kind = "clear_absentee_rental" =>
          \/ later = "clear_absentee_rental"
          \/ later = "family_household_rental" /\ RelativeOnRecord
    BY <2>1, <2>2, <2>3, AbsenteeStays, RelativeWasThere
  <2> HIDE DEF a, b, low, high, kind, later, Crowded
  <2> DEFINE band == _weighted_band(low, kind, a)
             after == _weighted_band(high, later, b)
             Known == {"low_evidence", "monitor", "review", "high_priority_review"}
  <2>10. /\ band \in Known
         /\ low < 200 => band = "low_evidence"
         /\ low >= 200 => band # "low_evidence"
         /\ _lower_tier_nonowner_only(a) => band \in {"low_evidence", "monitor"}
         /\ (~_lower_tier_nonowner_only(a) /\ low < 500) => band \in {"low_evidence", "monitor"}
         /\ (~_lower_tier_nonowner_only(a) /\ low >= 500)
              => band = IF low >= 800 /\ kind = "clear_absentee_rental"
                        THEN "high_priority_review" ELSE "review"
    BY <2>5, <2>6, BandOf
  <2>11. /\ after \in Known
         /\ high < 200 => after = "low_evidence"
         /\ high >= 200 => after # "low_evidence"
         /\ (~_lower_tier_nonowner_only(b) /\ high >= 500)
              => after = IF high >= 800 /\ later = "clear_absentee_rental"
                         THEN "high_priority_review" ELSE "review"
    BY <2>5, <2>7, BandOf
  <2> HIDE DEF band, after
  <2>12. after # Manual
    BY <2>11 DEF Manual
  <2>13. ASSUME ~Crowded
         PROVE  \/ Rank(band) <= Rank(after)
                \/ /\ RelativeOnRecord /\ kind = "clear_absentee_rental"
                   /\ later = "family_household_rental" /\ after = "review"
    <3>1. CASE low < 200
      BY <2>10, <2>11, <3>1, BandRanks
    <3>2. CASE low >= 200 /\ (_lower_tier_nonowner_only(a) \/ low < 500)
      <4>1. band = "monitor"
        BY <2>10, <3>2
      <4>2. after \in {"monitor", "review", "high_priority_review"}
        BY <2>5, <2>11, <2>13, <3>2
      <4> QED
        BY <4>1, <4>2, BandRanks
    <3>3. CASE low >= 500 /\ ~_lower_tier_nonowner_only(a)
      <4>1. high >= 500 /\ ~_lower_tier_nonowner_only(b)
        BY <2>5, <2>8, <2>13, <3>3
      <4>2. band = IF low >= 800 /\ kind = "clear_absentee_rental"
                   THEN "high_priority_review" ELSE "review"
        BY <2>10, <3>3
      <4>3. after = IF high >= 800 /\ later = "clear_absentee_rental"
                    THEN "high_priority_review" ELSE "review"
        BY <2>11, <4>1
      <4>4. CASE low >= 800 /\ kind = "clear_absentee_rental"
        <5>1. high >= 800
          BY <2>5, <2>13, <4>4
        <5> QED
          BY <2>9, <4>2, <4>3, <4>4, <5>1, BandRanks
      <4>5. CASE ~(low >= 800 /\ kind = "clear_absentee_rental")
        BY <4>2, <4>3, <4>5, BandRanks
      <4> QED
        BY <4>4, <4>5
    <3> QED
      BY <2>5, <3>1, <3>2, <3>3
  <2> QED
    BY <2>4, <2>12, <2>13 DEF band, after, Crowded
<1> QED
  BY <1>1, EvaluationIsFresh, PTL DEF Spec, OutsidersLowerBandOnlyBy
=============================================================================
