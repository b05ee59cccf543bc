------------------------------- MODULE RuleEngine -------------------------------
(***************************************************************************)
(* evaluate_evidence of src/heuristics/engine.ts as a machine: an index    *)
(* that gains rows and, for every address asked about, the report the rule *)
(* engine makes of the rows it holds at that moment.                       *)
(*                                                                         *)
(* A report has the atomic evaluation, the packets' gates, the atomic      *)
(* synthesis and the weighted one that replaces its score, band and        *)
(* archetype.                                                              *)
(***************************************************************************)
EXTENDS PacketRules

CONSTANTS
  Indexes,   \* bound: sets of rows, one of which holds all an index comes to hold
  Queries    \* the addresses asked about

Candidates == UNION Indexes

\* Rows of a source differ in their place, and one fetch returns them all.
ASSUME EngineConstants ==
  /\ Candidates \subseteq Row /\ Queries \subseteq Query
  /\ \A q, r \in Candidates : q.source = r.source /\ q.rowid = r.rowid => q = r
  /\ \A s \in SUBSTANTIVE_SOURCES : LET rows == {r \in Candidates : r.source = s}
                                    IN  IsFiniteSet(rows) /\ Cardinality(rows) <= limit_per_source

VARIABLES
  db,         \* the rows of the index
  query,      \* the address of the last evaluation
  evidence,   \* the evidence built for it
  report      \* and its report
vars == <<db, query, evidence, report>>

evaluate_evidence(e) ==
  LET atomic == evaluate_atomic_evidence(e)
  IN  [atomic |-> atomic,
       packets |-> evaluate_packet_gates(e),
       synthesis |-> _synthesize_case(e, atomic),
       final |-> weighted_synthesis(e, atomic)]

\* The evidence of the last evaluation is kept.
KeepEvidence(rows, q) ==
  /\ db' = rows
  /\ query' = q
  /\ evidence' = evidence
  /\ report' = evaluate_evidence(evidence)

\* evaluate_address.
evaluate_address(rows, q) ==
  /\ db' = rows
  /\ query' = q
  /\ evidence' = build_evidence(rows, q)
  /\ report' = evaluate_evidence(build_evidence(rows, q))

Init ==
  /\ db = {}
  /\ query \in Queries
  /\ evidence = build_evidence(db, query)
  /\ report = evaluate_evidence(evidence)

\* The index gains a row and the address is evaluated again.
Ingest(r) ==
  /\ r \notin db
  /\ \E index \in Indexes : db \cup {r} \subseteq index
  /\ evaluate_address(db \cup {r}, query)
Next == \E r \in Candidates : Ingest(r)
Spec == Init /\ [][Next]_vars

-----------------------------------------------------------------------------
TypeOK ==
  /\ db \subseteq Candidates
  /\ query \in Queries
  /\ evidence = build_evidence(db, query)
  /\ report.atomic.gates \in [heuristic_ids -> {"run", "run_for_absence", "skip"}]
  /\ DOMAIN report.atomic.paths \subseteq reasoning_path_ids
  /\ \A p \in DOMAIN report.atomic.paths : report.atomic.paths[p].refs \subseteq db
  /\ report.packets \in [packet_ids -> {"run", "run_for_absence", "skip"}]

\* The paths that say that somebody who is not an owner is at the subject.
NonownerPaths ==
  AnyNonowner \cup
  {"nonowner_loan_owner_claim_at_subject", "base_person_not_tax_owner_at_subject",
   "unrelated_nonowner_legal_presence"}

\* No row from another address is ever cited as a non-owner at the subject.
\* The executors do not look at the address: they read rows fetched by address
\* and rows fetched by the owners' ids alike, and tell them apart by ownership.
NonownersAreAtSubject ==
  \A p \in NonownerPaths \cap DOMAIN report.atomic.paths :
    \A r \in report.atomic.paths[p].refs : r.at \in SubjectLine

TriggeredRisks(rep) ==
  {p \in DOMAIN rep.atomic.paths :
     RoleOf[p] = "risk" /\ rep.atomic.paths[p].status = "triggered"}
NewRows == db' \ db
PersonRowsOnly == \A r \in NewRows : r.source # "tax"

\* One more record about a person never takes a triggered risk back, whatever
\* the gates, that open and close with the counts of the sources, do.
RisksAccumulate ==
  [][PersonRowsOnly => TriggeredRisks(report) \subseteq TriggeredRisks(report')]_vars

\* A risk is weighed by the best source among the records it cites.  One more
\* record about a person lowers the weight of a triggered risk only by crowding
\* a better source off its citations, which takes a list of eight.
Full(p) == Cardinality(report.atomic.paths[p].refs) >= 8
Lowered(p) == weighted_score(report'.atomic, p) < weighted_score(report.atomic, p)
OnlyFullListsLoseWeight ==
  [][PersonRowsOnly => \A p \in TriggeredRisks(report) : Lowered(p) => Full(p)]_vars

Bands == <<"low_evidence", "monitor", "review", "high_priority_review">>
Rank(band) == CHOOSE i \in DOMAIN Bands : Bands[i] = band
Outsider(r) ==
  /\ r.source # "tax"
  /\ ~_is_owner_row(evidence, r)
  /\ r.name.last \notin OwnerLasts(evidence)
Manual == "manual_verification"

RelativeOnRecord ==
  \E r \in Strangers(evidence, PersonSources) : r.name.last \in OwnerLasts(evidence)

\* A record of somebody outside the owners' families lowers the case's final
\* band, through the archetype or the cap on cases that rest on the lower-tier
\* sources, in two ways only.  It crowds a better source off a full list of
\* citations; or, at a house where a relative is on record too, an outsider's
\* loan or licence makes a clear absentee rental a family's, and that is never
\* of high priority.
OutsidersLowerBandOnlyBy ==
  [][(/\ \A r \in NewRows : Outsider(r)
      /\ report.final.band # Manual)
     => /\ report'.final.band # Manual
        /\ \/ Rank(report.final.band) <= Rank(report'.final.band)
           \/ \E p \in TriggeredRisks(report) : Full(p) /\ Lowered(p)
           \/ /\ RelativeOnRecord
              /\ report.final.archetype = "clear_absentee_rental"
              /\ report'.final.archetype = "family_household_rental"
              /\ report'.final.band = "review"]_vars

\* Once the owner is known, the gates hide no risk: every risk path that would
\* find something is evaluated.  The one exception is the comparison of the
\* owner's addresses on a single parcel, which the portfolio gate closes.
GatesHideNoRisk ==
  ~IdentityMissing(evidence) =>
    \A p \in reasoning_path_ids :
      (/\ RoleOf[p] = "risk"
       /\ p # "owner_primary_comparison_elsewhere"
       /\ PATH_EXECUTORS(evidence)[p].verdict = "found")
      => p \in TriggeredRisks(report)

\* The orchestrator asks the packet gates with the counts and hints of a case
\* and no rows.  It never skips a packet that the rows would run, but for the
\* portfolio packet of an address without tax rows.
CountsSkipNoPacket ==
  LET counted == evaluate_packet_gates(_evidence_from_report_dict(evidence))
  IN  /\ TypeOK
      /\ \A packet \in packet_ids :
           (report.packets[packet] = "run" /\ counted[packet] # "run")
           => packet = "portfolio_and_primary_comparison" /\ ~Counted(evidence, "tax")

\* When every record is the owner's own, of the one plain parcel and at its
\* address, the case scores nothing under either synthesis.
OwnersOwn(r) ==
  \E t \in db :
    /\ t.source = "tax"
    /\ \/ r.source # "utility" /\ r.id # NoId /\ r.id = t.id
       \/ r.name # NoName /\ r.name \in {t.name, t.owner}
OwnerOccupied ==
  /\ \A r \in db : r.at \in SubjectLine
  /\ \A r \in db : r.source = "tax" =>
       /\ r.mailing \in SubjectLine /\ ~r.distress /\ ~r.entity /\ r.rescount <= 1
  /\ \A r, t \in db : r.source = "tax" /\ t.source = "tax" => r = t
  /\ \A r \in db : r.source # "tax" => OwnersOwn(r)
OwnerOccupiedScoresNothing ==
  OwnerOccupied => report.synthesis.score = 0 /\ report.final.score = 0

\* An owner with a licence elsewhere and an unrelated renter at the subject
\* make a case for review under both syntheses, whatever else is on record,
\* and a clear absentee rental unless the weighted one finds a relative there.
AbsenteeRental ==
  /\ \E r \in db : r.source = "drive" /\ r.id \in evidence.owner_ids /\ Away(r.at)
  /\ \E r \in Renters(evidence) : r.name.last \notin OwnerLasts(evidence)
AbsenteeRentalReviewed ==
  AbsenteeRental =>
    /\ report.synthesis.archetype = "clear_absentee_rental"
    /\ report.final.archetype \in {"clear_absentee_rental", "family_household_rental"}
    /\ \/ report.final.band = Manual
       \/ Rank(report.final.band) >= Rank("review")
    /\ \/ report.synthesis.band = Manual
       \/ Rank(report.synthesis.band) >= Rank("review")
=============================================================================
