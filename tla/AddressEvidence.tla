--------------------------- MODULE AddressEvidence ---------------------------
(***************************************************************************)
(* The evidence the rule engine reads: build_evidence of                   *)
(* src/heuristics/atomic_eval.ts over the tables of the index.             *)
(*                                                                         *)
(* A row is a record.  Every row has its source, the person's id and name  *)
(* (first and last, "" when missing) and an address `at'.  The subject has *)
(* two spellings, "subject" and "variant": they normalise to the same line *)
(* (normalize_address_value) but differ as text.  A loan row has a tenure, *)
(* a base row the kind of its mortgage fields; a tax row has the fields    *)
(* the rules look at.  rowid is the row's place in the order the index     *)
(* returns the rows of one fetch in.                                       *)
(***************************************************************************)
EXTENDS Integers, FiniteSets, AtomicCatalog

NoId == ""
NoAddress == ""
NoName == [first |-> "", last |-> ""]

CONSTANTS
  Person,     \* the person keys: names with a first or a last part
  Id,         \* person ids
  Elsewhere   \* addresses other than the subject's

ASSUME EvidenceConstants ==
  /\ \A n \in Person : n # NoName
  /\ NoId \notin Id
  /\ Elsewhere \cap {"subject", "variant", NoAddress} = {}

Name == Person \cup {NoName}
SubjectLine == {"subject", "variant"}
Address == Elsewhere \cup SubjectLine \cup {NoAddress}

PersonRow ==
  [source : {"drive", "auto", "trace", "utility"}, id : Id \cup {NoId},
   name : Name, at : Address, rowid : Nat]
LoanRow ==
  [source : {"loan"}, id : Id \cup {NoId}, name : Name, at : Address,
   tenure : {"own", "rent", ""}, rowid : Nat]
BaseRow ==
  [source : {"base"}, id : Id \cup {NoId}, name : Name, at : Address,
   mortgage : {"", "mortgage", "refinance", "purchase"}, rowid : Nat]

\* name is the row's own person key, owner the key of its ownername; entity
\* says that the owner is a company or a trust; described that one of the
\* property fields is filled in.
TaxRow ==
  [source : {"tax"}, id : Id \cup {NoId}, name : Name, owner : Name, at : Address,
   mailing : Address, residential : BOOLEAN, condo : BOOLEAN, lien : BOOLEAN,
   distress : BOOLEAN, entity : BOOLEAN, rescount : Nat, described : BOOLEAN,
   rowid : Nat]
Row == PersonRow \cup LoanRow \cup BaseRow \cup TaxRow

\* The query: `numbered' says that its normalised address has a digit.
Query == [numbered : BOOLEAN]

\* The order of a list of rows: source by source, the rows fetched by address
\* before those fetched by id only, and in the order they were fetched.
SourceOrder ==
  [tax |-> 1, base |-> 2, loan |-> 3, drive |-> 4, auto |-> 5, trace |-> 6, utility |-> 7]
Listed(q, r) ==
  \/ SourceOrder[q.source] < SourceOrder[r.source]
  \/ /\ q.source = r.source
     /\ \/ q.at \in SubjectLine /\ r.at \notin SubjectLine
        \/ (q.at \in SubjectLine <=> r.at \in SubjectLine) /\ q.rowid < r.rowid

-----------------------------------------------------------------------------
\* A fetch returns limit_per_source rows at most.  The index is assumed to hold
\* no more of a source (RuleEngine!EngineConstants), so that none is cut off.
limit_per_source == 100

\* __norm_address = ?
_address_rows(db, source) ==
  {r \in db : r.source = source /\ r.at \in SubjectLine}

\* id IN (...), at any address.
_id_rows(db, source, ids) == {r \in db : r.source = source /\ r.id \in ids}

\* The sources whose rows are also fetched by the owners' ids.
FetchedById == {"base", "loan", "drive", "auto", "trace"}

\* The ownername is left out.
PersonKeysOnly(taxRows) == {r.name : r \in taxRows} \ {NoName}

\* _owner_name_keys: the person key and the ownername key of the tax rows.
_owner_name_keys(taxRows) ==
  ({r.name : r \in taxRows} \cup {r.owner : r \in taxRows}) \ {NoName}

\* _is_owner_name_row and _is_owner_row, for the rows of an evidence.
_is_owner_name_row(e, r) == r.name # NoName /\ r.name \in e.owner_name_keys

\* Only the name counts.
OwnerByNameAlone(e, r) == _is_owner_name_row(e, r)
_is_owner_row(e, r) ==
  \/ r.id # NoId /\ r.id \in e.owner_ids
  \/ _is_owner_name_row(e, r)

\* A tax owner's row, somewhere else.  The line may not be empty.
Away(at) == at \notin SubjectLine /\ at # NoAddress

\* Hints are counted by the gates; what they say is the source they are about.
_owner_presence_hints(e) ==
  {s \in FetchedById : \E r \in e.rows[s] : _is_owner_row(e, r)} \cup
  {s \in {"utility"} : \E r \in e.rows[s] : _is_owner_name_row(e, r)}
_owner_elsewhere_hints(db, e) ==
  {s \in {"tax"} : \E r \in e.rows[s] : Away(r.mailing)} \cup
  {s \in {"drive", "auto", "trace", "loan"} :
     \E r \in _id_rows(db, s, e.owner_ids) : Away(r.at)}
_nonowner_hints(e) ==
  {s \in FetchedById \cup {"utility"} : \E r \in e.rows[s] : ~_is_owner_row(e, r)}

build_evidence(db, query) ==
  LET tax == _address_rows(db, "tax")
      ids == {r.id : r \in tax} \ {NoId}
      rows == [s \in SUBSTANTIVE_SOURCES |->
                 _address_rows(db, s) \cup
                   (IF s \in FetchedById THEN _id_rows(db, s, ids) ELSE {})]
      facts == [rows |-> rows, numbered |-> query.numbered, owner_ids |-> ids,
                owner_name_keys |-> _owner_name_keys(tax)]
  IN  [rows |-> rows,
       numbered |-> query.numbered,
       owner_ids |-> ids,
       owner_name_keys |-> _owner_name_keys(tax),
       source_counts |-> [s \in SUBSTANTIVE_SOURCES |-> Cardinality(rows[s])],
       owner_summaries |-> IF Cardinality(tax) < 5 THEN Cardinality(tax) ELSE 5,
       owner_presence_hints |-> _owner_presence_hints(facts),
       owner_elsewhere_hints |-> _owner_elsewhere_hints(db, facts),
       nonowner_occupancy_hints |-> _nonowner_hints(facts)]

\* The same evidence without its rows: the shape _evidence_from_report_dict
\* makes of a case's evidence map, which carries counts and hints only.
_evidence_from_report_dict(e) ==
  [e EXCEPT !.rows = [s \in SUBSTANTIVE_SOURCES |-> {}],
            !.owner_ids = {}, !.owner_name_keys = {}]
=============================================================================
