------------------------------ MODULE MCRuleEngine ------------------------------
(* A house with two parcels, its owner, a relative of the owner and two      *)
(* other people, and rows about them at the house and elsewhere.             *)
EXTENDS RuleEngine

MCName(first, last) == [first |-> first, last |-> last]
owner == MCName("ann", "ash")
kin == MCName("kim", "ash")
tenant == MCName("sam", "sol")
MCPerson == {owner, kin, tenant, MCName("ann", "moss")}
MCId == {"o1", "k1", "s1"}
MCElsewhere == {"far", "further"}

Person4(source, rowid, id, name, at) ==
  [source |-> source, id |-> id, name |-> name, at |-> at, rowid |-> rowid]
Loan(rowid, id, name, at, tenure) ==
  [source |-> "loan", id |-> id, name |-> name, at |-> at, tenure |-> tenure,
   rowid |-> rowid]
Base(rowid, id, name, at, mortgage) ==
  [source |-> "base", id |-> id, name |-> name, at |-> at, mortgage |-> mortgage,
   rowid |-> rowid]
House ==
  [source |-> "tax", id |-> "o1", name |-> NoName, owner |-> owner, at |-> "subject",
   mailing |-> "subject", residential |-> TRUE, condo |-> FALSE, lien |-> TRUE,
   distress |-> FALSE, entity |-> FALSE, rescount |-> 0, described |-> TRUE, rowid |-> 1]
Annex ==
  [House EXCEPT !.mailing = "further", !.rowid = 2]

MCHouse ==
  {House, Annex,
   Person4("drive", 1, "o1", owner, "far"),
   Person4("drive", 2, "s1", tenant, "subject"),
   Person4("auto", 2, "o1", owner, "subject"),
   Person4("auto", 1, "s1", tenant, "subject"),
   Person4("trace", 1, "k1", kin, "subject"),
   Loan(1, "s1", tenant, "subject", "rent"),
   Loan(2, "s1", tenant, "subject", "own"),
   Loan(3, "o1", MCName("ann", "moss"), "", "own"),
   Person4("utility", 1, "", NoName, "subject"),
   Person4("utility", 2, "", owner, "subject"),
   Base(1, "o1", owner, "variant", "mortgage")}

\* One stranger with more rows than a list of citations holds: eight at the
\* source listed first, which has no weight, and one at each of two others.
MCCrowd ==
  {House,
   Person4("drive", 2, "s1", tenant, "subject"),
   Person4("utility", 3, "", tenant, "subject")}
  \cup {Base(i, "s1", tenant, "subject", "") : i \in 2..9}

MCIndexes == {MCHouse, MCCrowd}
MCQueries == {[numbered |-> TRUE], [numbered |-> FALSE]}
=============================================================================
