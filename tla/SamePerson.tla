----------------------------- MODULE SamePerson -----------------------------
(***************************************************************************)
(* Same-person resolution: the pairs offered to the model and the groups   *)
(* made of its verdicts (src/agents/pair_verdicts.ts), their validation    *)
(* and the merged people list (src/agents/same_person.ts).  A person is    *)
(* its position in people_at_address; owners are never paired.             *)
(***************************************************************************)
EXTENDS Integers, Sequences, FiniteSets, SequencesExt, FiniteSetsExt, Folds

CONSTANTS
  People,     \* number of people at the address
  LastNames,  \* the last names they may have: a set of functions to Nat
  JointRows,  \* the people whose name may be a joint row: a set of sets
  MaxPairs,   \* max_pairs
  Answers(_)  \* Answers(pairs): the verdict lists a model may give for them

Person == 1 .. People

ASSUME PeopleConstants ==
  /\ People \in Nat /\ MaxPairs \in Nat
  /\ \A n \in LastNames : n \in [Person -> Nat]
  /\ JointRows \subseteq SUBSET Person

\* "same" stands for every same verdict but the joint one; a verdict that is
\* not listed counts as no answer.
Verdict == {"same", "joint", "different", "not_sure", "unlisted"}

VARIABLES
  phase,     \* "listing", "asking", "judged", "merged"
  lastName, joint,
  offered,   \* the candidate pairs, as sets of two people
  said,      \* the verdicts of the answer, pair by pair, in order
  groups,    \* groups of validate_same_person_groups
  list       \* the people list of the report, an entry being a set of people

peopleVars == <<phase, lastName, joint, offered, said, groups, list>>

PeopleTypeOK ==
  /\ phase \in {"listing", "asking", "judged", "merged"}
  /\ lastName \in LastNames /\ joint \in JointRows
  /\ offered \subseteq kSubset(2, Person)
  /\ said \in [offered -> Seq(Verdict)]
  /\ groups \subseteq SUBSET Person
  /\ list \in Seq(SUBSET Person)

PeopleInit ==
  /\ phase = "listing"
  /\ lastName \in LastNames /\ joint \in JointRows
  /\ offered = {} /\ said = << >> /\ groups = {}
  /\ list = [i \in Person |-> {i}]

-----------------------------------------------------------------------------
(* The candidate pairs.                                                    *)

\* 0 stands for a name without a last word: it is in no block.
Block(n) == {a \in Person : lastName[a] = n}
Names == {lastName[a] : a \in Person} \ {0}

\* The list cut at the limit, in the middle of a block if need be.
OfferUpTo(acc, n) ==
  CHOOSE s \in SUBSET (acc \cup kSubset(2, Block(n))) :
    acc \subseteq s /\ Cardinality(s) = FoldSet(LAMBDA x, m : IF m < MaxPairs THEN m + 1 ELSE m,
                                                0, acc \cup kSubset(2, Block(n)))

\* A block that would pass the limit is left out whole; later ones still fit.
OfferBlock(acc, n) ==
  LET pairs == kSubset(2, Block(n))
  IN IF Cardinality(acc) + Cardinality(pairs) > MaxPairs THEN acc ELSE acc \cup pairs

\* In the order of the last names, the greatest after all the others.
CandidatePairs ==
  MapThenFoldSet(LAMBDA n, acc : OfferBlock(acc, n), {}, LAMBDA n : n, LAMBDA ns : Max(ns), Names)

Offer ==
  /\ phase = "listing"
  /\ offered' = CandidatePairs
  /\ said' = [p \in offered' |-> <<>>]
  /\ phase' = IF offered' = {} THEN "judged" ELSE "asking"
  /\ UNCHANGED <<lastName, joint, groups, list>>

-----------------------------------------------------------------------------
(* The answer: verdicts for some of the pairs, perhaps several for one, or *)
(* nothing when the call fails, times out or does not use the tool.        *)

Judge ==
  /\ phase = "asking"
  /\ said' \in Answers(offered) \cap [offered -> Seq(Verdict)]
  /\ phase' = "judged"
  /\ UNCHANGED <<lastName, joint, offered, groups, list>>

Answered == {p \in offered : \E i \in DOMAIN said[p] : said[p][i] # "unlisted"}
CalledDifferent == {p \in offered : "different" \in Range(said[p])}

\* Only what the model labels a joint row is one.
IsJointByLabel(p, v) == v = "joint"
\* A link of a joint row to a line that is not one names one person of that
\* row, whatever its label.
IsJoint(p, v) == v = "joint" \/ Cardinality(p \cap joint) = 1

\* A joint label on two separate lines is rejected.
IsLink(p, v) == v = "same" \/ (v = "joint" /\ p \cap joint # {})

\* The links of a pair, as places in its verdicts.
JointLinks(p) == {i \in DOMAIN said[p] : IsLink(p, said[p][i]) /\ IsJoint(p, said[p][i])}
PlainLinks(p) == {i \in DOMAIN said[p] : IsLink(p, said[p][i]) /\ ~IsJoint(p, said[p][i])}

\* The lines with more than one joint link.
Ambiguous ==
  {a \in UNION offered :
     \E p, q \in offered : \E i \in JointLinks(p), j \in JointLinks(q) :
       a \in p \cap q /\ <<p, i>> # <<q, j>>}

Edges ==
  {p \in offered : PlainLinks(p) # {} \/ (JointLinks(p) # {} /\ p \cap Ambiguous = {})}

\* The tree the edge meets first swallows its ends, not the trees they are in.
JoinEnds(p, parts) ==
  IF \E c \in parts : c \cap p # {}
  THEN LET c == CHOOSE c \in parts : c \cap p # {} IN (parts \ {c}) \cup {c \cup p}
  ELSE parts \cup {p}

\* Union-find: an edge joins the trees of its two ends.
Join(p, parts) ==
  LET touched == {c \in parts : c \cap p # {}}
  IN (parts \ touched) \cup {p \cup UNION touched}

Components == FoldSet(Join, {}, Edges)

\* The model called a pair of the group different people.
Contradictory(g) == \E p \in CalledDifferent : p \subseteq g
\* Only the links that made the group were looked at.
IncompleteLinks(g) == \E p \in Edges : p \subseteq g /\ p \notin Answered
\* A pair of the group got no listed verdict.
Incomplete(g) == \E p \in kSubset(2, g) : p \notin Answered

GroupsFromVerdicts == {g \in Components : ~Contradictory(g) /\ ~Incomplete(g)}

\* A person that two groups claim drops both.
Validated(gs) == {g \in gs : Cardinality(g) >= 2 /\ \A h \in gs \ {g} : g \cap h = {}}

\* Every member of a group keeps a place for it.
KeptEntry(gs, i) ==
  LET mine == {g \in gs : i \in g}
  IN IF mine = {} THEN <<{i}>> ELSE <<CHOOSE g \in mine : TRUE>>

\* A group stands where its first member was; its other places are gone.
MergedEntry(gs, i) ==
  LET mine == {g \in gs : i \in g}
  IN IF mine = {} THEN <<{i}>>
     ELSE LET g == CHOOSE g \in mine : TRUE IN IF i = Min(g) THEN <<g>> ELSE <<>>

\* merge_same_person_people over the groups that validation keeps.
Merge ==
  /\ phase = "judged"
  /\ phase' = "merged"
  /\ groups' = Validated(GroupsFromVerdicts)
  /\ list' = FlattenSeq([i \in Person |-> MergedEntry(groups', i)])
  /\ UNCHANGED <<lastName, joint, offered, said>>

PeopleNext == Offer \/ Judge \/ Merge

PeopleSpec == PeopleInit /\ [][PeopleNext]_peopleVars

-----------------------------------------------------------------------------
\* Nobody is lost or listed twice by the merge, and the entries keep the order
\* of their first members.
EveryoneOnce ==
  /\ \A a \in Person : Cardinality({i \in DOMAIN list : a \in list[i]}) = 1
  /\ \A i, j \in DOMAIN list : i < j => Min(list[i]) < Min(list[j])

\* "Wrongly merging two real people hides an occupant": two lines share an
\* entry only if the model judged this very pair and did not call it different,
\* however many links lead from one to the other.
OnlyJudgedMerges ==
  \A i \in DOMAIN list : \A p \in kSubset(2, list[i]) :
    p \in Answered \ CalledDifferent

\* A joint row names two people.  One that is linked to two separate lines loses
\* both links: it is listed alone, or with another joint row that it was called the
\* same as, whatever labels the links had.
LinkedTo(a, b) == {a, b} \in offered /\ JointLinks({a, b}) # {}
LinkedTwice(a) == \E b, c \in Person \ joint : b # c /\ LinkedTo(a, b) /\ LinkedTo(a, c)

OneLinkPerJointRow ==
  phase = "merged" => \A a \in joint : LinkedTwice(a) =>
    \A i \in DOMAIN list : a \in list[i] /\ list[i] # {a} =>
      \E d \in (list[i] \cap joint) \ {a} : "same" \in Range(said[{a, d}])

\* "A row linked twice merges nobody": none of the separate lines it is linked to
\* shares its entry.
RowLinkedTwiceMergesNobody ==
  phase = "merged" => \A a \in joint : LinkedTwice(a) =>
    \A i \in DOMAIN list : a \in list[i] => ~\E b \in list[i] \ joint : LinkedTo(a, b)

\* Among separate lines the merge is complete: "a last-name group is listed whole
\* or not at all", within the limit, and two lines called the same end up in one
\* entry unless some pair they are connected to was called different or was not
\* judged.
Closed(set) == \A p \in offered : PlainLinks(p) # {} /\ p \cap set # {} => p \subseteq set
Reach(a) == {b \in Person : \A set \in SUBSET Person : a \in set /\ Closed(set) => b \in set}

AgreedLinesMerge ==
  /\ phase # "listing" =>
       /\ Cardinality(offered) <= MaxPairs
       /\ \A p \in offered : \A a \in p : kSubset(2, Block(lastName[a])) \subseteq offered
  /\ phase = "merged" /\ joint = {} =>
       \A p \in offered : "same" \in Range(said[p]) =>
         \/ \E i \in DOMAIN list : p \subseteq list[i]
         \/ \E a \in p : \E q \in kSubset(2, Reach(a)) :
              q \notin Answered \/ q \in CalledDifferent

=============================================================================
