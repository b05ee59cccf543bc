---------------------------- MODULE FingerprintProbe ----------------------------
(***************************************************************************)
(* The content of a fingerprint: the typed probe of                        *)
(* src/fingerprint/typed_probe.ts reads an address and some of its people  *)
(* with several calls to the data service, and data_source_probe.ts hashes *)
(* what it read.  The probe runs at every cache lookup; a report is reused *)
(* when two probes, days apart, give one key.                              *)
(*                                                                         *)
(* The data service is external: it answers in any order, may fail any     *)
(* call and may cut a person's records short.  Its data changes between    *)
(* and during probes.  The page limits of the reads (25, 25 and 20) are    *)
(* beyond what an address holds here.                                      *)
(*                                                                         *)
(* A record is the tuple of what record_key joins; the hash is injective,  *)
(* so a key is the list that is hashed.                                    *)
(***************************************************************************)
EXTENDS Integers, FiniteSets, Sequences, SequencesExt

CONSTANTS
  AddressRow,    \* the rows an address may have
  Person,        \* the ids of the people who may be linked to it
  PersonRow,     \* the rows a person may have
  MaxProbed,     \* max_probed_persons
  MaxChanges     \* bound: the changes of the data in a behaviour

Identity == -1    \* the source of a person node, which no row has

ASSUME ProbeConstants ==
  /\ AddressRow \subseteq Int /\ Person \subseteq Int /\ PersonRow \subseteq Int \ {Identity}
  /\ IsFiniteSet(AddressRow) /\ IsFiniteSet(Person) /\ IsFiniteSet(PersonRow)
  /\ MaxProbed \in Nat

VARIABLES
  world,      \* the data: the address's rows, its people and their rows
  changes,    \* how often it has changed
  pc,         \* the read the probe is at
  calls,      \* data calls paid
  records,    \* what it has read
  persons,    \* people whose records are still to be read
  key,        \* the key, or Unavailable
  trouble,    \* what the service did to this probe
  taken,      \* the data when the probe began
  steady,     \* and it has not changed while it read
  last        \* the probe before: its key and the data it was taken of
probeVars == <<world, changes, pc, calls, records, persons, key, trouble, taken, steady, last>>

Worlds == [rows : SUBSET AddressRow, people : SUBSET Person,
           of : [Person -> SUBSET PersonRow]]
Unavailable == <<>>

\* A budget without the call for the people.
OneCallShort == 2 + MaxProbed
\* 1 resolve + 1 address-multi + 1 people + one per probed person.
MaxCalls == 3 + MaxProbed

-----------------------------------------------------------------------------
(* Records and keys. *)

AddressScope == 0
PersonScope == 1

\* A row without its summary and its transport fields.
compact_row_record(scope, subject, row) == <<scope, subject, row>>

\* The records of the rows, in the order the service answers them.
Answers(scope, subject, rows) ==
  {[i \in DOMAIN order |-> compact_row_record(scope, subject, order[i])] :
     order \in SetToSeqs(rows)}

Precedes(a, b) ==
  \E i \in DOMAIN a : a[i] < b[i] /\ \A j \in 1 .. i - 1 : a[j] = b[j]

\* The sequence in which a place k comes after the places before[k].
ByRank(seq, before) ==
  [i \in DOMAIN seq |-> seq[CHOOSE k \in DOMAIN seq : Cardinality(before[k]) = i - 1]]

\* A total order over records: one list for one set of them.
sort_records(seq) ==
  ByRank(seq, [k \in DOMAIN seq |->
                 {j \in DOMAIN seq : Precedes(seq[j], seq[k]) \/ (seq[j] = seq[k] /\ j < k)}])

records_fingerprint(seq) == <<sort_records(seq)>>

\* A window on the people in the order of the answer.
FirstAnswered(nodes) ==
  [i \in 1 .. (IF Len(nodes) < MaxProbed THEN Len(nodes) ELSE MaxProbed) |-> nodes[i]]
\* The people whose records are read: the first by id, whatever the order of
\* the answer.
Window(nodes) ==
  LET byId == ByRank(nodes, [k \in DOMAIN nodes |-> {j \in DOMAIN nodes : nodes[j] < nodes[k]}])
  IN  [i \in 1 .. (IF Len(nodes) < MaxProbed THEN Len(nodes) ELSE MaxProbed) |-> byId[i]]

-----------------------------------------------------------------------------
(* The probe. *)

ProbeInit ==
  /\ world \in Worlds
  /\ changes = 0
  /\ pc = "settled"
  /\ calls = 0 /\ records = <<>> /\ persons = <<>>
  /\ key = Unavailable /\ trouble = "failed"
  /\ taken = world /\ steady = FALSE
  /\ last = [key |-> key, world |-> world, sound |-> FALSE]

\* The service answered everything, of one version of the data.
Sound == steady /\ trouble = "none"

probe ==
  /\ pc = "settled"
  /\ pc' = "resolve"
  /\ last' = [key |-> key, world |-> taken, sound |-> Sound]
  /\ calls' = 0
  /\ key' = Unavailable /\ trouble' = "none"
  /\ taken' = world /\ steady' = TRUE
  /\ UNCHANGED <<world, changes, records, persons>>

\* The probe ends and its reads are forgotten.
Settle(answer, why) ==
  /\ pc' = "settled"
  /\ key' = answer /\ trouble' = why
  /\ records' = <<>> /\ persons' = <<>>

\* A null, whatever was read before.
Abort(why) == Settle(Unavailable, why)

\* A call of the probe's CountingDataClient is paid whether or not the service
\* answers, and refused once the budget is spent.
OverBudget == calls >= MaxCalls
Call(read) ==
  /\ pc = read
  /\ calls' = IF OverBudget THEN calls ELSE calls + 1
  /\ UNCHANGED <<world, changes, taken, steady, last>>

\* The next read, or the hash of all of them.
Proceed(at, read, left, why) ==
  IF at = "person" /\ left = <<>>
    THEN Settle(records_fingerprint(read), why)
    ELSE /\ pc' = at
         /\ records' = read /\ persons' = left
         /\ trouble' = why
         /\ UNCHANGED key

resolve ==
  /\ Call("resolve")
  /\ IF OverBudget THEN Abort("over_budget")
     ELSE \/ Abort("failed") \/ Abort("unresolved")
          \/ Proceed("address", <<>>, <<>>, "none")

fetch_address_records_multi ==
  /\ Call("address")
  /\ IF OverBudget THEN Abort("over_budget")
     ELSE \/ Abort("failed")
          \/ \E rows \in Answers(AddressScope, 0, world.rows) :
               Proceed("people", rows, <<>>, "none")

Identities(nodes) == [i \in DOMAIN nodes |-> <<PersonScope, nodes[i], Identity>>]

fetch_people_at_address ==
  /\ Call("people")
  /\ IF OverBudget THEN Abort("over_budget")
     ELSE \/ Abort("failed")
          \/ \E nodes \in SetToSeqs(world.people) :
               Proceed("person", records \o Identities(nodes), Window(nodes), "none")

\* records_timed_out comes with ok: the rows there are get hashed.
fetch_person_records ==
  /\ Call("person")
  /\ IF OverBudget THEN Abort("over_budget")
     ELSE \/ Abort("failed")
          \/ \E held \in SUBSET world.of[Head(persons)] :
               \E rows \in Answers(PersonScope, Head(persons), held) :
                 Proceed("person", records \o rows, Tail(persons),
                         IF held = world.of[Head(persons)] THEN trouble ELSE "timed_out")

Rows(w) == {<<"row", r>> : r \in w.rows} \cup {<<"person", p>> : p \in w.people}
           \cup UNION {{<<"of", p, r>> : r \in w.of[p]} : p \in Person}

\* The data changes by one row or one person.
Change ==
  /\ changes < MaxChanges
  /\ changes' = changes + 1
  /\ world' \in {w \in Worlds :
       Cardinality((Rows(w) \ Rows(world)) \cup (Rows(world) \ Rows(w))) = 1}
  /\ steady' = (steady /\ pc = "settled")
  /\ UNCHANGED <<pc, calls, records, persons, key, trouble, taken, last>>

ProbeNext ==
  \/ probe \/ resolve \/ fetch_address_records_multi \/ fetch_people_at_address
  \/ fetch_person_records \/ Change
ProbeSpec == ProbeInit /\ [][ProbeNext]_probeVars

-----------------------------------------------------------------------------
ProbeTypeOK ==
  /\ world \in Worlds /\ taken \in Worlds
  /\ pc \in {"settled", "resolve", "address", "people", "person"}
  /\ calls \in 0 .. MaxCalls
  /\ persons \in Seq(Person)
  /\ trouble \in {"none", "failed", "unresolved", "timed_out", "over_budget"}
  /\ steady \in BOOLEAN

\* An address has no key only if the service failed a call of the probe or does
\* not know the address: however many people it has, the probe's own budget
\* never costs it the lookup.
NullOnlyForCause ==
  pc = "settled" => (key = Unavailable <=> trouble \in {"failed", "unresolved"})

\* What of the data a key is taken over: the address's rows, its people, and
\* the rows of the first of them by id.
Covered(w) ==
  {f \in Rows(w) : f[1] = "of" =>
     /\ f[2] \in w.people
     /\ Cardinality({p \in w.people : p < f[2]}) < MaxProbed}

\* Two probes that the service answered in full give one key exactly if the
\* data they cover is the same: whatever the order of the answers and whichever
\* row or person came or went in between.
KeysTellDataApart ==
  /\ ProbeTypeOK
  /\ pc = "settled" /\ Sound /\ last.sound =>
       (key = last.key <=> Covered(taken) = Covered(last.world))
=============================================================================
