------------------------------ MODULE Planning ------------------------------
(***************************************************************************)
(* Which packets of an investigation get a worker: the deterministic gate, *)
(* the master plan or its fallback, the suppression of absence workers,    *)
(* the selection of the packets to launch and their buckets                *)
(* (_investigate, src/agents/orchestrator.ts).                             *)
(***************************************************************************)
EXTENDS Integers, Sequences, FiniteSets, SequencesExt

CONSTANTS
  Catalog,    \* the packets in catalogue order
  Synthesis,  \* case_quality_and_synthesis
  GroupOf,    \* GroupOf[p]: the group of a packet, None if it has none
  SourcesOf,  \* SourcesOf[p]: its input_sources
  Source,
  Tax,        \* the tax source
  Requests,   \* the selections an allowlist and a blocklist may leave
  Foreign,    \* an id the master may invent
  MaxEntries, \* bound on the entries of a master plan, in both its lists together
  None

Packet == Range(Catalog)

ASSUME PlanningConstants ==
  /\ Catalog \in Seq(Packet) /\ IsInjective(Catalog)
  /\ Synthesis \in Packet
  /\ SourcesOf \in [Packet -> SUBSET Source]
  /\ Requests \subseteq SUBSET Packet
  /\ Foreign \notin Packet
  /\ MaxEntries \in Nat

Decision == {"run", "run_for_absence", "skip"}
Entry == [id : Packet \cup {Foreign}, decision : Decision]

VARIABLES
  phase,      \* "gating", "planning", "planned", "launched"
  requested,  \* selected_heuristics(allowlist, blocklist)
  populated,  \* the packets whose field gate or atomic path finds evidence
  counted,    \* the sources whose source_counts entry is positive
  candidates, \* candidate_heuristics, after the gate
  gateSkips,  \* gate_skips
  planner,    \* plan.planner
  drafted,    \* plan.selected as the planner left it, before suppression
  selected,   \* plan.selected
  skipped,    \* plan.skipped
  launched,   \* heuristics: the packets to launch
  buckets

evidence == <<requested, populated, counted>>
plan == <<planner, drafted, selected, skipped>>
vars == <<phase, evidence, candidates, gateSkips, plan, launched, buckets>>

\* The elements of s that are in S, in their order: filter().
OnlyIn(s, S) == FlattenSeq([i \in DOMAIN s |-> IF s[i] \in S THEN <<s[i]>> ELSE <<>>])

Ids(entries) == [i \in DOMAIN entries |-> entries[i].id]
Entries(ids, decision) ==
  [i \in DOMAIN ids |-> [id |-> ids[i], decision |-> decision]]

PlanTypeOK ==
  /\ phase \in {"gating", "planning", "planned", "launched"}
  /\ requested \in Requests
  /\ populated \subseteq Packet /\ counted \subseteq Source
  /\ candidates \in Seq(requested) /\ gateSkips \in Seq(requested)
  /\ planner \in {"none", "master", "fallback"}
  /\ \A s \in {drafted, selected, skipped} :
       s \in Seq([id : requested, decision : Decision])
  /\ launched \in Seq(Range(candidates))
  /\ buckets \in Seq(Seq(Range(candidates)) \ {<<>>})

Init ==
  /\ phase = "gating"
  /\ requested \in Requests
  /\ populated \in SUBSET (Packet \ {Synthesis})
  /\ counted \in SUBSET Source
  /\ candidates = <<>> /\ gateSkips = <<>>
  /\ planner = "none" /\ drafted = <<>> /\ selected = <<>> /\ skipped = <<>>
  /\ launched = <<>> /\ buckets = <<>>

-----------------------------------------------------------------------------
\* The synthesis packet documents absence, every other packet is skipped when
\* no path of it has evidence.
GateDecision(p) ==
  IF p = Synthesis
  THEN IF SourcesOf[p] \cap counted # {} /\ Tax \in counted
       THEN "run" ELSE "run_for_absence"
  ELSE IF p \in populated THEN "run" ELSE "skip"

Runnable(p) ==
  \/ GateDecision(p) = "run"
  \/ p = Synthesis /\ GateDecision(p) = "run_for_absence"

Gate ==
  /\ phase = "gating"
  /\ phase' = "planning"
  /\ candidates' = OnlyIn(Catalog, {p \in requested : Runnable(p)})
  /\ gateSkips' = OnlyIn(Catalog, {p \in requested : ~Runnable(p)})
  /\ UNCHANGED <<evidence, plan, launched, buckets>>

-----------------------------------------------------------------------------
\* Entries that keep their worker: absence is recorded, not investigated, except
\* by the synthesis packet.
Kept == {e \in Entry : e.decision = "run_for_absence" => e.id = Synthesis}

\* The suppressed entry is dropped from the plan altogether.
SuppressSilently(from, alreadySkipped) ==
  selected' = OnlyIn(from, Kept) /\ skipped' = alreadySkipped

\* Every entry is kept, so that absence is given a worker.
SuppressNothing(from, alreadySkipped) ==
  selected' = from /\ skipped' = alreadySkipped

\* _suppress_absence_workers
Suppress(from, alreadySkipped) ==
  /\ selected' = OnlyIn(from, Kept)
  /\ skipped' = alreadySkipped \o Entries(Ids(OnlyIn(from, Entry \ Kept)), "skip")

\* The entries with these decisions whose ids were offered to the planner.
Offered(decisions) == {e \in Entry : e.id \in Range(candidates) /\ e.decision \in decisions}
Workable == Decision \ {"skip"}

\* The plan of the model replaces the deterministic skips.
PlanByMasterAlone(asked, turnedDown) ==
  /\ phase = "planning"
  /\ phase' = "planned"
  /\ planner' = "master"
  /\ drafted' = OnlyIn(asked, Offered(Workable))
  /\ Suppress(drafted', OnlyIn(turnedDown, Offered({"skip"})))
  /\ UNCHANGED <<evidence, candidates, gateSkips, launched, buckets>>

\* The master answers with a plan.  Entries for other ids, or in the wrong list
\* for their decision, are dropped; the gate's skips are appended; a candidate
\* the model leaves out stays out.
PlanByMaster(asked, turnedDown) ==
  /\ phase = "planning"
  /\ phase' = "planned"
  /\ planner' = "master"
  /\ drafted' = OnlyIn(asked, Offered(Workable))
  /\ Suppress(drafted', OnlyIn(turnedDown, Offered({"skip"})) \o Entries(gateSkips, "skip"))
  /\ UNCHANGED <<evidence, candidates, gateSkips, launched, buckets>>

\* _default_plan_for_heuristic
DefaultDecision(p) ==
  IF SourcesOf[p] # {} /\ SourcesOf[p] \cap counted = {}
  THEN "run_for_absence" ELSE "run"

\* Planning disabled, no model, no tool support, a failed call, or an answer
\* that is not one well-formed submit_investigation_plan call.
PlanByFallback ==
  /\ phase = "planning"
  /\ phase' = "planned"
  /\ planner' = "fallback"
  /\ drafted' = [i \in DOMAIN candidates |->
                   [id |-> candidates[i], decision |-> DefaultDecision(candidates[i])]]
  /\ Suppress(drafted', Entries(gateSkips, "skip"))
  /\ UNCHANGED <<evidence, candidates, gateSkips, launched, buckets>>

-----------------------------------------------------------------------------
Grouped(p) == GroupOf[p] # None
Mates(ps, p) == OnlyIn(ps, {q \in Packet : GroupOf[q] = GroupOf[p]})

\* A packet joins the bucket before it when that has its group.
BucketNeighbours(ps) ==
  FoldLeft(LAMBDA acc, p :
             IF acc # <<>> /\ Grouped(p) /\ GroupOf[Last(acc)[1]] = GroupOf[p]
             THEN [acc EXCEPT ![Len(acc)] = Append(@, p)]
             ELSE Append(acc, <<p>>),
           <<>>, ps)

\* _bucket_by_group: one bucket per group, at the place of its first packet,
\* and one per ungrouped packet.
BucketByGroup(ps) ==
  LET opens(i) == ~Grouped(ps[i]) \/ \A j \in 1 .. i - 1 : GroupOf[ps[j]] # GroupOf[ps[i]]
      places == OnlyIn([i \in DOMAIN ps |-> i], {i \in DOMAIN ps : opens(i)})
  IN [b \in DOMAIN places |->
        IF Grouped(ps[places[b]]) THEN Mates(ps, ps[places[b]]) ELSE <<ps[places[b]]>>]

Select ==
  /\ phase = "planned"
  /\ phase' = "launched"
  /\ launched' = Ids(OnlyIn(selected, Offered(Workable)))
  /\ buckets' = BucketByGroup(launched')
  /\ UNCHANGED <<evidence, candidates, gateSkips, plan>>

BoundedEntries(n) == UNION {[1 .. m -> Entry] : m \in 0 .. n}

Next ==
  \/ Gate
  \/ \E asked \in BoundedEntries(MaxEntries) :
       \E turnedDown \in BoundedEntries(MaxEntries - Len(asked)) : PlanByMaster(asked, turnedDown)
  \/ PlanByFallback
  \/ Select

Spec == Init /\ [][Next]_vars

-----------------------------------------------------------------------------
Planned == phase \in {"planned", "launched"}
Done == phase = "launched"

\* Whatever the model plans, a packet the gate turned away is on record as
\* skipped and gets no worker.
GateSkipsStand ==
  \A p \in requested : p # Synthesis /\ p \notin populated =>
    /\ Planned => p \in Range(Ids(skipped))
    /\ p \notin Range(launched)

\* What a planner wants run is launched or on record as skipped, and a worker is
\* launched to document absence only for the synthesis packet: the suppression
\* and the selection neither lose nor keep too much between them.
PlannedIsAccounted ==
  /\ PlanTypeOK
  /\ Done => \A e \in Range(drafted) :
       e.id \in Range(launched) \cup Range(Ids(skipped))
  /\ Done => \A p \in Range(launched) \ {Synthesis} :
       \E e \in Range(drafted) : e = [id |-> p, decision |-> "run"]

\* Without a master plan every packet of the request has exactly one fate: one
\* launch or one skip.
FallbackCoversRequest ==
  Done /\ planner = "fallback" =>
    LET fates == launched \o Ids(skipped)
    IN Range(fates) = requested /\ IsInjective(fates)

Occurrences(p, s) == Cardinality({i \in DOMAIN s : s[i] = p})

\* The buckets hold every launched packet, one that a plan lists twice both
\* times; each group is in one bucket and strangers are never together; the
\* buckets come in the order of the packets that opened them.
BucketsPartition ==
  Done =>
    /\ \A p \in Packet : Occurrences(p, FlattenSeq(buckets)) = Occurrences(p, launched)
    /\ \A b \in DOMAIN buckets : \A p, q \in Range(buckets[b]) :
         p = q \/ (Grouped(p) /\ GroupOf[p] = GroupOf[q])
    /\ \A b, c \in DOMAIN buckets : \A p \in Range(buckets[b]), q \in Range(buckets[c]) :
         Grouped(p) /\ GroupOf[p] = GroupOf[q] => b = c
    /\ \E place \in [DOMAIN buckets -> DOMAIN launched] :
         /\ \A b \in DOMAIN buckets : launched[place[b]] = buckets[b][1]
         /\ \A b, c \in DOMAIN buckets : b < c => place[b] < place[c]

=============================================================================
