# Verification of the occupancy engine

TLA+ modules, TLC configurations and TLAPS proofs for the occupancy engine in
`src/` (TypeScript on Bun): a service that, for one address, asks a data service
for records, lets a set of model-driven workers judge them, and streams a report.
Paths below are relative to the repository (`src/...` of the repository is
`src/src/...` in `PROJECT.json`, where the repository is mounted under `src/`).

All code runs on one JavaScript event loop. A step of a model is therefore the
code between two `await`s of one handler, a timer callback, or an event handler;
concurrency is the interleaving of those blocks, and an unhandled hazard is
almost always state read before an `await` and used after it.

## 1. Inventory

| Component | State it keeps | Operations | Talks to |
|---|---|---|---|
| Engine server, `server/investigate_server.ts`, `cli/serve.ts` | accepting flag, permit pool, per request: cancelled flag, timer, abort listener, stream | `POST /investigate`, timeout, abort, stream cancel, `stop()` | starts an investigation, gives it `should_cancel` and an event sink |
| Fingerprint endpoint, same file | its own permit pool, per batch: output, chunk, deadline | `POST /fingerprint`, per-item probes | the probe; shares accepting flag and socket |
| Investigation pipeline, `agents/orchestrator.ts` | phase, context, results, the same-person call | preflight, plan, workers, score, adjudicate, report | everything below |
| Worker pool, same file | semaphore, waiters, results by id | acquire, release, run bucket, time out, collect | heuristic agents |
| Planning, same file, with `heuristics/packet_gates.ts` and `agents/catalog.ts` | candidates, skips, plan, buckets | gate, master plan, fallback, suppress, bucket | the master model |
| Heuristic agent, `agents/subagents.ts` | turn, pending packets, results, failure counters | model turn, tool call, submission, fill | the model, the data client |
| Query cache, `agents/query_cache.ts` | results, in-flight promises | `get_or_execute` | shared by all workers of an investigation |
| Data client, `agents/data_client.ts` | calls, logs, refusal logs | budgeted operations, `run_sql`, `schema` | the data service over HTTP |
| Same person, `agents/pair_verdicts.ts`, `agents/same_person.ts` | pairs, verdicts, groups, people list | offer pairs, read verdicts, group, validate, merge | one model call beside the workers |
| Rule engine, `heuristics/atomic*.ts`, `engine.ts` | none: a report is a function of the rows of an index | build evidence, gate, evaluate paths, synthesise | called by planning, tools and the command line |
| Packets, `heuristics/packets.ts`, `packet_gates.ts`, `synthesis.ts`, `policy.ts` | none | field gates, source weights, band and archetype | over the atomic evaluation; the gates are asked by planning |
| Scoring, corroboration | none (pure) | scores, band, conflicts | called by the pipeline |
| Recorder, `observability/*` | events, sequence number, span context | span, record | sink of the response stream |
| Fingerprint content, `fingerprint/*` | the reads of one probe | probe, canonical form, source hash | the data client, through `retrieval.ts` |
| Toolsets, typed tools, retrieval | budgets of a worker | tool call to data call | the data client |
| Prompts, redaction, wire schemas, model factory, CLI | none | text and parsing | - |

What is hard here: permits that must come back whichever of four events ends a
request; a cancellation flag that is only read between phases; a drain that races
requests still reading their bodies; a cache whose owner, joiners and newcomers
interleave around a settling promise; budgets spent before an `await`; a worker
that times out and goes on; one call that must never hold up or fail the report;
a conversation in which every packet of a group must be answered exactly once
whatever the model does; merges of people that follow links transitively; some
forty reasoning paths behind gates that look at other things than the paths do;
a cache key that must be the same for the same data and for nothing else.
`PROJECT.json` lists these hazards line by line with the properties that cover
them, and the ones no property covers yet.

## 2. Modules

```
                                                          proved in
EngineServer <─ FingerprintEndpoint <─ EngineProcess      EngineProcessProofs
FingerprintProbe                                          FingerprintProofs
Investigation ──INSTANCE──> WorkerPool                    InvestigationProofs
DataAccess    ──EXTENDS───> QueryCache                    DataAccessProofs
              QueryCache ──INSTANCE WITH──> ReadThroughMemo
Planning                                                  PlanningProofs
HeuristicAgent, SamePerson                                ModelAnswerProofs
AtomicCatalog <─ AddressEvidence <─ AtomicRules <─ AtomicEvaluation
              <─ PacketRules <─ RuleEngine                RuleEngineProofs
(lemmas the proofs share)                                 SequenceLemmas
```

(`<─`: the module on the right EXTENDS the one on the left.)

`MC<module>` gives the constants of a module their values for TLC;
`<run>.cfg` is the configuration of one run.

* **EngineServer** - `phase[r]` is the place of a handler between awaits
  (`unsent`, `reading` its body, the three phases the cancellation checks of
  `_investigate` separate, `settled`, `refused`, `cut`). `Arrive` is the block up
  to `await req.json()`, `BodyRead` the block after it including the permit, the
  listener, the timer and the stream, `Settle` the terminal frame with the
  `finally` block, which is one turn of the loop. `Timeout`, `Disconnect` and
  `StreamCancel` flip the flag; `Stop`, `DrainExpires`, `DrainEnds` are `stop()`,
  whose loop condition is read at once and then every 50 ms. Two stoppers stand
  for SIGTERM and SIGINT.
* **FingerprintEndpoint** - a batch has a `chunk` of slots that settle in any
  order to the hash of their item or to null, an output list, and a deadline that
  may pass at any time and is read between chunks.
* **EngineProcess** - both routes over one accepting flag and one socket;
  closing the socket cuts the requests of both. Its run checks what EngineServer
  and FingerprintEndpoint say of their routes, with the other route beside;
  EngineServer has a specification of its own, FingerprintEndpoint only steps. `Traffic` bounds which requests a behaviour may send.
* **QueryCache** - one action per await boundary of `get_or_execute`: `Ask` is a
  hit, a join or an own execution; `Settle` the promise; `OwnerReturns`,
  `OwnerThrows`, `JoinerResumes` the continuations. **ReadThroughMemo** is the
  abstract promise: one computation of a key at a time, its answer kept for good
  and given to every asker who is not thrown an error.
* **DataAccess** - the counting clients of several workers around one shared
  cache: budget check, increment and cache access are one block (`Spend`), the log
  entry is the continuation of `_budgeted` (`Log`), and a refusal is logged by the
  caller of that, an await later (`LogRefusal`).
* **WorkerPool** - `run_bucket` per bucket: the FIFO semaphore with its direct
  hand-off, the flag read after `acquire`, the race with the timer, the subagent
  that goes on after losing it, and the collection by heuristic id. The report is
  in the order of the plan (`Heuristics`), which is not that of the buckets where a
  group's members are not adjacent in it. A result carries the id the model wrote (`id`) beside the packet it is of (`of`).
* **Investigation** - the pipeline with both `_ensure_not_cancelled`, the
  preflight's budget of two calls, adjudication retries, and the same-person call
  started before planning and raced against the grace timer after adjudication.
  The workers' phase is the instance of WorkerPool with the same flag.
* **Planning** - `Gate`, `PlanByMaster` or `PlanByFallback` (each with
  `_suppress_absence_workers`), `Select` with `_bucket_by_group`. The code's
  filters are `OnlyIn`: the elements of a list that are in a set, in order and as
  often as they occur. Evidence is a free choice of populated packets and counted
  sources.
* **HeuristicAgent** - a conversation: model turns with zero or more tool calls,
  handled in order; submissions valid, uncited (demotable) or malformed; fetches
  that answer or throw; the error fill of a group, the exception of a solo run.
* **SamePerson** - blocks by last name within the pair limit, verdicts (a pair
  may be answered twice or not at all), joint-row links, components,
  contradiction, completeness, validation and merge.

* **AtomicCatalog** - the heuristics of `atomic.ts` with the roles of their
  paths, and the sources their gates require.
* **AddressEvidence** - `build_evidence`: rows by source, fetched by address and,
  for five sources, by the owners' ids; owner names, counts and hints. A row is a
  record of the fields the rules look at; the subject has two spellings that
  normalise to one line. `Listed` is the order rows come in: source by source, by
  address before by id, and by their place in the index.
* **AtomicRules** - one operator per executor, gathered in `PATH_EXECUTORS`. An
  executor answers with what it found, how strongly, and the rows it cites: the
  first five of a source (`_refs`), the first eight of several (`_refs_multi`).
* **AtomicEvaluation** - the gates of the heuristics, the status of every path
  (which depends on the role of the path), the synthesis of the case.
* **PacketRules** - packets, their field gates with and without rows, source
  weights (scores in hundredths), weighted archetype, band and caps.
* **RuleEngine** - a machine whose index gains a row at a time and is evaluated
  again after each, so that properties can compare a report with the next.
* **FingerprintProbe** - the typed probe: `resolve`, the rows of the address, the
  people, the rows of the first of them by id, each a paid call that may fail or
  answer in any order; the data may change between and under the reads. Records
  and people are sorted by rank: an element comes after those that precede it. A
  probe remembers the one before, as a cache does.

The line-by-line correspondence is the `map` of `PROJECT.json`. Operators named
after a bug (`CanAcquireOffByOne`, `OwnAlways`, ...) stand before the definition
they would replace: each shows that the property it is listed with notices that
bug. They are not part of any specification.

## 3. Runs, bounds, and what they show

| Run | Bounds | Shows |
|---|---|---|
| EngineProcess | 2 investigations on 1 permit, or 2 batches of 3 items in chunks of 2 on 1 permit, or one of each; 2 stops; at most 2 progress frames per investigation, before its terminal frame and after (160,869 states) | permits match flights on both routes; framing; a cancelled investigation never reports; permits return; `stop()` ends; one entry per item in order; every batch answered |
| DataAccess | 2 workers, 3 + 1 calls, 2 keys, budget 2 | budget, logs and refusal logs balance, a call at a time; single flight; failures not replayed; the cache refines the memo; every call answered |
| HeuristicAgent | 1 or 2 packets, up to 2 tool calls a turn, 1 data call, 1 retry | every packet answered; accepted answers stay; the conversation ends if the model's calls settle, and waits for nothing else |
| Investigation | a plan of 4 entries (a group with a solo packet between its members, the solo packet listed twice), so 3 buckets; 2 permits, small retry budget | failures only for cause, and a cancellation stops adjudication; the pair call is settled or aborted; permits conserved; every launch reported in the plan's order; the investigation ends if the master's calls settle, and waits for nothing else |
| Planning | 4 packets, 2 requests, all evidence, plans of at most 3 entries in both lists together | the gate's skips stand; nothing planned is lost, and absence runs only the synthesis; the fallback covers the request; buckets partition |
| SamePerson | 7 people, 4 distributions of last names, 3 sets of joint rows, limit 10 | nobody lost; only judged pairs merge; a joint row linked twice is listed alone or with another joint row; whole blocks, whose agreed lines merge |
| RuleEngine | every subset of 13 rows, and of 11 others with 10 of one stranger; 2 queries (20,472 states) | see below |
| FingerprintProbe | 2 rows, 3 people with 1 row each, 2 probed, 1 change (371,976 states) | a key is missing only for cause; two full probes agree exactly if the covered data do |

What the run of the rule engine shows, of every subset of the rows and of every
next row: no record of another address is cited for a non-owner at the subject;
the gates hide no risk an executor would find; the packet gates asked with counts
only skip nothing the rows would run; a house of one tax row whose records are
all the owner's scores nothing; an absentee owner with an unrelated renter is
reviewed, as a clear absentee rental or, where the weighted synthesis finds a
relative, a family's; a further record about a person takes no triggered risk
back.

One more record about a person can lower a path's weighted score, and through it the band. A path
is weighed by the best source among the rows it cites, and those are the first
eight in the order of the sources. With seven base rows and one utility
row of a stranger a path cites its ranked source; an eighth base row, which has
no weight, pushes the utility row off the list. `OnlyFullListsLoseWeight` says that this
is the only way: the path cites eight rows before the step. `OutsidersLowerBandOnlyBy`
says the same of the band, for a record of somebody outside the owner's family, with
the one other way down below. The second set of rows, `MCCrowd`, fills a list, and
scores and bands do fall in it.

Three more exceptions are written into the properties because the code has them: the
portfolio gate does not open for the comparison of a single parcel's owner
addresses; the portfolio packet needs a tax row; and where a relative is on record
an outsider's loan or licence can turn a clear absentee rental into a family's,
which is only for review.

Why these bounds: two requests on one permit give every race of admission,
refusal, settling and cancellation between two handlers; other pool sizes differ
by a counter, and the proofs hold for all of them. Three items in chunks of two
leave a last chunk that is not full. Three calls of one worker on a budget of two
exceed it, a fourth call of another worker meets them in the cache, and two keys
tell joining from chance. Two permits for three buckets make one worker wait, and
the plan's order is not that of the buckets. Two progress frames leave one to come
after the terminal one.
Two packets are enough for one packet's failures to reach another. The thirteen rows
hold, for each source, a record of the owner and one of a relative or a stranger
where the rules tell them apart, two parcels, a misspelt owner and a row without
a name; eight rows of the source listed first and two behind them fill a list of
citations and push every other source off it; `RuleEngineProofs` lifts all of these properties to any rows. Three people
with two probed leave one outside the window, and one change may move it. Seven
people make a block of five beside one of two, where the limit of ten pairs admits
the first or the second only, two blocks of three that both fit, a triangle with
one missing verdict, a couple behind a joint row, and two joint rows that link two
couples.

Four runs show a disagreement between the code and what the repository says of
it (each is a finding of `PROJECT.json`, with its quote): the drain does not wait
for fingerprint batches (**EngineProcessDrain**); a solo worker's result is filed
under the id its model wrote, so that "hid is always present" fails
(**WorkerPoolForeignId**); a
call that joins another's execution, or is answered from the cache, costs a worker a
call of its budget, though a test is titled "spends budget only once per execution"
(**DataAccessBudget**; `LedgerBalances` states the payment per call); "a row linked
twice merges nobody" fails beside a second joint row (**SamePersonJointRow**).

The last one in full. `pair_verdicts.ts:203` drops a joint row's joint
edges once there are two, but an edge between two joint rows answered "same" is
no joint edge of either and stays. With joint rows 1 and 3, row 1 linked to lines
2 and 4, "same" as row 3, row 3 linked to line 5, and 2, 4 and 5 called the same
of one another, all five merge: row 1 ends up with both its lines. What the code does
keep is `OneLinkPerJointRow`: a row linked to two separate lines is listed alone
or with another joint row that it was called the same as.

Further observations made while modelling, not runs of their own:

* A request whose body arrives after `stop()` is admitted while the server drains
  (`investigate_server.ts:250`; the comment at `:237` reads "refuse new
  investigations while draining"). `BodyRead` has no test of the flag.
* The correction budget of a group is shared (`subagents.ts:639`): a packet can be
  demoted at its first invalid submission because of another's.
* The path "Tax mailing matches subject, but owner legal records point elsewhere"
  (`atomic.ts:722`) never triggers: its executor asks whether another executor's status
  is "context" (`atomic_eval.ts:1505`), which that one's role, risk, excludes. This is proved,
  as `LegalElsewhereNeverTriggers`. `auto_only_owner_elsewhere_discount` is dead the
  same way: "triggered" is not a status of its role, mitigation (`atomic_eval.ts:1764`).
* Without tax rows most executors answer inconclusive, but
  `nonowner_utility_at_subject` and `loan_owner_claim_not_supported_by_tax` count
  everybody as a non-owner; a row without a name counts as a non-owner's. The
  same loan rows score twice, under two paths.
* The atomic synthesis calls a case a clear absentee rental if the owner has a
  licence elsewhere *or* a non-owner has one at the subject
  (`atomic_eval.ts:2342`, `_intersects`), so its later family branch can never be
  reached through such a licence; `_subset`, which would ask for both, is unused.
* The probe hashes an answer marked `records_timed_out` (`typed_probe.ts:104-115`)
  although an error answer is refused (`:69-75`) and `retrieval.ts:243-250` insists that
  such a gap is absence of knowledge. `trouble = "timed_out"` is that case: it has
  a key, which `NullOnlyForCause` says and `KeysTellDataApart` excludes.

Deadlock checking is off where the system really comes to rest: requests are
finite, an investigation ends, and the process may stay idle.

### Fairness

The request's `timeout_seconds` reaches the HTTP client and the models of some
providers; Gemini's takes none (`llm.ts:96`), so a call of it may never settle.
No specification assumes that model calls do. Where it matters it is a premise
inside the property, next to a part that holds without it.

* EngineServer (assumed by EngineProcess): the two steps of `stop()` that are timers. Nothing is assumed of
  clients, signals or investigations; `PermitReturned` has the premise
  `RunnersAreFair`, that the awaits of a runner end and its timer fires. Under
  Gemini the premise may fail, and the permit is then out for good.
* FingerprintEndpoint (assumed by EngineProcess): probes end (their data calls time out) and a chunk whose
  probes ended continues. No model is called here.
* DataAccess: the HTTP client times out, so a promise settles, and a settled
  promise resumes whoever awaits it.
* HeuristicAgent: the tool calls of a response are handled, since the data calls
  behind them time out. `ConversationEnds` says that a conversation never stays in
  one response, and, under the premise `ModelAnswers`, that it ends.
* RuleEngine and FingerprintProbe have safety properties only.
* Investigation: the pipeline's awaits return, those of the master model excepted
  (`AwaitingMaster`); a granted worker goes on, a bucket's timer and the grace
  timer fire. Nothing is assumed of the same-person call nor of a subagent: both may
  hang. `InvestigationEnds` says that an investigation which does not end waits for
  the master, and, under the premise `MasterAnswers`, that it ends.

## 4. Proofs

Every invariant and every action property of a passing run is a theorem of the
specification, for all values of the constants that satisfy the named assumptions
of the modules. The assumptions are finiteness, types and disjointness of the sets a
model is given, and:

* `InvestigationConstants` asks for a preflight budget of two calls, the number
  `_preflight_context` makes; with one, `FailsOnlyForCause` is false.
* `ProbeConstants` asks that no row has the number that marks a person node; the
  code marks it by a source of its own.
* `PlanningConstants` asks that the catalogue lists no packet twice.
* `PoolConstants` asks that the buckets hold the packets of the plan, which
  `BucketsPartition` says of the buckets Planning makes.
* RuleEngine's `EngineConstants` asks that rows of a source differ in their place
  and that a source has at most `limit_per_source` rows, the 100 one fetch returns.

A theorem of an invariant has an inductive invariant behind it, named below. Each
was checked by TLC on the bounds of its component's run before it was proved
(the probe's with one row of the address and its quantifiers over lists bounded).

**EngineProcessProofs**, from `EngineConstants` and `FingerprintConstants`:

* `EngineTypeCorrect`: `TypeOK` is inductive by itself; the interesting conjunct
  is `available \in 0 .. PoolSize`.
* `EnginePermits`: `available + |InFlight| = PoolSize` while the server is up.
  Inductive with `TypeOK`; the cardinality of `InFlight` changes by one exactly
  in `Admit` and `Settle`. The clamp in `release()` never bites, which is why it
  cannot hide a double release.
* `EngineRefusals` and `EngineCuts` (a request is refused only by a full pool, an
  investigation is cut only after a deadline) follow from these two invariants.
* `EngineStreams`: `StreamFraming` needs the stronger `StreamInv`: there are
  frames only on a stream, and an open stream carries no terminal frame yet.
* `EngineCancellations`: `CancelledNeverReports` says "always, if cancelled here,
  then never a report", a property inside another. Two facts carry it:
  no report is on a stream while its investigation is unsettled
  (`SilentSoFar`), and once the flag is up before the last check the request stays
  `Doomed`: it has sent no report and throws at the check, or is cut.
* `ProcessRunsServer`: a step of the process is a step of EngineServer or leaves its
  state alone, so that the theorems about EngineServer hold in it.
* `FingerprintBatches`: `BatchShape`, inductive with the type. An output holds at each
  place the hash of that item or null (`InOrder`), and a chunk lies in its place
  behind the output (`ChunkInPlace`).
* `FingerprintEntries`, `FingerprintPermits`: one entry per item in order; permits
  out are the batches being probed, by the count of them as above.

**FingerprintProofs**, from `ProbeConstants`:

* `ProbeNeverOverBudget`: `NullOnlyForCause` is not inductive: `Paid` adds that a
  person still to be read has a call left, which rests on the window never being
  longer than `MaxProbed` (`WindowBounds`).
* `KeysFollowData`: `KeysTellDataApart` needs `KeyInv`: while the service answers
  in full and the data stands still, the records read are those of the reads that
  are done, each once, and the people left are the rest of the window. Answers
  come in any order; a list sorted by rank in a total order depends on the set of
  its elements only (`RecordsSorted`, `OneKeyPerSet`), and the set of the records of a
  probe determines what it covers (`RecordsAreCovered`): the address's rows, the people,
  and the rows of the people in the window.

**DataAccessProofs**, from `CacheConstants` and `LaneConstants`:

* `CacheInvariant`: `CacheInv`, six named parts that tie the two maps, the
  promises and the calls together. `SingleFlight` alone is not inductive: it
  needs to know that a pending execution is the one in the in-flight map
  (`OwnerIsInflight`), that an in-flight entry is owned (`InflightIsOwned`), and
  that a kept result was returned by its owner (`KeptWasReturned`).
* `CacheSingleFlight`, `CacheAnswersAgree`, `CacheNoFailureReplayed` follow.
* `CacheImplementsMemo`: initial states map to initial states, and under the
  invariant each step is a step of ReadThroughMemo or leaves its variables alone
  (the settling of a promise and the start of a join are invisible to it).
* `DataRunsCache`: every step of the workers is a step of `CacheNext` or leaves
  the cache alone, so the theorems above hold of the cache as the workers use it.
* `DataLedger`: `LedgerInv` adds to `CacheInv` that an answered call was answered
  by an execution that ended (`AnswersHaveKinds`: without it an answer could
  change the kind of a call already accounted for), that `calls` counts the calls
  made (`CallsCounted`), the balance itself and the refusal logs. A call leaves the
  outstanding ones when it is logged and joins the refusals a step later.

**InvestigationProofs**, from `InvestigationConstants`: `IInv` is the type, `PoolInv`
and `PipelineInv`.

* `InvestigationPermits`: permits free, held and handed over add up. The waiters
  must be the queued workers, each once, and none waits beside a free permit:
  otherwise a hand-off could wake a worker that holds a permit already.
* `InvestigationReportsAll`: the report is one entry for every place of the plan, in
  its order. A worker that is done has answered for its own bucket, every packet
  of the plan is in one (`PlanInBuckets`); the collection by id is the flattening of one-element lists, which `SequenceLemmas` evaluates.
* `InvestigationFailures`, `InvestigationPairCall`: these rest on which phases can follow
  which: the preflight counts its calls, an adjudication call lies behind the
  second check of the flag, the same-person call starts after the preflight and
  settles before its groups are used.
* `InvestigationRunsPool`: every step is a step of WorkerPool or leaves its
  variables alone, and `Spec => Pool!Spec`.

**PlanningProofs**, from `PlanningConstants`: `PlanInv` says what has become of every
packet in each phase (`GateInv`, `DraftInv`, `LaunchInv`). The recurring lemma is
what a filter takes from a list: `TakenFrom` maps the places of the result into those of
the list, in order. `PlanningGate`, `PlanningAccounts` and `PlanningFallback` then
compare ranges; `PlanningBuckets` counts: the flattened buckets hold a packet as
often as the launch list does, because `Members` and `Sources` are a bijection between their
places. No bound on the plan is used but that it is finite.

**ModelAnswerProofs**, from `AgentConstants` and `PeopleConstants`:

* `AgentConversation`: `Conversation` is inductive with the type. Beside the
  partition of the bucket into pending and answered packets it needs that the
  reminders are not spent while the loop runs, that a response being handled has
  calls left, and that a solo run which goes on has accepted nothing: a solo run takes a
  submission whatever its id, so only leaving at the first keeps a second from
  replacing it. `AgentAnswersAll` and `AgentKeepsAccepted` follow.
* `PeopleListed`: the pairs offered are whole groups within the limit, and the
  merged list is that of the validated groups of the verdicts. From it
  `EveryoneListedOnce` (flattening the entries of each person), `MergesJudgedOnly`
  (a validated group has no pair without a verdict), `JointRowsOneLink` (a row linked
  twice keeps plain edges only, which lead to joint rows: `TwiceLinkedGroup`) and
  `AgreedMergeComplete` (groups are closed under agreed edges, so a set that is
  complete and uncontradicted is kept whole).

**RuleEngineProofs**, from `EvidenceConstants` and `EngineConstants`, for any finite
set of rows:

* `EvaluationIsFresh`: a report is the evaluation of the rows the index holds; the
  inductive invariant of all that follows. `ReportsWellFormed`: its type.
* `NonownersNeverBorrowed`: rows enter an evidence by address or by an owner's id
  (`EvidenceRows`), so a row that is not an owner's is at the subject. One case per
  path that names non-owners.
* `RisksOnlyAccumulate`: a row that is not a tax row leaves the owners alone and
  extends the evidence (`IngestExtends`); a gate that was open stays open except
  the three discounts' (`GateStaysOpen`), none of which has a risk path
  (`CatalogueRisks`); a risk path looks for rows and never for their absence
  (`FindStays`).
* `NoRiskHidden`, `CountsNeverSkip`: executor by executor, what it finds is
  counted by the sources its gate requires; gate by gate, the counts decide no
  less than the rows.
* `OwnHouseScoresNothing`, `AbsenteesAreReviewed`: no risk path finds anything
  in such a house; in such a case two risks trigger, and their scores alone reach
  the threshold of a review in both syntheses.
* `OnlyFullListsLose`: a score is a path's weight times the reliability of the
  best-ranked source it cites. While a list is shorter than eight every row found is
  cited, and one more row can only bring a better source; a list of one source keeps
  its source whatever is cut.
* `LegalElsewhereNeverTriggers`: whatever rows the other executor finds, its role
  turns them into "triggered", never into the "context" this path waits for.
* `OutsidersKeepBand`: the score of the case is a
  fold over its risks, monotone in them; the archetype is a chain of conditions in
  the order of the code's returns, and the only step down it on such a row is the
  exception in the property.

**SequenceLemmas** holds what these rest on. Induction over data is done on sets
instead of predicates: a set of numbers that holds 0 and with n also n + 1 is all
of Nat (`SetInduction`, from the least element of what is missing), and likewise
for the subsets of a finite set (`SubsetInduction`). From them: functions defined
step by step exist (`RecursionExists`, `FoldsExist`), which gives the value of the
community modules' `FlattenSeq` and of their folds over sets; ranks in a strict
order number a finite set, so that sorting is unique (`RanksOrder`, `SortByRank`,
`SortedOnce`); lists that enumerate a set, and their concatenations (`Enumerates...`).

### What the proofs changed in the models

* Planning: `BucketsPartition` said that each launched packet is in one bucket. A
  master plan may list a packet twice, and its group then holds it twice; the
  property now counts occurrences, and the run admits such plans.
* SamePerson: that a joint row never ends up with two of its lines could not be
  proved of the components; the run grew to seven people, showed why, and the
  claim became the violation of SamePersonJointRow (section 3).
* RuleEngine: `OutsidersLowerBandOnlyBy` has the exception of a relative on
  record, and `OwnerOccupied` means one tax row.
* FingerprintProbe sorts by rank, as a stable sort by a total order does, where it
  chose among all permutations; WorkerPool's collection by id is a filter of the
  results. Neither changes a state of the runs.

### Only model-checked

Liveness, in which the prover has no rules for fairness and ENABLED:
`PermitReturned`, `StopCompletes`, `AdmittedBatchAnswered`, `EveryCallAnswered`,
`ConversationEnds`, `InvestigationEnds`, and with them the fairness arguments of
section 3. The four violation runs are counterexamples and need no proof.
AtomicCatalog is data and has no theorem of its own.

## 5. Not modelled, and why

Scoring of worker results and corroboration are sums and thresholds without
state. The recorder is telemetry: its spans nest by the runtime's asynchronous
context, and no decision reads what was recorded. Of the toolsets, the text a
tool call is answered with; a call is answered or throws. `source_hash.ts` hashes
the repository's own files. Prompts, redaction, wire schemas, the model factory,
pricing, writers and the command line are text and I/O without a protocol. The
HTTP client appears as the four outcomes its caller can tell apart. Of the rule
engine: reasons, summaries, the comparison with an agent's report, fetches that reach their
limit of 100 rows (`EngineConstants` excludes them), property types other than condo, and the explanations of
the weighted synthesis. Of the probe: the page limits of its reads (25, 25 and 20,
taken by the service before the people are sorted) and the cut of long values;
two reads of one probe that see different data are excluded from
`KeysTellDataApart`, since nothing in the code could tell.
Within the modelled parts, names, prompts, scores and payloads are abstracted to
what the properties distinguish; the module comments say where.

## 6. Plan

Order: what serves every request first (done), then what shapes a report.

1. Done: EngineServer, FingerprintEndpoint, EngineProcess, QueryCache with its
   abstraction, DataAccess, WorkerPool, Investigation, Planning, HeuristicAgent,
   SamePerson; the rule engine with its packet layer; the probe.
2. Done: proofs of every invariant and action property of the passing runs.
3. Toolsets: the repair and schema budgets that tool calls of a turn share;
   composed with DataAccess and HeuristicAgent.
4. Planning's free choice of gate answers replaced by PacketRules over evidence,
   with the theorems of both composed: a packet is skipped only if its rows would
   run nothing.
5. Scoring and corroboration, as a pure module over the results of WorkerPool.
