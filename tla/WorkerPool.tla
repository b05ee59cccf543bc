----------------------------- MODULE WorkerPool -----------------------------
(***************************************************************************)
(* The heuristic workers of one investigation: _run_subagents, Semaphore   *)
(* and withTimeout of src/agents/orchestrator.ts.  One worker per bucket   *)
(* of packets; a FIFO semaphore limits how many run; a worker that times   *)
(* out gives its permit back while its subagent goes on; every failure     *)
(* becomes error results; the results are collected by heuristic id, in    *)
(* the order of the plan.                                                  *)
(***************************************************************************)
EXTENDS Integers, Sequences, FiniteSets, SequencesExt

CONSTANTS
  Packet,         \* heuristic ids
  Heuristics,     \* the packets launched, in the order of the plan
  Bucket,         \* the same, put into buckets: a sequence of sequences of packets
  MaxConcurrency, \* max_concurrency of the request, at least 1 by its schema
  Label(_)        \* ids a worker's result for a packet may carry

\* Assumed by the modules that run workers; that the buckets hold what is
\* launched is BucketsPartition of module Planning.
PoolConstants ==
  /\ Heuristics \in Seq(Packet)
  /\ Bucket \in Seq(Seq(Packet) \ {<<>>})
  /\ ToSet(Heuristics) = ToSet(FlattenSeq(Bucket))
  /\ MaxConcurrency \in Nat \ {0}
  /\ \A p \in Packet : Label(p) \subseteq Packet

VARIABLES
  cancelled,  \* what should_cancel() answers
  permits,    \* free permits of the semaphore
  waiters,    \* buckets queued in acquire()
  worker,     \* where the worker of a bucket is
  active,     \* buckets whose subagent has not settled, abandoned ones included
  launched,   \* order in which subagents were invoked
  results,    \* results of a bucket, once its worker returned
  collected,  \* _run_subagents has returned
  report      \* the ordered results it returned

outcome == <<collected, report>>
vars == <<cancelled, permits, waiters, worker, active, launched, results, outcome>>

W == DOMAIN Bucket
Result == [id : Packet, of : Packet, status : {"finding", "error"}]
Holding == {b \in W : worker[b] \in {"granted", "running"}}

PoolTypeOK ==
  /\ cancelled \in BOOLEAN
  /\ permits \in 0 .. MaxConcurrency
  /\ waiters \in Seq(W)
  /\ worker \in [W -> {"queued", "granted", "running", "done"}]
  /\ active \in SUBSET W
  /\ launched \in Seq(W)
  /\ results \in [W -> Seq(Result)]
  /\ collected \in BOOLEAN
  /\ report \in Seq(Result)

\* Every run_bucket runs up to acquire() before any of them awaits: the first
\* workers take the permits, the others queue in launch order.
Init ==
  /\ cancelled = FALSE
  /\ permits = IF Len(Bucket) < MaxConcurrency THEN MaxConcurrency - Len(Bucket) ELSE 0
  /\ waiters = SubSeq([b \in W |-> b], MaxConcurrency + 1, Len(Bucket))
  /\ worker = [b \in W |-> IF b <= MaxConcurrency THEN "granted" ELSE "queued"]
  /\ active = {}
  /\ launched = <<>>
  /\ results = [b \in W |-> <<>>]
  /\ collected = FALSE
  /\ report = <<>>

-----------------------------------------------------------------------------
\* The permit both handed over and returned.
ReleaseTwice(to) ==
  /\ worker' = IF waiters = <<>> THEN to ELSE [to EXCEPT ![Head(waiters)] = "granted"]
  /\ waiters' = IF waiters = <<>> THEN <<>> ELSE Tail(waiters)
  /\ permits' = permits + 1

\* release(): the permit is handed to the next waiter, or returned.
Release(to) ==
  IF waiters = <<>>
    THEN worker' = to /\ permits' = permits + 1 /\ UNCHANGED waiters
    ELSE /\ worker' = [to EXCEPT ![Head(waiters)] = "granted"]
         /\ waiters' = Tail(waiters)
         /\ UNCHANGED permits

\* A catch block that answers for the first packet of the bucket only.
ErrorResultOfFirst(b) == <<[id |-> Bucket[b][1], of |-> Bucket[b][1], status |-> "error"]>>
ErrorResults(b) ==
  [i \in DOMAIN Bucket[b] |-> [id |-> Bucket[b][i], of |-> Bucket[b][i], status |-> "error"]]

\* run_group answers every packet of its bucket, in order, with a finding or
\* an error result.  A finding carries the id the model wrote.
AgentResults(b) ==
  {rs \in [DOMAIN Bucket[b] -> Result] :
     \A i \in DOMAIN Bucket[b] :
       /\ rs[i].of = Bucket[b][i]
       /\ rs[i].id \in IF rs[i].status = "error" THEN {rs[i].of} ELSE Label(rs[i].of)}

Return(b, rs) ==
  /\ Release([worker EXCEPT ![b] = "done"])
  /\ results' = [results EXCEPT ![b] = rs]

\* acquire() resolved and the flag is clear: the subagent is invoked and the
\* bucket's timer starts.
Launch(b) ==
  /\ worker[b] = "granted"
  /\ ~cancelled
  /\ worker' = [worker EXCEPT ![b] = "running"]
  /\ active' = active \cup {b}
  /\ launched' = Append(launched, b)
  /\ UNCHANGED <<cancelled, permits, waiters, results, outcome>>

\* Cancelled before launch: error results, the subagent is never invoked.
Skip(b) ==
  /\ worker[b] = "granted"
  /\ cancelled
  /\ Return(b, ErrorResults(b))
  /\ UNCHANGED <<cancelled, active, launched, outcome>>

\* The subagent settles first; a rejection becomes error results.
Finish(b) ==
  /\ worker[b] = "running"
  /\ active' = active \ {b}
  /\ \E rs \in AgentResults(b) \cup {ErrorResults(b)} : Return(b, rs)
  /\ UNCHANGED <<cancelled, launched, outcome>>

\* The timer wins the race: error results and the permit back, while the
\* subagent runs on and nobody waits for it.
Timeout(b) ==
  /\ worker[b] = "running"
  /\ Return(b, ErrorResults(b))
  /\ UNCHANGED <<cancelled, active, launched, outcome>>

\* A subagent nobody waits for any more settles.
Abandoned(b) ==
  /\ worker[b] = "done"
  /\ b \in active
  /\ active' = active \ {b}
  /\ UNCHANGED <<cancelled, permits, waiters, worker, launched, results, outcome>>

Cancel ==
  /\ ~cancelled
  /\ cancelled' = TRUE
  /\ UNCHANGED <<permits, waiters, worker, active, launched, results, outcome>>

-----------------------------------------------------------------------------
Everything == FlattenSeq([b \in W |-> results[b]])

\* by_id: the last result of an id wins.
ById(p) ==
  LET mine == {i \in DOMAIN Everything : Everything[i].id = p}
  IN  IF mine = {} THEN <<>> ELSE <<Everything[Max(mine)]>>

\* The results of the buckets one after another, a packet's own place in the
\* plan forgotten.
CollectedByBucket ==
  LET opened == FlattenSeq(Bucket)
  IN  FlattenSeq([i \in DOMAIN opened |-> ById(opened[i])])

\* One result for every place a packet has in the plan, in the plan's order.
Collected == FlattenSeq([i \in DOMAIN Heuristics |-> ById(Heuristics[i])])

Collect ==
  /\ ~collected
  /\ \A b \in W : worker[b] = "done"
  /\ collected' = TRUE
  /\ report' = Collected
  /\ UNCHANGED <<cancelled, permits, waiters, worker, active, launched, results>>

Worker(b) == Launch(b) \/ Skip(b) \/ Finish(b) \/ Timeout(b)

Work == \E b \in W : Worker(b)

Next ==
  \/ Work
  \/ \E b \in W : Abandoned(b)
  \/ Cancel
  \/ Collect

Spec == Init /\ [][Next]_vars

-----------------------------------------------------------------------------
\* The limiter neither leaks nor invents permits, whichever way workers end, and
\* never leaves one idle while a worker waits.
PermitsConserved ==
  /\ permits + Cardinality(Holding) = MaxConcurrency
  /\ waiters # <<>> => permits = 0

\* The report speaks of launched packets only, each at most as often as the plan
\* lists it and in the plan's order, whatever ids the workers' results carry.
ReportInPlanOrder ==
  \A i, j \in DOMAIN report :
    /\ report[i].id \in ToSet(Heuristics)
    /\ i < j => \E m, n \in DOMAIN Heuristics :
                  m < n /\ Heuristics[m] = report[i].id /\ Heuristics[n] = report[j].id

\* Every launched packet is reported by its own worker and in its own place of
\* the plan, also when the members of its group are not next to each other there:
\* timed out, cancelled or failed ones as errors, and none standing in for
\* another's.  A packet that a plan lists twice is reported twice, once for each
\* launch, with one and the same result.  Only a result filed under a foreign id
\* can cost a packet its own.
EveryPacketReported ==
  /\ ReportInPlanOrder
  /\ collected /\ (\A i \in DOMAIN Everything : Everything[i].id = Everything[i].of) =>
       /\ Len(report) = Len(Heuristics)
       /\ \A i \in DOMAIN report : report[i].id = Heuristics[i] /\ report[i].of = Heuristics[i]
       /\ \A i, j \in DOMAIN report : report[i].id = report[j].id => report[i] = report[j]

\* "hid is always present": every launched packet has a result under its id.
HidAlwaysPresent ==
  collected => \A p \in ToSet(Heuristics) : \E i \in DOMAIN report : report[i].id = p

=============================================================================
