---------------------------- MODULE EngineServer ----------------------------
(***************************************************************************)
(* The POST /investigate route of the engine server and its graceful stop, *)
(* src/server/investigate_server.ts with the signal handlers of            *)
(* cli/serve.ts.  One process, one JavaScript event loop: an action is the *)
(* code that runs between two awaits of a handler, a timer callback, an    *)
(* abort event, or one turn of the drain loop.                             *)
(*                                                                         *)
(* The investigation itself (orchestrator.ts) appears as the phases that   *)
(* the two cancellation checks of _investigate separate.                   *)
(***************************************************************************)
EXTENDS Integers, FiniteSets, Sequences, SequencesExt

CONSTANTS
  Investigation,   \* the POST /investigate requests of a behaviour
  Stopper,         \* the calls of stop(): one per SIGTERM or SIGINT handler
  MaxConcurrency,  \* opts.max_concurrency, any integer the environment holds
  MaxProgress      \* bound: progress frames an investigation may emit

ASSUME EngineConstants ==
  /\ IsFiniteSet(Investigation)
  /\ MaxConcurrency \in Int
  /\ MaxProgress \in Nat

VARIABLES
  accepting,  \* the flag every new request reads first
  up,         \* the socket is open: server.stop(true) has not run
  available,  \* permits of the investigation pool
  phase,      \* where the handler of a request is
  answer,     \* what the client was answered
  cancelled,  \* the per-request flag behind should_cancel
  timer,      \* the per-request timeout is armed
  listening,  \* the abort listener is attached to the request's signal
  stream,     \* the response stream: "none", "open", "closed", "cancelled"
  frames,     \* frames enqueued on the stream
  client,     \* "attached" or "gone"
  stop,       \* state of each call of stop()
  expired     \* stop() calls whose drain deadline has passed

request == <<phase, answer, cancelled, timer, listening, stream, frames, client>>
stopping == <<stop, expired>>
vars == <<accepting, up, available, request, stopping>>

Running == {"planning", "working", "reporting"}
Terminal == {"report", "error"}
Answer == {"none", "stream", "shutting down", "unauthorized", "invalid", "at capacity"}

\* Investigations that hold a permit, and those whose handler has not returned.
InFlight == {r \in Investigation : phase[r] \in Running}
Connected == {r \in Investigation : phase[r] \in Running \cup {"reading"}}

-----------------------------------------------------------------------------
(* PermitPool: the size is at least 1, release never exceeds the size.     *)

PoolSize == IF MaxConcurrency < 1 THEN 1 ELSE MaxConcurrency

\* One permit too many handed out.
CanAcquireOffByOne == available >= 0

CanAcquire == available > 0

\* A release skipped when the stream is already cancelled, as it would be if
\* the finally block closed the controller first.
ReleaseAfterClose(r) == IF stream[r] = "open" THEN available + 1 ELSE available
Release(r) == IF available < PoolSize THEN available + 1 ELSE available

-----------------------------------------------------------------------------
TypeOK ==
  /\ accepting \in BOOLEAN
  /\ up \in BOOLEAN
  /\ available \in 0 .. PoolSize
  /\ phase \in [Investigation ->
       Running \cup {"unsent", "reading", "settled", "refused", "cut"}]
  /\ answer \in [Investigation -> Answer]
  /\ cancelled \in [Investigation -> BOOLEAN]
  /\ timer \in [Investigation -> BOOLEAN]
  /\ listening \in [Investigation -> BOOLEAN]
  /\ stream \in [Investigation -> {"none", "open", "closed", "cancelled"}]
  /\ frames \in [Investigation -> Seq(Terminal \cup {"progress"})]
  /\ client \in [Investigation -> {"attached", "gone"}]
  /\ stop \in [Stopper -> {"idle", "draining", "closed"}]
  /\ expired \in SUBSET Stopper

Init ==
  /\ accepting = TRUE
  /\ up = TRUE
  /\ available = PoolSize
  /\ phase = [r \in Investigation |-> "unsent"]
  /\ answer = [r \in Investigation |-> "none"]
  /\ cancelled = [r \in Investigation |-> FALSE]
  /\ timer = [r \in Investigation |-> FALSE]
  /\ listening = [r \in Investigation |-> FALSE]
  /\ stream = [r \in Investigation |-> "none"]
  /\ frames = [r \in Investigation |-> <<>>]
  /\ client = [r \in Investigation |-> "attached"]
  /\ stop = [s \in Stopper |-> "idle"]
  /\ expired = {}

-----------------------------------------------------------------------------
(* The handler up to the response.                                         *)

Refuse(r, why) ==
  /\ phase' = [phase EXCEPT ![r] = "refused"]
  /\ answer' = [answer EXCEPT ![r] = why]
  /\ UNCHANGED <<available, cancelled, timer, listening, stream, frames>>

\* The handler's first block: the accepting check and the bearer check, then
\* the await of the body.
Arrive(r) ==
  /\ up
  /\ phase[r] = "unsent"
  /\ \/ /\ ~accepting
        /\ Refuse(r, "shutting down")
     \/ /\ accepting
        /\ \/ Refuse(r, "unauthorized")
           \/ /\ phase' = [phase EXCEPT ![r] = "reading"]
              /\ UNCHANGED <<available, answer, cancelled, timer, listening, stream, frames>>
  /\ UNCHANGED <<accepting, up, client, stopping>>

\* Admission is one block: the permit, the abort listener, the timeout and
\* the stream, whose start() calls the runner, come without an await between.
Admit(r) ==
  /\ CanAcquire
  /\ available' = available - 1
  /\ phase' = [phase EXCEPT ![r] = "planning"]
  /\ answer' = [answer EXCEPT ![r] = "stream"]
  /\ cancelled' = [cancelled EXCEPT ![r] = FALSE]
  /\ listening' = [listening EXCEPT ![r] = TRUE]
  /\ timer' = [timer EXCEPT ![r] = TRUE]
  /\ stream' = [stream EXCEPT ![r] = "open"]
  /\ UNCHANGED frames

\* req.json() settled: JSON and schema checks, then the pool.
BodyRead(r) ==
  /\ up
  /\ phase[r] = "reading"
  /\ \/ Refuse(r, "invalid")
     \/ ~CanAcquire /\ Refuse(r, "at capacity")
     \/ Admit(r)
  /\ UNCHANGED <<accepting, up, client, stopping>>

-----------------------------------------------------------------------------
(* The stream and the runner.                                              *)

\* controller.enqueue throws once the stream is closed or cancelled: the
\* recorder swallows it for progress, the catch and finally blocks for the
\* terminal frame.
Enqueue(r, frame) ==
  IF stream[r] = "open" THEN [frames EXCEPT ![r] = Append(@, frame)] ELSE frames

\* on_metric_event.  A worker that outlived its timeout still emits after
\* the investigation settled.
Emit(r) ==
  /\ up
  /\ phase[r] \in Running \cup {"settled"}
  /\ Len(frames[r]) < MaxProgress
  /\ frames' = Enqueue(r, "progress")
  /\ UNCHANGED <<accepting, up, available, phase, answer, cancelled, timer,
                 listening, stream, client, stopping>>

Advance(r, to) ==
  /\ up
  /\ phase' = [phase EXCEPT ![r] = to]
  /\ UNCHANGED <<accepting, up, available, answer, cancelled, timer, listening,
                 stream, frames, client, stopping>>

\* Preflight, planning and the first _ensure_not_cancelled.
LaunchWorkers(r) ==
  /\ phase[r] = "planning"
  /\ ~cancelled[r]
  /\ Advance(r, "working")

\* The second check only before the workers: the flag may flip meanwhile.
AdjudicateUnchecked(r) ==
  /\ phase[r] = "working"
  /\ Advance(r, "reporting")

\* The workers, scoring and the second _ensure_not_cancelled.
Adjudicate(r) ==
  /\ phase[r] = "working"
  /\ ~cancelled[r]
  /\ Advance(r, "reporting")

\* The controller left open by the finally block.
CloseLater(r) == stream
Close(r) ==
  IF stream[r] = "open" THEN [stream EXCEPT ![r] = "closed"] ELSE stream

\* The cleanup placed after the catch instead of in a finally: lost when the
\* enqueue of the error frame throws.
SettleWithoutFinally(r, frame) ==
  /\ up
  /\ stream[r] = "open"
  /\ frames' = Enqueue(r, frame)
  /\ timer' = [timer EXCEPT ![r] = FALSE]
  /\ listening' = [listening EXCEPT ![r] = FALSE]
  /\ available' = Release(r)
  /\ stream' = Close(r)
  /\ phase' = [phase EXCEPT ![r] = "settled"]
  /\ UNCHANGED <<accepting, up, answer, cancelled, client, stopping>>

\* The terminal frame and the finally block, in one turn of the event loop.
Settle(r, frame) ==
  /\ up
  /\ frames' = Enqueue(r, frame)
  /\ timer' = [timer EXCEPT ![r] = FALSE]
  /\ listening' = [listening EXCEPT ![r] = FALSE]
  /\ available' = Release(r)
  /\ stream' = Close(r)
  /\ phase' = [phase EXCEPT ![r] = "settled"]
  /\ UNCHANGED <<accepting, up, answer, cancelled, client, stopping>>

Complete(r) == phase[r] = "reporting" /\ Settle(r, "report")

\* The runner may throw at any point, and does at a check that sees the flag.
Fail(r) == phase[r] \in Running /\ Settle(r, "error")

-----------------------------------------------------------------------------
(* Timeout, disconnect and stream cancellation: each only flips the flag.  *)

Timeout(r) ==
  /\ up
  /\ timer[r]
  /\ timer' = [timer EXCEPT ![r] = FALSE]
  /\ cancelled' = [cancelled EXCEPT ![r] = TRUE]
  /\ UNCHANGED <<accepting, up, available, phase, answer, listening, stream,
                 frames, client, stopping>>

\* The abort event reaches the flag only through an attached listener.
Disconnect(r) ==
  /\ up
  /\ r \in Connected
  /\ client[r] = "attached"
  /\ client' = [client EXCEPT ![r] = "gone"]
  /\ cancelled' = [cancelled EXCEPT ![r] = @ \/ listening[r]]
  /\ UNCHANGED <<accepting, up, available, phase, answer, timer, listening,
                 stream, frames, stopping>>

\* The runtime cancels the response stream of a client that went away.
StreamCancel(r) ==
  /\ up
  /\ client[r] = "gone"
  /\ stream[r] = "open"
  /\ stream' = [stream EXCEPT ![r] = "cancelled"]
  /\ cancelled' = [cancelled EXCEPT ![r] = TRUE]
  /\ UNCHANGED <<accepting, up, available, phase, answer, timer, listening,
                 frames, client, stopping>>

-----------------------------------------------------------------------------
(* stop() and the process exit that follows it in cli/serve.ts.            *)

\* server.stop(true) closes every connection, the process exits.
CloseServer(s) ==
  /\ up' = FALSE
  /\ stop' = [stop EXCEPT ![s] = "closed"]
  /\ phase' = [r \in Investigation |-> IF r \in Connected THEN "cut" ELSE phase[r]]

\* The drain loop forgetting its deadline.
DrainedWithoutDeadline(s) == available = PoolSize
Drained(s) == available = PoolSize \/ s \in expired

\* No more requests; the loop condition is read before the first sleep, so that
\* an idle pool closes at once.  The drain time is positive.
Stop(s) ==
  /\ up
  /\ stop[s] = "idle"
  /\ accepting' = FALSE
  /\ IF Drained(s) THEN CloseServer(s)
     ELSE stop' = [stop EXCEPT ![s] = "draining"] /\ UNCHANGED <<up, phase>>
  /\ UNCHANGED <<available, answer, cancelled, timer, listening, stream, frames,
                 client, expired>>

DrainExpires(s) ==
  /\ up
  /\ stop[s] = "draining"
  /\ expired' = expired \cup {s}
  /\ UNCHANGED <<accepting, up, available, request, stop>>

\* The loop condition read again, 50 ms later.
DrainEnds(s) ==
  /\ up
  /\ stop[s] = "draining"
  /\ Drained(s)
  /\ CloseServer(s)
  /\ UNCHANGED <<accepting, available, answer, cancelled, timer, listening,
                 stream, frames, client, expired>>

-----------------------------------------------------------------------------
Runner(r) == LaunchWorkers(r) \/ Adjudicate(r) \/ Complete(r) \/ Fail(r)

RequestStep(r) ==
  \/ Arrive(r) \/ BodyRead(r)
  \/ Emit(r) \/ Runner(r)
  \/ Timeout(r) \/ Disconnect(r) \/ StreamCancel(r)

StopStep(s) == Stop(s) \/ DrainExpires(s) \/ DrainEnds(s)

Next ==
  \/ \E r \in Investigation : RequestStep(r)
  \/ \E s \in Stopper : StopStep(s)

Spec == Init /\ [][Next]_vars

\* Timers of stop() fire and its poll goes on.  Clients and signals owe
\* nothing, and an investigation may never unwind.
Fairness ==
  \A s \in Stopper : WF_vars(DrainExpires(s)) /\ WF_vars(DrainEnds(s))

\* The awaits of the runner end, and the request's timer fires.  A premise, and no
\* part of Fairness: data calls carry timeouts and workers are timed out, but a
\* master call of Gemini has no timeout, so that an investigation may hang on it.
RunnersAreFair == \A r \in Investigation : WF_vars(Runner(r)) /\ WF_vars(Timeout(r))

-----------------------------------------------------------------------------
(* Safety.                                                                 *)

\* A permit is out exactly for the investigations in flight, whatever order
\* of settling, timeout, disconnect and stream cancellation they saw: no leak
\* that would shrink the pool for the life of the process, no double release.
PermitsMatchInFlight == up => available + Cardinality(InFlight) = PoolSize

\* The stream carries progress frames, then at most one terminal frame and
\* nothing after it, even from workers that outlive the investigation; a
\* stream the server closed ends with its terminal frame.
StreamFraming ==
  \A r \in Investigation :
    /\ \A i \in DOMAIN frames[r] : frames[r][i] \in Terminal => i = Len(frames[r])
    /\ stream[r] = "closed" => frames[r] # <<>> /\ Last(frames[r]) \in Terminal
    /\ stream[r] = "open" => phase[r] \in Running \cup {"cut"}

\* An investigation cancelled before its second check never sends a report,
\* whichever of timeout, abort and stream cancellation flipped the flag.
CancelledNeverReports ==
  \A r \in Investigation :
    [](cancelled[r] /\ phase[r] \in {"planning", "working"}
         => []("report" \notin ToSet(frames[r])))

\* A well-formed request is turned away for capacity only when the pool is
\* really full of investigations in flight.
RefusedOnlyWhenFull ==
  [][\A r \in Investigation :
       answer[r] # "at capacity" /\ answer'[r] = "at capacity"
         => Cardinality(InFlight) = PoolSize]_vars

\* stop() cuts an investigation short only after a drain deadline.
CutOnlyAtDeadline ==
  [][up /\ ~up' => InFlight = {} \/ expired # {}]_vars

-----------------------------------------------------------------------------
(* Liveness.                                                               *)

\* Every permit comes back while runners go on: no disconnect, no timeout of the
\* request and no drain strands an investigation.
PermitReturned ==
  RunnersAreFair => \A r \in Investigation : (r \in InFlight) ~> (r \notin InFlight)

\* stop() closes the server even if an investigation never unwinds: the drain
\* loop is left at its deadline.
StopCompletes == \A s \in Stopper : (stop[s] = "draining") ~> ~up

=============================================================================
