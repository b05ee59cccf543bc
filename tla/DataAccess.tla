----------------------------- MODULE DataAccess -----------------------------
(***************************************************************************)
(* The data calls of the workers of one investigation: each worker has a   *)
(* CountingDataClient (src/agents/data_client.ts) with a budget and logs   *)
(* of its own, and all of them share one QueryCache.  A worker may have    *)
(* several calls in flight, since the tool calls of a turn run together.   *)
(***************************************************************************)
EXTENDS QueryCache, Integers, FiniteSets

CONSTANTS
  Lane,             \* the counting clients, one per worker
  LaneOf,           \* LaneOf[c]: the client a call is made through
  MaxCalls          \* max_calls of every client

VARIABLES
  kind,     \* how the execution a call owns ended
  calls,    \* calls: spent by a client
  logs,     \* the length of its logs
  refusals, \* the length of its refusal_logs
  logged,   \* calls whose _budgeted has returned
  done,     \* calls whose caller has the answer
  refused   \* calls refused because the budget was spent

ledger == <<calls, logs, refusals>>
vars == <<cacheVars, kind, ledger, logged, done, refused>>

ASSUME LaneConstants ==
  /\ CacheConstants
  /\ IsFiniteSet(Call)
  /\ LaneOf \in [Call -> Lane]
  /\ MaxCalls \in Nat

Kind == {"rows", "refusal", "client error", "crash"}
Fulfilled == {"rows", "refusal"}
Logged == Kind \ {"crash"}

Of(l) == {c \in Call : LaneOf[c] = l}

DataTypeOK ==
  /\ CacheTypeOK
  /\ kind \in [Call -> Kind \cup {"none"}]
  /\ calls \in [Lane -> 0 .. MaxCalls]
  /\ logs \in [Lane -> Nat]
  /\ refusals \in [Lane -> Nat]
  /\ logged \in SUBSET Call
  /\ done \in SUBSET Call
  /\ refused \in SUBSET Call

Init ==
  /\ CacheInit
  /\ kind = [c \in Call |-> "none"]
  /\ calls = [l \in Lane |-> 0]
  /\ logs = [l \in Lane |-> 0]
  /\ refusals = [l \in Lane |-> 0]
  /\ logged = {}
  /\ done = {}
  /\ refused = {}

Fresh(c) == status[c] = "idle" /\ c \notin refused

-----------------------------------------------------------------------------
\* Only executions paid for, so that joined and cached calls come free.
PayExecutions(c) ==
  calls' = [calls EXCEPT ![LaneOf[c]] = IF from'[c] = c THEN @ + 1 ELSE @]

\* this.calls += 1, before the await.
Pay(c) == calls' = [calls EXCEPT ![LaneOf[c]] = @ + 1]

\* Budget check, increment, cache: one block, no await.
Spend(c, k) ==
  /\ Fresh(c)
  /\ calls[LaneOf[c]] < MaxCalls
  /\ Ask(c, k)
  /\ Pay(c)
  /\ UNCHANGED <<kind, logs, refusals, logged, done, refused>>

\* The refused call is neither counted nor sent.
OverBudget(c) ==
  /\ Fresh(c)
  /\ calls[LaneOf[c]] >= MaxCalls
  /\ refused' = refused \cup {c}
  /\ UNCHANGED <<cacheVars, kind, ledger, logged, done>>

\* The data service answers: rows, a structured refusal (HTTP 422, returned),
\* a DataClientError (timeout, status, size, parse), or any other exception.
Answer(c, as) ==
  /\ kind' = [kind EXCEPT ![c] = as]
  /\ Settle(c, IF as \in Fulfilled THEN "fulfilled" ELSE "rejected")
  /\ UNCHANGED <<ledger, logged, done, refused>>

ResumeCached(c) ==
  /\ Resume(c)
  /\ UNCHANGED <<kind, ledger, logged, done, refused>>

Why(c) == kind[from[c]]
Answered(c) == status[c] \in {"returned", "threw"}

\* The continuation of _budgeted: a log entry for every answer and every
\* DataClientError, whether it came over the wire or from the cache.
Log(c) ==
  /\ Answered(c) /\ c \notin logged
  /\ logged' = logged \cup {c}
  /\ logs' = [logs EXCEPT ![LaneOf[c]] = IF Why(c) \in Logged THEN @ + 1 ELSE @]
  /\ UNCHANGED <<cacheVars, kind, calls, refusals, done, refused>>

\* A refusal logged by the call that went over the wire only.
LogRefusalOnce(c) ==
  /\ c \in logged \ done
  /\ done' = done \cup {c}
  /\ refusals' = [refusals EXCEPT ![LaneOf[c]] =
                    IF Why(c) = "refusal" /\ from[c] = c THEN @ + 1 ELSE @]
  /\ UNCHANGED <<cacheVars, kind, calls, logs, logged, refused>>

\* The continuation of run_sql, an await later: every refusal is logged, a cached
\* one too.  The other operations have no refusals and log nothing here.
LogRefusal(c) ==
  /\ c \in logged \ done
  /\ done' = done \cup {c}
  /\ refusals' = [refusals EXCEPT ![LaneOf[c]] =
                    IF Why(c) = "refusal" THEN @ + 1 ELSE @]
  /\ UNCHANGED <<cacheVars, kind, calls, logs, logged, refused>>

Next ==
  \E c \in Call :
    \/ \E k \in Key : Spend(c, k)
    \/ OverBudget(c)
    \/ \E as \in Kind : Answer(c, as)
    \/ ResumeCached(c)
    \/ Log(c)
    \/ LogRefusal(c)

Spec == Init /\ [][Next]_vars

\* The data client times out, and a settled promise resumes its caller.
FairSpec ==
  Spec /\ \A c \in Call : /\ WF_vars(\E as \in Kind : Answer(c, as))
                          /\ WF_vars(ResumeCached(c))
                          /\ WF_vars(Log(c)) /\ WF_vars(LogRefusal(c))

-----------------------------------------------------------------------------
Outstanding(l) == {c \in Of(l) : status[c] # "idle" /\ c \notin logged}
Crashed(l) == {c \in Of(l) : c \in logged /\ Why(c) = "crash"}
Declined(l) == {c \in Of(l) : c \in done /\ Why(c) = "refusal"}

\* The ceiling is hard: however many calls a turn makes at once, a worker never
\* asks more than max_calls times, so it never sends more requests than that.
BudgetHeld ==
  \A l \in Lane : Cardinality({c \in Of(l) : status[c] # "idle"}) <= MaxCalls

\* The logs that error_result and the result read account for every call paid,
\* within the budget: logged, still awaited, or lost to an exception that is
\* not a DataClientError.  A joined or cached call is paid for and logged like one
\* that was sent, and a refusal is on the refusal log of every caller that was
\* answered with it, whoever executed the call.
LedgerBalances ==
  /\ DataTypeOK
  /\ BudgetHeld
  /\ \A l \in Lane :
       /\ calls[l] = logs[l] + Cardinality(Outstanding(l)) + Cardinality(Crashed(l))
       /\ refusals[l] = Cardinality(Declined(l))

\* The title of the test of the shared cache: "spends budget only once per
\* execution", so that a call answered from the cache costs nothing.
BudgetOncePerExecution ==
  \A l \in Lane : calls[l] = Cardinality({c \in Of(l) : from[c] = c})

=============================================================================
