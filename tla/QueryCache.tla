----------------------------- MODULE QueryCache -----------------------------
(***************************************************************************)
(* The single-flight query cache of src/agents/query_cache.ts: concurrent  *)
(* identical data-service calls of one investigation share one execution.  *)
(*                                                                         *)
(* A member of Call is one invocation of get_or_execute; an execution of   *)
(* the factory is named by the call that owns it.  Each action is the code *)
(* between two awaits.  The owner awaits the promise before anyone can     *)
(* join it, so its continuation always runs before a joiner's.             *)
(***************************************************************************)
CONSTANTS
  Call,  \* invocations of get_or_execute during one investigation
  Key,   \* cache keys: operation and canonical parameters
  None   \* no call

\* Assumed of the constants by the proofs and by the modules that use a cache.
CacheConstants == None \notin Call /\ None \notin Key /\ "threw" \notin Call

VARIABLES
  results,   \* _results: key -> the execution whose value is kept
  inflight,  \* _inflight: key -> the execution whose promise is stored
  promise,   \* the promise of the execution a call owns
  asked,     \* the key of a call
  from,      \* the execution a call awaits, or was answered from
  status     \* where a call is

cache == <<results, inflight>>
cacheVars == <<results, inflight, promise, asked, from, status>>

CacheTypeOK ==
  /\ results \in [Key -> Call \cup {None}]
  /\ inflight \in [Key -> Call \cup {None}]
  /\ promise \in [Call -> {"none", "pending", "fulfilled", "rejected"}]
  /\ asked \in [Call -> Key \cup {None}]
  /\ from \in [Call -> Call \cup {None}]
  /\ status \in [Call -> {"idle", "owner", "joiner", "returned", "threw"}]

CacheInit ==
  /\ results = [k \in Key |-> None]
  /\ inflight = [k \in Key |-> None]
  /\ promise = [c \in Call |-> "none"]
  /\ asked = [c \in Call |-> None]
  /\ from = [c \in Call |-> None]
  /\ status = [c \in Call |-> "idle"]

-----------------------------------------------------------------------------
\* _results.has(key): answered at once.
Hit(c, k) ==
  /\ results[k] # None
  /\ from' = [from EXCEPT ![c] = results[k]]
  /\ status' = [status EXCEPT ![c] = "returned"]
  /\ UNCHANGED <<cache, promise>>

\* The stored promise is awaited, settled or not.
Join(c, k) ==
  /\ results[k] = None
  /\ inflight[k] # None
  /\ from' = [from EXCEPT ![c] = inflight[k]]
  /\ status' = [status EXCEPT ![c] = "joiner"]
  /\ UNCHANGED <<cache, promise>>

\* The check of _inflight dropped.
OwnAlways(c, k) ==
  /\ results[k] = None
  /\ promise' = [promise EXCEPT ![c] = "pending"]
  /\ inflight' = [inflight EXCEPT ![k] = c]
  /\ from' = [from EXCEPT ![c] = c]
  /\ status' = [status EXCEPT ![c] = "owner"]
  /\ UNCHANGED results

\* The factory is started and its promise stored, with no await in between.
Own(c, k) ==
  /\ results[k] = None
  /\ inflight[k] = None
  /\ promise' = [promise EXCEPT ![c] = "pending"]
  /\ inflight' = [inflight EXCEPT ![k] = c]
  /\ from' = [from EXCEPT ![c] = c]
  /\ status' = [status EXCEPT ![c] = "owner"]
  /\ UNCHANGED results

Ask(c, k) ==
  /\ status[c] = "idle"
  /\ asked' = [asked EXCEPT ![c] = k]
  /\ Hit(c, k) \/ Join(c, k) \/ Own(c, k)

\* The promise removed from the map as soon as it settles, before the owner
\* has stored the value.
SettleAndForget(c, as) ==
  /\ promise[c] = "pending"
  /\ promise' = [promise EXCEPT ![c] = as]
  /\ inflight' = [inflight EXCEPT ![asked[c]] = None]
  /\ UNCHANGED <<results, asked, from, status>>

\* The factory's promise settles; nobody has been resumed yet.
Settle(c, as) ==
  /\ promise[c] = "pending"
  /\ promise' = [promise EXCEPT ![c] = as]
  /\ UNCHANGED <<cache, asked, from, status>>

OwnerReturns(c) ==
  /\ status[c] = "owner"
  /\ promise[c] = "fulfilled"
  /\ results' = [results EXCEPT ![asked[c]] = c]
  /\ inflight' = [inflight EXCEPT ![asked[c]] = None]
  /\ status' = [status EXCEPT ![c] = "returned"]
  /\ UNCHANGED <<promise, asked, from>>

\* The catch block that forgets the delete: the rejected promise stays.
OwnerThrowsKeeping(c) ==
  /\ status[c] = "owner"
  /\ promise[c] = "rejected"
  /\ status' = [status EXCEPT ![c] = "threw"]
  /\ UNCHANGED <<cache, promise, asked, from>>

\* The catch block: errors are not cached.
OwnerThrows(c) ==
  /\ status[c] = "owner"
  /\ promise[c] = "rejected"
  /\ inflight' = [inflight EXCEPT ![asked[c]] = None]
  /\ status' = [status EXCEPT ![c] = "threw"]
  /\ UNCHANGED <<results, promise, asked, from>>

\* A joiner that waits for a value and not for an error.
JoinerReturns(c) ==
  /\ status[c] = "joiner"
  /\ promise[from[c]] = "fulfilled"
  /\ status[from[c]] = "returned"
  /\ status' = [status EXCEPT ![c] = "returned"]
  /\ UNCHANGED <<cache, promise, asked, from>>

\* A coalesced caller gets the value or the exception of the one execution.
JoinerResumes(c) ==
  /\ status[c] = "joiner"
  /\ status[from[c]] \in {"returned", "threw"}
  /\ status' = [status EXCEPT ![c] = status[from[c]]]
  /\ UNCHANGED <<cache, promise, asked, from>>

Resume(c) == OwnerReturns(c) \/ OwnerThrows(c) \/ JoinerResumes(c)

SettleAny(c) == \E as \in {"fulfilled", "rejected"} : Settle(c, as)

CacheNext ==
  \E c \in Call :
    \/ \E k \in Key : Ask(c, k)
    \/ SettleAny(c)
    \/ Resume(c)

CacheSpec == CacheInit /\ [][CacheNext]_cacheVars

-----------------------------------------------------------------------------
\* Identical concurrent calls are one execution: two pending executions never
\* have the same key, whatever failed and was asked again before.
SingleFlight ==
  \A c, d \in Call :
    promise[c] = "pending" /\ promise[d] = "pending" /\ asked[c] = asked[d] => c = d

\* Everyone in the investigation sees the same answer of a query: two calls of
\* a key that return, however far apart, were answered by one execution.
AnswersAgree ==
  \A c, d \in Call :
    status[c] = "returned" /\ status[d] = "returned" /\ asked[c] = asked[d]
      => from[c] = from[d]

\* "Errors are not cached": a call made after the owner of a failed execution
\* has thrown is never handed that failure.
NoFailureReplayed ==
  [][\A c \in Call :
       status[c] = "idle" /\ from'[c] \in Call => status[from'[c]] # "threw"]_cacheVars

\* Every call is answered: no joiner is left on a promise nobody settles.
EveryCallAnswered ==
  \A c \in Call : (status[c] # "idle") ~> (status[c] \in {"returned", "threw"})

-----------------------------------------------------------------------------
\* The memo this cache implements.
Memo ==
  INSTANCE ReadThroughMemo WITH
    memo <- results,
    running <- {k \in Key : inflight[k] # None},
    outcome <- [c \in Call |->
                  CASE status[c] = "returned" -> from[c]
                    [] status[c] = "threw" -> "threw"
                    [] OTHER -> None]

\* The cache keeps the promise of ReadThroughMemo.
ImplementsMemo == Memo!Spec

\* The inductive invariant behind SingleFlight, AnswersAgree and the
\* refinement: how the two maps, the promises and the calls hang together.
IdleIsFresh ==
  \A c \in Call : /\ status[c] = "idle" <=> asked[c] = None
                  /\ status[c] = "idle" => promise[c] = "none" /\ from[c] = None

OwnerIsInflight ==
  \A c \in Call : /\ promise[c] = "pending" => status[c] = "owner"
                  /\ status[c] = "owner" => from[c] = c /\ inflight[asked[c]] = c

FromOneExecution ==
  \A c \in Call : status[c] # "idle" =>
    /\ from[c] \in Call
    /\ from[from[c]] = from[c]
    /\ asked[from[c]] = asked[c]
    /\ status[from[c]] \in {"owner", "returned", "threw"}

ReturnedIsKept ==
  \A c \in Call : status[c] = "returned" => results[asked[c]] = from[c]

InflightIsOwned ==
  \A k \in Key : inflight[k] # None =>
    /\ results[k] = None
    /\ asked[inflight[k]] = k
    /\ status[inflight[k]] = "owner"

KeptWasReturned ==
  \A k \in Key : results[k] # None =>
    /\ asked[results[k]] = k
    /\ status[results[k]] = "returned"
    /\ from[results[k]] = results[k]

CacheInv ==
  /\ CacheTypeOK
  /\ IdleIsFresh /\ OwnerIsInflight /\ FromOneExecution
  /\ ReturnedIsKept /\ InflightIsOwned /\ KeptWasReturned

=============================================================================
