--------------------------- MODULE ReadThroughMemo ---------------------------
(***************************************************************************)
(* What a per-investigation memo of read-only calls promises, whatever its *)
(* implementation: a key is computed by at most one execution at a time, a *)
(* computed answer is kept for good, and every asker of a key that is not  *)
(* thrown an error is given that one answer.                               *)
(***************************************************************************)
CONSTANTS Call, Key, None

VARIABLES
  memo,     \* the answer kept for a key, named by the call that computed it
  running,  \* keys being computed
  asked,    \* the key of a call
  outcome   \* None, "threw", or the answer given

vars == <<memo, running, asked, outcome>>

Init ==
  /\ memo = [k \in Key |-> None]
  /\ running = {}
  /\ asked = [c \in Call |-> None]
  /\ outcome = [c \in Call |-> None]

Open(c) == asked[c] # None /\ outcome[c] = None

\* A call names its key, and the key starts to be computed if it is unknown.
Ask(c, k) ==
  /\ asked[c] = None
  /\ asked' = [asked EXCEPT ![c] = k]
  /\ running' = IF memo[k] = None THEN running \cup {k} ELSE running
  /\ outcome' = [outcome EXCEPT ![c] = memo[k]]
  /\ UNCHANGED memo

\* The computation of a key ends and answers the call that started it.
Fill(c) ==
  /\ Open(c)
  /\ asked[c] \in running
  /\ memo[asked[c]] = None
  /\ memo' = [memo EXCEPT ![asked[c]] = c]
  /\ running' = running \ {asked[c]}
  /\ outcome' = [outcome EXCEPT ![c] = c]
  /\ UNCHANGED asked

Abandon(c) ==
  /\ Open(c)
  /\ asked[c] \in running
  /\ running' = running \ {asked[c]}
  /\ outcome' = [outcome EXCEPT ![c] = "threw"]
  /\ UNCHANGED <<memo, asked>>

\* Another call of the key is given the kept answer, or the error.
Read(c) ==
  /\ Open(c)
  /\ memo[asked[c]] # None
  /\ outcome' = [outcome EXCEPT ![c] = memo[asked[c]]]
  /\ UNCHANGED <<memo, running, asked>>

Throw(c) ==
  /\ Open(c)
  /\ outcome' = [outcome EXCEPT ![c] = "threw"]
  /\ UNCHANGED <<memo, running, asked>>

Next ==
  \E c \in Call :
    \/ \E k \in Key : Ask(c, k)
    \/ Fill(c) \/ Abandon(c) \/ Read(c) \/ Throw(c)

Spec == Init /\ [][Next]_vars

=============================================================================
