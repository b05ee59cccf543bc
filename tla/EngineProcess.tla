--------------------------- MODULE EngineProcess ---------------------------
(***************************************************************************)
(* One engine process: the investigation route, the fingerprint route and  *)
(* the stop() that both depend on.  The routes share the accepting flag    *)
(* and the socket and have separate permit pools; the drain loop watches   *)
(* the investigation pool alone.  What holds of each route is checked here *)
(* with the other one beside it.                                           *)
(***************************************************************************)
EXTENDS FingerprintEndpoint

CONSTANT Traffic   \* bound: sets of requests, one of which holds all that are sent

processVars == <<vars, fpVars>>

ProcessInit == Init /\ FpInit

Sent ==
  {r \in Investigation : phase[r] # "unsent"} \cup {f \in Fingerprint : fp_phase[f] # "unsent"}
MaySend(one) == \E requests \in Traffic : Sent \cup {one} \subseteq requests

InvestigateRoute(r) == MaySend(r) /\ RequestStep(r) /\ UNCHANGED fpVars

FingerprintRoute(f) == MaySend(f) /\ FingerprintStep(f) /\ UNCHANGED <<request, available, stopping>>

\* server.stop(true) closes the connections of both routes.
Draining(s) ==
  /\ StopStep(s)
  /\ IF up' THEN UNCHANGED fpVars ELSE CutFingerprints

ProcessNext ==
  \/ \E r \in Investigation : InvestigateRoute(r)
  \/ \E f \in Fingerprint : FingerprintRoute(f)
  \/ \E s \in Stopper : Draining(s)

ProcessSpec == ProcessInit /\ [][ProcessNext]_processVars

\* The timers of stop() fire, and probes end.
FairSpec == ProcessSpec /\ Fairness /\ FpFairness

-----------------------------------------------------------------------------
\* "stop(): graceful: stop accepting, drain in-flight, then close": a drain
\* that meets no deadline interrupts no request that was admitted.
DrainsBothRoutes ==
  [][up /\ ~up' /\ expired = {} => InFlight = {} /\ Probing = {}]_processVars

=============================================================================
