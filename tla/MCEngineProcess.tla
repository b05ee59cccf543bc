-------------------------- MODULE MCEngineProcess --------------------------
(* Two requests of one route that compete for its permit, or one of each;  *)
(* batches of three items in chunks of two, so that the last chunk is not  *)
(* full; and two signal handlers that stop the server.                     *)
EXTENDS EngineProcess

CONSTANTS r1, r2, s1, s2, f1, f2

MCInvestigations == {r1, r2}
MCFingerprints == {f1, f2}
MCStoppers == {s1, s2}
MCTraffic == {{r1, r2}, {r1, f1}, {f1, f2}}
=============================================================================
