-------------------------- MODULE MCHeuristicAgent --------------------------
(* Groups of two packets and solo runs, two tool calls to a response.       *)
EXTENDS HeuristicAgent

CONSTANTS p1, p2, none

MCPackets == {p1, p2}

=============================================================================
