--------------------------- MODULE MCInvestigation --------------------------
(* A plan of a group with a solo packet between its two members, the solo   *)
(* packet listed twice: three buckets over two permits, so that one worker  *)
(* waits, and buckets in another order than the plan.  A group checks the   *)
(* ids its model writes, a solo run does not, so that its finding may carry *)
(* another packet's id.                                                     *)
EXTENDS Investigation

MCPackets == {"tax", "mail", "loan"}
MCPlan == <<"tax", "loan", "mail", "loan">>
MCBuckets == <<<<"tax", "mail">>, <<"loan">>, <<"loan">>>>
MCLabel(p) == IF p \in {"tax", "mail"} THEN {p} ELSE {p, "tax"}

=============================================================================
