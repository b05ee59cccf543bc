---------------------------- MODULE MCWorkerPool ----------------------------
(* Four solo packets over two permits, for mislabelled results.             *)
EXTENDS WorkerPool

MCPackets == {"tax", "mail", "loan", "surface", "legal", "quality"}
MCPlan == <<"loan", "tax", "surface", "legal">>
MCSolo == <<<<"loan">>, <<"tax">>, <<"surface">>, <<"legal">>>>
AnyLabel(p) == MCPackets

=============================================================================
