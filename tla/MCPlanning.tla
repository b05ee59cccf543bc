----------------------------- MODULE MCPlanning -----------------------------
(* Four packets: two of one group, with an ungrouped one between them, and  *)
(* the synthesis packet; a request for all of them and one without a member *)
(* of the group.  A master plan has at most three entries in both its lists *)
(* together, drawn from the packets and an invented id.                    *)
EXTENDS Planning

MCCatalog == <<"tax_context", "loan_tenure", "owner_identity", "synthesis">>
MCGroupOf == [p \in Range(MCCatalog) |->
                IF p \in {"tax_context", "owner_identity"} THEN "owner" ELSE "none"]
MCSourcesOf == [p \in Range(MCCatalog) |->
                  CASE p = "tax_context" -> {"tax"}
                    [] p = "loan_tenure" -> {"loan"}
                    [] OTHER -> {"tax", "loan"}]
MCRequests == {Range(MCCatalog), Range(MCCatalog) \ {"owner_identity"}}

=============================================================================
