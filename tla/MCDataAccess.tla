---------------------------- MODULE MCDataAccess ----------------------------
(* Two workers with a budget of two calls, three calls by the first and one *)
(* by the second, over two keys: the first can exceed its budget, and any   *)
(* two calls can meet in the cache.                                         *)
EXTENDS DataAccess

CONSTANTS a1, a2, a3, b1, k1, k2

MCCalls == {a1, a2, a3, b1}
MCKeys == {k1, k2}
MCLanes == {"a", "b"}
MCLaneOf == [c \in MCCalls |-> IF c = b1 THEN "b" ELSE "a"]

=============================================================================
