---------------------------- MODULE MCSamePerson ----------------------------
(* Seven people, with and without joint rows, and a limit of ten pairs: five *)
(* and two, where the limit leaves the second block or the larger one out;   *)
(* three and three, where it lets both in; four, and three without a last    *)
(* name.  The model answers every pair once or not at all, and may answer    *)
(* the first pair twice; a list of ten pairs gets one of two verdicts each.  *)
EXTENDS SamePerson

MCLastNames == {<<1, 1, 1, 1, 1, 2, 2>>, <<2, 2, 2, 2, 2, 1, 1>>, <<1, 1, 1, 2, 2, 2, 0>>,
                <<1, 1, 1, 1, 0, 0, 0>>}
MCJointRows == {{}, {1}, {1, 3}}

Once == {<<v>> : v \in Verdict \ {"unlisted"}} \cup {<<>>}
Twice == {<<v, w>> : v \in {"same", "joint"}, w \in Verdict}
Short(pairs) == Cardinality(pairs) <= 6

MCAnswers(pairs) ==
  LET first == CHOOSE p \in pairs : \A q \in pairs : Min(p) + Max(p) <= Min(q) + Max(q)
  IN [pairs -> IF Short(pairs) THEN Once ELSE {<<"same">>, <<"not_sure">>}] \cup
     {[[q \in pairs |-> <<"same">>] EXCEPT ![first] = twice] : twice \in Twice} \cup
     {[[q \in pairs |-> <<"not_sure">>] EXCEPT ![first] = twice] : twice \in Twice}

=============================================================================
