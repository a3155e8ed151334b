------------------------- MODULE MCResearchPipeline -------------------------
(* TLC instances of ResearchPipeline.  The second row of the enterprise    *)
(* search shares its url with the map's, which has the address of the      *)
(* first: merging is not transitive.                                        *)
EXTENDS ResearchPipeline

QueryOrder == <<"enterprise", "map">>
Rows == {"e1", "e2", "e3", "m1"}
RowKeys == [e1 |-> <<<<"id", "1">>, <<"at", "1">>, NoKey>>,
            e2 |-> <<<<"id", "2">>, NoKey, <<"url", "2">>>>,
            e3 |-> <<<<"id", "3">>, NoKey, NoKey>>,
            m1 |-> <<<<"poi", "1">>, <<"at", "1">>, <<"url", "2">>>>]
RowScore == [e1 |-> 1, e2 |-> 2, e3 |-> 1, m1 |-> 1]
RowAnswers ==
    [enterprise |-> [r \in Rounds |-> IF r = 0 THEN {<<"e1", "e2">>, <<"e2">>} ELSE {<<"e2", "e3">>}],
     map |-> [r \in Rounds |-> {<<"m1">>}]]
=============================================================================
