---------------------------- MODULE MCNodeSearch ----------------------------
(* TLC instance of NodeSearch: two directories, any two trees of up to      *)
(* three subdirectories, one of them below another, anew for each merge     *)
(* node.  The postings at "q" share one id, at the ends of their ranges;    *)
(* at "p" the ranges overlap without one, and below "p" they are apart.     *)
(* Every directory has a head.bin or, as index.c leaves it, none has; every *)
(* document scores, or one at the top and none below.                       *)
EXTENDS NodeSearch

MCPaths   == {<<>>, <<"p">>, <<"q">>, <<"p", "p">>}
MCPostings == {MCPaths, {<<"p">>, <<"q">>}}
MCHeads   == {{}, MCPaths}
MCItemsAt == [p \in MCPaths |-> Len(p) + 1]
MCIdsAt   == [p \in MCPaths |->
               CASE p = <<>>    -> <<{1, 2}, {2, 3, 1}>>
                 [] p = <<"q">> -> <<{1, 2}, {2, 3}>>
                 [] p = <<"p">> -> <<{1, 3}, {2}>>
                 [] OTHER       -> <<{1}, {2}>>]
MCScorings == {[p \in MCPaths |-> 1 .. 3], [p \in MCPaths |-> IF p = <<>> THEN {1} ELSE {}]}

=============================================================================
