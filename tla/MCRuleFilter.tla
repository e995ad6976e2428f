---------------------------- MODULE MCRuleFilter ----------------------------
(***************************************************************************)
(* Small compressed graphs for RuleFilter: two vertices and four rules,    *)
(* nested up to depth four, mentioned from never to five times.            *)
(***************************************************************************)
EXTENDS RuleFilter, Expansion

MCGraphs ==
    {FromRows(<<a, b, <<0, 1>>, c, d, e>>) :
        a \in {<<>>, <<2, 3, 4>>, <<4, 4, 4>>, <<3, 4, 5, 2>>},
        b \in {<<4, 5>>, <<5, 5, 5>>, <<2, 2, 2, 4>>, <<1, 0, 3, 3>>, <<2, 2, 2, 1>>},
        c \in {<<2, 0>>, <<1, 0>>, <<2, 2>>},
        d \in {<<2, 3>>, <<3, 3>>, <<0, 2>>, <<3, 1>>},
        e \in {<<4, 2>>, <<3, 4>>, <<0, 3>>}}

(* The new graph stands for the same neighbours as the argument.           *)
FilterLossless ==
    pc = "done" /\ (accumulate \/ EveryRuleUsed) =>
        /\ IsCSR(new_vlist, new_elist)
        /\ Decompress(Rows(new_vlist, new_elist), vertex_cnt)
             = Decompress(Rows(vlist, elist), vertex_cnt)
=============================================================================
