---------------------------- MODULE MCGraphTools ----------------------------
(***************************************************************************)
(* Small compressed graphs for GraphTools: three vertices and up to four   *)
(* rules on up to four levels, each mentioned.                             *)
(***************************************************************************)
EXTENDS GraphTools

ThreeRules ==
    {<<a, b, c, <<0, 1>>, d, e>> :
        a \in {<<5>>, <<0, 5, 3>>, <<1, 4, 5, 4>>}, b \in {<<>>, <<5, 5>>, <<2, 3, 0>>},
        c \in {<<>>, <<4, 2>>}, d \in {<<3, 2>>, <<3, 3>>}, e \in {<<4, 1>>, <<4, 3>>, <<2, 4>>}}

FourRules == {g \in
    {<<a, b, <<2>>, <<0, 1>>, c, d, e>> :
        a \in {<<6>>, <<5, 6, 0, 3>>, <<6, 4, 5, 4>>}, b \in {<<5, 5>>, <<4, 3, 5>>},
        c \in {<<3, 0>>, <<3, 3>>, <<1, 0>>}, d \in {<<4, 3>>, <<4, 4>>},
        e \in {<<5, 3>>, <<5, 4>>, <<0, 4>>}} :
    \A x \in RuleIds(g, vertex_cnt) : \E v \in RowIds(g) : Contains(g[v + 1], x)}

Smallest == <<<<3>>, <<>>, <<>>, <<0, 2>>>>
Small == {<<<<1>>, <<4>>, <<>>, <<1, 2>>, <<3, 1>>>>, <<<<0, 1>>, <<>>, <<2, 2>>>>,
          <<<<1>>, <<>>, <<3>>, <<0, 1>>>>, Smallest}

MCGraphs == ThreeRules \cup FourRules \cup Small

(* The graph itself, with rows turned round, with an entry missing, with   *)
(* one changed, and with two rows exchanged.                               *)
MCCandidates(g) ==
    LET p == Decompress(g, vertex_cnt)
    IN  {p, [p EXCEPT ![1] = Reverse(@)], [p EXCEPT ![1] = Tail(@)],
         [p EXCEPT ![1] = [@ EXCEPT ![Len(@)] = (@ + 1) % vertex_cnt]],
         [p EXCEPT ![2] = p[3], ![3] = p[2]]}

MCIndexes == {{}, {0}, {1, 3}, {0, 2, 4}, {3, 4, 5}, {2, 4, 5}, 0 .. 2, 0 .. 5}

MCBeyond ==
    LET entries == [src : 0 .. 2, dst : {0, 2}]
    IN  {<<>>} \cup {<<e>> : e \in entries}
        \cup {<<e, f>> : e, f \in {x \in entries : x.src = 2}}

(* Several threads only on small graphs, and in each other's way only on   *)
(* the smallest.                                                           *)
MCTeams(g) ==
    [team : IF g \in Small THEN {1, 2} ELSE {1}, kept : {"registers"}]
    \cup [team : IF g = Smallest THEN {1, 2} ELSE {}, kept : {"memory"}]
=============================================================================
