---------------------------- MODULE VertexOrder ----------------------------
(***************************************************************************)
(* gen_mask.h: in which order the rows of a compressed graph can be worked *)
(* off so that a rule comes after (or before) every row that mentions it,  *)
(* and the masks that select the rows or edges of one round.  A graph is   *)
(* its sequence of rows, row x at rows[x + 1]; rows n and up are rules.    *)
(***************************************************************************)
EXTENDS CSR, FiniteSetsExt

INIT == 100000

Count(s, x) == Cardinality({p \in 1 .. Len(s) : s[p] = x})
RowIds(rows) == 0 .. Len(rows) - 1
RuleIds(rows, n) == n .. Len(rows) - 1

(* How often the rows of W mention x.                                      *)
MentionsIn(rows, W, x) == MapThenSumSet(LAMBDA w : Count(rows[w + 1], x), W)

(* Mutant: a rule is ordered as soon as one row that mentions it is done.  *)
RoundFirst(rows, s) ==
    LET next == {x \in DOMAIN s.in_degree :
                    s.order[x] = INIT /\ MentionsIn(rows, s.worklist, x) > 0}
    IN  [s EXCEPT !.order = [x \in DOMAIN @ |-> IF x \in next THEN s.step ELSE @[x]],
                  !.worklist = next, !.step = @ + 1]

(* One round of the worklist loop that the two vertex orders share: the    *)
(* rules of which the last mention is in the worklist are ordered next.    *)
(* The worklist is a set; its order does not matter to the result.         *)
Round(rows, s) ==
    LET left == [x \in DOMAIN s.in_degree |->
                    IF s.order[x] = INIT
                    THEN s.in_degree[x] - MentionsIn(rows, s.worklist, x) ELSE s.in_degree[x]]
        next == {x \in DOMAIN left : left[x] = 0 /\ left[x] # s.in_degree[x]}
    IN  [order |-> [x \in DOMAIN s.order |-> IF x \in next THEN s.step ELSE s.order[x]],
         in_degree |-> left, worklist |-> next, step |-> s.step + 1]

(* Rounds until the worklist is empty.  All but the last order a rule, so  *)
(* there is at most one more than there are rules.                         *)
Rounds(rows, n, start) ==
    LET after[t \in 0 .. Len(rows) - n + 1] ==
            IF t = 0 THEN start
            ELSE IF after[t - 1].worklist = {} THEN after[t - 1]
            ELSE Round(rows, after[t - 1])
    IN  after[Len(rows) - n + 1]

(* From the vertices down: the order of a row is that of the longest path  *)
(* of mentions that leads to it.                                           *)
gen_vertex_order_csr(rows, n) ==
    LET end == Rounds(rows, n,
            [order |-> [x \in RowIds(rows) |-> IF x < n THEN 0 ELSE INIT],
             in_degree |-> [x \in RuleIds(rows, n) |-> MentionsIn(rows, RowIds(rows), x)],
             worklist |-> 0 .. n - 1, step |-> 1])
    IN  [order |-> end.order, depth |-> end.step - 1]

(* Mentions in rules only, from the rules that no rule mentions; the       *)
(* vertices come last, in a round of their own.                            *)
gen_vertex_order_csc(rows, n) ==
    LET in_degree == [x \in RuleIds(rows, n) |-> MentionsIn(rows, RuleIds(rows, n), x)]
        first == {x \in RuleIds(rows, n) : in_degree[x] = 0}
        end == Rounds(rows, n,
            [order |-> [x \in RowIds(rows) |-> IF x \in first THEN 0 ELSE INIT],
             in_degree |-> in_degree, worklist |-> first, step |-> 1])
    IN  [order |-> [x \in RowIds(rows) |-> IF x < n THEN end.step - 1 ELSE end.order[x]],
         depth |-> end.step]

(* What gen_mask_vertex asserts of its argument before it looks at it.     *)
GraphTypeAsserted(graph_type) == graph_type # "csc" /\ graph_type # "csr"

(* The rest of gen_mask_vertex, for either graph_type.                     *)
gen_mask_vertex(rows, n, graph_type) ==
    LET result == IF graph_type = "csc"
                  THEN gen_vertex_order_csc(rows, n) ELSE gen_vertex_order_csr(rows, n)
    IN  [d \in 0 .. result.depth - 1 |-> {x \in RowIds(rows) : result.order[x] = d}]
-----------------------------------------------------------------------------
(* gen_edge_order: the same for the edges src[e] -> dst[e], with a loop    *)
(* that ends when all of them are ordered.  s holds order, in_degree and   *)
(* step.                                                                   *)
EdgesInto(E, dst, x) == Cardinality({e \in E : dst[e] = x})

EdgeOrderStart(src, dst, n, rule_cnt) ==
    [order |-> [e \in DOMAIN src |-> IF src[e] < n THEN 0 ELSE INIT],
     in_degree |-> [x \in n .. n + rule_cnt - 1 |->
                        EdgesInto({e \in DOMAIN src : src[e] >= n}, dst, x)],
     step |-> 1]

EdgesLeft(s) == \E e \in DOMAIN s.order : s.order[e] = INIT

EdgeOrderRound(src, dst, n, s) ==
    LET ready == {e \in DOMAIN src :
                    src[e] >= n /\ s.in_degree[src[e]] = 0 /\ s.order[e] = INIT}
    IN  [order |-> [e \in DOMAIN src |-> IF e \in ready THEN s.step ELSE s.order[e]],
         in_degree |-> [x \in DOMAIN s.in_degree |->
             IF s.in_degree[x] > 0 THEN s.in_degree[x] - EdgesInto(ready, dst, x) ELSE 0],
         step |-> s.step + 1]

gen_mask_edge(s) == [d \in 0 .. s.step - 1 |-> {e \in DOMAIN s.order : s.order[e] = d}]
=============================================================================
