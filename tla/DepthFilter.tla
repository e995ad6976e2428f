---------------------------- MODULE DepthFilter ----------------------------
(***************************************************************************)
(* depth_filter.h: from the deepest level of rules up to level max_depth,  *)
(* a level whose rules have fewer than min_edge entries together is merged *)
(* into the rows that mention them.  The level of a rule is its order in   *)
(* gen_vertex_order_csr.  Rule r of the code is row n + r here.  s holds   *)
(* the variables of the call: graph and graphT (rows by number, and the    *)
(* rows that mention each row), depth (the order of every row), m_depth    *)
(* (the level being judged), depth_count (entries of the rules of each     *)
(* level) and flag (the rules that are merged).                            *)
(***************************************************************************)
EXTENDS VertexOrder, Expansion

Rules(s, n) == {x \in DOMAIN s.graph : x >= n}

(* The entries of the rules of level d that are not in merged.             *)
LevelSize(g, n, depth, merged, d) ==
    MapThenSumSet(LAMBDA x : Len(g[x]), {x \in DOMAIN g \ merged : x >= n /\ depth[x] = d})

(* Mutant: a row is noted once, however often it mentions x.               *)
MentionersOnce(rows, x) ==
    SelectSeq([v \in 1 .. Len(rows) |-> v - 1], LAMBDA v : Contains(rows[v + 1], x))

(* csr_convert_idx: for every row the rows that mention it, once for each  *)
(* mention.                                                                *)
Mentioners(rows, x) ==
    FlattenSeq([v \in 1 .. Len(rows) |-> [k \in 1 .. Count(rows[v], x) |-> v - 1]])

DepthStart(rows, n) ==
    LET graph == [x \in RowIds(rows) |-> rows[x + 1]]
        result == gen_vertex_order_csr(rows, n)
    IN  [graph |-> graph, graphT |-> [x \in RowIds(rows) |-> Mentioners(rows, x)],
         depth |-> result.order, m_depth |-> result.depth,
         depth_count |-> [d \in 0 .. result.depth |-> LevelSize(graph, n, result.order, {}, d)],
         flag |-> {}]
-----------------------------------------------------------------------------
(* erase(find(x)) and insert(part): find() has to find x.                  *)
Spliced(row, x, part) ==
    LET p == SelectInSeq(row, LAMBDA y : y = x)
    IN  SubSeq(row, 1, p - 1) \o part \o SubSeq(row, p + 1, Len(row))

(* The row of the rule takes the place of a mention in each row that       *)
(* mentions it, ...                                                        *)
Parents(g, gT, ID) ==
    FoldLeft(LAMBDA h, node : [h EXCEPT ![node] = Spliced(@, ID, g[ID])], g, gT[ID])

(* ... which then mention its entries directly.                            *)
Children(g, gT, ID) ==
    FoldLeft(LAMBDA h, child : [h EXCEPT ![child] = Spliced(@, ID, gT[ID])], gT, g[ID])

mergeRule(m, ID) == [graph |-> Parents(m.graph, m.graphT, ID),
                     graphT |-> Children(m.graph, m.graphT, ID)]

(* Mutant: the entries are not counted again after a level was merged.     *)
RecountNot(s, n, g, merged, top) == s.depth_count

(* The counts after a merge; those of levels above top are added to and    *)
(* never read again.                                                       *)
Recount(s, n, g, merged, top) ==
    [d \in DOMAIN s.depth_count |->
        (IF d <= top THEN 0 ELSE s.depth_count[d]) + LevelSize(g, n, s.depth, merged, d)]

LevelsLeft(s, max_depth) == s.m_depth >= max_depth
LevelSmall(s, min_edge) == s.depth_count[s.m_depth] < min_edge

KeepLevel(s) == [s EXCEPT !.m_depth = @ - 1]

(* The rules of the level one after the other, by number.                  *)
MergeLevel(s, n) ==
    LET level == {x \in Rules(s, n) : s.depth[x] = s.m_depth}
        m == FoldLeft(mergeRule, [graph |-> s.graph, graphT |-> s.graphT],
                      SetToSortSeq(level, <))
        merged == s.flag \cup level
    IN  [s EXCEPT !.graph = m.graph, !.graphT = m.graphT, !.flag = merged,
                  !.m_depth = @ - 1,
                  !.depth_count = Recount(s, n, m.graph, merged, s.m_depth - 1)]

(* genNewIdForRule: the rules that are left get the numbers from n on.     *)
newRuleId(s, n, x) == IF x < n THEN x ELSE n + Cardinality({y \in Rules(s, n) \ s.flag : y < x})

genNewGraphCSR(s, n) ==
    LET left == SetToSortSeq(DOMAIN s.graph \ s.flag, <)
    IN  FromRows([k \in 1 .. Len(left) |->
            [e \in 1 .. Len(s.graph[left[k]]) |-> newRuleId(s, n, s.graph[left[k]][e])]])
=============================================================================
