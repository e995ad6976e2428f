---------------------------- MODULE GraphConvert ----------------------------
(***************************************************************************)
(* convert.h, add_self_loop.h and coo_convert of util.h.  A graph in COO   *)
(* form is a pair of sequences src and dst, one entry per edge.            *)
(***************************************************************************)
EXTENDS VertexOrder, SequencesExt

csr2coo(vlist, elist) ==
    [src |-> [e \in 1 .. Len(elist) |-> CHOOSE v \in 0 .. RowCount(vlist) - 1 :
                                            vlist[v + 1] < e /\ e <= vlist[v + 2]],
     dst |-> elist]

(* Mutant: the offset of a row that is reached is written one edge late.   *)
SkipLate(c, v) == [c EXCEPT !.vlist = @ \o [x \in 1 .. v - c.cur_v |-> c.e_size + 1],
                            !.cur_v = v]

(* while (cur_v != v) vlist_ptr[++cur_v] = e_size: the rows up to v start  *)
(* where the edges copied so far end.                                      *)
Skip(c, v) == [c EXCEPT !.vlist = @ \o [x \in 1 .. v - c.cur_v |-> c.e_size], !.cur_v = v]

(* For edges in the order of their sources.                                *)
coo2csr(src, dst, vertex_cnt) ==
    LET Copy(c, v) == [Skip(c, v) EXCEPT !.e_size = @ + 1]
        copied == FoldLeft(Copy, [vlist |-> <<0>>, cur_v |-> 0, e_size |-> 0], src)
    IN  [vlist |-> Skip(copied, vertex_cnt).vlist, elist |-> dst]
-----------------------------------------------------------------------------
(* The length of the longest prefix of s in which every entry passes.      *)
PrefixLen(s, Test(_)) ==
    CHOOSE k \in 0 .. Len(s) :
        /\ \A p \in 1 .. k : Test(s[p])
        /\ k < Len(s) => ~Test(s[k + 1])

WithSelfLoop(row, vid) ==
    LET k == PrefixLen(row, LAMBDA x : x < vid)
        Low == SubSeq(row, 1, k)
        rest == SubSeq(row, k + 1, Len(row))
    IN  Low \o (IF rest = <<>> \/ Head(rest) # vid THEN <<vid>> ELSE <<>>) \o rest

(* The rows of the new graph.                                              *)
add_self_loop_csr(rows) == [v \in 1 .. Len(rows) |-> WithSelfLoop(rows[v], v - 1)]

(* The loop reads src and dst at edge_cnt, one entry past their end, after *)
(* the last edge: edges holds the edges with what the memory behind them   *)
(* holds.  in.eid is the number of entries taken, in.out the new edges.    *)
SelfLoopOf(edges, edge_cnt, vid, in) ==
    LET left == SubSeq(edges, in.eid + 1, Len(edges))
        mine == PrefixLen(left, LAMBDA e : e.src = vid)
        k == PrefixLen(SubSeq(left, 1, mine), LAMBDA e : e.dst < vid)
        loop == [src |-> vid, dst |-> vid]
    IN  IF in.eid >= edge_cnt THEN [in EXCEPT !.out = Append(@, loop)]
        ELSE [eid |-> in.eid + mine,
              out |-> in.out \o SubSeq(left, 1, k)
                        \o (IF k < mine /\ left[k + 1] = loop THEN <<>> ELSE <<loop>>)
                        \o SubSeq(left, k + 1, mine)]

add_self_loop_coo(src, dst, vertex_cnt, beyond) ==
    LET edges == [e \in 1 .. Len(src) |-> [src |-> src[e], dst |-> dst[e]]] \o beyond
        before[v \in 0 .. vertex_cnt] ==
            IF v = 0 THEN [eid |-> 0, out |-> <<>>]
            ELSE SelfLoopOf(edges, Len(src), v - 1, before[v - 1])
    IN  before[vertex_cnt].out
-----------------------------------------------------------------------------
(* coo_convert: num_thread blocks of edges, gathered apart and appended    *)
(* to the rows of the graph under a lock, in any order.                    *)
BlockSize(edge_cnt, num_thread) == (edge_cnt + num_thread - 1) \div num_thread

(* Mutant: a block goes on to the first edge of the next one.              *)
BlockFar(t, edge_cnt, num_thread) ==
    LET block_size == BlockSize(edge_cnt, num_thread)
    IN  {e \in 0 .. edge_cnt - 1 : t * block_size <= e /\ e <= (t + 1) * block_size}

Block(t, edge_cnt, num_thread) ==
    LET block_size == BlockSize(edge_cnt, num_thread)
    IN  {e \in 0 .. edge_cnt - 1 : t * block_size <= e /\ e < (t + 1) * block_size}

(* local_graph of thread t.                                                *)
LocalRow(src, dst, t, num_thread, v) ==
    LET block == Block(t, Len(src), num_thread)
        mine == SelectSeq([k \in 1 .. Len(src) |-> k], LAMBDA k : k - 1 \in block /\ src[k] = v)
    IN  [k \in 1 .. Len(mine) |-> dst[mine[k]]]

(* What thread t does while it holds mtx.                                  *)
AppendLocal(graph, src, dst, t, num_thread) ==
    [v \in DOMAIN graph |-> graph[v] \o LocalRow(src, dst, t, num_thread, v - 1)]
=============================================================================
