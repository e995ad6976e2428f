------------------------------ MODULE Checker ------------------------------
(***************************************************************************)
(* check.h, which both packages have: a compressed graph is right when     *)
(* every vertex has the same neighbours after its rules are expanded with  *)
(* a stack.  Graphs are sequences of rows, row x at rows[x + 1].           *)
(***************************************************************************)
EXTENDS Integers, Sequences, TLC

RECURSIVE push_successors(_, _, _, _)

(* Pops a rule, appends its vertices to result and pushes its rules, until *)
(* the stack PQ (top last) is empty.                                       *)
push_successors(result, cg, PQ, vertex_cnt) ==
    IF PQ = <<>> THEN result
    ELSE LET row == cg[PQ[Len(PQ)] + 1]
         IN  push_successors(result \o SelectSeq(row, LAMBDA x : x < vertex_cnt), cg,
                 SubSeq(PQ, 1, Len(PQ) - 1) \o SelectSeq(row, LAMBDA x : x >= vertex_cnt),
                 vertex_cnt)

(* The entries of a vertex from left to right, each rule expanded at once. *)
get_compress_successors(cg, vertexID, vertex_cnt) ==
    LET row == cg[vertexID + 1]
        upto[k \in 0 .. Len(row)] ==
            IF k = 0 THEN <<>>
            ELSE IF row[k] < vertex_cnt THEN Append(upto[k - 1], row[k])
            ELSE push_successors(upto[k - 1], cg, <<row[k]>>, vertex_cnt)
    IN  upto[Len(row)]

compare(a, b) == SortSeq(a, <) = SortSeq(b, <)

(* The loop over the vertices, which returns at the first difference.      *)
SameNeighbors(graph, cg, vertex_cnt) ==
    \A v \in 0 .. vertex_cnt - 1 :
        compare(graph[v + 1], get_compress_successors(cg, v, vertex_cnt))
=============================================================================
