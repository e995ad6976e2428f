------------------------------ MODULE GcnNorm ------------------------------
(***************************************************************************)
(* norm.h: the edge weights of a graph convolution.  The code multiplies   *)
(* factors 1 / sqrt(in-degree + 1e-6); here a factor is the in-degree it   *)
(* comes from and a weight the sequence of the factors that are multiplied *)
(* (1 is the empty one), so that no rounding has to be modelled.           *)
(*                                                                         *)
(* Three of the functions are OpenMP loops.  Only the loop variable is     *)
(* private to a thread; start, end, eid, dst, src_node and dst_node are    *)
(* declared outside and shared, which is a data race.  What becomes of it  *)
(* is up to the compiler: code made with -O3 (setup.py) keeps them in      *)
(* registers, so that each thread has a copy of its own, code that keeps   *)
(* them in memory has one copy.  s holds each variable by copy and the     *)
(* threads take one statement at a time, so that both can be modelled.     *)
(***************************************************************************)
EXTENDS VertexOrder

get_norm_degree(dst, vertex_cnt) == [v \in 0 .. vertex_cnt - 1 |-> Count(dst, v)]

gcn_norm_coo(src, dst, deg) == [e \in 1 .. Len(src) |-> <<deg[src[e]], deg[dst[e]]>>]

(* Mutant: a rule keeps the factor of the row before it.                   *)
FactorAlways(x, deg, vertex_cnt) == <<deg[IF x < vertex_cnt THEN x ELSE vertex_cnt - 1]>>

(* An end of an edge that is a rule contributes nothing.                   *)
Factor(x, deg, vertex_cnt) == IF x < vertex_cnt THEN <<deg[x]>> ELSE <<>>

(* Which of the four ifs of the compress functions is for this edge.       *)
Case(src, dst, vertex_cnt) ==
    1 + (IF src < vertex_cnt THEN 0 ELSE 2) + (IF dst < vertex_cnt THEN 0 ELSE 1)
-----------------------------------------------------------------------------
(* The static schedule of libgomp: thread t has the iterations from        *)
(* First(t) up to First(t + 1), and the first ones have one more when they *)
(* cannot be shared out evenly.                                            *)
First(t, iterations, team) ==
    t * (iterations \div team) + Min({t, iterations % team})

Unset == <<-1>>  \* a weight that was not written

NormStart(iterations, edge_cnt, team) ==
    LET T == 0 .. team - 1
        none == [t \in T |-> 0]
    IN  [at |-> [t \in T |-> "begin"],
         i |-> [t \in T |-> First(t, iterations, team)],
         stop |-> [t \in T |-> First(t + 1, iterations, team)],
         test |-> [t \in T |-> 1],
         start |-> none, end |-> none, eid |-> none, src_node |-> none, dst |-> none,
         edge_weight |-> [e \in 1 .. edge_cnt |-> Unset], overlapped |-> FALSE]

Threads(s) == DOMAIN s.at
Inside(s, t) == s.at[t] \notin {"begin", "over"}
NormOver(s) == \A t \in Threads(s) : s.at[t] = "over"

(* Thread t begins an iteration with statement at.                         *)
Begins(s, t, at) ==
    [s EXCEPT !.at[t] = at, !.test[t] = 1,
              !.overlapped = @ \/ \E u \in Threads(s) \ {t} : Inside(s, u)]

(* One of the tests ifs that write the weight of edge e.                   *)
Writes(s, t, e, src, dst, deg, vertex_cnt, tests, after) ==
    [s EXCEPT !.edge_weight[e + 1] =
                  IF tests = 1 \/ Case(src, dst, vertex_cnt) = s.test[t]
                  THEN Factor(src, deg, vertex_cnt) \o Factor(dst, deg, vertex_cnt) ELSE @,
              !.test[t] = IF @ = tests THEN 1 ELSE @ + 1,
              !.at[t] = IF s.test[t] = tests THEN after ELSE @]

(* Thread t, with copy c of the shared variables, goes through the edges   *)
(* of row i.                                                               *)
RowStatement(s, t, c, vlist, elist, deg, vertex_cnt, tests) ==
    CASE s.at[t] = "begin" /\ s.i[t] = s.stop[t] -> [s EXCEPT !.at[t] = "over"]
      [] s.at[t] = "begin" /\ s.i[t] # s.stop[t] ->
            [Begins(s, t, "end") EXCEPT !.start[c] = vlist[s.i[t] + 1]]
      [] s.at[t] = "end" -> [s EXCEPT !.end[c] = vlist[s.i[t] + 2], !.at[t] = "first"]
      [] s.at[t] = "first" -> [s EXCEPT !.eid[c] = s.start[c], !.at[t] = "while"]
      [] s.at[t] = "while" /\ s.eid[c] < s.end[c] -> [s EXCEPT !.at[t] = "load"]
      [] s.at[t] = "while" /\ s.eid[c] >= s.end[c] ->
            [s EXCEPT !.i[t] = @ + 1, !.at[t] = "begin"]
      [] s.at[t] = "load" -> [s EXCEPT !.dst[c] = elist[s.eid[c] + 1], !.at[t] = "write"]
      [] s.at[t] = "write" ->
            Writes(s, t, s.eid[c], s.i[t], s.dst[c], deg, vertex_cnt, tests, "next")
      [] s.at[t] = "next" -> [s EXCEPT !.eid[c] = @ + 1, !.at[t] = "while"]

gcn_norm_csr(s, t, c, vlist, elist, deg, vertex_cnt) ==
    RowStatement(s, t, c, vlist, elist, deg, vertex_cnt, 1)

gcn_norm_csr_compress(s, t, c, vlist, elist, deg, vertex_cnt) ==
    RowStatement(s, t, c, vlist, elist, deg, vertex_cnt, 4)

(* Thread t works on edge i.                                               *)
gcn_norm_coo_compress(s, t, c, src, dst, deg, vertex_cnt) ==
    CASE s.at[t] = "begin" /\ s.i[t] = s.stop[t] -> [s EXCEPT !.at[t] = "over"]
      [] s.at[t] = "begin" /\ s.i[t] # s.stop[t] ->
            [Begins(s, t, "load") EXCEPT !.src_node[c] = src[s.i[t] + 1]]
      [] s.at[t] = "load" -> [s EXCEPT !.dst[c] = dst[s.i[t] + 1], !.at[t] = "write"]
      [] s.at[t] = "write" ->
            Writes(s, t, s.i[t], s.src_node[c], s.dst[c], deg, vertex_cnt, 4, "next")
      [] s.at[t] = "next" -> [s EXCEPT !.i[t] = @ + 1, !.at[t] = "begin"]

(* The next statement of t would read elist or write edge_weight behind    *)
(* their end: another thread has moved the eid they share since t compared *)
(* it with end.                                                            *)
OutOfBounds(s, t, c) ==
    s.at[t] \in {"load", "write"} /\ s.eid[c] >= Len(s.edge_weight)
=============================================================================
