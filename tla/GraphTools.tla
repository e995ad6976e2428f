----------------------------- MODULE GraphTools -----------------------------
(***************************************************************************)
(* One call of a function of the serial package's Python module            *)
(* (function.cpp) on a compressed graph: orders and masks, fusion, the     *)
(* depth filter, edge weights, splicing, conversions, self loops and the   *)
(* checker.  Loops whose end is not given by an index are taken one round  *)
(* at a time, the threads of coo_convert one block and those of gcn_norm   *)
(* one statement at a time; the rest of a call is one step.                *)
(***************************************************************************)
EXTENDS Fusion, DepthFilter, GraphConvert, GcnNorm, Splice, Checker

CONSTANTS
    vertex_cnt,
    Graphs,          \* compressed graphs, as sequences of rows
    Candidates(_),   \* plain graphs to check a compressed one against
    NumPs,           \* values of num_p
    MaxDepths,       \* values of max_depth and of min_edge
    MinEdges,
    Teams(_),        \* how gcn_norm may run on a graph: [team, kept] with the
                     \* number of threads and where shared variables are kept
    Indexes,         \* sets of rows to splice
    Beyond,          \* what may lie in memory behind a list of edges
    num_thread

(* Rules mention older rules, and every rule is mentioned: a rule that no  *)
(* vertex reaches is never ordered.  The serial compressor makes none.     *)
ASSUME EveryRuleReached == \A g \in Graphs : \A x \in RuleIds(g, vertex_cnt) :
    /\ \A p \in 1 .. Len(g[x + 1]) : g[x + 1][p] \in 0 .. x - 1
    /\ \E v \in RowIds(g) : Contains(g[v + 1], x)

VARIABLES
    call,            \* the function called and its further argument
    rows, cg,        \* the compressed graph it is called with: its rows, as CSR
    plain,           \* the graph that was compressed, as CSR
    pc,              \* "called", "loop", "done"; "aborted", "crashed"
    s,               \* the variables of a loop
    result

args == <<call, rows, cg, plain>>
vars == <<call, rows, cg, plain, pc, s, result>>

ccoo == csr2coo(cg.vlist, cg.elist)
coo == csr2coo(plain.vlist, plain.elist)
deg == get_norm_degree(plain.elist, vertex_cnt)
weight == [e \in 1 .. Len(cg.elist) |-> e]  \* any weights that tell the edges apart
rule_cnt == Len(rows) - vertex_cnt

Splices == {"splice_csr", "condense_row", "condense_col", "condense_row_and_col",
            "get_active_row_and_col", "get_out_degree"}
Formats == {"csr2coo", "coo2csr", "add_self_loop_csr", "gcn_norm_coo"}
Norms == {"gcn_norm_csr", "gcn_norm_coo_compress", "gcn_norm_csr_compress"}

CallsOf(g) ==
    [tool : {"gen_mask_vertex"}, arg : [graph_type : {"csr", "csc"}, NDEBUG : BOOLEAN]]
    \cup [tool : {"gen_mask_edge"} \cup Formats, arg : {"none"}]
    \cup [tool : {"add_self_loop_coo"}, arg : Beyond]
    \cup [tool : {"fusion_mask_csr", "fusion_mask_coo"}, arg : NumPs]
    \cup [tool : {"depth_filter_csr"}, arg : [max_depth : MaxDepths, min_edge : MinEdges]]
    \cup [tool : Norms, arg : Teams(g)]
    \cup [tool : {"check_csr", "check_coo"}, arg : Candidates(g)]
    \cup [tool : Splices, arg : {i \in Indexes : i \subseteq RowIds(g)}]

Init ==
    /\ rows \in Graphs
    /\ cg = FromRows(rows) /\ plain = FromRows(Decompress(rows, vertex_cnt))
    /\ call \in CallsOf(rows)
    /\ pc = "called" /\ s = <<>> /\ result = <<>>

(* A call of tool that is over in one step.                                *)
Returns(tool, value) ==
    /\ pc = "called" /\ call.tool = tool
    /\ pc' = "done" /\ result' = value
    /\ UNCHANGED <<args, s>>

Enter(tool, locals) ==
    /\ pc = "called" /\ call.tool = tool
    /\ pc' = "loop" /\ s' = locals
    /\ UNCHANGED <<args, result>>

Again(tool, condition, locals) ==
    /\ pc = "loop" /\ call.tool = tool /\ condition
    /\ s' = locals
    /\ UNCHANGED <<args, pc, result>>

Leave(tool, condition, value) ==
    /\ pc = "loop" /\ call.tool = tool /\ condition
    /\ pc' = "done" /\ result' = value
    /\ UNCHANGED <<args, s>>

(* A call of tool that does not return.                                    *)
Ends(tool, condition, how) ==
    /\ pc \in {"called", "loop"} /\ call.tool = tool /\ condition
    /\ pc' = how
    /\ UNCHANGED <<args, s, result>>
-----------------------------------------------------------------------------
(* assert() does nothing when NDEBUG is defined.                           *)
AssertPasses == call.arg.NDEBUG \/ GraphTypeAsserted(call.arg.graph_type)

Masks ==
    \/ Ends("gen_mask_vertex", ~AssertPasses, "aborted")
    \/ /\ Returns("gen_mask_vertex", gen_mask_vertex(rows, vertex_cnt, call.arg.graph_type))
       /\ AssertPasses
    \/ Enter("gen_mask_edge", EdgeOrderStart(ccoo.src, ccoo.dst, vertex_cnt, rule_cnt))
    \/ Again("gen_mask_edge", EdgesLeft(s), EdgeOrderRound(ccoo.src, ccoo.dst, vertex_cnt, s))
    \/ Leave("gen_mask_edge", ~EdgesLeft(s), gen_mask_edge(s))

Fuse ==
    \E tool \in {"fusion_mask_csr", "fusion_mask_coo"} :
        \/ Enter(tool, FusionStart(rows, call.arg))
        \/ Again(tool, FusionUnfinished(rows, call.arg, s),
                 FusionStep(rows, vertex_cnt, call.arg, s))
        \/ Leave(tool, ~FusionUnfinished(rows, call.arg, s),
                 IF tool = "fusion_mask_csr" THEN fusion_mask_csr(rows, s)
                 ELSE fusion_mask_coo(rows, cg.vlist, s))

Filter ==
    LET tool == "depth_filter_csr"
    IN
    \/ Enter(tool, DepthStart(rows, vertex_cnt))
    \/ Again(tool, LevelsLeft(s, call.arg.max_depth) /\ ~LevelSmall(s, call.arg.min_edge),
             KeepLevel(s))
    \/ Again(tool, LevelsLeft(s, call.arg.max_depth) /\ LevelSmall(s, call.arg.min_edge),
             MergeLevel(s, vertex_cnt))
    \/ Leave(tool, ~LevelsLeft(s, call.arg.max_depth), genNewGraphCSR(s, vertex_cnt))

Convert ==
    \/ Returns("csr2coo", csr2coo(plain.vlist, plain.elist))
    \/ Returns("coo2csr", coo2csr(coo.src, coo.dst, vertex_cnt))
    \/ Returns("add_self_loop_csr", FromRows(add_self_loop_csr(Rows(plain.vlist, plain.elist))))
    \/ Returns("add_self_loop_coo", add_self_loop_coo(coo.src, coo.dst, vertex_cnt, call.arg))

(* The copy of the shared variables that thread t works with.              *)
Copy(t) == IF call.arg.kept = "registers" THEN t ELSE 0

Statement(t) ==
    CASE call.tool = "gcn_norm_csr" ->
            gcn_norm_csr(s, t, Copy(t), plain.vlist, plain.elist, deg, vertex_cnt)
      [] call.tool = "gcn_norm_csr_compress" ->
            gcn_norm_csr_compress(s, t, Copy(t), cg.vlist, cg.elist, deg, vertex_cnt)
      [] call.tool = "gcn_norm_coo_compress" ->
            gcn_norm_coo_compress(s, t, Copy(t), ccoo.src, ccoo.dst, deg, vertex_cnt)

Normalize ==
    \/ Returns("gcn_norm_coo", gcn_norm_coo(coo.src, coo.dst, deg))
    \/ Enter("gcn_norm_csr", NormStart(vertex_cnt, Len(plain.elist), call.arg.team))
    \/ Enter("gcn_norm_csr_compress", NormStart(Len(rows), Len(cg.elist), call.arg.team))
    \/ Enter("gcn_norm_coo_compress", NormStart(Len(ccoo.src), Len(ccoo.src), call.arg.team))
    \/ \E tool \in Norms :
          \/ /\ pc = "loop" /\ call.tool = tool
             /\ \E t \in Threads(s) :
                   \/ Again(tool, s.at[t] # "over" /\ ~OutOfBounds(s, t, Copy(t)), Statement(t))
                   \/ Ends(tool, OutOfBounds(s, t, Copy(t)), "crashed")
          \/ Leave(tool, NormOver(s), s.edge_weight)

Cut ==
    \/ Returns("splice_csr", splice_csr(cg.vlist, cg.elist, weight, call.arg))
    \/ Returns("condense_row", splice_csr_condense_row(cg.vlist, cg.elist, weight, call.arg))
    \/ Returns("condense_col", splice_csr_condense_col(cg.vlist, cg.elist, weight, call.arg))
    \/ Returns("condense_row_and_col",
               splice_csr_condense_row_and_col(cg.vlist, cg.elist, weight, call.arg))
    \/ Returns("get_active_row_and_col", get_active_row_and_col(cg.vlist, cg.elist, call.arg))
    \/ Returns("get_out_degree", get_out_degree(cg.vlist, active_vertex(cg.vlist, call.arg)))
-----------------------------------------------------------------------------
(* check_coo converts first the plain graph, then the compressed one; the  *)
(* blocks that are not yet appended are in s.todo.                         *)
Given == csr2coo(FromRows(call.arg).vlist, FromRows(call.arg).elist)
Empty(n) == [v \in 1 .. n |-> <<>>]
Blocks == 0 .. num_thread - 1

check_csr ==
    Returns("check_csr", SameNeighbors(call.arg, rows, vertex_cnt))

check_coo ==
    \/ Enter("check_coo", [graph |-> Empty(vertex_cnt), compressed_graph |-> Empty(Len(rows)),
                           todo |-> Blocks, ctodo |-> Blocks])
    \/ \E t \in Blocks :
          \/ Again("check_coo", t \in s.todo,
                   [s EXCEPT !.graph = AppendLocal(@, Given.src, Given.dst, t, num_thread),
                             !.todo = @ \ {t}])
          \/ Again("check_coo", s.todo = {} /\ t \in s.ctodo,
                   [s EXCEPT !.compressed_graph =
                                 AppendLocal(@, ccoo.src, ccoo.dst, t, num_thread),
                             !.ctodo = @ \ {t}])
    \/ Leave("check_coo", s.todo = {} /\ s.ctodo = {},
             SameNeighbors(s.graph, s.compressed_graph, vertex_cnt))

Terminated == pc \in {"done", "aborted", "crashed"} /\ UNCHANGED vars

Next == Masks \/ Fuse \/ Filter \/ Convert \/ Normalize \/ Cut \/ check_csr \/ check_coo \/ Terminated

Spec == Init /\ [][Next]_vars
-----------------------------------------------------------------------------
(* Properties.                                                             *)

Done(tools) == pc = "done" /\ call.tool \in tools
Mentions(x, y) == Contains(rows[x + 1], y)

(* The round in which x is.                                                *)
RoundOf(mask, x) == CHOOSE d \in DOMAIN mask : x \in mask[d]
EachOnce(mask, X) == \A x \in X : Cardinality({d \in DOMAIN mask : x \in mask[d]}) = 1

(* The masks of gen_mask_vertex and gen_mask_edge select every row, or     *)
(* every edge, in exactly one round; a rule comes in the round after the   *)
(* last row that mentions it (csr), after every rule that mentions it and  *)
(* before the vertices (csc), and an edge that leaves a rule after every   *)
(* edge that enters it.  gen_mask_vertex returns only where its assertion  *)
(* is not compiled in.                                                     *)
OrderFollowsMentions ==
    /\ Done({"gen_mask_vertex"}) =>
          /\ EachOnce(result, RowIds(rows))
          /\ \A y \in RuleIds(rows, vertex_cnt) :
                IF call.arg.graph_type = "csr"
                THEN RoundOf(result, y) =
                        1 + Max({RoundOf(result, x) : x \in {z \in RowIds(rows) : Mentions(z, y)}})
                ELSE /\ \A x \in RuleIds(rows, vertex_cnt) :
                           Mentions(x, y) => RoundOf(result, x) < RoundOf(result, y)
                     /\ \A v \in 0 .. vertex_cnt - 1 : RoundOf(result, y) < RoundOf(result, v)
    /\ Done({"gen_mask_edge"}) =>
          /\ EachOnce(result, DOMAIN ccoo.src)
          /\ \A e, f \in DOMAIN ccoo.src :
                ccoo.dst[e] = ccoo.src[f] /\ ccoo.src[f] >= vertex_cnt =>
                    RoundOf(result, e) < RoundOf(result, f)

(* fusion.h: every row makes each of its num_p propagations once and in    *)
(* order, every entry is sent along num_p times, and a rule passes a       *)
(* propagation on only after every row that mentions it has made it, even  *)
(* though later propagations overlap with earlier ones.                    *)
FusionOrdered ==
    Done({"fusion_mask_csr", "fusion_mask_coo"}) =>
        /\ \A x \in (IF call.tool = "fusion_mask_csr" THEN RowIds(rows)
                     ELSE 0 .. Len(cg.elist) - 1) :
              Cardinality({d \in DOMAIN result : x \in result[d]}) = call.arg
        /\ \A p \in DOMAIN s.order : \A x \in RowIds(rows) :
              /\ p > 0 => s.order[p - 1][x] < s.order[p][x]
              /\ \A y \in RuleIds(rows, vertex_cnt) :
                    Mentions(x, y) => s.order[p][x] < s.order[p][y]

(* What gcn_norm gives an edge, for each edge of the plain graph: the      *)
(* product of the weights on the path of rules that stands for it.         *)
PathWeights(vlist, elist, w) ==
    LET of[d \in 0 .. rule_cnt] == [e \in 1 .. Len(elist) |->
            IF elist[e] < vertex_cnt \/ d = 0 THEN <<w[e]>>
            ELSE FlattenSeq([k \in 1 .. Len(rows[elist[e] + 1]) |->
                     LET rest == of[d - 1][vlist[elist[e] + 1] + k]
                     IN  [q \in 1 .. Len(rest) |-> w[e] \o rest[q]]])]
    IN  FlattenSeq([e \in 1 .. vlist[vertex_cnt + 1] |-> of[rule_cnt][e]])

(* Each thread works with variables of its own, or no thread began an      *)
(* iteration while another was inside one.                                 *)
Undisturbed == call.arg.kept = "registers" \/ ~s.overlapped

(* Normalising and compressing commute: gcn_norm_csr gives the weights of  *)
(* the sequential gcn_norm_coo, and along the rules that stand for an edge *)
(* of the plain graph, the weights the two compress functions give         *)
(* multiply to the weight of that edge, however the threads of the OpenMP  *)
(* loops interleave, as long as the variables they share do not disturb    *)
(* them.                                                                   *)
WeightsMultiply ==
    /\ Done(Norms) /\ Undisturbed =>
          (IF call.tool = "gcn_norm_csr" THEN result
           ELSE PathWeights(cg.vlist, cg.elist, result)) = gcn_norm_coo(coo.src, coo.dst, deg)
    /\ pc = "crashed" => ~Undisturbed

(* The memory behind the edges that looks like more edges of the last      *)
(* source; it does no harm when it is just the loop that has to be added   *)
(* after all edges of that source.                                         *)
ReadBeyond == IF coo.src = <<>> THEN <<>>
              ELSE SubSeq(call.arg, 1, PrefixLen(call.arg, LAMBDA e : e.src = Last(coo.src)))
Harmless ==
    \/ ReadBeyond = <<>>
    \/ LET v == Last(coo.src)
       IN  /\ ReadBeyond = <<[src |-> v, dst |-> v]>>
           /\ \A e \in DOMAIN coo.src : coo.src[e] = v => coo.dst[e] < v

(* The functions that exist for both formats agree on the same graph, and  *)
(* the two conversions are inverse to each other.  add_self_loop_coo reads *)
(* past its input: every entry it finds there with the number of the last  *)
(* source becomes an edge of the result, unless it is taken for the loop   *)
(* that was missing, so the result is right exactly when ReadBeyond is     *)
(* harmless.                                                               *)
FormatsAgree ==
    /\ Done({"csr2coo"}) => coo2csr(result.src, result.dst, vertex_cnt) = plain
    /\ Done({"coo2csr"}) => result = plain
    /\ Done({"add_self_loop_csr"}) =>
          LET looped == csr2coo(result.vlist, result.elist)
          IN  add_self_loop_coo(coo.src, coo.dst, vertex_cnt, <<>>)
                = [e \in DOMAIN looped.src |-> [src |-> looped.src[e], dst |-> looped.dst[e]]]
    /\ Done({"add_self_loop_coo"}) =>
          /\ Harmless <=> result = add_self_loop_coo(coo.src, coo.dst, vertex_cnt, <<>>)
          /\ \A v \in 0 .. vertex_cnt - 1 : Contains(result, [src |-> v, dst |-> v])
    /\ Done({"gen_mask_edge"}) =>
          \A e \in DOMAIN ccoo.src :
              RoundOf(result, e) = gen_vertex_order_csr(rows, vertex_cnt).order[ccoo.src[e]]

(* The rows, columns and counts of a spliced part, in terms of the graph.  *)
PartRows == IF "active_row" \in DOMAIN result THEN result.active_row
            ELSE [k \in 1 .. Len(rows) |-> k - 1]
PartColumn(x) == IF "active_col" \in DOMAIN result THEN result.active_col[x + 1] ELSE x

(* splice.h: whatever is condensed, row k of the part is the row it stands *)
(* for, with its weights, once columns are translated back; rows that are  *)
(* not selected are empty; no column has two numbers.  The counts of       *)
(* get_part_graph_info.h are the sizes of the condensed part.              *)
SplicedRowsDecode ==
    LET part == splice_csr_condense_row_and_col(cg.vlist, cg.elist, weight, call.arg)
    IN
    /\ Done({"splice_csr", "condense_row", "condense_col", "condense_row_and_col"}) =>
          /\ RowCount(result.vlist) = Len(PartRows)
          /\ \A k \in 1 .. Len(PartRows) :
                LET entries == IF PartRows[k] \in call.arg
                               THEN EntriesOf(cg.vlist, PartRows[k]) ELSE <<>>
                    mine == Row(result.vlist, result.elist, k - 1)
                IN  /\ [e \in DOMAIN mine |-> PartColumn(mine[e])] = At(cg.elist, entries)
                    /\ Row(result.vlist, result.weight, k - 1) = At(weight, entries)
          /\ "active_col" \in DOMAIN result => IsInjective(result.active_col)
    /\ Done({"get_active_row_and_col"}) =>
          result = <<Len(part.active_row), Len(part.active_col)>>
    /\ Done({"get_out_degree"}) => result = Len(part.elist)

(* check_csr and check_coo accept a compressed graph exactly when every    *)
(* vertex has the same neighbours, each as often, in whatever order the    *)
(* threads of coo_convert append their blocks.                             *)
CheckExact ==
    Done({"check_csr", "check_coo"}) =>
        (result <=> \A v \in 1 .. vertex_cnt : \A x \in 0 .. vertex_cnt - 1 :
                        Count(call.arg[v], x) = Count(Decompress(rows, vertex_cnt)[v], x))

(* depth_filter_csr: the new graph stands for the same neighbours as the   *)
(* argument, whichever levels were merged and whichever were kept below or *)
(* above them.                                                             *)
DepthFilterLossless ==
    Done({"depth_filter_csr"}) =>
        /\ IsCSR(result.vlist, result.elist)
        /\ FromRows(Decompress(Rows(result.vlist, result.elist), vertex_cnt)) = plain

(* A level from max_depth on is merged exactly when its rules have fewer   *)
(* than min_edge entries in the end: merging deeper levels lengthens them, *)
(* and the counts the decisions are made on have to follow.  When every    *)
(* such level is merged, rules nest less than max_depth deep.              *)
LevelsJudgedLast ==
    Done({"depth_filter_csr"}) =>
        LET rules == RuleIds(rows, vertex_cnt)
            levels == {d \in {s.depth[x] : x \in rules} : d >= call.arg.max_depth}
        IN  /\ \A x \in rules : x \in s.flag <=>
                  /\ s.depth[x] \in levels
                  /\ LevelSize(s.graph, vertex_cnt, s.depth, {}, s.depth[x]) < call.arg.min_edge
            /\ (\A x \in rules : s.depth[x] \in levels => x \in s.flag) =>
                  gen_vertex_order_csr(Rows(result.vlist, result.elist), vertex_cnt).depth
                    <= Max({1, call.arg.max_depth})

(* The two while loops that run until a count is reached come closer to it *)
(* in every round, whatever the graph: gen_edge_order always finds an edge *)
(* whose rule is ready, gen_fusion_vertex_order a row that may go on.  So  *)
(* both end.                                                               *)
LoopsProgress ==
    [][pc = "loop" /\ pc' = "loop" =>
         /\ call.tool = "gen_mask_edge" =>
               \E e \in DOMAIN s.order : s.order[e] = INIT /\ s'.order[e] # INIT
         /\ call.tool \in {"fusion_mask_csr", "fusion_mask_coo"} =>
               s'.active_count > s.active_count]_vars

(* gen_mask.h asserts that graph_type is neither "csc" nor "csr", and goes *)
(* on to handle exactly these two: where assertions are compiled in, no    *)
(* call for a mask fails its assertion.                                    *)
MaskAssertionHolds == pc # "aborted"
=============================================================================
