-------------------------- MODULE MCParallelRepair --------------------------
(***************************************************************************)
(* Small graphs for ParallelRepair, what the compressed graph stands for,  *)
(* and the refinement of Grammar.  Every thread gets two rows at first.    *)
(* The rows hold pairs that overlap, a run of one symbol, pairs whose left *)
(* symbols fall in one table or in two, single neighbours and none.        *)
(***************************************************************************)
EXTENDS ParallelRepair, Expansion

ManyRows == {<<0, 1>>, <<0, 1, 2, 3>>, <<1, 1, 1>>, <<3, 0>>, <<>>}
MCManyGraphs == {FromRows(rows) : rows \in [1 .. 4 -> ManyRows]}

MCFewGraphs ==
    {FromRows(rows) : rows \in {
        << <<0, 1>>, <<0, 1, 2, 3>>, <<2, 3, 0>>, <<1, 1, 1>>, <<>>, <<5>> >>,
        << <<3, 0, 1>>, <<>>, <<0, 1>>, <<3, 0>>, <<5, 0, 1>>, <<3, 5, 0>> >>,
        << <<2, 2, 2, 2>>, <<>>, <<5, 2, 2>>, <<>>, <<2, 2, 2>>, <<>> >> }}

BetweenTurns == pc \in {"allocate", "done"}


(* Compression is lossless: at the end of every turn the graph is a CSR    *)
(* graph, and expanding the rules gives every vertex back the neighbours   *)
(* it was loaded with, in their order, however the threads interleaved and *)
(* whatever order the hash maps were iterated in.                          *)
Lossless ==
    BetweenTurns /\ GoodInput =>
        /\ IsCSR(input_vertex, input_edge)
        /\ Decompress(Rows(input_vertex, input_edge), RowCount(origin.vlist))
             = Rows(origin.vlist, origin.elist)

(* The graph of the last finished turn.  While main puts the next one      *)
(* together, it is what the slices of the threads hold.                    *)
TurnRows ==
    IF pc \in {"merge", "role"}
    THEN LET vlist == FlattenSeq([i \in 1 .. thread_num |-> vertex_buckets[i - 1]])
             elist == FlattenSeq([i \in 1 .. thread_num |-> buckets[i - 1]])
         IN  Rows(Append(vlist, Len(elist)), elist)
    ELSE Rows(input_vertex, input_edge)

Abstract == INSTANCE Grammar WITH
    rows <- TurnRows, turns <- IF pc = "done" THEN turn ELSE turn - 1,
    Turns <- compress_rate,
    Graphs <- {Rows(g.vlist, g.elist) : g \in Inputs}

(* A turn of the three thread groups is one lossless rewriting, and        *)
(* nothing before the end of a turn changes the graph.                     *)
TurnsAreRewritings == Abstract!Spec
=============================================================================
