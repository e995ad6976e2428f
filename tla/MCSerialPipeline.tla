-------------------------- MODULE MCSerialPipeline --------------------------
(***************************************************************************)
(* Small graphs for SerialPipeline: three vertices, a long first row with  *)
(* runs, overlaps and repeated pairs, and short other rows; and some with  *)
(* a first row so long that several pairs are in the high part of the heap *)
(* at the same time and come and go there.                                 *)
(***************************************************************************)
EXTENDS SerialPipeline

Blocks == {<<0, 1>>, <<0, 0>>, <<1, 0, 2>>, <<2, 2, 2>>}

Times(m, block) == FlattenSeq([k \in 1 .. m |-> block])
Cycles == {<<0, 1, 2>>, <<1, 2>>, <<0, 1, 0, 2>>, <<1, 2, 1>>}

LongGraphs ==
    {FromRows(<<Times(5, a) \o Times(m, b), <<>>, <<0, 1, 2>>>>) :
        a \in Cycles, b \in Cycles, m \in {1, 3, 4}}

MCGraphs ==
    LongGraphs \cup
    {FromRows(<<a \o b \o d \o e, f, g>>) :
        a \in Blocks, b \in Blocks, d \in Blocks, e \in Blocks,
        f \in {<<>>, <<0, 1, 0, 1>>}, g \in {<<1, 2, 1, 2, 0>>}}

(* Runs of one symbol.                                                     *)
MCRuns == {FromRows(<<[k \in 1 .. m |-> 1], <<>>, <<>>>>) : m \in 4 .. 9}

MCHash(left, right) == 5 * left + 3 * right
=============================================================================
