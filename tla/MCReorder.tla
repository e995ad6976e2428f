------------------------------ MODULE MCReorder ------------------------------
(***************************************************************************)
(* Graphs of four rows for Reorder: connected and not, with cycles, self   *)
(* loops and repeated entries.                                             *)
(***************************************************************************)
EXTENDS Reorder, Expansion

MCRows == {<<>>, <<1>>, <<0, 3>>, <<3, 3, 1>>, <<2, 1, 3>>}
MCGraphs == {FromRows(rows) : rows \in [1 .. 4 -> MCRows]}
=============================================================================
