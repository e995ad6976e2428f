------------------------------- MODULE Splice -------------------------------
(***************************************************************************)
(* splice.h and get_part_graph_info.h: the part of a graph that belongs to *)
(* the rows an index selects, with rows, columns or both renumbered to     *)
(* leave no gap.  index is the set of selected rows.                       *)
(***************************************************************************)
EXTENDS Expansion, FiniteSetsExt

(* active_vertex: the selected rows in the order of the loop over all.      *)
active_vertex(vlist, index) ==
    SelectSeq([v \in 1 .. RowCount(vlist) |-> v - 1], LAMBDA vid : vid \in index)

(* Where the entries of row vid lie in elist and in the weights.           *)
EntriesOf(vlist, vid) == [p \in 1 .. vlist[vid + 2] - vlist[vid + 1] |-> vlist[vid + 1] + p]

(* The entries of the selected rows, row by row; other rows are empty.     *)
Kept(vlist, index) ==
    [v \in 1 .. RowCount(vlist) |-> IF v - 1 \in index THEN EntriesOf(vlist, v - 1) ELSE <<>>]

(* The same without the other rows.                                        *)
KeptRows(vlist, index) ==
    LET active_row == active_vertex(vlist, index)
    IN  [k \in 1 .. Len(active_row) |-> EntriesOf(vlist, active_row[k])]

At(list, entries) == [k \in 1 .. Len(entries) |-> list[entries[k]]]

(* Mutant: a column is entered again each time it is met.                  *)
SeenAgain(cols, dst) == Append(cols, dst)

(* col_map: a column gets the next number when it is met for the first     *)
(* time; cols lists the columns by number.                                 *)
Seen(cols, dst) == IF Contains(cols, dst) THEN cols ELSE Append(cols, dst)

Columns(dsts) == FoldLeft(Seen, <<>>, dsts)
ColumnOf(cols, dst) == (CHOOSE k \in 1 .. Len(cols) : cols[k] = dst) - 1

(* back_vlist, back_elist and back_weight for the entries of some rows.    *)
Back(elist, weight, entries) ==
    [vlist |-> FromRows(entries).vlist, elist |-> At(elist, FlattenSeq(entries)),
     weight |-> At(weight, FlattenSeq(entries))]

Condensed(part) ==
    LET cols == Columns(part.elist)
    IN  [vlist |-> part.vlist, weight |-> part.weight, active_col |-> cols,
         elist |-> [e \in 1 .. Len(part.elist) |-> ColumnOf(cols, part.elist[e])]]

splice_csr(vlist, elist, weight, index) == Back(elist, weight, Kept(vlist, index))

splice_csr_condense_row(vlist, elist, weight, index) ==
    Back(elist, weight, KeptRows(vlist, index)) @@ [active_row |-> active_vertex(vlist, index)]

splice_csr_condense_col(vlist, elist, weight, index) ==
    Condensed(Back(elist, weight, Kept(vlist, index)))

splice_csr_condense_row_and_col(vlist, elist, weight, index) ==
    Condensed(Back(elist, weight, KeptRows(vlist, index))) @@ [active_row |-> active_vertex(vlist, index)]

get_active_row_and_col(vlist, elist, index) ==
    <<Cardinality(index),
      Cardinality(UNION {{elist[e] : e \in vlist[v + 1] + 1 .. vlist[v + 2]} : v \in index})>>

(* The sum over the rows of row_map, a reduction over the threads.         *)
get_out_degree(vlist, row_map) ==
    FoldLeft(LAMBDA degree, vid : degree + vlist[vid + 2] - vlist[vid + 1], 0, row_map)
=============================================================================
