----------------------------- MODULE Expansion -----------------------------
(***************************************************************************)
(* What the rows of a compressed graph stand for: an entry that is the     *)
(* number of a rule stands for the entries of that row, and so on down to  *)
(* vertices.                                                               *)
(***************************************************************************)
EXTENDS CSR, SequencesExt

(* The inverse of Rows.                                                    *)
FromRows(rows) ==
    [vlist |-> [i \in 1 .. Len(rows) + 1 |-> Len(FlattenSeq(SubSeq(rows, 1, i - 1)))],
     elist |-> FlattenSeq(rows)]

(* Replace every entry s of a row by what f says of it.                    *)
Unfold(row, f(_)) == FlattenSeq([i \in 1 .. Len(row) |-> f(row[i])])

(* The vertices that entry s stands for when rows >= n are rules.  The     *)
(* depth of an acyclic set of rules is at most their number, so a cycle    *)
(* shows as a rule number that is still there at depth 0.                  *)
Expand(rows, n) ==
    LET Entries == 0 .. Len(rows) - 1
        ex[d \in 0 .. Len(rows) - n] ==
            [s \in Entries |->
                IF s < n \/ d = 0 THEN <<s>>
                ELSE Unfold(rows[s + 1], LAMBDA x : IF x \in Entries THEN ex[d - 1][x] ELSE <<x>>)]
    IN ex[Len(rows) - n]

(* The first n rows with every rule expanded.                              *)
Decompress(rows, n) ==
    LET ex == Expand(rows, n)
    IN  [v \in 1 .. n |-> Unfold(rows[v], LAMBDA x : IF x \in DOMAIN ex THEN ex[x] ELSE <<x>>)]
============================================================================
