-------------------------------- MODULE CSR --------------------------------
(***************************************************************************)
(* Graphs in compressed sparse row form, the representation every part of  *)
(* the repository reads and writes: vlist holds one offset per row and a   *)
(* closing sentinel, elist the concatenated rows.  Rows 0 .. n-1 are the   *)
(* vertices; a row with a larger number is a rule, and an entry of elist   *)
(* that is a rule number stands for the entries of that row.               *)
(***************************************************************************)
EXTENDS Integers, Sequences

(* s is a list of offsets, starting at 0, into a sequence of length n.     *)
Offsets(s, n) ==
    /\ \A i \in 1 .. Len(s) : s[i] <= n
    /\ \A i, j \in 1 .. Len(s) : i <= j => s[i] <= s[j]
    /\ s # <<>> => s[1] = 0

(* vlist and elist describe a graph: the offsets end with the length of    *)
(* elist.                                                                  *)
IsCSR(vlist, elist) ==
    /\ vlist \in Seq(Nat) /\ elist \in Seq(Nat)
    /\ Offsets(vlist, Len(elist))
    /\ Len(vlist) > 0 /\ vlist[Len(vlist)] = Len(elist)

(* Mutant: the offsets are kept as they are.                               *)
Unshifted(offsets, by) == offsets

(* The offsets of a part that is put behind a sequence of length by.       *)
Shift(offsets, by) == [i \in 1 .. Len(offsets) |-> offsets[i] + by]

RowCount(vlist) == Len(vlist) - 1

(* Row r (counted from 0): the entries vlist[r] .. vlist[r+1]-1 of elist.  *)
Row(vlist, elist, r) == SubSeq(elist, vlist[r + 1] + 1, vlist[r + 2])

(* All rows, row r at index r + 1.                                         *)
Rows(vlist, elist) == [i \in 1 .. RowCount(vlist) |-> Row(vlist, elist, i - 1)]
============================================================================
