----------------------------- MODULE PairStore ------------------------------
(***************************************************************************)
(* The store of pairs of the serial compressor (compress_op/compress/):    *)
(* the records Rec, one per pair that is still of interest; the open       *)
(* addressing table Hash that finds the record of a pair; the Heap that    *)
(* orders the records by frequency, an array per frequency below sqrtu and *)
(* an ordered list of frequency nodes, each with a list of cells, from     *)
(* sqrtu on; and the lists L that chain the positions of every pair        *)
(* through the text.  The four point into each other by index, so that     *)
(* moving a record means repairing the others.  An operation takes a store *)
(* and gives the store it leaves.                                          *)
(* Reallocation changes no value and is left out.                          *)
(***************************************************************************)
EXTENDS Integers, Sequences, FiniteSetsExt, SequencesExt

CONSTANTS
    HashSize,        \* argument of the first createHash (256 * 256)
    HashOf(_, _)     \* the multiplicative hash of a pair

ASSUME HashSizeAssumption == HashSize \in {2^k : k \in 0 .. 16}

None == -1           \* no position, no record, an empty slot of the table
Mark == -2           \* a deletion mark in the table
NullFreq == -(10^9)  \* below every -id - 1
Unset == 10^9        \* what malloc leaves in L: no position

Ids(s) == 0 .. Len(s.rec) - 1
Rec(s, id) == s.rec[id + 1]
Pair(s, id) == <<Rec(s, id).left, Rec(s, id).right>>
-----------------------------------------------------------------------------
(* hash.cc.  maxpos + 1 is a power of two, and & maxpos a remainder.       *)

Slots(s) == 0 .. s.maxpos
Probe(s, p, d) == s.table[(HashOf(p[1], p[2]) + d) % (s.maxpos + 1)]

(* Mutant: the search stops at a deletion mark.                            *)
StopsAtMark(s, p, d) ==
    Probe(s, p, d) < 0 \/ Pair(s, Probe(s, p, d)) = p

(* The search for p goes no further than d slots from its home.            *)
Stops(s, p, d) ==
    \/ Probe(s, p, d) = None
    \/ Probe(s, p, d) \in Ids(s) /\ Pair(s, Probe(s, p, d)) = p

SearchEnds(s, p) == \E d \in Slots(s) : Stops(s, p, d)

searchHash(s, p) == Probe(s, p, Min({d \in Slots(s) : Stops(s, p, d)}))

(* The slot for a pair: deletion marks are used again.                     *)
finsertHash(table, p) ==
    LET size == Cardinality(DOMAIN table)
        at(d) == (HashOf(p[1], p[2]) + d) % size
    IN  at(Min({d \in 0 .. size - 1 : table[at(d)] < 0}))

createHash(maxpos) == [k \in 0 .. 2 * (Max({2^b : b \in 0 .. 20} \cap 0 .. maxpos) - 1) + 1 |-> None]

PutHash(s, id) ==
    LET k == finsertHash(s.table, Pair(s, id))
    IN  [s EXCEPT !.table[k] = id, !.rec[id + 1].kpos = k]

(* A table of twice the size, with the live entries in slot order.         *)
Resized(s) ==
    LET live == SelectSeq([k \in 1 .. s.maxpos + 1 |-> s.table[k - 1]], LAMBDA id : id >= 0)
        new == createHash(2 * s.maxpos + 1)
    IN  FoldLeft(PutHash, [s EXCEPT !.table = new, !.maxpos = Cardinality(DOMAIN new) - 1], live)

insertHash(s, id) ==
    LET room == IF 2 * s.used > s.maxpos THEN Resized(s) ELSE s
    IN  PutHash([room EXCEPT !.used = @ + 1], id)

deleteHash(s, id) == [s EXCEPT !.table[Rec(s, id).kpos] = Mark, !.used = @ - 1]

hashRepos(s, id) == [s EXCEPT !.table[Rec(s, id).kpos] = id]
-----------------------------------------------------------------------------
(* array.cc and heap.cc.  s.low[f] holds the ids of the records of         *)
(* frequency f < sqrtu, and a record its index there in hpos.  From sqrtu  *)
(* on a record is in a cell: s.cell gives the record of a cell (H.freq),   *)
(* and a record its cell in hpos.  s.ff is the list of frequency nodes     *)
(* from H.smallest to H.largest, each with the list of its cells, newest   *)
(* first; its order is what the insertions below make it.  s.freef is the  *)
(* list of free cells and s.freeff the number of free nodes, which have no *)
(* identity here: a node is its place in the list, the one that fnode of   *)
(* its cells names.  Both are taken without a test that one is left.       *)

Low(s) == 1 .. s.sqrtu - 1

SqrtOf(u) == Min({q \in 2 .. u + 2 : q * q >= u})

insertArray(s, f, id) ==
    [s EXCEPT !.low[f] = Append(@, id), !.rec[id + 1].hpos = Len(s.low[f])]

(* move and deleteArray: the last entry takes the place of record id.      *)
RemoveLow(s, f, id) ==
    LET last == s.low[f][Len(s.low[f])]
        i == Rec(s, id).hpos
    IN  [s EXCEPT !.low[f] = Front([@ EXCEPT ![i + 1] = last]),
                  !.rec[last + 1].hpos = i]

fnode(s, cell) == CHOOSE k \in DOMAIN s.ff : cell \in Range(s.ff[k].elems)

CreateNode(s, k, f, cell) ==
    [s EXCEPT !.ff = InsertAt(@, k, [freq |-> f, elems |-> <<cell>>]), !.freeff = @ - 1]

FreeCell(s, cell) == [s EXCEPT !.freef = <<cell>> \o @]

(* The cell, alone in node k or not, gets frequency f, which is that of    *)
(* the neighbouring node to or of a new node in place at.                  *)
MoveCell(s, cell, k, to, at, f) ==
    LET exists == to \in DOMAIN s.ff /\ s.ff[to].freq = f
        alone == s.ff[k].elems = <<cell>>
        out == [s EXCEPT !.ff[k].elems = Remove(@, cell)]
        moved == IF exists THEN [out EXCEPT !.ff[to].elems = <<cell>> \o @]
                 ELSE CreateNode(out, at, f, cell)
    IN  IF alone /\ ~exists THEN [s EXCEPT !.ff[k].freq = f]
        ELSE IF alone THEN [moved EXCEPT !.ff = RemoveAt(@, k), !.freeff = @ + 1]
        ELSE moved

(* Record id takes the first free cell, in the smallest node.              *)
EnterHigh(s, f, id) ==
    LET cell == Head(s.freef)
        t == [s EXCEPT !.freef = Tail(@), !.cell[cell] = id, !.rec[id + 1].hpos = cell]
    IN  IF s.ff # <<>> /\ s.ff[1].freq = f THEN [t EXCEPT !.ff[1].elems = <<cell>> \o @]
        ELSE CreateNode(t, 1, f, cell)

(* The cell leaves a node that must be the smallest: should the node       *)
(* disappear, the list begins behind it.                                   *)
LeaveHigh(s, cell) ==
    LET k == fnode(s, cell)
        out == FreeCell([s EXCEPT !.ff[k].elems = Remove(@, cell)], cell)
    IN  IF s.ff[k].elems # <<cell>> THEN out
        ELSE [out EXCEPT !.ff = SubSeq(@, k + 1, Len(@)), !.freeff = @ + 1]

incFreq(s, id) ==
    LET f == Rec(s, id).freq
        cell == Rec(s, id).hpos
        k == fnode(s, cell)
        r == [s EXCEPT !.rec[id + 1].freq = f + 1]
        out == RemoveLow(r, f, id)
    IN  IF f >= s.sqrtu THEN MoveCell(r, cell, k, k + 1, k + 1, f + 1)
        ELSE IF f + 1 < s.sqrtu THEN insertArray(out, f + 1, id)
        ELSE EnterHigh(out, f + 1, id)

insertHeap(s, id) == insertArray([s EXCEPT !.rec[id + 1].freq = 1], 1, id)

(* Mutant: the cells of the high part are not told.                        *)
heapReposLow(s, id) ==
    IF Rec(s, id).freq < s.sqrtu
    THEN [s EXCEPT !.low[Rec(s, id).freq][Rec(s, id).hpos + 1] = id]
    ELSE s

heapRepos(s, id) ==
    IF Rec(s, id).freq < s.sqrtu
    THEN [s EXCEPT !.low[Rec(s, id).freq][Rec(s, id).hpos + 1] = id]
    ELSE [s EXCEPT !.cell[Rec(s, id).hpos] = id]
-----------------------------------------------------------------------------
(* records.cc                                                              *)

insertRecord(s, p) ==
    LET id == Len(s.rec)
        new == [left |-> p[1], right |-> p[2], freq |-> 0,
                cpos |-> None, kpos |-> None, hpos |-> None]
    IN  insertHeap(insertHash([s EXCEPT !.rec = Append(@, new)], id), id)

(* The list of record id no longer points back at it.                      *)
Unlink(s, id) ==
    LET p == Rec(s, id).cpos
    IN  IF p # None /\ s.L[p].prev = -id - 1 THEN [s EXCEPT !.L[p].prev = NullFreq] ELSE s

(* Mutant: the list of the record that moves is not told.                  *)
MovedUntold(s, id) ==
    LET last == Len(s.rec)
    IN  heapRepos(hashRepos([s EXCEPT !.rec[id + 1] = s.rec[last]], id), id)

(* The last record takes number id, and table, heap and list are told.     *)
Moved(s, id) ==
    LET last == Len(s.rec)
        t == heapRepos(hashRepos([s EXCEPT !.rec[id + 1] = s.rec[last]], id), id)
        p == Rec(t, id).cpos
    IN  IF p # None THEN [t EXCEPT !.L[p].prev = -id - 1] ELSE t

removeRecord(s, id) ==
    LET gone == Unlink(deleteHash(s, id), id)
        kept == IF id # Len(s.rec) - 1 THEN Moved(gone, id) ELSE gone
    IN  [kept EXCEPT !.rec = Front(@)]
-----------------------------------------------------------------------------
(* The operations of heap.cc that remove records, and the empty store.     *)

decFreq(s, id) ==
    LET f == Rec(s, id).freq
        cell == Rec(s, id).hpos
        k == fnode(s, cell)
        r == [s EXCEPT !.rec[id + 1].freq = f - 1]
        out == IF f < s.sqrtu THEN RemoveLow(r, f, id) ELSE LeaveHigh(r, cell)
    IN  IF f > s.sqrtu THEN MoveCell(r, cell, k, k - 1, k, f - 1)
        ELSE IF f > 1 THEN insertArray(out, f - 1, id)
        ELSE removeRecord(out, id)

(* Mutant: the array at H.max is passed over.                              *)
MaxBelow(s) ==
    IF s.max = s.sqrtu /\ s.ff # <<>> THEN s.max
    ELSE Max({0} \cup {f \in Low(s) : f < s.max /\ s.low[f] # <<>>})

(* H.max: it leaves sqrtu once no frequency is that high, and then only    *)
(* falls.                                                                  *)
MaxOf(s) ==
    IF s.max = s.sqrtu /\ s.ff # <<>> THEN s.max
    ELSE Max({0} \cup {f \in Low(s) : f <= s.max /\ s.low[f] # <<>>})

(* The newest cell leaves the node H.largest.                              *)
TakeLargest(s) ==
    LET top == Len(s.ff)
        cell == Head(s.ff[top].elems)
        out == FreeCell([s EXCEPT !.ff[top].elems = Tail(@)], cell)
    IN  IF Len(s.ff[top].elems) > 1 THEN out
        ELSE [out EXCEPT !.ff = Front(@), !.freeff = @ + 1]

(* The record extractMax takes, None if the heap is empty, and the store   *)
(* it leaves.                                                              *)
extractMax(s) ==
    LET m == MaxOf(s)
        t == [s EXCEPT !.max = m]
    IN  IF m = 0 THEN [id |-> None, store |-> t]
        ELSE IF m < s.sqrtu
        THEN [id |-> Last(s.low[m]), store |-> [t EXCEPT !.low[m] = Front(@)]]
        ELSE [id |-> s.cell[Head(Last(s.ff).elems)], store |-> TakeLargest(t)]

(* Mutant: single pairs stay.                                              *)
purgeNothing(s) == s

(* The array of frequency 1 is walked while removeRecord moves records,    *)
(* and emptied after it.                                                   *)
purgeHeap(s) ==
    LET purged == FoldLeft(LAMBDA t, i : removeRecord(t, t.low[1][i]), s,
                           [i \in 1 .. Len(s.low[1]) |-> i])
    IN  [purged EXCEPT !.low[1] = <<>>]

(* createRecords, createHeap, createHash and L for a text of length u.     *)
CreateStore(u) ==
    LET q == SqrtOf(u)
        table == createHash(HashSize)
    IN  [rec |-> <<>>, table |-> table, maxpos |-> Cardinality(DOMAIN table) - 1, used |-> 0,
         sqrtu |-> q, low |-> [f \in 1 .. q - 1 |-> <<>>],
         cell |-> [x \in 0 .. q - 1 |-> None], freef |-> [x \in 1 .. q |-> x - 1],
         ff |-> <<>>, freeff |-> q, max |-> q,
         L |-> [p \in 0 .. u - 1 |-> [prev |-> Unset, next |-> Unset]]]
=============================================================================
