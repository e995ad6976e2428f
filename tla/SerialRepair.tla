---------------------------- MODULE SerialRepair ----------------------------
(***************************************************************************)
(* compress_csr of the serial package (compress_op/compress.h): Re-Pair    *)
(* over the rows of a graph, written one after the other with a separator  *)
(* behind each.  A turn takes the most frequent pair of the store and      *)
(* replaces its occurrences one by one; the text shrinks in place, and the *)
(* holes this leaves hold pointers over them.  Symbols below max_symbol    *)
(* are vertices, those below alph separators, and alph + r is rule r.      *)
(***************************************************************************)
EXTENDS PairStore, Expansion

CONSTANTS
    max_symbol       \* the third argument of compress_csr

ASSUME MaxSymbolAssumption == max_symbol \in Nat

VARIABLES
    pc,              \* "idle", "prepare", "take", "right", "left", "end", "emit"
    vlist, elist,    \* arguments
    inter,           \* text: a symbol, or -p - 1 in a hole that p is beyond
    c,               \* symbols in the text
    st,              \* Rec, Hash, Heap and L
    rule,            \* pairs of the rules
    oid, cpos,       \* record of the pair being replaced, place in the text
    back             \* results: vlist, elist, vertex_cnt, rule_cnt

repairVars == <<pc, vlist, elist, inter, c, st, rule, oid, cpos, back>>

alph == 2 * max_symbol
n == alph + Len(rule) - (IF pc \in {"right", "left", "end"} THEN 1 ELSE 0)
u == Cardinality(DOMAIN inter)

FromSeq(s) == [i \in 0 .. Len(s) - 1 |-> s[i + 1]]

(* Mutant: every row ends with the same separator.                         *)
OneSpliter(v, e) == FlattenSeq([r \in 1 .. RowCount(v) |-> Append(Row(v, e, r - 1), max_symbol)])

insert_spliter(v, e) ==
    FlattenSeq([r \in 1 .. RowCount(v) |-> Append(Row(v, e, r - 1), max_symbol + r - 1)])

NoResult == [vlist |-> <<>>, elist |-> <<>>, vertex_cnt |-> 0, rule_cnt |-> 0]

Idle ==
    /\ pc = "idle" /\ vlist = <<0>> /\ elist = <<>> /\ inter = <<>> /\ c = 0
    /\ st = CreateStore(0) /\ rule = <<>> /\ oid = None /\ cpos = None
    /\ back = NoResult

compress_csr(v, e) ==
    /\ pc = "idle"
    /\ pc' = "prepare" /\ vlist' = v /\ elist' = e
    /\ inter' = FromSeq(insert_spliter(v, e))
    /\ c' = Cardinality(DOMAIN inter') /\ st' = CreateStore(c')
    /\ rule' = <<>> /\ back' = NoResult /\ cpos' = 0
    /\ UNCHANGED oid
-----------------------------------------------------------------------------
(* Position p becomes the head of the list of pair pr, whose record is     *)
(* made or counted up: prepare, and "create occ" of repair.                *)
AddOcc(s, pr, p) ==
    LET id == searchHash(s, pr)
        t == IF id = None THEN insertRecord(s, pr) ELSE incFreq(s, id)
        rid == IF id = None THEN Len(s.rec) ELSE id
        next == IF id = None THEN None ELSE Rec(t, id).cpos
        linked == IF id = None THEN t ELSE [t EXCEPT !.L[next].prev = p]
    IN  [linked EXCEPT !.L[p] = [prev |-> -rid - 1, next |-> next], !.rec[rid + 1].cpos = p]

(* "remove occ": p leaves the list of pair pr, which may have been purged; *)
(* the frequency of the pair being replaced is not counted down.           *)
RemoveOcc(s, pr, p, mine) ==
    LET id == searchHash(s, pr)
        t == IF id # mine THEN decFreq(s, id) ELSE s
        prev == t.L[p].prev
        next == t.L[p].next
        cut == IF prev < 0 THEN [t EXCEPT !.rec[id + 1].cpos = next] ELSE [t EXCEPT !.L[prev].next = next]
    IN  IF id = None THEN s
        ELSE IF prev = NullFreq THEN t
        ELSE IF next = None THEN cut ELSE [cut EXCEPT !.L[next].prev = prev]

(* The pairs of the text are counted and chained one by one; then the      *)
(* single ones are dropped.                                                *)
CountPair ==
    /\ pc = "prepare" /\ cpos < u - 1
    /\ st' = AddOcc(st, <<inter[cpos], inter[cpos + 1]>>, cpos)
    /\ cpos' = cpos + 1
    /\ UNCHANGED <<pc, vlist, elist, inter, c, rule, oid, back>>

EndPrepare ==
    /\ pc = "prepare" /\ cpos >= u - 1
    /\ st' = purgeHeap(st)
    /\ pc' = "take" /\ cpos' = None
    /\ UNCHANGED <<vlist, elist, inter, c, rule, oid, back>>
-----------------------------------------------------------------------------
(* repair                                                                  *)

NextOcc == IF cpos = None THEN "end" ELSE "right"

(* extractMax and rule.push_back.                                          *)
TakeMax ==
    LET x == extractMax(st)
    IN  /\ pc = "take" /\ x.id # None
        /\ st' = x.store /\ oid' = x.id
        /\ rule' = Append(rule, Pair(st, oid'))
        /\ cpos' = Rec(st, oid').cpos
        /\ pc' = NextOcc'
        /\ UNCHANGED <<vlist, elist, inter, c, back>>

(* Mutant: an empty heap is searched again from the top.                   *)
TakeNoneAgain ==
    LET x == extractMax(st)
    IN  /\ pc = "take" /\ x.id = None
        /\ st' = [st EXCEPT !.max = IF st.max = 0 THEN st.sqrtu ELSE 0]
        /\ UNCHANGED <<pc, vlist, elist, inter, c, rule, oid, cpos, back>>

(* The end of the turns.                                                   *)
TakeNone ==
    LET x == extractMax(st)
    IN  /\ pc = "take" /\ x.id = None
        /\ st' = x.store /\ pc' = "emit"
        /\ UNCHANGED <<vlist, elist, inter, c, rule, oid, cpos, back>>

(* Replacing bc->e in abcd, b = cpos, c = sgte, d = ssgte, a = ant.        *)
After(p) == IF p + 1 < u /\ inter[p + 1] < 0 THEN -inter[p + 1] - 1 ELSE p + 1
sgte == After(cpos)
ssgte == After(sgte)

ant == IF inter[cpos - 1] >= 0 THEN cpos - 1
       ELSE IF -inter[cpos - 1] - 1 = cpos THEN cpos - 2
       ELSE -inter[cpos - 1] - 1

(* Remove bc from L; cd gives way to ed.                                   *)
ReplaceRight ==
    LET next == st.L[cpos].next
        linked == IF next = None THEN st ELSE [st EXCEPT !.L[next].prev = -oid - 1]
        s == [linked EXCEPT !.rec[oid + 1].cpos = next]
    IN  /\ pc = "right"
        /\ st' = IF ssgte = u THEN s
                 ELSE AddOcc(RemoveOcc(s, <<inter[sgte], inter[ssgte]>>, sgte, oid),
                             <<n, inter[ssgte]>>, cpos)
        /\ pc' = "left"
        /\ UNCHANGED <<vlist, elist, inter, c, rule, oid, cpos, back>>

(* Mutant: the pointer back over the hole is not written.                  *)
HoleOneWay == [inter EXCEPT ![cpos] = n, ![cpos + 1] = -ssgte - 1]

(* What stands in the hole.                                                *)
Hole == [p \in DOMAIN inter |->
            IF p = cpos THEN n
            ELSE IF p = cpos + 1 THEN -ssgte - 1
            ELSE IF ssgte # u /\ p = ssgte - 1 THEN -cpos - 1
            ELSE inter[p]]

(* ab gives way to ae, and bc to e in the text; on to the next occurrence. *)
ReplaceLeft ==
    /\ pc = "left"
    /\ st' = IF cpos = 0 THEN st
             ELSE AddOcc(RemoveOcc(st, <<inter[ant], inter[cpos]>>, ant, oid),
                         <<inter[ant], n>>, ant)
    /\ inter' = Hole /\ c' = c - 1
    /\ cpos' = Rec(st', oid).cpos
    /\ pc' = NextOcc'
    /\ UNCHANGED <<vlist, elist, rule, oid, back>>
-----------------------------------------------------------------------------
(* Compaction moves symbol and list entry of the k-th position that is no  *)
(* hole to position k.  The lists are mended entry by entry, each move     *)
(* finding what the moves before it left.                                  *)
Live == LET from[p \in 0 .. u] == IF p >= u THEN <<>> ELSE <<p>> \o from[After(p)]
        IN  from[0]

MoveEntry(s, k, p) ==
    LET e == s.L[p]
        t == [s EXCEPT !.L[k] = e]
        tail == IF e.next # None THEN [t EXCEPT !.L[e.next].prev = k] ELSE t
    IN  IF e.prev >= 0 THEN [tail EXCEPT !.L[e.prev].next = k]
        ELSE IF e.prev # NullFreq THEN [tail EXCEPT !.rec[-e.prev].cpos = k]
        ELSE tail

Compacted(s) ==
    LET live == Live
        t == FoldLeft(LAMBDA x, k : MoveEntry(x, k - 1, live[k]), s, [k \in 1 .. c - 1 |-> k])
    IN  [t EXCEPT !.L = [p \in 0 .. c - 1 |-> t.L[p]]]

(* removeRecord(oid), purgeHeap, and compaction once over half the text    *)
(* is holes.                                                               *)
EndTurn ==
    LET s == purgeHeap(removeRecord(st, oid))
    IN  /\ pc = "end"
        /\ pc' = "take" /\ oid' = None
        /\ IF 2 * c < u
           THEN /\ st' = Compacted(s)
                /\ inter' = [p \in 0 .. c - 1 |-> inter[Live[p + 1]]]
           ELSE st' = s /\ UNCHANGED inter
        /\ UNCHANGED <<vlist, elist, c, rule, cpos, back>>
-----------------------------------------------------------------------------
(* The end of compress_csr: separators become offsets, rules rows.         *)

convert(x) == IF x > max_symbol THEN x - max_symbol ELSE x
IsSpliter(x) == max_symbol <= x /\ x < alph
Text == LET live == Live IN [k \in 1 .. Len(live) |-> inter[live[k]]]

Emit ==
    LET text == Text
        entries == SelectSeq(text, LAMBDA x : ~IsSpliter(x))
        ends == SelectSeq([k \in 1 .. Len(text) |-> k], LAMBDA k : IsSpliter(text[k]))
    IN  /\ pc = "emit"
        /\ back' = [vlist |-> <<0>> \o [r \in 1 .. Len(ends) |-> ends[r] - r]
                                    \o [r \in 1 .. Len(rule) |-> Len(entries) + 2 * r],
                    elist |-> [k \in 1 .. Len(entries) |->
                                  IF entries[k] < max_symbol THEN entries[k] ELSE entries[k] - max_symbol]
                              \o FlattenSeq([r \in 1 .. Len(rule) |->
                                     <<convert(rule[r][1]), convert(rule[r][2])>>]),
                    vertex_cnt |-> RowCount(vlist),
                    rule_cnt |-> Len(ends) + Len(rule) + 1 - Len(vlist)]
        /\ pc' = "idle"
        /\ UNCHANGED <<vlist, elist, inter, c, st, rule, oid, cpos>>

Step ==
    \/ CountPair \/ EndPrepare \/ TakeMax \/ TakeNone
    \/ ReplaceRight \/ ReplaceLeft \/ EndTurn \/ Emit
-----------------------------------------------------------------------------
(* Properties.                                                             *)

(* The symbols that stand for symbol x once rules are written out.         *)
Written ==
    LET w[x \in 0 .. alph + Len(rule) - 1] ==
            IF x < alph THEN <<x>> ELSE w[rule[x - alph + 1][1]] \o w[rule[x - alph + 1][2]]
    IN  w

(* The text, holes skipped, stands for the argument after every single     *)
(* replacement, whatever occurrences of the pair are still to come, and    *)
(* after the holes are squeezed out.                                       *)
TextLossless ==
    pc # "idle" =>
        /\ Len(Live) = c
        /\ LET w == Written IN Unfold(Text, LAMBDA x : w[x]) = insert_spliter(vlist, elist)

(* Positions chained from p.                                               *)
Chain(p) ==
    LET ch[k \in 0 .. u, q \in 0 .. u - 1] ==
            IF k = 0 \/ st.L[q].next = None THEN <<q>> ELSE <<q>> \o ch[k - 1, st.L[q].next]
    IN  ch[u, p]

Occurrences(text, pr) == {k \in 1 .. Len(text) - 1 : <<text[k], text[k + 1]>> = pr}

(* Between two turns every record is exact: its list holds the places      *)
(* where its pair stands in the text, each once, linked both ways, its     *)
(* frequency is their number and at least two; and no pair that stands in  *)
(* two places has lost its record ("their freq cannot grow after a repair  *)
(* turn", heap.cc:369, justifies purging the single ones).                 *)
RecordsMatchText ==
    LET text == Text
        live == Live
    IN  pc = "take" =>
        /\ \A id \in Ids(st) :
              LET ch == Chain(Rec(st, id).cpos)
              IN  /\ Range(ch) = {live[k] : k \in Occurrences(text, Pair(st, id))}
                  /\ Rec(st, id).freq = Len(ch) /\ Len(ch) >= 2
                  /\ Cardinality(Range(ch)) = Len(ch)
                  /\ st.L[ch[1]].prev = -id - 1
                  /\ \A k \in 2 .. Len(ch) : st.L[ch[k]].prev = ch[k - 1]
        /\ \A k \in 1 .. Len(text) - 1 :
              \/ \E id \in Ids(st) : Pair(st, id) = <<text[k], text[k + 1]>>
              \/ Occurrences(text, <<text[k], text[k + 1]>>) = {k}

(* The pairs the next step looks up.                                       *)
Sought ==
    CASE pc = "prepare" /\ cpos < u - 1 -> {<<inter[cpos], inter[cpos + 1]>>}
      [] pc = "right" /\ ssgte # u -> {<<inter[sgte], inter[ssgte]>>, <<n, inter[ssgte]>>}
      [] pc = "left" /\ cpos # 0 -> {<<inter[ant], inter[cpos]>>, <<inter[ant], n>>}
      [] OTHER -> {}

(* searchHash "returns id, -1 if not existing" (hash.h:53): every search   *)
(* ends, and with the record of the pair if there is one, however records  *)
(* were moved, deleted and rehashed before.                                *)
HashFinds ==
    \A pr \in Sought :
        /\ SearchEnds(st, pr)
        /\ LET id == searchHash(st, pr)
           IN  IF \E r \in Ids(st) : Pair(st, r) = pr
               THEN id \in Ids(st) /\ Pair(st, id) = pr
               ELSE id = None

(* The number of the record being replaced stays valid through its turn,   *)
(* in which other records are made, moved and removed: it is out of the    *)
(* heap, and repairing the heap for it would overwrite another record.     *)
OidStays == pc \in {"right", "left", "end"} => Pair(st, oid) = Last(rule)

(* The heap hands out a pair of the greatest frequency, although H.max is  *)
(* never raised when the frequency of a pair grows.                        *)
TakesMostFrequent ==
    [][pc = "take" /\ oid' # None =>
         \A id \in Ids(st) : Rec(st, id).freq <= Rec(st, oid').freq]_repairVars

(* Every record but the one being replaced is in the heap where hpos says, *)
(* and the heap holds nothing else.  The frequency nodes from H.smallest   *)
(* to H.largest are in ascending order and none is empty, although decFreq *)
(* takes a node that loses its last cell for the smallest without looking; *)
(* no cell or node is lost to the free lists, and neither list is ever     *)
(* empty, which incFreq and decFreq do not test (heap.cc:144, 183, 198,    *)
(* 253).                                                                   *)
HeapHoldsRecords ==
    LET cells == FlattenSeq([k \in 1 .. Len(st.ff) |-> st.ff[k].elems])
    IN  /\ \A id \in Ids(st) : id # oid =>
              LET r == Rec(st, id)
              IN  IF r.freq < st.sqrtu
                  THEN r.hpos < Len(st.low[r.freq]) /\ st.low[r.freq][r.hpos + 1] = id
                  ELSE /\ st.cell[r.hpos] = id
                       /\ \E k \in DOMAIN st.ff :
                             st.ff[k].freq = r.freq /\ r.hpos \in Range(st.ff[k].elems)
        /\ Cardinality(Ids(st) \ {oid}) =
              FoldSet(LAMBDA f, a : Len(st.low[f]) + a, 0, Low(st)) + Len(cells)
        /\ \A k \in DOMAIN st.ff :
              st.ff[k].elems # <<>> /\ (k > 1 => st.ff[k - 1].freq < st.ff[k].freq)
        /\ Range(cells) \cup Range(st.freef) = 0 .. st.sqrtu - 1
        /\ Len(cells) + Len(st.freef) = st.sqrtu /\ Len(st.ff) + st.freeff = st.sqrtu
        /\ st.freef # <<>> /\ st.freeff > 0
=============================================================================
