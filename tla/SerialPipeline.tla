--------------------------- MODULE SerialPipeline ---------------------------
(***************************************************************************)
(* The serial compression script (Laconic_serial_compression.py): the      *)
(* vertices are cut into part_num tiles, compress_csr is called on each,   *)
(* and merge_ (merge.h) puts the compressed parts together into the graph  *)
(* that filter_csr is given.  With one part this is what Re-Pair.py does.  *)
(***************************************************************************)
EXTENDS SerialRepair

CONSTANTS
    PartNums,        \* values of --part_num
    Inputs           \* graphs with max_symbol vertices

ASSUME PartNumsAssumption == PartNums \subseteq Nat \ {0}
ASSUME GraphInputs == \A g \in Inputs :
    /\ IsCSR(g.vlist, g.elist) /\ RowCount(g.vlist) = max_symbol
    /\ \A e \in 1 .. Len(g.elist) : g.elist[e] < max_symbol

VARIABLES
    stage,           \* "parts", "call", "merge", "merged", "IndexError"
    input,           \* the graph in the files
    part_num,
    i,               \* loop index of Laconic_serial, then of merge_
    first,           \* what the uninitialised i of merge_ holds
    parts,           \* c_vlist, c_elist, c_vertex_cnt, c_rule_cnt
    graph,           \* rows of merge_
    merged           \* its result, as rows

pipeVars == <<stage, input, part_num, i, first, parts, graph, merged>>
vars == <<repairVars, pipeVars>>

vertex_cnt == max_symbol
tile == (vertex_cnt \div part_num) + 1
(* Mutant: tiles are counted from one.                                     *)
startNext == (i + 1) * tile

start == i * tile
end == IF (i + 1) * tile > vertex_cnt THEN vertex_cnt ELSE (i + 1) * tile

Init ==
    /\ Idle
    /\ input \in Inputs /\ part_num \in PartNums
    /\ stage = "parts" /\ i = 0 /\ first = 0
    /\ parts = <<>> /\ graph = <<>> /\ merged = <<>>

(* The loop body of Laconic_serial up to the call: the offsets of the tile *)
(* start .. end, from the offset at start, and one edge too many.          *)
CompressPart ==
    LET v_start == input.vlist[start + 1]
        v_end == input.vlist[end + 1]
        count == Min({v_end + 1, Len(input.elist)})
    IN  /\ stage = "parts" /\ i < part_num /\ Len(parts) = i /\ start <= vertex_cnt
        /\ compress_csr(Shift(SubSeq(input.vlist, start + 1, end + 1), -v_start),
                        SubSeq(input.elist, v_start + 1, count))
        /\ stage' = "call"
        /\ UNCHANGED <<input, part_num, i, first, parts, graph, merged>>

(* elements[n] when the file has no more than n offsets.                   *)
IndexError ==
    /\ stage = "parts" /\ i < part_num /\ start > vertex_cnt
    /\ stage' = "IndexError"
    /\ UNCHANGED <<repairVars, input, part_num, i, first, parts, graph, merged>>

Working == stage = "call" /\ Step /\ UNCHANGED pipeVars

Collect ==
    /\ stage = "call" /\ pc = "idle"
    /\ parts' = Append(parts, back) /\ i' = i + 1 /\ stage' = "parts"
    /\ UNCHANGED <<repairVars, input, part_num, first, graph, merged>>
-----------------------------------------------------------------------------
(* merge_                                                                  *)

SumOf(q, f(_)) == FoldLeft(LAMBDA a, b : a + b, 0, [k \in 1 .. Len(q) |-> f(q[k])])
VerticesIn(q) == SumOf(q, LAMBDA p : p.vertex_cnt)
RulesIn(q) == SumOf(q, LAMBDA p : p.rule_cnt)

BeginMerge ==
    /\ stage = "parts" /\ i = part_num
    /\ stage' = "merge" /\ first' \in 0 .. part_num /\ i' = first'
    /\ graph' = [r \in 0 .. VerticesIn(parts) + RulesIn(parts) - 1 |-> <<>>]
    /\ UNCHANGED <<repairVars, input, part_num, parts, merged>>

(* Mutant: rule numbers are kept as they are in the part.                  *)
RenumberedNot(row, by) == row

Renumbered(row, by) ==
    [k \in 1 .. Len(row) |-> IF row[k] >= VerticesIn(parts) THEN row[k] + by ELSE row[k]]

(* One part: its vertex rows and its rule rows, behind those of the parts  *)
(* from first on.                                                          *)
MergePart ==
    LET p == parts[i + 1]
        before == SubSeq(parts, first + 1, i)
        vertex_offset == VerticesIn(before)
        rule_offset == RulesIn(before)
        place(r) == IF r < p.vertex_cnt THEN r + vertex_offset
                    ELSE VerticesIn(parts) + (r - p.vertex_cnt) + rule_offset
    IN  /\ stage = "merge" /\ i < part_num
        /\ graph' = [r \in DOMAIN graph |->
               LET mine == {q \in 0 .. p.vertex_cnt + p.rule_cnt - 1 : place(q) = r}
               IN  graph[r] \o (IF mine = {} THEN <<>>
                                ELSE Renumbered(Row(p.vlist, p.elist, Min(mine)), rule_offset))]
        /\ i' = i + 1
        /\ UNCHANGED <<repairVars, stage, input, part_num, first, parts, merged>>

EndMerge ==
    /\ stage = "merge" /\ i >= part_num
    /\ stage' = "merged"
    /\ merged' = [r \in 1 .. Cardinality(DOMAIN graph) |-> graph[r - 1]]
    /\ UNCHANGED <<repairVars, input, part_num, i, first, parts, graph>>

Stopped == stage \in {"merged", "IndexError"}
Terminated == Stopped /\ UNCHANGED vars

Next ==
    \/ CompressPart \/ IndexError \/ Working \/ Collect
    \/ BeginMerge \/ MergePart \/ EndMerge \/ Terminated

(* The script runs on until it stops.  This is weak fairness of Next, whose *)
(* enabling condition is ~Stopped: no other state is without a next step.  *)
Fairness == []<>Stopped \/ []<><<Next>>_vars

Spec == Init /\ [][Next]_vars /\ Fairness
-----------------------------------------------------------------------------
(* Properties.                                                             *)

(* The merged graph stands for the rows of the files: the parts, each      *)
(* compressed on its own with rules numbered from vertex_cnt, are renumbered *)
(* so that no rule of one part is taken for one of another.  This is so    *)
(* when merge_ starts with part 0.  Its index is not initialised: when it  *)
(* starts with a later part, the rows of the parts before are lost, those  *)
(* of the others move up, and nothing else happens to them.                *)
MergeLossless ==
    LET rows == Rows(input.vlist, input.elist)
        lost == VerticesIn(SubSeq(parts, 1, first))
    IN  stage = "merged" =>
            Decompress(merged, vertex_cnt) =
                SubSeq(rows, lost + 1, vertex_cnt) \o [r \in 1 .. lost |-> <<>>]

(* What filter_csr relies on: entries of a rule are older rules, and every *)
(* rule is mentioned, so that its find() never fails and its decisions     *)
(* stand.                                                                  *)
MergedFitsFilter ==
    stage = "merged" /\ first = 0 =>
        /\ \A r \in vertex_cnt + 1 .. Len(merged) : \A x \in Range(merged[r]) : x < r - 1
        /\ \A r \in vertex_cnt .. Len(merged) - 1 : \E q \in 1 .. Len(merged) : r \in Range(merged[q])

(* A tile is rounded up, so that the last tiles may begin behind the last  *)
(* vertex, and reading the offset there raises IndexError.  With no more   *)
(* than about the square root of vertex_cnt parts this does not happen.    *)
IndexErrorOnlyWithManyParts ==
    stage = "IndexError" => part_num * (part_num - 1) > vertex_cnt

(* Every call of compress_csr returns: each turn shortens the text.        *)
Returns == [](stage = "call" => <>(stage = "parts"))
=============================================================================
