----------------------------- MODULE RuleFilter -----------------------------
(***************************************************************************)
(* The rule filter: filter_csr and what it calls.  A rule that saves no    *)
(* more than threshold entries is merged into the rows that mention it,    *)
(* the rules are renumbered, and a new CSR graph is written.  The code     *)
(* exists twice: Laconic_parallel/core/filter.h, and filter.h of the       *)
(* serial package, which differs in one assignment (accumulate).  Rows     *)
(* vertex_cnt and up are rules; rule r is row r + vertex_cnt.              *)
(***************************************************************************)
EXTENDS CSR, FiniteSets

CONSTANTS
    vertex_cnt,      \* number of vertices
    threshold,       \* _threshold
    Copies,          \* which of the two copies of the code: values of accumulate
    Inputs           \* compressed graphs the filter may be called with

ASSUME VertexCntAssumption == vertex_cnt \in Nat \ {0}
ASSUME FilterThresholdAssumption == threshold \in Int
ASSUME CopiesAssumption == Copies \subseteq BOOLEAN
(* Every entry is the number of a row, and the rules a rule mentions are   *)
(* older than itself, as in what the serial compressor makes.  (The        *)
(* parallel compressor can rewrite an old rule with a newer one, but the   *)
(* call of its copy of the filter is commented out.)                       *)
ASSUME CompressedInputs == \A g \in Inputs :
    /\ DOMAIN g = {"vlist", "elist"} /\ IsCSR(g.vlist, g.elist)
    /\ RowCount(g.vlist) >= vertex_cnt
    /\ \A r \in 0 .. RowCount(g.vlist) - 1 :
          \A e \in g.vlist[r + 1] + 1 .. g.vlist[r + 2] :
             g.elist[e] < IF r < vertex_cnt THEN RowCount(g.vlist) ELSE r

VARIABLES
    pc,              \* "index", "scan", "parents", "children", "emit", "done"
    vlist, elist,    \* the argument
    accumulate,      \* the frequency of a child is added to (+=), not set (=)
    graph, graphT,   \* rows, and for every row number the rows that mention it
    rif,             \* length and frequency of every rule
    merge_flag,      \* rules that are merged
    i, j,            \* loop indices
    new_vlist, new_elist

vars == <<pc, vlist, elist, accumulate, graph, graphT, rif, merge_flag, i, j, new_vlist, new_elist>>

rule_cnt == RowCount(vlist) - vertex_cnt
RowIds == 0 .. vertex_cnt + rule_cnt - 1
Rules == 0 .. rule_cnt - 1
ID == i + vertex_cnt

(* Mutant: a rule that saves just the threshold is kept.                   *)
judgeRuleStrict(len, freq) == (freq - 1) * (len - 1) - 1 < threshold

judgeRule(len, freq) == (freq - 1) * (len - 1) - 1 <= threshold

Init ==
    /\ \E g \in Inputs : vlist = g.vlist /\ elist = g.elist
    /\ accumulate \in Copies
    /\ graph = [r \in RowIds |-> Row(vlist, elist, r)]
    /\ graphT = [r \in RowIds |-> <<>>]
    /\ rif = [r \in Rules |-> [len |-> 0, freq |-> 0]]
    /\ merge_flag = [r \in Rules |-> FALSE]
    /\ pc = "index" /\ i = 0 /\ j = 1
    /\ new_vlist = <<>> /\ new_elist = <<>>
-----------------------------------------------------------------------------
Positions(s, x) == {p \in 1 .. Len(s) : s[p] = x}

(* Mutant: the end of a row is taken to be its last entry.                 *)
MentionCountPastEnd(r, x) ==
    Cardinality({e \in vlist[r + 1] + 1 .. vlist[r + 2] + 1 : e <= Len(elist) /\ elist[e] = x})

MentionCount(r, x) == Cardinality(Positions(graph[r], x))

(* One row of the loop that notes where every symbol is mentioned.         *)
csr_convert_idx ==
    /\ pc = "index" /\ i \in RowIds
    /\ graphT' = [x \in RowIds |->
           graphT[x] \o [n \in 1 .. MentionCount(i, x) |-> i]]
    /\ i' = i + 1
    /\ UNCHANGED <<pc, vlist, elist, accumulate, graph, rif, merge_flag, j, new_vlist, new_elist>>

initInfoForRule ==
    /\ pc = "index" /\ i \notin RowIds
    /\ rif' = [r \in Rules |->
           [len |-> Len(graph[r + vertex_cnt]), freq |-> Len(graphT[r + vertex_cnt])]]
    /\ merge_flag' = [r \in Rules |-> judgeRule(rif'[r].len, rif'[r].freq)]
    /\ pc' = "scan" /\ i' = 0
    /\ UNCHANGED <<vlist, elist, accumulate, graph, graphT, j, new_vlist, new_elist>>

(* The loop of filter_csr: rule i is kept, or mergeRule begins.            *)
Keep ==
    /\ pc = "scan" /\ i \in Rules /\ ~merge_flag[i]
    /\ i' = i + 1
    /\ UNCHANGED <<pc, vlist, elist, accumulate, graph, graphT, rif, merge_flag, j, new_vlist, new_elist>>

BeginMerge ==
    /\ pc = "scan" /\ i \in Rules /\ merge_flag[i]
    /\ pc' = "parents" /\ j' = 1
    /\ UNCHANGED <<vlist, elist, accumulate, graph, graphT, rif, merge_flag, i, new_vlist, new_elist>>

IsFirst(p, s, x) == p \in Positions(s, x) /\ \A q \in Positions(s, x) : p <= q
Spliced(s, p, part) == SubSeq(s, 1, p - 1) \o part \o SubSeq(s, p + 1, Len(s))

(* What a changed length or frequency means for the flag of rule r.        *)
Judged(r, info) ==
    /\ rif' = [rif EXCEPT ![r] = info]
    /\ merge_flag' = [merge_flag EXCEPT ![r] = judgeRule(info.len, info.freq)]

(* mergeRule, first loop: the row of the rule takes the place of its first *)
(* mention in the row node.                                                *)
MergeParent ==
    /\ pc = "parents" /\ j <= Len(graphT[ID])
    /\ LET node == graphT[ID][j]
           r == node - vertex_cnt
       IN  /\ \E p \in 1 .. Len(graph[node]) :
                 /\ IsFirst(p, graph[node], ID)
                 /\ graph' = [graph EXCEPT ![node] = Spliced(@, p, graph[ID])]
           /\ IF node >= vertex_cnt
              THEN Judged(r, [rif[r] EXCEPT !.len = @ + Len(graph[ID]) - 1])
              ELSE UNCHANGED <<rif, merge_flag>>
    /\ j' = j + 1
    /\ UNCHANGED <<pc, vlist, elist, accumulate, graphT, i, new_vlist, new_elist>>

ParentsDone ==
    /\ pc = "parents" /\ j > Len(graphT[ID])
    /\ pc' = "children" /\ j' = 1
    /\ UNCHANGED <<vlist, elist, accumulate, graph, graphT, rif, merge_flag, i, new_vlist, new_elist>>

(* Mutant: the merged mention is taken off once more.                      *)
ChildFreqShort(r, size) == size - 1

(* The frequency of child rule r, which size rows now mention.             *)
ChildFreq(r, size) == IF accumulate THEN rif[r].freq + size ELSE size

(* mergeRule, second loop: the rows that mention the rule now mention its  *)
(* entry child directly.                                                   *)
MergeChild ==
    /\ pc = "children" /\ j <= Len(graph[ID])
    /\ LET child == graph[ID][j]
           r == child - vertex_cnt
       IN  /\ \E p \in 1 .. Len(graphT[child]) :
                 /\ IsFirst(p, graphT[child], ID)
                 /\ graphT' = [graphT EXCEPT ![child] = Spliced(@, p, graphT[ID])]
           /\ IF child >= vertex_cnt
              THEN Judged(r, [rif[r] EXCEPT !.freq = ChildFreq(r, Len(graphT'[child]))])
              ELSE UNCHANGED <<rif, merge_flag>>
    /\ j' = j + 1
    /\ UNCHANGED <<pc, vlist, elist, accumulate, graph, i, new_vlist, new_elist>>

ChildrenDone ==
    /\ pc = "children" /\ j > Len(graph[ID])
    /\ pc' = "scan" /\ i' = i + 1
    /\ UNCHANGED <<vlist, elist, accumulate, graph, graphT, rif, merge_flag, j, new_vlist, new_elist>>
-----------------------------------------------------------------------------
(* The new graph.                                                          *)

(* Mutant: merged rules are counted as well.                               *)
newRuleIdAll(r) == vertex_cnt + r

newRuleId(r) == vertex_cnt + Cardinality({q \in 0 .. r - 1 : ~merge_flag[q]})

Renamed(x) == IF x >= vertex_cnt THEN newRuleId(x - vertex_cnt) ELSE x

BeginEmit ==
    /\ pc = "scan" /\ i \notin Rules
    /\ pc' = "emit" /\ i' = 0 /\ new_vlist' = <<0>>
    /\ UNCHANGED <<vlist, elist, accumulate, graph, graphT, rif, merge_flag, j, new_elist>>

(* One row: a merged rule is left out.                                     *)
genNewGraphCSR ==
    /\ pc = "emit" /\ i \in RowIds
    /\ IF i >= vertex_cnt /\ merge_flag[i - vertex_cnt]
       THEN UNCHANGED <<new_vlist, new_elist>>
       ELSE /\ new_elist' = new_elist \o [e \in 1 .. Len(graph[i]) |-> Renamed(graph[i][e])]
            /\ new_vlist' = Append(new_vlist, Len(new_elist'))
    /\ i' = i + 1
    /\ UNCHANGED <<pc, vlist, elist, accumulate, graph, graphT, rif, merge_flag, j>>

Return ==
    /\ pc = "emit" /\ i \notin RowIds
    /\ pc' = "done"
    /\ UNCHANGED <<vlist, elist, accumulate, graph, graphT, rif, merge_flag, i, j, new_vlist, new_elist>>

Terminated == pc = "done" /\ UNCHANGED vars

Next ==
    \/ csr_convert_idx \/ initInfoForRule
    \/ Keep \/ BeginMerge
    \/ MergeParent \/ ParentsDone \/ MergeChild \/ ChildrenDone
    \/ BeginEmit \/ genNewGraphCSR \/ Return
    \/ Terminated

Spec == Init /\ [][Next]_vars
-----------------------------------------------------------------------------
(* Properties.                                                             *)

PCs == {"index", "scan", "parents", "children", "emit", "done"}

(* Rows hold row numbers, mentions are row numbers, lengths and            *)
(* frequencies are not negative.                                           *)
TypeOK ==
    /\ pc \in PCs /\ IsCSR(vlist, elist) /\ rule_cnt \in Nat
    /\ graph \in [RowIds -> Seq(RowIds)] /\ graphT \in [RowIds -> Seq(RowIds)]
    /\ rif \in [Rules -> [len : Nat, freq : Nat]] /\ merge_flag \in [Rules -> BOOLEAN]
    /\ i \in 0 .. vertex_cnt + rule_cnt /\ j \in Nat \ {0}
    /\ new_vlist \in Seq(Nat) /\ new_elist \in Seq(Nat)

EveryRuleUsed == \A r \in Rules : Positions(elist, r + vertex_cnt) # {}
Scanning == pc \in {"scan", "parents", "children"}

(* Every find() of mergeRule finds: erase() is never given end().          *)
FindNeverFails ==
    /\ pc = "parents" /\ j <= Len(graphT[ID]) => Positions(graph[graphT[ID][j]], ID) # {}
    /\ pc = "children" /\ j <= Len(graph[ID]) => Positions(graphT[graph[ID][j]], ID) # {}

(* A decision stands: mergeRule, which judges the neighbours of a rule     *)
(* again, never changes the flag of a rule the loop has passed.  (A rule   *)
(* that nothing mentions takes the frequency of its entries down when it   *)
(* is merged; with freq = size() this can set the flag of a rule that was  *)
(* kept, hence the condition.)                                             *)
DecisionsStand ==
    [][Scanning /\ (accumulate \/ EveryRuleUsed) =>
         \A r \in 0 .. i - 1 : merge_flag'[r] = merge_flag[r]]_vars

(* Writing out len entries at each of freq mentions would take over        *)
(* threshold more entries than the mentions and the row of the rule.       *)
Pays(len, freq) == freq * len > freq + len + threshold

(* A rule that is kept pays.  Its row is final when the loop comes to it,  *)
(* and it pays with that row and the mentions it has in the argument.  In  *)
(* the new graph it pays if the argument has no rule without a mention:    *)
(* such a rule is merged into nothing, which takes mentions from rules     *)
(* that were judged by them, and they stay.  (With freq = size() they may  *)
(* even be dropped, hence the first condition; see DecisionsStand.)        *)
KeptRulesPay ==
    pc = "done" /\ (accumulate \/ EveryRuleUsed) =>
        /\ \A r \in Rules : ~merge_flag[r] =>
              Pays(Len(graph[r + vertex_cnt]), Cardinality(Positions(elist, r + vertex_cnt)))
        /\ EveryRuleUsed =>
              \A r \in vertex_cnt .. RowCount(new_vlist) - 1 :
                  Pays(Len(Row(new_vlist, new_elist, r)), Cardinality(Positions(new_elist, r)))

(* "update freq of child node if the child node is rule" (line 64): the    *)
(* frequency of a rule is the number of its mentions.                      *)
FreqIsCount ==
    pc = "scan" => \A r \in Rules :
        ~merge_flag[r] => rif[r].freq = Len(graphT[r + vertex_cnt])
=============================================================================
