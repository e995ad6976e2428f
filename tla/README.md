# A TLA+ model of Laconic

Laconic compresses graphs by rules: a pair of neighbours that occurs often gets
a row of its own, and a reference to that row takes its place. This directory
models the program in TLA+, model-checks it with TLC on small graphs, and proves
part of it with TLAPS for every number of threads, turns and inputs.

## 1. The system

A graph is a CSR pair: `vlist` (one offset per row and a closing sentinel) and
`elist` (the rows, concatenated). Rows `0 .. n-1` are vertices, later rows are
rules; an entry `>= n` stands for the entries of that row.

    csr files ──> parallel compressor ─────────────────> (rule filter) ─┐
                                                                        ├──> compressed CSR
    csr files ──> tiles ──> serial Re-Pair ──> merge ──> rule filter ───┘
    compressed CSR ──> checker
                   ──> depth filter, orders and masks, fusion, norms, splices (GNN use)
                   ──> reorder ──> encoder (Ligra+)

The parallel program has its own copies of the filter and the checker; the calls
to them in `src/compress.cc` are commented out (from line 61 on), so that they are run
only when these are put back. The models cover them all the same.

`S/` below is `src/Re-Pair&Laconic_serial/rule_compress/compress_op/`, `P/` is
`src/Laconic_parallel/`.

| part | source | modules |
|---|---|---|
| parallel compressor | `P/core/compress.h`, `hash.h` | `ParallelRepair` |
| rule filter, both copies | `P/core/filter.h`, `S/filter.h` | `RuleFilter` |
| serial Re-Pair | `S/compress.h`, `S/compress/*.cc` | `PairStore`, `SerialRepair` |
| tiles and merge | `Laconic_serial_compression.py`, `Re-Pair.py`, `S/merge.h` | `SerialPipeline` |
| depth filter | `S/depth_filter.h` | `DepthFilter`, `GraphTools` |
| orders, masks | `S/gen_mask.h` | `VertexOrder`, `GraphTools` |
| fusion | `S/fusion.h` | `Fusion`, `GraphTools` |
| normalisation, self loops | `S/norm.h`, `S/add_self_loop.h` | `GcnNorm`, `GraphConvert`, `GraphTools` |
| conversions, splicing | `S/convert.h`, `S/util.h`, `S/splice.h`, `S/get_part_graph_info.h` | `GraphConvert`, `Splice`, `GraphTools` |
| checkers, both copies | `S/check.h`, `P/core/check.h` | `Checker`, `GraphTools` |
| reordering | `bfs_reorder.py` | `Reorder` |

What is hard here: forty threads that number rules and rewrite slices through
shared hash maps without locks; state that survives a turn; unsigned bounds that
wrap; two adjacency structures that must stay transposes of each other while
rows are inlined; in the serial engine, records that move while lists, heap and
hash refer to them by number, in the middle of a walk over those very lists; and
loops that end only when a count is reached. `PROJECT.json` lists each of these
at its line.

## 2. Modules

Shared:

- `CSR`: offsets, rows, shifting.
- `Expansion`: what a compressed graph stands for (`Decompress`). It keeps the
  order of the neighbours.
- `Grammar`: the abstract specification of a compressor. `Turn` is any rewriting
  in which every new row is a pair of older symbols and undoing one level gives
  the old rows back.

Parallel program:

- `ParallelRepair`: the constructor `Repair::Repair`. `pc` is where the main
  thread is; `running` are the spawned threads that have not returned. One
  action per serial section of main (`AllocatePairs`, `StartId`, `Split`,
  `MergeBatch`, `MergeRole`, `FinishTurn`), per loop iteration of a thread
  (`prepare_new_id`, `replaceRow`, `replace`), per spawn and per join.
  `processpairs` is one step: it touches only its own table. `prepare_new_id`
  takes the entries of its hash map in any order. In `replace`, the lookup with
  `operator[]` is modelled with its insertion of missing keys. A slice's offsets
  are kept as they are in `input_vertex` and the subtraction of the first one is
  done where they are read. The lists of pairs are bags, since only counts are
  taken from them.
- `RuleFilter`: `filter_csr` of both packages, one iteration of each loop per
  step. The variable `accumulate` is the one difference between the copies:
  `freq +=` in the parallel program, `freq =` in the serial package.

Serial package:

- `PairStore`: the four structures of `S/compress/`: records, open-addressing
  table with deletion marks, frequency heap and the occurrence lists through the
  text. They are one record value; each C function (`insertRecord`,
  `removeRecord`, `incFreq`, `decFreq`, `purgeHeap`, `extractMax`, `insertHash`,
  `deleteHash`, ...) is an operator from store to store. The heap has an array per
  low frequency. For the high ones the doubly linked list of frequency nodes is a
  sequence (`ff`), each node with the sequence of its cells, in the order the
  insertions of the code give it; the free cells are a sequence (`freef`), as the
  record of a cell is found by the cell's number; the free nodes are only counted
  (`freeff`), and the `fnode` of a cell is the node that lists it. Where the code
  takes a cell or a node without looking whether one is left, so does the model,
  and `HeapHoldsRecords` says that one always is.
- `SerialRepair`: `compress_csr`. `prepare` takes one position of the text per
  step; a turn of `repair` takes the most frequent pair and then replaces its
  occurrences one at a time, the right-hand neighbour and the left-hand neighbour
  in a step each (`"right"`, `"left"`), since records are moved and removed
  between the two; the end of a turn purges the heap and squeezes the holes out
  when the code does. A hole is a negative number that points over it, as in
  the code.
- `SerialPipeline`: the script around it. It extends `SerialRepair`: a part is
  cut off (`CompressPart`), the engine runs (`Working`), its result is appended
  (`Collect`), and `merge_` puts the parts together one by one.
- `VertexOrder`, `Fusion`, `DepthFilter`, `GraphConvert`, `GcnNorm`, `Splice`,
  `Checker`: the other functions of the Python module, as operators. A weight is
  the sequence of the factors multiplied into it, a mask the set of what it
  selects. `PrefixLen`, `FromRows` and the like are notation, not code.
- `GraphTools`: one call of any of these on a compressed graph. The loops
  without an index (`gen_edge_order`, `gen_fusion_vertex_order`) are one round
  per step, `depth_filter_csr` one level of rules per step; the threads of
  `coo_convert` append their blocks in any order. `gen_mask_vertex` is called
  with its assertion compiled in and without (`NDEBUG`).
  The OpenMP loops of `gcn_norm_csr`, `gcn_norm_csr_compress` and
  `gcn_norm_coo_compress` share all their variables but the loop index among the
  threads, a data race. Their threads take one statement at a time, over the
  ranges of libgomp's static schedule, with each shared variable `kept` in
  registers (a copy per thread, which is what GCC makes of the loops with the
  `-O3` of `setup.py`: the build in the repository writes them back only after
  the loop) or in memory (one copy). An index behind the end of a list is a crash.
- `Reorder`: the script `bfs_reorder.py`. The loop over the roots, one `bfs` step
  per row taken from the list, one `Scan` per neighbour, then one step per row
  written. Its `n` is the number of rows, `n - 1` in the script.

`MC*` modules hold the small graphs and the properties that need `Decompress`;
`MCParallelRepair` also holds the refinement mapping to `Grammar`.
`CSRProofs`, `ParallelRepairShape`, `ParallelRepairProofs`, `ReorderProofs`,
`DivisionFacts`, `SerialPipelineProofs` and `GraphConvertProofs` are the proofs.

How the parts fit together is checked by what each promises the next:
`MergedFitsFilter` gives the assumption that `RuleFilter`'s serial copy and
`GraphTools` make of their input (rules mention older rules only, every rule is
mentioned), and `Lossless`, `MergeLossless`, `FilterLossless` and
`DepthFilterLossless` speak of the same `Decompress`.

A definition whose comment begins with "Mutant" is a deliberately wrong variant
of the definition after it; with the variant in its place, TLC finds the property
named for it in `PROJECT.json` violated.

## 3. Runs

| run | what it shows |
|---|---|
| `parallel` | 2 threads, 2 turns, threshold 2, 625 graphs of 4 rows (779,855 states). `Lossless`: at the end of each turn the graph expands to the one that was loaded. `IdsUnique`, `RuleRowsMatchIds`: numbers given concurrently are distinct, are not those of existing rows, and name the right rows. `ReplaceOnlyReads`: the lock-free lookups write nothing. `CrashOnlyIfIllShaped`: only an empty first row, or a thread without rows or edges, leads out of bounds. |
| `turns` | 3 threads, 3 turns (80,086 states). `TurnsAreRewritings`: refinement of `Grammar`. `Termination`: every join returns. |
| `stale_counts` | Violation. `pair_buckets` survives the turn, so rules are made of pairs that are no longer frequent. |
| `wrap` | Violation. With an empty first row, pairs across rows are counted. |
| `filter` | Both copies on 720 graphs with 2 vertices and 4 nested rules (45,128 states). `FilterLossless`, `KeptRulesPay`: a rule that is kept saves more than `threshold` entries, `FindNeverFails`, and `DecisionsStand`: re-judging never revokes a decision. |
| `filter_freq` | Violation. With `+=`, the stored frequency is not the number of mentions. The graph written is right nevertheless. |
| `serial` | 560 graphs of 3 vertices, 1 to 4 parts (141,590 states). `TextLossless`: the text stands for the input after every single replacement. `RecordsMatchText`: between turns every record has exactly the places of its pair, and no pair that stands twice has lost its record. `HashFinds`: a search ends, with the right record. `OidStays`: the record number held through a turn survives the removals in it. `HeapHoldsRecords`, `TakesMostFrequent`: the heap points back at every record, its nodes are in the order of their frequencies, neither cells nor nodes get lost or run out, and it hands out a most frequent pair. `MergeLossless`, `MergedFitsFilter`: the merged graph is the input compressed, in the shape the filter needs. `IndexErrorOnlyWithManyParts`. `Returns`: every call of `compress_csr` ends. |
| `search_returns` | Violation. In a table that starts with four slots and has eight by then, deletion marks use up the empty slots, and a search for an absent pair does not end. |
| `tools` | Every other function of the Python module on 216 compressed graphs (212,039 states). `OrderFollowsMentions`, `FusionOrdered`: masks respect who mentions whom. `WeightsMultiply`: normalising and compressing commute, however the threads interleave. `FormatsAgree`, `SplicedRowsDecode`. `CheckExact`: the checker accepts exactly the right graphs in whatever order threads append. `DepthFilterLossless`, and `LevelsJudgedLast`: a level is judged by the entries its rules have in the end. `LoopsProgress`: the counting loops advance in every round, so they end. |
| `mask_assertion` | Violation. `gen_mask_vertex` asserts that its `graph_type` is neither of the two it handles. |
| `reorder` | 625 graphs of 4 rows, connected or not, with cycles, loops and repeated entries (16,357 states). `NumberingIsPermutation`, `OutputIsRenaming`, and `TypeOK`, which says no array is indexed out of bounds. A graph without edges ends the script at once: `np.max` raises `ValueError`. |
| `bfs_order` | Violation. What the script calls BFS takes the newest entry first, so a farther row can get a smaller number. |

Conditions in the properties:

- `Lossless` and `RuleRowsMatchIds` are stated for inputs that pass the
  constructor's own check (`GoodInput`): for others the program prints "bad
  input!" and continues, and the numbers of new rules then differ from their rows.
- `IdsUnique` says of every input that the numbers are distinct and above
  `max_id`. That they are numbers of no existing row is stated for good inputs
  and, on any input, from the second turn on: in the first turn on a bad input
  `max_id` is the largest symbol, and rows that no entry names have numbers above.
- `FilterLossless`, `DecisionsStand` and `KeptRulesPay` assume, for the serial
  copy only, that every rule is mentioned. Without it they are false: merging an unmentioned rule
  lowers the frequency of its entries, which can flag a rule that the loop had
  kept. `MergedFitsFilter` shows that the serial compressor makes no such rule.
  The parallel one can (`stale_counts`), and its own copy of the filter, which
  never lowers a frequency, is safe for them. `KeptRulesPay` counts the mentions
  in the argument, and, when every rule is mentioned, also those in the new graph;
  otherwise mentions in rules that were merged into nothing are gone from it.
  `GraphTools` makes the same assumption (`EveryRuleReached`): a rule nothing
  mentions keeps the order `INIT`, an index far outside of the level counts.
- The loop index of `merge_` is not initialised; the model starts at any part.
  `MergeLossless` says for each start what is left: the rows of the parts before
  are lost, the others move up. `MergedFitsFilter` is stated for start 0.
- `WeightsMultiply` is stated for threads with registers of their own, and for
  threads on one copy in memory that happen not to overlap. Overlapping on one
  copy, they give wrong weights, leave some unwritten, or crash; TLC reaches all
  three.
- `FormatsAgree` says of `add_self_loop_coo`, which reads on behind its input,
  exactly when its result is right: when the memory there does not hold the number
  of the last source, or holds just the loop that would have been added.

Bounds:

- Threads and turns. Two threads with two rows each give slices with a first, a
  last and an only row, with and without edges; tables are chosen by `left % 2`,
  so pairs of one table and of both occur. Runs of one symbol give overlapping
  pairs. Two turns are enough for state to survive a turn, three for rules of
  rules of rules and for the last thread's slice to hold rules of two ages.
  `Word` (2^32 in the code) is 64, larger than every symbol that occurs, which
  is what packing needs. Threshold 2 instead of 4 lets small graphs have frequent
  pairs.
- Serial engine. The rows are put together from blocks with runs, overlaps and
  repeated pairs, 16 to 24 symbols for a whole graph, so that records are purged, moved and
  renumbered, high frequencies use cells, holes grow together and the text is
  compacted; 48 longer ones have pairs of several high frequencies, so that
  frequency nodes are created, joined, split and given back at either end.
  `HashSize` is 65,536 in the code; 16 gives a table of 32 slots with collisions
  and marks that stays clear of `search_returns`, 2 (in that run) one that starts
  with four slots and grows. `HashOf`
  stands for the multiplicative hash; the one chosen here makes pairs collide.
  `NullFreq` and `Unset` stand for the least integer and for what `malloc` leaves.
- Parts: three vertices in 1 to 4 parts gives empty tiles, a tile that ends at the
  last vertex, and one that starts behind it.
- Tools: three threads, and graphs from a handful of edges up, give full,
  cut-off and empty blocks; `num_p` of 0, 1 and 3; at most two entries are read past
  an array. Rules are up to four levels deep, and `max_depth` and `min_edge` run
  from none to all of them. Two threads of `gcn_norm` on four small graphs with
  registers, on the smallest with one copy in memory; one thread on all.

No symmetry is used: threads are ordered by the ranges they are given, and
symbols by `<`.

Fairness. `Termination` assumes weak fairness of main and of each thread: an
operating system runs each runnable thread eventually, and no thread blocks on
another except main in `join`. `Returns` assumes that the single-threaded
script goes on until it stops (`Fairness` in `SerialPipeline`, weak fairness of
`Next` with its enabling condition written out). `LoopsProgress` needs none: it
says that each round brings a bounded count nearer to its end.

Deadlock is checked in every run; the end of the program and a crash are explicit
(`Terminated`).

## 4. Proofs

For every `thread_num`, `threshold`, `compress_rate`, `Word` and every set of CSR
inputs (the named assumptions in `ParallelRepair`):

- `TypeCorrect`: `Spec => []TypeOK`.
- `UniqueIds`: `Spec => []IdsUnique`.
- `LookupsOnlyRead`: `Spec => ReplaceOnlyReads`.

All three follow from `Invariance`: `Spec => []IInv`, with
`IInv == ShapeInv /\ RoleInv /\ IdInv`; `UniqueIds` also needs `MaxInv`.

- `ShapeInv` (module `ParallelRepairShape`) is about data: `GraphInv` says the
  graph of the turn is CSR, or, while main puts it together, a list of offsets
  into what is there; `SliceInv` that the slices are parts of it; `OutputInv` that
  a thread's output offsets are sorted and in range. `TypeOK` alone is not
  inductive: that a row's end is a natural number, and that `replace` reads inside
  its slice, needs the offsets to be sorted, through the cut and the merge.
- `RoleInv`: the rows of the rules are pairs, at offsets 0, 2, 4, ...
- `IdInv`: thread `t` numbers from a range of its own. `RangeStart(t)`, the next
  number less the rows already written, does not change while it runs; ranges are
  disjoint because main spaces them by the sizes of the hash tables; and a thread
  has numbered exactly the keys its iterator has passed. The last fact gives
  `LookupsOnlyRead`: once all have returned, every key has a number.
- `MaxInv`: on a good input, and on every input from the second turn on, there are
  no more rows than `max_id + 1` from the beginning of a turn until main takes the
  graph apart. It is what turns "above `max_id`" into "not an existing row".

`CSRProofs` holds the lemmas on offsets and parts of sequences: concatenating a
shifted list, appending, cutting. Each action has one lemma per part of the invariant.

For every graph whose entries are numbers of rows (`ReorderInputs`), in
`ReorderProofs`:

- `InBounds`: `Spec => []TypeOK` of `Reorder`.
- `Permutation`: `Spec => []NumberingIsPermutation`.
- `Renaming`: `Spec => []OutputIsRenaming`.

The strengthening (`QueueInv`, `NumberInv`, `ProgressInv`, `EntriesInv`) says that
the list holds exactly the visited rows without a number, each once. Two counting
lemmas do the rest: `OneLeft` (a row waiting in the list means a number is left,
so `new_id` stays in bounds) and `AllCovered` (all rows visited and the list empty
means all numbers are given out). `Renaming` adds `OutputInv`: the rows written so
far are the renamed ones in the new order; `RowAppended` says that a row written
behind the others leaves them as they were.

For every number of vertices, every `part_num` and every set of graphs
(`PartNumsAssumption`, `MaxSymbolAssumption`), in `SerialPipelineProofs`:

- `IndexErrorNeedsManyParts`: `Spec => []IndexErrorOnlyWithManyParts`. The
  invariant `PipeInv` adds that the script stops there at an index below
  `part_num` and at a tile that starts behind the last vertex; the lemma
  `TileBeyond` turns this into `part_num * (part_num - 1) > vertex_cnt`. It rests
  on the two facts about division and products in `DivisionFacts`.

For every number of edges and of threads, in `GraphConvertProofs`:

- `BlocksPartitionEdges`: each edge is in the block of exactly one thread of
  `coo_convert`. The lemma `BlocksReach` says that the rounded-up blocks cover
  the list.

Only model-checked:

- what rests on expanding rules, which is recursive over the graph, since the prover
  has no induction over data: `Lossless`, `TurnsAreRewritings`, `FilterLossless`,
  `TextLossless`, `MergeLossless`, `DepthFilterLossless`, `WeightsMultiply`,
  `CheckExact` (its module also has a `RECURSIVE` operator);
- the consistency of the pair store (`RecordsMatchText`, `HashFinds`, `OidStays`,
  `HeapHoldsRecords`, `TakesMostFrequent`), whose chains and probe sequences are
  recursive too;
- `RuleRowsMatchIds`, `CrashOnlyIfIllShaped`, and the other properties of the filters and tools;
- liveness (`Termination`, `Returns`) and `LoopsProgress`.

## 5. What the modelling showed

The six violation runs each contradict a line of the source; `PROJECT.json`
quotes it.

- `pair_buckets` is not emptied between turns (`stale_counts`). Rules that nothing
  mentions are the consequence; the graph stays right.
- An unsigned bound wraps when the first row is empty (`wrap`).
- The parallel filter overstates frequencies (`filter_freq`), without effect on
  the correctness of the graph.
- `searchHash` ends only at a slot that was never used, and growth does not count
  deletion marks (`search_returns`). The table of the run starts with four slots
  and has eight, six of them marks, when a search in the second turn goes round
  for ever; the program's first table has 131,072, so that it takes correspondingly
  many insertions and deletions without a growth between them. The source calls
  the policy "ok for this application where #pairs rarely decreases".
- The traversal called BFS is not breadth first (`bfs_order`).
- `gen_mask.h:240` asserts `graph_type != "csc" && graph_type != "csr"`, the only
  two values the function handles (`mask_assertion`). `setup.py` does not turn
  assertions off; the flags Python itself passes for extension modules usually
  do, and the build in the repository has none. Without it the masks are right.

Further observations, about which the repository makes no claim to check:

- Fusion orders rules rightly (`FusionOrdered`), but a *vertex* can make its next
  propagation before it has heard every neighbour: `AC` counts messages, and a
  sender may be one propagation ahead. With rows `0:[]`, `1:[4,4]`, `2:[0]`,
  rules `3=[0,1]`, `4=[3,3]` and `num_p = 2`, vertex 0 counts vertex 2 twice and
  rule 3 not at all.
- The comments on lines 21 and 23 of `bfs_reorder.py` describe each map as the
  other: in the code `new_vertex_id` gives the old number of a new one, and
  `reverse_id` the new number of an old one. The script uses them consistently
  (`OutputIsRenaming`).
- The variables that OpenMP threads share in `norm.h` are harmless only because the
  compiler keeps them in registers (`WeightsMultiply`).
- In the depth filter the second loop of `mergeRule`, which changes the counts of
  deeper levels, has no effect: those levels have been decided.

## 6. Not modelled

- File input and output, printing and timing: `P/core/IO.h` but for the largest
  symbol, `S/graphIO.h`, `gen_csr.py`, and the argument conversion of
  `function.cpp`.
- Code that nothing calls: `P/core/atomic.h`, `decompress` and `check` in
  `P/core/check.h`, and `genNewGraphCOO` in `S/util.h`.
- Reallocation of arrays, which changes no value, and the allocation wrappers of
  `S/compress/basics.cc`, which leave the program when memory runs out.
- Rounding: a weight is the list of its factors.
- Overflow of 32-bit symbols, which needs graphs beyond any bound TLC can reach.
- The vendored hash maps, used as finite maps in any iteration order.
