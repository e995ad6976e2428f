--------------------------- MODULE ParallelRepair ---------------------------
(***************************************************************************)
(* The parallel Re-Pair compressor: the constructor repair::Repair and the *)
(* three thread bodies of repair::processor in                             *)
(* Laconic_parallel/core/compress.h.  The main thread runs compress_rate   *)
(* turns; in a turn it spawns and joins three groups of thread_num         *)
(* threads, which count pairs, number the frequent ones, and rewrite the   *)
(* graph.  Rows are numbered as in CSR; threads are 0 .. thread_num - 1.   *)
(***************************************************************************)
EXTENDS CSR, FiniteSets

CONSTANTS
    thread_num,      \* 40 in the code
    threshold,       \* a pair counted at least this often becomes a rule (4)
    compress_rate,   \* number of turns (3)
    Word,            \* 2^32: symbols are DTYPE, a pair is packed in two words
    Inputs           \* the graphs the program may be started on

ASSUME ThreadNumAssumption == thread_num \in Nat \ {0}
ASSUME ThresholdAssumption == threshold \in Nat \ {0}
ASSUME CompressRateAssumption == compress_rate \in Nat \ {0}
ASSUME WordAssumption == Word \in Nat \ {0}
ASSUME InputsAssumption ==
    \A g \in Inputs : DOMAIN g = {"vlist", "elist"} /\ IsCSR(g.vlist, g.elist)

VARIABLES
    pc,                  \* where the main thread is
    turn,                \* compress_turns
    origin,              \* input_vertex1 and input_edge1: the graph as loaded
    input_vertex, input_edge,                 \* the graph of this turn
    max_id,
    pair_buckets,        \* per thread: the bag of pairs it has to count
    hash_table,          \* per thread: count of every pair of its bucket
    new_start_id, convert_id,                 \* numbering of the new rules
    role_vertex, role_edge,                   \* rows of the new rules
    vertex_buckets, buckets,                  \* per thread: its slice of the graph
    new_vertex_sequence, new_edge_sequence,   \* per thread: the rewritten slice
    running,             \* threads spawned and not yet returned
    todo,                \* prepare_new_id: entries the iterator has not reached
    idx,                 \* replace: position in buckets; in main: the loop index
    k

graph == <<input_vertex, input_edge, max_id>>
tables == <<pair_buckets, hash_table>>
rules == <<new_start_id, convert_id, role_vertex, role_edge, todo>>
slices == <<vertex_buckets, buckets, new_vertex_sequence, new_edge_sequence, idx>>
vars == <<pc, turn, origin, graph, tables, rules, slices, running, k>>

Threads == 0 .. thread_num - 1

(* hash.h: the two symbols of a pair, packed; prepare_new_id unpacks them. *)
pair_hash(left, right) == left * Word + right
LeftOf(h) == h \div Word
RightOf(h) == h % Word

EmptyMap == [h \in {} |-> 0]
Lookup(map, h) == IF h \in DOMAIN map THEN map[h] ELSE 0
PerThread(x) == [t \in Threads |-> x]

(* The larger of the entries and 0, what load_edge_file returns.           *)
IsMaxSymbol(m, elist) ==
    /\ m = 0 \/ \E i \in 1 .. Len(elist) : m = elist[i]
    /\ \A i \in 1 .. Len(elist) : elist[i] <= m

Init ==
    /\ origin \in Inputs
    /\ input_vertex = origin.vlist /\ input_edge = origin.elist
    /\ max_id \in {0} \cup {origin.elist[i] : i \in 1 .. Len(origin.elist)}
    /\ IsMaxSymbol(max_id, origin.elist)
    /\ pc = "allocate" /\ turn = 1 /\ running = {} /\ k = 0
    /\ pair_buckets = PerThread(EmptyMap) /\ hash_table = PerThread(EmptyMap)
    /\ new_start_id = PerThread(0) /\ convert_id = PerThread(EmptyMap) /\ todo = PerThread({})
    /\ role_vertex = PerThread(<<>>) /\ role_edge = PerThread(<<>>)
    /\ vertex_buckets = PerThread(<<>>) /\ buckets = PerThread(<<>>) /\ idx = PerThread(0)
    /\ new_vertex_sequence = PerThread(<<>>) /\ new_edge_sequence = PerThread(<<>>)
-----------------------------------------------------------------------------
(* Turn, part 1: the pairs.                                                *)

(* Mutant: the bound of the loop counts from the start of the row.         *)
WrapsOnEmptyRow ==
    \E r \in 1 .. RowCount(input_vertex) : input_vertex[r + 1] = input_vertex[r]

(* The positions i of input_edge whose pair (i, i+1) the loop of a turn    *)
(* visits.  The bound input_vertex[idy+1] - 1 is unsigned: for a row that  *)
(* ends at offset 0 it wraps, and the loop runs through the whole of       *)
(* input_edge and past its end.                                            *)
Wraps == \E r \in 1 .. RowCount(input_vertex) : input_vertex[r + 1] = 0
PairPositions ==
    IF Wraps THEN 1 .. Len(input_edge) - 1
    ELSE {i \in 1 .. Len(input_edge) - 1 :
            \E r \in 1 .. RowCount(input_vertex) :
                input_vertex[r] < i /\ i < input_vertex[r + 1]}

PairAt(i) == pair_hash(input_edge[i], input_edge[i + 1])

BagSum(b, c) == [h \in DOMAIN b \cup DOMAIN c |-> Lookup(b, h) + Lookup(c, h)]
PairBag(t) ==
    LET P == {i \in PairPositions : input_edge[i] % thread_num = t}
    IN  [h \in {PairAt(i) : i \in P} |-> Cardinality({i \in P : PairAt(i) = h})]

(* Main, serially: every pair goes to the bucket of its left symbol.  The  *)
(* buckets are not emptied between turns.                                  *)
AllocatePairs ==
    /\ pc = "allocate"
    /\ pair_buckets' = [t \in Threads |-> BagSum(pair_buckets[t], PairBag(t))]
    /\ IF Wraps THEN pc' = "crashed" /\ running' = running
                ELSE pc' = "count" /\ running' = Threads
    /\ UNCHANGED <<turn, origin, graph, hash_table, rules, slices, k>>

(* Thread t: count the bucket, drop the pairs below the threshold.         *)
processpairs(t) ==
    /\ pc = "count" /\ t \in running
    /\ LET counted == BagSum(hash_table[t], pair_buckets[t])
       IN  hash_table' = [hash_table EXCEPT ![t] =
               [h \in {g \in DOMAIN counted : counted[g] >= threshold} |-> counted[h]]]
    /\ running' = running \ {t}
    /\ UNCHANGED <<pc, turn, origin, graph, pair_buckets, rules, slices, k>>

JoinCount ==
    /\ pc = "count" /\ running = {}
    /\ pc' = "start" /\ k' = 0
    /\ UNCHANGED <<turn, origin, graph, tables, rules, slices, running>>
-----------------------------------------------------------------------------
(* Turn, part 2: the numbers of the new rules.                             *)

(* Mutants: every thread starts behind the last symbol; one too far.       *)
FirstIdShared == max_id + 1
FirstIdLate ==
    IF k = 0 THEN max_id + 2
    ELSE new_start_id[k - 1] + Cardinality(DOMAIN hash_table[k - 1])

(* The first number of thread k: behind those of the thread before it.     *)
FirstId ==
    IF k = 0 THEN max_id + 1
    ELSE new_start_id[k - 1] + Cardinality(DOMAIN hash_table[k - 1])

(* Main, one iteration: thread k numbers its rules from new_start_id[k].   *)
StartId ==
    /\ pc = "start" /\ k < thread_num
    /\ new_start_id' = [new_start_id EXCEPT ![k] = FirstId]
    /\ k' = k + 1
    /\ UNCHANGED <<pc, turn, origin, graph, tables, convert_id, role_vertex,
                   role_edge, todo, slices, running>>

SpawnPrepare ==
    /\ pc = "start" /\ k = thread_num
    /\ pc' = "prepare" /\ running' = Threads
    /\ todo' = [t \in Threads |-> DOMAIN hash_table[t]]
    /\ UNCHANGED <<turn, origin, graph, tables, new_start_id, convert_id,
                   role_vertex, role_edge, slices, k>>

(* Thread t, one entry of its table.  A hash map has no order of its own.  *)
prepare_new_id(t) ==
    /\ pc = "prepare" /\ t \in running
    /\ \E h \in todo[t] :
        /\ convert_id' = [convert_id EXCEPT ![t] =
               [g \in DOMAIN @ \cup {h} |-> IF g \in DOMAIN @ THEN @[g] ELSE new_start_id[t]]]
        /\ new_start_id' = [new_start_id EXCEPT ![t] = @ + 1]
        /\ role_vertex' = [role_vertex EXCEPT ![t] = Append(@, 2 * Len(@))]
        /\ role_edge' = [role_edge EXCEPT ![t] = @ \o <<LeftOf(h), RightOf(h)>>]
        /\ todo' = [todo EXCEPT ![t] = @ \ {h}]
    /\ UNCHANGED <<pc, turn, origin, graph, tables, slices, running, k>>

(* Mutants: a thread returns at any entry; a thread tests for the end of   *)
(* its table only after an entry.                                          *)
ReturnPrepareEarly(t) ==
    /\ pc = "prepare" /\ t \in running
    /\ running' = running \ {t}
    /\ UNCHANGED <<pc, turn, origin, graph, tables, rules, slices, k>>
ReturnPrepareDoWhile(t) ==
    /\ pc = "prepare" /\ t \in running /\ todo[t] = {} /\ DOMAIN hash_table[t] # {}
    /\ running' = running \ {t}
    /\ UNCHANGED <<pc, turn, origin, graph, tables, rules, slices, k>>

ReturnPrepare(t) ==
    /\ pc = "prepare" /\ t \in running /\ todo[t] = {}
    /\ running' = running \ {t}
    /\ UNCHANGED <<pc, turn, origin, graph, tables, rules, slices, k>>
-----------------------------------------------------------------------------
(* Turn, part 3: rewriting the graph.                                      *)

(* len_vertex is the size of the vertex list as loaded: it is never        *)
(* updated, so the rules of earlier turns all fall to the last thread.     *)
thread_size == Len(origin.vlist) \div thread_num
SliceFirst(t) == t * thread_size              \* first row of the slice
SliceLast(t) ==                               \* row after the last
    IF t = thread_num - 1 THEN RowCount(input_vertex) ELSE (t + 1) * thread_size

(* Main: join, cut the graph in one slice per thread, spawn.               *)
Split ==
    /\ pc = "prepare" /\ running = {}
    /\ vertex_buckets' = [t \in Threads |->
           SubSeq(input_vertex, SliceFirst(t) + 1, SliceLast(t))]
    /\ buckets' = [t \in Threads |->
           SubSeq(input_edge, input_vertex[SliceFirst(t) + 1] + 1,
                  IF t = thread_num - 1 THEN Len(input_edge)
                  ELSE input_vertex[SliceLast(t) + 1])]
    /\ idx' = PerThread(0) /\ running' = Threads /\ pc' = "replace"
    /\ UNCHANGED <<turn, origin, graph, tables, rules, new_vertex_sequence,
                   new_edge_sequence, k>>

vidx(t) == Len(new_vertex_sequence[t])        \* rows begun so far

(* Mutant: the last row of a slice ends one entry early.                   *)
RowEndShort(t) ==
    IF vidx(t) < Len(vertex_buckets[t])
    THEN vertex_buckets[t][vidx(t) + 1] - vertex_buckets[t][1]
    ELSE Len(buckets[t]) - 1

RowEnd(t) ==
    IF vidx(t) < Len(vertex_buckets[t])
    THEN vertex_buckets[t][vidx(t) + 1] - vertex_buckets[t][1]
    ELSE Len(buckets[t])
InRow(t) == vidx(t) > 0 /\ idx[t] < RowEnd(t)

(* Thread t begins its next row.                                           *)
replaceRow(t) ==
    /\ pc = "replace" /\ t \in running /\ ~InRow(t)
    /\ vidx(t) < Len(vertex_buckets[t])
    /\ new_vertex_sequence' = [new_vertex_sequence EXCEPT ![t] =
           Append(@, Len(new_edge_sequence[t]))]
    /\ idx' = [idx EXCEPT ![t] = vertex_buckets[t][vidx(t) + 1] - vertex_buckets[t][1]]
    /\ UNCHANGED <<pc, turn, origin, graph, tables, rules, vertex_buckets, buckets,
                   new_edge_sequence, running, k>>

(* Thread t replaces a pair that has a rule or copies one entry.  The      *)
(* lookup convert_id[table][key] would insert 0 for a missing key.         *)
replace(t) ==
    LET left == buckets[t][idx[t] + 1]
        table == left % thread_num
        key == pair_hash(left, buckets[t][idx[t] + 2])
        id == Lookup(convert_id[table], key)
    IN
    /\ pc = "replace" /\ t \in running /\ InRow(t)
    /\ IF idx[t] + 1 < RowEnd(t) /\ key \in DOMAIN hash_table[table]
       THEN /\ new_edge_sequence' = [new_edge_sequence EXCEPT ![t] = Append(@, id)]
            /\ convert_id' = [convert_id EXCEPT ![table] =
                   [g \in DOMAIN @ \cup {key} |-> Lookup(@, g)]]
            /\ idx' = [idx EXCEPT ![t] = @ + 2]
       ELSE /\ new_edge_sequence' = [new_edge_sequence EXCEPT ![t] = Append(@, left)]
            /\ idx' = [idx EXCEPT ![t] = @ + 1]
            /\ UNCHANGED convert_id
    /\ UNCHANGED <<pc, turn, origin, graph, tables, new_start_id, role_vertex, role_edge,
                   todo, vertex_buckets, buckets, new_vertex_sequence, running, k>>

(* A slice without rows is read at offset 0, and a slice without edges is  *)
(* scanned up to size() - 1, which wraps: both dereference a null vector.  *)
replaceCrash(t) ==
    /\ pc = "replace" /\ t \in running
    /\ \/ vertex_buckets[t] = <<>>
       \/ buckets[t] = <<>> /\ vidx(t) = Len(vertex_buckets[t])
    /\ pc' = "crashed"
    /\ UNCHANGED <<turn, origin, graph, tables, rules, slices, running, k>>

ReturnReplace(t) ==
    /\ pc = "replace" /\ t \in running /\ ~InRow(t)
    /\ buckets[t] # <<>> /\ vidx(t) = Len(vertex_buckets[t]) /\ vidx(t) > 0
    /\ running' = running \ {t}
    /\ UNCHANGED <<pc, turn, origin, graph, tables, rules, slices, k>>
-----------------------------------------------------------------------------
(* Turn, part 4: main puts the slices and the rules together.              *)

JoinReplace ==
    /\ pc = "replace" /\ running = {}
    /\ input_vertex' = <<>> /\ input_edge' = <<>>
    /\ pc' = "merge" /\ k' = 0
    /\ UNCHANGED <<turn, origin, max_id, tables, rules, slices, running>>

MergeBatch ==
    /\ pc = "merge" /\ k < thread_num
    /\ input_vertex' = input_vertex \o Shift(new_vertex_sequence[k], Len(input_edge))
    /\ input_edge' = input_edge \o new_edge_sequence[k]
    /\ k' = k + 1
    /\ UNCHANGED <<pc, turn, origin, max_id, tables, rules, slices, running>>

BeginRoles ==
    /\ pc = "merge" /\ k = thread_num
    /\ pc' = "role" /\ k' = 0
    /\ UNCHANGED <<turn, origin, graph, tables, rules, slices, running>>

MergeRole ==
    /\ pc = "role" /\ k < thread_num
    /\ input_vertex' = input_vertex \o Shift(role_vertex[k], Len(input_edge))
    /\ input_edge' = input_edge \o role_edge[k]
    /\ k' = k + 1
    /\ UNCHANGED <<pc, turn, origin, max_id, tables, rules, slices, running>>

(* Mutant: one turn too many.                                              *)
NextTurnOnceMore ==
    IF turn <= compress_rate THEN pc' = "allocate" /\ turn' = turn + 1
                             ELSE pc' = "done" /\ turn' = turn

NextTurn ==
    IF turn < compress_rate THEN pc' = "allocate" /\ turn' = turn + 1
                            ELSE pc' = "done" /\ turn' = turn

(* Close the vertex list, clear what is local to the turn.                 *)
FinishTurn ==
    /\ pc = "role" /\ k = thread_num
    /\ input_vertex' = Append(input_vertex, Len(input_edge))
    /\ max_id' = Len(input_vertex) - 1
    /\ hash_table' = PerThread(EmptyMap) /\ convert_id' = PerThread(EmptyMap)
    /\ role_vertex' = PerThread(<<>>) /\ role_edge' = PerThread(<<>>)
    /\ new_vertex_sequence' = PerThread(<<>>) /\ new_edge_sequence' = PerThread(<<>>)
    /\ NextTurn
    /\ UNCHANGED <<origin, input_edge, pair_buckets, new_start_id, todo,
                   vertex_buckets, buckets, idx, running, k>>

(* The constructor has returned, or the process is gone.                   *)
Terminated == pc \in {"done", "crashed"} /\ UNCHANGED vars

Thread(t) ==
    \/ processpairs(t)
    \/ prepare_new_id(t) \/ ReturnPrepare(t)
    \/ replaceRow(t) \/ replace(t) \/ replaceCrash(t) \/ ReturnReplace(t)

Main ==
    \/ AllocatePairs \/ JoinCount
    \/ StartId \/ SpawnPrepare \/ Split
    \/ JoinReplace \/ MergeBatch \/ BeginRoles \/ MergeRole \/ FinishTurn

Next == Main \/ (\E t \in Threads : Thread(t)) \/ Terminated

Spec == Init /\ [][Next]_vars

(* The scheduler runs every thread that can run, the main one included.    *)
FairSpec == Spec /\ WF_vars(Main) /\ \A t \in Threads : WF_vars(Thread(t))
-----------------------------------------------------------------------------
(* Properties.                                                             *)

PCs == {"allocate", "count", "start", "prepare", "replace", "merge", "role",
        "done", "crashed"}

IsMap(m) ==
    /\ m = [h \in DOMAIN m |-> m[h]] /\ \A h \in DOMAIN m : m[h] \in Nat
    /\ DOMAIN m \subseteq Nat /\ IsFiniteSet(DOMAIN m)
MapPerThread(f) == f = [t \in Threads |-> f[t]] /\ \A t \in Threads : IsMap(f[t])

(* Every variable of the constructor has the type the code declares.       *)
TypeOK ==
    /\ pc \in PCs /\ turn \in 1 .. compress_rate /\ IsCSR(origin.vlist, origin.elist)
    /\ input_vertex \in Seq(Nat) /\ input_edge \in Seq(Nat) /\ max_id \in Nat
    /\ MapPerThread(pair_buckets) /\ MapPerThread(hash_table) /\ MapPerThread(convert_id)
    /\ new_start_id \in [Threads -> Nat] /\ todo \in [Threads -> SUBSET Nat]
    /\ role_vertex \in [Threads -> Seq(Nat)] /\ role_edge \in [Threads -> Seq(Nat)]
    /\ vertex_buckets \in [Threads -> Seq(Nat)] /\ buckets \in [Threads -> Seq(Nat)]
    /\ new_vertex_sequence \in [Threads -> Seq(Nat)]
    /\ new_edge_sequence \in [Threads -> Seq(Nat)]
    /\ idx \in [Threads -> Nat] /\ running \subseteq Threads /\ k \in 0 .. thread_num

(* The constructor compares the size of the vertex list with max_symbol+2, *)
(* prints "bad input!" when they differ and goes on.                       *)
GoodInput == IsMaxSymbol(Len(origin.vlist) - 2, origin.elist)

(* A row 0 with entries, and for every thread a slice with rows and edges. *)
WellShaped ==
    LET first(t) == t * thread_size
        last(t) == IF t = thread_num - 1 THEN RowCount(origin.vlist) ELSE first(t + 1)
    IN  /\ RowCount(origin.vlist) > 0 /\ origin.vlist[2] > 0
        /\ \A t \in Threads : /\ first(t) < last(t)
                              /\ origin.vlist[first(t) + 1] < origin.vlist[last(t) + 1]

(* No two pairs get the same number, although every thread numbers its own *)
(* table concurrently, and every number is above max_id.  On a good input, *)
(* and on any input from the second turn on, this means that no number is  *)
(* that of an existing row.  In the first turn on a bad input, whose last  *)
(* rows no entry names, max_id is below the last row, and numbers of       *)
(* existing rows are given away.                                           *)
IdsUnique ==
    \A t, u \in Threads : \A g \in DOMAIN convert_id[t], h \in DOMAIN convert_id[u] :
        /\ convert_id[t][g] = convert_id[u][h] => t = u /\ g = h
        /\ pc = "prepare" =>
              /\ convert_id[t][g] > max_id
              /\ GoodInput \/ turn > 1 => convert_id[t][g] >= RowCount(input_vertex)

(* The number that replace() wrote for a pair is the number of the row in  *)
(* which main stores the two symbols of that pair.                         *)
RuleRowsMatchIds ==
    pc = "role" /\ GoodInput =>
        \A t \in 0 .. k - 1 : \A h \in DOMAIN convert_id[t] :
            LET id == convert_id[t][h]
            IN  /\ id < Len(input_vertex)
                /\ SubSeq(input_edge, input_vertex[id + 1] + 1, input_vertex[id + 1] + 2)
                     = <<LeftOf(h), RightOf(h)>>

(* While the replace threads run, the maps they all look up are not        *)
(* written: the operator[] of convert_id never meets a missing key.        *)
ReplaceOnlyReads == [][pc = "replace" => UNCHANGED <<hash_table, convert_id>>]_vars

(* Only an input with an empty first row, or one that leaves some thread   *)
(* without rows or edges, takes the program out of bounds.                 *)
CrashOnlyIfIllShaped == pc = "crashed" => ~WellShaped

(* Every join returns: the constructor comes to its end on the inputs that *)
(* do not crash it.                                                        *)
Termination == WellShaped ~> pc = "done"

(* "Guarantees that no neighbors across pair appears" (line 174): a pair   *)
(* put in a bucket consists of two neighbours of one row.                  *)
NoPairAcrossRows ==
    [][\A t \in Threads : \A h \in DOMAIN pair_buckets'[t] :
          pair_buckets'[t][h] > Lookup(pair_buckets[t], h) =>
            \E r \in 0 .. RowCount(input_vertex) - 1 :
                \E i \in 1 .. Len(Row(input_vertex, input_edge, r)) - 1 :
                    h = pair_hash(Row(input_vertex, input_edge, r)[i],
                                  Row(input_vertex, input_edge, r)[i + 1])]_vars

(* "count times, erase low frenq" (line 184): a pair that is given a rule  *)
(* occurs at least threshold times in the graph of the turn.               *)
RulesAreFrequent ==
    pc = "start" => \A t \in Threads : \A h \in DOMAIN hash_table[t] :
        Cardinality({i \in PairPositions : PairAt(i) = h}) >= threshold
=============================================================================
