------------------------- MODULE ParallelRepairShape -------------------------
(***************************************************************************)
(* The shape of the data that ParallelRepair works on, for any number of   *)
(* threads and turns, any threshold and any set of CSR graphs: ShapeInv    *)
(* holds initially, and every action preserves it.                         *)
(***************************************************************************)
EXTENDS ParallelRepair, CSRProofs, FiniteSetTheorems, TLAPS

Merging == pc \in {"merge", "role"}

(* The number of rows that precede the rules of this turn.                 *)
LastSlice == (thread_num - 1) * thread_size

(* Outside the merge the graph is a CSR graph with at least the rows it    *)
(* was loaded with; during the merge, main holds a prefix of one.          *)
GraphInv ==
    /\ ~Merging => /\ IsCSR(input_vertex, input_edge)
                   /\ Len(input_vertex) >= Len(origin.vlist)
    /\ Merging => Offsets(input_vertex, Len(input_edge))
    /\ pc = "merge" /\ k = 0 => input_vertex = <<>> /\ input_edge = <<>>
    /\ pc = "merge" /\ k < thread_num => Len(input_vertex) = k * thread_size
    /\ (pc = "role" \/ (pc = "merge" /\ k = thread_num)) =>
          Len(input_vertex) > 0 /\ Len(input_vertex) >= RowCount(origin.vlist)
    /\ pc = "merge" /\ k > 0 => Len(input_vertex) > 0

(* The slices are CSR graphs once rebased, and cover the rows.             *)
SliceInv ==
    pc \in {"replace", "merge", "role"} =>
        \A t \in Threads :
            /\ \A i, j \in 1 .. Len(vertex_buckets[t]) :
                  i <= j => /\ vertex_buckets[t][i] <= vertex_buckets[t][j]
                            /\ vertex_buckets[t][j] - vertex_buckets[t][1] <= Len(buckets[t])
            /\ t < thread_num - 1 => Len(vertex_buckets[t]) = thread_size
            /\ t = thread_num - 1 =>
                  Len(vertex_buckets[t]) >= RowCount(origin.vlist) - LastSlice

(* What a replace thread has written so far.                               *)
OutputInv ==
    /\ pc \in {"allocate", "count", "start", "prepare", "done"} =>
          \A t \in Threads : new_vertex_sequence[t] = <<>> /\ new_edge_sequence[t] = <<>>
    /\ \A t \in Threads :
          /\ Offsets(new_vertex_sequence[t], Len(new_edge_sequence[t]))
          /\ new_vertex_sequence[t] = <<>> => new_edge_sequence[t] = <<>>
    /\ pc \in {"replace", "merge", "role"} =>
          \A t \in Threads :
              /\ Len(new_vertex_sequence[t]) <= Len(vertex_buckets[t])
              /\ t \notin running => /\ Len(new_vertex_sequence[t]) = Len(vertex_buckets[t])
                                     /\ Len(new_vertex_sequence[t]) > 0
    /\ Merging => running = {}

ShapeInv == TypeOK /\ GraphInv /\ SliceInv /\ OutputInv

(* The rows of the rules have two entries each.                            *)
RoleInv ==
    \A t \in Threads :
        /\ Len(role_edge[t]) = 2 * Len(role_vertex[t])
        /\ \A i \in 1 .. Len(role_vertex[t]) : role_vertex[t][i] = 2 * (i - 1)
-----------------------------------------------------------------------------
(* Arithmetic.                                                             *)

(* A symbol selects the table of one of the threads.                       *)
LEMMA ModThreads == \A a \in Nat : a % thread_num \in Threads
BY ThreadNumAssumption DEF Threads

(* Packing and unpacking a pair stays within the naturals.                 *)
LEMMA PairHashNat ==
    /\ \A l, r \in Nat : pair_hash(l, r) \in Nat
    /\ \A h \in Nat : LeftOf(h) \in Nat /\ RightOf(h) \in Nat
BY WordAssumption DEF pair_hash, LeftOf, RightOf

(* A quotient times its divisor is at most the dividend.                   *)
LEMMA DivMul ==
    ASSUME NEW a \in Nat, NEW b \in Nat \ {0}
    PROVE  (a \div b) \in Nat /\ b * (a \div b) <= a
OBVIOUS

LEMMA MulMono ==
    ASSUME NEW a \in Nat, NEW b \in Nat, NEW c \in Nat, a <= b
    PROVE  a * c \in Nat /\ b * c \in Nat /\ a * c <= b * c
OBVIOUS

(* The rows of the graph as loaded, cut in slices of thread_size.          *)
LEMMA SliceArithmetic ==
    ASSUME IsCSR(origin.vlist, origin.elist)
    PROVE  /\ thread_size \in Nat
           /\ \A t \in Threads : SliceFirst(t) \in Nat /\ SliceFirst(t) <= LastSlice
           /\ \A t \in Threads : t < thread_num - 1 =>
                  /\ (t + 1) * thread_size \in Nat
                  /\ (t + 1) * thread_size <= LastSlice
                  /\ (t + 1) * thread_size = SliceFirst(t) + thread_size
           /\ LastSlice \in Nat /\ LastSlice <= RowCount(origin.vlist)
<1> DEFINE L == Len(origin.vlist)
<1>1. L \in Nat /\ L > 0
  BY DEF IsCSR
<1>2. thread_size \in Nat /\ thread_num * thread_size <= L
  BY <1>1, DivMul, ThreadNumAssumption DEF thread_size
<1> HIDE DEF L
<1>3. LastSlice \in Nat /\ LastSlice + thread_size <= L
  BY <1>1, <1>2, ThreadNumAssumption DEF LastSlice
<1>4. LastSlice <= L - 1
  <2>1. CASE thread_size = 0
    BY <2>1, <1>1, ThreadNumAssumption DEF LastSlice
  <2>2. CASE thread_size > 0
    BY <2>2, <1>1, <1>2, <1>3
  <2> QED BY <2>1, <2>2, <1>2
<1>5. ASSUME NEW t \in Threads
      PROVE  SliceFirst(t) \in Nat /\ SliceFirst(t) <= LastSlice
  BY <1>2, MulMono, ThreadNumAssumption DEF SliceFirst, LastSlice, Threads
<1>6. ASSUME NEW t \in Threads, t < thread_num - 1
      PROVE  /\ (t + 1) * thread_size \in Nat
             /\ (t + 1) * thread_size <= LastSlice
             /\ (t + 1) * thread_size = SliceFirst(t) + thread_size
  <2>1. t \in Nat /\ t + 1 <= thread_num - 1 /\ thread_num - 1 \in Nat
    BY <1>6, ThreadNumAssumption DEF Threads
  <2>2. (t + 1) * thread_size \in Nat /\ (t + 1) * thread_size <= LastSlice
    BY <2>1, <1>2, MulMono DEF LastSlice
  <2>3. (t + 1) * thread_size = t * thread_size + thread_size
    BY <2>1, <1>2
  <2> QED BY <2>2, <2>3 DEF SliceFirst
<1> QED
  BY <1>2, <1>3, <1>4, <1>5, <1>6 DEF L, RowCount
-----------------------------------------------------------------------------
(* Bags and maps.                                                          *)

LEMMA EmptyMapIsMap == IsMap(EmptyMap) /\ MapPerThread(PerThread(EmptyMap))
<1>1. DOMAIN EmptyMap = {} /\ EmptyMap = [h \in DOMAIN EmptyMap |-> EmptyMap[h]]
  BY DEF EmptyMap
<1>2. IsMap(EmptyMap)
  BY <1>1, FS_EmptySet DEF IsMap
<1> QED BY <1>2 DEF MapPerThread, PerThread

LEMMA LookupNat ==
    ASSUME NEW m, IsMap(m), NEW h PROVE Lookup(m, h) \in Nat
BY DEF IsMap, Lookup

(* The sum of two bags of pairs is one.                                    *)
LEMMA BagSumIsMap ==
    ASSUME NEW b, NEW c, IsMap(b), IsMap(c)
    PROVE  IsMap(BagSum(b, c)) /\ DOMAIN BagSum(b, c) = DOMAIN b \cup DOMAIN c
<1>1. DOMAIN BagSum(b, c) = DOMAIN b \cup DOMAIN c
  BY DEF BagSum
<1>2. IsFiniteSet(DOMAIN b \cup DOMAIN c)
  BY FS_Union DEF IsMap
<1>3. \A h \in DOMAIN b \cup DOMAIN c : Lookup(b, h) + Lookup(c, h) \in Nat
  BY LookupNat
<1>4. \A h \in DOMAIN BagSum(b, c) : BagSum(b, c)[h] \in Nat
  BY <1>1, <1>3 DEF BagSum
<1>5. BagSum(b, c) = [h \in DOMAIN BagSum(b, c) |-> BagSum(b, c)[h]]
  BY DEF BagSum
<1>6. DOMAIN BagSum(b, c) \subseteq Nat
  BY <1>1 DEF IsMap
<1> QED BY <1>1, <1>2, <1>4, <1>5, <1>6 DEF IsMap

(* The pairs of the current graph that fall to thread t form a bag.        *)
LEMMA PairBagIsMap ==
    ASSUME input_edge \in Seq(Nat), NEW t \in Threads
    PROVE  IsMap(PairBag(t))
<1> DEFINE P == {i \in PairPositions : input_edge[i] % thread_num = t}
           H == {PairAt(i) : i \in P}
           f == [i \in P |-> PairAt(i)]
<1>1. PairPositions \subseteq 1 .. Len(input_edge) - 1
  BY DEF PairPositions
<1>2. IsFiniteSet(1 .. Len(input_edge) - 1)
  BY FS_Interval
<1>3. IsFiniteSet(P)
  BY <1>1, <1>2, FS_Subset
<1>4. f \in Surjection(P, H)
  BY Zenon DEF Surjection
<1>5. IsFiniteSet(H)
  BY <1>3, <1>4, FS_Surjection
<1>6. \A i \in P : PairAt(i) \in Nat
  <2> SUFFICES ASSUME NEW i \in P PROVE PairAt(i) \in Nat
    OBVIOUS
  <2>1. input_edge[i] \in Nat /\ input_edge[i + 1] \in Nat
    BY <1>1
  <2> QED BY <2>1, PairHashNat DEF PairAt
<1>7. \A h \in H : Cardinality({i \in P : PairAt(i) = h}) \in Nat
  <2> SUFFICES ASSUME NEW h \in H
               PROVE  Cardinality({i \in P : PairAt(i) = h}) \in Nat
    OBVIOUS
  <2>1. IsFiniteSet({i \in P : PairAt(i) = h})
    BY <1>3, FS_Subset
  <2> QED BY <2>1, FS_CardinalityType
<1>8. PairBag(t) = [h \in H |-> Cardinality({i \in P : PairAt(i) = h})]
  BY DEF PairBag
<1>9. H \subseteq Nat
  BY <1>6
<1> HIDE DEF P, H, f
<1> QED BY <1>5, <1>7, <1>8, <1>9 DEF IsMap

(* Dropping the rare pairs leaves a map.                                   *)
LEMMA ErasedIsMap ==
    ASSUME NEW m, IsMap(m)
    PROVE  IsMap([h \in {g \in DOMAIN m : m[g] >= threshold} |-> m[h]])
<1> DEFINE D == {g \in DOMAIN m : m[g] >= threshold}
<1>1. IsFiniteSet(D)
  BY FS_Subset DEF IsMap
<1>2. D \subseteq DOMAIN m
  OBVIOUS
<1> HIDE DEF D
<1>3. IsMap([h \in D |-> m[h]])
  BY <1>1, <1>2 DEF IsMap
<1> QED BY <1>3 DEF D

(* Replacing the map of one thread by a map.                               *)
LEMMA MapExcept ==
    ASSUME NEW f, MapPerThread(f), NEW t \in Threads, NEW m, IsMap(m)
    PROVE  /\ MapPerThread([f EXCEPT ![t] = m])
           /\ \A u \in Threads : [f EXCEPT ![t] = m][u] = IF u = t THEN m ELSE f[u]
<1>1. f = [u \in Threads |-> f[u]]
  BY DEF MapPerThread
<1>2. \A u \in Threads : [f EXCEPT ![t] = m][u] = IF u = t THEN m ELSE f[u]
  BY <1>1
<1>3. [f EXCEPT ![t] = m] = [u \in Threads |-> [f EXCEPT ![t] = m][u]]
  BY <1>1
<1> QED BY <1>2, <1>3 DEF MapPerThread
-----------------------------------------------------------------------------
(* The type and shape invariant.                                          *)

(* Updating what one thread owns.                                          *)
LEMMA ExceptType ==
    ASSUME NEW S, NEW f \in [Threads -> S], NEW t \in Threads, NEW x \in S
    PROVE  /\ [f EXCEPT ![t] = x] \in [Threads -> S]
           /\ [f EXCEPT ![t] = x][t] = x
           /\ \A u \in Threads : u # t => [f EXCEPT ![t] = x][u] = f[u]
OBVIOUS

LEMMA InitShape == Init => ShapeInv
<1> SUFFICES ASSUME Init PROVE ShapeInv
  OBVIOUS
<1>1. IsCSR(origin.vlist, origin.elist)
  BY InputsAssumption DEF Init
<1>2. \A i \in 1 .. Len(origin.elist) : origin.elist[i] \in Nat
  BY <1>1 DEF IsCSR
<1>3. max_id \in Nat
  BY <1>2 DEF Init
<1>4. input_vertex \in Seq(Nat) /\ input_edge \in Seq(Nat)
  BY <1>1 DEF Init, IsCSR
<1>5. MapPerThread(pair_buckets) /\ MapPerThread(hash_table) /\ MapPerThread(convert_id)
  BY EmptyMapIsMap DEF Init
<1>6. TypeOK
  BY <1>1, <1>3, <1>4, <1>5, ThreadNumAssumption, CompressRateAssumption
  DEF Init, TypeOK, PCs, PerThread
<1>7. GraphInv
  BY <1>1 DEF Init, GraphInv, Merging, IsCSR
<1>8. SliceInv
  BY DEF Init, SliceInv
<1>9. OutputInv
  BY DEF Init, OutputInv, PerThread, Offsets, Merging
<1> QED BY <1>6, <1>7, <1>8, <1>9 DEF ShapeInv

(* Steps of the first two parts leave the graph and the slices alone.      *)
LEMMA ShapeUntouched ==
    ASSUME ShapeInv, TypeOK', UNCHANGED <<origin, graph, slices>>,
           pc \in {"allocate", "count", "start", "prepare", "done", "crashed"},
           pc' \in {"allocate", "count", "start", "prepare", "done", "crashed"},
           pc = "crashed" => pc' = "crashed"
    PROVE  ShapeInv'
<1>1. GraphInv'
  BY DEF ShapeInv, GraphInv, Merging, graph
<1>2. SliceInv'
  BY DEF SliceInv
<1>3. OutputInv'
  BY DEF ShapeInv, OutputInv, Merging, slices
<1> QED BY <1>1, <1>2, <1>3 DEF ShapeInv

LEMMA AllocatePairsShape == ASSUME ShapeInv, AllocatePairs PROVE ShapeInv'
<1> USE DEF ShapeInv, AllocatePairs
<1>1. \A t \in Threads : IsMap(BagSum(pair_buckets[t], PairBag(t)))
  BY PairBagIsMap, BagSumIsMap DEF TypeOK, MapPerThread
<1>2. MapPerThread(pair_buckets')
  BY <1>1 DEF MapPerThread
<1>3. pc' \in {"count", "crashed"} /\ pc = "allocate" /\ running' \subseteq Threads
  BY DEF TypeOK
<1>4. TypeOK'
  BY <1>2, <1>3 DEF TypeOK, PCs, graph, rules, slices
<1> QED BY <1>3, <1>4, ShapeUntouched

LEMMA processpairsShape ==
    ASSUME ShapeInv, NEW t \in Threads, processpairs(t) PROVE ShapeInv'
<1> DEFINE counted == BagSum(hash_table[t], pair_buckets[t])
           kept == [h \in {g \in DOMAIN counted : counted[g] >= threshold} |-> counted[h]]
<1>1. IsMap(kept)
  BY BagSumIsMap, ErasedIsMap DEF ShapeInv, TypeOK, MapPerThread
<1>2. hash_table' = [hash_table EXCEPT ![t] = kept]
  BY DEF processpairs
<1> HIDE DEF kept
<1>3. MapPerThread(hash_table')
  BY <1>1, <1>2, MapExcept DEF ShapeInv, TypeOK
<1>4. TypeOK'
  BY <1>3 DEF processpairs, ShapeInv, TypeOK, graph, rules, slices
<1>5. pc = "count" /\ pc' = "count" /\ UNCHANGED <<origin, graph, slices>>
  BY DEF processpairs
<1> QED BY <1>4, <1>5, ShapeUntouched

LEMMA JoinCountShape == ASSUME ShapeInv, JoinCount PROVE ShapeInv'
<1>1. TypeOK'
  BY ThreadNumAssumption DEF JoinCount, ShapeInv, TypeOK, PCs, graph, tables, rules, slices
<1>2. pc = "count" /\ pc' = "start" /\ UNCHANGED <<origin, graph, slices>>
  BY DEF JoinCount
<1> QED BY <1>1, <1>2, ShapeUntouched

LEMMA StartIdShape == ASSUME ShapeInv, StartId PROVE ShapeInv'
<1>1. k \in Threads /\ k' \in 0 .. thread_num /\ (k # 0 => k - 1 \in Threads)
  BY ThreadNumAssumption DEF StartId, ShapeInv, TypeOK, Threads
<1>2. k # 0 => Cardinality(DOMAIN hash_table[k - 1]) \in Nat
  BY <1>1, FS_CardinalityType DEF ShapeInv, TypeOK, MapPerThread, IsMap
<1>3. new_start_id' \in [Threads -> Nat]
  <2>1. new_start_id \in [Threads -> Nat] /\ max_id \in Nat
    BY DEF ShapeInv, TypeOK
  <2>2. FirstId \in Nat
    BY <1>1, <1>2, <2>1 DEF FirstId
  <2>3. new_start_id' = [new_start_id EXCEPT ![k] = FirstId]
    BY DEF StartId
  <2> QED BY <1>1, <2>1, <2>2, <2>3
<1>4. TypeOK'
  BY <1>1, <1>3 DEF StartId, ShapeInv, TypeOK, graph, tables, slices
<1>5. pc = "start" /\ pc' = "start" /\ UNCHANGED <<origin, graph, slices>>
  BY DEF StartId
<1> QED BY <1>4, <1>5, ShapeUntouched

LEMMA SpawnPrepareShape == ASSUME ShapeInv, SpawnPrepare PROVE ShapeInv'
<1>1. todo' \in [Threads -> SUBSET Nat]
  BY DEF SpawnPrepare, ShapeInv, TypeOK, MapPerThread, IsMap
<1>2. TypeOK'
  BY <1>1 DEF SpawnPrepare, ShapeInv, TypeOK, PCs, graph, tables, slices
<1>3. pc = "start" /\ pc' = "prepare" /\ UNCHANGED <<origin, graph, slices>>
  BY DEF SpawnPrepare
<1> QED BY <1>2, <1>3, ShapeUntouched

LEMMA prepare_new_idShape ==
    ASSUME ShapeInv, NEW t \in Threads, prepare_new_id(t) PROVE ShapeInv'
<1>1. PICK h \in todo[t] :
        /\ convert_id' = [convert_id EXCEPT ![t] =
               [g \in DOMAIN @ \cup {h} |-> IF g \in DOMAIN @ THEN @[g] ELSE new_start_id[t]]]
        /\ new_start_id' = [new_start_id EXCEPT ![t] = @ + 1]
        /\ role_vertex' = [role_vertex EXCEPT ![t] = Append(@, 2 * Len(@))]
        /\ role_edge' = [role_edge EXCEPT ![t] = @ \o <<LeftOf(h), RightOf(h)>>]
        /\ todo' = [todo EXCEPT ![t] = @ \ {h}]
  BY DEF prepare_new_id
<1>2. h \in Nat /\ LeftOf(h) \in Nat /\ RightOf(h) \in Nat
  BY PairHashNat DEF ShapeInv, TypeOK
<1>3. MapPerThread(convert_id')
  <2> DEFINE c == convert_id[t]
             m == [g \in DOMAIN c \cup {h} |-> IF g \in DOMAIN c THEN c[g] ELSE new_start_id[t]]
  <2>1. IsMap(c) /\ new_start_id[t] \in Nat
    BY DEF ShapeInv, TypeOK, MapPerThread
  <2>2. IsFiniteSet(DOMAIN c \cup {h})
    BY <2>1, FS_AddElement DEF IsMap
  <2>3. IsMap(m)
    BY <1>2, <2>1, <2>2 DEF IsMap
  <2>4. convert_id' = [convert_id EXCEPT ![t] = m]
    BY <1>1
  <2> HIDE DEF m
  <2> QED BY <2>3, <2>4, MapExcept DEF ShapeInv, TypeOK
<1>4. /\ new_start_id' \in [Threads -> Nat] /\ todo' \in [Threads -> SUBSET Nat]
      /\ role_vertex' \in [Threads -> Seq(Nat)] /\ role_edge' \in [Threads -> Seq(Nat)]
  <2>1. Append(role_vertex[t], 2 * Len(role_vertex[t])) \in Seq(Nat)
    BY DEF ShapeInv, TypeOK
  <2>2. role_edge[t] \o <<LeftOf(h), RightOf(h)>> \in Seq(Nat)
    BY <1>2 DEF ShapeInv, TypeOK
  <2>3. new_start_id' \in [Threads -> Nat] /\ todo' \in [Threads -> SUBSET Nat]
    <3>1. new_start_id[t] + 1 \in Nat /\ todo[t] \ {h} \in SUBSET Nat
      BY DEF ShapeInv, TypeOK
    <3>2. new_start_id' \in [Threads -> Nat]
      BY <1>1, <3>1, ExceptType DEF ShapeInv, TypeOK
    <3>3. todo' \in [Threads -> SUBSET Nat]
      BY <1>1, <3>1, ExceptType DEF ShapeInv, TypeOK
    <3> QED BY <3>2, <3>3
  <2>4. role_vertex' \in [Threads -> Seq(Nat)]
    BY <1>1, <2>1, ExceptType DEF ShapeInv, TypeOK
  <2>5. role_edge' \in [Threads -> Seq(Nat)]
    BY <1>1, <2>2, ExceptType DEF ShapeInv, TypeOK
  <2> QED BY <2>3, <2>4, <2>5
<1>5. TypeOK'
  BY <1>3, <1>4 DEF prepare_new_id, ShapeInv, TypeOK, graph, tables, slices
<1>6. pc = "prepare" /\ pc' = "prepare" /\ UNCHANGED <<origin, graph, slices>>
  BY DEF prepare_new_id
<1> QED BY <1>5, <1>6, ShapeUntouched

LEMMA ReturnPrepareShape ==
    ASSUME ShapeInv, NEW t \in Threads, ReturnPrepare(t) PROVE ShapeInv'
<1>1. TypeOK'
  BY DEF ReturnPrepare, ShapeInv, TypeOK, graph, tables, rules, slices
<1>2. pc = "prepare" /\ pc' = "prepare" /\ UNCHANGED <<origin, graph, slices>>
  BY DEF ReturnPrepare
<1> QED BY <1>1, <1>2, ShapeUntouched

LEMMA SplitShape == ASSUME ShapeInv, Split PROVE ShapeInv'
<1> DEFINE v == input_vertex
           e == input_edge
<1>1. /\ IsCSR(v, e) /\ v \in Seq(Nat) /\ e \in Seq(Nat) /\ Len(v) >= Len(origin.vlist)
      /\ IsCSR(origin.vlist, origin.elist)
  BY DEF Split, ShapeInv, GraphInv, TypeOK, Merging, IsCSR
<1>2. Len(v) \in Nat /\ Len(origin.vlist) \in Nat /\ Len(v) > 0
  BY <1>1 DEF IsCSR
<1>3. /\ thread_size \in Nat /\ LastSlice \in Nat /\ LastSlice <= RowCount(origin.vlist)
      /\ SliceFirst(thread_num - 1) = LastSlice
  BY <1>1, SliceArithmetic DEF SliceFirst, LastSlice
<1>4. ASSUME NEW t \in Threads
      PROVE  /\ vertex_buckets'[t] \in Seq(Nat) /\ buckets'[t] \in Seq(Nat)
             /\ \A i, j \in 1 .. Len(vertex_buckets'[t]) :
                  i <= j => /\ vertex_buckets'[t][i] <= vertex_buckets'[t][j]
                            /\ vertex_buckets'[t][j] - vertex_buckets'[t][1] <= Len(buckets'[t])
             /\ t < thread_num - 1 => Len(vertex_buckets'[t]) = thread_size
             /\ t = thread_num - 1 =>
                  Len(vertex_buckets'[t]) >= RowCount(origin.vlist) - LastSlice
  <2> DEFINE a == SliceFirst(t)
             b == SliceLast(t)
             n == IF t = thread_num - 1 THEN Len(e) ELSE v[b + 1]
  <2>1. /\ a \in Nat /\ b \in Nat /\ a <= b /\ b < Len(v)
        /\ t < thread_num - 1 => b - a = thread_size
        /\ t = thread_num - 1 => b - a >= RowCount(origin.vlist) - LastSlice
    <3>1. CASE t = thread_num - 1
      BY <3>1, <1>2, <1>1, <1>3 DEF SliceLast, RowCount
    <3>2. CASE t < thread_num - 1
      <4>1. t # thread_num - 1
        BY <3>2 DEF Threads
      <4>2. /\ a \in Nat /\ (t + 1) * thread_size \in Nat
            /\ (t + 1) * thread_size <= LastSlice
            /\ (t + 1) * thread_size = a + thread_size
        BY <3>2, <1>1, SliceArithmetic
      <4>3. b = (t + 1) * thread_size
        BY <4>1 DEF SliceLast
      <4> HIDE DEF a, b
      <4> QED BY <4>1, <4>2, <4>3, <1>1, <1>2, <1>3 DEF RowCount
    <3> QED BY <3>1, <3>2, ThreadNumAssumption DEF Threads
  <2>2. n \in Nat /\ v[b + 1] <= n /\ n <= Len(e)
    <3> HIDE DEF a, b, v, e
    <3>1. Len(e) \in Nat /\ b + 1 \in 1 .. Len(v)
      BY <1>1, <2>1
    <3>2. v[b + 1] \in Nat /\ v[b + 1] <= Len(e)
      BY <1>1, <3>1, OffsetsAt DEF IsCSR
    <3> QED BY <3>1, <3>2
  <2>3. vertex_buckets'[t] = SubSeq(v, a + 1, b) /\ buckets'[t] = SubSeq(e, v[a + 1] + 1, n)
    BY DEF Split
  <2> HIDE DEF a, b, n, v, e
  <2>4. Offsets(v, Len(e)) /\ v[b + 1] <= n
    BY <1>1, <2>2 DEF IsCSR
  <2>5. LET s == SubSeq(v, a + 1, b)
            w == SubSeq(e, v[a + 1] + 1, n)
        IN  /\ s \in Seq(Nat) /\ w \in Seq(Nat) /\ Len(s) = b - a
            /\ \A i, j \in 1 .. b - a : i <= j => s[i] <= s[j] /\ s[j] - s[1] <= Len(w)
    BY <1>1, <2>1, <2>2, <2>4, Cut
  <2>6. LET s == vertex_buckets'[t]
            w == buckets'[t]
        IN  /\ s \in Seq(Nat) /\ w \in Seq(Nat) /\ Len(s) = b - a
            /\ \A i, j \in 1 .. b - a : i <= j => s[i] <= s[j] /\ s[j] - s[1] <= Len(w)
    BY <2>3, <2>5, Zenon
  <2> QED BY <2>1, <2>6
<1>5. vertex_buckets' \in [Threads -> Seq(Nat)] /\ buckets' \in [Threads -> Seq(Nat)]
  BY <1>4 DEF Split
<1>6. /\ pc = "prepare" /\ pc' = "replace" /\ running' = Threads /\ idx' \in [Threads -> Nat]
      /\ UNCHANGED <<origin, graph, new_vertex_sequence, new_edge_sequence>>
  BY DEF Split, PerThread
<1>7. TypeOK'
  BY <1>5, <1>6 DEF Split, ShapeInv, TypeOK, PCs, graph, tables, rules
<1>8. GraphInv'
  BY <1>6 DEF ShapeInv, GraphInv, Merging, graph
<1>9. SliceInv'
  <2>1. thread_size' = thread_size /\ LastSlice' = LastSlice
    BY <1>6 DEF thread_size, LastSlice
  <2> QED BY <1>4, <1>6, <2>1 DEF SliceInv
<1>10. OutputInv'
  <2>1. \A t \in Threads : new_vertex_sequence[t] = <<>> /\ new_edge_sequence[t] = <<>>
    BY <1>6 DEF ShapeInv, OutputInv
  <2>2. \A t \in Threads : Len(vertex_buckets'[t]) \in Nat
    BY <1>4
  <2> QED BY <1>6, <2>1, <2>2 DEF ShapeInv, OutputInv, Merging
<1> QED BY <1>7, <1>8, <1>9, <1>10 DEF ShapeInv

(* Where a replace thread stands in its slice.                             *)
LEMMA InSlice ==
    ASSUME ShapeInv, pc = "replace", NEW t \in Threads
    PROVE  /\ vidx(t) \in Nat /\ vidx(t) <= Len(vertex_buckets[t])
           /\ vidx(t) < Len(vertex_buckets[t]) =>
                 vertex_buckets[t][vidx(t) + 1] - vertex_buckets[t][1] \in Nat
           /\ RowEnd(t) \in Nat /\ RowEnd(t) <= Len(buckets[t])
<1> DEFINE s == vertex_buckets[t]
           n == vidx(t)
<1>1. s \in Seq(Nat) /\ Len(s) \in Nat /\ Len(buckets[t]) \in Nat /\ n \in Nat
  BY DEF ShapeInv, TypeOK, vidx
<1>2. n <= Len(s)
  BY DEF ShapeInv, OutputInv, vidx
<1>3. \A i, j \in 1 .. Len(s) :
          i <= j => s[i] <= s[j] /\ s[j] - s[1] <= Len(buckets[t])
  BY DEF ShapeInv, SliceInv
<1>4. RowEnd(t) = IF n < Len(s) THEN s[n + 1] - s[1] ELSE Len(buckets[t])
  BY DEF RowEnd
<1> HIDE DEF s, n
<1>5. CASE n < Len(s)
  <2>1. 1 \in 1 .. Len(s) /\ n + 1 \in 1 .. Len(s) /\ 1 <= n + 1
    BY <1>1, <1>5
  <2>2. s[1] \in Nat /\ s[n + 1] \in Nat
    BY <1>1, <2>1
  <2>3. s[1] <= s[n + 1] /\ s[n + 1] - s[1] <= Len(buckets[t])
    BY <1>3, <2>1
  <2>4. s[n + 1] - s[1] \in Nat
    BY <2>2, <2>3
  <2> QED BY <1>1, <1>2, <1>4, <1>5, <2>3, <2>4 DEF s, n
<1>6. CASE ~(n < Len(s))
  BY <1>1, <1>2, <1>4, <1>6 DEF s, n
<1> QED BY <1>5, <1>6

(* A step of a replace thread that changes only what it writes.            *)
LEMMA ReplaceUntouched ==
    ASSUME ShapeInv, TypeOK', OutputInv', pc = "replace", pc' = "replace",
           UNCHANGED <<origin, graph, vertex_buckets, buckets>>
    PROVE  ShapeInv'
<1>1. GraphInv'
  BY DEF ShapeInv, GraphInv, Merging, graph
<1>2. SliceInv'
  BY DEF ShapeInv, SliceInv, LastSlice, thread_size
<1> QED BY <1>1, <1>2 DEF ShapeInv

LEMMA replaceRowShape ==
    ASSUME ShapeInv, NEW t \in Threads, replaceRow(t) PROVE ShapeInv'
<1> DEFINE s == new_vertex_sequence[t]
           n == Len(new_edge_sequence[t])
<1>1. pc = "replace" /\ t \in running /\ Len(s) < Len(vertex_buckets[t])
  BY DEF replaceRow, vidx
<1>2. /\ s \in Seq(Nat) /\ n \in Nat /\ Offsets(s, n) /\ (Len(s) = 0 => n = 0)
      /\ Len(vertex_buckets[t]) \in Nat
  BY DEF ShapeInv, TypeOK, OutputInv
<1>3. new_vertex_sequence' = [new_vertex_sequence EXCEPT ![t] = Append(s, n)]
  BY DEF replaceRow
<1>4. /\ Append(s, n) \in Seq(Nat) /\ Len(Append(s, n)) = Len(s) + 1
      /\ Offsets(Append(s, n), n)
  BY <1>2, OffsetsAppend
<1>5. vertex_buckets[t][vidx(t) + 1] - vertex_buckets[t][1] \in Nat
  BY <1>1, InSlice DEF vidx
<1>6. /\ new_vertex_sequence' \in [Threads -> Seq(Nat)]
      /\ new_vertex_sequence'[t] = Append(s, n)
      /\ \A u \in Threads : u # t => new_vertex_sequence'[u] = new_vertex_sequence[u]
  BY <1>3, <1>4, ExceptType DEF ShapeInv, TypeOK
<1>7. idx' \in [Threads -> Nat]
  BY <1>5, ExceptType DEF replaceRow, ShapeInv, TypeOK
<1>8. /\ UNCHANGED <<pc, turn, origin, graph, tables, rules, vertex_buckets, buckets>>
      /\ UNCHANGED <<new_edge_sequence, running, k>>
  BY DEF replaceRow
<1>9. TypeOK'
  BY <1>6, <1>7, <1>8 DEF ShapeInv, TypeOK, graph, tables, rules
<1> HIDE DEF s, n
<1>10. OutputInv'
  <2>1. /\ Offsets(new_vertex_sequence'[t], Len(new_edge_sequence'[t]))
        /\ new_vertex_sequence'[t] # <<>> /\ t \in running'
        /\ Len(new_vertex_sequence'[t]) <= Len(vertex_buckets'[t])
    BY <1>1, <1>2, <1>4, <1>6, <1>8 DEF n
  <2>2. ASSUME NEW u \in Threads
        PROVE  /\ Offsets(new_vertex_sequence'[u], Len(new_edge_sequence'[u]))
               /\ new_vertex_sequence'[u] = <<>> => new_edge_sequence'[u] = <<>>
               /\ Len(new_vertex_sequence'[u]) <= Len(vertex_buckets'[u])
               /\ u \notin running' => /\ Len(new_vertex_sequence'[u]) = Len(vertex_buckets'[u])
                                       /\ Len(new_vertex_sequence'[u]) > 0
    <3>1. CASE u = t
      BY <2>1, <3>1, Zenon
    <3>2. CASE u # t
      BY <1>1, <1>6, <1>8, <3>2 DEF ShapeInv, OutputInv
    <3> QED BY <3>1, <3>2
  <2> QED BY <1>1, <1>8, <2>2 DEF OutputInv, Merging
<1> QED BY <1>1, <1>8, <1>9, <1>10, ReplaceUntouched

(* The two ways in which replace() writes an entry.                        *)
LEMMA replaceWrites ==
    ASSUME ShapeInv, NEW t \in Threads, replace(t)
    PROVE  /\ \E x \in Nat : new_edge_sequence' =
                  [new_edge_sequence EXCEPT ![t] = Append(new_edge_sequence[t], x)]
           /\ idx' \in [Threads -> Nat]
           /\ MapPerThread(convert_id')
<1> DEFINE left == buckets[t][idx[t] + 1]
           table == left % thread_num
           key == pair_hash(left, buckets[t][idx[t] + 2])
           id == Lookup(convert_id[table], key)
<1>1. pc = "replace" /\ idx[t] < RowEnd(t)
  BY DEF replace, InRow
<1>2. idx[t] \in Nat /\ RowEnd(t) \in Nat /\ RowEnd(t) <= Len(buckets[t])
      /\ Len(buckets[t]) \in Nat /\ buckets[t] \in Seq(Nat)
  BY <1>1, InSlice DEF ShapeInv, TypeOK
<1>3. idx[t] + 1 \in 1 .. Len(buckets[t])
  BY <1>1, <1>2
<1>4. left \in Nat
  BY <1>2, <1>3
<1>5. table \in Threads
  BY <1>4, ModThreads
<1>6. IsMap(convert_id[table])
  BY <1>5 DEF ShapeInv, TypeOK, MapPerThread
<1>7. id \in Nat
  BY <1>6, LookupNat
<1>8. idx[t] + 1 \in Nat /\ idx[t] + 2 \in Nat
  BY <1>2
<1>9. CASE idx[t] + 1 < RowEnd(t) /\ key \in DOMAIN hash_table[table]
  <2> DEFINE c == convert_id[table]
             m == [g \in DOMAIN c \cup {key} |-> Lookup(c, g)]
  <2>1. /\ new_edge_sequence' =
              [new_edge_sequence EXCEPT ![t] = Append(new_edge_sequence[t], id)]
        /\ convert_id' = [convert_id EXCEPT ![table] = m]
        /\ idx' = [idx EXCEPT ![t] = idx[t] + 2]
    BY <1>9 DEF replace
  <2>2. key \in Nat
    BY <1>5, <1>9 DEF ShapeInv, TypeOK, MapPerThread, IsMap
  <2>3. IsFiniteSet(DOMAIN c \cup {key}) /\ DOMAIN c \cup {key} \subseteq Nat
    BY <1>6, <2>2, FS_AddElement DEF IsMap
  <2>4. \A g \in DOMAIN c \cup {key} : Lookup(c, g) \in Nat
    BY <1>6, LookupNat
  <2> HIDE DEF left, table, key, id, c
  <2>5. IsMap(m)
    BY <2>3, <2>4 DEF IsMap
  <2> HIDE DEF m
  <2>6. MapPerThread(convert_id')
    BY <1>5, <2>1, <2>5, MapExcept DEF ShapeInv, TypeOK
  <2>7. idx' \in [Threads -> Nat]
    BY <1>8, <2>1, ExceptType DEF ShapeInv, TypeOK
  <2> QED BY <1>7, <2>1, <2>6, <2>7
<1>10. CASE ~(idx[t] + 1 < RowEnd(t) /\ key \in DOMAIN hash_table[table])
  <2>1. /\ new_edge_sequence' =
              [new_edge_sequence EXCEPT ![t] = Append(new_edge_sequence[t], left)]
        /\ convert_id' = convert_id
        /\ idx' = [idx EXCEPT ![t] = idx[t] + 1]
    BY <1>10 DEF replace
  <2> HIDE DEF left, table, key, id
  <2>2. idx' \in [Threads -> Nat]
    BY <1>8, <2>1, ExceptType DEF ShapeInv, TypeOK
  <2> QED BY <1>4, <2>1, <2>2 DEF ShapeInv, TypeOK
<1> QED BY <1>9, <1>10

LEMMA replaceShape ==
    ASSUME ShapeInv, NEW t \in Threads, replace(t) PROVE ShapeInv'
<1> DEFINE s == new_edge_sequence[t]
<1>1. PICK x \in Nat : new_edge_sequence' = [new_edge_sequence EXCEPT ![t] = Append(s, x)]
  BY replaceWrites
<1>2. idx' \in [Threads -> Nat] /\ MapPerThread(convert_id')
  BY replaceWrites
<1>3. pc = "replace" /\ t \in running /\ vidx(t) > 0
  BY DEF replace, InRow
<1>4. s \in Seq(Nat) /\ Append(s, x) \in Seq(Nat) /\ Len(Append(s, x)) = Len(s) + 1
      /\ Len(s) \in Nat
  BY DEF ShapeInv, TypeOK
<1>5. /\ new_edge_sequence' \in [Threads -> Seq(Nat)]
      /\ new_edge_sequence'[t] = Append(s, x)
      /\ \A u \in Threads : u # t => new_edge_sequence'[u] = new_edge_sequence[u]
  BY <1>1, <1>4, ExceptType DEF ShapeInv, TypeOK
<1>6. /\ UNCHANGED <<pc, turn, origin, graph, tables, new_start_id, role_vertex, role_edge>>
      /\ UNCHANGED <<todo, vertex_buckets, buckets, new_vertex_sequence, running, k>>
  BY DEF replace
<1>7. TypeOK'
  BY <1>2, <1>5, <1>6 DEF ShapeInv, TypeOK, graph, tables
<1>8. OutputInv'
  <2>1. /\ new_vertex_sequence[t] \in Seq(Nat) /\ Offsets(new_vertex_sequence[t], Len(s))
        /\ new_vertex_sequence[t] # <<>>
    BY <1>3 DEF ShapeInv, TypeOK, OutputInv, vidx
  <2>2. Offsets(new_vertex_sequence[t], Len(new_edge_sequence'[t]))
    BY <1>4, <1>5, <2>1, OffsetsGrow
  <2>3. ASSUME NEW u \in Threads
        PROVE  /\ Offsets(new_vertex_sequence'[u], Len(new_edge_sequence'[u]))
               /\ new_vertex_sequence'[u] = <<>> => new_edge_sequence'[u] = <<>>
    <3>1. CASE u = t
      BY <1>6, <2>1, <2>2, <3>1, Zenon
    <3>2. CASE u # t
      BY <1>5, <1>6, <3>2 DEF ShapeInv, OutputInv
    <3> QED BY <3>1, <3>2
  <2>4. ASSUME NEW u \in Threads
        PROVE  /\ Len(new_vertex_sequence'[u]) <= Len(vertex_buckets'[u])
               /\ u \notin running' => /\ Len(new_vertex_sequence'[u]) = Len(vertex_buckets'[u])
                                       /\ Len(new_vertex_sequence'[u]) > 0
    BY <1>3, <1>6 DEF ShapeInv, OutputInv
  <2> QED BY <1>3, <1>6, <2>3, <2>4 DEF OutputInv, Merging
<1> QED BY <1>3, <1>6, <1>7, <1>8, ReplaceUntouched

LEMMA replaceCrashShape ==
    ASSUME ShapeInv, NEW t \in Threads, replaceCrash(t) PROVE ShapeInv'
<1>1. /\ pc = "replace" /\ pc' = "crashed"
      /\ UNCHANGED <<turn, origin, graph, tables, rules, slices, running, k>>
  BY DEF replaceCrash
<1>2. TypeOK'
  BY <1>1 DEF ShapeInv, TypeOK, PCs, graph, tables, rules, slices
<1>3. GraphInv' /\ SliceInv'
  BY <1>1 DEF ShapeInv, GraphInv, SliceInv, Merging, graph
<1>4. OutputInv'
  BY <1>1 DEF ShapeInv, OutputInv, Merging, slices
<1> QED BY <1>2, <1>3, <1>4 DEF ShapeInv

LEMMA ReturnReplaceShape ==
    ASSUME ShapeInv, NEW t \in Threads, ReturnReplace(t) PROVE ShapeInv'
<1>1. /\ pc = "replace" /\ running' = running \ {t}
      /\ vidx(t) = Len(vertex_buckets[t]) /\ vidx(t) > 0
      /\ UNCHANGED <<pc, turn, origin, graph, tables, rules, slices, k>>
  BY DEF ReturnReplace
<1>2. TypeOK'
  BY <1>1 DEF ShapeInv, TypeOK, graph, tables, rules, slices
<1>3. OutputInv'
  BY <1>1 DEF ShapeInv, OutputInv, Merging, slices, vidx
<1>4. UNCHANGED <<origin, graph, vertex_buckets, buckets>> /\ pc' = "replace"
  BY <1>1 DEF slices
<1> QED BY <1>1, <1>2, <1>3, <1>4, ReplaceUntouched

LEMMA JoinReplaceShape == ASSUME ShapeInv, JoinReplace PROVE ShapeInv'
<1>1. /\ pc = "replace" /\ pc' = "merge" /\ running = {} /\ k' = 0
      /\ input_vertex' = <<>> /\ input_edge' = <<>>
      /\ UNCHANGED <<turn, origin, max_id, tables, rules, slices, running>>
  BY DEF JoinReplace
<1>2. TypeOK'
  BY <1>1, ThreadNumAssumption DEF ShapeInv, TypeOK, PCs, tables, rules, slices
<1>3. thread_size' = thread_size /\ LastSlice' = LastSlice /\ thread_size \in Nat
  BY <1>1, SliceArithmetic DEF thread_size, LastSlice, ShapeInv, TypeOK
<1>4. GraphInv'
  <2>1. Offsets(input_vertex', Len(input_edge')) /\ Len(input_vertex') = 0
    BY <1>1 DEF Offsets
  <2>2. Len(input_vertex') = k' * thread_size'
    BY <1>1, <1>3, <2>1
  <2> QED BY <1>1, <2>1, <2>2, ThreadNumAssumption DEF GraphInv, Merging
<1>5. SliceInv'
  BY <1>1, <1>3 DEF ShapeInv, SliceInv, slices
<1>6. OutputInv'
  BY <1>1 DEF ShapeInv, OutputInv, Merging, slices
<1> QED BY <1>2, <1>4, <1>5, <1>6 DEF ShapeInv

(* What main reads while it merges does not change.                        *)
LEMMA MergeUntouched ==
    ASSUME ShapeInv, TypeOK', GraphInv', pc \in {"merge", "role"}, pc' \in {"merge", "role"},
           UNCHANGED <<origin, slices, running>>
    PROVE  ShapeInv'
<1>1. SliceInv'
  BY DEF ShapeInv, SliceInv, LastSlice, thread_size, slices
<1>2. OutputInv'
  BY DEF ShapeInv, OutputInv, Merging, slices
<1> QED BY <1>1, <1>2 DEF ShapeInv

LEMMA MergeBatchShape == ASSUME ShapeInv, MergeBatch PROVE ShapeInv'
<1> DEFINE v == input_vertex
           m == Len(input_edge)
           w == new_vertex_sequence[k]
           n == Len(new_edge_sequence[k])
<1>1. /\ pc = "merge" /\ k < thread_num /\ k' = k + 1
      /\ input_vertex' = v \o Shift(w, m)
      /\ input_edge' = input_edge \o new_edge_sequence[k]
      /\ UNCHANGED <<pc, turn, origin, max_id, tables, rules, slices, running>>
  BY DEF MergeBatch
<1>2. k \in Threads /\ k \in Nat
  BY <1>1, ThreadNumAssumption DEF ShapeInv, TypeOK, Threads
<1>3. /\ v \in Seq(Nat) /\ m \in Nat /\ w \in Seq(Nat) /\ n \in Nat
      /\ input_edge \in Seq(Nat) /\ new_edge_sequence[k] \in Seq(Nat)
      /\ Len(v) \in Nat /\ Len(w) \in Nat
  BY <1>2 DEF ShapeInv, TypeOK
<1>4. Offsets(v, m) /\ Len(v) = k * thread_size
  BY <1>1 DEF ShapeInv, GraphInv, Merging
<1>5. Len(v) = 0 => m = 0
  <2>1. CASE k = 0
    BY <1>1, <2>1 DEF ShapeInv, GraphInv
  <2>2. CASE k > 0
    BY <1>1, <1>3, <2>2 DEF ShapeInv, GraphInv
  <2> QED BY <1>2, <2>1, <2>2
<1>6. /\ Offsets(w, n) /\ Len(w) = Len(vertex_buckets[k]) /\ Len(w) > 0
  BY <1>1, <1>2 DEF ShapeInv, OutputInv, Merging
<1>7. /\ k < thread_num - 1 => Len(w) = thread_size
      /\ k = thread_num - 1 => Len(w) >= RowCount(origin.vlist) - LastSlice
  BY <1>1, <1>2, <1>6 DEF ShapeInv, SliceInv
<1>8. /\ thread_size \in Nat /\ LastSlice \in Nat /\ Len(origin.vlist) \in Nat
      /\ thread_size' = thread_size
  BY <1>1, SliceArithmetic DEF ShapeInv, TypeOK, thread_size, IsCSR
<1> HIDE DEF v, m, w, n
<1>9. /\ input_vertex' \in Seq(Nat) /\ Len(input_vertex') = Len(v) + Len(w)
      /\ Offsets(input_vertex', m + n)
  BY <1>1, <1>3, <1>4, <1>5, <1>6, OffsetsConcat
<1>10. input_edge' \in Seq(Nat) /\ Len(input_edge') = m + n
  <2>1. /\ input_edge \o new_edge_sequence[k] \in Seq(Nat)
        /\ Len(input_edge \o new_edge_sequence[k]) = Len(input_edge) + Len(new_edge_sequence[k])
    BY <1>3, ConcatEntries
  <2>2. input_edge' = input_edge \o new_edge_sequence[k]
    BY <1>1
  <2> QED BY <2>1, <2>2 DEF m, n
<1>11. TypeOK'
  <2>1. k' \in 0 .. thread_num
    BY <1>1, <1>2, ThreadNumAssumption DEF Threads
  <2>2. UNCHANGED <<pc, turn, origin, max_id, tables, rules, slices, running>>
    BY <1>1
  <2> QED BY <2>1, <2>2, <1>9, <1>10 DEF ShapeInv, TypeOK, tables, rules, slices
<1>12. k' \in Nat /\ k' > 0 /\ Len(input_vertex') > 0
  BY <1>1, <1>2, <1>3, <1>6, <1>9
<1>13. k' < thread_num => Len(input_vertex') = k' * thread_size
  <2>1. (k + 1) * thread_size = k * thread_size + thread_size
    BY <1>2, <1>8
  <2> QED BY <1>1, <1>2, <1>4, <1>7, <1>9, <2>1, ThreadNumAssumption
<1>14. k' = thread_num => Len(input_vertex') >= RowCount(origin.vlist)
  <2>1. CASE k = thread_num - 1
    <3>1. Len(v) = LastSlice
      BY <1>4, <2>1 DEF LastSlice
    <3> QED BY <1>3, <1>7, <1>8, <1>9, <2>1, <3>1 DEF RowCount
  <2> QED BY <1>1, <1>2, <2>1, ThreadNumAssumption
<1>15. GraphInv'
  BY <1>1, <1>8, <1>9, <1>10, <1>12, <1>13, <1>14 DEF GraphInv, Merging
<1> QED BY <1>1, <1>11, <1>15, MergeUntouched

LEMMA BeginRolesShape == ASSUME ShapeInv, BeginRoles PROVE ShapeInv'
<1>1. /\ pc = "merge" /\ k = thread_num /\ pc' = "role" /\ k' = 0
      /\ UNCHANGED <<turn, origin, graph, tables, rules, slices, running>>
  BY DEF BeginRoles
<1>2. TypeOK'
  BY <1>1, ThreadNumAssumption DEF ShapeInv, TypeOK, PCs, graph, tables, rules, slices
<1>3. GraphInv'
  BY <1>1 DEF ShapeInv, GraphInv, Merging, graph
<1> QED BY <1>1, <1>2, <1>3, MergeUntouched

(* The rule rows of one thread form a vertex list.                         *)
LEMMA RoleOffsets ==
    ASSUME TypeOK, RoleInv, NEW t \in Threads
    PROVE  Offsets(role_vertex[t], Len(role_edge[t]))
<1> DEFINE v == role_vertex[t]
<1>1. v \in Seq(Nat) /\ Len(v) \in Nat
  BY DEF TypeOK
<1>2. Len(role_edge[t]) = 2 * Len(v) /\ \A i \in 1 .. Len(v) : v[i] = 2 * (i - 1)
  BY DEF RoleInv
<1> HIDE DEF v
<1>3. \A i \in 1 .. Len(v) : v[i] <= 2 * Len(v)
  BY <1>1, <1>2
<1>4. \A i, j \in 1 .. Len(v) : i <= j => v[i] <= v[j]
  BY <1>1, <1>2
<1>5. v # <<>> => v[1] = 0
  BY <1>1, <1>2
<1> QED BY <1>2, <1>3, <1>4, <1>5 DEF Offsets, v

LEMMA MergeRoleShape == ASSUME ShapeInv, RoleInv, MergeRole PROVE ShapeInv'
<1> DEFINE v == input_vertex
           m == Len(input_edge)
           w == role_vertex[k]
           n == Len(role_edge[k])
<1>1. /\ pc = "role" /\ k < thread_num /\ k' = k + 1
      /\ input_vertex' = v \o Shift(w, m)
      /\ input_edge' = input_edge \o role_edge[k]
      /\ UNCHANGED <<pc, turn, origin, max_id, tables, rules, slices, running>>
  BY DEF MergeRole
<1>2. k \in Threads /\ k \in Nat
  BY <1>1, ThreadNumAssumption DEF ShapeInv, TypeOK, Threads
<1>3. /\ v \in Seq(Nat) /\ m \in Nat /\ w \in Seq(Nat) /\ n \in Nat
      /\ input_edge \in Seq(Nat) /\ role_edge[k] \in Seq(Nat)
      /\ Len(v) \in Nat /\ Len(w) \in Nat /\ Len(origin.vlist) \in Nat
  <2>1. Len(origin.vlist) \in Nat
    BY DEF ShapeInv, TypeOK, IsCSR
  <2> QED BY <1>2, <2>1 DEF ShapeInv, TypeOK
<1>4. Offsets(v, m) /\ Len(v) > 0 /\ Len(v) >= RowCount(origin.vlist)
  BY <1>1 DEF ShapeInv, GraphInv, Merging
<1>5. Offsets(w, n)
  BY <1>2, RoleOffsets DEF ShapeInv
<1> HIDE DEF v, m, w, n
<1>6. /\ input_vertex' \in Seq(Nat) /\ Len(input_vertex') = Len(v) + Len(w)
      /\ Offsets(input_vertex', m + n)
  BY <1>1, <1>3, <1>4, <1>5, OffsetsConcat
<1>7. input_edge' \in Seq(Nat) /\ Len(input_edge') = m + n
  <2>1. /\ input_edge \o role_edge[k] \in Seq(Nat)
        /\ Len(input_edge \o role_edge[k]) = Len(input_edge) + Len(role_edge[k])
    BY <1>3, ConcatEntries
  <2>2. input_edge' = input_edge \o role_edge[k]
    BY <1>1
  <2> QED BY <2>1, <2>2 DEF m, n
<1>8. TypeOK'
  <2>1. k' \in 0 .. thread_num
    BY <1>1, <1>2, ThreadNumAssumption DEF Threads
  <2>2. UNCHANGED <<pc, turn, origin, max_id, tables, rules, slices, running>>
    BY <1>1
  <2> QED BY <2>1, <2>2, <1>6, <1>7 DEF ShapeInv, TypeOK, tables, rules, slices
<1>9. Len(input_vertex') > 0 /\ Len(input_vertex') >= RowCount(origin.vlist)
  BY <1>3, <1>4, <1>6 DEF RowCount
<1>10. GraphInv'
  BY <1>1, <1>6, <1>7, <1>9 DEF GraphInv, Merging
<1> QED BY <1>1, <1>8, <1>10, MergeUntouched

LEMMA FinishTurnShape == ASSUME ShapeInv, FinishTurn PROVE ShapeInv'
<1> DEFINE v == input_vertex
           m == Len(input_edge)
<1>1. /\ pc = "role" /\ pc' \in {"allocate", "done"} /\ k' = k
      /\ input_vertex' = Append(v, m) /\ max_id' = Len(v) - 1 /\ running' = running
      /\ UNCHANGED <<origin, input_edge, pair_buckets, new_start_id, todo>>
      /\ UNCHANGED <<vertex_buckets, buckets, idx>>
  BY DEF FinishTurn, NextTurn
<1>2. /\ hash_table' = PerThread(EmptyMap) /\ convert_id' = PerThread(EmptyMap)
      /\ role_vertex' = PerThread(<<>>) /\ role_edge' = PerThread(<<>>)
      /\ new_vertex_sequence' = PerThread(<<>>) /\ new_edge_sequence' = PerThread(<<>>)
  BY DEF FinishTurn, NextTurn
<1>3. /\ v \in Seq(Nat) /\ m \in Nat /\ input_edge \in Seq(Nat) /\ Len(v) \in Nat
      /\ Len(origin.vlist) \in Nat
  BY DEF ShapeInv, TypeOK, IsCSR
<1>4. Offsets(v, m) /\ Len(v) > 0 /\ Len(v) >= RowCount(origin.vlist)
  BY <1>1 DEF ShapeInv, GraphInv, Merging
<1> HIDE DEF v
<1>5. /\ input_vertex' \in Seq(Nat) /\ Len(input_vertex') = Len(v) + 1
      /\ Offsets(input_vertex', m) /\ input_vertex'[Len(v) + 1] = m
  BY <1>1, <1>3, <1>4, OffsetsAppend
<1>6. max_id' \in Nat
  BY <1>1, <1>3, <1>4
<1>7. turn' \in 1 .. compress_rate
  BY CompressRateAssumption DEF FinishTurn, NextTurn, ShapeInv, TypeOK
<1>8. MapPerThread(hash_table') /\ MapPerThread(convert_id')
  BY <1>2, EmptyMapIsMap
<1>9. /\ role_vertex' \in [Threads -> Seq(Nat)] /\ role_edge' \in [Threads -> Seq(Nat)]
      /\ new_vertex_sequence' \in [Threads -> Seq(Nat)]
      /\ new_edge_sequence' \in [Threads -> Seq(Nat)]
  BY <1>2 DEF PerThread
<1>10. TypeOK'
  BY <1>1, <1>5, <1>6, <1>7, <1>8, <1>9 DEF ShapeInv, TypeOK, PCs
<1>11. GraphInv'
  <2>1. Len(input_vertex') >= Len(origin.vlist) /\ Len(input_vertex') > 0
    BY <1>3, <1>4, <1>5 DEF RowCount
  <2>2. IsCSR(input_vertex', input_edge')
    BY <1>1, <1>3, <1>5, <2>1 DEF IsCSR
  <2> QED BY <1>1, <2>1, <2>2 DEF GraphInv, Merging
<1>12. SliceInv'
  BY <1>1 DEF SliceInv
<1>13. OutputInv'
  BY <1>1, <1>2 DEF OutputInv, PerThread, Offsets, Merging
<1> QED BY <1>10, <1>11, <1>12, <1>13 DEF ShapeInv
=============================================================================
