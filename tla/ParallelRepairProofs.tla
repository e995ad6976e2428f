------------------------ MODULE ParallelRepairProofs ------------------------
(***************************************************************************)
(* The theorems about ParallelRepair.  The inductive invariant IInv adds   *)
(* to the shape of the data how the threads number the rules.              *)
(***************************************************************************)
EXTENDS ParallelRepairShape

(* The first number of thread t: it has used one per row it has written.   *)
RangeStart(t) == new_start_id[t] - Len(role_vertex[t])

(* What the numbering itself guarantees, whatever the graph.               *)
IdsApart ==
    \A t, u \in Threads : \A g \in DOMAIN convert_id[t], h \in DOMAIN convert_id[u] :
        /\ convert_id[t][g] = convert_id[u][h] => t = u /\ g = h
        /\ pc = "prepare" => convert_id[t][g] > max_id

(* Thread t numbers its pairs from a range of its own, above max_id and    *)
(* behind the ranges of the threads before it.                             *)
Numbered(t) ==
    /\ todo[t] \subseteq DOMAIN hash_table[t]
    /\ DOMAIN convert_id[t] = DOMAIN hash_table[t] \ todo[t]
    /\ Len(role_vertex[t]) = Cardinality(DOMAIN hash_table[t]) - Cardinality(todo[t])
    /\ pc # "prepare" \/ t \notin running => todo[t] = {}
    /\ RangeStart(t) > max_id
    /\ \A u \in 0 .. t - 1 :
          RangeStart(u) + Cardinality(DOMAIN hash_table[u]) <= RangeStart(t)
    /\ \A h \in DOMAIN convert_id[t] :
          RangeStart(t) <= convert_id[t][h] /\ convert_id[t][h] < new_start_id[t]
    /\ \A g, h \in DOMAIN convert_id[t] :
          convert_id[t][g] = convert_id[t][h] => g = h

Numbering == pc \in {"prepare", "replace", "merge", "role"}

IdInv ==
    /\ pc \in {"allocate", "count", "start", "done"} =>
          \A t \in Threads : DOMAIN convert_id[t] = {} /\ role_vertex[t] = <<>>
    /\ pc = "start" => \A t \in 0 .. k - 1 :
          /\ new_start_id[t] > max_id
          /\ \A u \in 0 .. t - 1 :
                new_start_id[u] + Cardinality(DOMAIN hash_table[u]) <= new_start_id[t]
    /\ Numbering => \A t \in Threads : Numbered(t)
    /\ pc = "crashed" => IdsApart

IInv == ShapeInv /\ RoleInv /\ IdInv
-----------------------------------------------------------------------------
(* The rows of the rules.                                                  *)

LEMMA InitRole == Init => RoleInv
BY DEF Init, RoleInv, PerThread

LEMMA prepare_new_idRole ==
    ASSUME ShapeInv, RoleInv, NEW t \in Threads, prepare_new_id(t) PROVE RoleInv'
<1> DEFINE v == role_vertex[t]
           e == role_edge[t]
<1>1. PICK h \in todo[t] :
        /\ role_vertex' = [role_vertex EXCEPT ![t] = Append(v, 2 * Len(v))]
        /\ role_edge' = [role_edge EXCEPT ![t] = e \o <<LeftOf(h), RightOf(h)>>]
  BY DEF prepare_new_id
<1>2. v \in Seq(Nat) /\ e \in Seq(Nat) /\ Len(v) \in Nat /\ 2 * Len(v) \in Nat
  BY DEF ShapeInv, TypeOK
<1>3. /\ h \in Nat /\ LeftOf(h) \in Nat /\ RightOf(h) \in Nat
      /\ <<LeftOf(h), RightOf(h)>> \in Seq(Nat)
  <2>1. h \in Nat /\ LeftOf(h) \in Nat /\ RightOf(h) \in Nat
    BY PairHashNat DEF ShapeInv, TypeOK
  <2> QED BY <2>1
<1>4. Len(e) = 2 * Len(v) /\ \A i \in 1 .. Len(v) : v[i] = 2 * (i - 1)
  BY DEF RoleInv
<1>5. /\ Append(v, 2 * Len(v)) \in Seq(Nat) /\ Len(Append(v, 2 * Len(v))) = Len(v) + 1
      /\ \A i \in 1 .. Len(v) : Append(v, 2 * Len(v))[i] = v[i]
      /\ Append(v, 2 * Len(v))[Len(v) + 1] = 2 * Len(v)
  BY <1>2, AppendProperties
<1>6. /\ e \o <<LeftOf(h), RightOf(h)>> \in Seq(Nat)
      /\ Len(e \o <<LeftOf(h), RightOf(h)>>) = Len(e) + 2
  BY <1>2, <1>3, ConcatEntries
<1>7. /\ role_vertex'[t] = Append(v, 2 * Len(v))
      /\ role_edge'[t] = e \o <<LeftOf(h), RightOf(h)>>
      /\ \A u \in Threads : u # t => role_vertex'[u] = role_vertex[u] /\ role_edge'[u] = role_edge[u]
  BY <1>1 DEF ShapeInv, TypeOK
<1> HIDE DEF v, e
<1>8. /\ Len(role_edge'[t]) = 2 * Len(role_vertex'[t])
      /\ \A i \in 1 .. Len(role_vertex'[t]) : role_vertex'[t][i] = 2 * (i - 1)
  <2>1. Len(role_edge'[t]) = Len(e) + 2 /\ Len(role_vertex'[t]) = Len(v) + 1
    BY <1>5, <1>6, <1>7, Zenon
  <2>2. ASSUME NEW i \in 1 .. Len(v) + 1 PROVE role_vertex'[t][i] = 2 * (i - 1)
    <3>1. CASE i \in 1 .. Len(v)
      BY <1>4, <1>5, <1>7, <3>1, Zenon
    <3>2. CASE i = Len(v) + 1
      <4>1. 2 * (i - 1) = 2 * Len(v)
        BY <1>2, <3>2
      <4> QED BY <1>5, <1>7, <3>2, <4>1, Zenon
    <3> QED BY <1>2, <3>1, <3>2
  <2> QED BY <1>2, <1>4, <2>1, <2>2
<1> QED BY <1>7, <1>8 DEF RoleInv

LEMMA FinishTurnRole == ASSUME FinishTurn PROVE RoleInv'
BY DEF FinishTurn, RoleInv, PerThread
-----------------------------------------------------------------------------
(* The numbers of the rules.                                               *)

(* Cardinalities of the tables.                                            *)
LEMMA TableSizes ==
    ASSUME ShapeInv, NEW t \in Threads
    PROVE  /\ IsFiniteSet(DOMAIN hash_table[t])
           /\ Cardinality(DOMAIN hash_table[t]) \in Nat
           /\ new_start_id[t] \in Nat /\ Len(role_vertex[t]) \in Nat
           /\ RangeStart(t) \in Int /\ max_id \in Nat
<1>1. IsFiniteSet(DOMAIN hash_table[t])
  BY DEF ShapeInv, TypeOK, MapPerThread, IsMap
<1>2. new_start_id[t] \in Nat /\ Len(role_vertex[t]) \in Nat /\ max_id \in Nat
  BY DEF ShapeInv, TypeOK
<1> QED BY <1>1, <1>2, FS_CardinalityType DEF RangeStart

(* The ranges of two threads do not overlap.                               *)
LEMMA NumberedUnique ==
    ASSUME ShapeInv, Numbering, \A t \in Threads : Numbered(t)
    PROVE  IdsApart
<1>1. ASSUME NEW t \in Threads, NEW h \in DOMAIN convert_id[t]
      PROVE  /\ convert_id[t][h] \in Nat /\ RangeStart(t) <= convert_id[t][h]
             /\ convert_id[t][h] > max_id
             /\ convert_id[t][h] < RangeStart(t) + Cardinality(DOMAIN hash_table[t])
  <2> DEFINE c == convert_id[t][h]
             n == new_start_id[t]
             l == Len(role_vertex[t])
             s == RangeStart(t)
             d == Cardinality(DOMAIN hash_table[t])
  <2>1. c \in Nat
    BY DEF ShapeInv, TypeOK, MapPerThread, IsMap
  <2>2. s <= c /\ c < n /\ s > max_id
    BY DEF Numbered
  <2>3. IsFiniteSet(todo[t]) /\ Cardinality(todo[t]) \in Nat
    BY TableSizes, FS_Subset, FS_CardinalityType DEF Numbered
  <2>4. l = d - Cardinality(todo[t])
    BY DEF Numbered
  <2>5. s = n - l
    BY DEF RangeStart
  <2>6. n \in Nat /\ l \in Nat /\ d \in Nat /\ s \in Int /\ max_id \in Nat
    BY TableSizes
  <2> HIDE DEF c, n, l, s, d
  <2>7. c > max_id /\ c < s + d
    BY <2>1, <2>2, <2>3, <2>4, <2>5, <2>6
  <2> QED BY <2>1, <2>2, <2>7 DEF c, s, d
<1>2. ASSUME NEW t \in Threads, NEW u \in Threads, u < t,
             NEW g \in DOMAIN convert_id[t], NEW h \in DOMAIN convert_id[u]
      PROVE  convert_id[u][h] < convert_id[t][g]
  <2> DEFINE x == convert_id[u][h]
             y == convert_id[t][g]
             p == RangeStart(u) + Cardinality(DOMAIN hash_table[u])
             q == RangeStart(t)
  <2>1. x \in Nat /\ y \in Nat /\ x < p /\ q <= y
    BY <1>1
  <2>2. p \in Int /\ q \in Int
    BY TableSizes
  <2>3. p <= q
    <3>1. u \in 0 .. t - 1
      BY <1>2 DEF Threads
    <3> QED BY <3>1 DEF Numbered
  <2> HIDE DEF x, y, p, q
  <2>4. x < y
    BY <2>1, <2>2, <2>3
  <2> QED BY <2>4 DEF x, y
<1>3. ASSUME NEW t \in Threads, NEW u \in Threads,
             NEW g \in DOMAIN convert_id[t], NEW h \in DOMAIN convert_id[u],
             convert_id[t][g] = convert_id[u][h]
      PROVE  t = u /\ g = h
  <2>1. convert_id[t][g] \in Nat /\ convert_id[u][h] \in Nat
    BY <1>1
  <2>2. CASE t < u
    BY <1>2, <1>3, <2>1, <2>2
  <2>3. CASE u < t
    BY <1>2, <1>3, <2>1, <2>3
  <2>4. CASE t = u
    BY <1>3, <2>4 DEF Numbered
  <2> QED BY <2>2, <2>3, <2>4 DEF Threads
<1> QED BY <1>1, <1>3 DEF IdsApart

(* No number is given out yet, or all are.                                 *)
LEMMA IInvUnique == IInv => IdsApart
<1> SUFFICES ASSUME IInv PROVE IdsApart
  OBVIOUS
<1>1. CASE Numbering
  BY <1>1, NumberedUnique DEF IInv, IdInv
<1>2. CASE pc \in {"allocate", "count", "start", "done"}
  BY <1>2 DEF IInv, IdInv, IdsApart
<1>3. CASE pc = "crashed"
  BY <1>3 DEF IInv, IdInv
<1> QED BY <1>1, <1>2, <1>3 DEF IInv, ShapeInv, TypeOK, PCs, Numbering

(* Steps that give out no number.                                          *)
LEMMA NumberedUntouched ==
    ASSUME NEW t \in Threads, Numbered(t), 
           UNCHANGED <<hash_table, rules, max_id>>,
           pc' # "prepare" \/ t \notin running' => todo[t] = {}
    PROVE  Numbered(t)'
BY DEF Numbered, RangeStart, rules

LEMMA IdUntouched ==
    ASSUME IdInv, Numbering, Numbering', UNCHANGED <<hash_table, rules, max_id>>,
           \A t \in Threads : pc' # "prepare" \/ t \notin running' => todo[t] = {}
    PROVE  IdInv'
<1>1. \A t \in Threads : Numbered(t)'
  BY NumberedUntouched DEF IdInv
<1>2. pc' \in {"prepare", "replace", "merge", "role"}
  BY DEF Numbering
<1> QED BY <1>1, <1>2 DEF IdInv

LEMMA InitId == Init => IdInv
BY DEF Init, IdInv, PerThread, EmptyMap, Numbering

LEMMA AllocatePairsId == ASSUME IInv, AllocatePairs PROVE IdInv'
<1>1. /\ pc = "allocate" /\ pc' \in {"count", "crashed"}
      /\ UNCHANGED <<convert_id, role_vertex>>
  BY DEF AllocatePairs, rules
<1>2. \A t \in Threads : DOMAIN convert_id[t] = {} /\ role_vertex[t] = <<>>
  BY <1>1 DEF IInv, IdInv
<1>3. IdsApart'
  BY <1>1, <1>2 DEF IdsApart
<1> QED BY <1>1, <1>2, <1>3 DEF IdInv, Numbering

LEMMA processpairsId == ASSUME IInv, NEW t \in Threads, processpairs(t) PROVE IdInv'
BY DEF processpairs, IInv, IdInv, Numbering, rules

LEMMA JoinCountId == ASSUME IInv, JoinCount PROVE IdInv'
BY DEF JoinCount, IInv, IdInv, Numbering, rules

LEMMA StartIdId == ASSUME IInv, StartId PROVE IdInv'
<1> DEFINE size(t) == Cardinality(DOMAIN hash_table[t])
           s == new_start_id
           first == IF k = 0 THEN max_id + 1 ELSE s[k - 1] + size(k - 1)
<1>1. /\ pc = "start" /\ pc' = "start" /\ k' = k + 1 /\ new_start_id' = [s EXCEPT ![k] = first]
      /\ UNCHANGED <<hash_table, max_id, convert_id, role_vertex>>
  BY DEF StartId, FirstId, tables, graph
<1>2. k \in Threads /\ k \in Nat /\ s \in [Threads -> Nat] /\ 0 .. k \subseteq Threads
  <2>1. k \in 0 .. thread_num /\ k < thread_num /\ s \in [Threads -> Nat]
    BY DEF StartId, IInv, ShapeInv, TypeOK
  <2>2. k \in Threads /\ k \in Nat
    BY <2>1, ThreadNumAssumption DEF Threads
  <2>3. 0 .. k \subseteq Threads
    BY <2>1, ThreadNumAssumption DEF Threads
  <2> QED BY <2>1, <2>2, <2>3
<1>3. \A t \in Threads : s[t] \in Nat /\ size(t) \in Nat
  BY TableSizes DEF IInv
<1>4. max_id \in Nat
  BY DEF IInv, ShapeInv, TypeOK
<1>5. \A t \in 0 .. k - 1 :
          s[t] > max_id /\ \A u \in 0 .. t - 1 : s[u] + size(u) <= s[t]
  BY <1>1 DEF IInv, IdInv
<1> HIDE DEF size
<1>6. first > max_id /\ first \in Nat
  <2>1. CASE k = 0
    BY <1>4, <2>1
  <2>2. CASE k # 0
    <3>1. k - 1 \in 0 .. k - 1 /\ k - 1 \in Threads
      BY <1>2, <2>2
    <3>2. s[k - 1] > max_id /\ s[k - 1] \in Nat /\ size(k - 1) \in Nat
      BY <1>3, <1>5, <3>1
    <3> QED BY <1>4, <2>2, <3>2
  <2> QED BY <2>1, <2>2
<1>7. ASSUME NEW u \in 0 .. k - 1 PROVE s[u] + size(u) <= first
  <2>1. k # 0 /\ k - 1 \in 0 .. k - 1 /\ k - 1 \in Threads /\ u \in Threads
    BY <1>2
  <2>2. first = s[k - 1] + size(k - 1) /\ s[k - 1] \in Nat /\ size(k - 1) \in Nat
        /\ s[u] \in Nat /\ size(u) \in Nat
    BY <1>3, <2>1
  <2>3. CASE u = k - 1
    BY <2>2, <2>3
  <2>4. CASE u # k - 1
    <3>1. u \in 0 .. (k - 1) - 1
      BY <1>2, <2>4
    <3>2. s[u] + size(u) <= s[k - 1]
      BY <1>5, <2>1, <3>1
    <3> HIDE DEF first, s
    <3> QED BY <2>2, <3>2
  <2> QED BY <2>3, <2>4
<1> HIDE DEF first
<1>8. new_start_id'[k] = first /\ \A t \in 0 .. k - 1 : new_start_id'[t] = s[t]
  BY <1>1, <1>2
<1>9. ASSUME NEW t \in 0 .. k' - 1
      PROVE  /\ new_start_id'[t] > max_id
             /\ \A u \in 0 .. t - 1 : new_start_id'[u] + size(u) <= new_start_id'[t]
  <2>1. CASE t = k
    BY <1>6, <1>7, <1>8, <2>1
  <2>2. CASE t # k
    <3>1. t \in 0 .. k - 1 /\ 0 .. t - 1 \subseteq 0 .. k - 1
      BY <1>1, <1>2, <2>2
    <3> QED BY <1>5, <1>8, <3>1
  <2> QED BY <2>1, <2>2
<1> QED BY <1>1, <1>9 DEF IInv, IdInv, Numbering, size

LEMMA SpawnPrepareId == ASSUME IInv, SpawnPrepare PROVE IdInv'
<1>1. /\ pc = "start" /\ pc' = "prepare" /\ k = thread_num /\ running' = Threads
      /\ todo' = [t \in Threads |-> DOMAIN hash_table[t]]
      /\ UNCHANGED <<hash_table, max_id, new_start_id, convert_id, role_vertex>>
  BY DEF SpawnPrepare, tables, graph
<1>2. 0 .. k - 1 = Threads
  BY <1>1 DEF Threads
<1>3. ASSUME NEW t \in Threads PROVE Numbered(t)'
  <2>1. DOMAIN convert_id[t] = {} /\ role_vertex[t] = <<>>
    BY <1>1 DEF IInv, IdInv
  <2>2. \A u \in Threads : RangeStart(u)' = new_start_id[u]
    <3> TAKE u \in Threads
    <3>1. Len(role_vertex[u]) = 0 /\ new_start_id[u] \in Nat
      BY <1>1, TableSizes DEF IInv, IdInv
    <3> QED BY <1>1, <3>1 DEF RangeStart
  <2>3. Len(role_vertex[t]) = 0 /\ Cardinality(DOMAIN hash_table[t]) \in Nat
    BY <2>1, TableSizes DEF IInv
  <2>4. /\ new_start_id[t] > max_id
        /\ \A u \in 0 .. t - 1 :
              new_start_id[u] + Cardinality(DOMAIN hash_table[u]) <= new_start_id[t]
    BY <1>1, <1>2 DEF IInv, IdInv
  <2>5. 0 .. t - 1 \subseteq Threads
    BY ThreadNumAssumption DEF Threads
  <2>6. todo'[t] = DOMAIN hash_table[t]
    BY <1>1
  <2>7. /\ todo'[t] \subseteq DOMAIN hash_table'[t]
        /\ DOMAIN convert_id'[t] = DOMAIN hash_table'[t] \ todo'[t]
        /\ pc' # "prepare" \/ t \notin running' => todo'[t] = {}
    BY <1>1, <2>1, <2>6
  <2>8. Len(role_vertex'[t]) = Cardinality(DOMAIN hash_table'[t]) - Cardinality(todo'[t])
    BY <1>1, <2>3, <2>6
  <2>9. /\ RangeStart(t)' > max_id'
        /\ \A u \in 0 .. t - 1 :
              RangeStart(u)' + Cardinality(DOMAIN hash_table'[u]) <= RangeStart(t)'
    BY <1>1, <2>2, <2>4, <2>5
  <2>10. DOMAIN convert_id'[t] = {}
    BY <1>1, <2>1
  <2> QED BY <2>7, <2>8, <2>9, <2>10 DEF Numbered
<1> QED BY <1>1, <1>3 DEF IdInv, Numbering

LEMMA prepare_new_idId ==
    ASSUME IInv, NEW t \in Threads, prepare_new_id(t) PROVE IdInv'
<1>1. pc = "prepare" /\ pc' = "prepare" /\ t \in running
      /\ UNCHANGED <<hash_table, max_id, running>>
  BY DEF prepare_new_id, tables, graph
<1>2. PICK h \in todo[t] :
        /\ convert_id' = [convert_id EXCEPT ![t] =
               [g \in DOMAIN @ \cup {h} |-> IF g \in DOMAIN @ THEN @[g] ELSE new_start_id[t]]]
        /\ new_start_id' = [new_start_id EXCEPT ![t] = @ + 1]
        /\ role_vertex' = [role_vertex EXCEPT ![t] = Append(@, 2 * Len(@))]
        /\ todo' = [todo EXCEPT ![t] = @ \ {h}]
  BY DEF prepare_new_id
<1> DEFINE c == convert_id[t]
           n == new_start_id[t]
           l == Len(role_vertex[t])
           D == DOMAIN hash_table[t]
<1>3. \A u \in Threads : Numbered(u)
  BY <1>1 DEF IInv, IdInv, Numbering
<1>4. n \in Nat /\ l \in Nat /\ IsFiniteSet(D) /\ Cardinality(D) \in Nat
      /\ RangeStart(t) \in Int /\ max_id \in Nat
  BY TableSizes DEF IInv
<1>5. IsMap(c) /\ c = [g \in DOMAIN c |-> c[g]]
  BY DEF IInv, ShapeInv, TypeOK, MapPerThread, IsMap
<1>6. /\ new_start_id'[t] = n + 1 /\ todo'[t] = todo[t] \ {h}
      /\ \A u \in Threads : u # t => new_start_id'[u] = new_start_id[u] /\ todo'[u] = todo[u]
  BY <1>2 DEF IInv, ShapeInv, TypeOK
<1>7. /\ Len(role_vertex'[t]) = l + 1
      /\ \A u \in Threads : u # t => role_vertex'[u] = role_vertex[u]
  <2>1. role_vertex[t] \in Seq(Nat) /\ 2 * l \in Nat
    BY DEF IInv, ShapeInv, TypeOK
  <2>2. Append(role_vertex[t], 2 * l) \in Seq(Nat) /\ Len(Append(role_vertex[t], 2 * l)) = l + 1
    BY <2>1, AppendProperties
  <2>3. /\ role_vertex'[t] = Append(role_vertex[t], 2 * l)
        /\ \A u \in Threads : u # t => role_vertex'[u] = role_vertex[u]
    BY <1>2 DEF IInv, ShapeInv, TypeOK
  <2> QED BY <2>2, <2>3, Zenon
<1>8. /\ DOMAIN convert_id'[t] = DOMAIN c \cup {h}
      /\ \A g \in DOMAIN c : convert_id'[t][g] = c[g]
      /\ h \notin DOMAIN c => convert_id'[t][h] = n
      /\ \A u \in Threads : u # t => convert_id'[u] = convert_id[u]
  <2> DEFINE m == [g \in DOMAIN c \cup {h} |-> IF g \in DOMAIN c THEN c[g] ELSE n]
  <2>1. convert_id' = [convert_id EXCEPT ![t] = m]
    BY <1>2
  <2>2. convert_id = [u \in Threads |-> convert_id[u]]
    BY DEF IInv, ShapeInv, TypeOK, MapPerThread
  <2>3. convert_id'[t] = m /\ \A u \in Threads : u # t => convert_id'[u] = convert_id[u]
    <3> HIDE DEF m
    <3> QED BY <2>1, <2>2
  <2> QED BY <2>3
<1>9. \A u \in Threads : RangeStart(u)' = RangeStart(u)
  <2> TAKE u \in Threads
  <2>1. CASE u = t
    BY <1>4, <1>6, <1>7, <2>1 DEF RangeStart
  <2>2. CASE u # t
    BY <1>6, <1>7, <2>2 DEF RangeStart
  <2> QED BY <2>1, <2>2
<1>10. h \in D /\ h \notin DOMAIN c
  BY <1>3 DEF Numbered
<1>11. ASSUME NEW u \in Threads
       PROVE  /\ RangeStart(u)' > max_id'
              /\ \A w \in 0 .. u - 1 :
                    RangeStart(w)' + Cardinality(DOMAIN hash_table'[w]) <= RangeStart(u)'
  <2>1. 0 .. u - 1 \subseteq Threads
    BY ThreadNumAssumption DEF Threads
  <2> QED BY <1>1, <1>3, <1>9, <2>1 DEF Numbered
<1>12. ASSUME NEW u \in Threads, u # t PROVE Numbered(u)'
  <2>1. hash_table' = hash_table /\ pc' = pc /\ running' = running
    BY <1>1
  <2>2. /\ convert_id'[u] = convert_id[u] /\ role_vertex'[u] = role_vertex[u]
        /\ todo'[u] = todo[u] /\ new_start_id'[u] = new_start_id[u]
    BY <1>6, <1>7, <1>8, <1>12
  <2>3. Numbered(u) /\ RangeStart(u)' = RangeStart(u)
    BY <1>3, <1>9
  <2> QED BY <1>11, <2>1, <2>2, <2>3 DEF Numbered
<1>13. Numbered(t)'
  <2>1. /\ todo'[t] \subseteq DOMAIN hash_table'[t]
        /\ DOMAIN convert_id'[t] = DOMAIN hash_table'[t] \ todo'[t]
        /\ pc' # "prepare" \/ t \notin running' => todo'[t] = {}
    BY <1>1, <1>3, <1>6, <1>8, <1>10 DEF Numbered
  <2>2. Len(role_vertex'[t]) = Cardinality(DOMAIN hash_table'[t]) - Cardinality(todo'[t])
    <3>1. l = Cardinality(D) - Cardinality(todo[t]) /\ todo[t] \subseteq D
      BY <1>3 DEF Numbered
    <3>2. IsFiniteSet(todo[t]) /\ Cardinality(todo[t]) \in Nat
      BY <1>4, <3>1, FS_Subset, FS_CardinalityType
    <3>3. Cardinality(todo[t] \ {h}) = Cardinality(todo[t]) - 1
      BY <3>2, FS_RemoveElement
    <3> QED BY <1>1, <1>4, <1>6, <1>7, <3>1, <3>2, <3>3
  <2>3. /\ \A g \in DOMAIN c : RangeStart(t) <= c[g] /\ c[g] < n /\ c[g] \in Nat
        /\ \A f, g \in DOMAIN c : c[f] = c[g] => f = g
    BY <1>3, <1>5 DEF Numbered, IsMap
  <2>4. RangeStart(t) <= n
    BY <1>4 DEF RangeStart
  <2> HIDE DEF c, n, l, D
  <2>5. \A g \in DOMAIN convert_id'[t] :
           RangeStart(t)' <= convert_id'[t][g] /\ convert_id'[t][g] < new_start_id'[t]
    <3> TAKE g \in DOMAIN convert_id'[t]
    <3>1. CASE g \in DOMAIN c
      <4>1. convert_id'[t][g] = c[g] /\ RangeStart(t) <= c[g] /\ c[g] < n /\ c[g] \in Nat
        BY <1>8, <2>3, <3>1
      <4> QED BY <1>4, <1>6, <1>9, <4>1
    <3>2. CASE g = h
      <4>1. convert_id'[t][g] = n
        BY <1>8, <1>10, <3>2
      <4> QED BY <1>4, <1>6, <1>9, <2>4, <4>1
    <3> QED BY <1>8, <3>1, <3>2
  <2>6. \A f, g \in DOMAIN convert_id'[t] :
           convert_id'[t][f] = convert_id'[t][g] => f = g
    <3>1. convert_id'[t][h] = n /\ \A g \in DOMAIN c : convert_id'[t][g] = c[g] /\ c[g] # n
      <4>1. \A g \in DOMAIN c : c[g] # n
        BY <1>4, <2>3
      <4> QED BY <1>8, <1>10, <4>1
    <3> QED BY <1>8, <2>3, <3>1, Zenon
  <2> QED BY <1>11, <2>1, <2>2, <2>5, <2>6 DEF Numbered
<1> QED BY <1>1, <1>12, <1>13 DEF IdInv, Numbering

LEMMA ReturnPrepareId == ASSUME IInv, NEW t \in Threads, ReturnPrepare(t) PROVE IdInv'
<1>1. /\ pc = "prepare" /\ pc' = "prepare" /\ todo[t] = {} /\ running' = running \ {t}
      /\ UNCHANGED <<hash_table, rules, max_id>>
  BY DEF ReturnPrepare, tables, graph
<1>2. \A u \in Threads : pc' # "prepare" \/ u \notin running' => todo[u] = {}
  BY <1>1 DEF IInv, IdInv, Numbering, Numbered
<1> QED BY <1>1, <1>2, IdUntouched DEF IInv, Numbering

LEMMA SplitId == ASSUME IInv, Split PROVE IdInv'
<1>1. /\ pc = "prepare" /\ pc' = "replace" /\ running = {}
      /\ UNCHANGED <<hash_table, rules, max_id>>
  BY DEF Split, tables, graph
<1>2. \A u \in Threads : todo[u] = {}
  BY <1>1 DEF IInv, IdInv, Numbering, Numbered
<1> QED BY <1>1, <1>2, IdUntouched DEF IInv, Numbering

(* Once the prepare threads have returned, every pair that has an entry in *)
(* a table has a number, so operator[] finds what it looks up.             *)
LEMMA replaceReads ==
    ASSUME IInv, NEW t \in Threads, replace(t) PROVE UNCHANGED <<hash_table, convert_id>>
<1> DEFINE left == buckets[t][idx[t] + 1]
           table == left % thread_num
           key == pair_hash(left, buckets[t][idx[t] + 2])
           c == convert_id[table]
           m == [g \in DOMAIN c \cup {key} |-> Lookup(c, g)]
<1>1. pc = "replace" /\ hash_table' = hash_table /\ idx[t] < RowEnd(t)
  BY DEF replace, tables, InRow
<1>2. CASE ~(idx[t] + 1 < RowEnd(t) /\ key \in DOMAIN hash_table[table])
  BY <1>1, <1>2 DEF replace
<1>3. CASE idx[t] + 1 < RowEnd(t) /\ key \in DOMAIN hash_table[table]
  <2>1. convert_id' = [convert_id EXCEPT ![table] = m]
    BY <1>3 DEF replace
  <2>2. table \in Threads
    <3>1. /\ idx[t] \in Nat /\ RowEnd(t) \in Nat /\ RowEnd(t) <= Len(buckets[t])
          /\ buckets[t] \in Seq(Nat)
      BY <1>1, InSlice DEF IInv, ShapeInv, TypeOK
    <3>2. idx[t] + 1 \in 1 .. Len(buckets[t])
      BY <1>1, <3>1
    <3>3. left \in Nat
      BY <3>1, <3>2
    <3> QED BY <3>3, ModThreads
  <2>3. key \in DOMAIN c
    BY <1>1, <1>3, <2>2 DEF IInv, IdInv, Numbering, Numbered
  <2>4. c = [g \in DOMAIN c |-> c[g]] /\ convert_id = [u \in Threads |-> convert_id[u]]
    BY <2>2 DEF IInv, ShapeInv, TypeOK, MapPerThread, IsMap
  <2> HIDE DEF key, table, left
  <2>5. m = c
    BY <2>3, <2>4 DEF Lookup
  <2> HIDE DEF m
  <2>6. [convert_id EXCEPT ![table] = m] = convert_id
    BY <2>4, <2>5
  <2> QED BY <1>1, <2>1, <2>6
<1> QED BY <1>2, <1>3

LEMMA replaceId == ASSUME IInv, NEW t \in Threads, replace(t) PROVE IdInv'
<1>1. /\ pc = "replace" /\ pc' = "replace"
      /\ UNCHANGED <<new_start_id, role_vertex, role_edge, todo, max_id>>
  BY DEF replace, graph
<1>2. UNCHANGED <<hash_table, convert_id>>
  BY replaceReads
<1>3. \A u \in Threads : todo[u] = {}
  BY <1>1 DEF IInv, IdInv, Numbering, Numbered
<1> QED BY <1>1, <1>2, <1>3, IdUntouched DEF IInv, Numbering, rules

(* The rest of the turn only reads the numbers.                            *)
LEMMA OtherId ==
    ASSUME IInv, pc \in {"replace", "merge", "role"}, pc' \in {"replace", "merge", "role"},
           UNCHANGED <<tables, rules, max_id>>
    PROVE  IdInv'
<1>1. \A u \in Threads : todo[u] = {}
  BY DEF IInv, IdInv, Numbering, Numbered
<1> QED BY <1>1, IdUntouched DEF IInv, Numbering, tables

LEMMA replaceCrashId ==
    ASSUME IInv, NEW t \in Threads, replaceCrash(t) PROVE IdInv'
<1>1. pc' = "crashed" /\ pc' # "prepare" /\ UNCHANGED convert_id
  BY DEF replaceCrash, rules
<1>2. IdsApart'
  BY <1>1, IInvUnique DEF IdsApart
<1> QED BY <1>1, <1>2 DEF IdInv, Numbering

LEMMA FinishTurnId == ASSUME FinishTurn PROVE IdInv'
BY DEF FinishTurn, NextTurn, IdInv, Numbering, PerThread, EmptyMap
-----------------------------------------------------------------------------
(* The inductive invariant.                                                *)

LEMMA InitIInv == Init => IInv
BY InitShape, InitRole, InitId DEF IInv

LEMMA MainIInv == ASSUME IInv, Main PROVE IInv'
<1>1. CASE AllocatePairs
  <2>1. RoleInv'
    BY <1>1 DEF IInv, RoleInv, AllocatePairs, rules
  <2> QED BY <1>1, <2>1, AllocatePairsShape, AllocatePairsId DEF IInv
<1>2. CASE JoinCount
  <2>1. RoleInv'
    BY <1>2 DEF IInv, RoleInv, JoinCount, rules
  <2> QED BY <1>2, <2>1, JoinCountShape, JoinCountId DEF IInv
<1>3. CASE StartId
  <2>1. RoleInv'
    BY <1>3 DEF IInv, RoleInv, StartId
  <2> QED BY <1>3, <2>1, StartIdShape, StartIdId DEF IInv
<1>4. CASE SpawnPrepare
  <2>1. RoleInv'
    BY <1>4 DEF IInv, RoleInv, SpawnPrepare
  <2> QED BY <1>4, <2>1, SpawnPrepareShape, SpawnPrepareId DEF IInv
<1>5. CASE Split
  <2>1. RoleInv'
    BY <1>5 DEF IInv, RoleInv, Split, rules
  <2> QED BY <1>5, <2>1, SplitShape, SplitId DEF IInv
<1>6. CASE JoinReplace
  <2>1. RoleInv'
    BY <1>6 DEF IInv, RoleInv, JoinReplace, rules
  <2>2. IdInv'
    BY <1>6, OtherId DEF JoinReplace
  <2> QED BY <1>6, <2>1, <2>2, JoinReplaceShape DEF IInv
<1>7. CASE MergeBatch
  <2>1. RoleInv'
    BY <1>7 DEF IInv, RoleInv, MergeBatch, rules
  <2>2. IdInv'
    BY <1>7, OtherId DEF MergeBatch
  <2> QED BY <1>7, <2>1, <2>2, MergeBatchShape DEF IInv
<1>8. CASE BeginRoles
  <2>1. RoleInv'
    BY <1>8 DEF IInv, RoleInv, BeginRoles, rules
  <2>2. IdInv'
    BY <1>8, OtherId DEF BeginRoles, graph
  <2> QED BY <1>8, <2>1, <2>2, BeginRolesShape DEF IInv
<1>9. CASE MergeRole
  <2>1. RoleInv'
    BY <1>9 DEF IInv, RoleInv, MergeRole, rules
  <2>2. IdInv'
    BY <1>9, OtherId DEF MergeRole
  <2> QED BY <1>9, <2>1, <2>2, MergeRoleShape DEF IInv
<1>10. CASE FinishTurn
  BY <1>10, FinishTurnShape, FinishTurnRole, FinishTurnId DEF IInv
<1> QED BY <1>1, <1>2, <1>3, <1>4, <1>5, <1>6, <1>7, <1>8, <1>9, <1>10 DEF Main

LEMMA ThreadIInv == ASSUME IInv, NEW t \in Threads, Thread(t) PROVE IInv'
<1>1. CASE processpairs(t)
  <2>1. RoleInv'
    BY <1>1 DEF IInv, RoleInv, processpairs, rules
  <2> QED BY <1>1, <2>1, processpairsShape, processpairsId DEF IInv
<1>2. CASE prepare_new_id(t)
  BY <1>2, prepare_new_idShape, prepare_new_idRole, prepare_new_idId DEF IInv
<1>3. CASE ReturnPrepare(t)
  <2>1. RoleInv'
    BY <1>3 DEF IInv, RoleInv, ReturnPrepare, rules
  <2> QED BY <1>3, <2>1, ReturnPrepareShape, ReturnPrepareId DEF IInv
<1>4. CASE replaceRow(t)
  <2>1. RoleInv'
    BY <1>4 DEF IInv, RoleInv, replaceRow, rules
  <2>2. IdInv'
    BY <1>4, OtherId DEF replaceRow, graph
  <2> QED BY <1>4, <2>1, <2>2, replaceRowShape DEF IInv
<1>5. CASE replace(t)
  <2>1. RoleInv'
    BY <1>5 DEF IInv, RoleInv, replace
  <2> QED BY <1>5, <2>1, replaceShape, replaceId DEF IInv
<1>6. CASE replaceCrash(t)
  <2>1. RoleInv'
    BY <1>6 DEF IInv, RoleInv, replaceCrash, rules
  <2> QED BY <1>6, <2>1, replaceCrashShape, replaceCrashId DEF IInv
<1>7. CASE ReturnReplace(t)
  <2>1. RoleInv'
    BY <1>7 DEF IInv, RoleInv, ReturnReplace, rules
  <2>2. IdInv'
    BY <1>7, OtherId DEF ReturnReplace, graph
  <2> QED BY <1>7, <2>1, <2>2, ReturnReplaceShape DEF IInv
<1> QED BY <1>1, <1>2, <1>3, <1>4, <1>5, <1>6, <1>7 DEF Thread

LEMMA StutterIInv == ASSUME IInv, UNCHANGED vars PROVE IInv'
<1> USE DEF vars, graph, tables, rules, slices
<1>1. TypeOK'
  BY DEF IInv, ShapeInv, TypeOK
<1>2. GraphInv' /\ SliceInv' /\ OutputInv'
  BY DEF IInv, ShapeInv, GraphInv, SliceInv, OutputInv, Merging, LastSlice, thread_size
<1>3. RoleInv' /\ IdsApart' = IdsApart
  BY DEF IInv, RoleInv, IdsApart
<1>4. \A t \in Threads : Numbered(t)' = Numbered(t)
  BY DEF Numbered, RangeStart
<1>5. IdInv'
  BY <1>3, <1>4 DEF IInv, IdInv, Numbering
<1> QED BY <1>1, <1>2, <1>3, <1>5 DEF IInv, ShapeInv

LEMMA NextIInv == ASSUME IInv, [Next]_vars PROVE IInv'
BY MainIInv, ThreadIInv, StutterIInv DEF Next, Terminated

(* IInv holds in every state of every run of the compressor.               *)
THEOREM Invariance == Spec => []IInv
BY InitIInv, NextIInv, PTL DEF Spec

(* Every variable of the constructor keeps the type its declaration gives  *)
(* it.                                                                     *)
THEOREM TypeCorrect == Spec => []TypeOK
<1>1. IInv => TypeOK
  BY DEF IInv, ShapeInv
<1> QED BY <1>1, Invariance, PTL

-----------------------------------------------------------------------------
(* max_id and the number of rows, from the beginning of a turn until main  *)
(* takes the graph apart.                                                  *)
MaxInv ==
    pc \in {"allocate", "count", "start", "prepare", "replace"} /\ (GoodInput \/ turn > 1) =>
        RowCount(input_vertex) <= max_id + 1

LEMMA InitMax == Init => MaxInv
<1> SUFFICES ASSUME Init, GoodInput PROVE RowCount(input_vertex) <= max_id + 1
  BY DEF MaxInv, Init
<1>1. IsCSR(origin.vlist, origin.elist) /\ input_vertex = origin.vlist
  BY InputsAssumption DEF Init
<1>2. PICK m : m = Len(origin.vlist) - 2 /\ IsMaxSymbol(m, origin.elist)
  BY DEF GoodInput
<1>3. Len(origin.vlist) \in Nat /\ m \in Int
  BY <1>1, <1>2 DEF IsCSR
<1>4. max_id \in Nat /\ IsMaxSymbol(max_id, origin.elist)
  <2>1. \A p \in 1 .. Len(origin.elist) : origin.elist[p] \in Nat
    BY <1>1 DEF IsCSR
  <2> QED BY <2>1 DEF Init
<1>5. m <= max_id
  <2>1. CASE m = 0
    BY <1>4, <2>1
  <2>2. CASE m # 0
    BY <1>2, <1>4, <2>2 DEF IsMaxSymbol
  <2> QED BY <2>1, <2>2
<1> QED BY <1>1, <1>2, <1>3, <1>4, <1>5 DEF RowCount

LEMMA NextMax == ASSUME IInv, MaxInv, [Next]_vars PROVE MaxInv'
<1>1. CASE FinishTurn
  <2>1. input_vertex \in Seq(Nat)
    BY DEF IInv, ShapeInv, TypeOK
  <2>2. Len(input_vertex') = Len(input_vertex) + 1 /\ max_id' = Len(input_vertex) - 1
    BY <1>1, <2>1, AppendProperties DEF FinishTurn
  <2> QED BY <2>1, <2>2 DEF MaxInv, RowCount
<1>2. CASE JoinReplace \/ MergeBatch \/ BeginRoles \/ MergeRole
  BY <1>2 DEF JoinReplace, MergeBatch, BeginRoles, MergeRole, MaxInv
<1>3. CASE Split
  BY <1>3 DEF Split, MaxInv, GoodInput, graph
<1>4. CASE AllocatePairs \/ JoinCount \/ StartId \/ SpawnPrepare
  BY <1>4 DEF AllocatePairs, JoinCount, StartId, SpawnPrepare, MaxInv, GoodInput, graph
<1>5. ASSUME NEW t \in Threads, Thread(t) PROVE MaxInv'
  <2>1. /\ UNCHANGED <<turn, origin, graph>>
        /\ pc' \in {"allocate", "count", "start", "prepare", "replace"} =>
              pc \in {"allocate", "count", "start", "prepare", "replace"}
    BY <1>5 DEF Thread, processpairs, prepare_new_id, ReturnPrepare, replaceRow, replace,
       replaceCrash, ReturnReplace
  <2> QED BY <2>1 DEF MaxInv, GoodInput, graph
<1>6. CASE Terminated \/ UNCHANGED vars
  BY <1>6 DEF Terminated, vars, graph, MaxInv, GoodInput
<1> QED BY <1>1, <1>2, <1>3, <1>4, <1>5, <1>6 DEF Next, Main

LEMMA ApartUnique == ASSUME IInv, IdsApart, MaxInv PROVE IdsUnique
<1>1. max_id \in Nat /\ MapPerThread(convert_id) /\ input_vertex \in Seq(Nat)
  BY DEF IInv, ShapeInv, TypeOK
<1>2. SUFFICES ASSUME NEW t \in Threads, NEW g \in DOMAIN convert_id[t],
                      pc = "prepare", GoodInput \/ turn > 1
               PROVE  convert_id[t][g] >= RowCount(input_vertex)
  BY DEF IdsUnique, IdsApart
<1>3. convert_id[t][g] \in Nat /\ convert_id[t][g] > max_id
  BY <1>1, <1>2 DEF MapPerThread, IsMap, IdsApart
<1>4. RowCount(input_vertex) <= max_id + 1 /\ RowCount(input_vertex) \in Int
  BY <1>1, <1>2 DEF MaxInv, RowCount
<1> QED BY <1>1, <1>3, <1>4

(* prepare_new_id gives no number twice and none that is not above max_id, *)
(* for any number of threads and any order in which they run and iterate   *)
(* their tables.  On a good input, and from the second turn on, no number  *)
(* is that of an existing row.                                             *)
THEOREM UniqueIds == Spec => []IdsUnique
<1>1. Init => MaxInv
  BY InitMax
<1>2. IInv /\ MaxInv /\ [Next]_vars => MaxInv'
  BY NextMax
<1>3. IInv /\ MaxInv => IdsUnique
  BY IInvUnique, ApartUnique
<1> QED BY <1>1, <1>2, <1>3, Invariance, PTL DEF Spec

(* replace() never inserts into convert_id: the threads share it safely.   *)
THEOREM LookupsOnlyRead == Spec => ReplaceOnlyReads
<1>1. ASSUME IInv, Next, pc = "replace" PROVE UNCHANGED <<hash_table, convert_id>>
  <2>1. CASE Main
    BY <1>1, <2>1 DEF Main, AllocatePairs, JoinCount, StartId, SpawnPrepare, Split,
       JoinReplace, MergeBatch, BeginRoles, MergeRole, FinishTurn, tables, rules
  <2>2. ASSUME NEW t \in Threads, Thread(t) PROVE UNCHANGED <<hash_table, convert_id>>
    <3>1. CASE replace(t)
      BY <1>1, <3>1, replaceReads
    <3>2. CASE ~replace(t)
      BY <1>1, <2>2, <3>2 DEF Thread, processpairs, prepare_new_id, ReturnPrepare,
         replaceRow, replaceCrash, ReturnReplace, tables, rules
    <3> QED BY <3>1, <3>2
  <2>3. CASE Terminated
    BY <2>3 DEF Terminated, vars, tables, rules
  <2> QED BY <1>1, <2>1, <2>2, <2>3 DEF Next
<1>2. IInv /\ [Next]_vars => [pc = "replace" => UNCHANGED <<hash_table, convert_id>>]_vars
  BY <1>1
<1> QED BY <1>2, Invariance, PTL DEF Spec, ReplaceOnlyReads
=============================================================================
