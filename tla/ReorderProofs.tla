---------------------------- MODULE ReorderProofs ----------------------------
(***************************************************************************)
(* The theorems about Reorder: the script stays in bounds, the new numbers *)
(* are a permutation, and the graph written is the graph read under the    *)
(* new numbers, for every graph.                                           *)
(***************************************************************************)
EXTENDS Reorder, CSRProofs, FiniteSets, FiniteSetTheorems

(* The queue holds every visited row that has no number yet, once.         *)
QueueInv ==
    /\ \A p, q \in 1 .. Len(bfs_queue) : bfs_queue[p] = bfs_queue[q] => p = q
    /\ \A p \in 1 .. Len(bfs_queue) : bfs_queue[p] \in visited
    /\ \A p \in 1 .. Len(bfs_queue), a \in Numbered : new_vertex_id[a] # bfs_queue[p]
    /\ \A r \in visited : \/ \E p \in 1 .. Len(bfs_queue) : bfs_queue[p] = r
                          \/ \E a \in Numbered : new_vertex_id[a] = r

NumberInv ==
    \A a \in Numbered : new_vertex_id[a] \in visited /\ reverse_id[new_vertex_id[a]] = a

ProgressInv ==
    /\ pc \in {"search", "scan"} => \A r \in 0 .. i - 1 : r \in visited
    /\ pc = "scan" => curr_node \in RowIds
    /\ pc \in {"write", "done"} => new_id = n

EntriesInv == \A p \in 1 .. Len(elist) : elist[p] < n

IInv == TypeOK /\ QueueInv /\ NumberInv /\ ProgressInv /\ EntriesInv
-----------------------------------------------------------------------------
(* Counting.                                                               *)

(* m different numbers below N, none of them x: m is less than N.          *)
LEMMA OneLeft ==
    ASSUME NEW N \in Nat, NEW m \in 0 .. N, NEW f \in [0 .. N - 1 -> 0 .. N - 1],
           NEW x \in 0 .. N - 1,
           \A a, b \in 0 .. m - 1 : f[a] = f[b] => a = b,
           \A a \in 0 .. m - 1 : f[a] # x
    PROVE  m < N
<1> DEFINE g == [a \in 0 .. m - 1 |-> f[a]]
           T == (0 .. N - 1) \ {x}
<1>1. \A a \in 0 .. m - 1 : a \in 0 .. N - 1
  OBVIOUS
<1>2. g \in Injection(0 .. m - 1, T)
  <2>1. g \in [0 .. m - 1 -> T]
    BY <1>1
  <2>2. \A a, b \in 0 .. m - 1 : g[a] = g[b] => a = b
    OBVIOUS
  <2> QED BY <2>1, <2>2 DEF Injection, IsInjective
<1>3. IsFiniteSet(0 .. N - 1) /\ Cardinality(0 .. N - 1) = N
  BY FS_Interval, 0 \in Int, N - 1 \in Int
<1>4. IsFiniteSet(T) /\ Cardinality(T) = N - 1
  <2> DEFINE S == 0 .. N - 1
  <2>1. IsFiniteSet(S) /\ Cardinality(S) = N /\ x \in S
    BY <1>3
  <2> HIDE DEF S
  <2>2. IsFiniteSet(S \ {x}) /\ Cardinality(S \ {x}) = N - 1
    BY <2>1, FS_RemoveElement, SMTT(20)
  <2> QED BY <2>2 DEF S
<1>5. Cardinality(0 .. m - 1) = m
  BY FS_Interval, 0 \in Int, m - 1 \in Int
<1>6. Cardinality(0 .. m - 1) <= Cardinality(T)
  <2> HIDE DEF g, T
  <2> QED BY <1>2, <1>4, FS_Injection
<1> QED BY <1>4, <1>5, <1>6

(* m numbers that cover everything below N: m is N.                        *)
LEMMA AllCovered ==
    ASSUME NEW N \in Nat, NEW m \in 0 .. N, NEW f \in [0 .. N - 1 -> 0 .. N - 1],
           \A r \in 0 .. N - 1 : \E a \in 0 .. m - 1 : f[a] = r
    PROVE  m = N
<1> DEFINE g == [a \in 0 .. m - 1 |-> f[a]]
<1>1. \A a \in 0 .. m - 1 : a \in 0 .. N - 1
  OBVIOUS
<1>2. g \in Surjection(0 .. m - 1, 0 .. N - 1)
  <2>1. g \in [0 .. m - 1 -> 0 .. N - 1]
    BY <1>1
  <2>2. \A r \in 0 .. N - 1 : \E a \in 0 .. m - 1 : g[a] = r
    BY Zenon
  <2> QED BY <2>1, <2>2, Zenon DEF Surjection
<1>3. IsFiniteSet(0 .. m - 1) /\ Cardinality(0 .. m - 1) = m
  BY FS_Interval, 0 \in Int, m - 1 \in Int, SMTT(30)
<1>4. Cardinality(0 .. N - 1) = N
  BY FS_Interval, 0 \in Int, N - 1 \in Int
<1>5. Cardinality(0 .. N - 1) <= Cardinality(0 .. m - 1)
  <2> HIDE DEF g
  <2> QED BY <1>2, <1>3, FS_Surjection
<1> QED BY <1>3, <1>4, <1>5
-----------------------------------------------------------------------------
(* The rows of a CSR graph lie within elist.                               *)
LEMMA RowBounds ==
    ASSUME TypeOK, NEW r \in RowIds
    PROVE  /\ n \in Nat /\ vlist[r + 1] \in 0 .. Len(elist) /\ vlist[r + 2] \in 0 .. Len(elist)
           /\ vlist[r + 1] <= vlist[r + 2] /\ Len(elist) \in Nat
<1>1. Len(vlist) \in Nat /\ Len(elist) \in Nat /\ n = Len(vlist) - 1 /\ Len(vlist) > 0
  BY SMTT(30) DEF TypeOK, IsCSR, n, RowCount
<1>2. r + 1 \in 1 .. Len(vlist) /\ r + 2 \in 1 .. Len(vlist) /\ r + 1 <= r + 2
  BY <1>1 DEF RowIds
<1>3. vlist[r + 1] \in Nat /\ vlist[r + 2] \in Nat
  <2>1. vlist \in Seq(Nat)
    BY DEF TypeOK, IsCSR
  <2> QED BY <2>1, <1>2, ElementOfSeq
<1>4. vlist[r + 1] <= Len(elist) /\ vlist[r + 2] <= Len(elist) /\ vlist[r + 1] <= vlist[r + 2]
  BY <1>2, SMTT(20) DEF TypeOK, IsCSR, Offsets
<1> QED BY <1>1, <1>3, <1>4

LEMMA NumberOfRows == ASSUME TypeOK PROVE n \in Nat /\ Len(elist) \in Nat
BY SMTT(30) DEF TypeOK, IsCSR, n, RowCount

LEMMA InitIInv == Init => IInv
<1> SUFFICES ASSUME Init PROVE IInv
  OBVIOUS
<1>1. PICK g \in Inputs : vlist = g.vlist /\ elist = g.elist
  BY DEF Init
<1>2. IsCSR(vlist, elist) /\ EntriesInv
  BY <1>1, ReorderInputs DEF EntriesInv, n
<1>3. n \in Nat /\ Len(elist) \in Nat
  BY <1>2 DEF IsCSR, n, RowCount
<1>4. TypeOK
  BY <1>2, <1>3 DEF Init, TypeOK, RowIds
<1>5. QueueInv /\ NumberInv /\ ProgressInv
  BY <1>3 DEF Init, QueueInv, NumberInv, ProgressInv, Numbered
<1> QED BY <1>2, <1>4, <1>5 DEF IInv

(* A step that leaves the search alone keeps what is known of it.          *)
LEMMA SearchUntouched ==
    ASSUME IInv, UNCHANGED <<vlist, elist, bfs_queue, visited, numbering>>
    PROVE  QueueInv' /\ NumberInv' /\ EntriesInv'
BY DEF IInv, QueueInv, NumberInv, EntriesInv, Numbered, numbering, n

LEMMA StartRootIInv == ASSUME IInv, StartRoot PROVE IInv'
<1>1. /\ i \in RowIds /\ i \notin visited /\ bfs_queue = <<>> /\ pc = "search"
      /\ bfs_queue' = <<i>> /\ visited' = visited \cup {i} /\ i' = i + 1
      /\ UNCHANGED <<pc, vlist, elist, curr_node, e, new_id, new_vertex_id, reverse_id,
                     out_vlist, out_elist>>
  BY DEF StartRoot, numbering, output
<1>2. n \in Nat /\ n' = n /\ RowIds' = RowIds /\ i \in Nat
  BY <1>1, NumberOfRows DEF IInv, n, RowIds
<1>3. Len(bfs_queue') = 1 /\ bfs_queue'[1] = i /\ bfs_queue' \in Seq(RowIds)
  BY <1>1
<1>4. TypeOK'
  <2>1. visited' \subseteq RowIds
    BY <1>1 DEF IInv, TypeOK
  <2>2. i' \in 0 .. n
    BY <1>1, <1>2 DEF RowIds
  <2> QED BY <1>1, <1>2, <1>3, <2>1, <2>2 DEF IInv, TypeOK
<1>5. QueueInv'
  <2>1. \A a \in Numbered : new_vertex_id[a] \in visited
    BY DEF IInv, NumberInv
  <2>2. \A r \in visited : \E a \in Numbered : new_vertex_id[a] = r
    BY <1>1 DEF IInv, QueueInv
  <2>3. Numbered' = Numbered
    BY <1>1 DEF Numbered
  <2> QED BY <1>1, <1>3, <2>1, <2>2, <2>3 DEF QueueInv
<1>6. NumberInv' /\ EntriesInv'
  BY <1>1, <1>2 DEF IInv, NumberInv, EntriesInv, Numbered
<1>7. ProgressInv'
  <2>1. \A r \in 0 .. i : r \in visited'
    <3>1. \A r \in 0 .. i : r = i \/ r \in 0 .. i - 1
      BY <1>2
    <3> QED BY <1>1, <3>1 DEF IInv, ProgressInv
  <2>2. i' - 1 = i
    BY <1>1, <1>2
  <2> QED BY <1>1, <2>1, <2>2 DEF ProgressInv
<1> QED BY <1>4, <1>5, <1>6, <1>7 DEF IInv

LEMMA SkipVisitedIInv == ASSUME IInv, SkipVisited PROVE IInv'
<1>1. n \in Nat /\ n' = n /\ RowIds' = RowIds /\ i \in 0 .. n - 1 /\ i' = i + 1
  BY NumberOfRows DEF SkipVisited, IInv, n, RowIds
<1>2. TypeOK'
  BY <1>1 DEF SkipVisited, IInv, TypeOK, numbering, output
<1>3. ProgressInv'
  <2>1. \A r \in 0 .. i' - 1 : r = i \/ r \in 0 .. i - 1
    BY <1>1
  <2> QED BY <2>1 DEF SkipVisited, IInv, ProgressInv
<1> QED BY <1>2, <1>3, SearchUntouched DEF SkipVisited, IInv

LEMMA bfsIInv == ASSUME IInv, bfs PROVE IInv'
<1> DEFINE L == Len(bfs_queue)
<1>1. PICK x : x = bfs_queue[L]
  OBVIOUS
<1>2. /\ pc = "search" /\ pc' = "scan" /\ curr_node' = x
      /\ bfs_queue' = SubSeq(bfs_queue, 1, L - 1)
      /\ new_vertex_id' = [new_vertex_id EXCEPT ![new_id] = x]
      /\ reverse_id' = [reverse_id EXCEPT ![x] = new_id]
      /\ new_id' = new_id + 1 /\ e' = vlist[x + 1]
      /\ UNCHANGED <<vlist, elist, visited, i, out_vlist, out_elist>>
  BY <1>1 DEF bfs, output
<1>3. n \in Nat /\ n' = n /\ RowIds' = RowIds /\ RowIds = 0 .. n - 1
  BY <1>2, NumberOfRows DEF IInv, n, RowIds
<1>4. L \in Nat /\ L > 0 /\ x \in RowIds
  <2>1. bfs_queue \in Seq(RowIds) /\ bfs_queue # <<>>
    BY DEF IInv, TypeOK, bfs
  <2> QED BY <1>1, <2>1
<1>5. /\ bfs_queue' \in Seq(RowIds) /\ Len(bfs_queue') = L - 1
      /\ \A p \in 1 .. L - 1 : bfs_queue'[p] = bfs_queue[p]
  <2>1. bfs_queue \in Seq(RowIds)
    BY DEF IInv, TypeOK
  <2>2. PICK k \in Nat : k = L - 1
    BY <1>4
  <2>3. PICK q : q = SubSeq(bfs_queue, 1, k)
    BY Zenon
  <2>4. 1 \in 1 .. L + 1 /\ k \in 0 .. L /\ k <= L
    BY <1>4, <2>2
  <2>5. q \in Seq(RowIds)
    BY <2>1, <2>3, <2>4, SubSeqProperties
  <2>6. Len(q) = IF 1 <= k THEN k - 1 + 1 ELSE 0
    BY <2>1, <2>3, <2>4, SubSeqProperties
  <2>7. Len(q) = k
    BY <2>2, <2>6
  <2>8. \A p \in 1 .. k : q[p] = bfs_queue[p]
    BY <2>1, <2>3, <2>4
  <2>9. bfs_queue' = q
    BY <1>2, <2>2, <2>3
  <2> QED BY <2>2, <2>5, <2>7, <2>8, <2>9
<1>6. \A a \in Numbered : new_vertex_id[a] # x
  BY <1>1, <1>4 DEF IInv, QueueInv
<1>7. new_id \in Nat /\ new_id < n
  <2>1. new_id \in 0 .. n /\ new_vertex_id \in [0 .. n - 1 -> 0 .. n - 1] /\ x \in 0 .. n - 1
    BY <1>3, <1>4, Zenon DEF IInv, TypeOK
  <2>2. \A a, b \in 0 .. new_id - 1 : new_vertex_id[a] = new_vertex_id[b] => a = b
    BY DEF IInv, NumberInv, Numbered
  <2>3. \A a \in 0 .. new_id - 1 : new_vertex_id[a] # x
    BY <1>6 DEF Numbered
  <2>4. new_id < n
    BY <1>3, <2>1, <2>2, <2>3, OneLeft, Zenon
  <2> QED BY <2>1, <2>4, <1>3
<1>8. new_id \in RowIds /\ \A a \in Numbered : a \in RowIds /\ a # new_id
  BY <1>3, <1>7 DEF Numbered
<1>9. /\ new_vertex_id'[new_id] = x /\ reverse_id'[x] = new_id
      /\ \A a \in Numbered : new_vertex_id'[a] = new_vertex_id[a]
      /\ \A a \in Numbered : reverse_id'[new_vertex_id[a]] = reverse_id[new_vertex_id[a]]
      /\ new_vertex_id' \in [RowIds -> RowIds] /\ reverse_id' \in [RowIds -> RowIds]
  BY <1>2, <1>4, <1>6, <1>8 DEF IInv, TypeOK
<1>10. Numbered' = Numbered \cup {new_id}
  BY <1>2, <1>7 DEF Numbered
<1>11. TypeOK'
  <2>1. e' \in 0 .. Len(elist) /\ curr_node' \in Nat /\ new_id' \in 0 .. n
    BY <1>2, <1>3, <1>4, <1>7, RowBounds DEF IInv
  <2> QED BY <1>2, <1>3, <1>5, <1>9, <2>1, Zenon DEF IInv, TypeOK
<1>12. x \in visited
  BY <1>1, <1>4 DEF IInv, QueueInv
<1>13. QueueInv'
  <2>1. \A p \in 1 .. L - 1 : p \in 1 .. L /\ bfs_queue[p] # x
    BY <1>1, <1>4 DEF IInv, QueueInv
  <2>2. \A p \in 1 .. L : p = L \/ p \in 1 .. L - 1
    BY <1>4
  <2>3. \A p, q \in 1 .. L - 1 : bfs_queue'[p] = bfs_queue'[q] => p = q
    BY <1>5, <2>1, Zenon DEF IInv, QueueInv
  <2>4. \A p \in 1 .. L - 1 : bfs_queue'[p] \in visited'
    BY <1>2, <1>5, <2>1 DEF IInv, QueueInv
  <2>5. \A p \in 1 .. L - 1, a \in Numbered' : new_vertex_id'[a] # bfs_queue'[p]
    BY <1>5, <1>9, <1>10, <2>1 DEF IInv, QueueInv
  <2>6. \A r \in visited : \/ \E p \in 1 .. L - 1 : bfs_queue'[p] = r
                           \/ \E a \in Numbered' : new_vertex_id'[a] = r
    <3> SUFFICES ASSUME NEW r \in visited
                 PROVE  \/ \E p \in 1 .. L - 1 : bfs_queue'[p] = r
                        \/ \E a \in Numbered' : new_vertex_id'[a] = r
      OBVIOUS
    <3>1. CASE \E a \in Numbered : new_vertex_id[a] = r
      BY <3>1, <1>9, <1>10
    <3>2. CASE \E p \in 1 .. L : bfs_queue[p] = r
      BY <3>2, <1>1, <1>5, <1>9, <1>10, <2>2
    <3> QED BY <3>1, <3>2 DEF IInv, QueueInv
  <2> QED BY <1>2, <1>5, <2>3, <2>4, <2>5, <2>6 DEF QueueInv
<1>14. NumberInv'
  BY <1>2, <1>9, <1>10, <1>12 DEF IInv, NumberInv
<1>15. ProgressInv' /\ EntriesInv'
  BY <1>2, <1>3, <1>4 DEF IInv, ProgressInv, EntriesInv
<1> QED BY <1>11, <1>13, <1>14, <1>15 DEF IInv

LEMMA ScanIInv == ASSUME IInv, Scan PROVE IInv'
<1> DEFINE L == Len(bfs_queue)
<1>1. PICK x : x = elist[e + 1]
  OBVIOUS
<1>2. /\ pc = "scan" /\ e < vlist[curr_node + 2] /\ e' = e + 1
      /\ visited' = visited \cup {x}
      /\ bfs_queue' = IF x \in visited THEN bfs_queue ELSE Append(bfs_queue, x)
      /\ UNCHANGED <<pc, vlist, elist, curr_node, new_id, new_vertex_id, reverse_id, i,
                     out_vlist, out_elist>>
  BY <1>1 DEF Scan, numbering, output
<1>3. n \in Nat /\ n' = n /\ RowIds' = RowIds /\ RowIds = 0 .. n - 1 /\ Numbered' = Numbered
  BY <1>2, NumberOfRows DEF IInv, n, RowIds, Numbered
<1>4. e + 1 \in 1 .. Len(elist) /\ e' \in 0 .. Len(elist)
  <2>1. curr_node \in RowIds /\ e \in 0 .. Len(elist)
    BY <1>2 DEF IInv, ProgressInv, TypeOK
  <2> QED BY <1>2, <2>1, RowBounds DEF IInv
<1>5. x \in RowIds
  <2>1. x \in Nat
    <3>1. elist \in Seq(Nat)
      BY DEF IInv, TypeOK, IsCSR
    <3> QED BY <1>1, <1>4, <3>1, ElementOfSeq
  <2>2. x < n
    BY <1>1, <1>4 DEF IInv, EntriesInv
  <2> QED BY <1>3, <2>1, <2>2
<1>6. visited' \subseteq RowIds
  BY <1>2, <1>5 DEF IInv, TypeOK
<1>7. NumberInv' /\ ProgressInv' /\ EntriesInv'
  BY <1>2, <1>3 DEF IInv, NumberInv, ProgressInv, EntriesInv
<1>8. CASE x \in visited
  <2>1. bfs_queue' = bfs_queue /\ visited' = visited
    BY <1>2, <1>8
  <2>2. TypeOK' /\ QueueInv'
    BY <2>1, <1>2, <1>3, <1>4, Zenon DEF IInv, TypeOK, QueueInv
  <2> QED BY <1>7, <2>2 DEF IInv
<1>9. CASE x \notin visited
  <2>1. /\ bfs_queue' \in Seq(RowIds) /\ L \in Nat /\ Len(bfs_queue') = L + 1
        /\ bfs_queue'[L + 1] = x /\ \A p \in 1 .. L : bfs_queue'[p] = bfs_queue[p]
    BY <1>2, <1>5, <1>9, AppendProperties DEF IInv, TypeOK
  <2>2. TypeOK'
    BY <2>1, <1>2, <1>3, <1>4, <1>6, SMTT(20) DEF IInv, TypeOK
  <2>3. \A p \in 1 .. L + 1 : p = L + 1 \/ p \in 1 .. L
    BY <2>1
  <2>4. \A p \in 1 .. L : bfs_queue'[p] \in visited /\ bfs_queue'[p] # x
    BY <2>1, <1>9 DEF IInv, QueueInv
  <2>5. \A a \in Numbered : new_vertex_id[a] # x
    BY <1>9 DEF IInv, NumberInv
  <2>6. \A p, q \in 1 .. L + 1 : bfs_queue'[p] = bfs_queue'[q] => p = q
    BY <2>1, <2>3, <2>4 DEF IInv, QueueInv
  <2>7. \A p \in 1 .. L + 1 : bfs_queue'[p] \in visited'
    BY <2>1, <2>3, <2>4, <1>2
  <2>8. \A p \in 1 .. L + 1, a \in Numbered' : new_vertex_id'[a] # bfs_queue'[p]
    BY <2>1, <2>3, <2>5, <1>2, <1>3 DEF IInv, QueueInv
  <2>9. \A r \in visited' : \/ \E p \in 1 .. L + 1 : bfs_queue'[p] = r
                            \/ \E a \in Numbered' : new_vertex_id'[a] = r
    <3>1. \A p \in 1 .. L : p \in 1 .. L + 1
      BY <2>1
    <3>2. L + 1 \in 1 .. L + 1
      BY <2>1
    <3> QED BY <2>1, <3>1, <3>2, <1>2, <1>3 DEF IInv, QueueInv
  <2>10. QueueInv'
    BY <2>1, <2>6, <2>7, <2>8, <2>9 DEF QueueInv
  <2> QED BY <1>7, <2>2, <2>10 DEF IInv
<1> QED BY <1>8, <1>9

LEMMA ScanDoneIInv == ASSUME IInv, ScanDone PROVE IInv'
<1>1. TypeOK' /\ ProgressInv'
  BY DEF ScanDone, IInv, TypeOK, ProgressInv, numbering, output, n, RowIds
<1> QED BY <1>1, SearchUntouched DEF ScanDone, IInv

LEMMA BeginWriteIInv == ASSUME IInv, BeginWrite PROVE IInv'
<1>1. n \in Nat /\ n' = n /\ RowIds' = RowIds /\ RowIds = 0 .. n - 1
  BY NumberOfRows DEF BeginWrite, IInv, n, RowIds
<1>2. new_id = n
  <2>1. \A r \in 0 .. n - 1 : r \in visited
    BY <1>1 DEF BeginWrite, IInv, TypeOK, ProgressInv
  <2>2. \A r \in visited : \E a \in 0 .. new_id - 1 : new_vertex_id[a] = r
    BY DEF BeginWrite, IInv, QueueInv, Numbered
  <2>3. new_id \in 0 .. n /\ new_vertex_id \in [0 .. n - 1 -> 0 .. n - 1]
    BY <1>1 DEF IInv, TypeOK
  <2> QED BY <1>1, <2>1, <2>2, <2>3, AllCovered, Zenon
<1>3. TypeOK'
  <2>1. <<0>> \in Seq(Nat)
    OBVIOUS
  <2> QED BY <1>1, <2>1, SMTT(30) DEF BeginWrite, IInv, TypeOK, numbering
<1>4. ProgressInv'
  BY <1>1, <1>2 DEF BeginWrite, ProgressInv, numbering
<1> QED BY <1>3, <1>4, SearchUntouched DEF BeginWrite, IInv

(* The old row s under the new numbers.                                    *)
Renamed(s) ==
    LET row == Row(vlist, elist, s)
    IN  [p \in 1 .. Len(row) |-> reverse_id[row[p]]]

LEMMA RenamedSeq ==
    ASSUME IInv, NEW s \in RowIds PROVE Renamed(s) \in Seq(Nat)
<1>1. n \in Nat /\ RowIds = 0 .. n - 1 /\ elist \in Seq(Nat) /\ Len(elist) \in Nat
  BY NumberOfRows, SMTT(30) DEF IInv, TypeOK, RowIds, IsCSR
<1>2. PICK x \in Nat, y \in Nat : x = vlist[s + 1] /\ y = vlist[s + 2] /\ x <= y /\ y <= Len(elist)
  BY RowBounds DEF IInv
<1>3. PICK row : row = Row(vlist, elist, s)
  OBVIOUS
<1>4. row \in Seq(Nat) /\ Len(row) = y - x /\ \A p \in 1 .. y - x : row[p] = elist[x + p]
  <2>1. row = SubSeq(elist, x + 1, y) /\ x <= y /\ y <= Len(elist) /\ elist \in Seq(Nat)
    BY <1>1, <1>2, <1>3, Zenon DEF Row
  <2> QED BY <2>1, PartEntries, Zenon
<1>5. ASSUME NEW p \in 1 .. Len(row) PROVE reverse_id[row[p]] \in Nat
  <2>0. p \in 1 .. y - x
    BY <1>4, Zenon
  <2>1. x + p \in 1 .. Len(elist) /\ p \in 1 .. y - x
    <3>1. y <= Len(elist) /\ Len(elist) \in Nat
      BY <1>1, <1>2, Zenon
    <3> QED BY <2>0, <3>1
  <2>2. elist[x + p] \in Nat /\ elist[x + p] < n
    BY <1>1, <2>1, ElementOfSeq, SMTT(30) DEF IInv, EntriesInv
  <2>3. row[p] \in RowIds
    <3>1. elist[x + p] \in RowIds
      BY <1>1, <2>2
    <3> QED BY <1>4, <2>0, <3>1, Zenon
  <2> QED BY <1>1, <2>3 DEF IInv, TypeOK
<1>6. [p \in 1 .. Len(row) |-> reverse_id[row[p]]] \in [1 .. Len(row) -> Nat] /\ Len(row) \in Nat
  BY <1>4, <1>5
<1> QED BY <1>3, <1>6, FunctionIsSeq, Zenon DEF Renamed

LEMMA WriteRowIInv == ASSUME IInv, WriteRow PROVE IInv'
<1>1. n \in Nat /\ n' = n /\ RowIds' = RowIds /\ RowIds = 0 .. n - 1
  BY NumberOfRows DEF WriteRow, IInv, n, RowIds
<1>2. i \in RowIds /\ i' = i + 1 /\ i' \in 0 .. n
  BY <1>1 DEF WriteRow
<1>3. PICK s, new : s = SourceRow /\ new = Renamed(s)
  OBVIOUS
<1>4. s \in RowIds
  BY <1>2, <1>3 DEF IInv, TypeOK, SourceRow
<1>5. new \in Seq(Nat)
  BY <1>3, <1>4, RenamedSeq
<1>6. out_elist' = out_elist \o new /\ out_vlist' = Append(out_vlist, Len(out_elist'))
  BY <1>3 DEF WriteRow, Renamed
<1>7. out_elist' \in Seq(Nat)
  BY <1>5, <1>6, ConcatProperties DEF IInv, TypeOK
<1>8. out_vlist' \in Seq(Nat)
  <2>1. Len(out_elist') \in Nat
    BY <1>7
  <2> QED BY <1>6, <2>1, AppendProperties DEF IInv, TypeOK
<1>9. UNCHANGED <<pc, vlist, elist, bfs_queue, visited, curr_node, e, new_id,
                   new_vertex_id, reverse_id>>
  BY DEF WriteRow, numbering
<1>10. TypeOK'
  BY <1>1, <1>2, <1>7, <1>8, <1>9, Zenon DEF IInv, TypeOK
<1>11. ProgressInv'
  BY <1>1, <1>9 DEF WriteRow, IInv, ProgressInv
<1> QED BY <1>9, <1>10, <1>11, SearchUntouched DEF IInv, numbering

LEMMA FinishIInv == ASSUME IInv, Finish PROVE IInv'
<1>1. TypeOK' /\ ProgressInv'
  BY SMTT(30) DEF Finish, IInv, TypeOK, ProgressInv, numbering, output, n, RowIds
<1> QED BY <1>1, SearchUntouched DEF Finish, IInv

LEMMA NextIInv == ASSUME IInv, [Next]_vars PROVE IInv'
<1>1. CASE UNCHANGED vars
  <2>1. TypeOK' /\ ProgressInv'
    BY <1>1 DEF vars, IInv, TypeOK, ProgressInv, numbering, output, n, RowIds
  <2> QED BY <1>1, <2>1, SearchUntouched DEF IInv, vars
<1>2. CASE Terminated
  BY <1>1, <1>2 DEF Terminated
<1> QED BY <1>1, <1>2, StartRootIInv, SkipVisitedIInv, bfsIInv, ScanIInv, ScanDoneIInv,
           BeginWriteIInv, WriteRowIInv, FinishIInv DEF Next

(* The inductive invariant holds in every reachable state of the script.   *)
THEOREM Invariance == Spec => []IInv
BY InitIInv, NextIInv, PTL DEF Spec

(* No array of the script is read or written out of bounds.                *)
THEOREM InBounds == Spec => []TypeOK
<1>1. IInv => TypeOK
  BY DEF IInv
<1> QED BY Invariance, <1>1, PTL

(* The traversal numbers every row exactly once: new_vertex_id and         *)
(* reverse_id are inverse to each other, and complete before the graph is  *)
(* written.                                                                *)
THEOREM Permutation == Spec => []NumberingIsPermutation
<1>1. IInv => NumberingIsPermutation
  BY DEF IInv, NumberInv, ProgressInv, NumberingIsPermutation
<1> QED BY Invariance, <1>1, PTL
-----------------------------------------------------------------------------
(* The graph that is written.                                              *)

(* w and g are the graph of v and u with the row f behind the others.      *)
RowAdded(v, u, f, w, g) ==
    /\ IsCSR(w, g) /\ Len(w) = Len(v) + 1
    /\ \A a \in 0 .. Len(v) - 2 : Row(w, g, a) = Row(v, u, a)
    /\ Row(w, g, Len(v) - 1) = f

LEMMA RowAppended ==
    ASSUME NEW v, NEW u, IsCSR(v, u), NEW f \in Seq(Nat)
    PROVE  RowAdded(v, u, f, Append(v, Len(u \o f)), u \o f)
<1>1. /\ v \in Seq(Nat) /\ u \in Seq(Nat) /\ Offsets(v, Len(u)) /\ v[Len(v)] = Len(u)
      /\ Len(v) \in Nat /\ Len(v) > 0 /\ Len(u) \in Nat /\ Len(f) \in Nat
  BY LenProperties DEF IsCSR
<1>2. PICK g, m : g = u \o f /\ m = Len(u \o f)
  BY Zenon
<1>3. g \in Seq(Nat) /\ m = Len(u) + Len(f) /\ m \in Nat /\ Len(u) <= m /\ Len(g) = m
  BY <1>1, <1>2, ConcatEntries
<1>4. PICK w : w = Append(v, m)
  BY Zenon
<1>5. w \in Seq(Nat) /\ Len(w) = Len(v) + 1 /\ Offsets(w, m) /\ w[Len(v) + 1] = m
  <2>1. Offsets(v, m) /\ (Len(v) = 0 => m = 0)
    BY <1>1, <1>3, OffsetsGrow
  <2> QED BY <1>1, <1>3, <1>4, <2>1, OffsetsAppend
<1>6. \A j \in 1 .. Len(v) : w[j] = v[j]
  BY <1>1, <1>3, <1>4, AppendProperties
<1>7. IsCSR(w, g)
  <2>1. Len(w) > 0 /\ w[Len(w)] = m
    BY <1>1, <1>5
  <2> QED BY <1>3, <1>5, <2>1 DEF IsCSR
<1>8. ASSUME NEW a \in 0 .. Len(v) - 2 PROVE Row(w, g, a) = Row(v, u, a)
  <2>1. a + 1 \in 1 .. Len(v) /\ a + 2 \in 1 .. Len(v) /\ a + 1 <= a + 2
    BY <1>1
  <2>2. PICK x, y : x = v[a + 1] /\ y = v[a + 2]
    OBVIOUS
  <2>3. x \in Nat /\ y \in Nat /\ x <= y /\ y <= Len(u)
    BY <1>1, <2>1, <2>2, OffsetsAt
  <2>4. w[a + 1] = x /\ w[a + 2] = y
    BY <1>6, <2>1, <2>2
  <2>5. SubSeq(g, x + 1, y) = SubSeq(u, x + 1, y)
    BY <1>1, <1>2, <2>3, PartFirst
  <2> QED BY <2>2, <2>4, <2>5, Zenon DEF Row
<1>9. Row(w, g, Len(v) - 1) = f
  <2>1. PICK z : z = Len(v) - 1
    OBVIOUS
  <2>2. z + 1 = Len(v) /\ z + 2 = Len(v) + 1 /\ Len(v) \in 1 .. Len(v)
    BY <1>1, <2>1
  <2>3. w[z + 1] = Len(u) /\ w[z + 2] = m
    BY <1>1, <1>5, <1>6, <2>2, Zenon
  <2>4. SubSeq(u \o f, (0 + Len(u)) + 1, Len(f) + Len(u)) = SubSeq(f, 0 + 1, Len(f))
    BY <1>1, PartSecond, SMTT(30)
  <2>5. (0 + Len(u)) + 1 = Len(u) + 1 /\ Len(f) + Len(u) = m /\ 0 + 1 = 1
    BY <1>1, <1>3
  <2>6. SubSeq(f, 1, Len(f)) = f
    BY WholePart
  <2>7. SubSeq(g, Len(u) + 1, m) = f
    BY <1>2, <2>4, <2>5, <2>6, Zenon
  <2> QED BY <2>1, <2>3, <2>7, Zenon DEF Row
<1> QED BY <1>2, <1>4, <1>5, <1>7, <1>8, <1>9, Zenon DEF RowAdded

(* The rows written so far are the renamed ones, in the new order, and     *)
(* every old row has its turn.                                             *)
OutputInv ==
    /\ pc \in {"search", "scan"} => out_elist = <<>>
    /\ pc \in {"write", "done"} =>
          /\ IsCSR(out_vlist, out_elist) /\ Len(out_vlist) = i + 1
          /\ \A a \in 0 .. i - 1 : Row(out_vlist, out_elist, a) = Renamed(new_vertex_id[a])
          /\ \A r \in RowIds : \E a \in RowIds : new_vertex_id[a] = r
          /\ pc = "done" => i = n

LEMMA BeginWriteOutput == ASSUME IInv, OutputInv, BeginWrite PROVE OutputInv'
<1>1. /\ pc' = "write" /\ i' = 0 /\ out_vlist' = <<0>> /\ out_elist' = <<>>
      /\ bfs_queue = <<>> /\ pc = "search" /\ i \notin RowIds
      /\ UNCHANGED <<vlist, elist, new_id, new_vertex_id>>
  BY DEF BeginWrite, numbering, OutputInv
<1>2. n \in Nat /\ n' = n /\ RowIds' = RowIds /\ RowIds = 0 .. n - 1 /\ new_id \in 0 .. n /\ i \in 0 .. n
  BY <1>1, NumberOfRows DEF IInv, TypeOK, n, RowIds
<1>3. IsCSR(<<0>>, <<>>)
  BY DEF IsCSR, Offsets
<1>4. \A r \in RowIds : \E a \in RowIds : new_vertex_id[a] = r
  <2>1. \A r \in RowIds : r \in 0 .. i - 1
    BY <1>1, <1>2
  <2>2. \A r \in RowIds : \E a \in Numbered : new_vertex_id[a] = r
    BY <1>1, <2>1 DEF IInv, ProgressInv, QueueInv
  <2>3. \A a \in Numbered : a \in RowIds
    BY <1>2 DEF Numbered
  <2> QED BY <2>2, <2>3
<1> QED BY <1>1, <1>2, <1>3, <1>4 DEF OutputInv

LEMMA WriteRowOutput == ASSUME IInv, OutputInv, WriteRow PROVE OutputInv'
<1>1. PICK s, f : s = new_vertex_id[i] /\ f = Renamed(s)
  OBVIOUS
<1>2. /\ pc = "write" /\ pc' = "write" /\ i \in RowIds /\ i' = i + 1
      /\ UNCHANGED <<vlist, elist, new_id, new_vertex_id, reverse_id>>
      /\ out_elist' = out_elist \o f /\ out_vlist' = Append(out_vlist, Len(out_elist \o f))
  BY <1>1 DEF WriteRow, SourceRow, Renamed, numbering
<1>3. /\ n \in Nat /\ n' = n /\ RowIds' = RowIds /\ RowIds = 0 .. n - 1
      /\ \A a : Renamed(new_vertex_id[a])' = Renamed(new_vertex_id[a])
  BY <1>2, NumberOfRows DEF IInv, n, RowIds, Renamed
<1>4. f \in Seq(Nat)
  <2>1. s \in RowIds
    BY <1>1, <1>2 DEF IInv, TypeOK
  <2> QED BY <1>1, <2>1, RenamedSeq
<1>5. IsCSR(out_vlist, out_elist) /\ Len(out_vlist) = i + 1
  BY <1>2 DEF OutputInv
<1>6. RowAdded(out_vlist, out_elist, f, out_vlist', out_elist')
  BY <1>2, <1>4, <1>5, RowAppended
<1>7. IsCSR(out_vlist', out_elist') /\ Len(out_vlist') = i' + 1
  BY <1>2, <1>3, <1>5, <1>6 DEF RowAdded
<1>8. ASSUME NEW a \in 0 .. i' - 1
      PROVE  Row(out_vlist', out_elist', a) = Renamed(new_vertex_id[a])
  <2>1. CASE a = i
    <3>1. Len(out_vlist) - 1 = i
      BY <1>3, <1>2, <1>5
    <3>2. Row(out_vlist', out_elist', i) = f
      BY <1>6, <3>1, Zenon DEF RowAdded
    <3> QED BY <1>1, <2>1, <3>2, Zenon
  <2>2. CASE a # i
    <3>1. a \in 0 .. i - 1 /\ a \in 0 .. Len(out_vlist) - 2
      BY <1>2, <1>3, <1>5, <2>2
    <3>2. Row(out_vlist', out_elist', a) = Row(out_vlist, out_elist, a)
      BY <1>6, <3>1, Zenon DEF RowAdded
    <3> QED BY <1>2, <3>1, <3>2 DEF OutputInv
  <2> QED BY <2>1, <2>2
<1>9. \A a \in 0 .. i' - 1 : Row(out_vlist', out_elist', a) = Renamed(new_vertex_id[a])'
  BY <1>3, <1>8
<1>10. \A r \in RowIds : \E a \in RowIds : new_vertex_id[a] = r
  BY <1>2 DEF OutputInv
<1> QED BY <1>2, <1>3, <1>7, <1>9, <1>10 DEF OutputInv

(* A step of the search, and one that leaves the output alone.             *)
LEMMA SearchOutput ==
    ASSUME OutputInv, UNCHANGED out_elist, pc \in {"search", "scan"}, pc' \in {"search", "scan"}
    PROVE  OutputInv'
BY DEF OutputInv

LEMMA OutputUntouched ==
    ASSUME OutputInv, UNCHANGED <<vlist, elist, numbering, i, output>>,
           pc' = pc \/ (pc = "write" /\ pc' = "done" /\ i = n)
    PROVE  OutputInv'
<1>1. /\ UNCHANGED <<new_vertex_id, out_vlist, out_elist>> /\ n' = n /\ RowIds' = RowIds
      /\ \A a : Renamed(new_vertex_id[a])' = Renamed(new_vertex_id[a])
  BY DEF numbering, output, n, RowIds, Renamed
<1>2. CASE pc \in {"write", "done"}
  BY <1>1, <1>2 DEF OutputInv
<1>3. CASE pc \notin {"write", "done"}
  BY <1>1, <1>3 DEF OutputInv
<1> QED BY <1>2, <1>3

LEMMA NextOutput == ASSUME IInv, OutputInv, [Next]_vars PROVE OutputInv'
<1>1. CASE StartRoot \/ SkipVisited \/ bfs \/ Scan \/ ScanDone
  BY <1>1, SearchOutput DEF StartRoot, SkipVisited, bfs, Scan, ScanDone, output
<1>2. CASE Finish
  <2>1. i = n
    BY <1>2, NumberOfRows DEF Finish, IInv, TypeOK, RowIds
  <2> QED BY <1>2, <2>1, OutputUntouched DEF Finish
<1>3. CASE UNCHANGED vars
  BY <1>3, OutputUntouched DEF vars
<1> QED BY <1>1, <1>2, <1>3, BeginWriteOutput, WriteRowOutput DEF Next, Terminated

(* The script writes the graph it has read under the new numbers: nothing  *)
(* is lost, added or confused, for every graph.                            *)
THEOREM Renaming == Spec => []OutputIsRenaming
<1>1. Init => IInv /\ OutputInv
  BY InitIInv DEF Init, OutputInv
<1>2. IInv /\ OutputInv /\ [Next]_vars => (IInv /\ OutputInv)'
  BY NextIInv, NextOutput
<1>3. IInv /\ OutputInv => OutputIsRenaming
  <2> SUFFICES ASSUME IInv, OutputInv, pc = "done"
               PROVE  /\ IsCSR(out_vlist, out_elist) /\ RowCount(out_vlist) = n
                      /\ \A r \in RowIds : Row(out_vlist, out_elist, reverse_id[r]) = Renamed(r)
    BY DEF OutputIsRenaming, Renamed
  <2>1. n \in Nat /\ RowIds = 0 .. n - 1 /\ i = n /\ IsCSR(out_vlist, out_elist) /\ Len(out_vlist) = i + 1
    BY NumberOfRows DEF IInv, RowIds, OutputInv
  <2>2. ASSUME NEW r \in RowIds PROVE Row(out_vlist, out_elist, reverse_id[r]) = Renamed(r)
    <3>1. PICK a \in RowIds : new_vertex_id[a] = r
      BY DEF OutputInv
    <3>2. a \in Numbered
      BY <2>1, <3>1 DEF IInv, ProgressInv, Numbered
    <3>3. reverse_id[r] = a
      BY <3>1, <3>2 DEF IInv, NumberInv
    <3>4. Row(out_vlist, out_elist, a) = Renamed(r)
      BY <2>1, <3>1, Zenon DEF OutputInv
    <3> QED BY <3>3, <3>4, Zenon
  <2> QED BY <2>1, <2>2 DEF RowCount
<1> QED BY <1>1, <1>2, <1>3, PTL DEF Spec
=============================================================================
