------------------------------- MODULE Reorder -------------------------------
(***************************************************************************)
(* Encoding&Apps/bfs_reorder.py: the rows of a compressed graph, vertices  *)
(* and rules alike, are numbered anew in the order of a traversal, and the *)
(* graph is written out under the new numbers.                             *)
(***************************************************************************)
EXTENDS CSR

CONSTANT Inputs      \* the graphs the script may be run on

(* Every entry is the number of a row.                                     *)
ASSUME ReorderInputs == \A g \in Inputs :
    /\ DOMAIN g = {"vlist", "elist"} /\ IsCSR(g.vlist, g.elist)
    /\ \A e \in 1 .. Len(g.elist) : g.elist[e] < RowCount(g.vlist)

VARIABLES
    pc,                          \* "search", "scan", "write", "done", "ValueError"
    vlist, elist,
    bfs_queue, visited,
    curr_node, e,                \* the row being scanned, and the position in elist
    new_id,                      \* rows numbered so far
    new_vertex_id,               \* old number of every new one
    reverse_id,                  \* new number of every old one
    i,                           \* index of the loop over the rows
    out_vlist, out_elist         \* reordered_vlist.txt, reordered_elist.txt

numbering == <<new_id, new_vertex_id, reverse_id>>
output == <<out_vlist, out_elist>>
vars == <<pc, vlist, elist, bfs_queue, visited, curr_node, e, numbering, i, output>>

(* The number of rows, n - 1 in the script, whose n counts the sentinel.   *)
n == RowCount(vlist)
RowIds == 0 .. n - 1

(* The graph is loaded and its largest entry printed: np.max of an empty   *)
(* list raises ValueError, and the script ends there.                      *)
Init ==
    /\ \E g \in Inputs : vlist = g.vlist /\ elist = g.elist
    /\ pc = IF elist = <<>> THEN "ValueError" ELSE "search"
    /\ bfs_queue = <<>> /\ visited = {} /\ i = 0
    /\ curr_node = 0 /\ e = 0
    /\ new_id = 0
    /\ new_vertex_id = [r \in RowIds |-> 0] /\ reverse_id = [r \in RowIds |-> 0]
    /\ out_vlist = <<>> /\ out_elist = <<>>
-----------------------------------------------------------------------------
(* Mutant: a root is not marked when its search begins.                    *)
StartRootUnmarked ==
    /\ pc = "search" /\ bfs_queue = <<>> /\ i \in RowIds /\ i \notin visited
    /\ bfs_queue' = <<i>> /\ i' = i + 1
    /\ UNCHANGED <<pc, vlist, elist, visited, curr_node, e, numbering, output>>

(* The loop over the rows: a row not visited yet starts a search.          *)
StartRoot ==
    /\ pc = "search" /\ bfs_queue = <<>> /\ i \in RowIds /\ i \notin visited
    /\ bfs_queue' = <<i>> /\ visited' = visited \cup {i} /\ i' = i + 1
    /\ UNCHANGED <<pc, vlist, elist, curr_node, e, numbering, output>>

SkipVisited ==
    /\ pc = "search" /\ bfs_queue = <<>> /\ i \in RowIds /\ i \in visited
    /\ i' = i + 1
    /\ UNCHANGED <<pc, vlist, elist, bfs_queue, visited, curr_node, e, numbering, output>>

(* bfs(): pop() takes the last entry of the list, which is numbered.       *)
bfs ==
    /\ pc = "search" /\ bfs_queue # <<>>
    /\ curr_node' = bfs_queue[Len(bfs_queue)]
    /\ bfs_queue' = SubSeq(bfs_queue, 1, Len(bfs_queue) - 1)
    /\ new_vertex_id' = [new_vertex_id EXCEPT ![new_id] = curr_node']
    /\ reverse_id' = [reverse_id EXCEPT ![curr_node'] = new_id]
    /\ new_id' = new_id + 1
    /\ e' = vlist[curr_node' + 1] /\ pc' = "scan"
    /\ UNCHANGED <<vlist, elist, visited, i, output>>

(* Mutant: a neighbour is marked when it is numbered, not when it is       *)
(* queued.                                                                 *)
ScanMarksLate ==
    /\ pc = "scan" /\ e < vlist[curr_node + 2]
    /\ visited' = visited \cup {curr_node}
    /\ bfs_queue' = IF elist[e + 1] \in visited THEN bfs_queue ELSE Append(bfs_queue, elist[e + 1])
    /\ e' = e + 1
    /\ UNCHANGED <<pc, vlist, elist, curr_node, numbering, i, output>>

(* One neighbour of the row: queued unless it has been before.             *)
Scan ==
    /\ pc = "scan" /\ e < vlist[curr_node + 2]
    /\ LET neighbor == elist[e + 1]
       IN  /\ visited' = visited \cup {neighbor}
           /\ bfs_queue' = IF neighbor \in visited THEN bfs_queue
                                                   ELSE Append(bfs_queue, neighbor)
    /\ e' = e + 1
    /\ UNCHANGED <<pc, vlist, elist, curr_node, numbering, i, output>>

ScanDone ==
    /\ pc = "scan" /\ e >= vlist[curr_node + 2]
    /\ pc' = "search"
    /\ UNCHANGED <<vlist, elist, bfs_queue, visited, curr_node, e, numbering, i, output>>

BeginWrite ==
    /\ pc = "search" /\ bfs_queue = <<>> /\ i \notin RowIds
    /\ pc' = "write" /\ i' = 0 /\ out_vlist' = <<0>>
    /\ UNCHANGED <<vlist, elist, bfs_queue, visited, curr_node, e, numbering, out_elist>>

(* Mutant: the new row i is the old row that i was renamed to.             *)
SourceRowInverse == reverse_id[i]

(* The old row that becomes row i.                                         *)
SourceRow == new_vertex_id[i]

(* One row: its entries under their new numbers.                           *)
WriteRow ==
    /\ pc = "write" /\ i \in RowIds
    /\ LET row == Row(vlist, elist, SourceRow)
       IN  out_elist' = out_elist \o [p \in 1 .. Len(row) |-> reverse_id[row[p]]]
    /\ out_vlist' = Append(out_vlist, Len(out_elist'))
    /\ i' = i + 1
    /\ UNCHANGED <<pc, vlist, elist, bfs_queue, visited, curr_node, e, numbering>>

Finish ==
    /\ pc = "write" /\ i \notin RowIds
    /\ pc' = "done"
    /\ UNCHANGED <<vlist, elist, bfs_queue, visited, curr_node, e, numbering, i, output>>

Terminated == pc \in {"done", "ValueError"} /\ UNCHANGED vars

Next ==
    \/ StartRoot \/ SkipVisited \/ bfs \/ Scan \/ ScanDone
    \/ BeginWrite \/ WriteRow \/ Finish
    \/ Terminated

Spec == Init /\ [][Next]_vars
-----------------------------------------------------------------------------
(* Properties.                                                             *)

Numbered == 0 .. new_id - 1

(* Rows, positions and numbers are in range: no array of the script is     *)
(* read or written out of bounds.                                          *)
TypeOK ==
    /\ pc \in {"search", "scan", "write", "done", "ValueError"} /\ IsCSR(vlist, elist)
    /\ bfs_queue \in Seq(RowIds) /\ visited \subseteq RowIds
    /\ curr_node \in Nat /\ e \in 0 .. Len(elist) /\ i \in 0 .. n
    /\ new_id \in 0 .. n
    /\ new_vertex_id \in [RowIds -> RowIds] /\ reverse_id \in [RowIds -> RowIds]
    /\ out_vlist \in Seq(Nat) /\ out_elist \in Seq(Nat)

(* The two maps are inverse to each other on what has been numbered, so no *)
(* row gets two numbers and no number two rows; at the end all are.        *)
NumberingIsPermutation ==
    /\ \A a \in Numbered : reverse_id[new_vertex_id[a]] = a
    /\ pc \in {"write", "done"} => new_id = n

(* The graph written is the graph read, under the new numbers.  A graph    *)
(* without edges is never written.                                         *)
OutputIsRenaming ==
    pc = "done" =>
        /\ IsCSR(out_vlist, out_elist) /\ RowCount(out_vlist) = n
        /\ \A r \in RowIds :
              LET old == Row(vlist, elist, r)
              IN  Row(out_vlist, out_elist, reverse_id[r])
                    = [p \in 1 .. Len(old) |-> reverse_id[old[p]]]

(* The rows within d steps of row 0.                                       *)
Ball[d \in Nat] ==
    IF d = 0 THEN {0}
    ELSE Ball[d - 1] \cup UNION {{elist[p] : p \in vlist[r + 1] + 1 .. vlist[r + 2]} :
                                    r \in Ball[d - 1]}

(* "BFS" (line 26): the search numbers nearer rows first.  Row 0 is its    *)
(* first root.                                                             *)
BreadthFirst ==
    pc = "done" /\ n > 0 =>
        \A d \in 0 .. n : \A a \in Ball[d], b \in Ball[n] \ Ball[d] :
            reverse_id[a] < reverse_id[b]
=============================================================================
