------------------------------- MODULE Fusion -------------------------------
(***************************************************************************)
(* fusion.h: num_p propagations over a compressed graph, overlapped.  In   *)
(* every step the rows that have heard enough become active, send along    *)
(* their entries and count one propagation more.  PC and AC are the        *)
(* propagations a row has made and the messages it has had since its last. *)
(***************************************************************************)
EXTENDS VertexOrder

FusionStart(rows, num_p) ==
    [PC |-> [x \in RowIds(rows) |-> 0], AC |-> [x \in RowIds(rows) |-> 0],
     order |-> [p \in 0 .. num_p - 1 |-> [x \in RowIds(rows) |-> INIT]],
     active_count |-> 0, step |-> 0]

(* Mutant: one message is enough.                                          *)
cond_propagateEarly(rows, s, x) ==
    /\ s.AC[x] > 0 \/ MentionsIn(rows, RowIds(rows), x) = 0
    /\ \A p \in DOMAIN rows[x + 1] : s.PC[x] <= s.PC[rows[x + 1][p]] \/ s.PC[x] = 0

(* Mutant: a row waits until the rows it mentions are ahead of it.         *)
cond_propagateStrict(rows, s, x) ==
    /\ s.AC[x] >= MentionsIn(rows, RowIds(rows), x)
    /\ s.PC[x] = 0 \/ \A p \in DOMAIN rows[x + 1] : s.PC[x] < s.PC[rows[x + 1][p]]

(* Row x has heard as often as it is mentioned, and is not ahead of a row  *)
(* it mentions.                                                            *)
cond_propagate(rows, s, x) ==
    /\ s.AC[x] >= MentionsIn(rows, RowIds(rows), x)
    /\ s.PC[x] = 0 \/ \A p \in DOMAIN rows[x + 1] : s.PC[x] <= s.PC[rows[x + 1][p]]

FusionActive(rows, n, num_p, s) ==
    {x \in RowIds(rows) :
        \/ s.step = 0 /\ x < n
        \/ cond_propagate(rows, s, x) /\ s.PC[x] < num_p}

FusionUnfinished(rows, num_p, s) == s.active_count < num_p * Len(rows)

FusionStep(rows, n, num_p, s) ==
    LET active_list == FusionActive(rows, n, num_p, s)
    IN  [PC |-> [x \in RowIds(rows) |-> s.PC[x] + IF x \in active_list THEN 1 ELSE 0],
         AC |-> [x \in RowIds(rows) |->
                    (IF x \in active_list THEN 0 ELSE s.AC[x]) + MentionsIn(rows, active_list, x)],
         order |-> [p \in DOMAIN s.order |-> [x \in RowIds(rows) |->
                    IF x \in active_list /\ s.PC[x] = p THEN s.step ELSE s.order[p][x]]],
         active_count |-> s.active_count + Cardinality(active_list),
         step |-> s.step + 1]

(* The rows that are active in each step, ...                              *)
fusion_mask_csr(rows, s) ==
    [d \in 0 .. s.step - 1 |-> {x \in RowIds(rows) : \E p \in DOMAIN s.order : s.order[p][x] = d}]

(* ... and the entries of elist that they send along.                      *)
fusion_mask_coo(rows, vlist, s) ==
    [d \in 0 .. s.step - 1 |->
        UNION {vlist[x + 1] .. vlist[x + 2] - 1 : x \in fusion_mask_csr(rows, s)[d]}]
=============================================================================
