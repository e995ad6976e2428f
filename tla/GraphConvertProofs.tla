------------------------- MODULE GraphConvertProofs -------------------------
(***************************************************************************)
(* How coo_convert shares out the edges, for every number of edges and     *)
(* threads.                                                                *)
(***************************************************************************)
EXTENDS GraphConvert, DivisionFacts, TLAPS

(* A block holds at least one edge, and num_thread blocks hold them all.   *)
LEMMA BlocksReach ==
    ASSUME NEW edge_cnt \in Nat \ {0}, NEW num_thread \in Nat \ {0}
    PROVE  /\ BlockSize(edge_cnt, num_thread) \in Nat \ {0}
           /\ edge_cnt <= num_thread * BlockSize(edge_cnt, num_thread)
<1> DEFINE a == edge_cnt + num_thread - 1
           b == a \div num_thread
<1>1. a \in Nat
  BY SMT
<1>2. b \in Nat /\ a < num_thread * b + num_thread
  BY <1>1, DivFacts
<1>3. num_thread * b \in Int
  BY <1>2, SMT
<1>4. edge_cnt <= num_thread * b
  <2> HIDE DEF b
  <2> QED BY <1>2, <1>3, SMT DEF a
<1>5. b # 0
  <2>1. ASSUME b = 0 PROVE num_thread * b = 0
    BY <2>1, SMT
  <2> HIDE DEF b
  <2> QED BY <1>4, <2>1, SMT
<1> QED BY <1>2, <1>4, <1>5 DEF BlockSize, a, b

(* coo_convert of util.h: every edge lies in the block of exactly one      *)
(* thread, so none is lost and none is appended twice, however unevenly    *)
(* edge_cnt is divided.                                                    *)
THEOREM BlocksPartitionEdges ==
    ASSUME NEW edge_cnt \in Nat, NEW num_thread \in Nat \ {0},
           NEW e \in 0 .. edge_cnt - 1
    PROVE  \E t \in 0 .. num_thread - 1 : \A u \in 0 .. num_thread - 1 :
              e \in Block(u, edge_cnt, num_thread) <=> u = t
<1> DEFINE b == BlockSize(edge_cnt, num_thread)
           t == e \div b
<1>1. b \in Nat \ {0} /\ edge_cnt <= num_thread * b
  <2>1. edge_cnt \in Nat \ {0}
    BY SMT
  <2> QED BY <2>1, BlocksReach
<1>2. e \in Nat
  BY SMT
<1>3. t \in Nat /\ b * t <= e /\ e < b * t + b
  BY <1>1, <1>2, DivFacts
<1> HIDE DEF b, t
<1>4. b * t \in Int /\ num_thread * b \in Int
  BY <1>1, <1>3, SMT
<1>5. t * b = b * t /\ (t + 1) * b = b * t + b
  BY <1>1, <1>3, SMT
<1>6. t <= num_thread - 1
  <2> SUFFICES ASSUME num_thread <= t PROVE FALSE
    BY <1>3, SMT
  <2>1. num_thread * b <= t * b
    BY <1>1, <1>3, TimesMonotone
  <2> QED BY <1>1, <1>2, <1>3, <1>4, <1>5, <2>1, SMT
<1>7. ASSUME NEW u \in 0 .. num_thread - 1
      PROVE  e \in Block(u, edge_cnt, num_thread) <=> u * b <= e /\ e < (u + 1) * b
  BY DEF Block, b
<1>8. ASSUME NEW u \in 0 .. num_thread - 1, u * b <= e, e < (u + 1) * b
      PROVE  u = t
  <2>1. u \in Nat /\ u * b \in Int /\ (u + 1) * b \in Int
    BY <1>1, SMT
  <2>2. CASE u + 1 <= t
    <3>1. (u + 1) * b <= t * b
      BY <1>1, <1>3, <2>1, <2>2, TimesMonotone
    <3> QED BY <1>2, <1>3, <1>4, <1>5, <1>8, <2>1, <3>1, SMT
  <2>3. CASE t + 1 <= u
    <3>1. (t + 1) * b <= u * b
      BY <1>1, <1>3, <2>1, <2>3, TimesMonotone
    <3> QED BY <1>1, <1>2, <1>3, <1>4, <1>5, <1>8, <2>1, <3>1, SMT
  <2> QED BY <1>3, <2>1, <2>2, <2>3, SMT
<1>9. t \in 0 .. num_thread - 1
  BY <1>3, <1>6, SMT
<1>10. t * b <= e /\ e < (t + 1) * b
  BY <1>3, <1>5
<1> QED BY <1>7, <1>8, <1>9, <1>10
=============================================================================
