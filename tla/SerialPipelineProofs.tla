------------------------ MODULE SerialPipelineProofs ------------------------
(***************************************************************************)
(* How many parts the serial script can be asked for, for every number of  *)
(* vertices.                                                               *)
(***************************************************************************)
EXTENDS SerialPipeline, DivisionFacts, TLAPS

(* If tile number k of p tiles begins behind the cnt vertices, p(p-1) > cnt. *)
LEMMA TileBeyond ==
    ASSUME NEW cnt \in Nat, NEW p \in Nat \ {0}, NEW k \in Nat, k < p,
           k * ((cnt \div p) + 1) > cnt
    PROVE  p * (p - 1) > cnt
<1> DEFINE q == cnt \div p
<1>1. q \in Nat /\ p * q <= cnt
  BY DivFacts
<1>2. k * (q + 1) <= (p - 1) * (q + 1)
  <2>1. k \in Nat /\ p - 1 \in Nat /\ q + 1 \in Nat /\ k <= p - 1
    BY <1>1, SMT
  <2> QED BY <2>1, TimesMonotone
<1>3. (p - 1) * (q + 1) = p * q - q + (p - 1)
  BY <1>1, SMT
<1>4. cnt + 1 <= p * q - q + (p - 1)
  <2>1. k * (q + 1) \in Int /\ p * q \in Int
    BY <1>1, SMT
  <2> HIDE DEF q
  <2>2. k * (q + 1) > cnt
    BY DEF q
  <2> QED BY <1>1, <1>2, <1>3, <2>1, <2>2, SMT
<1>5. q + 1 <= p - 1
  <2>1. p * q \in Int
    BY <1>1, SMT
  <2> HIDE DEF q
  <2> QED BY <1>1, <1>4, <2>1, SMT
<1>6. cnt < p * q + p
  BY DivFacts
<1>7. p * q + p <= p * (p - 1)
  <2>1. (q + 1) * p <= (p - 1) * p
    <3>1. q + 1 \in Nat /\ p - 1 \in Nat /\ p \in Nat
      BY <1>1, SMT
    <3> QED BY <3>1, <1>5, TimesMonotone
  <2>2. (q + 1) * p = p * q + p /\ (p - 1) * p = p * (p - 1)
    BY <1>1, SMT
  <2> QED BY <2>1, <2>2
<1>8. p * q \in Int /\ p * (p - 1) \in Int
  BY <1>1, SMT
<1> HIDE DEF q
<1> QED BY <1>6, <1>7, <1>8, SMT
-----------------------------------------------------------------------------
TypeInv == part_num \in Nat \ {0} /\ i \in Nat /\ first \in Nat

(* What each step of the script needs of the state before it: its loop     *)
(* index counts, and it stopped with IndexError only at a tile that begins *)
(* behind the last vertex.                                                 *)
PipeInv ==
    /\ TypeInv
    /\ stage = "IndexError" => i < part_num /\ start > vertex_cnt

LEMMA PipeInvInit == Init => PipeInv
  BY PartNumsAssumption DEF Init, PipeInv, TypeInv

LEMMA PipeInvNext == PipeInv /\ [Next]_vars => PipeInv'
<1> SUFFICES ASSUME PipeInv, [Next]_vars PROVE PipeInv'
  OBVIOUS
<1> USE DEF PipeInv, TypeInv, start, tile, vertex_cnt
<1>1. CASE CompressPart
  BY <1>1 DEF CompressPart
<1>2. CASE IndexError
  BY <1>2 DEF IndexError
<1>3. CASE Working
  BY <1>3 DEF Working, pipeVars
<1>4. CASE Collect
  BY <1>4 DEF Collect
<1>5. CASE BeginMerge
  BY <1>5 DEF BeginMerge
<1>6. CASE MergePart
  BY <1>6 DEF MergePart
<1>7. CASE EndMerge
  BY <1>7 DEF EndMerge
<1>8. CASE UNCHANGED vars
  BY <1>8 DEF vars, pipeVars
<1> QED BY <1>1, <1>2, <1>3, <1>4, <1>5, <1>6, <1>7, <1>8 DEF Next, Terminated

LEMMA PipeInvImplies == PipeInv => IndexErrorOnlyWithManyParts
  BY TileBeyond, MaxSymbolAssumption DEF PipeInv, TypeInv, IndexErrorOnlyWithManyParts, start, tile, vertex_cnt

(* Laconic_serial_compression.py raises IndexError at a tile behind the    *)
(* last vertex only if it was asked for more parts than about the square   *)
(* root of vertex_cnt, whatever the graph.                                 *)
THEOREM IndexErrorNeedsManyParts == Spec => []IndexErrorOnlyWithManyParts
  BY PipeInvInit, PipeInvNext, PipeInvImplies, PTL DEF Spec
=============================================================================
