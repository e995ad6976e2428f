--------------------------- MODULE DivisionFacts ----------------------------
(***************************************************************************)
(* Arithmetic of tiles and blocks.                                         *)
(***************************************************************************)
EXTENDS Integers, TLAPS

(* The quotient and remainder of \div.                                     *)
LEMMA DivFacts ==
    ASSUME NEW a \in Nat, NEW b \in Nat \ {0}
    PROVE  /\ a \div b \in Nat
           /\ b * (a \div b) <= a /\ a < b * (a \div b) + b
<1>1. a = b * (a \div b) + (a % b) /\ a % b \in 0 .. b - 1 /\ a \div b \in Int
  BY SMT
<1>2. a \div b >= 0
  BY SMT
<1> QED BY <1>1, <1>2, SMT

(* A larger factor gives a larger product.                                 *)
LEMMA TimesMonotone ==
    ASSUME NEW a \in Nat, NEW b \in Nat, NEW k \in Nat, a <= b
    PROVE  a * k <= b * k
<1>1. PICK d \in Nat : b = a + d
  BY SMT
<1>2. b * k = a * k + d * k
  BY <1>1, SMT
<1>3. d * k \in Nat
  BY SMT
<1>4. a * k \in Nat /\ b * k \in Nat
  BY SMT
<1> QED BY <1>2, <1>3, <1>4, SMT
=============================================================================
