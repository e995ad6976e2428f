----------------------------- MODULE CSRProofs -----------------------------
(* Facts about lists of offsets, cited by the proofs about CSR graphs.     *)
EXTENDS CSR, SequenceTheorems, TLAPS

(* Shifting keeps the length and adds the same number everywhere.          *)
LEMMA ShiftSeq ==
    ASSUME NEW w \in Seq(Nat), NEW m \in Nat
    PROVE  /\ Shift(w, m) \in Seq(Nat) /\ Len(Shift(w, m)) = Len(w)
           /\ \A i \in 1 .. Len(w) : Shift(w, m)[i] = w[i] + m
BY DEF Shift

(* The entries of a concatenation.                                         *)
LEMMA ConcatEntries ==
    ASSUME NEW v \in Seq(Nat), NEW u \in Seq(Nat)
    PROVE  /\ v \o u \in Seq(Nat) /\ Len(v \o u) = Len(v) + Len(u)
           /\ \A i \in 1 .. Len(v) : (v \o u)[i] = v[i]
           /\ \A i \in Len(v) + 1 .. Len(v) + Len(u) : (v \o u)[i] = u[i - Len(v)]
OBVIOUS

(* The part of a concatenation that an entry comes from.                   *)
LEMMA ConcatSecond ==
    ASSUME NEW v \in Seq(Nat), NEW u \in Seq(Nat), NEW i \in 1 .. Len(v \o u), i > Len(v)
    PROVE  \E b \in 1 .. Len(u) : b = i - Len(v) /\ (v \o u)[i] = u[b]
<1>1. Len(v) \in Nat /\ Len(u) \in Nat /\ Len(v \o u) = Len(v) + Len(u)
  OBVIOUS
<1>2. i \in Len(v) + 1 .. Len(v) + Len(u) /\ i - Len(v) \in 1 .. Len(u)
  BY <1>1
<1>3. (v \o u)[i] = u[i - Len(v)]
  BY <1>2, ConcatEntries, Zenon
<1> QED BY <1>2, <1>3, Zenon

(* Two entries of a vertex list.                                           *)
LEMMA OffsetsAt ==
    ASSUME NEW v \in Seq(Nat), NEW n \in Nat, Offsets(v, n),
           NEW i \in 1 .. Len(v), NEW j \in 1 .. Len(v), i <= j
    PROVE  v[i] \in Nat /\ v[j] \in Nat /\ v[i] <= v[j] /\ v[j] <= n
BY DEF Offsets

(* Ascending sequences below and above m concatenate to an ascending one.  *)
LEMMA SortedConcat ==
    ASSUME NEW v \in Seq(Nat), NEW m \in Nat, NEW u \in Seq(Nat), 
       \A i \in 1..Len(v) : v[i] <= m,
       \A i, j \in 1 .. Len(v) : i <= j => v[i] <= v[j],
       \A i \in 1..Len(u) : m <= u[i],
       \A i, j \in 1 .. Len(u) : i <= j => u[i] <= u[j]
    PROVE  \A i, j \in 1 .. Len(v \o u) : i <= j => (v \o u)[i] <= (v \o u)[j]
<1> SUFFICES ASSUME NEW i \in 1 .. Len(v \o u), NEW j \in 1 .. Len(v \o u), i <= j
    PROVE (v \o u)[i] <= (v \o u)[j]
  OBVIOUS
<1>0. Len(v) \in Nat /\ Len(u) \in Nat /\ Len(v \o u) = Len(v) + Len(u)
  OBVIOUS
<1>1. CASE j <= Len(v)
  BY <1>0, <1>1
<1>2. CASE i <= Len(v) /\ j > Len(v)
  <2>1. (v \o u)[i] = v[i] /\ v[i] <= m
     BY <1>0, <1>2
  <2>2. PICK b \in 1 .. Len(u) : b = j - Len(v) /\ (v \o u)[j] = u[b]
     BY <1>2, ConcatSecond
  <2>3. i \in 1 .. Len(v)
     BY <1>0, <1>2
  <2>4. v[i] \in Nat /\ u[b] \in Nat
     BY <2>2, <2>3, ElementOfSeq, Zenon
  <2>5. m <= u[b]
     BY <2>2, Zenon
  <2>6. v[i] <= u[b]
     BY <2>1, <2>4, <2>5, SMTT(30)
  <2> QED BY <2>1, <2>2, <2>6, Zenon
<1>3. CASE i > Len(v)
  <2>1. PICK a \in 1 .. Len(u) : a = i - Len(v) /\ (v \o u)[i] = u[a]
    BY <1>3, ConcatSecond
  <2>2. PICK b \in 1 .. Len(u) : b = j - Len(v) /\ (v \o u)[j] = u[b]
    <3>1. j > Len(v)
      BY <1>0, <1>3
    <3> QED BY <3>1, ConcatSecond
  <2>3. a <= b
    BY <2>1, <2>2, <1>0
  <2> QED BY <2>1, <2>2, <2>3, Zenon
<1> QED BY <1>0, <1>1, <1>2, <1>3, SMTT(30)

(* Offsets of two parts, the second shifted behind the first, are offsets. *)
LEMMA OffsetsConcat ==
    ASSUME NEW v \in Seq(Nat), NEW m \in Nat, Offsets(v, m), Len(v) = 0 => m = 0,
           NEW w \in Seq(Nat), NEW n \in Nat, Offsets(w, n)
    PROVE  /\ v \o Shift(w, m) \in Seq(Nat)
           /\ Len(v \o Shift(w, m)) = Len(v) + Len(w)
           /\ Offsets(v \o Shift(w, m), m + n)
<1> DEFINE u == Shift(w, m)
<1>1. /\ u \in Seq(Nat) /\ Len(u) = Len(w)
      /\ \A i \in 1 .. Len(w) : u[i] = w[i] + m
  BY ShiftSeq
<1> HIDE DEF u
<1>2. /\ \A i \in 1 .. Len(w) : w[i] \in Nat /\ w[i] <= n
      /\ \A i, j \in 1 .. Len(w) : i <= j => w[i] <= w[j]
  BY DEF Offsets
<1>3. \A i \in 1 .. Len(u) : m <= u[i] /\ u[i] <= m + n
  BY <1>1, <1>2, SMTT(20)
<1>4. \A i, j \in 1 .. Len(u) : i <= j => u[i] <= u[j]
  BY <1>1, <1>2, SMTT(30)
<1>5. v \o u \in Seq(Nat) /\ Len(v \o u) = Len(v) + Len(u)
  BY <1>1, ConcatEntries, Zenon
<1>6. \A i, j \in 1 .. Len(v \o u) : i <= j => (v \o u)[i] <= (v \o u)[j]
  BY <1>1, <1>3, <1>4, SortedConcat, Zenon DEF Offsets
<1>7. ASSUME NEW i \in 1 .. Len(v \o u) PROVE (v \o u)[i] <= m + n
  <2>1. CASE i <= Len(v)
    <3>1. i \in 1 .. Len(v)
      BY <1>5, <2>1
    <3>2. (v \o u)[i] = v[i]
      BY <1>1, <3>1, ConcatEntries
    <3>3. v[i] <= m /\ v[i] \in Nat
      BY <3>1, OffsetsAt
    <3> QED BY <3>2, <3>3
  <2>2. CASE i > Len(v)
    <3>1. PICK a \in 1 .. Len(u) : (v \o u)[i] = u[a]
      BY <1>1, <2>2, ConcatSecond, Zenon
    <3> QED BY <3>1, <1>3
  <2> QED BY <1>5, <2>1, <2>2, SMTT(30)
<1>8. ASSUME v \o u # <<>> PROVE (v \o u)[1] = 0
  <2>1. CASE Len(v) > 0
    BY <2>1, <1>1 DEF Offsets
  <2>2. CASE Len(v) = 0
    <3>1. m = 0 /\ Len(w) > 0 /\ (v \o u)[1] = u[1]
      BY <2>2, <1>1, <1>5, <1>8
    <3>2. w[1] = 0
      BY <3>1 DEF Offsets
    <3> QED BY <3>1, <3>2, <1>1
  <2>3. Len(v) = 0 \/ Len(v) > 0
    OBVIOUS
  <2> QED BY <2>1, <2>2, <2>3, Zenon
<1>9. Offsets(v \o u, m + n)
  BY <1>6, <1>7, <1>8 DEF Offsets
<1> QED BY <1>1, <1>5, <1>9 DEF u

(* Offsets stay offsets when the sequence they point into grows.           *)
LEMMA OffsetsGrow ==
    ASSUME NEW v \in Seq(Nat), NEW m \in Nat, NEW n \in Nat, m <= n, Offsets(v, m)
    PROVE  Offsets(v, n)
<1>1. ASSUME NEW i \in 1 .. Len(v) PROVE v[i] <= n
  <2>1. v[i] \in Nat /\ v[i] <= m
    BY DEF Offsets
  <2> QED BY <2>1
<1> QED BY <1>1 DEF Offsets

(* The length itself may be appended to the offsets.                       *)
LEMMA OffsetsAppend ==
    ASSUME NEW v \in Seq(Nat), NEW n \in Nat, Offsets(v, n), Len(v) = 0 => n = 0
    PROVE  /\ Append(v, n) \in Seq(Nat) /\ Len(Append(v, n)) = Len(v) + 1
           /\ Offsets(Append(v, n), n)
           /\ Append(v, n)[Len(v) + 1] = n
<1> DEFINE x == Append(v, n)
<1>1. /\ x \in Seq(Nat) /\ Len(x) = Len(v) + 1 /\ Len(v) \in Nat
      /\ \A i \in 1 .. Len(v) : x[i] = v[i]
      /\ x[Len(v) + 1] = n
  OBVIOUS
<1> HIDE DEF x
<1>2. ASSUME NEW i \in 1 .. Len(x) PROVE x[i] <= n /\ x[i] \in Nat
  <2>1. CASE i \in 1 .. Len(v)
    BY <2>1, <1>1, SMTT(20) DEF Offsets
  <2>2. CASE i = Len(v) + 1
    BY <2>2, <1>1
  <2> QED BY <2>1, <2>2, <1>1
<1>3. ASSUME NEW i \in 1 .. Len(x), NEW j \in 1 .. Len(x), i <= j PROVE x[i] <= x[j]
  <2>1. CASE j \in 1 .. Len(v)
    <3>1. i \in 1 .. Len(v)
      BY <2>1, <1>1, <1>3
    <3>2. x[i] = v[i] /\ x[j] = v[j]
      BY <2>1, <1>1, <3>1, SMTT(20)
    <3>3. v[i] <= v[j]
      BY <2>1, <3>1, <1>3, OffsetsAt
    <3> QED BY <3>2, <3>3
  <2>2. CASE j = Len(v) + 1
    BY <2>2, <1>1, <1>2
  <2> QED BY <2>1, <2>2, <1>1
<1>4. ASSUME x # <<>> PROVE x[1] = 0
  <2>1. CASE Len(v) > 0
    <3>1. x[1] = v[1] /\ v # <<>>
      BY <2>1, <1>1
    <3> QED BY <3>1 DEF Offsets
  <2>2. CASE Len(v) = 0
    BY <2>2, <1>1
  <2> QED BY <2>1, <2>2, <1>1
<1>5. Offsets(x, n)
  BY <1>2, <1>3, <1>4 DEF Offsets
<1> QED BY <1>1, <1>5 DEF x

(* The entries of a part of a sequence.                                    *)
LEMMA PartEntries ==
    ASSUME NEW v \in Seq(Nat), NEW a \in Nat, NEW b \in Nat, a <= b, b <= Len(v)
    PROVE  /\ SubSeq(v, a + 1, b) \in Seq(Nat) /\ Len(SubSeq(v, a + 1, b)) = b - a
           /\ \A i \in 1 .. b - a : SubSeq(v, a + 1, b)[i] = v[a + i]
<1> DEFINE m == a + 1
<1>1. /\ m \in Int /\ b \in Int /\ b - m + 1 = b - a
      /\ IF m <= b THEN b - m + 1 = b - a ELSE b - a = 0
      /\ \A i \in 1 .. b - a : m + i - 1 = a + i
  OBVIOUS
<1>2. \A i \in m .. b : v[i] \in Nat
  OBVIOUS
<1>3. /\ SubSeq(v, m, b) \in Seq(Nat)
      /\ Len(SubSeq(v, m, b)) = IF m <= b THEN b - m + 1 ELSE 0
      /\ \A i \in 1 .. b - m + 1 : SubSeq(v, m, b)[i] = v[m + i - 1]
  BY <1>1, <1>2, SubSeqProperties
<1> QED BY <1>1, <1>3, Zenon

(* The offsets a+1 .. b of a graph, rebased on the first of them.          *)
LEMMA CutOffsets ==
    ASSUME NEW v \in Seq(Nat), NEW m \in Nat, Offsets(v, m),
           NEW a \in Nat, NEW b \in Nat, a <= b, b < Len(v), NEW n \in Nat, v[b + 1] <= n,
           NEW s \in Seq(Nat), \A i \in 1 .. b - a : s[i] = v[a + i]
    PROVE  /\ v[a + 1] \in Nat /\ v[a + 1] <= n
           /\ \A i, j \in 1 .. b - a : i <= j => s[i] <= s[j] /\ s[j] - s[1] <= n - v[a + 1]
<1>0. a + 1 \in 1 .. Len(v) /\ b + 1 \in 1 .. Len(v) /\ a + 1 <= b + 1
  OBVIOUS
<1>1. v[a + 1] \in Nat /\ v[b + 1] \in Nat /\ v[a + 1] <= v[b + 1]
  BY <1>0, OffsetsAt, SMTT(30)
<1>2. ASSUME NEW i \in 1 .. b - a, NEW j \in 1 .. b - a, i <= j
      PROVE  s[i] <= s[j] /\ s[j] - s[1] <= n - v[a + 1]
  <2>1. s[i] = v[a + i] /\ s[j] = v[a + j] /\ s[1] = v[a + 1]
    BY SMTT(20)
  <2>2. /\ a + i \in 1 .. Len(v) /\ a + j \in 1 .. Len(v)
        /\ a + i <= a + j /\ a + j <= b + 1
    BY <1>2
  <2>3. v[a + i] <= v[a + j] /\ v[a + i] \in Nat /\ v[a + j] \in Nat
    BY <1>0, <2>2, OffsetsAt
  <2>4. v[a + j] <= v[b + 1]
    BY <1>0, <2>2, OffsetsAt
  <2>5. PICK p \in Nat, q \in Nat, r \in Nat : p = v[a + 1] /\ q = v[a + j] /\ r = v[b + 1]
    BY <1>1, <2>3, Zenon
  <2>6. q <= r /\ r <= n
    BY <2>4, <2>5
  <2>7. q - p <= n - p
    BY <2>6
  <2>8. s[j] - s[1] <= n - v[a + 1]
    BY <2>1, <2>5, <2>7, Zenon
  <2> QED BY <2>1, <2>3, <2>8, Zenon
<1>3. v[a + 1] <= n
  <2>1. PICK p \in Nat, r \in Nat : p = v[a + 1] /\ r = v[b + 1]
    BY <1>1, SMTT(30)
  <2>2. p <= r /\ r <= n
    BY <1>1, <2>1, Zenon
  <2>3. p <= n
    BY <2>2
  <2> QED BY <2>1, <2>3, Zenon
<1> QED BY <1>1, <1>2, <1>3

(* Cutting a CSR graph at row boundaries.                                  *)
LEMMA Cut ==
    ASSUME NEW v \in Seq(Nat), NEW e \in Seq(Nat), Offsets(v, Len(e)),
           NEW a \in Nat, NEW b \in Nat, a <= b, b < Len(v), NEW n \in Nat,
           v[b + 1] <= n, n <= Len(e)
    PROVE  LET s == SubSeq(v, a + 1, b)
               w == SubSeq(e, v[a + 1] + 1, n)
           IN  /\ s \in Seq(Nat) /\ w \in Seq(Nat) /\ Len(s) = b - a
               /\ \A i, j \in 1 .. b - a :
                     i <= j => s[i] <= s[j] /\ s[j] - s[1] <= Len(w)
<1> DEFINE s == SubSeq(v, a + 1, b)
           w == SubSeq(e, v[a + 1] + 1, n)
<1>1. b <= Len(v) /\ Len(e) \in Nat
  OBVIOUS
<1>2. s \in Seq(Nat) /\ Len(s) = b - a /\ \A i \in 1 .. b - a : s[i] = v[a + i]
  BY <1>1, PartEntries, Zenon
<1>3. /\ v[a + 1] \in Nat /\ v[a + 1] <= n
      /\ \A i, j \in 1 .. b - a : i <= j => s[i] <= s[j] /\ s[j] - s[1] <= n - v[a + 1]
  BY <1>1, <1>2, CutOffsets, Zenon
<1>4. w \in Seq(Nat) /\ Len(w) = n - v[a + 1]
  BY <1>3, PartEntries, Zenon
<1> HIDE DEF s, w
<1>5. \A i, j \in 1 .. b - a : i <= j => s[i] <= s[j] /\ s[j] - s[1] <= Len(w)
  BY <1>3, <1>4, Zenon
<1> QED BY <1>2, <1>4, <1>5, Zenon DEF s, w
-----------------------------------------------------------------------------
(* Rows of a graph that is being put together: the last one has no end     *)
(* yet.                                                                    *)

(* A function on 1 .. m is a sequence of length m.                         *)
LEMMA FunctionIsSeq ==
    ASSUME NEW S, NEW m \in Nat, NEW s \in [1 .. m -> S]
    PROVE  s \in Seq(S) /\ Len(s) = m
<1>1. s \in Seq(S)
  BY SMTT(20)
<1>2. DOMAIN s = 1 .. m /\ DOMAIN s = 1 .. Len(s) /\ Len(s) \in Nat
  BY <1>1, LenProperties
<1> QED BY <1>1, <1>2

(* A part of the first of two sequences is that part of their              *)
(* concatenation, and so is a part of the second, shifted.                 *)
LEMMA PartFirst ==
    ASSUME NEW e \in Seq(Nat), NEW f \in Seq(Nat),
           NEW a \in Nat, NEW b \in Nat, a <= b, b <= Len(e)
    PROVE  SubSeq(e \o f, a + 1, b) = SubSeq(e, a + 1, b)
<1> DEFINE s == SubSeq(e \o f, a + 1, b)
           t == SubSeq(e, a + 1, b)
<1>1. /\ e \o f \in Seq(Nat) /\ Len(e \o f) = Len(e) + Len(f)
      /\ \A i \in 1 .. Len(e) : (e \o f)[i] = e[i]
  BY ConcatEntries
<1>2. Len(e) \in Nat /\ Len(f) \in Nat /\ b <= Len(e) + Len(f)
  BY LenProperties
<1>3. s \in Seq(Nat) /\ Len(s) = b - a /\ \A i \in 1 .. b - a : s[i] = (e \o f)[a + i]
  BY <1>1, <1>2, PartEntries, Zenon
<1>4. t \in Seq(Nat) /\ Len(t) = b - a /\ \A i \in 1 .. b - a : t[i] = e[a + i]
  BY PartEntries, Zenon
<1> HIDE DEF s, t
<1>5. \A i \in 1 .. b - a : a + i \in 1 .. Len(e)
  BY <1>2
<1>6. \A i \in 1 .. Len(s) : s[i] = t[i]
  BY <1>1, <1>3, <1>4, <1>5, Zenon
<1>7. s = t
  BY <1>3, <1>4, <1>6, SeqEqual
<1> QED BY <1>7 DEF s, t

LEMMA PartSecond ==
    ASSUME NEW e \in Seq(Nat), NEW f \in Seq(Nat),
           NEW a \in Nat, NEW b \in Nat, a <= b, b <= Len(f)
    PROVE  SubSeq(e \o f, (a + Len(e)) + 1, b + Len(e)) = SubSeq(f, a + 1, b)
<1> DEFINE n == Len(e)
           s == SubSeq(e \o f, (a + n) + 1, b + n)
           t == SubSeq(f, a + 1, b)
<1>1. /\ e \o f \in Seq(Nat) /\ Len(e \o f) = n + Len(f)
      /\ \A i \in n + 1 .. n + Len(f) : (e \o f)[i] = f[i - n]
  BY ConcatEntries
<1>2. n \in Nat /\ Len(f) \in Nat
  BY LenProperties
<1> HIDE DEF n
<1>3. /\ a + n \in Nat /\ b + n \in Nat /\ a + n <= b + n /\ b + n <= n + Len(f)
      /\ (b + n) - (a + n) = b - a
  BY <1>2
<1>4. /\ s \in Seq(Nat) /\ Len(s) = (b + n) - (a + n)
      /\ \A i \in 1 .. (b + n) - (a + n) : s[i] = (e \o f)[(a + n) + i]
  BY <1>1, <1>3, PartEntries, ZenonT(30)
<1>5. t \in Seq(Nat) /\ Len(t) = b - a /\ \A i \in 1 .. b - a : t[i] = f[a + i]
  BY PartEntries, Zenon
<1> HIDE DEF s, t
<1>6. \A i \in 1 .. b - a :
         (a + n) + i \in n + 1 .. n + Len(f) /\ ((a + n) + i) - n = a + i
  BY <1>2
<1>7. \A i \in 1 .. Len(s) : s[i] = t[i]
  <2> TAKE i \in 1 .. Len(s)
  <2>1. i \in 1 .. b - a /\ i \in 1 .. (b + n) - (a + n)
    BY <1>3, <1>4, Zenon
  <2>2. s[i] = f[((a + n) + i) - n]
    BY <1>1, <1>4, <1>6, <2>1, Zenon
  <2> QED BY <1>5, <1>6, <2>1, <2>2, Zenon
<1>8. s = t
  BY <1>3, <1>4, <1>5, <1>7, SeqEqual, Zenon
<1> QED BY <1>8 DEF s, t, n

(* From the first entry to the last, a part is the whole.                  *)
LEMMA WholePart ==
    ASSUME NEW s \in Seq(Nat) PROVE SubSeq(s, 1, Len(s)) = s
<1>1. Len(s) \in Nat /\ 0 + 1 = 1 /\ Len(s) - 0 = Len(s)
  BY LenProperties
<1>2. /\ SubSeq(s, 0 + 1, Len(s)) \in Seq(Nat) /\ Len(SubSeq(s, 0 + 1, Len(s))) = Len(s) - 0
      /\ \A p \in 1 .. Len(s) - 0 : SubSeq(s, 0 + 1, Len(s))[p] = s[0 + p]
  BY <1>1, PartEntries
<1> DEFINE x == SubSeq(s, 1, Len(s))
<1>3. x \in Seq(Nat) /\ Len(x) = Len(s)
  BY <1>1, <1>2
<1>4. \A p \in 1 .. Len(s) : x[p] = s[p]
  BY <1>1, <1>2
<1> HIDE DEF x
<1> QED BY <1>3, <1>4, SeqEqual DEF x
============================================================================
