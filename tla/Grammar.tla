------------------------------ MODULE Grammar ------------------------------
(***************************************************************************)
(* What a rule compressor promises: a graph whose rows beyond the vertices *)
(* are rules, changed only by lossless rewriting.  One turn adds rules     *)
(* that stand for pairs of existing symbols, and rewrites the rows so that *)
(* putting those pairs back gives the rows of before.                      *)
(***************************************************************************)
EXTENDS Expansion

CONSTANTS Turns,     \* how many rewritings there are
          Graphs     \* the row sequences to start from

VARIABLES rows, turns

(* What an entry of the new rows stands for over the old symbols 0..n-1.   *)
OneLevel(new, n, x) ==
    IF x < n THEN <<x>> ELSE IF x < Len(new) THEN new[x + 1] ELSE <<x, x>>

IsRewriting(old, new) ==
    LET n == Len(old)
    IN  /\ Len(new) >= n
        /\ \A i \in n + 1 .. Len(new) :
              Len(new[i]) = 2 /\ new[i][1] < n /\ new[i][2] < n
        /\ \A i \in 1 .. n : Unfold(new[i], LAMBDA x : OneLevel(new, n, x)) = old[i]

Init == rows \in Graphs /\ turns = 0

Turn ==
    /\ turns < Turns /\ turns' = turns + 1
    /\ IsRewriting(rows, rows')

Spec == Init /\ [][Turn]_<<rows, turns>>
=============================================================================
