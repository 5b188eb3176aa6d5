------------------------------- MODULE Lists -------------------------------
(***************************************************************************)
(* Sets as sequences, and sequences by the positions of their elements.    *)
(***************************************************************************)
EXTENDS Naturals, SequencesExt

(* What the API server answers to a list: the objects there are, each once,*)
(* in an order that does not change as objects come and go.                *)
InOrderOf(list, names) ==
  {q \in SetToSeqs(names) :
     \A i, j \in DOMAIN q : i < j =>
       \E m, n \in DOMAIN list : m < n /\ list[m] = q[i] /\ list[n] = q[j]}

(* The members of S by their rank in a strict total order, a set of pairs. *)
Ranked(S, order) ==
  [n \in 1 .. Cardinality(S) |->
     CHOOSE x \in S : Cardinality({y \in S : <<y, x>> \in order}) = n - 1]

(* Orders, as sets of pairs: of numbers, and of pairs of numbers.          *)
Below(S) == {p \in S \X S : p[1] < p[2]}

Lexical(S) == {p \in S \X S : \/ p[1][1] < p[2][1]
                               \/ (p[1][1] = p[2][1] /\ p[1][2] < p[2][2])}

(* Positions in their order, and what s has at the positions in S.         *)
Ascending(S) == Ranked(S, Below(S))

Picked(s, S) == LET at == Ascending(S) IN [n \in DOMAIN at |-> s[at[n]]]

(* Where sequences have their elements, and the sequences end to end.      *)
Places(lists) == UNION {{n} \X (DOMAIN lists[n]) : n \in DOMAIN lists}

InTurn(lists) == Ranked(Places(lists), Lexical(Places(lists)))

Concatenated(lists) ==
  LET at == InTurn(lists) IN [n \in DOMAIN at |-> lists[at[n][1]][at[n][2]]]
=============================================================================
