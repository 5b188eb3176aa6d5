---------------------------- MODULE ListsProofs ----------------------------
(***************************************************************************)
(* That a finite set can be listed in any strict total order, what the     *)
(* operators of Lists return, and that a set of numbers has a least.       *)
(***************************************************************************)
EXTENDS Lists, FiniteSetTheorems, WellFoundedInduction, TLAPS

(* A set of numbers that is not empty has a least.                         *)
LEMMA LeastOf ==
  ASSUME NEW S \in SUBSET Nat, S # {}
  PROVE  \E x \in S : \A y \in S : x <= y
  <1>1. PICK x \in S : \A y \in S : ~ (<<y, x>> \in OpToRel(<, Nat))
    BY NatLessThanWellFounded, WFMin
  <1>2. \A y \in S : ~ (y < x)
    BY <1>1 DEF OpToRel
  <1>. QED  BY <1>2

(* A strict total order on S, as a set of pairs.                           *)
StrictOrder(order, S) ==
  /\ \A x \in S : <<x, x>> \notin order
  /\ \A x, y \in S : x = y \/ <<x, y>> \in order \/ <<y, x>> \in order
  /\ \A x, y, z \in S : <<x, y>> \in order /\ <<y, z>> \in order => <<x, z>> \in order

(* How many stand before x, counting x.                                    *)
Rank(S, order, x) == Cardinality({y \in S : <<y, x>> \in order}) + 1

(* Ranks number the members of S from 1, as the order has them.            *)
LEMMA Ranks ==
  ASSUME NEW S, IsFiniteSet(S), NEW order, StrictOrder(order, S)
  PROVE  /\ Cardinality(S) \in Nat
         /\ \A x \in S : Rank(S, order, x) \in 1 .. Cardinality(S)
         /\ \A x, y \in S : <<x, y>> \in order <=> Rank(S, order, x) < Rank(S, order, y)
         /\ \A x, y \in S : Rank(S, order, x) = Rank(S, order, y) => x = y
         /\ \A n \in 1 .. Cardinality(S) : \E x \in S : Rank(S, order, x) = n
  <1>. DEFINE before(x) == {y \in S : <<y, x>> \in order}
              rank == [x \in S |-> Rank(S, order, x)]
  <1>1. Cardinality(S) \in Nat
    BY FS_CardinalityType
  <1>2. ASSUME NEW x \in S
        PROVE  /\ IsFiniteSet(before(x)) /\ Cardinality(before(x)) \in Nat
               /\ Rank(S, order, x) = Cardinality(before(x)) + 1
               /\ Rank(S, order, x) \in 1 .. Cardinality(S)
    <2>1. before(x) \in SUBSET S /\ before(x) # S
      BY DEF StrictOrder
    <2>2. /\ IsFiniteSet(before(x)) /\ Cardinality(before(x)) <= Cardinality(S)
          /\ Cardinality(before(x)) # Cardinality(S)
      <3>. HIDE DEF before
      <3>. QED  BY <2>1, FS_Subset
    <2>3. Cardinality(before(x)) \in Nat
      BY <2>2, FS_CardinalityType
    <2>4. Rank(S, order, x) = Cardinality(before(x)) + 1
      BY DEF Rank
    <2>. QED  BY <1>1, <2>2, <2>3, <2>4
  <1>3. ASSUME NEW x \in S, NEW y \in S, <<x, y>> \in order
        PROVE  Rank(S, order, x) < Rank(S, order, y)
    <2>1. before(x) \in SUBSET before(y)
      BY <1>3 DEF StrictOrder
    <2>2. x \in before(y) /\ x \notin before(x)
      BY <1>3 DEF StrictOrder
    <2>3. /\ Cardinality(before(x)) <= Cardinality(before(y))
          /\ Cardinality(before(x)) # Cardinality(before(y))
      <3>1. IsFiniteSet(before(y))
        BY <1>2
      <3>. HIDE DEF before
      <3>. QED  BY <2>1, <2>2, <3>1, FS_Subset
    <2>4. Cardinality(before(x)) \in Nat /\ Cardinality(before(y)) \in Nat
      BY <1>2
    <2>5. Cardinality(before(x)) + 1 < Cardinality(before(y)) + 1
      <3>. HIDE DEF before
      <3>. QED  BY <2>3, <2>4
    <2>. QED  BY <1>2, <2>5
  <1>4. \A x \in S : rank[x] = Rank(S, order, x)
    OBVIOUS
  <1>5. \A x, y \in S : Rank(S, order, x) = Rank(S, order, y) => x = y
    <2>. SUFFICES ASSUME NEW x \in S, NEW y \in S, Rank(S, order, x) = Rank(S, order, y), x # y
                  PROVE  FALSE
      OBVIOUS
    <2>1. <<x, y>> \in order \/ <<y, x>> \in order
      BY DEF StrictOrder
    <2>2. Rank(S, order, x) < Rank(S, order, y) \/ Rank(S, order, y) < Rank(S, order, x)
      BY <1>3, <2>1
    <2>3. Rank(S, order, x) \in 1 .. Cardinality(S) /\ Rank(S, order, y) \in 1 .. Cardinality(S)
      BY <1>2
    <2>. QED  BY <1>1, <2>2, <2>3
  <1>6. \A x, y \in S : <<x, y>> \in order <=> Rank(S, order, x) < Rank(S, order, y)
    <2>. SUFFICES ASSUME NEW x \in S, NEW y \in S, Rank(S, order, x) < Rank(S, order, y)
                  PROVE  <<x, y>> \in order
      BY <1>3
    <2>1. Rank(S, order, x) \in 1 .. Cardinality(S) /\ Rank(S, order, y) \in 1 .. Cardinality(S)
      BY <1>2
    <2>2. x # y /\ ~(Rank(S, order, y) < Rank(S, order, x))
      BY <1>1, <2>1
    <2>. QED  BY <1>3, <2>2 DEF StrictOrder
  <1>7. ASSUME NEW n \in 1 .. Cardinality(S) PROVE \E x \in S : Rank(S, order, x) = n
    <2>1. rank \in [S -> 1 .. Cardinality(S)]
      BY <1>2
    <2>2. rank \in Injection(S, 1 .. Cardinality(S))
      BY <1>4, <1>5, <2>1 DEF Injection, IsInjective
    <2>3. IsFiniteSet(1 .. Cardinality(S)) /\ Cardinality(1 .. Cardinality(S)) = Cardinality(S)
      <3>1. 1 \in Int /\ Cardinality(S) \in Int
        BY <1>1
      <3>2. /\ IsFiniteSet(1 .. Cardinality(S))
            /\ Cardinality(1 .. Cardinality(S)) = IF 1 > Cardinality(S) THEN 0 ELSE Cardinality(S) - 1 + 1
        BY <3>1, FS_Interval
      <3>. QED  BY <1>1, <3>2
    <2>4. rank \in Surjection(S, 1 .. Cardinality(S))
      <3>. HIDE DEF rank
      <3>. QED  BY <2>2, <2>3, FS_Injection
    <2>5. \E x \in S : rank[x] = n
      BY <2>4 DEF Surjection
    <2>. QED  BY <1>4, <2>5
  <1>. QED  BY <1>1, <1>2, <1>5, <1>6, <1>7

(* Ranked lists each member of S once, in order.                           *)
THEOREM RankedInOrder ==
  ASSUME NEW S, IsFiniteSet(S), NEW order, StrictOrder(order, S)
  PROVE  /\ Ranked(S, order) \in Seq(S) /\ Len(Ranked(S, order)) = Cardinality(S)
         /\ \A x \in S : \E n \in DOMAIN Ranked(S, order) : Ranked(S, order)[n] = x
         /\ \A m, n \in DOMAIN Ranked(S, order) :
              m < n <=> <<Ranked(S, order)[m], Ranked(S, order)[n]>> \in order
  <1>. DEFINE list == Ranked(S, order)
              size == Cardinality(S)
              rank(x) == Rank(S, order, x)
  <1>1. /\ size \in Nat
        /\ \A x \in S : rank(x) \in 1 .. size
        /\ \A x, y \in S : <<x, y>> \in order <=> rank(x) < rank(y)
        /\ \A x, y \in S : rank(x) = rank(y) => x = y
        /\ \A n \in 1 .. size : \E x \in S : rank(x) = n
    BY Ranks
  <1>2. \A x \in S : Cardinality({y \in S : <<y, x>> \in order}) \in Nat
    <2>. SUFFICES ASSUME NEW x \in S PROVE Cardinality({y \in S : <<y, x>> \in order}) \in Nat
      OBVIOUS
    <2>1. {y \in S : <<y, x>> \in order} \in SUBSET S
      OBVIOUS
    <2>. QED  BY <2>1, FS_Subset, FS_CardinalityType
  <1>3. ASSUME NEW n \in 1 .. size PROVE list[n] \in S /\ rank(list[n]) = n
    <2>1. list[n] = CHOOSE x \in S : Cardinality({y \in S : <<y, x>> \in order}) = n - 1
      BY DEF Ranked
    <2>2. PICK x \in S : Cardinality({y \in S : <<y, x>> \in order}) = n - 1
      <3>1. PICK x \in S : rank(x) = n
        BY <1>1
      <3>2. Cardinality({y \in S : <<y, x>> \in order}) + 1 = n
        BY <3>1 DEF Rank
      <3>3. Cardinality({y \in S : <<y, x>> \in order}) \in Nat /\ n \in Nat
        BY <1>1, <1>2
      <3>4. \A k \in Nat : k + 1 = n => k = n - 1
        BY <3>3
      <3>. QED  BY <3>2, <3>3, <3>4
    <2>3. list[n] \in S /\ Cardinality({y \in S : <<y, list[n]>> \in order}) = n - 1
      <3>. HIDE DEF list, size
      <3>. QED  BY <2>1, <2>2
    <2>4. rank(list[n]) = (n - 1) + 1
      BY <2>3 DEF Rank
    <2>5. (n - 1) + 1 = n
      BY <1>1
    <2>. QED  BY <2>3, <2>4, <2>5
  <1>4. list = [n \in 1 .. size |-> list[n]]
    <2>. DEFINE nth(n) == CHOOSE x \in S : Cardinality({y \in S : <<y, x>> \in order}) = n - 1
    <2>1. list = [n \in 1 .. size |-> nth(n)]
      BY DEF Ranked
    <2>. HIDE DEF list, size, nth
    <2>. QED  BY <2>1
  <1>. HIDE DEF list, size, rank
  <1>5. list \in [1 .. size -> S]
    BY <1>3, <1>4
  <1>6. list \in Seq(S) /\ Len(list) = size /\ DOMAIN list = 1 .. size
    BY <1>1, <1>5
  <1>7. ASSUME NEW x \in S PROVE \E n \in DOMAIN list : list[n] = x
    <2>1. rank(x) \in 1 .. size
      BY <1>1
    <2>. QED  BY <1>1, <1>3, <1>6, <2>1
  <1>8. ASSUME NEW m \in DOMAIN list, NEW n \in DOMAIN list
        PROVE  m < n <=> <<list[m], list[n]>> \in order
    BY <1>1, <1>3, <1>6
  <1>9. /\ list \in Seq(S) /\ Len(list) = size
        /\ \A x \in S : \E n \in DOMAIN list : list[n] = x
        /\ \A m, n \in DOMAIN list : m < n <=> <<list[m], list[n]>> \in order
    BY <1>6, <1>7, <1>8
  <1>. QED  BY <1>9 DEF list, size

(* The orders of numbers and of pairs of numbers.                          *)
LEMMA NumericOrder ==
  ASSUME NEW S \in SUBSET Int
  PROVE  StrictOrder(Below(S), S)
  BY DEF StrictOrder, Below

LEMMA LexicalOrders ==
  ASSUME NEW S \in SUBSET (Int \X Int)
  PROVE  StrictOrder(Lexical(S), S)
  <1>1. \A x, y \in S : <<x, y>> \in Lexical(S) <=>
          \/ x[1] < y[1]
          \/ (x[1] = y[1] /\ x[2] < y[2])
    BY DEF Lexical
  <1>2. \A x \in S : x[1] \in Int /\ x[2] \in Int /\ x = <<x[1], x[2]>>
    OBVIOUS
  <1>. QED  BY <1>1, <1>2 DEF StrictOrder

(* Ascending lists numbers, each once, in order.                           *)
LEMMA AscendingList ==
  ASSUME NEW S \in SUBSET Int, IsFiniteSet(S), NEW list, list = Ascending(S)
  PROVE  /\ list \in Seq(S)
         /\ \A x \in S : \E n \in DOMAIN list : list[n] = x
         /\ \A m, n \in DOMAIN list : m < n <=> list[m] < list[n]
  <1>1. PICK order : order = Below(S)
    OBVIOUS
  <1>2. /\ list \in Seq(S)
        /\ \A x \in S : \E n \in DOMAIN list : list[n] = x
        /\ \A m, n \in DOMAIN list : m < n <=> <<list[m], list[n]>> \in order
    BY <1>1, NumericOrder, RankedInOrder DEF Ascending
  <1>3. \A n \in DOMAIN list : list[n] \in S
    BY <1>2
  <1>4. \A m, n \in DOMAIN list : m < n <=> list[m] < list[n]
    BY <1>1, <1>2, <1>3 DEF Below
  <1>. QED  BY <1>2, <1>4

(* Picked has what stands at the positions picked, each once, in order.    *)
LEMMA PickedFrom ==
  ASSUME NEW T, NEW s \in Seq(T), NEW S \in SUBSET DOMAIN s,
         NEW list, list = Picked(s, S)
  PROVE  /\ list \in Seq(T) /\ Ascending(S) \in [DOMAIN list -> S]
         /\ \A x \in S : \E n \in DOMAIN list : Ascending(S)[n] = x
         /\ \A m, n \in DOMAIN list : m < n <=> Ascending(S)[m] < Ascending(S)[n]
         /\ \A n \in DOMAIN list : list[n] = s[Ascending(S)[n]]
  <1>1. S \in SUBSET Int /\ IsFiniteSet(S) /\ DOMAIN s = 1 .. Len(s) /\ Len(s) \in Nat
    BY FS_Interval, FS_Subset
  <1>2. PICK at : at = Ascending(S)
    OBVIOUS
  <1>3. /\ at \in Seq(S)
        /\ \A x \in S : \E n \in DOMAIN at : at[n] = x
        /\ \A m, n \in DOMAIN at : m < n <=> at[m] < at[n]
    BY <1>1, <1>2, AscendingList
  <1>4. list = [n \in DOMAIN at |-> s[at[n]]]
    BY <1>2 DEF Picked
  <1>5. \A n \in DOMAIN at : at[n] \in S
    BY <1>3
  <1>6. list \in Seq(T)
    <2>1. DOMAIN at = 1 .. Len(at) /\ Len(at) \in Nat
      BY <1>3
    <2>2. \A n \in 1 .. Len(at) : s[at[n]] \in T
      BY <1>5, <2>1
    <2>. QED  BY <1>4, <2>1, <2>2
  <1>7. at \in [DOMAIN list -> S] /\ DOMAIN list = DOMAIN at
    BY <1>3, <1>4, <1>5
  <1>. QED  BY <1>2, <1>3, <1>4, <1>6, <1>7

(* Concatenated has what the sequences have at their places, each once, in *)
(* the order of the places.                                                *)
LEMMA ConcatenatedFrom ==
  ASSUME NEW T, NEW lists \in Seq(Seq(T)), NEW list, list = Concatenated(lists)
  PROVE  /\ list \in Seq(T) /\ InTurn(lists) \in [DOMAIN list -> Places(lists)]
         /\ \A x \in Places(lists) : \E n \in DOMAIN list : InTurn(lists)[n] = x
         /\ \A m, n \in DOMAIN list :
              m < n <=> <<InTurn(lists)[m], InTurn(lists)[n]>> \in Lexical(Places(lists))
         /\ \A n \in DOMAIN list : list[n] = lists[InTurn(lists)[n][1]][InTurn(lists)[n][2]]
  <1>1. \A n \in DOMAIN lists :
          n \in Int /\ lists[n] \in Seq(T) /\ DOMAIN lists[n] = 1 .. Len(lists[n]) /\ Len(lists[n]) \in Nat
    OBVIOUS
  <1>2. PICK S : S = Places(lists)
    OBVIOUS
  <1>3. \A x \in S : \E n \in DOMAIN lists : x \in {n} \X (DOMAIN lists[n])
    BY <1>2 DEF Places
  <1>4. \A x \in S : /\ x[1] \in DOMAIN lists /\ x[2] \in DOMAIN lists[x[1]]
                     /\ x \in Int \X Int
    BY <1>1, <1>3
  <1>5. IsFiniteSet(S)
    <2>. DEFINE columns == {{n} \X (DOMAIN lists[n]) : n \in DOMAIN lists}
                column == [n \in DOMAIN lists |-> {n} \X (DOMAIN lists[n])]
    <2>1. IsFiniteSet(DOMAIN lists)
      BY FS_Interval
    <2>2. IsFiniteSet(columns)
      <3>1. column \in Surjection(DOMAIN lists, columns)
        BY DEF Surjection
      <3>. HIDE DEF columns, column
      <3>. QED  BY <2>1, <3>1, FS_Surjection
    <2>3. \A n \in DOMAIN lists : IsFiniteSet({n} \X (DOMAIN lists[n]))
      <3>. SUFFICES ASSUME NEW n \in DOMAIN lists PROVE IsFiniteSet({n} \X (DOMAIN lists[n]))
        OBVIOUS
      <3>1. IsFiniteSet({n})
        BY FS_Singleton
      <3>2. IsFiniteSet(1 .. Len(lists[n]))
        <4>1. Len(lists[n]) \in Int
          BY <1>1
        <4>. QED  BY <4>1, FS_Interval
      <3>. QED  BY <1>1, <3>1, <3>2, FS_Product
    <2>4. S = UNION columns
      BY <1>2 DEF Places
    <2>. QED  BY <2>2, <2>3, <2>4, FS_UNION
  <1>6. StrictOrder(Lexical(S), S)
    BY <1>4, LexicalOrders
  <1>7. PICK at : at = InTurn(lists)
    OBVIOUS
  <1>8. /\ at \in Seq(S)
        /\ \A x \in S : \E n \in DOMAIN at : at[n] = x
        /\ \A m, n \in DOMAIN at : m < n <=> <<at[m], at[n]>> \in Lexical(S)
    BY <1>2, <1>5, <1>6, <1>7, RankedInOrder DEF InTurn
  <1>9. list = [n \in DOMAIN at |-> lists[at[n][1]][at[n][2]]]
    BY <1>2, <1>7 DEF Concatenated
  <1>10. list \in Seq(T)
    <2>1. DOMAIN at = 1 .. Len(at) /\ Len(at) \in Nat
      BY <1>8
    <2>2. ASSUME NEW n \in 1 .. Len(at) PROVE lists[at[n][1]][at[n][2]] \in T
      <3>1. at[n] \in S
        BY <1>8, <2>1
      <3>2. PICK k, e : k = at[n][1] /\ e = at[n][2] /\ k \in DOMAIN lists /\ e \in DOMAIN lists[k]
        BY <1>4, <3>1
      <3>3. lists[k] \in Seq(T)
        BY <1>1, <3>2
      <3>. QED  BY <3>2, <3>3
    <2>. QED  BY <1>9, <2>1, <2>2
  <1>11. at \in [DOMAIN list -> S] /\ DOMAIN list = DOMAIN at
    BY <1>8, <1>9
  <1>. QED  BY <1>2, <1>7, <1>8, <1>9, <1>10, <1>11
=============================================================================
