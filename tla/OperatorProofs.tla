--------------------------- MODULE OperatorProofs ---------------------------
(***************************************************************************)
(* Facts about the operators the models share: selections and sorts, and   *)
(* the arithmetic of shares, for every list and every set of models.       *)
(***************************************************************************)
EXTENDS Shares, Selections, FiniteSetTheorems, WellFoundedInduction, SequenceTheorems, TLAPS

-----------------------------------------------------------------------------
(* Selections. *)

\* Induction on a set of numbers.
LEMMA Counting ==
  ASSUME NEW S, 0 \in S, \A n \in Nat : n \in S => n + 1 \in S
  PROVE  Nat \subseteq S
<1> DEFINE T == Nat \ S
           R == OpToRel(<, Nat)
<1>1. SUFFICES ASSUME T # {} PROVE FALSE OBVIOUS
<1>2. IsWellFoundedOn(R, Nat) BY NatLessThanWellFounded
<1>3. \A x, y \in Nat : <<x, y>> \in R <=> x < y BY DEF OpToRel
<1> HIDE DEF R
<1>4. PICK x \in T : \A y \in T : ~(<<y, x>> \in R)
  <2>1. T \subseteq Nat OBVIOUS
  <2> HIDE DEF T
  <2> QED BY <1>1, <1>2, <2>1, WFMin
<1>5. x \in Nat /\ x # 0 /\ x - 1 \in Nat /\ x - 1 < x OBVIOUS
<1>6. x - 1 \in S
  <2>1. <<x - 1, x>> \in R BY <1>3, <1>5
  <2> QED BY <1>4, <1>5, <2>1
<1> QED BY <1>4, <1>5, <1>6

\* One of finitely many has the highest key.
LEMMA HighestExists ==
  ASSUME NEW U, NEW key \in [U -> Int], NEW S \in SUBSET U, IsFiniteSet(S), S # {}
  PROVE  \E m \in S : \A x \in S : key[x] <= key[m]
<1> DEFINE N == {n \in Nat : \A A \in SUBSET U : IsFiniteSet(A) /\ A # {} /\ Cardinality(A) = n
                                => \E m \in A : \A x \in A : key[x] <= key[m]}
<1>1. 0 \in N BY FS_EmptySet
<1>2. ASSUME NEW n \in Nat, n \in N PROVE n + 1 \in N
  <2> SUFFICES ASSUME NEW A \in SUBSET U, IsFiniteSet(A), A # {}, Cardinality(A) = n + 1
               PROVE  \E m \in A : \A x \in A : key[x] <= key[m]
    OBVIOUS
  <2>1. PICK a \in A : TRUE OBVIOUS
  <2>2. IsFiniteSet(A \ {a}) /\ Cardinality(A \ {a}) = n
    <3>1. IsFiniteSet(A \ {a}) /\ Cardinality(A \ {a}) = Cardinality(A) - 1 BY <2>1, FS_RemoveElement
    <3> QED BY <3>1
  <2>3. CASE A \ {a} = {} BY <2>1, <2>3
  <2>4. CASE A \ {a} # {}
    <3>1. PICK b \in A \ {a} : \A x \in A \ {a} : key[x] <= key[b] BY <1>2, <2>2, <2>4
    <3>2. key[a] \in Int /\ key[b] \in Int /\ \A x \in A : key[x] \in Int OBVIOUS
    <3>3. CASE key[a] <= key[b] BY <3>1, <3>2, <3>3
    <3>4. CASE key[b] <= key[a] BY <3>1, <3>2, <3>4
    <3> QED BY <3>2, <3>3, <3>4
  <2> QED BY <2>3, <2>4
<1>3. Nat \subseteq N
  <2> HIDE DEF N
  <2> QED BY <1>1, <1>2, Counting
<1> QED BY <1>3, FS_CardinalityType

LEMMA OrderExists ==
  ASSUME NEW U, NEW key \in [U -> Int], NEW S \in SUBSET U, IsFiniteSet(S)
  PROVE  \E f \in [1..Cardinality(S) -> S] : Orders(f, S, key)
<1> DEFINE N == {n \in Nat : \A A \in SUBSET U : IsFiniteSet(A) /\ Cardinality(A) = n
                                => \E f \in [1..n -> A] : Orders(f, A, key)}
<1>1. 0 \in N
  <2> SUFFICES ASSUME NEW A \in SUBSET U, IsFiniteSet(A), Cardinality(A) = 0
               PROVE  \E f \in [1..0 -> A] : Orders(f, A, key)
    OBVIOUS
  <2>1. A = {} BY FS_EmptySet
  <2>2. [k \in 1..0 |-> k] \in [1..0 -> A] OBVIOUS
  <2> QED BY <2>1, <2>2 DEF Orders
<1>2. ASSUME NEW n \in Nat, n \in N PROVE n + 1 \in N
  <2> SUFFICES ASSUME NEW A \in SUBSET U, IsFiniteSet(A), Cardinality(A) = n + 1
               PROVE  \E f \in [1..(n + 1) -> A] : Orders(f, A, key)
    OBVIOUS
  <2>1. A # {} BY FS_EmptySet
  <2>2. PICK m \in A : \A x \in A : key[x] <= key[m] BY <2>1, HighestExists
  <2> DEFINE B == A \ {m}
  <2>3. IsFiniteSet(B) /\ Cardinality(B) = n /\ B \in SUBSET U
    <3>1. IsFiniteSet(B) /\ Cardinality(B) = Cardinality(A) - 1 BY FS_RemoveElement
    <3> QED BY <3>1
  <2>4. PICK g \in [1..n -> B] : Orders(g, B, key) BY <1>2, <2>3
  <2> DEFINE f == [k \in 1..(n + 1) |-> IF k = n + 1 THEN m ELSE g[k]]
  <2>5. f \in [1..(n + 1) -> A] OBVIOUS
  <2>6. f[n + 1] = m /\ \A k \in 1..n : f[k] = g[k] /\ f[k] \in B OBVIOUS
  <2>7. ASSUME NEW x \in A PROVE \E k \in 1..(n + 1) : f[k] = x
    <3>1. CASE x = m BY <2>6, <3>1
    <3>2. CASE x # m
      <4>1. PICK k \in 1..n : g[k] = x BY <2>3, <2>4, <3>2 DEF Orders
      <4> QED BY <2>6, <4>1
    <3> QED BY <3>1, <3>2
  <2>8. ASSUME NEW i \in 1..(n + 1), NEW j \in 1..(n + 1), i < j
        PROVE  f[i] # f[j] /\ key[f[i]] <= key[f[j]]
    <3>1. CASE j = n + 1
      <4>1. i \in 1..n BY <2>8, <3>1
      <4> QED BY <2>2, <2>6, <3>1, <4>1
    <3>2. CASE j # n + 1
      <4>1. i \in 1..n /\ j \in 1..n BY <2>8, <3>2
      <4> QED BY <2>3, <2>4, <2>6, <2>8, <4>1 DEF Orders
    <3> QED BY <3>1, <3>2
  <2> HIDE DEF f
  <2> QED BY <2>5, <2>7, <2>8 DEF Orders
<1>3. Nat \subseteq N
  <2> HIDE DEF N
  <2> QED BY <1>1, <1>2, Counting
<1> QED BY <1>3, FS_CardinalityType

\* Ordered counts each element of a finite set once, by rising key.
LEMMA OrderedFacts ==
  ASSUME NEW S, IsFiniteSet(S), NEW key \in [S -> Int]
  PROVE  /\ Cardinality(S) \in Nat
         /\ Ordered(S, key) \in [1..Cardinality(S) -> S]
         /\ Orders(Ordered(S, key), S, key)
  BY OrderExists, FS_CardinalityType DEF Ordered

\* Ascending counts a finite set of numbers upwards.
LEMMA AscendingFacts ==
  ASSUME NEW I \in SUBSET Int, IsFiniteSet(I)
  PROVE  /\ Cardinality(I) \in Nat
         /\ Ascending(I) \in [1..Cardinality(I) -> I]
         /\ \A x \in I : \E k \in 1..Cardinality(I) : Ascending(I)[k] = x
         /\ \A i, j \in 1..Cardinality(I) : i < j => Ascending(I)[i] < Ascending(I)[j]
<1> DEFINE key == [i \in I |-> i]
<1>1. key \in [I -> Int] /\ \A i \in I : key[i] = i OBVIOUS
<1> HIDE DEF key
<1>2. /\ Cardinality(I) \in Nat /\ Ordered(I, key) \in [1..Cardinality(I) -> I]
      /\ Orders(Ordered(I, key), I, key)
  BY <1>1, OrderedFacts
<1>3. Ascending(I) = Ordered(I, key) BY DEF Ascending, key
<1>4. ASSUME NEW i \in 1..Cardinality(I), NEW j \in 1..Cardinality(I), i < j
      PROVE  Ascending(I)[i] < Ascending(I)[j]
  <2>1. Ascending(I)[i] \in I /\ Ascending(I)[j] \in I BY <1>2, <1>3
  <2>2. Ascending(I)[i] # Ascending(I)[j] /\ key[Ascending(I)[i]] <= key[Ascending(I)[j]]
    BY <1>2, <1>3, <1>4 DEF Orders
  <2>3. key[Ascending(I)[i]] = Ascending(I)[i] /\ key[Ascending(I)[j]] = Ascending(I)[j]
    BY <1>1, <2>1
  <2>4. Ascending(I)[i] \in Int /\ Ascending(I)[j] \in Int BY <2>1
  <2> QED BY <2>2, <2>3, <2>4
<1> QED BY <1>2, <1>3, <1>4 DEF Orders

\* A selection has the chosen elements, each once, in the order of the sequence.
LEMMA SelectedFacts ==
  ASSUME NEW X, NEW s \in Seq(X), NEW I \in SUBSET (1..Len(s))
  PROVE  /\ Cardinality(I) \in Nat /\ Cardinality(I) <= Len(s)
         /\ Selected(s, I) \in Seq(X) /\ Len(Selected(s, I)) = Cardinality(I)
         /\ \A k \in 1..Cardinality(I) : Ascending(I)[k] \in I /\ Selected(s, I)[k] = s[Ascending(I)[k]]
         /\ \A x \in I : \E k \in 1..Cardinality(I) : Ascending(I)[k] = x
         /\ \A i, j \in 1..Cardinality(I) : i < j => Ascending(I)[i] < Ascending(I)[j]
<1>1. /\ IsFiniteSet(1..Len(s)) /\ Cardinality(1..Len(s)) = Len(s)
      /\ IsFiniteSet(I) /\ Cardinality(I) <= Len(s)
  <2>1. Len(s) \in Nat BY LenProperties
  <2>2. IsFiniteSet(1..Len(s)) BY <2>1, FS_Interval
  <2>3. Cardinality(1..Len(s)) = IF 1 > Len(s) THEN 0 ELSE Len(s) - 1 + 1 BY <2>1, FS_Interval
  <2>4. Cardinality(1..Len(s)) = Len(s) BY <2>1, <2>3
  <2>5. IsFiniteSet(I) /\ Cardinality(I) <= Cardinality(1..Len(s)) BY <2>2, FS_Subset
  <2> QED BY <2>2, <2>4, <2>5
<1>2. I \in SUBSET Int OBVIOUS
<1>3. /\ Cardinality(I) \in Nat /\ Ascending(I) \in [1..Cardinality(I) -> I]
      /\ \A x \in I : \E k \in 1..Cardinality(I) : Ascending(I)[k] = x
      /\ \A i, j \in 1..Cardinality(I) : i < j => Ascending(I)[i] < Ascending(I)[j]
  BY <1>1, <1>2, AscendingFacts
<1>4. \A k \in 1..Cardinality(I) : Ascending(I)[k] \in I /\ s[Ascending(I)[k]] \in X
  BY <1>3, ElementOfSeq
<1>5. Selected(s, I) \in [1..Cardinality(I) -> X] BY <1>4 DEF Selected
<1>6. Selected(s, I) \in Seq(X) BY <1>3, <1>5
<1>7. Len(Selected(s, I)) = Cardinality(I) BY <1>3, <1>5, <1>6, LenProperties
<1> QED BY <1>1, <1>3, <1>4, <1>6, <1>7 DEF Selected

-----------------------------------------------------------------------------
(* Shares of a card. *)

\* A lowered share is a share again, or there is none lower.
LEMMA LowerIsShare == \A current : LowerFraction(current) \in 0..Full
<1>1. TAKE current
<1>2. DEFINE below == {f \in Ladder : f < current}
<1>3. CASE below = {}
  BY <1>3 DEF LowerFraction, NoShare, Full
<1>4. CASE below # {}
  <2>1. \E f \in below : \A g \in below : g <= f
    BY <1>4 DEF Ladder
  <2>2. LowerFraction(current) \in below
    BY <1>4, <2>1 DEF LowerFraction
  <2>3. QED  BY <2>2 DEF Ladder, Full
<1>5. QED  BY <1>3, <1>4

\* A lowered share is lower.
LEMMA LowerIsLower ==
  ASSUME NEW current \in 1..Full, LowerFraction(current) # NoShare
  PROVE  LowerFraction(current) < current
<1> DEFINE below == {f \in Ladder : f < current}
<1>1. below # {}
  BY DEF LowerFraction
<1>2. \E f \in below : \A g \in below : g <= f
  BY <1>1 DEF Ladder
<1>3. LowerFraction(current) \in below
  BY <1>1, <1>2 DEF LowerFraction
<1>4. QED  BY <1>3

\* A free share is within what telemetry, the other models and the limit leave.
LEMMA FreeShareBounds ==
  ASSUME NEW mem \in 0..Full, NEW used \in Nat, NEW limit \in 0..Full
  PROVE  /\ FreeShare(mem, used, limit) \in 0..Full
         /\ FreeShare(mem, used, limit) > 0 => FreeShare(mem, used, limit) + used <= Full
  BY DEF FreeShare, Lesser, Full

\* A raised share is a bigger one within what is free.
LEMMA BiggerBounds ==
  ASSUME NEW current \in 1..Full, NEW free \in 0..Full
  PROVE  /\ BiggerFraction(current, free) \in 0..Full
         /\ BiggerFraction(current, free) # NoShare => BiggerFraction(current, free) <= free
  BY DEF BiggerFraction, Lesser, Full, NoShare

\* The hundredths held on a card can be counted.
LEMMA HundredthsFinite ==
  ASSUME NEW S, IsFiniteSet(S), NEW shares \in [S -> 0..Full]
  PROVE  /\ IsFiniteSet(Hundredths(shares))
         /\ Total(shares) \in Nat
<1>1. IsFiniteSet(1..Full)
  <2>1. 1 \in Int /\ Full \in Int
    BY DEF Full
  <2>2. QED  BY <2>1, FS_Interval
<1>2. IsFiniteSet(S \X (1..Full))
  BY <1>1, FS_Product
<1>3. Hundredths(shares) \subseteq S \X (1..Full)
  <2>1. SUFFICES ASSUME NEW h \in Hundredths(shares)
                 PROVE  h \in S \X (1..Full)
    OBVIOUS
  <2>2. PICK n \in S : h \in {n} \X (1..shares[n])
    BY <2>1 DEF Hundredths
  <2>3. shares[n] \in 0..Full
    OBVIOUS
  <2>4. 1..shares[n] \subseteq 1..Full
    BY <2>3 DEF Full
  <2>5. QED  BY <2>2, <2>4
<1>4. IsFiniteSet(Hundredths(shares))
  BY <1>2, <1>3, FS_Subset
<1>5. QED  BY <1>4, FS_CardinalityType DEF Total

\* Smaller shares sum to less.
LEMMA TotalMonotone ==
  ASSUME NEW S, IsFiniteSet(S), NEW less \in [S -> 0..Full], NEW more \in [S -> 0..Full],
         \A n \in S : less[n] <= more[n]
  PROVE  Total(less) <= Total(more)
<1>1. IsFiniteSet(Hundredths(more))
  BY HundredthsFinite
<1>2. Hundredths(less) \subseteq Hundredths(more)
  <2>1. SUFFICES ASSUME NEW h \in Hundredths(less)
                 PROVE  h \in Hundredths(more)
    OBVIOUS
  <2>2. PICK n \in S : h \in {n} \X (1..less[n])
    BY <2>1 DEF Hundredths
  <2>3. less[n] \in 0..Full /\ more[n] \in 0..Full /\ less[n] <= more[n]
    OBVIOUS
  <2>4. 1..less[n] \subseteq 1..more[n]
    BY <2>3 DEF Full
  <2>5. h \in {n} \X (1..more[n])
    BY <2>2, <2>4
  <2>6. QED  BY <2>5 DEF Hundredths
<1>3. QED  BY <1>1, <1>2, FS_Subset DEF Total

\* One more share adds itself to the sum.
LEMMA TotalOfOneMore ==
  ASSUME NEW S, IsFiniteSet(S), NEW n \in S,
         NEW before \in [S -> 0..Full], before[n] = 0,
         NEW after \in [S -> 0..Full], \A m \in S \ {n} : after[m] = before[m]
  PROVE  Total(after) = Total(before) + after[n]
<1> DEFINE frac == after[n]
           own == {n} \X (1..frac)
<1>1. frac \in 0..Full
  OBVIOUS
<1>2. IsFiniteSet(Hundredths(before)) /\ Total(before) \in Nat
  BY HundredthsFinite
<1>3. IsFiniteSet(own) /\ Cardinality(own) = frac
  <2>1. IsFiniteSet(1..frac) /\ Cardinality(1..frac) = frac
    <3>1. 1 \in Int /\ frac \in Int /\ frac >= 0
      BY <1>1 DEF Full
    <3>2. /\ IsFiniteSet(1..frac)
          /\ Cardinality(1..frac) = IF 1 > frac THEN 0 ELSE frac - 1 + 1
      BY <3>1, FS_Interval
    <3>3. QED  BY <3>1, <3>2
  <2>2. IsFiniteSet({n}) /\ Cardinality({n}) = 1
    BY FS_Singleton
  <2>3. IsFiniteSet(own) /\ Cardinality(own) = Cardinality({n}) * Cardinality(1..frac)
    BY <2>1, <2>2, FS_Product
  <2> HIDE DEF frac
  <2>4. Cardinality({n}) * Cardinality(1..frac) = frac
    BY <1>1, <2>1, <2>2 DEF Full
  <2>5. QED  BY <2>3, <2>4
<1>4. Hundredths(before) \cap own = {}
  <2>1. SUFFICES ASSUME NEW h \in Hundredths(before), h \in own
                 PROVE  FALSE
    OBVIOUS
  <2>2. PICK m \in S : h \in {m} \X (1..before[m])
    BY <2>1 DEF Hundredths
  <2>3. m = n
    BY <2>1, <2>2
  <2>4. QED  BY <2>2, <2>3
<1>5. Hundredths(after) = Hundredths(before) \cup own
  <2>1. ASSUME NEW h \in Hundredths(after)
        PROVE  h \in Hundredths(before) \cup own
    <3>1. PICK m \in S : h \in {m} \X (1..after[m])
      BY <2>1 DEF Hundredths
    <3>2. CASE m = n
      BY <3>1, <3>2
    <3>3. CASE m # n
      <4>1. h \in {m} \X (1..before[m])
        BY <3>1, <3>3
      <4>2. QED  BY <4>1 DEF Hundredths
    <3>4. QED  BY <3>2, <3>3
  <2>2. ASSUME NEW h \in own
        PROVE  h \in Hundredths(after)
    <3>1. h \in {n} \X (1..after[n])
      BY <2>2
    <3>2. QED  BY <3>1, <1>1 DEF Hundredths
  <2>3. ASSUME NEW h \in Hundredths(before)
        PROVE  h \in Hundredths(after)
    <3>1. PICK m \in S : h \in {m} \X (1..before[m])
      BY <2>3 DEF Hundredths
    <3>2. m # n
      BY <3>1
    <3>3. h \in {m} \X (1..after[m])
      BY <3>1, <3>2
    <3>4. QED  BY <3>3, <1>1 DEF Hundredths
  <2>4. QED  BY <2>1, <2>2, <2>3
<1>6. Cardinality(Hundredths(after)) = Cardinality(Hundredths(before)) + Cardinality(own)
  <2>1. Cardinality(Hundredths(before) \cap own) = 0
    BY <1>4, FS_EmptySet
  <2>2. Cardinality(Hundredths(before)) \in Nat /\ Cardinality(own) \in Nat
    BY <1>2, <1>3, FS_CardinalityType
  <2>3. Cardinality(Hundredths(before) \cup own)
          = Cardinality(Hundredths(before)) + Cardinality(own)
            - Cardinality(Hundredths(before) \cap own)
    BY <1>2, <1>3, FS_Union
  <2>4. Cardinality(Hundredths(before) \cup own) = Cardinality(Hundredths(before)) + Cardinality(own)
    <3> HIDE DEF own
    <3>1. QED  BY <2>1, <2>2, <2>3
  <2>5. QED  BY ONLY <1>5, <2>4
<1>7. QED  BY <1>3, <1>6 DEF Total
=============================================================================
