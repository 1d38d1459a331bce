-------------------------------- MODULE Sums --------------------------------
(***************************************************************************)
(* Facts about sums over finite sets, for the theorems on money: what a    *)
(* sum is, how it changes with one summand, and that it is the sum the     *)
(* community modules' MapThenSumSet computes.  At the end, least and       *)
(* greatest members.                                                       *)
(*                                                                         *)
(* MapThenSumSet folds: it takes the members one by one, and no induction  *)
(* is to be had over the order it takes them in.  A sum is therefore       *)
(* written as a cardinality, which the theorems on finite sets are about.  *)
(***************************************************************************)
EXTENDS Integers, FiniteSets, FiniteSetsExt, FiniteSetTheorems, WellFoundedInduction, TLAPS

(* What the natural numbers f assigns to the members of S come to: as many  *)
(* as there are pairs of a member and a number up to its own.               *)
Pile(f, x) == {<<x, i>> : i \in 1..f[x]}
Piles(f, S) == UNION {Pile(f, x) : x \in S}
SumOf(f, S) == Cardinality(Piles(f, S))

LEMMA PileSize ==
    ASSUME NEW f, NEW x, f[x] \in Nat
    PROVE  IsFiniteSet(Pile(f, x)) /\ Cardinality(Pile(f, x)) = f[x]
  <1> DEFINE nth == [i \in 1..f[x] |-> <<x, i>>]
  <1>1. nth \in [1..f[x] -> Pile(f, x)]
    BY DEF Pile
  <1>2. \A i, j \in 1..f[x] : nth[i] = nth[j] => i = j
    OBVIOUS
  <1>3. \A c \in Pile(f, x) : \E i \in 1..f[x] : nth[i] = c
    BY DEF Pile
  <1> HIDE DEF nth
  <1>4. nth \in Bijection(1..f[x], Pile(f, x))
    BY <1>1, <1>2, <1>3 DEF Bijection, Injection, IsInjective, Surjection
  <1>5. IsFiniteSet(1..f[x]) /\ Cardinality(1..f[x]) = f[x]
    BY FS_Interval
  <1> QED BY <1>4, <1>5, FS_Bijection DEF ExistsBijection

LEMMA PilesFinite ==
    ASSUME NEW S, IsFiniteSet(S), NEW f, \A x \in S : f[x] \in Nat
    PROVE  IsFiniteSet(Piles(f, S))
  <1> DEFINE All == {Pile(f, x) : x \in S}
             pile == [x \in S |-> Pile(f, x)]
  <1>1. pile \in Surjection(S, All)
    BY DEF Surjection
  <1>2. IsFiniteSet(All)
    BY <1>1, FS_Surjection
  <1>3. \A T \in All : IsFiniteSet(T)
    BY PileSize
  <1> QED BY <1>2, <1>3, FS_UNION DEF Piles

LEMMA SumType ==
    ASSUME NEW S, IsFiniteSet(S), NEW f, \A x \in S : f[x] \in Nat
    PROVE  SumOf(f, S) \in Nat
  BY PilesFinite, FS_CardinalityType DEF SumOf

LEMMA SumOfNone ==
    ASSUME NEW f
    PROVE  SumOf(f, {}) = 0
  <1>1. Piles(f, {}) = {}
    BY DEF Piles
  <1> QED BY <1>1, FS_EmptySet DEF SumOf

(* One member and the others.                                               *)
LEMMA SumSplits ==
    ASSUME NEW S, IsFiniteSet(S), NEW f, \A x \in S : f[x] \in Nat, NEW x \in S
    PROVE  SumOf(f, S) = f[x] + SumOf(f, S \ {x})
  <1> DEFINE rest == Piles(f, S \ {x})
  <1>1. Piles(f, S) = Pile(f, x) \cup rest
    BY DEF Piles
  <1>2. Pile(f, x) \cap rest = {}
    BY DEF Piles, Pile
  <1>3. IsFiniteSet(S \ {x})
    BY FS_RemoveElement
  <1>4. IsFiniteSet(rest) /\ IsFiniteSet(Pile(f, x)) /\ Cardinality(Pile(f, x)) = f[x]
    BY <1>3, PilesFinite, PileSize
  <1>5. Cardinality(rest) \in Nat
    BY <1>4, FS_CardinalityType
  <1> HIDE DEF rest
  <1>6. Cardinality(Pile(f, x) \cup rest) = Cardinality(Pile(f, x)) + Cardinality(rest) - Cardinality({})
    BY <1>2, <1>4, FS_Union
  <1> QED BY <1>1, <1>4, <1>5, <1>6, FS_EmptySet DEF SumOf, rest

LEMMA SumOfSame ==
    ASSUME NEW S, NEW f, NEW h, \A x \in S : f[x] = h[x]
    PROVE  SumOf(f, S) = SumOf(h, S)
  <1>1. \A x \in S : Pile(f, x) = Pile(h, x)
    BY DEF Pile
  <1>2. Piles(f, S) = Piles(h, S)
    BY <1>1 DEF Piles
  <1> QED BY <1>2 DEF SumOf

(* Those that come to nothing need not be counted.                          *)
LEMMA SumOfSome ==
    ASSUME NEW S, NEW T \in SUBSET S, NEW f, \A x \in S \ T : f[x] = 0
    PROVE  SumOf(f, S) = SumOf(f, T)
  <1>1. \A x \in S \ T : Pile(f, x) = {}
    BY DEF Pile
  <1>2. Piles(f, S) = Piles(f, T)
    BY <1>1 DEF Piles
  <1> QED BY <1>2 DEF SumOf

(* A change in one place.                                                   *)
LEMMA SumChanges ==
    ASSUME NEW S, IsFiniteSet(S), NEW f, \A y \in S : f[y] \in Nat,
           NEW h, \A y \in S : h[y] \in Nat,
           NEW x \in S, \A y \in S \ {x} : h[y] = f[y]
    PROVE  SumOf(h, S) = SumOf(f, S) - f[x] + h[x]
  <1>1. SumOf(f, S) = f[x] + SumOf(f, S \ {x}) /\ SumOf(h, S) = h[x] + SumOf(h, S \ {x})
    BY SumSplits
  <1>2. SumOf(h, S \ {x}) = SumOf(f, S \ {x})
    BY SumOfSame
  <1>3. SumOf(f, S \ {x}) \in Nat
    BY FS_RemoveElement, SumType
  <1> QED BY <1>1, <1>2, <1>3

(* What MapThenSumSet computes, taking the members one by one.              *)
OneOf(s) == CHOOSE x \in s : TRUE
AddsUp(f, S, it) ==
    it = [s \in SUBSET S |-> IF s = {} THEN 0 ELSE f[OneOf(s)] + it[s \ {OneOf(s)}]]

LEMMA SumAddsUp ==
    ASSUME NEW S, IsFiniteSet(S), NEW f, \A x \in S : f[x] \in Nat
    PROVE  AddsUp(f, S, [s \in SUBSET S |-> SumOf(f, s)])
  <1> DEFINE it == [s \in SUBSET S |-> SumOf(f, s)]
  <1>1. ASSUME NEW s \in SUBSET S
        PROVE  it[s] = IF s = {} THEN 0 ELSE f[OneOf(s)] + it[s \ {OneOf(s)}]
    <2>1. CASE s = {}
      BY <2>1, SumOfNone
    <2>2. CASE s # {}
      <3>1. OneOf(s) \in s
        BY <2>2 DEF OneOf
      <3>2. IsFiniteSet(s)
        BY FS_Subset
      <3>3. SumOf(f, s) = f[OneOf(s)] + SumOf(f, s \ {OneOf(s)})
        BY <3>1, <3>2, SumSplits
      <3> QED BY <2>2, <3>3
    <2> QED BY <2>1, <2>2
  <1> QED BY <1>1 DEF AddsUp

(* Only one function does, since a smallest set on which two differed would *)
(* be one member more than a set on which they agree.                       *)
LEMMA OnlyOneAddsUp ==
    ASSUME NEW S, IsFiniteSet(S), NEW f, NEW it, AddsUp(f, S, it), NEW total, AddsUp(f, S, total)
    PROVE  it[S] = total[S]
  <1> DEFINE Wrong == {s \in SUBSET S : it[s] # total[s]}
             R == StrictSubsetOrdering(S)
  <1>1. SUFFICES ASSUME Wrong # {} PROVE FALSE
    OBVIOUS
  <1>2. Wrong \subseteq FiniteSubsetsOf(S)
    BY FS_Subset DEF FiniteSubsetsOf
  <1>3. PICK s \in Wrong : \A t \in Wrong : ~(<<t, s>> \in R)
    <2> HIDE DEF Wrong, R
    <2>1. IsWellFoundedOn(R, FiniteSubsetsOf(S))
      BY FS_StrictSubsetOrderingWellFounded DEF R
    <2> QED BY <1>1, <1>2, <2>1, WFMin
  <1>4. s \in SUBSET S
    OBVIOUS
  <1>5. s # {}
    BY DEF AddsUp
  <1> DEFINE x == OneOf(s)
             t == s \ {x}
  <1>6. x \in s
    BY <1>5 DEF OneOf
  <1>7. t \in SUBSET S /\ <<t, s>> \in R
    BY <1>4, <1>6 DEF StrictSubsetOrdering
  <1>8. it[t] = total[t]
    BY <1>3, <1>7
  <1>9. it[s] = f[x] + it[t] /\ total[s] = f[x] + total[t]
    BY <1>4, <1>5 DEF AddsUp
  <1> QED BY <1>8, <1>9

LEMMA FoldAddsUp ==
    ASSUME NEW S, IsFiniteSet(S), NEW f, NEW total, AddsUp(f, S, total)
    PROVE  MapThenSumSet(LAMBDA x : f[x], S) = total[S]
  <1> DEFINE it == CHOOSE it : it = [s \in SUBSET S |-> IF s = {} THEN 0
                                         ELSE f[OneOf(s)] + it[s \ {OneOf(s)}]]
  <1>1. MapThenSumSet(LAMBDA x : f[x], S) = it[S]
    BY DEF MapThenSumSet, MapThenFoldSet, OneOf
  <1>2. AddsUp(f, S, it)
    BY DEF AddsUp
  <1> HIDE DEF it
  <1> QED BY <1>1, <1>2, OnlyOneAddsUp

LEMMA SumIsFold ==
    ASSUME NEW S, IsFiniteSet(S), NEW f, \A x \in S : f[x] \in Nat
    PROVE  MapThenSumSet(LAMBDA x : f[x], S) = SumOf(f, S)
  <1>1. AddsUp(f, S, [s \in SUBSET S |-> SumOf(f, s)])
    BY SumAddsUp
  <1>2. MapThenSumSet(LAMBDA x : f[x], S) = [s \in SUBSET S |-> SumOf(f, s)][S]
    BY <1>1, FoldAddsUp
  <1> QED BY <1>2

(* Everybody's n.                                                           *)
LEMMA SumOfConstant ==
    ASSUME NEW S, IsFiniteSet(S), NEW n \in Nat
    PROVE  SumOf([x \in S |-> n], S) = Cardinality(S) * n
  <1> DEFINE f == [x \in S |-> n]
             pair == [c \in S \X (1..n) |-> c]
  <1>1. Piles(f, S) = {<<x, i>> : x \in S, i \in 1..n}
    BY DEF Piles, Pile
  <1>2. {<<x, i>> : x \in S, i \in 1..n} = S \X (1..n)
    OBVIOUS
  <1>3. IsFiniteSet(1..n) /\ Cardinality(1..n) = n
    BY FS_Interval
  <1> QED BY <1>1, <1>2, <1>3, FS_Product DEF SumOf

(* Fewer come to no more.                                                   *)
LEMMA SumOfFewer ==
    ASSUME NEW S, IsFiniteSet(S), NEW T \in SUBSET S, NEW f, \A x \in S : f[x] \in Nat
    PROVE  SumOf(f, T) <= SumOf(f, S)
  <1>1. Piles(f, T) \subseteq Piles(f, S)
    BY DEF Piles
  <1>2. IsFiniteSet(Piles(f, S))
    BY PilesFinite
  <1> QED BY <1>1, <1>2, FS_Subset DEF SumOf

(* One more.                                                                *)
LEMMA SumOfMore ==
    ASSUME NEW S, IsFiniteSet(S), NEW x, NEW f, \A y \in S \cup {x} : f[y] \in Nat
    PROVE  SumOf(f, S \cup {x}) <= SumOf(f, S) + f[x]
  <1>1. IsFiniteSet(S \cup {x})
    BY FS_AddElement
  <1>2. SumOf(f, S \cup {x}) = f[x] + SumOf(f, (S \cup {x}) \ {x})
    BY <1>1, SumSplits
  <1>3. (S \cup {x}) \ {x} \in SUBSET S
    OBVIOUS
  <1>4. SumOf(f, (S \cup {x}) \ {x}) <= SumOf(f, S)
    BY <1>3, SumOfFewer
  <1>5. SumOf(f, (S \cup {x}) \ {x}) \in Nat /\ SumOf(f, S) \in Nat
    BY <1>1, FS_RemoveElement, SumType
  <1> QED BY <1>2, <1>4, <1>5

(* More of each come to more.                                               *)
LEMMA SumGrows ==
    ASSUME NEW S, IsFiniteSet(S), NEW f, \A x \in S : f[x] \in Nat,
           NEW h, \A x \in S : h[x] \in Nat /\ f[x] <= h[x]
    PROVE  SumOf(f, S) <= SumOf(h, S)
  <1>1. \A x \in S : Pile(f, x) \subseteq Pile(h, x)
    BY DEF Pile
  <1>2. Piles(f, S) \subseteq Piles(h, S)
    BY <1>1 DEF Piles
  <1>3. IsFiniteSet(Piles(h, S))
    BY PilesFinite
  <1> QED BY <1>2, <1>3, FS_Subset DEF SumOf

(* Each worth no more than n.                                               *)
LEMMA SumAtMost ==
    ASSUME NEW S, IsFiniteSet(S), NEW n \in Nat, NEW f, \A x \in S : f[x] \in 0..n
    PROVE  SumOf(f, S) <= Cardinality(S) * n
  <1> DEFINE all == [x \in S |-> n]
  <1>1. \A x \in S : Pile(f, x) \subseteq Pile(all, x)
    BY DEF Pile
  <1>2. Piles(f, S) \subseteq Piles(all, S)
    BY <1>1 DEF Piles
  <1>3. \A x \in S : all[x] \in Nat
    OBVIOUS
  <1>4. SumOf(all, S) = Cardinality(S) * n
    BY SumOfConstant
  <1> HIDE DEF all
  <1>5. IsFiniteSet(Piles(all, S))
    BY <1>3, PilesFinite
  <1> QED BY <1>2, <1>4, <1>5, FS_Subset DEF SumOf

(* A sum over two sets that share no member.                                *)
LEMMA SumOfUnion ==
    ASSUME NEW S, IsFiniteSet(S), NEW T, IsFiniteSet(T), S \cap T = {},
           NEW f, \A x \in S \cup T : f[x] \in Nat
    PROVE  SumOf(f, S \cup T) = SumOf(f, S) + SumOf(f, T)
  <1>1. Piles(f, S \cup T) = Piles(f, S) \cup Piles(f, T)
    BY DEF Piles
  <1>2. Piles(f, S) \cap Piles(f, T) = {}
    BY DEF Piles, Pile
  <1>3. IsFiniteSet(Piles(f, S)) /\ IsFiniteSet(Piles(f, T))
    BY PilesFinite
  <1>4. Cardinality(Piles(f, S) \cap Piles(f, T)) = 0
    BY <1>2, FS_EmptySet
  <1>5. Cardinality(Piles(f, S)) \in Nat /\ Cardinality(Piles(f, T)) \in Nat
    BY <1>3, FS_CardinalityType
  <1>6. Cardinality(Piles(f, S) \cup Piles(f, T))
           = Cardinality(Piles(f, S)) + Cardinality(Piles(f, T)) - Cardinality(Piles(f, S) \cap Piles(f, T))
    BY <1>3, FS_Union
  <1>7. Cardinality(Piles(f, S \cup T)) = Cardinality(Piles(f, S)) + Cardinality(Piles(f, T))
    <2> DEFINE a == Piles(f, S)
               b == Piles(f, T)
    <2> HIDE DEF a, b
    <2>1. Cardinality(a \cap b) = 0 /\ Cardinality(a) \in Nat /\ Cardinality(b) \in Nat
      BY <1>4, <1>5 DEF a, b
    <2>2. Cardinality(a \cup b) = Cardinality(a) + Cardinality(b) - Cardinality(a \cap b)
      BY <1>6 DEF a, b
    <2>3. Cardinality(a \cup b) = Cardinality(a) + Cardinality(b)
      BY <2>1, <2>2
    <2> QED BY <1>1, <2>3 DEF a, b
  <1> QED BY <1>7 DEF SumOf

(* The sum of sums.                                                         *)
LEMMA SumOfBoth ==
    ASSUME NEW S, IsFiniteSet(S), NEW f, NEW g, NEW h,
           \A x \in S : f[x] \in Nat /\ g[x] \in Nat /\ h[x] = f[x] + g[x]
    PROVE  SumOf(h, S) = SumOf(f, S) + SumOf(g, S)
  <1> DEFINE it == [s \in SUBSET S |-> SumOf(h, s)]
             total == [s \in SUBSET S |-> SumOf(f, s) + SumOf(g, s)]
  <1>1. \A x \in S : h[x] \in Nat
    OBVIOUS
  <1>2. AddsUp(h, S, it)
    BY <1>1, SumAddsUp
  <1>3. ASSUME NEW s \in SUBSET S
        PROVE  total[s] = IF s = {} THEN 0 ELSE h[OneOf(s)] + total[s \ {OneOf(s)}]
    <2>1. CASE s = {}
      BY <2>1, SumOfNone
    <2>2. CASE s # {}
      <3> DEFINE c == OneOf(s)
                 rest == s \ {c}
      <3>1. c \in s /\ rest \in SUBSET S
        BY <2>2 DEF OneOf
      <3> HIDE DEF c
      <3>2. IsFiniteSet(s) /\ IsFiniteSet(rest)
        BY <3>1, FS_Subset
      <3>3. SumOf(f, s) = f[c] + SumOf(f, rest) /\ SumOf(g, s) = g[c] + SumOf(g, rest)
        BY <3>1, <3>2, SumSplits
      <3>4. SumOf(f, rest) \in Nat /\ SumOf(g, rest) \in Nat
        BY <3>1, <3>2, SumType
      <3>5. f[c] \in Nat /\ g[c] \in Nat /\ h[c] = f[c] + g[c]
        BY <3>1
      <3>6. total[s] = h[c] + total[rest]
        BY <3>1, <3>3, <3>4, <3>5
      <3> QED BY <2>2, <3>6 DEF c
    <2> QED BY <2>1, <2>2
  <1>4. AddsUp(h, S, total)
    BY <1>3 DEF AddsUp
  <1>5. it[S] = total[S]
    <2> HIDE DEF it, total
    <2> QED BY <1>2, <1>4, OnlyOneAddsUp
  <1> QED BY <1>5

(* What the members of D come to, taken in parts, one for each owner.       *)
PartOf(D, who, x) == {s \in D : who[s] = x}
LEMMA SumOfParts ==
    ASSUME NEW S, IsFiniteSet(S), NEW D, IsFiniteSet(D), NEW who,
           NEW f, \A s \in D : f[s] \in Nat,
           NEW part, \A x \in S : part[x] = SumOf(f, PartOf(D, who, x))
    PROVE  SumOf(part, S) = SumOf(f, {s \in D : who[s] \in S})
  <1> DEFINE Of(T) == {s \in D : who[s] \in T}
             it == [T \in SUBSET S |-> SumOf(part, T)]
             total == [T \in SUBSET S |-> SumOf(f, Of(T))]
  <1>1. \A x \in S : part[x] \in Nat
    <2> SUFFICES ASSUME NEW x \in S PROVE SumOf(f, PartOf(D, who, x)) \in Nat
      OBVIOUS
    <2>1. PartOf(D, who, x) \in SUBSET D
      BY DEF PartOf
    <2> QED BY <2>1, FS_Subset, SumType
  <1>2. AddsUp(part, S, it)
    BY <1>1, SumAddsUp
  <1>3. ASSUME NEW T \in SUBSET S
        PROVE  total[T] = IF T = {} THEN 0 ELSE part[OneOf(T)] + total[T \ {OneOf(T)}]
    <2>1. CASE T = {}
      <3>1. Of(T) = {}
        BY <2>1
      <3> QED BY <2>1, <3>1, SumOfNone
    <2>2. CASE T # {}
      <3> DEFINE c == OneOf(T)
                 rest == T \ {c}
                 mine == PartOf(D, who, c)
      <3>1. c \in T /\ c \in S /\ rest \in SUBSET S
        BY <2>2 DEF OneOf
      <3> HIDE DEF c
      <3>2. Of(T) = mine \cup Of(rest) /\ mine \cap Of(rest) = {}
        BY <3>1 DEF PartOf
      <3>3. mine \in SUBSET D /\ Of(rest) \in SUBSET D
        BY DEF PartOf
      <3> HIDE DEF mine, Of
      <3>4. IsFiniteSet(mine) /\ IsFiniteSet(Of(rest))
        BY <3>3, FS_Subset
      <3>5. SumOf(f, mine \cup Of(rest)) = SumOf(f, mine) + SumOf(f, Of(rest))
        BY <3>2, <3>3, <3>4, SumOfUnion
      <3>6. total[T] = part[c] + total[rest]
        BY <3>1, <3>2, <3>5 DEF mine
      <3> QED BY <2>2, <3>6 DEF c
    <2> QED BY <2>1, <2>2
  <1>4. AddsUp(part, S, total)
    BY <1>3 DEF AddsUp
  <1>5. it[S] = total[S]
    <2> HIDE DEF it, total
    <2> QED BY <1>2, <1>4, OnlyOneAddsUp
  <1> QED BY <1>5

-----------------------------------------------------------------------------
(* Least and greatest                                                       *)

(* A nonempty set of naturals has a least member.                           *)
LEMMA LeastExists ==
    ASSUME NEW S \in SUBSET Nat, S # {}
    PROVE  \E i \in S : \A j \in S : i <= j
<1> DEFINE R == StrictSubsetOrdering(Nat)
           Below == {0..i : i \in S}
<1>1. IsWellFoundedOn(R, FiniteSubsetsOf(Nat))
  BY FS_StrictSubsetOrderingWellFounded
<1>2. Below \subseteq FiniteSubsetsOf(Nat) /\ Below # {}
  <2>1. \A i \in S : 0..i \in SUBSET Nat /\ IsFiniteSet(0..i)
    BY FS_Interval
  <2>2. QED
    BY <2>1 DEF FiniteSubsetsOf
<1>3. PICK x \in Below : \A y \in Below : ~(<<y, x>> \in R)
  <2> HIDE DEF R, Below
  <2> QED
    BY <1>1, <1>2, WFMin
<1>4. PICK i \in S : x = 0..i
  OBVIOUS
<1>5. ASSUME NEW j \in S, j < i
      PROVE  FALSE
  <2>1. 0..j \in Below /\ ~(<<0..j, 0..i>> \in R)
    BY <1>3, <1>4
  <2>2. 0..j \in SUBSET Nat /\ 0..i \in SUBSET Nat
    OBVIOUS
  <2>3. 0..j \subseteq 0..i
    BY <1>5
  <2>4. i \in 0..i /\ i \notin 0..j
    BY <1>5
  <2>5. QED
    BY <2>1, <2>2, <2>3, <2>4 DEF StrictSubsetOrdering
<1>6. QED
  BY <1>5

(* A finite nonempty set of naturals has a greatest member.                 *)
LEMMA GreatestNatural ==
    ASSUME NEW S \in SUBSET Nat, IsFiniteSet(S), S # {}
    PROVE  \E i \in S : \A j \in S : j <= i
  <1> DEFINE id == [i \in S |-> i]
             bound == SumOf(id, S)
             Below == {bound - i : i \in S}
  <1>1. bound \in Nat /\ \A i \in S : i <= bound
    <2>1. bound \in Nat
      BY SumType
    <2>2. ASSUME NEW i \in S PROVE i <= bound
      <3>1. bound = id[i] + SumOf(id, S \ {i})
        <4> HIDE DEF id
        <4> QED BY SumSplits DEF id
      <3>2. SumOf(id, S \ {i}) \in Nat
        BY FS_RemoveElement, SumType
      <3> QED BY <3>1, <3>2
    <2> QED BY <2>1, <2>2
  <1> HIDE DEF bound
  <1>2. Below \in SUBSET Nat /\ Below # {}
    <2>1. \A i \in S : i \in Nat /\ bound - i \in Nat
      BY <1>1
    <2>2. PICK i \in S : TRUE
      OBVIOUS
    <2> QED BY <2>1, <2>2
  <1>3. PICK n \in Below : \A m \in Below : n <= m
    BY <1>2, LeastExists
  <1>4. PICK i \in S : n = bound - i
    OBVIOUS
  <1>5. ASSUME NEW j \in S PROVE j <= i
    <2>1. bound - i <= bound - j
      BY <1>3, <1>4
    <2> QED BY <1>1, <2>1
  <1> QED BY <1>5

=============================================================================
