------------------------- MODULE TokenBridgeProofs -------------------------
(* Proofs about the token bridge, for any chains, tokens and federators.    *)
EXTENDS TokenBridge, FiniteSetTheorems, WellFoundedInduction, TLAPS

(* Scanning an array without duplicates by index counts the elements of V.  *)
LEMMA CountByIndex ==
    ASSUME NEW S, NEW s \in Seq(S), IsInjective(s), NEW V
    PROVE  /\ IsFiniteSet(V \cap Range(s))
           /\ Cardinality({i \in DOMAIN s : s[i] \in V})
              = Cardinality(V \cap Range(s))
<1>. DEFINE I == {i \in DOMAIN s : s[i] \in V}
            T == V \cap Range(s)
            f == [i \in I |-> s[i]]
<1>1. IsFiniteSet(I)
  <2>1. DOMAIN s = 1..Len(s) /\ Len(s) \in Nat
    OBVIOUS
  <2>2. IsFiniteSet(1..Len(s))
    BY <2>1, FS_Interval
  <2>3. I \in SUBSET (1..Len(s))
    BY <2>1
  <2>. QED
    BY <2>2, <2>3, FS_Subset
<1>2. f \in Bijection(I, T)
  BY DEF Bijection, Injection, Surjection, IsInjective, Range
<1>3. ExistsBijection(I, T)
  BY <1>2 DEF ExistsBijection
<1>. QED
  BY <1>1, <1>3, FS_Bijection

-----------------------------------------------------------------------------
(* Sums: what SumFunctionOnSet computes, by the smallest set for which it     *)
(* would not.                                                                *)

(* A set of numbers has a least one.                                        *)
LEMMA LeastNumber ==
    ASSUME NEW T, T \subseteq Nat, T # {}
    PROVE  \E x \in T : \A y \in T : x <= y
<1> DEFINE R == OpToRel(<, Nat)
<1>1. IsWellFoundedOn(R, Nat)
  BY NatLessThanWellFounded
<1>2. \A x, y \in Nat : x < y => <<x, y>> \in R
  BY DEF OpToRel
<1> HIDE DEF R
<1>3. PICK x \in T : \A y \in T : <<y, x>> \notin R
  BY <1>1, WFMin
<1>4. \A y \in T : x <= y
  <2> TAKE y \in T
  <2>1. x \in Nat /\ y \in Nat
    OBVIOUS
  <2>2. ~(y < x)
    BY <1>2, <1>3, <2>1, Zenon
  <2> QED
    BY <2>1, <2>2
<1> QED
  BY <1>4

(* Among finite sets one has the fewest elements.                           *)
LEMMA SmallestSet ==
    ASSUME NEW W, W # {}, \A S \in W : IsFiniteSet(S)
    PROVE  \E S \in W : \A T \in W : Cardinality(S) <= Cardinality(T)
<1>. DEFINE N == {Cardinality(S) : S \in W}
<1>1. N \subseteq Nat /\ N # {}
  BY FS_CardinalityType
<1>2. PICK n \in N : \A m \in N : n <= m
  <2>. HIDE DEF N
  <2>. QED
    BY <1>1, LeastNumber
<1>. QED
  BY <1>2

(* The element that a sum takes next.                                       *)
Some(S) == CHOOSE x \in S : TRUE

(* It is an element.                                                        *)
LEMMA SomeIsIn == ASSUME NEW S, S # {} PROVE Some(S) \in S
  BY DEF Some

(* The function a sum over S is computed with: it sums every subset.        *)
SumsOver(f, S, g) ==
    g = [s \in SUBSET S |-> IF s = {} THEN 0 ELSE f[Some(s)] + g[s \ {Some(s)}]]

(* What the library defines a sum to be.                                    *)
LEMMA SumIsComputed ==
    ASSUME NEW f, NEW S
    PROVE  SumFunctionOnSet(f, S) = (CHOOSE g : SumsOver(f, S, g))[S]
  BY DEF SumFunctionOnSet, FoldFunctionOnSet, MapThenFoldSet, SumsOver, Some

(* The subsets of at most n elements can be summed if those of fewer can.   *)
LEMMA SumsExist ==
    ASSUME NEW f, NEW S, IsFiniteSet(S)
    PROVE  \E g : SumsOver(f, S, g)
<1>. DEFINE Small(n) == {s \in SUBSET S : Cardinality(s) <= n}
            SumsSmall(n, g) ==
                g = [s \in Small(n) |-> IF s = {} THEN 0
                                        ELSE f[Some(s)] + g[s \ {Some(s)}]]
            Bad == {n \in Nat : ~ \E g : SumsSmall(n, g)}
<1>1. \A s \in SUBSET S : IsFiniteSet(s) /\ Cardinality(s) \in Nat
  BY FS_Subset, FS_CardinalityType
<1>2. \E g : SumsSmall(0, g)
  <2>1. \A s \in Small(0) : s = {}
    <3>. SUFFICES ASSUME NEW s \in Small(0) PROVE s = {}
      OBVIOUS
    <3>1. Cardinality(s) = 0 /\ IsFiniteSet(s)
      BY <1>1
    <3>. QED
      BY <3>1, FS_EmptySet
  <2>. DEFINE g == [s \in Small(0) |-> 0]
  <2>2. SumsSmall(0, g)
    <3>. HIDE DEF Small
    <3>. QED
      BY <2>1
  <2>. QED
    BY <2>2
<1>3. ASSUME NEW n \in Nat, NEW g, SumsSmall(n, g)
      PROVE  \E h : SumsSmall(n + 1, h)
  <2>. DEFINE h == [s \in Small(n + 1) |-> IF s = {} THEN 0
                                           ELSE f[Some(s)] + g[s \ {Some(s)}]]
  <2>1. ASSUME NEW s \in Small(n + 1), s # {}
        PROVE  s \ {Some(s)} \in Small(n) /\ s \ {Some(s)} \in Small(n + 1)
    <3>1. Some(s) \in s /\ IsFiniteSet(s)
      BY <1>1, <2>1, SomeIsIn
    <3>2. Cardinality(s \ {Some(s)}) = Cardinality(s) - 1
      BY <3>1, FS_RemoveElement
    <3>3. s \ {Some(s)} \in SUBSET S /\ Cardinality(s) <= n + 1 /\ Cardinality(s) \in Nat
      BY <1>1
    <3>. QED
      BY <3>2, <3>3
  <2>2. \A s \in Small(n) : g[s] = IF s = {} THEN 0 ELSE f[Some(s)] + g[s \ {Some(s)}]
    <3>. HIDE DEF Small
    <3>. QED
      BY <1>3
  <2>. HIDE DEF Small
  <2>3. ASSUME NEW s \in Small(n + 1), s # {}
        PROVE  h[s \ {Some(s)}] = g[s \ {Some(s)}]
    BY <2>1, <2>2, <2>3
  <2>4. h = [s \in Small(n + 1) |-> IF s = {} THEN 0 ELSE f[Some(s)] + h[s \ {Some(s)}]]
    <3>. DEFINE k == [s \in Small(n + 1) |-> IF s = {} THEN 0
                                             ELSE f[Some(s)] + h[s \ {Some(s)}]]
    <3>1. \A s \in Small(n + 1) : h[s] = k[s]
      <4>. SUFFICES ASSUME NEW s \in Small(n + 1) PROVE h[s] = k[s]
        OBVIOUS
      <4>1. h[s] = IF s = {} THEN 0 ELSE f[Some(s)] + g[s \ {Some(s)}]
        OBVIOUS
      <4>2. k[s] = IF s = {} THEN 0 ELSE f[Some(s)] + h[s \ {Some(s)}]
        OBVIOUS
      <4>. HIDE DEF h, k
      <4>. QED
        BY <4>1, <4>2, <2>3
    <3>. QED
      BY <3>1, Zenon
  <2>. QED
    BY <2>4
<1>4. Bad = {}
  <2>. SUFFICES ASSUME Bad # {} PROVE FALSE
    OBVIOUS
  <2>. HIDE DEF SumsSmall
  <2>1. PICK n \in Bad : \A m \in Bad : n <= m
    BY LeastNumber
  <2>2. n \in Nat /\ n # 0
    BY <1>2
  <2>3. n - 1 \in Nat /\ n - 1 \notin Bad
    BY <2>1, <2>2
  <2>4. PICK g : SumsSmall(n - 1, g)
    BY <2>3
  <2>5. \E h : SumsSmall((n - 1) + 1, h)
    BY <1>3, <2>3, <2>4
  <2>6. (n - 1) + 1 = n
    BY <2>2
  <2>. QED
    BY <2>5, <2>6
<1>. DEFINE c == Cardinality(S)
<1>5. c \in Nat /\ Small(c) = SUBSET S
  BY FS_CardinalityType, FS_Subset
<1>6. PICK g : SumsSmall(c, g)
  <2>. HIDE DEF SumsSmall, c
  <2>. QED
    BY <1>4, <1>5
<1>. QED
  BY <1>5, <1>6 DEF SumsOver
(* Both functions sum the subsets that they have in common alike.           *)
LEMMA SumsAgree ==
    ASSUME NEW f, NEW S, NEW T, IsFiniteSet(S), T \subseteq S,
           NEW g, SumsOver(f, S, g), NEW h, SumsOver(f, T, h)
    PROVE  g[T] = h[T]
<1>. DEFINE Bad == {s \in SUBSET T : g[s] # h[s]}
<1>1. ASSUME NEW s \in SUBSET T
      PROVE  /\ g[s] = IF s = {} THEN 0 ELSE f[Some(s)] + g[s \ {Some(s)}]
             /\ h[s] = IF s = {} THEN 0 ELSE f[Some(s)] + h[s \ {Some(s)}]
  <2>1. s \in SUBSET S
    OBVIOUS
  <2>2. \A k : k = [u \in SUBSET S |-> IF u = {} THEN 0 ELSE f[Some(u)] + g[u \ {Some(u)}]]
          => k[s] = IF s = {} THEN 0 ELSE f[Some(s)] + g[s \ {Some(s)}]
    BY <2>1
  <2>3. \A k : k = [u \in SUBSET T |-> IF u = {} THEN 0 ELSE f[Some(u)] + h[u \ {Some(u)}]]
          => k[s] = IF s = {} THEN 0 ELSE f[Some(s)] + h[s \ {Some(s)}]
    OBVIOUS
  <2>. QED
    BY <2>2, <2>3 DEF SumsOver
<1>2. \A s \in SUBSET T : IsFiniteSet(s) /\ Cardinality(s) \in Nat
  BY FS_Subset, FS_CardinalityType
<1>3. Bad = {}
  <2>. SUFFICES ASSUME Bad # {} PROVE FALSE
    OBVIOUS
  <2>1. PICK s \in Bad : \A u \in Bad : Cardinality(s) <= Cardinality(u)
    BY <1>2, SmallestSet
  <2>2. s \in SUBSET T /\ g[s] # h[s]
    OBVIOUS
  <2>3. s # {} /\ Some(s) \in s
    BY <1>1, <2>2, SomeIsIn
  <2>4. Cardinality(s \ {Some(s)}) = Cardinality(s) - 1
    BY <1>2, <2>2, <2>3, FS_RemoveElement
  <2>5. s \ {Some(s)} \notin Bad
    <3>1. ~ (Cardinality(s) <= Cardinality(s \ {Some(s)}))
      BY <1>2, <2>2, <2>4
    <3>. QED
      BY <2>1, <3>1
  <2>6. g[s \ {Some(s)}] = h[s \ {Some(s)}]
    BY <2>2, <2>5
  <2>. QED
    BY <1>1, <2>2, <2>3, <2>6
<1>. QED
  BY <1>3

(* A sum adds the chosen element to the sum of the others.                  *)
LEMMA SumUnfolds ==
    ASSUME NEW f, NEW S, IsFiniteSet(S)
    PROVE  SumFunctionOnSet(f, S) =
              IF S = {} THEN 0
              ELSE f[Some(S)] + SumFunctionOnSet(f, S \ {Some(S)})
<1>. DEFINE T == S \ {Some(S)}
            g == CHOOSE k : SumsOver(f, S, k)
            h == CHOOSE k : SumsOver(f, T, k)
<1>1. IsFiniteSet(T) /\ T \subseteq S
  BY FS_RemoveElement
<1>2. SumsOver(f, S, g)
  BY SumsExist
<1>3. SumsOver(f, T, h)
  BY <1>1, SumsExist
<1>4. SumFunctionOnSet(f, S) = g[S] /\ SumFunctionOnSet(f, T) = h[T]
  BY SumIsComputed
<1>. HIDE DEF g, h, T
<1>5. g[T] = h[T]
  BY <1>1, <1>2, <1>3, SumsAgree
<1>6. g[S] = IF S = {} THEN 0 ELSE f[Some(S)] + g[S \ {Some(S)}]
  <2>1. \A k : k = [u \in SUBSET S |-> IF u = {} THEN 0 ELSE f[Some(u)] + g[u \ {Some(u)}]]
          => k[S] = IF S = {} THEN 0 ELSE f[Some(S)] + g[S \ {Some(S)}]
    OBVIOUS
  <2>. QED
    BY <1>2, <2>1 DEF SumsOver
<1>. QED
  BY <1>4, <1>5, <1>6 DEF T

(* A sum of numbers is a number, and any element may be taken out first.    *)
LEMMA SumTakesOut ==
    ASSUME NEW f, NEW S, IsFiniteSet(S), \A x \in S : f[x] \in Nat
    PROVE  /\ SumFunctionOnSet(f, S) \in Nat
           /\ \A x \in S : SumFunctionOnSet(f, S) =
                              f[x] + SumFunctionOnSet(f, S \ {x})
<1>. DEFINE Good(s) == /\ SumFunctionOnSet(f, s) \in Nat
                       /\ \A x \in s : SumFunctionOnSet(f, s) =
                                          f[x] + SumFunctionOnSet(f, s \ {x})
            Bad == {s \in SUBSET S : ~Good(s)}
<1>1. \A s \in SUBSET S : IsFiniteSet(s) /\ Cardinality(s) \in Nat
  BY FS_Subset, FS_CardinalityType
<1>2. Bad = {}
  <2>. SUFFICES ASSUME Bad # {} PROVE FALSE
    OBVIOUS
  <2>1. PICK s \in Bad : \A u \in Bad : Cardinality(s) <= Cardinality(u)
    <3>. HIDE DEF Good
    <3>. QED
      BY <1>1, SmallestSet
  <2>2. s \in SUBSET S /\ ~Good(s) /\ IsFiniteSet(s) /\ Cardinality(s) \in Nat
    BY <1>1, Zenon
  <2>3. ASSUME NEW x \in s PROVE Good(s \ {x})
    <3>1. Cardinality(s \ {x}) = Cardinality(s) - 1
      BY <2>2, FS_RemoveElement
    <3>2. s \ {x} \in SUBSET S /\ ~ (Cardinality(s) <= Cardinality(s \ {x}))
      BY <2>2, <3>1
    <3>. HIDE DEF Good
    <3>. QED
      BY <2>1, <3>2
  <2>4. SumFunctionOnSet(f, s) =
           IF s = {} THEN 0 ELSE f[Some(s)] + SumFunctionOnSet(f, s \ {Some(s)})
    BY <2>2, SumUnfolds
  <2>5. CASE s = {}
    BY <2>2, <2>4, <2>5
  <2>6. CASE s # {}
    <3>. DEFINE y == Some(s)
    <3>1. y \in s /\ f[y] \in Nat
      BY <2>2, <2>6, SomeIsIn
    <3>. HIDE DEF y
    <3>2. SumFunctionOnSet(f, s) = f[y] + SumFunctionOnSet(f, s \ {y})
      BY <2>4, <2>6 DEF y
    <3>3. SumFunctionOnSet(f, s \ {y}) \in Nat
      BY <2>3, <3>1
    <3>4. ASSUME NEW x \in s, x # y
          PROVE  SumFunctionOnSet(f, s) = f[x] + SumFunctionOnSet(f, s \ {x})
      <4>. DEFINE u == (s \ {y}) \ {x}
      <4>1. u = (s \ {x}) \ {y} /\ x \in s \ {y} /\ y \in s \ {x}
        BY <3>1, <3>4
      <4>2. SumFunctionOnSet(f, s \ {y}) = f[x] + SumFunctionOnSet(f, u)
        BY <2>3, <3>1, <4>1
      <4>3. SumFunctionOnSet(f, s \ {x}) = f[y] + SumFunctionOnSet(f, u)
        BY <2>3, <4>1
      <4>4. f[x] \in Nat /\ f[y] \in Nat
        BY <2>2, <3>1
      <4>5. SumFunctionOnSet(f, u) \in Nat
        <5>1. Good(s \ {x})
          BY <2>3
        <5>2. s \ {x} \in SUBSET S /\ IsFiniteSet(s \ {x})
          BY <1>1, <2>2
        <5>3. Cardinality(u) = Cardinality(s) - 2
          <6>1. Cardinality(s \ {x}) = Cardinality(s) - 1
            BY <2>2, FS_RemoveElement
          <6>2. Cardinality((s \ {x}) \ {y}) = Cardinality(s \ {x}) - 1
            BY <4>1, <5>2, FS_RemoveElement
          <6>. QED
            BY <2>2, <4>1, <6>1, <6>2
        <5>4. u \in SUBSET S /\ ~ (Cardinality(s) <= Cardinality(u))
          BY <2>2, <5>3
        <5>5. Good(u)
          <6>. HIDE DEF Good, u
          <6>. QED
            BY <2>1, <5>4
        <5>. QED
          BY <5>5
      <4>. HIDE DEF u
      <4>. QED
        BY <3>2, <4>2, <4>3, <4>4, <4>5
    <3>5. \A x \in s : SumFunctionOnSet(f, s) =
                          f[x] + SumFunctionOnSet(f, s \ {x})
      BY <3>2, <3>4
    <3>6. SumFunctionOnSet(f, s) \in Nat
      BY <3>1, <3>2, <3>3
    <3>. QED
      BY <2>2, <3>5, <3>6
  <2>. QED
    BY <2>5, <2>6
<1>3. S \in SUBSET S /\ S \notin Bad
  BY <1>2
<1>4. Good(S)
  <2>. HIDE DEF Good
  <2>. QED
    BY <1>3
<1>. QED
  BY <1>4

(* Sums over sets whose elements correspond and count the same are equal.   *)
LEMMA SumsMatch ==
    ASSUME NEW S, IsFiniteSet(S), NEW T, NEW m \in Bijection(S, T),
           NEW f, NEW g, \A x \in S : f[x] \in Nat /\ g[m[x]] = f[x]
    PROVE  SumFunctionOnSet(g, T) = SumFunctionOnSet(f, S)
<1>. DEFINE Im(s) == {m[x] : x \in s}
            Bad == {s \in SUBSET S : SumFunctionOnSet(g, Im(s)) # SumFunctionOnSet(f, s)}
<1>1. \A s \in SUBSET S : IsFiniteSet(s) /\ Cardinality(s) \in Nat
  BY FS_Subset, FS_CardinalityType
<1>2. /\ \A x, y \in S : m[x] = m[y] => x = y
      /\ Im(S) = T
  BY DEF Bijection, Injection, Surjection, IsInjective
<1>3. ASSUME NEW s \in SUBSET S
      PROVE  IsFiniteSet(Im(s)) /\ \A z \in Im(s) : g[z] \in Nat
  <2>. DEFINE h == [x \in s |-> m[x]]
  <2>1. h \in Surjection(s, Im(s))
    BY DEF Surjection
  <2>2. IsFiniteSet(Im(s))
    <3>. HIDE DEF Im, h
    <3>. QED
      BY <1>1, <2>1, FS_Surjection
  <2>. QED
    BY <2>2
<1>4. Bad = {}
  <2>. SUFFICES ASSUME Bad # {} PROVE FALSE
    OBVIOUS
  <2>1. PICK s \in Bad : \A u \in Bad : Cardinality(s) <= Cardinality(u)
    BY <1>1, SmallestSet
  <2>2. /\ s \in SUBSET S /\ IsFiniteSet(s) /\ Cardinality(s) \in Nat
        /\ SumFunctionOnSet(g, Im(s)) # SumFunctionOnSet(f, s)
    BY <1>1
  <2>3. s # {}
    <3>1. Im({}) = {}
      OBVIOUS
    <3>2. SumFunctionOnSet(g, {}) = 0 /\ SumFunctionOnSet(f, {}) = 0
      BY FS_EmptySet, SumUnfolds
    <3>. QED
      BY <2>2, <3>1, <3>2
  <2>4. PICK x \in s : TRUE
    BY <2>3
  <2>. DEFINE u == s \ {x}
  <2>5. Im(u) = Im(s) \ {m[x]} /\ m[x] \in Im(s)
    BY <1>2, <2>2, <2>4
  <2>6. SumFunctionOnSet(f, s) = f[x] + SumFunctionOnSet(f, u)
    BY <2>2, <2>4, SumTakesOut
  <2>7. SumFunctionOnSet(g, Im(s)) = g[m[x]] + SumFunctionOnSet(g, Im(u))
    <3>1. IsFiniteSet(Im(s)) /\ \A z \in Im(s) : g[z] \in Nat
      BY <1>3, <2>2
    <3>. HIDE DEF Im, u
    <3>. QED
      BY <2>5, <3>1, SumTakesOut
  <2>8. SumFunctionOnSet(g, Im(u)) = SumFunctionOnSet(f, u)
    <3>1. Cardinality(u) = Cardinality(s) - 1
      BY <2>2, <2>4, FS_RemoveElement
    <3>2. u \in SUBSET S /\ ~ (Cardinality(s) <= Cardinality(u))
      BY <2>2, <3>1
    <3>3. u \notin Bad
      BY <2>1, <3>2
    <3>. HIDE DEF Im, u
    <3>. QED
      BY <3>2, <3>3
  <2>9. g[m[x]] = f[x]
    BY <2>2, <2>4
  <2>. QED
    BY <2>2, <2>6, <2>7, <2>8, <2>9
<1>5. S \in SUBSET S /\ S \notin Bad
  BY <1>4
<1>6. SumFunctionOnSet(g, Im(S)) = SumFunctionOnSet(f, S)
  <2>. HIDE DEF Im
  <2>. QED
    BY <1>5
<1>. QED
  BY <1>2, <1>6

-----------------------------------------------------------------------------

(* Federation counts as this module does.                                   *)
LEMMA CountsAgree == \A T : Fed!Cardinality(T) = Cardinality(T)
  BY DEF Cardinality, Fed!Cardinality

(* A majority of the federators holds one that is not misled.               *)
LEMMA MajorityIsHonest ==
    ASSUME NEW V,
           Cardinality({i \in DOMAIN Federators : Federators[i] \in V})
               >= (Len(Federators) \div 2) + 1
    PROVE  \E m \in Members \ Misled : m \in V
<1>1. Range(Federators) = Members
  BY DEF Range, Members
<1>2. /\ IsFiniteSet(V \cap Members)
      /\ Cardinality({i \in DOMAIN Federators : Federators[i] \in V})
         = Cardinality(V \cap Members)
  BY <1>1, FederatorsDiffer, CountByIndex
<1>3. IsFiniteSet(Members) /\ Cardinality(Members) = Len(Federators)
  <2>1. {i \in DOMAIN Federators : Federators[i] \in Members} = 1..Len(Federators)
    BY FederatorsDiffer
  <2>2. Members \cap Members = Members
    OBVIOUS
  <2>3. Cardinality(1..Len(Federators)) = Len(Federators)
    <3>1. \A n \in Nat : Cardinality(1..n) = n
      BY FS_Interval
    <3>2. Len(Federators) \in Nat
      BY FederatorsDiffer
    <3>. QED
      BY <3>1, <3>2
  <2>4. /\ IsFiniteSet(Members \cap Members)
        /\ Cardinality({i \in DOMAIN Federators : Federators[i] \in Members})
           = Cardinality(Members \cap Members)
    BY <1>1, FederatorsDiffer, CountByIndex
  <2>. QED
    BY <2>1, <2>2, <2>3, <2>4
<1>4. IsFiniteSet(Misled) /\ Cardinality(Misled) \in Nat
  BY <1>3, MisledAreFew, FS_Subset, FS_CardinalityType
<1>5. SUFFICES ASSUME V \cap Members \subseteq Misled PROVE FALSE
  OBVIOUS
<1>6. Cardinality(V \cap Members) <= Cardinality(Misled)
  BY <1>4, <1>5, FS_Subset
<1>. DEFINE n == Len(Federators)
            k == Cardinality(V \cap Members)
            w == Cardinality(Misled)
<1>7. n \in Nat /\ k \in Nat /\ w \in Nat
  BY <1>2, <1>4, FederatorsDiffer, FS_CardinalityType
<1>8. k >= (n \div 2) + 1 /\ k <= w /\ 2 * w <= n
  BY <1>2, <1>3, <1>6, MisledAreFew
<1>. QED
  <2>. HIDE DEF n, k, w
  <2>. QED
    BY <1>7, <1>8
-----------------------------------------------------------------------------
(* The bridges *)

BridgeTypes ==
    /\ events \in [Chains -> SUBSET Events]
    /\ accepted \in [Chains -> [TxHashes -> Events \cup {NoTransfer}]]

(* An event in its own block is genuine; no step takes an event back.       *)
LEMMA EventsAreGenuine ==
    ASSUME BridgeTypes, NEW e \in AllEvents
    PROVE  e \in Events /\ IsGenuine(e)
<1>1. e \in Events
  BY DEF BridgeTypes, AllEvents
<1>2. e = [e EXCEPT !.block = e.block]
  BY <1>1, BridgeConstants
<1>. QED
  BY <1>1, <1>2 DEF IsGenuine

(* Logging adds an event and takes none back.                               *)
LEMMA LoggingKeeps ==
    ASSUME BridgeTypes, NEW f, LogsEvent(f)
    PROVE  /\ events' \in [Chains -> SUBSET Events]
           /\ AllEvents \subseteq AllEvents'
<1>1. f \in Events /\ f.origin \in Chains
  BY BridgeConstants DEF LogsEvent
<1>2. \A c \in Chains : events[c] \subseteq events'[c]
  BY <1>1 DEF LogsEvent, BridgeTypes
<1>. QED
  BY <1>1, <1>2 DEF LogsEvent, BridgeTypes, AllEvents

(* A crossing, of an original or of a side token, logs an event.            *)
LEMMA CrossLogs ==
    ASSUME NEW c, Cross(c)
    PROVE  \E f : LogsEvent(f)
<1>1. PICK amount, dest, tx, block :
         \/ \E tok \in Tokens : CrossOriginal(c, tok, amount, dest, tx, block)
         \/ \E s \in sideTokens[c] : CrossSide(c, s, amount, dest, tx, block)
  BY DEF Cross
<1>2. ASSUME NEW tok, CrossOriginal(c, tok, amount, dest, tx, block)
      PROVE  \E f : LogsEvent(f)
  BY <1>2 DEF CrossOriginal
<1>3. ASSUME NEW s, CrossSide(c, s, amount, dest, tx, block)
      PROVE  \E f : LogsEvent(f)
  BY <1>3 DEF CrossSide
<1>. QED
  BY <1>1, <1>2, <1>3

(* It accepts and claims nothing.                                           *)
LEMMA CrossAcceptsNothing ==
    ASSUME NEW c, Cross(c)
    PROVE  accepted' = accepted /\ claimed' = claimed
<1>1. PICK amount, dest, tx, block :
         \/ \E tok \in Tokens : CrossOriginal(c, tok, amount, dest, tx, block)
         \/ \E s \in sideTokens[c] : CrossSide(c, s, amount, dest, tx, block)
  BY DEF Cross
<1>2. ASSUME NEW tok, CrossOriginal(c, tok, amount, dest, tx, block)
      PROVE  UNCHANGED acceptVars
  BY <1>2 DEF CrossOriginal
<1>3. ASSUME NEW s, CrossSide(c, s, amount, dest, tx, block)
      PROVE  UNCHANGED acceptVars
  BY <1>3 DEF CrossSide
<1>4. UNCHANGED acceptVars
  BY <1>1, <1>2, <1>3
<1>. QED
  BY <1>4 DEF acceptVars

(* So all that a crossing changes of events and slots is that event.        *)
LEMMA CrossKeeps ==
    ASSUME BridgeTypes, NEW c \in Chains, Cross(c)
    PROVE  /\ accepted' = accepted
           /\ events' \in [Chains -> SUBSET Events]
           /\ AllEvents \subseteq AllEvents'
<1>1. PICK f : LogsEvent(f)
  BY CrossLogs
<1>2. accepted' = accepted
  BY CrossAcceptsNothing
<1>. QED
  BY <1>1, <1>2, LoggingKeeps

(* An event that is moved to another block is still genuine under the old.  *)
LEMMA ReorganisationKeeps ==
    ASSUME BridgeTypes, NEW c \in Chains, Reorganisation(c)
    PROVE  /\ accepted' = accepted
           /\ events' \in [Chains -> SUBSET Events]
           /\ \A e \in Events : IsGenuine(e) => IsGenuine(e)'
<1>1. PICK tx \in TxHashes, block \in Blocks : Reorganise(c, tx, block)
  BY DEF Reorganisation
<1>. DEFINE Moved(f) == IF f.tx = tx THEN [f EXCEPT !.block = block] ELSE f
<1>2. /\ events' = [events EXCEPT ![c] = {Moved(f) : f \in @}]
      /\ events'[c] \subseteq Events
  BY <1>1 DEF Reorganise
<1>3. events' \in [Chains -> SUBSET Events]
  BY <1>2 DEF BridgeTypes
<1>4. \A f \in AllEvents : f \in AllEvents' \/ Moved(f) \in AllEvents'
  BY <1>2 DEF AllEvents, BridgeTypes
<1>5. ASSUME NEW e \in Events, NEW f \in AllEvents, e = [f EXCEPT !.block = e.block]
      PROVE  e = [Moved(f) EXCEPT !.block = e.block]
  <2>1. f \in Events
    BY DEF AllEvents, BridgeTypes
  <2>. QED
    BY <1>5, <2>1, BridgeConstants
<1>6. \A e \in Events : IsGenuine(e) => IsGenuine(e)'
  BY <1>4, <1>5 DEF IsGenuine
<1>7. accepted' = accepted
  BY <1>1 DEF Reorganise, acceptVars
<1>. QED
  BY <1>3, <1>6, <1>7

-----------------------------------------------------------------------------
(* The bridges: claims *)

SameTx(tx) == {e \in AllEvents : e.tx = tx}

(* The events of a transaction are on one chain, in one block and in order. *)
EventsInv ==
    /\ \A c \in Chains : \A e \in events[c] : e.origin = c
    /\ \A e, f \in AllEvents : SameCrossing(e, f) => e = f
    /\ \A tx \in TxHashes :
          /\ IsFiniteSet(SameTx(tx))
          /\ \A e, f \in SameTx(tx) : e.origin = f.origin
          /\ \A e \in SameTx(tx) : e.log <= Cardinality(SameTx(tx))

(* The events as they are, or were before a reorganisation.                 *)
Versions == {e \in Events : IsGenuine(e)}

(* A slot holds a genuine event of its transaction, and what was claimed    *)
(* stays in its slot.                                                       *)
SlotsInv ==
    \A c \in Chains :
        /\ \A tx \in TxHashes :
              accepted[c][tx] # NoTransfer =>
                  accepted[c][tx].tx = tx /\ accepted[c][tx] \in Versions
        /\ \A h \in claimed[c] :
              /\ h.tx \in TxHashes
              /\ accepted[c][h.tx] # NoTransfer
              /\ h = DataHash(accepted[c][h.tx])
              /\ h.dest = c

ClaimInv ==
    /\ BridgeTypes
    /\ claimed \in [Chains -> SUBSET {DataHash(e) : e \in Events}]
    /\ EventsInv
    /\ SlotsInv

(* New bridges have no events, no slots filled and no claims.               *)
LEMMA ClaimInitInv == Init => ClaimInv
<1>. SUFFICES ASSUME Init PROVE ClaimInv
  OBVIOUS
<1>1. AllEvents = {}
  BY DEF Init, AllEvents
<1>2. EventsInv
  BY <1>1, FS_EmptySet DEF Init, EventsInv, SameTx
<1>. QED
  BY <1>2 DEF Init, ClaimInv, BridgeTypes, SlotsInv

(* An event that is logged is a new one, the last of its transaction.       *)
LEMMA LoggingKeepsOrder ==
    ASSUME ClaimInv, NEW e, LogsEvent(e)
    PROVE  EventsInv'
<1>1. e \in Events /\ e.origin \in Chains /\ e.tx \in TxHashes /\ e.log \in Nat
  BY BridgeConstants DEF LogsEvent
<1>2. /\ e.log = Cardinality(SameTx(e.tx)) + 1
      /\ \A f \in SameTx(e.tx) : f.origin = e.origin
  BY DEF LogsEvent, SameTx
<1>3. AllEvents' = AllEvents \cup {e}
  BY <1>1 DEF LogsEvent, AllEvents, ClaimInv, BridgeTypes
<1>4. \A tx \in TxHashes : IsFiniteSet(SameTx(tx)) /\ Cardinality(SameTx(tx)) \in Nat
  BY FS_CardinalityType DEF ClaimInv, EventsInv
<1>5. \A f \in AllEvents : f.log \in Nat /\ f.tx \in TxHashes
  BY BridgeConstants DEF AllEvents, ClaimInv, BridgeTypes
<1>6. \A f \in SameTx(e.tx) : f.log < e.log
  <2>. SUFFICES ASSUME NEW f \in SameTx(e.tx) PROVE f.log < e.log
    OBVIOUS
  <2>1. f.log \in Nat
    BY <1>5 DEF SameTx
  <2>2. f.log <= Cardinality(SameTx(e.tx))
    BY <1>1 DEF ClaimInv, EventsInv
  <2>. QED
    BY <1>1, <1>2, <1>4, <2>1, <2>2
<1>7. SameTx(e.tx)' = SameTx(e.tx) \cup {e} /\ e \notin SameTx(e.tx)
  BY <1>1, <1>3, <1>6 DEF SameTx
<1>8. \A tx \in TxHashes : tx # e.tx => SameTx(tx)' = SameTx(tx)
  BY <1>3 DEF SameTx
<1>9. /\ IsFiniteSet(SameTx(e.tx)')
      /\ Cardinality(SameTx(e.tx)') = Cardinality(SameTx(e.tx)) + 1
  BY <1>1, <1>4, <1>7, FS_AddElement
<1>10. \A c \in Chains : \A f \in events'[c] : f.origin = c
  BY <1>1 DEF LogsEvent, ClaimInv, BridgeTypes, EventsInv
<1>11. \A f, g \in AllEvents' : SameCrossing(f, g) => f = g
  BY <1>3, <1>5, <1>6 DEF ClaimInv, EventsInv, SameCrossing, SameTx
<1>12. ASSUME NEW tx \in TxHashes
       PROVE  /\ IsFiniteSet(SameTx(tx)')
              /\ \A f, g \in SameTx(tx)' : f.origin = g.origin
              /\ \A f \in SameTx(tx)' : f.log <= Cardinality(SameTx(tx)')
  <2>1. CASE tx = e.tx
    <3>1. \A f \in SameTx(tx)' : f = e \/ f \in SameTx(tx)
      BY <1>7, <2>1
    <3>2. \A f \in SameTx(tx)' : f.log <= Cardinality(SameTx(tx)')
      BY <1>1, <1>2, <1>4, <1>5, <1>6, <1>9, <2>1, <3>1 DEF SameTx
    <3>3. \A f, g \in SameTx(tx)' : f.origin = g.origin
      BY <1>2, <2>1, <3>1
    <3>. QED
      BY <1>9, <2>1, <3>2, <3>3
  <2>2. CASE tx # e.tx
    BY <1>8, <2>2 DEF ClaimInv, EventsInv
  <2>. QED
    BY <2>1, <2>2
<1>. QED
  BY <1>10, <1>11, <1>12 DEF EventsInv

(* A reorganisation changes the block of all the events of a transaction.   *)
LEMMA ReorganisationKeepsOrder ==
    ASSUME ClaimInv, NEW c \in Chains, Reorganisation(c)
    PROVE  EventsInv'
<1>1. PICK tx \in TxHashes, block \in Blocks : Reorganise(c, tx, block)
  BY DEF Reorganisation
<1>. DEFINE Moved(f) == IF f.tx = tx THEN [f EXCEPT !.block = block] ELSE f
<1>2. /\ events' = [events EXCEPT ![c] = {Moved(f) : f \in @}]
      /\ \E e \in events[c] : e.tx = tx
  BY <1>1 DEF Reorganise
<1>3. \A f \in AllEvents : /\ f \in Events
                           /\ Moved(f).tx = f.tx /\ Moved(f).log = f.log
                           /\ Moved(f).origin = f.origin
  BY BridgeConstants DEF AllEvents, ClaimInv, BridgeTypes
<1>4. \A d \in Chains : \A f \in events[d] : d # c => Moved(f) = f
  <2>. SUFFICES ASSUME NEW d \in Chains, NEW f \in events[d], f.tx = tx
                PROVE  d = c
    OBVIOUS
  <2>1. PICK e \in events[c] : e.tx = tx
    BY <1>2
  <2>2. e \in SameTx(tx) /\ f \in SameTx(tx)
    BY <2>1 DEF SameTx, AllEvents
  <2>3. e.origin = f.origin
    BY <2>2 DEF ClaimInv, EventsInv
  <2>. QED
    BY <2>3 DEF ClaimInv, EventsInv
<1>5. \A d \in Chains : events'[d] = {Moved(f) : f \in events[d]}
  BY <1>2, <1>4 DEF ClaimInv, BridgeTypes
<1>6. AllEvents' = {Moved(f) : f \in AllEvents}
  BY <1>5 DEF AllEvents
<1>. HIDE DEF Moved
<1>7. \A d \in Chains : \A e \in events'[d] : e.origin = d
  <2>. SUFFICES ASSUME NEW d \in Chains, NEW f \in events[d]
                PROVE  Moved(f).origin = d
    BY <1>5
  <2>. QED
    BY <1>3 DEF AllEvents, ClaimInv, EventsInv
<1>8. ASSUME NEW e \in AllEvents', NEW f \in AllEvents', SameCrossing(e, f)
      PROVE  e = f
  BY <1>3, <1>6, <1>8 DEF SameCrossing, ClaimInv, EventsInv
<1>9. ASSUME NEW x \in TxHashes
      PROVE  /\ IsFiniteSet(SameTx(x)')
             /\ \A e, f \in SameTx(x)' : e.origin = f.origin
             /\ \A e \in SameTx(x)' : e.log <= Cardinality(SameTx(x)')
  <2>. DEFINE S == SameTx(x)
              T == {Moved(f) : f \in S}
              m == [f \in S |-> Moved(f)]
  <2>1. SameTx(x)' = T
    BY <1>3, <1>6 DEF SameTx
  <2>2. S \subseteq AllEvents
    BY DEF SameTx
  <2>3. \A e, f \in S : Moved(e) = Moved(f) => e = f
    BY <1>3, <2>2 DEF SameCrossing, ClaimInv, EventsInv
  <2>4. m \in Bijection(S, T)
    BY <2>3 DEF Bijection, Injection, Surjection, IsInjective
  <2>5. ExistsBijection(S, T)
    BY <2>4 DEF ExistsBijection
  <2>6. IsFiniteSet(S)
    BY DEF ClaimInv, EventsInv
  <2>7. IsFiniteSet(T) /\ Cardinality(T) = Cardinality(S)
    BY <2>5, <2>6, FS_Bijection
  <2>8. \A f \in S : f.log <= Cardinality(S) /\ \A e \in S : e.origin = f.origin
    BY DEF ClaimInv, EventsInv
  <2>9. \A f \in S : Moved(f).log = f.log /\ Moved(f).origin = f.origin
    BY <1>3, <2>2
  <2>10. \A e, f \in S : Moved(e).origin = Moved(f).origin /\ Moved(e).log <= Cardinality(T)
    BY <2>7, <2>8, <2>9
  <2>11. \A y \in T : \E f \in S : y = Moved(f)
    OBVIOUS
  <2>. HIDE DEF S, T
  <2>12. \A y, z \in T : y.origin = z.origin /\ y.log <= Cardinality(T)
    BY <2>10, <2>11
  <2>. QED
    BY <2>1, <2>7, <2>12
<1>. QED
  BY <1>7, <1>8, <1>9 DEF EventsInv

(* Order and versions depend on nothing but the events.                     *)
LEMMA EventsStay ==
    ASSUME events' = events
    PROVE  (EventsInv => EventsInv') /\ Versions' = Versions
<1>1. AllEvents' = AllEvents
  BY DEF AllEvents
<1>2. \A tx : SameTx(tx)' = SameTx(tx)
  BY <1>1 DEF SameTx
<1>3. \A e : IsGenuine(e)' <=> IsGenuine(e)
  BY <1>1 DEF IsGenuine
<1>. QED
  BY <1>1, <1>2, <1>3 DEF EventsInv, Versions

(* Steps that touch no slot and no claim keep the slots genuine.            *)
LEMMA SlotsStay ==
    ASSUME ClaimInv, accepted' = accepted, claimed' = claimed,
           \A e \in Events : IsGenuine(e) => IsGenuine(e)'
    PROVE  SlotsInv'
<1>1. Versions \subseteq Versions'
  BY DEF Versions
<1>. QED
  BY <1>1 DEF ClaimInv, SlotsInv

(* The slot that is filled was empty, so no claim stands in it.             *)
LEMMA RelayKeepsSlots ==
    ASSUME ClaimInv, NEW c \in Chains, NEW e \in Events, IsGenuine(e),
           AcceptTransfer(c, e)
    PROVE  ClaimInv'
<1>1. /\ accepted[c][e.tx] = NoTransfer
      /\ accepted' = [accepted EXCEPT ![c][e.tx] = e]
      /\ events' = events /\ claimed' = claimed
  BY DEF AcceptTransfer, CanAccept
<1>2. e.tx \in TxHashes
  BY BridgeConstants
<1>3. BridgeTypes' /\ EventsInv'
  BY <1>1, <1>2, EventsStay DEF ClaimInv, BridgeTypes
<1>4. Versions' = Versions /\ e \in Versions
  BY <1>1, EventsStay DEF Versions
<1>5. \A d \in Chains, tx \in TxHashes :
         IF d = c /\ tx = e.tx THEN accepted'[d][tx] = e
                               ELSE accepted'[d][tx] = accepted[d][tx]
  BY <1>1, <1>2 DEF ClaimInv, BridgeTypes
<1>6. ASSUME NEW d \in Chains, NEW tx \in TxHashes, accepted'[d][tx] # NoTransfer
      PROVE  accepted'[d][tx].tx = tx /\ accepted'[d][tx] \in Versions'
  <2>1. CASE d = c /\ tx = e.tx
    <3>1. accepted'[d][tx] = e
      BY <1>5, <2>1
    <3>. QED
      BY <1>4, <2>1, <3>1
  <2>2. CASE ~(d = c /\ tx = e.tx)
    <3>1. accepted'[d][tx] = accepted[d][tx]
      BY <1>5, <2>2
    <3>2. accepted[d][tx].tx = tx /\ accepted[d][tx] \in Versions
      BY <1>6, <3>1 DEF ClaimInv, SlotsInv
    <3>. QED
      BY <1>4, <3>1, <3>2
  <2>. QED
    BY <2>1, <2>2
<1>7. ASSUME NEW d \in Chains, NEW h \in claimed[d]
      PROVE  /\ h.tx \in TxHashes
             /\ accepted'[d][h.tx] # NoTransfer
             /\ h = DataHash(accepted'[d][h.tx])
             /\ h.dest = d
  <2>1. /\ h.tx \in TxHashes
        /\ accepted[d][h.tx] # NoTransfer
        /\ h = DataHash(accepted[d][h.tx])
        /\ h.dest = d
    BY DEF ClaimInv, SlotsInv
  <2>2. accepted'[d][h.tx] = accepted[d][h.tx]
    BY <1>1, <1>5, <2>1
  <2>. QED
    BY <2>1, <2>2
<1>8. SlotsInv'
  BY <1>1, <1>6, <1>7 DEF SlotsInv
<1>. QED
  BY <1>1, <1>3, <1>8 DEF ClaimInv

(* What is claimed is the hash of what the slot of its transaction holds.   *)
LEMMA ClaimKeepsSlots ==
    ASSUME ClaimInv, NEW c \in Chains, Claim(c)
    PROVE  ClaimInv'
<1>1. PICK tx \in TxHashes, fee \in RelayerFees :
         ClaimOriginal(c, tx, fee) \/ ClaimSide(c, tx, fee)
  BY DEF Claim
<1>. DEFINE e == accepted[c][tx]
<1>2. /\ CanClaim(c, tx)
      /\ claimed' = [claimed EXCEPT ![c] = @ \cup {DataHash(e)}]
      /\ accepted' = accepted /\ events' = events
  BY <1>1 DEF ClaimOriginal, ClaimSide
<1>3. e # NoTransfer /\ e.dest = c /\ e \in Events /\ e.tx = tx
  BY <1>2 DEF CanClaim, ClaimInv, BridgeTypes, SlotsInv
<1>4. BridgeTypes' /\ EventsInv'
  BY <1>2, EventsStay DEF ClaimInv, BridgeTypes
<1>5. claimed' \in [Chains -> SUBSET {DataHash(f) : f \in Events}]
  BY <1>2, <1>3 DEF ClaimInv
<1>6. DataHash(e).tx = tx /\ DataHash(e).dest = c
  BY <1>3 DEF DataHash
<1>7. ASSUME NEW d \in Chains, NEW h \in claimed'[d]
      PROVE  /\ h.tx \in TxHashes
             /\ accepted[d][h.tx] # NoTransfer
             /\ h = DataHash(accepted[d][h.tx])
             /\ h.dest = d
  <2>1. CASE h \in claimed[d]
    BY <2>1 DEF ClaimInv, SlotsInv
  <2>2. CASE h \notin claimed[d]
    <3>1. d = c /\ h = DataHash(e)
      BY <1>2, <2>2 DEF ClaimInv
    <3>. QED
      BY <1>3, <1>6, <3>1
  <2>. QED
    BY <2>1, <2>2
<1>8. SlotsInv'
  BY <1>2, <1>7, EventsStay DEF ClaimInv, SlotsInv
<1>. QED
  BY <1>4, <1>5, <1>8 DEF ClaimInv

(* Every step keeps events in order and slots genuine.                      *)
LEMMA ClaimStep == ASSUME ClaimInv, [Next]_bridgeVars PROVE ClaimInv'
<1>1. ASSUME NEW c \in Chains, Cross(c)
      PROVE  ClaimInv'
  <2>1. PICK f : LogsEvent(f)
    BY <1>1, CrossLogs
  <2>2. /\ accepted' = accepted
        /\ events' \in [Chains -> SUBSET Events]
        /\ AllEvents \subseteq AllEvents'
    BY <1>1, CrossKeeps DEF ClaimInv
  <2>3. claimed' = claimed
    BY <1>1, CrossAcceptsNothing
  <2>4. SlotsInv'
    BY <2>2, <2>3, SlotsStay DEF IsGenuine
  <2>. QED
    BY <2>1, <2>2, <2>3, <2>4, LoggingKeepsOrder DEF ClaimInv, BridgeTypes
<1>2. ASSUME NEW c \in Chains, Reorganisation(c)
      PROVE  ClaimInv'
  <2>1. /\ accepted' = accepted
        /\ events' \in [Chains -> SUBSET Events]
        /\ \A e \in Events : IsGenuine(e) => IsGenuine(e)'
    BY <1>2, ReorganisationKeeps DEF ClaimInv
  <2>2. claimed' = claimed
    BY <1>2 DEF Reorganisation, Reorganise, acceptVars
  <2>3. SlotsInv'
    BY <2>1, <2>2, SlotsStay
  <2>. QED
    BY <1>2, <2>1, <2>2, <2>3, ReorganisationKeepsOrder DEF ClaimInv, BridgeTypes
<1>3. ASSUME NEW c \in Chains, Relay(c)
      PROVE  ClaimInv'
  BY <1>3, RelayKeepsSlots DEF Relay
<1>4. CASE accepted' = accepted /\ claimed' = claimed /\ events' = events
  BY <1>4, EventsStay DEF ClaimInv, BridgeTypes, SlotsInv
<1>5. ASSUME NEW c \in Chains, Administer(c) \/ SetKnownToken(c)
      PROVE  accepted' = accepted /\ claimed' = claimed /\ events' = events
  BY <1>5 DEF Administer, NewSideToken, CreateSideToken, SetKnownToken,
              SetKnownTokenByChain, SetPaused, SetUpgrading, SetFeePercentage,
              acceptVars
<1>6. CASE UNCHANGED bridgeVars
  BY <1>4, <1>6 DEF bridgeVars
<1>. QED
  BY <1>1, <1>2, <1>3, <1>4, <1>5, <1>6, ClaimKeepsSlots DEF Next

(* One transaction, hence one slot per crossing and chain, and one          *)
(* destination: so one claim.                                               *)
LEMMA ClaimsAreUnique == ClaimInv => ClaimedOnceAtDestination
<1>. SUFFICES ASSUME ClaimInv PROVE ClaimedOnceAtDestination
  OBVIOUS
<1>1. ASSUME NEW c \in Chains, NEW h \in claimed[c]
      PROVE  \E f \in AllEvents :
                SameCrossing(f, h) /\ f.dest = h.dest /\ h.dest = c
                                   /\ f.origin = h.origin /\ f.amount = h.amount
  <2>. DEFINE e == accepted[c][h.tx]
  <2>1. e # NoTransfer /\ h = DataHash(e) /\ h.dest = c /\ h.tx \in TxHashes
    BY DEF ClaimInv, SlotsInv
  <2>2. e \in Events /\ IsGenuine(e)
    BY <2>1 DEF ClaimInv, SlotsInv, Versions
  <2>3. PICK f \in AllEvents : e = [f EXCEPT !.block = e.block]
    BY <2>2 DEF IsGenuine
  <2>4. f \in Events
    BY DEF ClaimInv, BridgeTypes, AllEvents
  <2>5. /\ e.tx = f.tx /\ e.log = f.log /\ e.dest = f.dest
        /\ e.origin = f.origin /\ e.amount = f.amount
    BY <2>3, <2>4, BridgeConstants
  <2>. QED
    BY <2>1, <2>5 DEF DataHash, SameCrossing
<1>2. ASSUME NEW c \in Chains, NEW h \in claimed[c],
             NEW d \in Chains, NEW g \in claimed[d], SameCrossing(g, h)
      PROVE  g = h /\ d = c
  <2>1. PICK f \in AllEvents : SameCrossing(f, h) /\ f.dest = h.dest /\ h.dest = c
    BY <1>1
  <2>2. PICK k \in AllEvents : SameCrossing(k, g) /\ k.dest = g.dest /\ g.dest = d
    BY <1>1
  <2>3. f = k
    BY <1>2, <2>1, <2>2 DEF ClaimInv, EventsInv, SameCrossing
  <2>4. d = c
    BY <2>1, <2>2, <2>3
  <2>5. h = DataHash(accepted[c][h.tx]) /\ g = DataHash(accepted[d][g.tx])
    BY DEF ClaimInv, SlotsInv
  <2>. QED
    BY <1>2, <2>4, <2>5 DEF SameCrossing
<1>. QED
  BY <1>1, <1>2 DEF ClaimedOnceAtDestination

(* Whatever users, owners, federations and reorganisations do, on any       *)
(* number of chains, no crossing is claimed twice, in another amount, or    *)
(* where it was not sent (_claim and acceptTransfer of Bridge).             *)
THEOREM ClaimedOnceCorrect == Spec => []ClaimedOnceAtDestination
  BY ClaimInitInv, ClaimStep, ClaimsAreUnique, PTL DEF Spec

-----------------------------------------------------------------------------
(* The bridges: the life of a crossing *)

(* A crossing is claimed only where it is accepted, accepted only where it  *)
(* was sent, and sent to one chain.                                         *)
LEMMA StagesNest ==
    ASSUME ClaimInv, NEW id \in Crossings
    PROVE  /\ ClaimedOn(id) \subseteq AcceptedOn(id)
           /\ AcceptedOn(id) \subseteq SentTo(id)
           /\ SentTo(id) \subseteq Chains
           /\ \A c, d \in SentTo(id) : c = d
<1>1. id[1] \in TxHashes
  BY DEF Crossings
<1>2. ASSUME NEW c \in ClaimedOn(id)
      PROVE  c \in AcceptedOn(id)
  <2>1. PICK h \in claimed[c] : IsOf(id, h)
    BY DEF ClaimedOn
  <2>2. /\ h.tx = id[1] /\ h.log = id[2]
        /\ accepted[c][h.tx] # NoTransfer
        /\ h = DataHash(accepted[c][h.tx]) /\ h.dest = c
    BY <2>1 DEF ClaimedOn, IsOf, ClaimInv, SlotsInv
  <2>. QED
    BY <2>2 DEF ClaimedOn, AcceptedOn, DataHash, IsOf
<1>3. ASSUME NEW c \in AcceptedOn(id)
      PROVE  c \in SentTo(id)
  <2>. DEFINE e == accepted[c][id[1]]
  <2>1. e # NoTransfer /\ e.dest = c /\ IsOf(id, e)
    BY DEF AcceptedOn
  <2>2. e \in Events /\ IsGenuine(e)
    BY <1>1, <2>1 DEF AcceptedOn, ClaimInv, SlotsInv, Versions
  <2>3. PICK f \in AllEvents : e = [f EXCEPT !.block = e.block]
    BY <2>2 DEF IsGenuine
  <2>4. f.tx = e.tx /\ f.log = e.log /\ f.dest = e.dest
    BY <2>3, BridgeConstants DEF AllEvents, ClaimInv, BridgeTypes
  <2>. QED
    BY <2>1, <2>4 DEF SentTo, IsOf
<1>4. SentTo(id) \subseteq Chains
  BY BridgeConstants DEF SentTo, AllEvents, ClaimInv, BridgeTypes
<1>5. \A c, d \in SentTo(id) : c = d
  BY DEF SentTo, IsOf, ClaimInv, EventsInv, SameCrossing
<1>. QED
  BY <1>2, <1>3, <1>4, <1>5

SameStage(id) ==
    /\ ClaimedOn(id)' = ClaimedOn(id)
    /\ AcceptedOn(id)' = AcceptedOn(id)
    /\ SentTo(id)' = SentTo(id)

(* Stages are those of the three sets.                                      *)
LEMMA StagesStay ==
    ASSUME \A id \in Crossings : SameStage(id)
    PROVE  UNCHANGED [id \in Crossings |-> StageOf(id)]
  BY DEF SameStage, StageOf

(* One crossing moves on by one stage, on one chain.                        *)
LEMMA StageMoves ==
    ASSUME NEW x \in Crossings, NEW c \in Chains,
           \A id \in Crossings : id # x => SameStage(id),
           \/ /\ StageOf(x).at = "none"
              /\ StageOf(x)' = Promise!Stage("sent", c)
           \/ /\ StageOf(x) = Promise!Stage("sent", c)
              /\ StageOf(x)' = Promise!Stage("accepted", c)
           \/ /\ StageOf(x) = Promise!Stage("accepted", c)
              /\ StageOf(x)' = Promise!Stage("claimed", c)
    PROVE  Promise!Next
<1>1. \A id \in Crossings : id # x => StageOf(id)' = StageOf(id)
  BY DEF SameStage, StageOf
<1>2. [id \in Crossings |-> StageOf(id)]' =
         [[id \in Crossings |-> StageOf(id)] EXCEPT ![x] = StageOf(x)']
  BY <1>1
<1>. QED
  BY <1>2 DEF Promise!Next, Promise!Send, Promise!Accept, Promise!Claim

(* A new event is of a crossing that nobody sent before.                    *)
LEMMA CrossSends ==
    ASSUME ClaimInv, NEW c \in Chains, Cross(c)
    PROVE  Promise!Next
<1>1. PICK e : LogsEvent(e) /\ e.log \in {1, 2}
  <2>1. PICK amount, dest, tx, block :
           \/ \E tok \in Tokens : CrossOriginal(c, tok, amount, dest, tx, block)
           \/ \E s \in sideTokens[c] : CrossSide(c, s, amount, dest, tx, block)
    BY DEF Cross
  <2>2. ASSUME NEW tok, CrossOriginal(c, tok, amount, dest, tx, block)
        PROVE  \E e : LogsEvent(e) /\ e.log \in {1, 2}
    BY <2>2 DEF CrossOriginal
  <2>3. ASSUME NEW s, CrossSide(c, s, amount, dest, tx, block)
        PROVE  \E e : LogsEvent(e) /\ e.log \in {1, 2}
    BY <2>3 DEF CrossSide
  <2>. QED
    BY <2>1, <2>2, <2>3
<1>. DEFINE x == <<e.tx, e.log>>
<1>2. /\ e \in Events /\ e.origin \in Chains /\ e.dest \in Chains
      /\ e.tx \in TxHashes /\ x \in Crossings
  BY <1>1, BridgeConstants DEF LogsEvent, Crossings
<1>3. AllEvents' = AllEvents \cup {e}
  BY <1>1, <1>2 DEF LogsEvent, AllEvents, ClaimInv, BridgeTypes
<1>4. accepted' = accepted /\ claimed' = claimed
  BY CrossAcceptsNothing
<1>5. \A f \in AllEvents : ~IsOf(x, f)
  <2>. SUFFICES ASSUME NEW f \in AllEvents, f.tx = e.tx, f.log = e.log
                PROVE  FALSE
    BY DEF IsOf
  <2>1. f \in SameTx(e.tx)
    BY DEF SameTx
  <2>2. e.log = Cardinality(SameTx(e.tx)) + 1 /\ Cardinality(SameTx(e.tx)) \in Nat
    BY <1>1, <1>2, FS_CardinalityType DEF LogsEvent, SameTx, ClaimInv, EventsInv
  <2>3. f.log <= Cardinality(SameTx(e.tx))
    BY <1>2, <2>1 DEF ClaimInv, EventsInv
  <2>. QED
    BY <2>2, <2>3
<1>6. SentTo(x) = {} /\ AcceptedOn(x) = {} /\ ClaimedOn(x) = {}
  BY <1>2, <1>5, StagesNest DEF SentTo
<1>7. \A id : AcceptedOn(id)' = AcceptedOn(id) /\ ClaimedOn(id)' = ClaimedOn(id)
  BY <1>4 DEF AcceptedOn, ClaimedOn
<1>8. SentTo(x)' = {e.dest}
  BY <1>3, <1>5 DEF SentTo, IsOf
<1>9. \A id \in Crossings : id # x => SentTo(id)' = SentTo(id)
  BY <1>3 DEF SentTo, IsOf, Crossings
<1>10. /\ StageOf(x).at = "none"
       /\ StageOf(x)' = Promise!Stage("sent", e.dest)
  BY <1>6, <1>7, <1>8 DEF StageOf, Promise!Stage
<1>. QED
  BY <1>2, <1>7, <1>9, <1>10, StageMoves DEF SameStage

(* The slot was empty, so the crossing was neither accepted nor claimed. If *)
(* it was sent elsewhere, it does not count as accepted.                    *)
LEMMA RelayAccepts ==
    ASSUME ClaimInv, NEW c \in Chains, NEW e \in Events, IsGenuine(e),
           AcceptTransfer(c, e)
    PROVE  \/ Promise!Next
           \/ UNCHANGED [id \in Crossings |-> StageOf(id)]
<1>. DEFINE x == <<e.tx, e.log>>
<1>1. /\ accepted[c][e.tx] = NoTransfer /\ e # NoTransfer
      /\ accepted' = [accepted EXCEPT ![c][e.tx] = e]
      /\ events' = events /\ claimed' = claimed
  BY BridgeConstants DEF AcceptTransfer, CanAccept
<1>2. \A id : SentTo(id)' = SentTo(id) /\ ClaimedOn(id)' = ClaimedOn(id)
  BY <1>1 DEF SentTo, ClaimedOn, AllEvents
<1>3. e.tx \in TxHashes
  BY BridgeConstants
<1>4. \A d \in Chains, tx \in TxHashes :
         IF d = c /\ tx = e.tx THEN accepted'[d][tx] = e
                               ELSE accepted'[d][tx] = accepted[d][tx]
  BY <1>1, <1>3 DEF ClaimInv, BridgeTypes
<1>5. ASSUME NEW id \in Crossings, id # x \/ e.dest # c
      PROVE  AcceptedOn(id)' = AcceptedOn(id)
  <2>1. id[1] \in TxHashes
    BY DEF Crossings
  <2>2. CASE id[1] # e.tx
    BY <1>4, <2>1, <2>2 DEF AcceptedOn, IsOf
  <2>3. CASE id[1] = e.tx
    <3>1. ~(e.dest = c /\ IsOf(id, e))
      BY <1>5 DEF IsOf, Crossings
    <3>. QED
      BY <1>1, <1>4, <2>1, <2>3, <3>1 DEF AcceptedOn
  <2>. QED
    BY <2>2, <2>3
<1>6. CASE e.dest # c \/ x \notin Crossings
  BY <1>2, <1>5, <1>6, StagesStay DEF SameStage
<1>7. CASE e.dest = c /\ x \in Crossings
  <2>1. PICK f \in AllEvents : e = [f EXCEPT !.block = e.block]
    BY DEF IsGenuine
  <2>2. f.tx = e.tx /\ f.log = e.log /\ f.dest = c
    BY <1>7, <2>1, BridgeConstants DEF AllEvents, ClaimInv, BridgeTypes
  <2>3. SentTo(x) = {c}
    <3>1. c \in SentTo(x)
      BY <2>2 DEF SentTo, IsOf
    <3>. QED
      BY <1>7, <3>1, StagesNest
  <2>4. AcceptedOn(x) = {} /\ ClaimedOn(x) = {}
    <3>1. c \notin AcceptedOn(x)
      BY <1>1 DEF AcceptedOn
    <3>. QED
      BY <1>7, <2>3, <3>1, StagesNest
  <2>5. AcceptedOn(x)' = {c}
    <3>1. \A d \in Chains : d # c => accepted'[d][e.tx] = accepted[d][e.tx]
      BY <1>3, <1>4
    <3>2. accepted'[c][e.tx] = e
      BY <1>3, <1>4
    <3>. QED
      BY <1>1, <1>7, <2>4, <3>1, <3>2 DEF AcceptedOn, IsOf
  <2>6. /\ StageOf(x) = Promise!Stage("sent", c)
        /\ StageOf(x)' = Promise!Stage("accepted", c)
    BY <1>2, <2>3, <2>4, <2>5 DEF StageOf, Promise!Stage
  <2>. QED
    BY <1>2, <1>5, <1>7, <2>6, StageMoves DEF SameStage
<1>. QED
  BY <1>6, <1>7

(* What is claimed stands in a slot at its destination and was not claimed. *)
LEMMA ClaimClaims ==
    ASSUME ClaimInv, NEW c \in Chains, Claim(c)
    PROVE  \/ Promise!Next
           \/ UNCHANGED [id \in Crossings |-> StageOf(id)]
<1>1. PICK tx \in TxHashes, fee \in RelayerFees :
         ClaimOriginal(c, tx, fee) \/ ClaimSide(c, tx, fee)
  BY DEF Claim
<1>. PICK e : e = accepted[c][tx]
  OBVIOUS
<1>. DEFINE h == DataHash(e)
            x == <<tx, e.log>>
<1>2. /\ e # NoTransfer /\ e.dest = c /\ h \notin claimed[c]
      /\ claimed' = [claimed EXCEPT ![c] = @ \cup {h}]
      /\ accepted' = accepted /\ events' = events
  BY <1>1 DEF ClaimOriginal, ClaimSide, CanClaim
<1>3. e.tx = tx /\ h.tx = tx /\ h.log = e.log
  BY <1>2 DEF ClaimInv, SlotsInv, DataHash
<1>. HIDE DEF h
<1>4. \A id : SentTo(id)' = SentTo(id) /\ AcceptedOn(id)' = AcceptedOn(id)
  BY <1>2 DEF SentTo, AcceptedOn, AllEvents
<1>5. \A d \in Chains : claimed'[d] = IF d = c THEN claimed[d] \cup {h}
                                              ELSE claimed[d]
  BY <1>2 DEF ClaimInv
<1>6. \A id \in Crossings : id # x => ClaimedOn(id)' = ClaimedOn(id)
  <2>. SUFFICES ASSUME NEW id \in Crossings, id # x
                PROVE  ClaimedOn(id)' = ClaimedOn(id)
    OBVIOUS
  <2>1. ~IsOf(id, h)
    BY <1>3 DEF IsOf, Crossings
  <2>. QED
    BY <1>5, <2>1 DEF ClaimedOn
<1>7. CASE x \notin Crossings
  BY <1>4, <1>6, <1>7, StagesStay DEF SameStage
<1>8. CASE x \in Crossings
  <2>1. c \in AcceptedOn(x)
    BY <1>2, <1>3 DEF AcceptedOn, IsOf
  <2>2. AcceptedOn(x) = {c}
    BY <1>8, <2>1, StagesNest
  <2>3. c \notin ClaimedOn(x)
    <3>. SUFFICES ASSUME NEW g \in claimed[c], g.tx = tx PROVE FALSE
      BY DEF ClaimedOn, IsOf
    <3>. QED
      BY <1>2 DEF ClaimInv, SlotsInv, h
  <2>4. ClaimedOn(x) = {}
    BY <1>8, <2>2, <2>3, StagesNest
  <2>5. ClaimedOn(x)' = {c}
    <3>1. IsOf(x, h)
      BY <1>3 DEF IsOf
    <3>. QED
      BY <1>5, <2>4, <3>1 DEF ClaimedOn
  <2>6. /\ StageOf(x) = Promise!Stage("accepted", c)
        /\ StageOf(x)' = Promise!Stage("claimed", c)
    BY <1>4, <2>2, <2>4, <2>5 DEF StageOf, Promise!Stage
  <2>. QED
    BY <1>4, <1>6, <1>8, <2>6, StageMoves DEF SameStage
<1>. QED
  BY <1>7, <1>8

(* Another block changes no stage.                                          *)
LEMMA ReorganisationKeepsStages ==
    ASSUME ClaimInv, NEW c \in Chains, Reorganisation(c)
    PROVE  UNCHANGED [id \in Crossings |-> StageOf(id)]
<1>1. PICK tx \in TxHashes, block \in Blocks : Reorganise(c, tx, block)
  BY DEF Reorganisation
<1>. DEFINE Moved(f) == IF f.tx = tx THEN [f EXCEPT !.block = block] ELSE f
<1>2. /\ events' = [events EXCEPT ![c] = {Moved(f) : f \in @}]
      /\ accepted' = accepted /\ claimed' = claimed
  BY <1>1 DEF Reorganise, acceptVars
<1>3. \A f \in AllEvents : /\ Moved(f).tx = f.tx /\ Moved(f).log = f.log
                           /\ Moved(f).dest = f.dest
  BY BridgeConstants DEF AllEvents, ClaimInv, BridgeTypes
<1>. HIDE DEF Moved
<1>4. \A d \in Chains : events'[d] = IF d = c THEN {Moved(f) : f \in events[d]}
                                              ELSE events[d]
  BY <1>2 DEF ClaimInv, BridgeTypes
<1>5. /\ \A f \in AllEvents : \E g \in AllEvents' : g = f \/ g = Moved(f)
      /\ \A g \in AllEvents' : \E f \in AllEvents : g = f \/ g = Moved(f)
  <2>1. ASSUME NEW d \in Chains, NEW f \in events[d]
        PROVE  f \in events'[d] \/ Moved(f) \in events'[d]
    BY <1>4
  <2>2. ASSUME NEW d \in Chains, NEW g \in events'[d]
        PROVE  \E f \in events[d] : g = f \/ g = Moved(f)
    BY <1>4
  <2>. QED
    BY <2>1, <2>2 DEF AllEvents
<1>6. \A id : SentTo(id)' = SentTo(id)
  BY <1>3, <1>5 DEF SentTo, IsOf
<1>. QED
  BY <1>2, <1>6, StagesStay DEF SameStage, AcceptedOn, ClaimedOn

(* At first nothing was sent.                                               *)
LEMMA StageInit == Init => Promise!Init
<1>. SUFFICES ASSUME Init PROVE Promise!Init
  OBVIOUS
<1>1. \A id \in Crossings :
         ClaimedOn(id) = {} /\ AcceptedOn(id) = {} /\ SentTo(id) = {}
  BY DEF Init, ClaimedOn, AcceptedOn, SentTo, AllEvents, Crossings
<1>. QED
  BY <1>1 DEF Promise!Init, StageOf

(* Every step moves at most one crossing by one stage.                      *)
LEMMA StageStep ==
    ASSUME ClaimInv, [Next]_bridgeVars
    PROVE  [Promise!Next]_([id \in Crossings |-> StageOf(id)])
<1>1. CASE accepted' = accepted /\ claimed' = claimed /\ events' = events
  <2>1. \A id : SameStage(id)
    BY <1>1 DEF SameStage, ClaimedOn, AcceptedOn, SentTo, AllEvents
  <2>. QED
    BY <2>1, StagesStay
<1>2. ASSUME NEW c \in Chains, Administer(c) \/ SetKnownToken(c)
      PROVE  accepted' = accepted /\ claimed' = claimed /\ events' = events
  BY <1>2 DEF Administer, NewSideToken, CreateSideToken, SetKnownToken,
              SetKnownTokenByChain, SetPaused, SetUpgrading, SetFeePercentage,
              acceptVars
<1>3. CASE UNCHANGED bridgeVars
  BY <1>1, <1>3 DEF bridgeVars
<1>4. ASSUME NEW c \in Chains, Relay(c)
      PROVE  [Promise!Next]_([id \in Crossings |-> StageOf(id)])
  BY <1>4, RelayAccepts DEF Relay
<1>. QED
  BY <1>1, <1>2, <1>3, <1>4, CrossSends, ClaimClaims, ReorganisationKeepsStages
     DEF Next

(* The bridges keep the promise of CrossTransfer for every crossing: sent   *)
(* to one chain, accepted there once, claimed there once, whatever owners,  *)
(* federations and reorganisations do.                                      *)
THEOREM PromiseCorrect == Spec => ImplementsCrossTransfer
  BY StageInit, ClaimInitInv, ClaimStep, StageStep, PTL
     DEF Spec, ImplementsCrossTransfer, Promise!Spec

-----------------------------------------------------------------------------
(* The bridges: types                                                        *)

(* A token has a granularity, which divides nothing by zero.                *)
LEMMA GranularityIsPositive ==
    ASSUME NEW tok \in Tokens
    PROVE  /\ \A origin : Granularity(origin, tok) \in Nat \ {0}
           /\ \A origin : origin # Home[tok] => Granularity(origin, tok) = 1
           /\ Granularity(Home[tok], tok) = 10^(18 - Decimals[tok])
<1>. DEFINE g == 10^(18 - Decimals[tok])
<1>1. g \in Nat \ {0}
  BY PowersAreNumbers
<1>2. \A origin : Granularity(origin, tok) = IF origin = Home[tok] THEN g ELSE 1
  BY DEF Granularity
<1>3. Granularity(Home[tok], tok) = g
  BY <1>2
<1>. HIDE DEF g
<1>4. \A origin : Granularity(origin, tok) \in Nat \ {0}
  BY <1>1, <1>2
<1>5. \A origin : origin # Home[tok] => Granularity(origin, tok) = 1
  BY <1>2
<1>. QED
  BY <1>3, <1>4, <1>5 DEF g

(* Division of numbers.                                                     *)
LEMMA Dividing ==
    ASSUME NEW a \in Nat, NEW g \in Nat \ {0}
    PROVE  /\ a \div g \in Nat
           /\ a % g \in Nat /\ a % g <= a
           /\ a = ((a \div g) * g) + (a % g)
  OBVIOUS

(* The fee is less than the amount.                                         *)
LEMMA FeeIsLess ==
    ASSUME feePercentage \in [Chains -> Fees], NEW c \in Chains, NEW a \in Amounts
    PROVE  AfterFee(c, a) \in Nat /\ AfterFee(c, a) <= a
<1>1. PICK p : p = feePercentage[c]
  OBVIOUS
<1>2. p \in 0..999 /\ a \in Nat
  BY <1>1, BridgeConstants
<1>3. a - ((a * p) \div 10000) \in Nat /\ a - ((a * p) \div 10000) <= a
  BY <1>2
<1>. QED
  BY <1>1, <1>3 DEF AfterFee, feePercentageDivider

(* A claim pays what the event says, in the units of the token.             *)
LEMMA ClaimPays ==
    ASSUME NEW e \in Events, NEW fee \in RelayerFees
    PROVE  /\ InOwnUnits(e) \in Nat /\ InUnits(e) \in Nat
           /\ InOwnUnits(e) = e.amount \div Granularity(Home[e.tok], e.tok)
           /\ Paid(InOwnUnits(e), fee) = InOwnUnits(e)
           /\ Paid(InUnits(e), fee) = InUnits(e)
<1>1. e.tok \in Tokens /\ e.amount \in Nat /\ fee \in Nat
  BY BridgeConstants
<1>2. InOwnUnits(e) = e.amount \div Granularity(Home[e.tok], e.tok)
  BY <1>1, GranularityIsPositive DEF InOwnUnits
<1>3. InOwnUnits(e) \in Nat
  BY <1>1, <1>2, GranularityIsPositive, Dividing
<1>4. InUnits(e) \in Nat
  BY <1>1, GranularityIsPositive DEF InUnits
<1>5. \A n \in Nat : Paid(n, fee) = n
  BY <1>1 DEF Paid
<1>. QED
  BY <1>2, <1>3, <1>4, <1>5

(* What a crossing of a side token burns.                                   *)
LEMMA BurnIsWhole ==
    ASSUME NEW n \in Nat, NEW g \in Nat \ {0}
    PROVE  /\ n - (n % g) \in Nat /\ n - (n % g) <= n
           /\ (n - (n % g)) % g = 0
<1>1. PICK q, r : q = n \div g /\ r = n % g
  OBVIOUS
<1>2. q \in Nat /\ r \in Nat /\ r <= n /\ n = (q * g) + r
  BY <1>1, Dividing
<1>3. n - r = q * g /\ n - r \in Nat /\ n - r <= n
  BY <1>2
<1>4. (q * g) % g = 0
  BY <1>2
<1>. QED
  BY <1>1, <1>3, <1>4

(* The bridges start well typed.                                            *)
LEMMA TypeInit == Init => TypeOK
  BY DEF Init, TypeOK

(* Crossing leaves no balance below zero: the holders have what is burned.   *)
LEMMA CrossTypes ==
    ASSUME TypeOK, NEW c \in Chains, Cross(c)
    PROVE  TypeOK'
<1>1. PICK amount \in Amounts, dest \in Chains, tx \in TxHashes, block \in Blocks :
         \/ \E tok \in Tokens : CrossOriginal(c, tok, amount, dest, tx, block)
         \/ \E s \in sideTokens[c] : CrossSide(c, s, amount, dest, tx, block)
  BY DEF Cross
<1>2. AfterFee(c, amount) \in Nat /\ AfterFee(c, amount) <= amount /\ amount \in Nat
  BY FeeIsLess, BridgeConstants DEF TypeOK
<1>3. ASSUME NEW e, LogsEvent(e)
      PROVE  events' \in [Chains -> SUBSET Events]
  BY <1>3 DEF LogsEvent, TypeOK
<1>4. ASSUME NEW tok \in Tokens, CrossOriginal(c, tok, amount, dest, tx, block)
      PROVE  TypeOK'
  <2>1. /\ known' = [known EXCEPT ![c] = @ \cup {<<dest, tok>>}]
        /\ locked' = [locked EXCEPT ![tok] = @ + AfterFee(c, amount)]
        /\ UNCHANGED <<adminVars, sideTokens, acceptVars, supply>>
    BY <1>4 DEF CrossOriginal
  <2>2. events' \in [Chains -> SUBSET Events]
    BY <1>3, <1>4 DEF CrossOriginal
  <2>3. known' \in [Chains -> SUBSET (Chains \X (Tokens \cup SideTokens))]
    BY <2>1 DEF TypeOK
  <2>4. locked' \in [Tokens -> Nat]
    BY <1>2, <2>1 DEF TypeOK
  <2>. QED
    BY <2>1, <2>2, <2>3, <2>4 DEF TypeOK, adminVars, acceptVars
<1>5. ASSUME NEW s \in sideTokens[c], CrossSide(c, s, amount, dest, tx, block)
      PROVE  TypeOK'
  <2>. DEFINE remainder == AfterFee(c, amount) % Granularity(s.origin, s.tok)
              burned == AfterFee(c, amount) - remainder
  <2>1. /\ known' = [known EXCEPT ![c] = @ \cup {<<dest, s>>}]
        /\ supply' = [supply EXCEPT ![s] = @ - burned]
        /\ amount <= supply[s]
        /\ UNCHANGED <<adminVars, sideTokens, acceptVars, locked>>
    BY <1>5 DEF CrossSide, MayBurn
  <2>2. events' \in [Chains -> SUBSET Events]
    BY <1>3, <1>5 DEF CrossSide
  <2>3. s \in SideTokens /\ s.tok \in Tokens
    BY DEF TypeOK, SideTokens
  <2>4. known' \in [Chains -> SUBSET (Chains \X (Tokens \cup SideTokens))]
    BY <2>1, <2>3 DEF TypeOK
  <2>5. burned \in Nat /\ burned <= amount
    <3>1. Granularity(s.origin, s.tok) \in Nat \ {0}
      BY <2>3, GranularityIsPositive
    <3>. QED
      BY <1>2, <3>1, BurnIsWhole
  <2>6. supply' \in [SideTokens -> Nat]
    <3>. HIDE DEF burned
    <3>. QED
      BY <1>2, <2>1, <2>3, <2>5 DEF TypeOK
  <2>. QED
    BY <2>1, <2>2, <2>4, <2>6 DEF TypeOK, adminVars, acceptVars
<1>. QED
  BY <1>1, <1>4, <1>5

(* Claiming takes no more than the bridge keeps.                             *)
LEMMA ClaimTypes ==
    ASSUME TypeOK, NEW c \in Chains, Claim(c)
    PROVE  TypeOK'
<1>1. PICK tx \in TxHashes, fee \in RelayerFees :
         ClaimOriginal(c, tx, fee) \/ ClaimSide(c, tx, fee)
  BY DEF Claim
<1>2. PICK e : e = accepted[c][tx]
  OBVIOUS
<1>3. /\ CanClaim(c, tx)
      /\ claimed' = [claimed EXCEPT ![c] = @ \cup {DataHash(e)}]
      /\ UNCHANGED <<adminVars, known, sideTokens, accepted, events>>
  BY <1>1, <1>2 DEF ClaimOriginal, ClaimSide
<1>4. e \in Events
  BY <1>2, <1>3 DEF CanClaim, TypeOK
<1>5. claimed' \in [Chains -> SUBSET {DataHash(f) : f \in Events}]
  BY <1>3, <1>4 DEF TypeOK
<1>6. /\ InOwnUnits(e) \in Nat /\ InUnits(e) \in Nat
      /\ Paid(InOwnUnits(e), fee) = InOwnUnits(e)
      /\ Paid(InUnits(e), fee) = InUnits(e)
  BY <1>4, ClaimPays
<1>7. CASE ClaimOriginal(c, tx, fee)
  <2>1. /\ InOwnUnits(e) <= locked[e.tok]
        /\ locked' = [locked EXCEPT ![e.tok] = @ - InOwnUnits(e)]
        /\ supply' = supply
    BY <1>2, <1>6, <1>7 DEF ClaimOriginal
  <2>2. e.tok \in Tokens
    BY <1>4, BridgeConstants
  <2>3. locked' \in [Tokens -> Nat]
    BY <1>6, <2>1, <2>2 DEF TypeOK
  <2>. QED
    BY <1>3, <1>5, <2>1, <2>3 DEF TypeOK, adminVars
<1>8. CASE ClaimSide(c, tx, fee)
  <2>1. PICK n, s : n = InUnits(e) /\ s = Side(c, e.origin, e.tok)
    OBVIOUS
  <2>2. e.amount * Granularity(e.origin, e.tok) = n /\ Paid(n, fee) = n
    BY <1>6, <2>1 DEF InUnits
  <2>3. /\ supply' = [supply EXCEPT ![s] = @ + Paid(n, fee)]
        /\ locked' = locked
    BY <1>2, <1>8, <2>1, <2>2 DEF ClaimSide
  <2>4. s \in SideTokens /\ n \in Nat
    BY <1>4, <1>6, <2>1, BridgeConstants DEF Side, SideTokens
  <2>5. supply' \in [SideTokens -> Nat]
    BY <2>2, <2>3, <2>4 DEF TypeOK
  <2>. QED
    BY <1>3, <1>5, <2>3, <2>5 DEF TypeOK, adminVars
<1>. QED
  BY <1>1, <1>7, <1>8

(* The owner changes settings and side tokens.                               *)
LEMMA AdministerTypes ==
    ASSUME TypeOK, NEW c \in Chains, Administer(c)
    PROVE  TypeOK'
<1>1. CASE NewSideToken(c)
  <2>1. PICK origin \in Chains \ {c}, tok \in {k \in Tokens : Home[k] # c} :
           CreateSideToken(c, origin, tok)
    BY <1>1 DEF NewSideToken
  <2>2. Side(c, origin, tok) \in SideTokens
    BY DEF Side, SideTokens
  <2>3. sideTokens' \in [Chains -> SUBSET SideTokens]
    BY <2>1, <2>2 DEF CreateSideToken, TypeOK
  <2>. QED
    BY <2>1, <2>3 DEF CreateSideToken, TypeOK, adminVars, acceptVars, ledger
<1>2. CASE SetPaused(c)
  BY <1>2 DEF SetPaused, TypeOK, acceptVars, ledger
<1>3. CASE SetUpgrading(c)
  BY <1>3 DEF SetUpgrading, TypeOK, acceptVars, ledger
<1>4. ASSUME NEW percentage \in Fees, SetFeePercentage(c, percentage)
      PROVE  TypeOK'
  BY <1>4 DEF SetFeePercentage, TypeOK, acceptVars, ledger
<1>. QED
  BY <1>1, <1>2, <1>3, <1>4 DEF Administer

(* Anybody changes the marks.                                                *)
LEMMA MarkTypes ==
    ASSUME TypeOK, NEW c \in Chains, SetKnownToken(c)
    PROVE  TypeOK'
<1>1. PICK origin \in Chains, tok \in Tokens, value \in BOOLEAN :
         SetKnownTokenByChain(c, origin, tok, value)
  BY DEF SetKnownToken
<1>2. known' \in [Chains -> SUBSET (Chains \X (Tokens \cup SideTokens))]
  BY <1>1 DEF SetKnownTokenByChain, TypeOK
<1>. QED
  BY <1>1, <1>2 DEF SetKnownTokenByChain, TypeOK, adminVars, acceptVars, ledger

(* Every step keeps the types.                                               *)
LEMMA TypeStep == ASSUME TypeOK, [Next]_bridgeVars PROVE TypeOK'
<1>1. ASSUME NEW c \in Chains, Relay(c)
      PROVE  TypeOK'
  <2>1. PICK e \in Events : AcceptTransfer(c, e)
    BY <1>1 DEF Relay
  <2>2. accepted' \in [Chains -> [TxHashes -> Events \cup {NoTransfer}]]
    BY <2>1 DEF AcceptTransfer, TypeOK
  <2>. QED
    BY <2>1, <2>2 DEF AcceptTransfer, TypeOK, adminVars, ledger
<1>2. ASSUME NEW c \in Chains, Reorganisation(c)
      PROVE  TypeOK'
  <2>1. PICK tx \in TxHashes, block \in Blocks : Reorganise(c, tx, block)
    BY <1>2 DEF Reorganisation
  <2>2. events' \in [Chains -> SUBSET Events]
    BY <2>1 DEF Reorganise, TypeOK
  <2>. QED
    BY <2>1, <2>2 DEF Reorganise, TypeOK, adminVars, acceptVars, ledger
<1>3. CASE UNCHANGED bridgeVars
  BY <1>3 DEF bridgeVars, TypeOK
<1>. QED
  BY <1>1, <1>2, <1>3, CrossTypes, ClaimTypes, AdministerTypes,
     MarkTypes DEF Next

(* Whatever users, owners, federations and reorganisations do, what the     *)
(* bridges keep and what circulates are natural numbers: no subtraction of   *)
(* crossTokens or of _claim underflows.                                      *)
THEOREM BridgeTypesCorrect == Spec => []TypeOK
  BY TypeInit, TypeStep, PTL DEF Spec

-----------------------------------------------------------------------------
(* The bridges: what is kept and what is owed                                *)

(* Side tokens stand on other chains than their origin and their home, and   *)
(* events lead to another chain.                                             *)
RoutesInv ==
    /\ \A c \in Chains : \A s \in sideTokens[c] :
          s.chain = c /\ Home[s.tok] # c /\ s.origin # c
    /\ \A e \in AllEvents : e.dest # e.origin

(* Between two chains nothing comes home that is not whole units of the      *)
(* original token.                                                           *)
WholeInv ==
    Cardinality(Chains) = 2 =>
        \A e \in AllEvents : e.origin # Home[e.tok] =>
            e.amount % Granularity(Home[e.tok], e.tok) = 0

LedgerInv ==
    /\ TypeOK
    /\ ClaimInv
    /\ RoutesInv
    /\ IsFiniteSet(AllEvents)
    /\ WholeInv
    /\ Backed

Worth == [e \in Events |-> InUnits(e)]

(* What an event is worth is a number.                                       *)
LEMMA WorthIsNumber ==
    \A e \in Events : Worth[e] = InUnits(e) /\ Worth[e] \in Nat
<1>. SUFFICES ASSUME NEW e \in Events PROVE InUnits(e) \in Nat
  BY DEF Worth
<1>1. e.tok \in Tokens /\ e.amount \in Nat
  BY BridgeConstants
<1>. QED
  BY <1>1, GranularityIsPositive DEF InUnits

(* What is in flight is a finite sum of numbers.                            *)
LEMMA FlightIsNumber ==
    ASSUME events \in [Chains -> SUBSET Events], IsFiniteSet(AllEvents), NEW tok
    PROVE  /\ Unclaimed(tok) \subseteq Events
           /\ IsFiniteSet(Unclaimed(tok))
           /\ InFlight(tok) = SumFunctionOnSet(Worth, Unclaimed(tok))
           /\ InFlight(tok) \in Nat
<1>1. Unclaimed(tok) \subseteq AllEvents /\ Unclaimed(tok) \subseteq Events
  BY DEF Unclaimed, AllEvents
<1>2. IsFiniteSet(Unclaimed(tok))
  BY <1>1, FS_Subset
<1>3. InFlight(tok) = SumFunctionOnSet(Worth, Unclaimed(tok))
  BY DEF InFlight, Worth
<1>. QED
  BY <1>1, <1>2, <1>3, WorthIsNumber, SumTakesOut

(* The same of the next state.                                              *)
LEMMA FlightAfter ==
    ASSUME (events \in [Chains -> SUBSET Events])', IsFiniteSet(AllEvents'), NEW tok
    PROVE  InFlight(tok)' \in Nat
<1>1. Unclaimed(tok)' \subseteq AllEvents' /\ Unclaimed(tok)' \subseteq Events
  BY DEF Unclaimed, AllEvents
<1>2. IsFiniteSet(Unclaimed(tok)')
  BY <1>1, FS_Subset
<1>3. InFlight(tok)' = SumFunctionOnSet(Worth, Unclaimed(tok)')
  BY DEF InFlight, Worth
<1>. QED
  BY <1>1, <1>2, <1>3, WorthIsNumber, SumTakesOut

SideTokensOf(tok) == {s \in SideTokens : s.tok = tok}

(* A token has finitely many side tokens: one per chain and chain of origin. *)
LEMMA SideTokensAreFinite ==
    ASSUME NEW tok \in Tokens
    PROVE  IsFiniteSet(SideTokensOf(tok))
<1>. DEFINE P == Chains \X Chains
            f == [p \in P |-> Side(p[1], p[2], tok)]
<1>1. IsFiniteSet(P)
  BY BridgeConstants, FS_Product
<1>2. \A s \in SideTokensOf(tok) : \E p \in P : f[p] = s
  <2>. SUFFICES ASSUME NEW s \in SideTokensOf(tok) PROVE \E p \in P : f[p] = s
    OBVIOUS
  <2>1. /\ s.chain \in Chains /\ s.origin \in Chains
        /\ s = Side(s.chain, s.origin, tok)
    BY DEF SideTokensOf, SideTokens, Side
  <2>2. <<s.chain, s.origin>> \in P /\ f[<<s.chain, s.origin>>] = s
    BY <2>1
  <2>. QED
    BY <2>2
<1>3. \A p \in P : f[p] \in SideTokensOf(tok)
  BY DEF SideTokensOf, SideTokens, Side
<1>4. f \in Surjection(P, SideTokensOf(tok))
  BY <1>2, <1>3 DEF Surjection
<1>. QED
  <2>. HIDE DEF P, f
  <2>. QED
    BY <1>1, <1>4, FS_Surjection

(* What circulates is a finite sum of numbers.                               *)
LEMMA CirculationIsNumber ==
    ASSUME supply \in [SideTokens -> Nat], NEW tok \in Tokens
    PROVE  Circulating(tok) \in Nat
<1>1. PICK f : f = supply
  OBVIOUS
<1>2. \A s \in SideTokensOf(tok) : f[s] \in Nat
  BY <1>1 DEF SideTokensOf
<1>3. Circulating(tok) = SumFunctionOnSet(f, SideTokensOf(tok))
  BY <1>1 DEF Circulating, SideTokensOf
<1>. QED
  BY <1>2, <1>3, SideTokensAreFinite, SumTakesOut

(* Sums over the same set of functions that agree on it.                    *)
LEMMA SumsOfEquals ==
    ASSUME NEW S, IsFiniteSet(S), NEW f, NEW g,
           \A x \in S : f[x] \in Nat /\ g[x] = f[x]
    PROVE  SumFunctionOnSet(g, S) = SumFunctionOnSet(f, S)
<1>. DEFINE m == [x \in S |-> x]
<1>1. m \in Bijection(S, S)
  BY DEF Bijection, Injection, Surjection, IsInjective
<1>2. \A x \in S : f[x] \in Nat /\ g[m[x]] = f[x]
  OBVIOUS
<1>. HIDE DEF m
<1>. QED
  BY <1>1, <1>2, SumsMatch

(* Sums of nothing but zeros.                                               *)
LEMMA SumOfZeros ==
    ASSUME NEW S, IsFiniteSet(S), NEW f, \A x \in S : f[x] = 0
    PROVE  SumFunctionOnSet(f, S) = 0
<1>. DEFINE Bad == {s \in SUBSET S : SumFunctionOnSet(f, s) # 0}
<1>1. \A s \in SUBSET S : IsFiniteSet(s) /\ Cardinality(s) \in Nat
  BY FS_Subset, FS_CardinalityType
<1>2. Bad = {}
  <2>. SUFFICES ASSUME Bad # {} PROVE FALSE
    OBVIOUS
  <2>1. PICK s \in Bad : \A u \in Bad : Cardinality(s) <= Cardinality(u)
    BY <1>1, SmallestSet
  <2>2. s \in SUBSET S /\ SumFunctionOnSet(f, s) # 0
    OBVIOUS
  <2>3. SumFunctionOnSet(f, s) =
           IF s = {} THEN 0 ELSE f[Some(s)] + SumFunctionOnSet(f, s \ {Some(s)})
    BY <1>1, <2>2, SumUnfolds
  <2>4. s # {} /\ Some(s) \in s
    BY <2>2, <2>3, SomeIsIn
  <2>5. Cardinality(s \ {Some(s)}) = Cardinality(s) - 1
    BY <1>1, <2>2, <2>4, FS_RemoveElement
  <2>6. s \ {Some(s)} \in SUBSET S /\ ~ (Cardinality(s) <= Cardinality(s \ {Some(s)}))
    BY <1>1, <2>2, <2>5
  <2>7. SumFunctionOnSet(f, s \ {Some(s)}) = 0
    BY <2>1, <2>6
  <2>8. f[Some(s)] = 0
    BY <2>2, <2>4
  <2>. QED
    BY <2>2, <2>3, <2>4, <2>7, <2>8
<1>. QED
  BY <1>2

(* Minting and burning one side token changes what circulates by as much.   *)
LEMMA SupplyChanges ==
    ASSUME supply \in [SideTokens -> Nat], NEW s \in SideTokens, NEW n \in Nat,
           supply' = [supply EXCEPT ![s] = n], NEW tok \in Tokens
    PROVE  /\ Circulating(tok)' \in Nat
           /\ Circulating(tok)' + (IF tok = s.tok THEN supply[s] ELSE 0)
              = Circulating(tok) + (IF tok = s.tok THEN n ELSE 0)
<1>. DEFINE S == SideTokensOf(tok)
<1>1. PICK f, g : f = supply /\ g = supply'
  OBVIOUS
<1>2. /\ f \in [SideTokens -> Nat] /\ g \in [SideTokens -> Nat]
      /\ g[s] = n /\ \A x \in SideTokens : x # s => g[x] = f[x]
  BY <1>1
<1>3. /\ Circulating(tok) = SumFunctionOnSet(f, S)
      /\ Circulating(tok)' = SumFunctionOnSet(g, S)
  BY <1>1 DEF Circulating, SideTokensOf
<1>4. IsFiniteSet(S) /\ S \subseteq SideTokens /\ (s \in S <=> tok = s.tok)
  BY SideTokensAreFinite DEF SideTokensOf
<1>. HIDE DEF S
<1>5. SumFunctionOnSet(g, S) \in Nat
  <2>1. \A x \in S : g[x] \in Nat
    BY <1>2, <1>4
  <2>. QED
    BY <1>4, <2>1, SumTakesOut
<1>6. CASE s \in S
  <2>1. IsFiniteSet(S \ {s})
    BY <1>4, FS_RemoveElement
  <2>2. /\ SumFunctionOnSet(f, S) = f[s] + SumFunctionOnSet(f, S \ {s})
        /\ SumFunctionOnSet(g, S) = g[s] + SumFunctionOnSet(g, S \ {s})
    <3>1. (\A x \in S : f[x] \in Nat) /\ (\A x \in S : g[x] \in Nat)
      BY <1>2, <1>4
    <3>. QED
      BY <1>4, <1>6, <3>1, SumTakesOut
  <2>3. \A x \in S \ {s} : f[x] \in Nat /\ g[x] = f[x]
    BY <1>2, <1>4
  <2>4. SumFunctionOnSet(g, S \ {s}) = SumFunctionOnSet(f, S \ {s})
    BY <2>1, <2>3, SumsOfEquals
  <2>5. SumFunctionOnSet(f, S \ {s}) \in Nat
    BY <2>1, <2>3, SumTakesOut
  <2>6. f[s] \in Nat /\ g[s] = n /\ f[s] = supply[s] /\ tok = s.tok
    BY <1>1, <1>2, <1>4, <1>6
  <2>. QED
    BY <1>3, <1>5, <2>2, <2>4, <2>5, <2>6
<1>7. CASE s \notin S
  <2>1. \A x \in S : f[x] \in Nat /\ g[x] = f[x]
    BY <1>2, <1>4, <1>7
  <2>2. SumFunctionOnSet(g, S) = SumFunctionOnSet(f, S)
    BY <1>4, <2>1, SumsOfEquals
  <2>. QED
    BY <1>3, <1>4, <1>7, <1>5, <2>2
<1>. QED
  BY <1>6, <1>7
(* An event that is logged is in flight; nothing else changes there.        *)
LEMMA LoggingAddsDebt ==
    ASSUME TypeOK, ClaimInv, IsFiniteSet(AllEvents),
           NEW e, LogsEvent(e), claimed' = claimed, NEW tok
    PROVE  /\ AllEvents' = AllEvents \cup {e}
           /\ IsFiniteSet(AllEvents')
           /\ InFlight(tok)' = InFlight(tok)
                                 + (IF tok = e.tok THEN InUnits(e) ELSE 0)
<1>1. e \in Events /\ e.origin \in Chains /\ e.tx \in TxHashes
  BY BridgeConstants DEF LogsEvent
<1>2. AllEvents' = AllEvents \cup {e}
  BY <1>1 DEF LogsEvent, AllEvents, TypeOK
<1>3. IsFiniteSet(AllEvents')
  BY <1>2, FS_AddElement
<1>4. e \notin AllEvents
  <2>1. e.log = Cardinality(SameTx(e.tx)) + 1
    BY DEF LogsEvent, SameTx
  <2>2. /\ IsFiniteSet(SameTx(e.tx))
        /\ \A f \in SameTx(e.tx) : f.log <= Cardinality(SameTx(e.tx))
    BY <1>1 DEF ClaimInv, EventsInv
  <2>3. Cardinality(SameTx(e.tx)) \in Nat
    BY <2>2, FS_CardinalityType
  <2>4. e \notin SameTx(e.tx)
    BY <2>1, <2>2, <2>3
  <2>. QED
    BY <2>4 DEF SameTx
<1>5. ~IsClaimed(e)
  <2>. SUFFICES ASSUME NEW c \in Chains, NEW h \in claimed[c], SameCrossing(e, h)
                PROVE  FALSE
    BY DEF IsClaimed
  <2>1. accepted[c][h.tx] # NoTransfer
    BY DEF ClaimInv, SlotsInv
  <2>. QED
    BY <2>1 DEF LogsEvent, SameCrossing
<1>6. \A f : IsClaimed(f)' <=> IsClaimed(f)
  BY DEF IsClaimed
<1>7. events' \in [Chains -> SUBSET Events]
  BY <1>1 DEF LogsEvent, TypeOK
<1>. DEFINE F == Unclaimed(tok)
<1>8. /\ F \subseteq Events /\ IsFiniteSet(F)
      /\ InFlight(tok) = SumFunctionOnSet(Worth, F) /\ InFlight(tok) \in Nat
  BY FlightIsNumber DEF TypeOK
<1>9. InFlight(tok)' = SumFunctionOnSet(Worth, Unclaimed(tok)')
  BY DEF InFlight, Worth
<1>10. CASE tok = e.tok
  <2>1. Unclaimed(tok)' = F \cup {e} /\ e \notin F
    BY <1>2, <1>4, <1>5, <1>6, <1>10 DEF Unclaimed
  <2>. DEFINE G == F \cup {e}
  <2>2. IsFiniteSet(G) /\ G \ {e} = F /\ e \in G
    BY <1>8, <2>1, FS_AddElement
  <2>3. \A f \in G : Worth[f] \in Nat
    BY <1>1, <1>8, WorthIsNumber
  <2>. HIDE DEF G
  <2>4. SumFunctionOnSet(Worth, G) = Worth[e] + SumFunctionOnSet(Worth, F)
    BY <2>2, <2>3, SumTakesOut
  <2>5. Worth[e] = InUnits(e) /\ Worth[e] \in Nat
    BY <1>1, WorthIsNumber
  <2>. QED
    BY <1>2, <1>3, <1>8, <1>9, <1>10, <2>1, <2>4, <2>5 DEF G
<1>11. CASE tok # e.tok
  <2>1. Unclaimed(tok)' = F
    BY <1>2, <1>6, <1>11 DEF Unclaimed
  <2>. QED
    BY <1>2, <1>3, <1>8, <1>9, <1>11, <2>1
<1>. QED
  BY <1>10, <1>11

(* What both ways to claim do to the slot and the claims.                    *)
Settles(c, tx, e) ==
    /\ CanClaim(c, tx)
    /\ e = accepted[c][tx]
    /\ claimed' = [claimed EXCEPT ![c] = @ \cup {DataHash(e)}]
    /\ events' = events

(* A claim ends the flight of one event: the one that the slot speaks of.   *)
LEMMA ClaimTakesDebt ==
    ASSUME TypeOK, ClaimInv, IsFiniteSet(AllEvents),
           NEW c \in Chains, NEW tx \in TxHashes, NEW e, Settles(c, tx, e),
           NEW tok
    PROVE  /\ InFlight(tok)' + (IF tok = e.tok THEN InUnits(e) ELSE 0) = InFlight(tok)
           /\ \E f \in AllEvents : /\ f.tok = e.tok /\ f.amount = e.amount
                                   /\ f.origin = e.origin /\ f.dest = c
<1>. USE DEF Settles
<1>1. /\ e # NoTransfer /\ e.dest = c /\ DataHash(e) \notin claimed[c]
      /\ e \in Events /\ e.tx = tx /\ IsGenuine(e)
  BY DEF CanClaim, ClaimInv, SlotsInv, TypeOK, Versions
<1>2. PICK f \in AllEvents : e = [f EXCEPT !.block = e.block]
  BY <1>1 DEF IsGenuine
<1>3. f \in Events
  BY DEF AllEvents, TypeOK
<1>4. /\ f.tx = e.tx /\ f.log = e.log /\ f.tok = e.tok /\ f.amount = e.amount
      /\ f.origin = e.origin /\ f.dest = e.dest
  BY <1>2, <1>3, BridgeConstants
<1>5. SameCrossing(f, DataHash(e)) /\ DataHash(e).tx = tx
  BY <1>1, <1>4 DEF SameCrossing, DataHash
<1>6. ~IsClaimed(f)
  <2>. SUFFICES ASSUME NEW d \in Chains, NEW h \in claimed[d], SameCrossing(f, h)
                PROVE  FALSE
    BY DEF IsClaimed
  <2>1. /\ h.tx \in TxHashes /\ accepted[d][h.tx] # NoTransfer
        /\ h = DataHash(accepted[d][h.tx]) /\ h.dest = d
    BY DEF ClaimInv, SlotsInv
  <2>2. h.tx = tx
    BY <1>1, <1>4 DEF SameCrossing
  <2>3. PICK x : x = accepted[d][tx]
    OBVIOUS
  <2>4. x \in Events /\ IsGenuine(x)
    BY <2>1, <2>2, <2>3 DEF ClaimInv, SlotsInv, TypeOK, Versions
  <2>5. PICK k \in AllEvents : x = [k EXCEPT !.block = x.block]
    BY <2>4 DEF IsGenuine
  <2>6. k.tx = x.tx /\ k.log = x.log /\ k.dest = x.dest
    BY <2>4, <2>5, BridgeConstants DEF AllEvents, TypeOK
  <2>7. h.tx = x.tx /\ h.log = x.log /\ h.dest = x.dest
    BY <2>1, <2>2, <2>3 DEF DataHash
  <2>8. k = f
    BY <2>6, <2>7 DEF ClaimInv, EventsInv, SameCrossing
  <2>9. d = c
    BY <1>1, <1>4, <2>1, <2>6, <2>7, <2>8
  <2>. QED
    BY <1>1, <2>1, <2>2, <2>9
<1>7. \A k \in AllEvents : IsClaimed(k)' <=> IsClaimed(k) \/ k = f
  <2>1. \A d \in Chains : claimed'[d] = IF d = c THEN claimed[d] \cup {DataHash(e)}
                                                 ELSE claimed[d]
    BY DEF TypeOK
  <2>2. \A k : IsClaimed(k)' <=> IsClaimed(k) \/ SameCrossing(k, DataHash(e))
    BY <2>1 DEF IsClaimed
  <2>3. \A k \in AllEvents : SameCrossing(k, DataHash(e)) <=> k = f
    BY <1>5 DEF ClaimInv, EventsInv, SameCrossing
  <2>. QED
    BY <2>2, <2>3
<1>8. AllEvents' = AllEvents
  BY DEF AllEvents
<1>. DEFINE F == Unclaimed(tok)
<1>9. /\ F \subseteq Events /\ IsFiniteSet(F)
      /\ InFlight(tok) = SumFunctionOnSet(Worth, F) /\ InFlight(tok) \in Nat
  BY FlightIsNumber DEF TypeOK
<1>10. InFlight(tok)' = SumFunctionOnSet(Worth, Unclaimed(tok)')
  BY DEF InFlight, Worth
<1>11. Worth[f] = InUnits(e) /\ Worth[f] \in Nat
  BY <1>3, <1>4, WorthIsNumber DEF InUnits
<1>12. CASE tok = e.tok
  <2>1. Unclaimed(tok)' = F \ {f} /\ f \in F
    BY <1>4, <1>6, <1>7, <1>8, <1>12 DEF Unclaimed
  <2>2. \A x \in F : Worth[x] \in Nat
    BY <1>9, WorthIsNumber
  <2>. HIDE DEF F
  <2>3. SumFunctionOnSet(Worth, F) = Worth[f] + SumFunctionOnSet(Worth, F \ {f})
    BY <1>9, <2>1, <2>2, SumTakesOut
  <2>4. SumFunctionOnSet(Worth, F \ {f}) \in Nat
    <3>1. IsFiniteSet(F \ {f}) /\ \A x \in F \ {f} : Worth[x] \in Nat
      BY <1>9, <2>2, FS_RemoveElement
    <3>. QED
      BY <3>1, SumTakesOut
  <2>5. InFlight(tok)' + InUnits(e) = InFlight(tok)
    BY <1>9, <1>10, <1>11, <2>1, <2>3, <2>4
  <2>. QED
    BY <1>1, <1>4, <1>12, <2>5
<1>13. CASE tok # e.tok
  <2>1. Unclaimed(tok)' = F
    BY <1>4, <1>7, <1>8, <1>13 DEF Unclaimed
  <2>. QED
    BY <1>1, <1>4, <1>9, <1>10, <1>13, <2>1
<1>. QED
  BY <1>12, <1>13

(* A reorganisation moves events to another block, and no value with them.  *)
LEMMA ReorganisationKeepsDebt ==
    ASSUME TypeOK, ClaimInv, RoutesInv, WholeInv, IsFiniteSet(AllEvents),
           NEW c \in Chains, Reorganisation(c)
    PROVE  /\ IsFiniteSet(AllEvents')
           /\ RoutesInv' /\ WholeInv'
           /\ \A tok \in Tokens : InFlight(tok)' = InFlight(tok)
<1>1. PICK tx \in TxHashes, block \in Blocks : Reorganise(c, tx, block)
  BY DEF Reorganisation
<1>. DEFINE Moved(f) == IF f.tx = tx THEN [f EXCEPT !.block = block] ELSE f
<1>2. /\ events' = [events EXCEPT ![c] = {Moved(f) : f \in @}]
      /\ events'[c] \subseteq Events
      /\ \E e \in events[c] : e.tx = tx
      /\ claimed' = claimed /\ sideTokens' = sideTokens
  BY <1>1 DEF Reorganise, acceptVars
<1>3. \A f \in AllEvents : /\ f \in Events
                           /\ Moved(f).tx = f.tx /\ Moved(f).log = f.log
                           /\ Moved(f).origin = f.origin /\ Moved(f).dest = f.dest
                           /\ Moved(f).tok = f.tok /\ Moved(f).amount = f.amount
  BY BridgeConstants DEF AllEvents, TypeOK
<1>4. \A d \in Chains : \A f \in events[d] : d # c => Moved(f) = f
  <2>. SUFFICES ASSUME NEW d \in Chains, NEW f \in events[d], f.tx = tx
                PROVE  d = c
    OBVIOUS
  <2>1. PICK e \in events[c] : e.tx = tx
    BY <1>2
  <2>2. e \in SameTx(tx) /\ f \in SameTx(tx)
    BY <2>1 DEF SameTx, AllEvents
  <2>3. e.origin = f.origin
    BY <2>2 DEF ClaimInv, EventsInv
  <2>. QED
    BY <2>3 DEF ClaimInv, EventsInv
<1>5. \A d \in Chains : events'[d] = {Moved(f) : f \in events[d]}
  BY <1>2, <1>4 DEF TypeOK
<1>6. AllEvents' = {Moved(f) : f \in AllEvents}
  BY <1>5 DEF AllEvents
<1>7. events' \in [Chains -> SUBSET Events]
  BY <1>2 DEF TypeOK
<1>8. AllEvents' \subseteq Events
  BY <1>7 DEF AllEvents
<1>. HIDE DEF Moved
<1>9. \A e, f \in AllEvents : Moved(e) = Moved(f) => e = f
  BY <1>3 DEF SameCrossing, ClaimInv, EventsInv
<1>10. IsFiniteSet(AllEvents')
  <2>. DEFINE m == [f \in AllEvents |-> Moved(f)]
  <2>1. m \in Surjection(AllEvents, AllEvents')
    BY <1>6 DEF Surjection
  <2>. HIDE DEF m
  <2>. QED
    BY <2>1, FS_Surjection
<1>11. RoutesInv'
  BY <1>2, <1>3, <1>6 DEF RoutesInv
<1>12. WholeInv'
  BY <1>3, <1>6 DEF WholeInv
<1>13. ASSUME NEW tok \in Tokens
       PROVE  InFlight(tok)' = InFlight(tok)
  <2>. DEFINE F == Unclaimed(tok)
              T == Unclaimed(tok)'
              m == [f \in F |-> Moved(f)]
  <2>1. \A f : SameCrossing(f, f) /\ (IsClaimed(f)' <=> IsClaimed(f))
    BY <1>2 DEF IsClaimed, SameCrossing
  <2>2. \A f \in AllEvents : IsClaimed(Moved(f)) <=> IsClaimed(f)
    BY <1>3 DEF IsClaimed, SameCrossing
  <2>3. T = {Moved(f) : f \in F}
    BY <1>3, <1>6, <2>1, <2>2 DEF Unclaimed
  <2>4. /\ F \subseteq Events /\ IsFiniteSet(F)
        /\ InFlight(tok) = SumFunctionOnSet(Worth, F)
    BY FlightIsNumber DEF TypeOK
  <2>5. F \subseteq AllEvents
    BY DEF Unclaimed
  <2>6. m \in Bijection(F, T)
    BY <1>9, <2>3, <2>5 DEF Bijection, Injection, Surjection, IsInjective
  <2>7. \A f \in F : Worth[f] \in Nat /\ Worth[m[f]] = Worth[f]
    <3>. SUFFICES ASSUME NEW f \in F PROVE Worth[f] \in Nat /\ Worth[Moved(f)] = Worth[f]
      OBVIOUS
    <3>1. Moved(f) \in Events /\ f \in Events
      BY <1>6, <1>8, <2>4, <2>5
    <3>2. InUnits(Moved(f)) = InUnits(f)
      BY <1>3, <2>5 DEF InUnits
    <3>. QED
      BY <3>1, <3>2, WorthIsNumber
  <2>8. InFlight(tok)' = SumFunctionOnSet(Worth, T)
    BY DEF InFlight, Worth
  <2>. HIDE DEF F, T, m
  <2>9. SumFunctionOnSet(Worth, T) = SumFunctionOnSet(Worth, F)
    BY <2>4, <2>6, <2>7, SumsMatch
  <2>. QED
    BY <2>4, <2>8, <2>9
<1>. QED
  BY <1>10, <1>11, <1>12, <1>13
(* What is kept covers what is owed, exactly between two chains.            *)
Covers(kept, owed) == kept >= owed /\ (Cardinality(Chains) = 2 => kept = owed)

Kept(tok) == locked[tok] * Granularity(Home[tok], tok)

(* Backed, in these terms.                                                   *)
LEMMA BackedMeans ==
    Backed <=> \A tok \in Tokens : Covers(Kept(tok), Circulating(tok) + InFlight(tok))
  BY DEF Backed, Covers, Kept

(* An original token that is crossed is kept to the unit that the event     *)
(* names.                                                                   *)
LEMMA CrossOriginalKeepsBalance ==
    ASSUME LedgerInv, NEW c \in Chains, NEW tok \in Tokens, NEW amount \in Amounts,
           NEW dest \in Chains, NEW tx, NEW block,
           CrossOriginal(c, tok, amount, dest, tx, block)
    PROVE  IsFiniteSet(AllEvents') /\ RoutesInv' /\ WholeInv' /\ Backed'
<1>1. PICK n : n = AfterFee(c, amount)
  OBVIOUS
<1>2. n \in Nat
  BY <1>1, FeeIsLess DEF LedgerInv, TypeOK
<1>3. PICK e : /\ LogsEvent(e)
               /\ e.tok = tok /\ e.amount = n /\ e.origin = c /\ e.dest = dest
  BY <1>1 DEF CrossOriginal
<1>4. /\ locked' = [locked EXCEPT ![tok] = @ + n]
      /\ supply' = supply /\ claimed' = claimed /\ sideTokens' = sideTokens
      /\ Home[tok] = c /\ dest # c
  BY <1>1 DEF CrossOriginal, acceptVars, MayCross
<1>5. /\ AllEvents' = AllEvents \cup {e} /\ IsFiniteSet(AllEvents')
      /\ \A k : InFlight(k)' = InFlight(k) + (IF k = e.tok THEN InUnits(e) ELSE 0)
  BY <1>3, <1>4, LoggingAddsDebt DEF LedgerInv
<1>6. RoutesInv' /\ WholeInv'
  BY <1>3, <1>4, <1>5 DEF RoutesInv, WholeInv, LedgerInv
<1>7. ASSUME NEW k \in Tokens
      PROVE  Covers(Kept(k)', Circulating(k)' + InFlight(k)')
  <2>1. PICK l, g, o, f : /\ l = locked[k] /\ g = Granularity(Home[k], k)
                          /\ o = Circulating(k) /\ f = InFlight(k)
    OBVIOUS
  <2>2. l \in Nat /\ g \in Nat \ {0} /\ o \in Nat /\ f \in Nat
    BY <2>1, GranularityIsPositive, CirculationIsNumber, FlightIsNumber
       DEF LedgerInv, TypeOK
  <2>3. Covers(l * g, o + f)
    BY <2>1, BackedMeans DEF LedgerInv, Kept
  <2>4. Circulating(k)' = o
    BY <1>4, <2>1 DEF Circulating
  <2>5. CASE k = tok
    <3>1. InUnits(e) = n * g
      BY <1>3, <1>4, <2>1, <2>5 DEF InUnits
    <3>2. Kept(k)' = (l + n) * g /\ InFlight(k)' = f + n * g
      BY <1>3, <1>4, <1>5, <2>1, <2>5, <3>1 DEF Kept, LedgerInv, TypeOK
    <3>3. PICK x, z : x = l * g /\ z = n * g
      OBVIOUS
    <3>4. (l + n) * g = x + z /\ x \in Nat /\ z \in Nat
      BY <1>2, <2>2, <3>3
    <3>5. Covers(x, o + f)
      BY <2>3, <3>3
    <3>6. Covers(x + z, o + (f + z))
      BY <2>2, <3>4, <3>5 DEF Covers
    <3>. QED
      BY <2>4, <3>2, <3>3, <3>4, <3>6
  <2>6. CASE k # tok
    <3>1. Kept(k)' = l * g /\ InFlight(k)' = f
      BY <1>3, <1>4, <1>5, <2>1, <2>2, <2>6 DEF Kept, LedgerInv, TypeOK
    <3>. QED
      BY <2>3, <2>4, <3>1
  <2>. QED
    BY <2>5, <2>6
<1>8. Backed'
  BY <1>7 DEF Backed, Covers, Kept
<1>. QED
  BY <1>5, <1>6, <1>8

(* What a crossing of side tokens burns is what its event names: whole      *)
(* units of the original token, if the side token stands for it directly.   *)
LEMMA CrossSideKeepsBalance ==
    ASSUME LedgerInv, NEW c \in Chains, NEW s \in sideTokens[c], NEW amount \in Amounts,
           NEW dest \in Chains, NEW tx, NEW block,
           CrossSide(c, s, amount, dest, tx, block)
    PROVE  IsFiniteSet(AllEvents') /\ RoutesInv' /\ WholeInv' /\ Backed'
<1>1. PICK n : n = AfterFee(c, amount) - (AfterFee(c, amount) % Granularity(s.origin, s.tok))
  OBVIOUS
<1>2. /\ s \in SideTokens /\ s.tok \in Tokens /\ s.origin \in Chains
      /\ Home[s.tok] # c /\ s.origin # c
  BY DEF LedgerInv, TypeOK, SideTokens, RoutesInv
<1>3. /\ n \in Nat /\ n <= amount /\ amount \in Nat
      /\ n % Granularity(s.origin, s.tok) = 0
  <2>1. PICK a : a = AfterFee(c, amount)
    OBVIOUS
  <2>2. a \in Nat /\ a <= amount /\ amount \in Nat
    BY <2>1, FeeIsLess, BridgeConstants DEF LedgerInv, TypeOK
  <2>3. Granularity(s.origin, s.tok) \in Nat \ {0}
    BY <1>2, GranularityIsPositive
  <2>4. /\ a - (a % Granularity(s.origin, s.tok)) \in Nat
        /\ a - (a % Granularity(s.origin, s.tok)) <= a
        /\ (a - (a % Granularity(s.origin, s.tok))) % Granularity(s.origin, s.tok) = 0
    BY <2>2, <2>3, BurnIsWhole
  <2>. QED
    BY <1>1, <2>1, <2>2, <2>4
<1>4. PICK e : /\ LogsEvent(e)
               /\ e.tok = s.tok /\ e.amount = n /\ e.origin = c /\ e.dest = dest
  BY <1>1 DEF CrossSide
<1>5. /\ supply' = [supply EXCEPT ![s] = @ - n]
      /\ amount <= supply[s]
      /\ locked' = locked /\ claimed' = claimed /\ sideTokens' = sideTokens
      /\ dest # c
  BY <1>1 DEF CrossSide, acceptVars, MayCross, MayBurn
<1>6. /\ AllEvents' = AllEvents \cup {e} /\ IsFiniteSet(AllEvents')
      /\ \A k : InFlight(k)' = InFlight(k) + (IF k = e.tok THEN InUnits(e) ELSE 0)
  BY <1>4, <1>5, LoggingAddsDebt DEF LedgerInv
<1>7. RoutesInv'
  BY <1>4, <1>5, <1>6 DEF RoutesInv, LedgerInv
<1>8. WholeInv'
  <2>1. Cardinality(Chains) = 2 => s.origin = Home[s.tok]
    <3>. SUFFICES ASSUME Cardinality(Chains) = 2, s.origin # Home[s.tok] PROVE FALSE
      OBVIOUS
    <3>. DEFINE h == Home[s.tok]
    <3>1. h \in Chains /\ s.origin \in Chains /\ c # h /\ s.origin # c /\ s.origin # h
      BY <1>2, BridgeConstants
    <3>2. IsFiniteSet(Chains)
      BY BridgeConstants
    <3>3. IsFiniteSet(Chains \ {c}) /\ Cardinality(Chains \ {c}) = 1
      BY <3>2, FS_RemoveElement
    <3>4. \A D : IsFiniteSet(D) /\ Cardinality(D) = 1 => \E d : D = {d}
      BY FS_Singleton, Zenon
    <3>5. PICK d : Chains \ {c} = {d}
      BY <3>3, <3>4
    <3>. QED
      BY <3>1, <3>5
  <2>. QED
    BY <1>3, <1>4, <1>6, <2>1 DEF WholeInv, LedgerInv
<1>9. PICK v : v = supply[s] - n
  OBVIOUS
<1>10. v \in Nat /\ supply[s] \in Nat /\ v + n = supply[s]
  BY <1>2, <1>3, <1>5, <1>9 DEF LedgerInv, TypeOK
<1>11. ASSUME NEW k \in Tokens
       PROVE  Covers(Kept(k)', Circulating(k)' + InFlight(k)')
  <2>1. PICK x, o, f, o2 : /\ x = Kept(k) /\ o = Circulating(k) /\ f = InFlight(k)
                           /\ o2 = Circulating(k)'
    OBVIOUS
  <2>2. o \in Nat /\ f \in Nat
    BY <2>1, CirculationIsNumber, FlightIsNumber DEF LedgerInv, TypeOK
  <2>3. Covers(x, o + f)
    BY <2>1, BackedMeans DEF LedgerInv
  <2>4. Kept(k)' = x
    BY <1>5, <2>1 DEF Kept
  <2>5. supply' = [supply EXCEPT ![s] = v]
    BY <1>5, <1>9
  <2>6. o2 \in Nat
    BY <1>2, <1>10, <2>1, <2>5, SupplyChanges DEF LedgerInv, TypeOK
  <2>7. o2 + (IF k = s.tok THEN supply[s] ELSE 0) = o + (IF k = s.tok THEN v ELSE 0)
    BY <1>2, <1>10, <2>1, <2>5, SupplyChanges DEF LedgerInv, TypeOK
  <2>8. InUnits(e) = n
    BY <1>2, <1>3, <1>4, GranularityIsPositive DEF InUnits
  <2>9. o2 + InFlight(k)' = o + f
    <3>1. InFlight(k)' = f + (IF k = s.tok THEN n ELSE 0)
      BY <1>4, <1>6, <2>1, <2>8
    <3>. QED
      BY <1>3, <1>10, <2>2, <2>6, <2>7, <3>1
  <2>. QED
    BY <2>1, <2>3, <2>4, <2>9
<1>12. Backed'
  BY <1>11 DEF Backed, Covers, Kept
<1>. QED
  BY <1>6, <1>7, <1>8, <1>12
(* The bridge pays in whole units of the original token no more than the    *)
(* event is worth, and exactly that if it is worth whole units.             *)
LEMMA ClaimOriginalKeepsBalance ==
    ASSUME LedgerInv, NEW c \in Chains, NEW tx \in TxHashes, NEW fee \in RelayerFees,
           ClaimOriginal(c, tx, fee)
    PROVE  AllEvents' = AllEvents /\ sideTokens' = sideTokens /\ Backed'
<1>1. PICK e : e = accepted[c][tx]
  OBVIOUS
<1>2. CanClaim(c, tx) /\ e \in Events /\ e.tok \in Tokens /\ e.amount \in Nat
  BY <1>1, BridgeConstants DEF ClaimOriginal, CanClaim, LedgerInv, TypeOK
<1>3. PICK g, n : g = Granularity(Home[e.tok], e.tok) /\ n = InOwnUnits(e)
  OBVIOUS
<1>4. g \in Nat \ {0} /\ n \in Nat /\ n = e.amount \div g /\ Paid(n, fee) = n
  BY <1>2, <1>3, GranularityIsPositive, ClaimPays
<1>5. /\ claimed' = [claimed EXCEPT ![c] = @ \cup {DataHash(e)}]
      /\ locked' = [locked EXCEPT ![e.tok] = @ - n]
      /\ n <= locked[e.tok] /\ Home[e.tok] = c
      /\ events' = events /\ supply' = supply /\ sideTokens' = sideTokens
  BY <1>1, <1>3, <1>4 DEF ClaimOriginal
<1>6. /\ \A k : InFlight(k)' + (IF k = e.tok THEN InUnits(e) ELSE 0) = InFlight(k)
      /\ \E f \in AllEvents : /\ f.tok = e.tok /\ f.amount = e.amount
                              /\ f.origin = e.origin /\ f.dest = c
  <2>1. TypeOK /\ ClaimInv /\ IsFiniteSet(AllEvents)
    BY DEF LedgerInv
  <2>2. Settles(c, tx, e)
    BY <1>1, <1>2, <1>5 DEF Settles
  <2>3. \A k : InFlight(k)' + (IF k = e.tok THEN InUnits(e) ELSE 0) = InFlight(k)
    BY <2>1, <2>2, ClaimTakesDebt
  <2>4. \E f \in AllEvents : /\ f.tok = e.tok /\ f.amount = e.amount
                             /\ f.origin = e.origin /\ f.dest = c
    BY <2>1, <2>2, ClaimTakesDebt
  <2>. QED
    BY <2>3, <2>4
<1>7. PICK f \in AllEvents : /\ f.tok = e.tok /\ f.amount = e.amount
                             /\ f.origin = e.origin /\ f.dest = c
  BY <1>6
<1>8. f.origin # Home[f.tok]
  BY <1>5, <1>7 DEF LedgerInv, RoutesInv
<1>9. InUnits(e) = e.amount
  BY <1>2, <1>7, <1>8, GranularityIsPositive DEF InUnits
<1>10. Cardinality(Chains) = 2 => e.amount % g = 0
  BY <1>3, <1>7, <1>8 DEF LedgerInv, WholeInv
<1>11. PICK r : r = e.amount % g
  OBVIOUS
<1>12. r \in Nat /\ e.amount = (n * g) + r /\ (Cardinality(Chains) = 2 => r = 0)
  BY <1>2, <1>4, <1>10, <1>11, Dividing
<1>13. AllEvents' = AllEvents
  BY <1>5 DEF AllEvents
<1>14. ASSUME NEW k \in Tokens
       PROVE  Covers(Kept(k)', Circulating(k)' + InFlight(k)')
  <2>1. PICK l, o, f1, f2 : /\ l = locked[k] /\ o = Circulating(k)
                            /\ f1 = InFlight(k) /\ f2 = InFlight(k)'
    OBVIOUS
  <2>2. l \in Nat /\ o \in Nat /\ f1 \in Nat /\ f2 \in Nat
    <3>1. events' \in [Chains -> SUBSET Events] /\ IsFiniteSet(AllEvents')
      BY <1>5, <1>13 DEF LedgerInv, TypeOK
    <3>2. InFlight(k)' \in Nat
      BY <3>1, FlightAfter
    <3>. QED
      BY <2>1, <3>2, CirculationIsNumber, FlightIsNumber DEF LedgerInv, TypeOK
  <2>3. Covers(l * Granularity(Home[k], k), o + f1)
    BY <2>1, BackedMeans DEF LedgerInv, Kept
  <2>4. Circulating(k)' = o
    BY <1>5, <2>1 DEF Circulating
  <2>5. CASE k = e.tok
    <3>1. Kept(k)' = (l - n) * g /\ f2 + e.amount = f1 /\ n <= l
      BY <1>2, <1>3, <1>5, <1>6, <1>9, <2>1, <2>5 DEF Kept, LedgerInv, TypeOK
    <3>2. PICK x, z : x = l * g /\ z = n * g
      OBVIOUS
    <3>3. (l - n) * g = x - z /\ x \in Nat /\ z \in Nat
      BY <1>4, <2>2, <3>2
    <3>4. Covers(x, o + f1)
      BY <1>3, <2>3, <2>5, <3>2
    <3>5. e.amount = z + r
      BY <1>12, <3>2
    <3>6. Covers(x - z, o + f2)
      BY <1>12, <2>2, <3>1, <3>3, <3>4, <3>5 DEF Covers
    <3>. QED
      BY <2>1, <2>4, <3>1, <3>3, <3>6
  <2>6. CASE k # e.tok
    <3>1. Kept(k)' = l * Granularity(Home[k], k) /\ f2 = f1
      BY <1>2, <1>5, <1>6, <2>1, <2>2, <2>6 DEF Kept, LedgerInv, TypeOK
    <3>. QED
      BY <2>1, <2>3, <2>4, <3>1
  <2>. QED
    BY <2>5, <2>6
<1>15. Backed'
  BY <1>14 DEF Backed, Covers, Kept
<1>. QED
  BY <1>5, <1>13, <1>15

(* Side tokens are minted to what the event is worth.                       *)
LEMMA ClaimSideKeepsBalance ==
    ASSUME LedgerInv, NEW c \in Chains, NEW tx \in TxHashes, NEW fee \in RelayerFees,
           ClaimSide(c, tx, fee)
    PROVE  AllEvents' = AllEvents /\ sideTokens' = sideTokens /\ Backed'
<1>1. PICK e : e = accepted[c][tx]
  OBVIOUS
<1>2. /\ CanClaim(c, tx) /\ e \in Events /\ e.tok \in Tokens
      /\ e.origin \in Chains
  BY <1>1, BridgeConstants DEF ClaimSide, CanClaim, LedgerInv, TypeOK
<1>3. PICK s, n : s = Side(c, e.origin, e.tok) /\ n = InUnits(e)
  OBVIOUS
<1>4. /\ s \in SideTokens /\ s.tok = e.tok
      /\ n \in Nat /\ Paid(n, fee) = n /\ e.amount * Granularity(e.origin, e.tok) = n
  BY <1>2, <1>3, ClaimPays DEF Side, SideTokens, InUnits
<1>5. /\ claimed' = [claimed EXCEPT ![c] = @ \cup {DataHash(e)}]
      /\ supply' = [supply EXCEPT ![s] = @ + n]
      /\ events' = events /\ locked' = locked /\ sideTokens' = sideTokens
  BY <1>1, <1>3, <1>4 DEF ClaimSide
<1>6. \A k : InFlight(k)' + (IF k = e.tok THEN n ELSE 0) = InFlight(k)
  <2>1. TypeOK /\ ClaimInv /\ IsFiniteSet(AllEvents)
    BY DEF LedgerInv
  <2>2. Settles(c, tx, e)
    BY <1>1, <1>2, <1>5 DEF Settles
  <2>3. \A k : InFlight(k)' + (IF k = e.tok THEN InUnits(e) ELSE 0) = InFlight(k)
    BY <2>1, <2>2, ClaimTakesDebt
  <2>. QED
    BY <1>3, <2>3
<1>7. AllEvents' = AllEvents
  BY <1>5 DEF AllEvents
<1>8. PICK v : v = supply[s] + n
  OBVIOUS
<1>9. v \in Nat /\ supply[s] \in Nat /\ supply' = [supply EXCEPT ![s] = v]
  BY <1>4, <1>5, <1>8 DEF LedgerInv, TypeOK
<1>10. ASSUME NEW k \in Tokens
       PROVE  Covers(Kept(k)', Circulating(k)' + InFlight(k)')
  <2>1. PICK x, o1, o2, f1, f2 : /\ x = Kept(k)
                                 /\ o1 = Circulating(k) /\ o2 = Circulating(k)'
                                 /\ f1 = InFlight(k) /\ f2 = InFlight(k)'
    OBVIOUS
  <2>2. o1 \in Nat /\ f1 \in Nat
    BY <2>1, CirculationIsNumber, FlightIsNumber DEF LedgerInv, TypeOK
  <2>3. f2 \in Nat
    <3>1. events' \in [Chains -> SUBSET Events] /\ IsFiniteSet(AllEvents')
      BY <1>5, <1>7 DEF LedgerInv, TypeOK
    <3>. QED
      BY <2>1, <3>1, FlightAfter
  <2>4. /\ o2 \in Nat
        /\ o2 + (IF k = e.tok THEN supply[s] ELSE 0) = o1 + (IF k = e.tok THEN v ELSE 0)
    BY <1>4, <1>9, <2>1, SupplyChanges DEF LedgerInv, TypeOK
  <2>5. Covers(x, o1 + f1) /\ Kept(k)' = x
    BY <1>5, <2>1, BackedMeans DEF LedgerInv, Kept
  <2>6. o2 + f2 = o1 + f1
    <3>1. f2 + (IF k = e.tok THEN n ELSE 0) = f1
      BY <1>6, <2>1
    <3>. QED
      BY <1>4, <1>8, <1>9, <2>2, <2>3, <2>4, <3>1
  <2>. QED
    BY <2>1, <2>5, <2>6
<1>11. Backed'
  BY <1>10 DEF Backed, Covers, Kept
<1>. QED
  BY <1>5, <1>7, <1>11

(* Steps that move nothing.                                                 *)
LEMMA LedgerStays ==
    ASSUME LedgerInv, UNCHANGED <<events, claimed, locked, supply>>
    PROVE  IsFiniteSet(AllEvents') /\ WholeInv' /\ Backed' /\ AllEvents' = AllEvents
<1>1. AllEvents' = AllEvents
  BY DEF AllEvents
<1>2. \A tok : Unclaimed(tok)' = Unclaimed(tok)
  BY <1>1 DEF Unclaimed, IsClaimed
<1>3. \A tok : InFlight(tok)' = InFlight(tok) /\ Circulating(tok)' = Circulating(tok)
  BY <1>2 DEF InFlight, Circulating
<1>4. Backed'
  BY <1>3 DEF LedgerInv, Backed
<1>. QED
  BY <1>1, <1>4 DEF LedgerInv, WholeInv

(* New bridges keep nothing, owe nothing and have nothing in flight.         *)
LEMMA LedgerInit == Init => LedgerInv
<1>. SUFFICES ASSUME Init PROVE LedgerInv
  OBVIOUS
<1>1. AllEvents = {} /\ IsFiniteSet(AllEvents)
  BY FS_EmptySet DEF Init, AllEvents
<1>2. ASSUME NEW tok \in Tokens
      PROVE  Circulating(tok) = 0 /\ InFlight(tok) = 0 /\ Kept(tok) = 0
  <2>1. SumFunctionOnSet(Worth, {}) = 0
    BY FS_EmptySet, SumUnfolds
  <2>2. Unclaimed(tok) = {}
    BY <1>1 DEF Unclaimed
  <2>3. InFlight(tok) = 0
    BY <2>1, <2>2 DEF InFlight, Worth
  <2>4. Circulating(tok) = 0
    <3>1. PICK f : f = supply
      OBVIOUS
    <3>. DEFINE S == SideTokensOf(tok)
                Bad == {T \in SUBSET S : SumFunctionOnSet(f, T) # 0}
    <3>2. \A s \in S : f[s] = 0
      BY <3>1 DEF Init, SideTokensOf
    <3>3. IsFiniteSet(S)
      BY SideTokensAreFinite
    <3>4. Circulating(tok) = SumFunctionOnSet(f, S)
      BY <3>1 DEF Circulating, SideTokensOf
    <3>. HIDE DEF S
    <3>5. SumFunctionOnSet(f, S) = 0
      BY <3>2, <3>3, SumOfZeros
    <3>. QED
      BY <3>4, <3>5
  <2>5. Kept(tok) = 0
    BY GranularityIsPositive DEF Kept, Init
  <2>. QED
    BY <2>3, <2>4, <2>5
<1>3. Backed
  BY <1>2, BackedMeans DEF Covers
<1>4. RoutesInv /\ WholeInv
  BY <1>1 DEF Init, RoutesInv, WholeInv
<1>. QED
  BY <1>1, <1>3, <1>4, TypeInit, ClaimInitInv DEF LedgerInv

(* Every step keeps the ledger.                                              *)
LEMMA LedgerStep == ASSUME LedgerInv, [Next]_bridgeVars PROVE LedgerInv'
<1>1. TypeOK' /\ ClaimInv'
  BY TypeStep, ClaimStep DEF LedgerInv
<1>2. SUFFICES IsFiniteSet(AllEvents') /\ RoutesInv' /\ WholeInv' /\ Backed'
  BY <1>1 DEF LedgerInv
<1>3. ASSUME NEW c \in Chains, Cross(c)
      PROVE  IsFiniteSet(AllEvents') /\ RoutesInv' /\ WholeInv' /\ Backed'
  <2>1. PICK amount \in Amounts, dest \in Chains, tx \in TxHashes, block \in Blocks :
           \/ \E tok \in Tokens : CrossOriginal(c, tok, amount, dest, tx, block)
           \/ \E s \in sideTokens[c] : CrossSide(c, s, amount, dest, tx, block)
    BY <1>3 DEF Cross
  <2>. QED
    BY <2>1, CrossOriginalKeepsBalance, CrossSideKeepsBalance
<1>4. ASSUME NEW c \in Chains, Claim(c)
      PROVE  IsFiniteSet(AllEvents') /\ RoutesInv' /\ WholeInv' /\ Backed'
  <2>1. AllEvents' = AllEvents /\ sideTokens' = sideTokens /\ Backed'
    BY <1>4, ClaimOriginalKeepsBalance, ClaimSideKeepsBalance DEF Claim
  <2>. QED
    BY <2>1 DEF LedgerInv, RoutesInv, WholeInv
<1>5. ASSUME NEW c \in Chains, Reorganisation(c)
      PROVE  IsFiniteSet(AllEvents') /\ RoutesInv' /\ WholeInv' /\ Backed'
  <2>1. /\ IsFiniteSet(AllEvents') /\ RoutesInv' /\ WholeInv'
        /\ \A tok \in Tokens : InFlight(tok)' = InFlight(tok)
    BY <1>5, ReorganisationKeepsDebt DEF LedgerInv
  <2>2. locked' = locked /\ supply' = supply
    BY <1>5 DEF Reorganisation, Reorganise, ledger
  <2>3. \A tok : Circulating(tok)' = Circulating(tok)
    BY <2>2 DEF Circulating
  <2>4. Backed'
    BY <2>1, <2>2, <2>3 DEF LedgerInv, Backed
  <2>. QED
    BY <2>1, <2>4
<1>6. ASSUME UNCHANGED <<events, claimed, locked, supply, sideTokens>>
      PROVE  IsFiniteSet(AllEvents') /\ RoutesInv' /\ WholeInv' /\ Backed'
  <2>1. IsFiniteSet(AllEvents') /\ WholeInv' /\ Backed' /\ AllEvents' = AllEvents
    BY <1>6, LedgerStays
  <2>. QED
    BY <1>6, <2>1 DEF LedgerInv, RoutesInv
<1>7. ASSUME NEW c \in Chains, NewSideToken(c)
      PROVE  IsFiniteSet(AllEvents') /\ RoutesInv' /\ WholeInv' /\ Backed'
  <2>1. PICK origin \in Chains \ {c}, tok \in {k \in Tokens : Home[k] # c} :
           CreateSideToken(c, origin, tok)
    BY <1>7 DEF NewSideToken
  <2>2. /\ sideTokens' = [sideTokens EXCEPT ![c] = @ \cup {Side(c, origin, tok)}]
        /\ UNCHANGED <<events, claimed, locked, supply>>
    BY <2>1 DEF CreateSideToken, acceptVars, ledger
  <2>3. IsFiniteSet(AllEvents') /\ WholeInv' /\ Backed' /\ AllEvents' = AllEvents
    BY <2>2, LedgerStays
  <2>4. PICK x : x = Side(c, origin, tok)
    OBVIOUS
  <2>5. x.chain = c /\ x.origin # c /\ Home[x.tok] # c
    BY <2>4 DEF Side
  <2>6. ASSUME NEW d \in Chains, NEW s \in sideTokens'[d]
        PROVE  s.chain = d /\ Home[s.tok] # d /\ s.origin # d
    <3>1. s \in sideTokens[d] \/ (d = c /\ s = x)
      BY <2>2, <2>4 DEF LedgerInv, TypeOK
    <3>. QED
      BY <2>5, <3>1 DEF LedgerInv, RoutesInv
  <2>. QED
    BY <2>3, <2>6 DEF LedgerInv, RoutesInv
<1>8. ASSUME NEW c \in Chains, Administer(c) \/ SetKnownToken(c)
      PROVE  IsFiniteSet(AllEvents') /\ RoutesInv' /\ WholeInv' /\ Backed'
  <2>1. NewSideToken(c) \/ UNCHANGED <<events, claimed, locked, supply, sideTokens>>
    BY <1>8 DEF Administer, SetKnownToken, SetKnownTokenByChain, SetPaused,
                SetUpgrading, SetFeePercentage, acceptVars, ledger
  <2>. QED
    BY <1>6, <1>7, <2>1
<1>9. ASSUME NEW c \in Chains, Relay(c)
      PROVE  UNCHANGED <<events, claimed, locked, supply, sideTokens>>
  BY <1>9 DEF Relay, AcceptTransfer, ledger
<1>10. CASE UNCHANGED bridgeVars
  BY <1>6, <1>10 DEF bridgeVars
<1>. QED
  BY <1>3, <1>4, <1>5, <1>6, <1>8, <1>9, <1>10 DEF Next

(* Every side token in circulation and every crossing nobody claimed yet is  *)
(* backed by original tokens a bridge keeps: for any chains, tokens,          *)
(* decimals, fees, amounts and events, whatever owners set, and however       *)
(* often a transaction is reported or moved (crossTokens and _claim of        *)
(* Bridge).                                                                   *)
THEOREM BackedCorrect == Spec => []Backed
<1>1. LedgerInv => Backed
  BY DEF LedgerInv
<1>. QED
  BY <1>1, LedgerInit, LedgerStep, PTL DEF Spec

-----------------------------------------------------------------------------
(* The system: the inductive invariant *)

SystemTypes ==
    /\ BridgeTypes
    /\ members = [c \in Chains |-> Federators]
    /\ votes \in [Chains -> [Fed!Ids -> SUBSET Members]]
    /\ processed \in [Chains -> SUBSET Events]

(* A federator that is not misled voted for nothing that was not logged.    *)
HonestVotes ==
    \A c \in Chains, e \in Events, m \in Members \ Misled :
        m \in votes[c][e] => IsGenuine(e) /\ e.origin # c

(* Nobody votes under the id of contract v3.                                *)
NoLegacyVotes ==
    \A c \in Chains, e \in Events : votes[c][LegacyIdOf(e)] = {}

SystemInv ==
    /\ SystemTypes
    /\ HonestVotes
    /\ NoLegacyVotes
    /\ ProcessedIsAccepted

(* An id of contract v3 is no event: it names no chains.                    *)
LEMMA LegacyIdsDiffer ==
    ASSUME NEW e \in Events
    PROVE  LegacyIdOf(e) \notin Events /\ LegacyIdOf(e) \in Fed!Ids /\ e \in Fed!Ids
<1>1. \A f \in Events : "origin" \in DOMAIN f
  BY BridgeConstants
<1>2. "origin" \notin DOMAIN LegacyIdOf(e)
  BY DEF LegacyIdOf
<1>. QED
  BY <1>1, <1>2 DEF Fed!Ids

(* New contracts have processed and accepted nothing.                       *)
LEMMA SystemInitInv == SystemInit => SystemInv
<1>. SUFFICES ASSUME SystemInit PROVE SystemInv
  OBVIOUS
<1>1. SystemTypes
  BY DEF SystemInit, Init, SystemTypes, BridgeTypes
<1>2. HonestVotes /\ NoLegacyVotes
  BY LegacyIdsDiffer DEF SystemInit, HonestVotes, NoLegacyVotes
<1>3. ProcessedIsAccepted
  BY BridgeConstants DEF SystemInit, Init, ProcessedIsAccepted
<1>. QED
  BY <1>1, <1>2, <1>3 DEF SystemInv

(* What users and owners do accepts nothing and takes no event back.        *)
LEMMA OperateKeeps ==
    ASSUME BridgeTypes, NEW c \in Chains, Operate(c)
    PROVE  /\ accepted' = accepted
           /\ events' \in [Chains -> SUBSET Events]
           /\ \A e \in Events : IsGenuine(e) => IsGenuine(e)'
<1>1. CASE Cross(c)
  BY <1>1, CrossKeeps DEF IsGenuine
<1>2. CASE Reorganisation(c)
  BY <1>2, ReorganisationKeeps
<1>3. CASE accepted' = accepted /\ events' = events
  BY <1>3 DEF IsGenuine, AllEvents, BridgeTypes
<1>4. Claim(c) => accepted' = accepted /\ events' = events
  BY DEF Claim, ClaimOriginal, ClaimSide
<1>5. NewSideToken(c) => accepted' = accepted /\ events' = events
  BY DEF NewSideToken, CreateSideToken, acceptVars
<1>6. SetPaused(c) => accepted' = accepted /\ events' = events
  BY DEF SetPaused, acceptVars
<1>7. SetKnownToken(c) => accepted' = accepted /\ events' = events
  BY DEF SetKnownToken, SetKnownTokenByChain, acceptVars
<1>. QED
  BY <1>1, <1>2, <1>3, <1>4, <1>5, <1>6, <1>7 DEF Operate

-----------------------------------------------------------------------------
(* Votes *)

(* The vote that makes the quorum has a federator behind it that is not     *)
(* misled, so the transfer was logged.                                      *)
LEMMA QuorumIsGenuine ==
    ASSUME SystemInv, NEW c \in Chains, NEW m \in Members, NEW e \in Events,
           e.origin # c, m \in Misled \/ e \in AllEvents,
           Fed!ValidateTransaction(c, e, Fed!WithVote(c, m, e))
    PROVE  IsGenuine(e)
<1>. DEFINE V == Fed!WithVote(c, m, e)[c][e]
                 \cup Fed!WithVote(c, m, e)[c][LegacyIdOf(e)]
<1>1. V = votes[c][e] \cup {m}
  BY LegacyIdsDiffer
     DEF SystemInv, SystemTypes, BridgeTypes, NoLegacyVotes, Fed!WithVote
<1>2. Cardinality({i \in DOMAIN Federators : Federators[i] \in V})
         >= (Len(Federators) \div 2) + 1
  <2>1. members[c] = Federators
    BY DEF SystemInv, SystemTypes, BridgeTypes
  <2>2. Cardinality({i \in DOMAIN members[c] : members[c][i] \in V})
           >= (Len(members[c]) \div 2) + 1
    BY CountsAgree DEF Fed!ValidateTransaction, Fed!GetMinimalNumberOfVotes
  <2>. QED
    BY <2>1, <2>2
<1>3. PICK h \in Members \ Misled : h \in V
  BY <1>2, MajorityIsHonest
<1>4. CASE h = m
  BY <1>4, EventsAreGenuine DEF SystemInv, SystemTypes
<1>5. CASE h \in votes[c][e]
  BY <1>5 DEF SystemInv, HonestVotes
<1>. QED
  BY <1>1, <1>3, <1>4, <1>5

(* A vote that completes the quorum is a report of an ideal federation.     *)
LEMMA VoteRelays ==
    ASSUME SystemInv, NEW c \in Chains, NEW m \in Members, NEW e \in Events,
           Vote(c, m, e)
    PROVE  \/ processed' = processed /\ UNCHANGED bridgeVars
           \/ /\ processed' = [processed EXCEPT ![c] = @ \cup {e}]
              /\ IsGenuine(e) /\ e.origin # c /\ AcceptTransfer(c, e)
<1>1. /\ e.origin # c
      /\ m \in Misled \/ e \in AllEvents
      /\ Fed!VoteTransaction(c, m, e, "COIN", CanAccept(c, e))
      /\ IF processed'[c] = processed[c] THEN UNCHANGED bridgeVars
                                         ELSE AcceptTransfer(c, e)
  BY DEF Vote
<1>2. CASE processed' = processed
  BY <1>1, <1>2
<1>3. CASE processed' # processed
  <2>1. /\ Fed!ValidateTransaction(c, e, Fed!WithVote(c, m, e))
        /\ processed' = [processed EXCEPT ![c] = @ \cup {e}]
    BY <1>1, <1>3 DEF Fed!VoteTransaction, Fed!AcceptTransfer
  <2>2. processed'[c] # processed[c]
    BY <1>3, <2>1 DEF SystemInv, SystemTypes, BridgeTypes
  <2>. QED
    BY <1>1, <2>1, <2>2, QuorumIsGenuine
<1>. QED
  BY <1>2, <1>3

(* A vote is of a misled member, or for an event of another chain.          *)
LEMMA VoteKeepsTypes ==
    ASSUME SystemInv, NEW c \in Chains, NEW m \in Members, NEW e \in Events,
           Vote(c, m, e)
    PROVE  /\ SystemTypes'
           /\ votes' = Fed!WithVote(c, m, e)
           /\ events' = events
           /\ e.origin # c
           /\ m \in Misled \/ e \in AllEvents
<1>1. /\ votes' = Fed!WithVote(c, m, e)
      /\ members' = members
      /\ e.origin # c
      /\ m \in Misled \/ e \in AllEvents
  BY DEF Vote, Fed!VoteTransaction, Fed!govVars
<1>2. e.tx \in TxHashes
  BY BridgeConstants
<1>3. /\ events' = events
      /\ accepted' \in [Chains -> [TxHashes -> Events \cup {NoTransfer}]]
      /\ processed' \in [Chains -> SUBSET Events]
  <2>1. CASE processed' = processed /\ UNCHANGED bridgeVars
    BY <2>1 DEF SystemInv, SystemTypes, BridgeTypes, bridgeVars
  <2>2. CASE /\ processed' = [processed EXCEPT ![c] = @ \cup {e}]
             /\ AcceptTransfer(c, e)
    BY <1>2, <2>2 DEF SystemInv, SystemTypes, BridgeTypes, AcceptTransfer
  <2>. QED
    BY <2>1, <2>2, VoteRelays
<1>4. votes' \in [Chains -> [Fed!Ids -> SUBSET Members]]
  BY <1>1, LegacyIdsDiffer DEF SystemInv, SystemTypes, BridgeTypes, Fed!WithVote
<1>. QED
  BY <1>1, <1>3, <1>4 DEF SystemInv, SystemTypes, BridgeTypes

(* So the votes of the others stay votes for genuine events.                *)
LEMMA VoteKeepsVotes ==
    ASSUME SystemInv, NEW c \in Chains, NEW m \in Members, NEW e \in Events,
           Vote(c, m, e)
    PROVE  HonestVotes' /\ NoLegacyVotes'
<1>1. /\ votes' = [votes EXCEPT ![c][e] = @ \cup {m}]
      /\ events' = events
      /\ e.origin # c
      /\ m \in Misled \/ e \in AllEvents
  BY VoteKeepsTypes DEF Fed!WithVote
<1>2. HonestVotes'
  <2>. SUFFICES ASSUME NEW d \in Chains, NEW f \in Events,
                       NEW h \in Members \ Misled, h \in votes'[d][f]
                PROVE  IsGenuine(f)' /\ f.origin # d
    BY DEF HonestVotes
  <2>1. IsGenuine(f) => IsGenuine(f)'
    BY <1>1 DEF IsGenuine, AllEvents
  <2>2. CASE h \in votes[d][f]
    BY <2>1, <2>2 DEF SystemInv, HonestVotes
  <2>3. CASE h \notin votes[d][f]
    <3>1. d = c /\ f = e /\ h = m
      BY <1>1, <2>3, LegacyIdsDiffer DEF SystemInv, SystemTypes, BridgeTypes
    <3>. QED
      BY <1>1, <2>1, <3>1, EventsAreGenuine DEF SystemInv, SystemTypes
  <2>. QED
    BY <2>2, <2>3
<1>3. NoLegacyVotes'
  <2>. SUFFICES ASSUME NEW d \in Chains, NEW f \in Events
                PROVE  votes'[d][LegacyIdOf(f)] = {}
    BY DEF NoLegacyVotes
  <2>1. LegacyIdOf(f) # e
    BY LegacyIdsDiffer
  <2>2. votes'[d][LegacyIdOf(f)] = votes[d][LegacyIdOf(f)]
    BY <1>1, <2>1, LegacyIdsDiffer DEF SystemInv, SystemTypes, BridgeTypes
  <2>. QED
    BY <2>2 DEF SystemInv, NoLegacyVotes
<1>. QED
  BY <1>2, <1>3

(* The mark of the federation and the slot of the bridge are set together.  *)
LEMMA VoteKeepsAgreement ==
    ASSUME SystemInv, NEW c \in Chains, NEW m \in Members, NEW e \in Events,
           Vote(c, m, e)
    PROVE  ProcessedIsAccepted'
<1>1. CASE processed' = processed /\ UNCHANGED bridgeVars
  BY <1>1 DEF SystemInv, ProcessedIsAccepted, bridgeVars
<1>2. CASE /\ processed' = [processed EXCEPT ![c] = @ \cup {e}]
           /\ AcceptTransfer(c, e)
  <2>1. e.tx \in TxHashes /\ NoTransfer \notin Events
    BY BridgeConstants
  <2>2. /\ accepted[c][e.tx] = NoTransfer
        /\ accepted' = [accepted EXCEPT ![c][e.tx] = e]
    BY <1>2 DEF AcceptTransfer, CanAccept
  <2>. SUFFICES ASSUME NEW d \in Chains, NEW f \in Events
                PROVE  f \in processed'[d] <=> accepted'[d][f.tx] = f
    BY DEF ProcessedIsAccepted
  <2>3. f.tx \in TxHashes /\ (f \in processed[d] <=> accepted[d][f.tx] = f)
    BY BridgeConstants DEF SystemInv, ProcessedIsAccepted
  <2>4. CASE d = c /\ f.tx = e.tx
    BY <1>2, <2>1, <2>2, <2>3, <2>4 DEF SystemInv, SystemTypes, BridgeTypes
  <2>5. CASE ~(d = c /\ f.tx = e.tx)
    BY <1>2, <2>1, <2>2, <2>3, <2>5 DEF SystemInv, SystemTypes, BridgeTypes
  <2>. QED
    BY <2>4, <2>5
<1>. QED
  BY <1>1, <1>2, VoteRelays

-----------------------------------------------------------------------------
(* Steps of the system *)

(* Every step keeps the system invariant.                                   *)
LEMMA SystemStep ==
    ASSUME SystemInv, [SystemNext]_<<bridgeVars, federationVars>>
    PROVE  SystemInv'
<1>1. ASSUME NEW c \in Chains, NEW m \in Members, NEW e \in Events, Vote(c, m, e)
      PROVE  SystemInv'
  BY <1>1, VoteKeepsTypes, VoteKeepsVotes, VoteKeepsAgreement DEF SystemInv
<1>2. ASSUME NEW c \in Chains, Operate(c)
      PROVE  SystemInv'
  <2>1. /\ accepted' = accepted
        /\ events' \in [Chains -> SUBSET Events]
        /\ \A e \in Events : IsGenuine(e) => IsGenuine(e)'
    BY <1>2, OperateKeeps DEF SystemInv, SystemTypes
  <2>2. members' = members /\ votes' = votes /\ processed' = processed
    BY <1>2 DEF Operate, federationVars
  <2>3. SystemTypes' /\ NoLegacyVotes' /\ ProcessedIsAccepted'
    BY <2>1, <2>2
       DEF SystemInv, SystemTypes, BridgeTypes, NoLegacyVotes, ProcessedIsAccepted
  <2>4. HonestVotes'
    BY <2>1, <2>2 DEF SystemInv, HonestVotes
  <2>. QED
    BY <2>3, <2>4 DEF SystemInv
<1>3. CASE UNCHANGED <<bridgeVars, federationVars>>
  <2>1. /\ events' = events /\ accepted' = accepted /\ members' = members
        /\ votes' = votes /\ processed' = processed
    BY <1>3 DEF bridgeVars, federationVars
  <2>. QED
    BY <2>1 DEF SystemInv, SystemTypes, BridgeTypes, HonestVotes, NoLegacyVotes,
                ProcessedIsAccepted, IsGenuine, AllEvents
<1>. QED
  BY <1>1, <1>2, <1>3 DEF SystemNext

(* What the federators do to the bridges, ideal federations may do.         *)
LEMMA StepIsIdeal ==
    ASSUME SystemInv, [SystemNext]_<<bridgeVars, federationVars>>
    PROVE  [Next]_bridgeVars
<1>1. ASSUME NEW c \in Chains, NEW m \in Members, NEW e \in Events, Vote(c, m, e)
      PROVE  [Next]_bridgeVars
  BY <1>1, VoteRelays DEF Next, Relay
<1>2. ASSUME NEW c \in Chains, Operate(c)
      PROVE  [Next]_bridgeVars
  BY <1>2 DEF Operate, Next, Administer
<1>. QED
  BY <1>1, <1>2 DEF SystemNext

-----------------------------------------------------------------------------
(* Theorems *)

(* The federation of a chain holds a transfer as processed exactly when the *)
(* bridge holds it as accepted, for any number of chains and federators.    *)
THEOREM AgreementCorrect == SystemSpec => []ProcessedIsAccepted
<1>1. SystemInv => ProcessedIsAccepted
  BY DEF SystemInv
<1>. QED
  BY <1>1, SystemInitInv, SystemStep, PTL DEF SystemSpec

(* While at most half of the federators are misled, the bridges do nothing  *)
(* that they would not do with ideal federations, so that what module Bridge*)
(* promises of those holds of the system.                                   *)
THEOREM RefinementCorrect == SystemSpec => ImplementsIdealBridge
<1>1. SystemInit => Init
  BY DEF SystemInit
<1>. QED
  BY <1>1, SystemInitInv, SystemStep, StepIsIdeal, PTL
     DEF SystemSpec, ImplementsIdealBridge, Spec

(* In particular, with the federators that vote, too, no crossing is claimed*)
(* twice or where it was not sent.                                          *)
THEOREM SystemClaimedOnce == SystemSpec => []ClaimedOnceAtDestination
  BY RefinementCorrect, ClaimedOnceCorrect, PTL DEF ImplementsIdealBridge

(* And every crossing lives as CrossTransfer promises.                      *)
THEOREM SystemPromise == SystemSpec => ImplementsCrossTransfer
  BY RefinementCorrect, PromiseCorrect, PTL DEF ImplementsIdealBridge

(* And every token is backed, while at most half of the federators are       *)
(* misled.                                                                   *)
THEOREM SystemIsBacked == SystemSpec => []Backed
  BY RefinementCorrect, BackedCorrect, PTL DEF ImplementsIdealBridge

-----------------------------------------------------------------------------
(* The federations of the system are those of module Federation              *)

LEMMA FederatorList ==
    /\ Len(Federators) \in Nat \ {0}
    /\ Federators \in [1..Len(Federators) -> Members] /\ IsInjective(Federators)
    /\ Range(Federators) = Members
<1>1. Len(Federators) \in Nat /\ Federators \in [1..Len(Federators) -> Members]
  BY FederatorsDiffer
<1>2. Len(Federators) # 0
  BY <1>1, RequiredIsValid
<1>. QED
  BY <1>1, <1>2, FederatorsDiffer DEF Range, Members

(* Module Federation is used within its assumptions, so that its theorems    *)
(* hold of the federations here: an id of contract v3 names no chains and is *)
(* no event, and the federators are finitely many.                           *)
LEMMA FederationFits == Fed!FedConstants
<1>1. Len(Federators) \in Nat \ {0}
  BY FederatorList
<1>2. Events \cap {LegacyIdOf(e) : e \in Events} = {}
  BY LegacyIdsDiffer
<1>3. \A e \in Events : LegacyIdOf(e) \in {LegacyIdOf(f) : f \in Events}
  OBVIOUS
<1>4. IsFiniteSet(Members)
  <2>1. DOMAIN Federators = 1..Len(Federators)
    BY FederatorList
  <2>2. IsFiniteSet(1..Len(Federators))
    BY <1>1, FS_Interval
  <2>. DEFINE f == [i \in 1..Len(Federators) |-> Federators[i]]
  <2>3. f \in Surjection(1..Len(Federators), Members)
    BY <2>1 DEF Surjection, Members
  <2>. QED
    BY <2>2, <2>3, FS_Surjection
<1>. QED
  BY <1>1, <1>2, <1>3, <1>4 DEF Fed!FedConstants, Fed!IsFiniteSet, IsFiniteSet

LEMMA SystemStarts == SystemInit => Fed!Init
<1>. SUFFICES ASSUME SystemInit
              PROVE  Fed!Init
  OBVIOUS
<1>1. Federators \in Fed!MemberLists /\ Fed!Range(Federators) = Members
  BY FederatorList DEF Fed!MemberLists, Fed!IsInjective, IsInjective, Fed!Range, Range
<1>2. /\ members \in [Chains -> Fed!MemberLists]
      /\ isMember = [c \in Chains |-> Fed!Range(members[c])]
  BY <1>1 DEF SystemInit
<1>3. /\ required \in [Chains -> 1..Len(Federators)]
      /\ \A c \in Chains : required[c] <= Len(members[c])
  BY FederatorList, RequiredIsValid DEF SystemInit
<1>4. \E old \in [Chains -> [{LegacyIdOf(e) : e \in Events} -> SUBSET Members]] :
          votes = [c \in Chains |-> [id \in Fed!Ids |->
                      IF id \in {LegacyIdOf(e) : e \in Events} THEN old[c][id] ELSE {}]]
  <2>. DEFINE none == [c \in Chains |-> [id \in {LegacyIdOf(e) : e \in Events} |-> {}]]
  <2>1. none \in [Chains -> [{LegacyIdOf(e) : e \in Events} -> SUBSET Members]]
    OBVIOUS
  <2>2. \A c \in Chains, id \in {LegacyIdOf(e) : e \in Events} : none[c][id] = {}
    OBVIOUS
  <2>. HIDE DEF none
  <2>3. votes = [c \in Chains |-> [id \in Fed!Ids |->
                    IF id \in {LegacyIdOf(e) : e \in Events} THEN none[c][id] ELSE {}]]
    BY <2>2 DEF SystemInit
  <2>. QED
    BY <2>1, <2>3
<1>5. /\ processed \in [Chains -> SUBSET {LegacyIdOf(e) : e \in Events}]
      /\ bridge \in [Chains -> [{"COIN"} -> Chains]]
      /\ delivered = [c \in Chains |-> [e \in Events |-> <<>>]]
  BY DEF SystemInit
<1>. QED
  BY <1>2, <1>3, <1>4, <1>5 DEF Fed!Init

LEMMA SystemVotes ==
    [SystemNext]_<<bridgeVars, federationVars>> => [Fed!FixedNext]_Fed!fedVars
<1>. SUFFICES ASSUME [SystemNext]_<<bridgeVars, federationVars>>
              PROVE  [Fed!FixedNext]_Fed!fedVars
  OBVIOUS
<1>1. ASSUME NEW c \in Chains, NEW m \in Members, NEW e \in Events, Vote(c, m, e)
      PROVE  Fed!FixedNext
  <2>1. Fed!VoteTransaction(c, m, e, "COIN", CanAccept(c, e))
    BY <1>1 DEF Vote
  <2>2. \E ok \in BOOLEAN : Fed!VoteTransaction(c, m, e, "COIN", ok)
    <3>1. CASE CanAccept(c, e)
      BY <2>1, <3>1 DEF Fed!VoteTransaction
    <3>2. CASE ~CanAccept(c, e)
      BY <2>1, <3>2 DEF Fed!VoteTransaction
    <3>. QED
      BY <3>1, <3>2
  <2>. QED
    BY <2>2 DEF Fed!FixedNext, Fed!Vote
<1>2. ASSUME NEW c \in Chains, Operate(c)
      PROVE  UNCHANGED Fed!fedVars
  BY <1>2 DEF Operate, federationVars, Fed!fedVars
<1>3. UNCHANGED <<bridgeVars, federationVars>> => UNCHANGED Fed!fedVars
  BY DEF federationVars, Fed!fedVars
<1>. QED
  BY <1>1, <1>2, <1>3 DEF SystemNext

(* Seen alone, the federations of the system behave as module Federation     *)
(* says while the owner does nothing: what is proved there of quorums, of    *)
(* repeated deliveries and of conflicting readings holds here, whatever      *)
(* users, owners of the bridges and reorganisations do, and with any number  *)
(* of misled federators.                                                     *)
THEOREM FederationsCorrect == SystemSpec => Fed!FixedSpec
BY SystemStarts, SystemVotes, PTL DEF SystemSpec, Fed!FixedSpec
=============================================================================
