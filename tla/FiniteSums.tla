----------------------------- MODULE FiniteSums -----------------------------
(***************************************************************************)
(* Sums over finite sets, as the models write them (SumFunctionOnSet of    *)
(* the Functions module): that the recursion behind them is defined, and   *)
(* what the proofs need of it; factorials and binomial coefficients in the *)
(* same way, and that they count what they are used to count.              *)
(***************************************************************************)
EXTENDS Integers, FiniteSets, Functions, Combinatorics, FiniteSetTheorems, WellFoundedInduction, TLAPS

\* Induction over a finite set: a property that fails for a part of it fails
\* for a part of which every smaller part has it.
LEMMA SmallestPart ==
  ASSUME NEW S, IsFiniteSet(S), NEW Bad \in SUBSET SUBSET S, Bad # {}
  PROVE  \E X \in Bad : \A Y \in SUBSET X : Y # X => Y \notin Bad
<1>1. FiniteSubsetsOf(S) = SUBSET S
  BY FS_FiniteSubsetsOfFinite
<1>2. IsWellFoundedOn(StrictSubsetOrdering(S), FiniteSubsetsOf(S))
  BY FS_StrictSubsetOrderingWellFounded
<1>3. PICK X \in Bad : \A Y \in Bad : ~(<<Y, X>> \in StrictSubsetOrdering(S))
  BY <1>1, <1>2, WFMin
<1>4. ASSUME NEW Y \in SUBSET X, Y # X, Y \in Bad PROVE FALSE
  <2>1. <<Y, X>> \in StrictSubsetOrdering(S)
    BY <1>4 DEF StrictSubsetOrdering
  <2> QED BY <1>3, <1>4, <2>1
<1> QED BY <1>4

-----------------------------------------------------------------------------
(* The recursion.                                                          *)

Some(s) == CHOOSE x \in s : TRUE

LEMMA SomeIsIn ==
  ASSUME NEW s, s # {}
  PROVE  Some(s) \in s /\ s \ {Some(s)} \subseteq s /\ s \ {Some(s)} # s
<1>1. Some(s) \in s
  BY DEF Some
<1> QED BY <1>1

\* What a sum of f makes of s, given what r has for what is left of s.
SumStep(f, r, s) == IF s = {} THEN 0 ELSE f[Some(s)] + r[s \ {Some(s)}]

SumsUp(f, r, S) == r = [s \in SUBSET S |-> SumStep(f, r, s)]

LEMMA SumUnfolded ==
  ASSUME NEW f, NEW S
  PROVE  SumFunctionOnSet(f, S) = (CHOOSE r : SumsUp(f, r, S))[S]
BY DEF SumFunctionOnSet, FoldFunctionOnSet, MapThenFoldSet, SumsUp, SumStep, Some

LEMMA SumUnique ==
  ASSUME NEW f, NEW S, IsFiniteSet(S), NEW q, NEW r, SumsUp(f, q, S), SumsUp(f, r, S)
  PROVE  q = r
<1> DEFINE Bad == {s \in SUBSET S : q[s] # r[s]}
<1>1. ASSUME Bad # {} PROVE FALSE
  <2>1. Bad \in SUBSET SUBSET S
    OBVIOUS
  <2>2. PICK X \in Bad : \A Y \in SUBSET X : Y # X => Y \notin Bad
    <3> HIDE DEF Bad
    <3> QED BY <1>1, <2>1, SmallestPart
  <2>3. X \in SUBSET S /\ q[X] # r[X]
    OBVIOUS
  <2>4. q[X] = SumStep(f, q, X) /\ r[X] = SumStep(f, r, X)
    BY <2>3 DEF SumsUp
  <2>5. CASE X = {}
    BY <2>3, <2>4, <2>5 DEF SumStep
  <2>6. CASE X # {}
    <3>1. X \ {Some(X)} \in SUBSET S /\ X \ {Some(X)} \notin Bad
      BY <2>2, <2>3, <2>6, SomeIsIn
    <3>2. q[X \ {Some(X)}] = r[X \ {Some(X)}]
      BY <3>1
    <3> QED BY <2>3, <2>4, <2>6, <3>2 DEF SumStep
  <2> QED BY <2>5, <2>6
<1>2. q = [s \in SUBSET S |-> q[s]] /\ r = [s \in SUBSET S |-> r[s]]
  BY DEF SumsUp
<1>3. \A s \in SUBSET S : q[s] = r[s]
  BY <1>1
<1> QED BY <1>2, <1>3

\* The sum of one more is that of what is left, and one more.
LEMMA SumRecursion ==
  ASSUME NEW f, NEW S, IsFiniteSet(S)
  PROVE  SumFunctionOnSet(f, S) =
           IF S = {} THEN 0 ELSE f[Some(S)] + SumFunctionOnSet(f, S \ {Some(S)})
<1> DEFINE Sum(s) == SumFunctionOnSet(f, s)
           Unfolds(s) == Sum(s) = IF s = {} THEN 0 ELSE f[Some(s)] + Sum(s \ {Some(s)})
           Bad == {s \in SUBSET S : ~Unfolds(s)}
<1>1. ASSUME Bad # {} PROVE FALSE
  <2>1. Bad \in SUBSET SUBSET S
    OBVIOUS
  <2>2. PICK X \in Bad : \A Y \in SUBSET X : Y # X => Y \notin Bad
    <3> HIDE DEF Bad
    <3> QED BY <1>1, <2>1, SmallestPart
  <2>3. X \in SUBSET S /\ ~Unfolds(X) /\ IsFiniteSet(X)
    BY FS_Subset
  <2>4. \A Y \in SUBSET X : Y # X => Unfolds(Y)
    BY <2>2, <2>3
  <2> HIDE DEF Bad
  <2> DEFINE top == IF X = {} THEN 0 ELSE f[Some(X)] + Sum(X \ {Some(X)})
             r == [s \in SUBSET X |-> IF s = X THEN top ELSE Sum(s)]
  <2>5. ASSUME NEW s \in SUBSET X PROVE r[s] = SumStep(f, r, s)
    <3>1. CASE s = X
      <4>1. X # {} => X \ {Some(X)} \in SUBSET X /\ X \ {Some(X)} # X
        BY SomeIsIn
      <4>2. X # {} => r[X \ {Some(X)}] = Sum(X \ {Some(X)})
        BY <4>1
      <4>3. r[s] = top
        BY <3>1
      <4> HIDE DEF r
      <4> QED BY <3>1, <4>2, <4>3 DEF SumStep
    <3>2. CASE s # X
      <4>1. s # {} => s \ {Some(s)} \in SUBSET X /\ s \ {Some(s)} # X
        BY <3>2, SomeIsIn
      <4>2. s # {} => r[s \ {Some(s)}] = Sum(s \ {Some(s)})
        BY <4>1
      <4>3. r[s] = Sum(s) /\ Unfolds(s)
        BY <2>4, <3>2
      <4> HIDE DEF r
      <4> QED BY <4>2, <4>3 DEF SumStep
    <3> QED BY <3>1, <3>2
  <2>6. SumsUp(f, r, X)
    <3>1. r = [s \in SUBSET X |-> r[s]]
      OBVIOUS
    <3> HIDE DEF r
    <3>2. [s \in SUBSET X |-> r[s]] = [s \in SUBSET X |-> SumStep(f, r, s)]
      BY <2>5
    <3> QED BY <3>1, <3>2 DEF SumsUp
  <2>7. r[X] = top
    OBVIOUS
  <2> HIDE DEF r
  <2>8. SumsUp(f, CHOOSE q : SumsUp(f, q, X), X)
    BY <2>6
  <2>9. (CHOOSE q : SumsUp(f, q, X)) = r
    BY <2>3, <2>6, <2>8, SumUnique
  <2>10. Sum(X) = top
    BY <2>7, <2>9, SumUnfolded
  <2> QED BY <2>3, <2>10
<1>2. S \in SUBSET S /\ S \notin Bad
  BY <1>1
<1> QED BY <1>2

-----------------------------------------------------------------------------
(* What the proofs use.                                                    *)

LEMMA SumEmpty ==
  ASSUME NEW f
  PROVE  SumFunctionOnSet(f, {}) = 0
BY SumRecursion, FS_EmptySet

LEMMA SumType ==
  ASSUME NEW f, NEW S, IsFiniteSet(S), \A x \in S : f[x] \in Int
  PROVE  SumFunctionOnSet(f, S) \in Int
<1> DEFINE Bad == {s \in SUBSET S : SumFunctionOnSet(f, s) \notin Int}
<1>1. ASSUME Bad # {} PROVE FALSE
  <2>1. Bad \in SUBSET SUBSET S
    OBVIOUS
  <2>2. PICK X \in Bad : \A Y \in SUBSET X : Y # X => Y \notin Bad
    <3> HIDE DEF Bad
    <3> QED BY <1>1, <2>1, SmallestPart
  <2>3. X \in SUBSET S /\ SumFunctionOnSet(f, X) \notin Int /\ IsFiniteSet(X)
    BY FS_Subset
  <2>4. X # {}
    BY <2>3, SumEmpty
  <2>5. X \ {Some(X)} \in SUBSET S /\ X \ {Some(X)} \notin Bad /\ Some(X) \in S
    BY <2>2, <2>3, <2>4, SomeIsIn
  <2>6. SumFunctionOnSet(f, X \ {Some(X)}) \in Int
    BY <2>5
  <2> QED BY <2>3, <2>4, <2>5, <2>6, SumRecursion
<1> QED BY <1>1

\* Any member can be taken out first.
LEMMA SumRemove ==
  ASSUME NEW f, NEW S, IsFiniteSet(S), \A x \in S : f[x] \in Int, NEW y \in S
  PROVE  SumFunctionOnSet(f, S) = f[y] + SumFunctionOnSet(f, S \ {y})
<1> DEFINE Sum(s) == SumFunctionOnSet(f, s)
           Bad == {s \in SUBSET S : \E v \in s : Sum(s) # f[v] + Sum(s \ {v})}
<1>1. ASSUME Bad # {} PROVE FALSE
  <2>1. Bad \in SUBSET SUBSET S
    OBVIOUS
  <2>2. PICK X \in Bad : \A Y \in SUBSET X : Y # X => Y \notin Bad
    <3> HIDE DEF Bad
    <3> QED BY <1>1, <2>1, SmallestPart
  <2>3. X \in SUBSET S /\ IsFiniteSet(X)
    BY FS_Subset
  <2>4. PICK v \in X : Sum(X) # f[v] + Sum(X \ {v})
    OBVIOUS
  <2>5. PICK z : z = Some(X) /\ z \in X
    BY <2>4, SomeIsIn
  <2>6. Sum(X) = f[z] + Sum(X \ {z})
    BY <2>3, <2>5, SumRecursion
  <2>7. z # v
    BY <2>4, <2>6
  <2> DEFINE Rest == X \ {v, z}
  <2>8. Sum(X \ {z}) = f[v] + Sum(Rest)
    <3>1. X \ {z} \in SUBSET X /\ X \ {z} # X /\ v \in X \ {z} /\ (X \ {z}) \ {v} = Rest
      BY <2>4, <2>5, <2>7
    <3> QED BY <2>2, <2>3, <3>1
  <2>9. Sum(X \ {v}) = f[z] + Sum(Rest)
    <3>1. X \ {v} \in SUBSET X /\ X \ {v} # X /\ z \in X \ {v} /\ (X \ {v}) \ {z} = Rest
      BY <2>4, <2>5, <2>7
    <3> QED BY <2>2, <2>3, <3>1
  <2>10. IsFiniteSet(Rest) /\ \A x \in Rest : f[x] \in Int
    BY <2>3, FS_Subset
  <2> HIDE DEF Bad, Rest
  <2>11. Sum(Rest) \in Int /\ f[v] \in Int /\ f[z] \in Int
    BY <2>3, <2>4, <2>5, <2>10, SumType
  <2> QED BY <2>4, <2>6, <2>8, <2>9, <2>11
<1>2. S \in SUBSET S /\ S \notin Bad
  BY <1>1
<1> QED BY <1>2

LEMMA SumAdd ==
  ASSUME NEW f, NEW S, IsFiniteSet(S), NEW y, y \notin S,
         \A x \in S \cup {y} : f[x] \in Int
  PROVE  SumFunctionOnSet(f, S \cup {y}) = f[y] + SumFunctionOnSet(f, S)
<1>1. (S \cup {y}) \ {y} = S /\ IsFiniteSet(S \cup {y}) /\ y \in S \cup {y}
  BY FS_AddElement
<1> QED BY <1>1, SumRemove

\* Only the values at the members count.
LEMMA SumSame ==
  ASSUME NEW f, NEW g, NEW S, IsFiniteSet(S), \A x \in S : f[x] = g[x]
  PROVE  SumFunctionOnSet(f, S) = SumFunctionOnSet(g, S)
<1> DEFINE Bad == {s \in SUBSET S : SumFunctionOnSet(f, s) # SumFunctionOnSet(g, s)}
<1>1. ASSUME Bad # {} PROVE FALSE
  <2>1. Bad \in SUBSET SUBSET S
    OBVIOUS
  <2>2. PICK X \in Bad : \A Y \in SUBSET X : Y # X => Y \notin Bad
    <3> HIDE DEF Bad
    <3> QED BY <1>1, <2>1, SmallestPart
  <2>3. X \in SUBSET S /\ SumFunctionOnSet(f, X) # SumFunctionOnSet(g, X) /\ IsFiniteSet(X)
    BY FS_Subset
  <2>4. X # {}
    BY <2>3, SumEmpty
  <2>5. X \ {Some(X)} \in SUBSET S /\ X \ {Some(X)} \notin Bad /\ Some(X) \in S
    BY <2>2, <2>3, <2>4, SomeIsIn
  <2>6. SumFunctionOnSet(f, X \ {Some(X)}) = SumFunctionOnSet(g, X \ {Some(X)})
    BY <2>5
  <2> QED BY <2>3, <2>4, <2>5, <2>6, SumRecursion
<1> QED BY <1>1

\* Sums over two parts.
LEMMA SumUnion ==
  ASSUME NEW f, NEW S, NEW T, IsFiniteSet(S), IsFiniteSet(T), S \cap T = {},
         \A x \in S \cup T : f[x] \in Int
  PROVE  SumFunctionOnSet(f, S \cup T) = SumFunctionOnSet(f, S) + SumFunctionOnSet(f, T)
<1> DEFINE Sum(s) == SumFunctionOnSet(f, s)
           Bad == {s \in SUBSET T : Sum(S \cup s) # Sum(S) + Sum(s)}
<1>1. ASSUME Bad # {} PROVE FALSE
  <2>1. Bad \in SUBSET SUBSET T
    OBVIOUS
  <2>2. PICK X \in Bad : \A Y \in SUBSET X : Y # X => Y \notin Bad
    <3> HIDE DEF Bad
    <3> QED BY <1>1, <2>1, SmallestPart
  <2>3. X \in SUBSET T /\ Sum(S \cup X) # Sum(S) + Sum(X) /\ IsFiniteSet(X)
    BY FS_Subset
  <2>4. Sum(S) \in Int /\ S \cup {} = S
    BY SumType
  <2>5. X # {}
    BY <2>3, <2>4, SumEmpty
  <2>6. PICK z : z \in X
    BY <2>5
  <2>7. Sum(S \cup (X \ {z})) = Sum(S) + Sum(X \ {z})
    BY <2>2, <2>3, <2>6
  <2>8. /\ S \cup X = (S \cup (X \ {z})) \cup {z} /\ z \notin S \cup (X \ {z})
        /\ IsFiniteSet(S \cup (X \ {z})) /\ IsFiniteSet(X \ {z})
    <3>1. z \in X /\ z \notin S /\ IsFiniteSet(X \ {z})
      BY <2>3, <2>6, FS_RemoveElement
    <3> QED BY <3>1, FS_Union
  <2> HIDE DEF Bad
  <2>9. Sum(S \cup X) = f[z] + Sum(S \cup (X \ {z}))
    <3>1. \A x \in (S \cup (X \ {z})) \cup {z} : f[x] \in Int
      BY <2>3, <2>6
    <3> QED BY <2>8, <3>1, SumAdd
  <2>10. Sum(X) = f[z] + Sum(X \ {z})
    BY <2>3, <2>6, SumRemove
  <2>11. Sum(X \ {z}) \in Int /\ f[z] \in Int
    BY <2>3, <2>6, <2>8, SumType
  <2> QED BY <2>3, <2>4, <2>7, <2>9, <2>10, <2>11
<1>2. T \in SUBSET T /\ T \notin Bad
  BY <1>1
<1> QED BY <1>2

\* The sum of the sums of two values.
LEMMA SumPlus ==
  ASSUME NEW f, NEW g, NEW h, NEW S, IsFiniteSet(S),
         \A x \in S : f[x] \in Int /\ g[x] \in Int /\ h[x] = f[x] + g[x]
  PROVE  SumFunctionOnSet(h, S) = SumFunctionOnSet(f, S) + SumFunctionOnSet(g, S)
<1> DEFINE Sum(k, s) == SumFunctionOnSet(k, s)
           Bad == {s \in SUBSET S : Sum(h, s) # Sum(f, s) + Sum(g, s)}
<1>1. ASSUME Bad # {} PROVE FALSE
  <2>1. Bad \in SUBSET SUBSET S
    OBVIOUS
  <2>2. PICK X \in Bad : \A Y \in SUBSET X : Y # X => Y \notin Bad
    <3> HIDE DEF Bad
    <3> QED BY <1>1, <2>1, SmallestPart
  <2>3. X \in SUBSET S /\ Sum(h, X) # Sum(f, X) + Sum(g, X) /\ IsFiniteSet(X)
    BY FS_Subset
  <2>4. X # {}
    BY <2>3, SumEmpty
  <2>5. PICK z \in X : Sum(h, X \ {z}) = Sum(f, X \ {z}) + Sum(g, X \ {z})
    BY <2>2, <2>3, <2>4
  <2> HIDE DEF Bad
  <2>6. IsFiniteSet(X \ {z}) /\ z \in S
    BY <2>3, FS_RemoveElement
  <2>7. /\ Sum(f, X) = f[z] + Sum(f, X \ {z})
        /\ Sum(g, X) = g[z] + Sum(g, X \ {z})
        /\ Sum(h, X) = h[z] + Sum(h, X \ {z})
    BY <2>3, SumRemove
  <2>8. Sum(f, X \ {z}) \in Int /\ Sum(g, X \ {z}) \in Int
    BY <2>3, <2>6, SumType
  <2> QED BY <2>3, <2>5, <2>6, <2>7, <2>8
<1>2. S \in SUBSET S /\ S \notin Bad
  BY <1>1
<1> QED BY <1>2

LEMMA SumNat ==
  ASSUME NEW f, NEW S, IsFiniteSet(S), \A x \in S : f[x] \in Nat
  PROVE  SumFunctionOnSet(f, S) \in Nat
<1> DEFINE Bad == {s \in SUBSET S : SumFunctionOnSet(f, s) \notin Nat}
<1>1. ASSUME Bad # {} PROVE FALSE
  <2>1. Bad \in SUBSET SUBSET S
    OBVIOUS
  <2>2. PICK X \in Bad : \A Y \in SUBSET X : Y # X => Y \notin Bad
    <3> HIDE DEF Bad
    <3> QED BY <1>1, <2>1, SmallestPart
  <2>3. X \in SUBSET S /\ SumFunctionOnSet(f, X) \notin Nat /\ IsFiniteSet(X)
    BY FS_Subset
  <2>4. X # {}
    BY <2>3, SumEmpty
  <2>5. X \ {Some(X)} \in SUBSET S /\ X \ {Some(X)} \notin Bad /\ Some(X) \in S
    BY <2>2, <2>3, <2>4, SomeIsIn
  <2>6. SumFunctionOnSet(f, X \ {Some(X)}) \in Nat
    BY <2>5
  <2> QED BY <2>3, <2>4, <2>5, <2>6, SumRecursion
<1> QED BY <1>1

-----------------------------------------------------------------------------
(* The same of the sum of all values of a function.                        *)

LEMMA TotalEmpty ==
  ASSUME NEW f, DOMAIN f = {}
  PROVE  SumFunction(f) = 0
BY SumEmpty DEF SumFunction

LEMMA TotalType ==
  ASSUME NEW S, IsFiniteSet(S), NEW f \in [S -> Int]
  PROVE  SumFunction(f) \in Int /\ (f \in [S -> Nat] => SumFunction(f) \in Nat)
<1>1. DOMAIN f = S /\ \A x \in S : f[x] \in Int
  OBVIOUS
<1>2. f \in [S -> Nat] => \A x \in S : f[x] \in Nat
  OBVIOUS
<1> QED BY <1>1, <1>2, SumType, SumNat DEF SumFunction

LEMMA TotalAdd ==
  ASSUME NEW S, IsFiniteSet(S), NEW y, y \notin S, NEW f \in [S -> Int],
         NEW g \in [S \cup {y} -> Int], \A x \in S : g[x] = f[x]
  PROVE  SumFunction(g) = g[y] + SumFunction(f)
<1>1. DOMAIN f = S /\ DOMAIN g = S \cup {y} /\ \A x \in S \cup {y} : g[x] \in Int
  OBVIOUS
<1>2. SumFunctionOnSet(g, S \cup {y}) = g[y] + SumFunctionOnSet(g, S)
  BY <1>1, SumAdd
<1>3. SumFunctionOnSet(g, S) = SumFunctionOnSet(f, S)
  BY SumSame
<1> QED BY <1>1, <1>2, <1>3 DEF SumFunction

LEMMA TotalUnion ==
  ASSUME NEW f, NEW g, NEW h, IsFiniteSet(DOMAIN h), DOMAIN f \subseteq DOMAIN h,
         DOMAIN g = DOMAIN h \ DOMAIN f, \A x \in DOMAIN h : h[x] \in Int,
         \A x \in DOMAIN f : h[x] = f[x], \A x \in DOMAIN g : h[x] = g[x]
  PROVE  SumFunction(h) = SumFunction(f) + SumFunction(g)
<1>1. PICK R, S, T : R = DOMAIN h /\ S = DOMAIN f /\ T = DOMAIN g
  OBVIOUS
<1>2. IsFiniteSet(S) /\ IsFiniteSet(T) /\ S \cap T = {} /\ R = S \cup T
  BY <1>1, FS_Subset
<1>3. SumFunctionOnSet(h, R) = SumFunctionOnSet(h, S) + SumFunctionOnSet(h, T)
  BY <1>1, <1>2, SumUnion
<1>4. SumFunctionOnSet(h, S) = SumFunctionOnSet(f, S)
  BY <1>1, <1>2, SumSame
<1>5. SumFunctionOnSet(h, T) = SumFunctionOnSet(g, T)
  BY <1>1, <1>2, SumSame
<1> QED BY <1>1, <1>3, <1>4, <1>5 DEF SumFunction

LEMMA TotalPlus ==
  ASSUME NEW f, NEW g, NEW h, IsFiniteSet(DOMAIN h), DOMAIN f = DOMAIN h, DOMAIN g = DOMAIN h,
         \A x \in DOMAIN h : f[x] \in Int /\ g[x] \in Int /\ h[x] = f[x] + g[x]
  PROVE  SumFunction(h) = SumFunction(f) + SumFunction(g)
BY SumPlus DEF SumFunction

-----------------------------------------------------------------------------
(* Factorials and binomial coefficients (Combinatorics).                   *)

\* Induction over the natural numbers, on the set of those that have a property.
LEMMA AllNaturals ==
  ASSUME NEW G \in SUBSET Nat, 0 \in G, \A n \in G : n + 1 \in G
  PROVE  G = Nat
<1>1. ASSUME NEW m \in Nat, m \notin G PROVE FALSE
  <2>1. PICK I : I = 1 .. m
    OBVIOUS
  <2> DEFINE Bad == {s \in SUBSET I : \E n \in Nat : n \notin G /\ s = 1 .. n}
  <2>2. IsFiniteSet(I)
    BY <2>1, FS_Interval
  <2>3. PICK X \in Bad : \A Y \in SUBSET X : Y # X => Y \notin Bad
    <3>1. Bad # {}
      BY <1>1, <2>1
    <3>2. Bad \in SUBSET SUBSET I
      OBVIOUS
    <3> HIDE DEF Bad
    <3> QED BY <2>2, <3>1, <3>2, SmallestPart
  <2>4. PICK n \in Nat : n \notin G /\ X = 1 .. n /\ X \in SUBSET (1 .. m)
    BY <2>1
  <2>5. n # 0 /\ n - 1 \in Nat /\ n - 1 \notin G
    BY <2>4
  <2>6. 1 .. (n - 1) \in SUBSET X /\ 1 .. (n - 1) # X
    <3>1. n \in X /\ n \notin 1 .. (n - 1)
      BY <2>4, <2>5
    <3> QED BY <2>4, <2>5, <3>1
  <2>7. 1 .. (n - 1) \in Bad
    BY <2>4, <2>5, <2>6
  <2> QED BY <2>3, <2>6, <2>7
<1> QED BY <1>1

\* The factorials of the numbers up to m.
Factorials(m) ==
  {g \in [0 .. m -> Nat \ {0}] : g[0] = 1 /\ \A n \in 1 .. m : g[n] = n * g[n - 1]}

LEMMA SomeFactorials ==
  ASSUME NEW m \in Nat
  PROVE  Factorials(m) # {}
<1> DEFINE G == {n \in Nat : Factorials(n) # {}}
<1>1. 0 \in G
  <2>1. [n \in 0 .. 0 |-> 1] \in Factorials(0)
    BY DEF Factorials
  <2> QED BY <2>1
<1>2. ASSUME NEW n \in G PROVE n + 1 \in G
  <2>1. PICK g : g \in Factorials(n)
    OBVIOUS
  <2>2. g \in [0 .. n -> Nat \ {0}] /\ g[0] = 1 /\ \A i \in 1 .. n : g[i] = i * g[i - 1]
    BY <2>1 DEF Factorials
  <2> DEFINE h == [i \in 0 .. (n + 1) |-> IF i = n + 1 THEN (n + 1) * g[n] ELSE g[i]]
  <2>3. g[n] \in Nat \ {0} /\ (n + 1) * g[n] \in Nat \ {0}
    BY <2>2
  <2>4. h \in [0 .. (n + 1) -> Nat \ {0}] /\ h[0] = 1
    BY <2>2, <2>3
  <2>5. \A i \in 1 .. (n + 1) : h[i] = i * h[i - 1]
    BY <2>2
  <2>6. h \in Factorials(n + 1)
    <3> HIDE DEF h
    <3> QED BY <2>4, <2>5 DEF Factorials
  <2> QED BY <2>6
<1> HIDE DEF G
<1>3. G = Nat
  BY <1>1, <1>2, AllNaturals DEF G
<1> QED BY <1>3 DEF G

LEMMA OneFactorial ==
  ASSUME NEW m \in Nat, NEW k \in Nat, NEW g \in Factorials(m), NEW h \in Factorials(k),
         NEW n \in Nat, n <= m, n <= k
  PROVE  g[n] = h[n]
<1> DEFINE G == {i \in Nat : i <= m /\ i <= k => g[i] = h[i]}
<1>1. 0 \in G
  BY DEF Factorials
<1>2. ASSUME NEW i \in G PROVE i + 1 \in G
  <2>1. ASSUME i + 1 <= m, i + 1 <= k PROVE g[i + 1] = h[i + 1]
    <3>1. g[i] = h[i] /\ i + 1 \in 1 .. m /\ i + 1 \in 1 .. k /\ i + 1 - 1 = i
      BY <2>1
    <3> QED BY <3>1 DEF Factorials
  <2> QED BY <2>1
<1> HIDE DEF G
<1>3. G = Nat
  BY <1>1, <1>2, AllNaturals DEF G
<1> QED BY <1>3 DEF G

LEMMA FactorialIs ==
  /\ factorial[0] = 1
  /\ \A n \in Nat : factorial[n] \in Nat \ {0} /\ factorial[n + 1] = (n + 1) * factorial[n]
<1> DEFINE Chosen(n) == CHOOSE g : g \in Factorials(n)
           F == [n \in Nat |-> Chosen(n)[n]]
           IsIt(f) == f = [n \in Nat |-> IF n = 0 THEN 1 ELSE n * f[n - 1]]
<1>1. \A n \in Nat : Chosen(n) \in Factorials(n)
  BY SomeFactorials
<1> HIDE DEF Chosen
<1>2. F[0] = 1 /\ \A n \in Nat : F[n] \in Nat \ {0}
  BY <1>1 DEF Factorials
<1>3. ASSUME NEW n \in Nat, n # 0 PROVE F[n] = n * F[n - 1]
  <2>1. n - 1 \in Nat /\ n \in 1 .. n /\ n - 1 <= n
    BY <1>3
  <2>2. Chosen(n)[n] = n * Chosen(n)[n - 1]
    BY <1>1, <2>1 DEF Factorials
  <2>3. Chosen(n)[n - 1] = Chosen(n - 1)[n - 1]
    BY <1>1, <2>1, OneFactorial
  <2> QED BY <2>1, <2>2, <2>3
<1>4. IsIt(F)
  <2>1. F = [n \in Nat |-> F[n]]
    OBVIOUS
  <2> HIDE DEF F
  <2>2. \A n \in Nat : F[n] = IF n = 0 THEN 1 ELSE n * F[n - 1]
    BY <1>2, <1>3
  <2> QED BY <2>1, <2>2
<1> HIDE DEF F
<1>5. factorial = CHOOSE f : IsIt(f)
  BY DEF factorial
<1>6. IsIt(factorial)
  <2> HIDE DEF IsIt
  <2> QED BY <1>4, <1>5
<1>7. factorial[0] = 1 /\ \A n \in Nat : factorial[n + 1] = (n + 1) * factorial[n]
  <2>1. ASSUME NEW n \in Nat PROVE factorial[n] = IF n = 0 THEN 1 ELSE n * factorial[n - 1]
    <3>1. factorial = [i \in Nat |-> IF i = 0 THEN 1 ELSE i * factorial[i - 1]]
      BY <1>6
    <3> QED BY <3>1
  <2> HIDE DEF IsIt
  <2>2. ASSUME NEW n \in Nat PROVE factorial[n + 1] = (n + 1) * factorial[n]
    <3>1. n + 1 \in Nat /\ n + 1 # 0 /\ n + 1 - 1 = n
      OBVIOUS
    <3> QED BY <2>1, <3>1
  <2> QED BY <2>1, <2>2
<1> HIDE DEF IsIt
<1> DEFINE G == {n \in Nat : factorial[n] \in Nat \ {0}}
<1>8. 0 \in G /\ \A n \in G : n + 1 \in G
  <2>1. 0 \in G
    BY <1>7
  <2>2. ASSUME NEW n \in G PROVE n + 1 \in G
    <3>1. PICK a \in Nat \ {0} : a = factorial[n]
      OBVIOUS
    <3>2. factorial[n + 1] = (n + 1) * a /\ n + 1 \in Nat /\ n \in Nat
      BY <1>7, <3>1
    <3>3. (n + 1) * a \in Nat \ {0}
      BY <3>1, <3>2
    <3> QED BY <3>2, <3>3
  <2> QED BY <2>1, <2>2
<1>9. G = Nat
  <2> HIDE DEF G
  <2> QED BY <1>8, AllNaturals DEF G
<1> QED BY <1>7, <1>9

\* The parts of 1 .. n that have k members.
Parts(n, k) == {W \in SUBSET (1 .. n) : Cardinality(W) = k}

LEMMA PartsFinite ==
  ASSUME NEW n \in Nat
  PROVE  /\ IsFiniteSet(1 .. n) /\ Cardinality(1 .. n) = n
         /\ \A W \in SUBSET (1 .. n) :
              IsFiniteSet(W) /\ Cardinality(W) \in Nat /\ Cardinality(W) <= n
         /\ \A T \in SUBSET SUBSET (1 .. n) : IsFiniteSet(T) /\ Cardinality(T) \in Nat
         /\ \A k : Parts(n, k) \in SUBSET SUBSET (1 .. n)
<1>1. PICK I : I = 1 .. n
  OBVIOUS
<1>2. IsFiniteSet(I) /\ Cardinality(I) = n
  BY <1>1, FS_Interval
<1>3. \A W \in SUBSET I : IsFiniteSet(W) /\ Cardinality(W) \in Nat /\ Cardinality(W) <= n
  BY <1>2, FS_Subset, FS_CardinalityType
<1>4. IsFiniteSet(SUBSET I)
  BY <1>2, FS_SUBSET
<1>5. \A T \in SUBSET SUBSET I : IsFiniteSet(T) /\ Cardinality(T) \in Nat
  BY <1>4, FS_Subset, FS_CardinalityType
<1>6. \A k : Parts(n, k) \in SUBSET SUBSET I
  BY <1>1 DEF Parts
<1> QED BY <1>1, <1>2, <1>3, <1>5, <1>6

LEMMA NoParts ==
  ASSUME NEW n \in Nat
  PROVE  /\ Cardinality(Parts(n, 0)) = 1
         /\ \A k \in Nat : k > n => Cardinality(Parts(n, k)) = 0
<1>1. Parts(n, 0) = {{}}
  <2>1. \A W \in SUBSET (1 .. n) : Cardinality(W) = 0 <=> W = {}
    BY PartsFinite, FS_EmptySet
  <2>2. {} \in SUBSET (1 .. n)
    OBVIOUS
  <2> QED BY <2>1, <2>2 DEF Parts
<1>2. \A k \in Nat : k > n => Parts(n, k) = {}
  <2>1. \A W \in SUBSET (1 .. n) : Cardinality(W) \in Nat /\ Cardinality(W) <= n
    BY PartsFinite
  <2> QED BY <2>1 DEF Parts
<1> QED BY <1>1, <1>2, FS_EmptySet, FS_Singleton

\* A part of 1 .. n + 1 is one of 1 .. n, or one of 1 .. n and n + 1.
LEMMA Pascal ==
  ASSUME NEW n \in Nat, NEW k \in Nat
  PROVE  Cardinality(Parts(n + 1, k + 1)) = Cardinality(Parts(n, k + 1)) + Cardinality(Parts(n, k))
<1>1. PICK z : z = n + 1 /\ z \notin 1 .. n /\ 1 .. (n + 1) = (1 .. n) \cup {z}
  OBVIOUS
<1>2. PICK I : I = 1 .. n /\ z \notin I /\ 1 .. (n + 1) = I \cup {z}
  BY <1>1
<1>3. \A W \in SUBSET I : IsFiniteSet(W) /\ Cardinality(W) \in Nat
  BY <1>2, PartsFinite
<1> DEFINE With == {W \in SUBSET (I \cup {z}) : z \in W /\ Cardinality(W) = k + 1}
           f == [W \in Parts(n, k) |-> W \cup {z}]
<1>4. \A W \in SUBSET I : Cardinality(W \cup {z}) = Cardinality(W) + 1 /\ (W \cup {z}) \ {z} = W
  BY <1>2, <1>3, FS_AddElement
<1>5. Parts(n, k) = {W \in SUBSET I : Cardinality(W) = k}
  BY <1>2 DEF Parts
<1>6. ASSUME NEW W \in Parts(n, k) PROVE f[W] \in With /\ f[W] \ {z} = W
  <2>1. W \in SUBSET I /\ Cardinality(W) = k
    BY <1>5
  <2> QED BY <1>4, <2>1
<1>7. ASSUME NEW V \in With PROVE \E W \in Parts(n, k) : f[W] = V
  <2>1. V \ {z} \in SUBSET I /\ (V \ {z}) \cup {z} = V /\ Cardinality(V) = k + 1
    OBVIOUS
  <2>2. Cardinality(V \ {z}) \in Nat /\ Cardinality(V \ {z}) + 1 = k + 1
    BY <1>3, <1>4, <2>1
  <2>3. V \ {z} \in Parts(n, k)
    BY <1>5, <2>1, <2>2
  <2> QED BY <2>1, <2>3
<1>8. f \in Bijection(Parts(n, k), With)
  <2>1. f \in [Parts(n, k) -> With]
    BY <1>6
  <2>2. \A V, W \in Parts(n, k) : f[V] = f[W] => V = W
    BY <1>6
  <2>3. DOMAIN f = Parts(n, k)
    OBVIOUS
  <2> HIDE DEF f, With
  <2> QED BY <1>7, <2>1, <2>2, <2>3 DEF Bijection, Injection, Surjection, IsInjective
<1>9. IsFiniteSet(Parts(n, k)) /\ IsFiniteSet(Parts(n, k + 1)) /\ Cardinality(Parts(n, k + 1)) \in Nat
  BY PartsFinite
<1>10. IsFiniteSet(With) /\ Cardinality(With) = Cardinality(Parts(n, k))
  <2> HIDE DEF f, With
  <2> QED BY <1>8, <1>9, FS_Bijection DEF ExistsBijection
<1>11. Parts(n + 1, k + 1) = Parts(n, k + 1) \cup With
  BY <1>2 DEF Parts
<1>12. Parts(n, k + 1) \cap With = {}
  BY <1>2 DEF Parts
<1> HIDE DEF With
<1>13. Cardinality(Parts(n, k)) \in Nat
  BY PartsFinite
<1>14. Cardinality({}) = 0
  BY FS_EmptySet
<1> QED BY <1>9, <1>10, <1>11, <1>12, <1>13, <1>14, FS_Union

LEMMA PartsCount ==
  ASSUME NEW n \in Nat, NEW k \in 0 .. n
  PROVE  Cardinality(Parts(n, k)) * (factorial[k] * factorial[n - k]) = factorial[n]
<1> DEFINE Counted(m, i) == Cardinality(Parts(m, i)) * (factorial[i] * factorial[m - i]) = factorial[m]
           G == {m \in Nat : \A i \in 0 .. m : Counted(m, i)}
<1>1. \A m \in Nat : Counted(m, 0)
  <2>1. ASSUME NEW m \in Nat PROVE Counted(m, 0)
    <3>1. PICK a \in Nat : a = factorial[m]
      BY FactorialIs
    <3>2. m - 0 = m /\ Cardinality(Parts(m, 0)) = 1 /\ factorial[0] = 1 /\ 1 * (1 * a) = a
      BY NoParts, FactorialIs
    <3> QED BY <3>1, <3>2
  <2> QED BY <2>1
<1>2. 0 \in G
  BY <1>1
<1>3. ASSUME NEW m \in G PROVE m + 1 \in G
  <2>1. ASSUME NEW i \in 0 .. m PROVE Counted(m + 1, i + 1)
    <3>1. PICK a \in Nat, b \in Nat, p \in Nat, q \in Nat, c \in Nat :
            /\ a = Cardinality(Parts(m, i + 1)) /\ b = Cardinality(Parts(m, i))
            /\ p = factorial[i] /\ q = factorial[m - i] /\ c = factorial[m]
      <4>1. m \in Nat /\ i \in Nat /\ m - i \in Nat
        OBVIOUS
      <4>2. factorial[i] \in Nat /\ factorial[m - i] \in Nat /\ factorial[m] \in Nat
        BY <4>1, FactorialIs
      <4>3. Cardinality(Parts(m, i + 1)) \in Nat /\ Cardinality(Parts(m, i)) \in Nat
        BY <4>1, PartsFinite
      <4> QED BY <4>2, <4>3
    <3>2. b * (p * q) = c
      BY <3>1
    <3>3. /\ Cardinality(Parts(m + 1, i + 1)) = a + b
          /\ factorial[i + 1] = (i + 1) * p /\ factorial[m + 1] = (m + 1) * c
          /\ (m + 1) - (i + 1) = m - i
      BY <3>1, Pascal, FactorialIs
    <3>4. SUFFICES (a + b) * (((i + 1) * p) * q) = (m + 1) * c
      BY <3>1, <3>3
    <3>5. (m - i) * c = a * (((i + 1) * p) * q)
      <4>1. CASE i = m
        <5>1. a = 0
          BY <3>1, <4>1, NoParts
        <5> QED BY <4>1, <5>1
      <4>2. CASE i # m
        <5>1. i + 1 \in 0 .. m /\ m - (i + 1) \in Nat /\ m - (i + 1) + 1 = m - i
          BY <4>2
        <5>2. PICK r \in Nat : r = factorial[m - (i + 1)]
          BY <5>1, FactorialIs
        <5>3. q = (m - i) * r
          BY <3>1, <5>1, <5>2, FactorialIs
        <5>4. a * (((i + 1) * p) * r) = c
          BY <3>1, <3>3, <5>1, <5>2
        <5>5. PICK d \in Nat : d = m - i
          OBVIOUS
        <5>6. d * (a * (((i + 1) * p) * r)) = a * (((i + 1) * p) * (d * r))
          OBVIOUS
        <5> QED BY <5>3, <5>4, <5>5, <5>6
      <4> QED BY <4>1, <4>2
    <3>6. b * (((i + 1) * p) * q) = (i + 1) * c
      <4>1. b * (((i + 1) * p) * q) = (i + 1) * (b * (p * q))
        OBVIOUS
      <4> QED BY <3>2, <4>1
    <3>7. (a + b) * (((i + 1) * p) * q) = a * (((i + 1) * p) * q) + b * (((i + 1) * p) * q)
      OBVIOUS
    <3>8. (m - i) * c + (i + 1) * c = (m + 1) * c
      OBVIOUS
    <3> QED BY <3>5, <3>6, <3>7, <3>8
  <2> HIDE DEF Counted
  <2>2. ASSUME NEW j \in 0 .. (m + 1) PROVE Counted(m + 1, j)
    <3>1. CASE j = 0
      BY <1>1, <3>1
    <3>2. CASE j # 0
      <4>1. j - 1 \in 0 .. m /\ j - 1 + 1 = j
        BY <3>2
      <4> QED BY <2>1, <4>1
    <3> QED BY <3>1, <3>2
  <2> QED BY <2>2
<1> HIDE DEF G
<1>4. G = Nat
  BY <1>2, <1>3, AllNaturals DEF G
<1> QED BY <1>4 DEF G

\* A quotient that goes up.
LEMMA Divides ==
  ASSUME NEW q \in Nat, NEW b \in Nat \ {0}, NEW a \in Nat, q * b = a
  PROVE  a \div b = q
<1>1. PICK d \in Int : d = a \div b
  OBVIOUS
<1>2. b * d <= a /\ a < b * d + b
  BY <1>1
<1>3. CASE d < q
  <2>1. b * (d + 1) <= b * q
    BY <1>3
  <2> QED BY <1>2, <2>1
<1>4. CASE d > q
  <2>1. b * (q + 1) <= b * d
    BY <1>4
  <2> QED BY <1>2, <2>1
<1> QED BY <1>1, <1>3, <1>4

\* The binomial coefficient is the number of parts.
LEMMA ChooseIs ==
  ASSUME NEW n \in Nat, NEW k \in 0 .. n
  PROVE  choose(n, k) = Cardinality(Parts(n, k)) /\ choose(n, k) \in Nat
<1>1. PICK q \in Nat, a \in Nat : q = Cardinality(Parts(n, k)) /\ a = factorial[n]
  BY PartsFinite, FactorialIs
<1>2. PICK c \in Nat \ {0}, d \in Nat \ {0} : c = factorial[k] /\ d = factorial[n - k]
  <2>1. k \in Nat /\ n - k \in Nat
    OBVIOUS
  <2>2. factorial[k] \in Nat \ {0} /\ factorial[n - k] \in Nat \ {0}
    BY <2>1, FactorialIs
  <2> QED BY <2>2
<1>3. PICK b \in Nat \ {0} : b = c * d
  OBVIOUS
<1>4. q * b = a
  BY <1>1, <1>2, <1>3, PartsCount
<1>5. a \div b = q
  BY <1>4, Divides
<1> QED BY <1>1, <1>2, <1>3, <1>5 DEF choose

\* A tail of the binomial coefficients counts the parts with as many members.
LEMMA TailIs ==
  ASSUME NEW n \in Nat, NEW w \in 0 .. n
  PROVE  LET tail == SumFunction([k \in w .. n |-> choose(n, k)])
         IN  tail = Cardinality({W \in SUBSET (1 .. n) : Cardinality(W) >= w}) /\ tail \in Nat
<1> DEFINE Terms(v) == [k \in v .. n |-> choose(n, k)]
           Many(v) == {W \in SUBSET (1 .. n) : Cardinality(W) >= v}
           Right(v) == SumFunction(Terms(v)) = Cardinality(Many(v))
           G == {i \in Nat : i <= n + 1 => Right(n + 1 - i)}
<1>1. \A W \in SUBSET (1 .. n) : Cardinality(W) \in Nat /\ Cardinality(W) <= n
  BY PartsFinite
<1>2. Right(n + 1)
  <2>1. Many(n + 1) = {}
    BY <1>1
  <2>2. DOMAIN Terms(n + 1) = {}
    OBVIOUS
  <2> HIDE DEF Terms, Many
  <2> QED BY <2>1, <2>2, TotalEmpty, FS_EmptySet
<1>3. ASSUME NEW v \in 0 .. n, Right(v + 1) PROVE Right(v)
  <2>1. Many(v) = Parts(n, v) \cup Many(v + 1) /\ Parts(n, v) \cap Many(v + 1) = {}
    BY <1>1 DEF Parts
  <2>2. /\ IsFiniteSet(Many(v + 1)) /\ Cardinality(Many(v + 1)) \in Nat
        /\ IsFiniteSet(Parts(n, v)) /\ Cardinality(Parts(n, v)) \in Nat
    BY PartsFinite
  <2>3. choose(n, v) = Cardinality(Parts(n, v)) /\ \A k \in 0 .. n : choose(n, k) \in Int
    BY ChooseIs
  <2>4. v .. n = ((v + 1) .. n) \cup {v} /\ v \notin (v + 1) .. n
    OBVIOUS
  <2>5. Terms(v + 1) \in [(v + 1) .. n -> Int] /\ Terms(v) \in [((v + 1) .. n) \cup {v} -> Int]
    <3>1. \A k \in v .. n : k \in 0 .. n
      OBVIOUS
    <3>2. \A k \in (v + 1) .. n : k \in 0 .. n
      OBVIOUS
    <3>3. Terms(v) \in [v .. n -> Int]
      BY <2>3, <3>1
    <3>4. Terms(v + 1) \in [(v + 1) .. n -> Int]
      BY <2>3, <3>2
    <3> QED BY <2>4, <3>3, <3>4
  <2>6. Terms(v)[v] = choose(n, v) /\ \A k \in (v + 1) .. n : Terms(v)[k] = Terms(v + 1)[k]
    OBVIOUS
  <2>7. IsFiniteSet((v + 1) .. n)
    BY FS_Interval
  <2>8. SumFunction(Terms(v)) = choose(n, v) + SumFunction(Terms(v + 1))
    <3>1. PICK S, f, g : S = (v + 1) .. n /\ f = Terms(v + 1) /\ g = Terms(v)
      OBVIOUS
    <3> HIDE DEF Terms
    <3>2. IsFiniteSet(S) /\ v \notin S /\ f \in [S -> Int] /\ g \in [S \cup {v} -> Int]
      BY <2>4, <2>5, <2>7, <3>1
    <3>3. \A k \in S : g[k] = f[k]
      BY <2>6, <3>1
    <3>4. SumFunction(g) = g[v] + SumFunction(f)
      BY <3>2, <3>3, TotalAdd
    <3> QED BY <2>6, <3>1, <3>4
  <2> HIDE DEF Terms, Many
  <2>9. Cardinality(Many(v)) = Cardinality(Parts(n, v)) + Cardinality(Many(v + 1))
    <3>1. PICK S, T : S = Parts(n, v) /\ T = Many(v + 1)
      OBVIOUS
    <3>2. IsFiniteSet(S) /\ IsFiniteSet(T) /\ S \cap T = {} /\ S \cup T = Many(v)
      BY <2>1, <2>2, <3>1
    <3>3. Cardinality(S \cup T) = Cardinality(S) + Cardinality(T) - Cardinality(S \cap T)
      BY <3>2, FS_Union
    <3>4. Cardinality(S) \in Nat /\ Cardinality(T) \in Nat /\ Cardinality({}) = 0
      BY <2>2, <3>1, FS_EmptySet
    <3>5. Cardinality(S \cap T) = 0
      BY <3>2, <3>4
    <3>6. PICK s \in Nat, r \in Nat : s = Cardinality(S) /\ r = Cardinality(T)
      BY <3>4
    <3>7. Cardinality(S \cup T) = s + r
      BY <3>3, <3>5, <3>6
    <3> QED BY <3>1, <3>2, <3>6, <3>7
  <2> QED BY <1>3, <2>3, <2>8, <2>9
<1>4. 0 \in G
  BY <1>2
<1>5. ASSUME NEW i \in G PROVE i + 1 \in G
  <2>1. ASSUME i + 1 <= n + 1 PROVE Right(n + 1 - (i + 1))
    <3>1. n - i \in 0 .. n /\ n - i + 1 = n + 1 - i /\ n + 1 - (i + 1) = n - i /\ i <= n + 1
      BY <2>1
    <3>2. Right(n + 1 - i)
      BY <3>1
    <3> HIDE DEF Right
    <3>3. Right(n - i + 1)
      BY <3>1, <3>2
    <3> QED BY <1>3, <3>1, <3>3
  <2>2. i + 1 \in Nat
    OBVIOUS
  <2> HIDE DEF Right
  <2> QED BY <2>1, <2>2
<1>6. G = Nat
  <2> HIDE DEF G
  <2> QED BY <1>4, <1>5, AllNaturals DEF G
<1>7. n + 1 - w \in G /\ n + 1 - (n + 1 - w) = w /\ n + 1 - w <= n + 1
  BY <1>6
<1>8. Right(w)
  <2> HIDE DEF Right
  <2> QED BY <1>7
<1>9. Cardinality(Many(w)) \in Nat
  BY PartsFinite
<1> QED BY <1>8, <1>9

=============================================================================
