-------------------------------- MODULE Sums --------------------------------
(***************************************************************************)
(* Facts about SumFunctionOnSet for every finite set, which say how much   *)
(* money a set of tokens or transactions amounts to.  The library's        *)
(* induction theorems have an operator as a parameter; here induction is   *)
(* on a set of sets (SetInduction), which follows from the theorems on     *)
(* well-founded orders, and the function is a value.                       *)
(***************************************************************************)
EXTENDS Integers, Functions, FiniteSets, FiniteSetTheorems, WellFoundedInduction, TLAPS

\* A collection of finite subsets of S has a smallest member.
LEMMA Minimal ==
  ASSUME NEW S, NEW F, F \subseteq FiniteSubsetsOf(S), F # {}
  PROVE  \E T \in F : \A U \in F : U \subseteq T => U = T
<1>1. PICK T \in F : \A U \in F : <<U, T>> \notin StrictSubsetOrdering(S)
  BY FS_StrictSubsetOrderingWellFounded, WFMin
<1>2. ASSUME NEW U \in F, U \subseteq T PROVE U = T
  BY <1>1, <1>2 DEF StrictSubsetOrdering, FiniteSubsetsOf
<1> QED BY <1>2

\* Induction on the subsets of a finite set: what holds of a set if it holds of
\* all smaller ones holds of S.
LEMMA SetInduction ==
  ASSUME NEW S, IsFiniteSet(S), NEW F,
         \A T \in SUBSET S : (\A U \in SUBSET T : U # T => U \in F) => T \in F
  PROVE  S \in F
<1> DEFINE Bad == {T \in SUBSET S : T \notin F}
<1>1. SUFFICES ASSUME Bad # {} PROVE FALSE
  OBVIOUS
<1>2. Bad \subseteq FiniteSubsetsOf(S)
  BY FS_Subset DEF FiniteSubsetsOf
<1>3. PICK T \in Bad : \A U \in Bad : U \subseteq T => U = T
  <2> HIDE DEF Bad
  <2> QED BY <1>1, <1>2, Minimal
<1>4. \A U \in SUBSET T : U # T => U \in F
  BY <1>3
<1> QED BY <1>4

-----------------------------------------------------------------------------
\* The function that the fold of SumFunctionOnSet defines.
Pick(s) == CHOOSE x \in s : TRUE
Rec(f, S, g) ==
  g = [s \in SUBSET S |-> IF s = {} THEN 0 ELSE f[Pick(s)] + g[s \ {Pick(s)}]]
Recursion(f, S) == CHOOSE g : Rec(f, S, g)

\* The sum is the value of that function.
LEMMA SumIsRecursion ==
  ASSUME NEW f, NEW S
  PROVE  SumFunctionOnSet(f, S) = Recursion(f, S)[S]
BY DEF SumFunctionOnSet, FoldFunctionOnSet, MapThenFoldSet, Recursion, Rec, Pick

\* Two such functions agree where both are defined.
LEMMA RecAgree ==
  ASSUME NEW f, NEW S, NEW T, IsFiniteSet(T), T \subseteq S,
         NEW g, NEW h, Rec(f, S, g), Rec(f, T, h)
  PROVE  g[T] = h[T]
<1> DEFINE F == {U \in SUBSET T : g[U] = h[U]}
<1>1. ASSUME NEW U \in SUBSET T, \A V \in SUBSET U : V # U => V \in F
      PROVE  U \in F
  <2>1. CASE U = {}
    BY <2>1 DEF Rec
  <2>2. CASE U # {}
    <3>1. Pick(U) \in U
      BY <2>2 DEF Pick
    <3>2. g[U \ {Pick(U)}] = h[U \ {Pick(U)}]
      BY <1>1, <3>1
    <3>3. g[U] = f[Pick(U)] + g[U \ {Pick(U)}]
      BY <2>2 DEF Rec
    <3>4. h[U] = f[Pick(U)] + h[U \ {Pick(U)}]
      BY <2>2 DEF Rec
    <3> QED BY <3>2, <3>3, <3>4
  <2> QED BY <2>1, <2>2
<1> HIDE DEF F
<1>2. T \in F
  BY <1>1, SetInduction
<1> QED BY <1>2 DEF F

\* For a finite set there is one.
LEMMA RecExists ==
  ASSUME NEW f, NEW S, IsFiniteSet(S)
  PROVE  Rec(f, S, Recursion(f, S))
<1> DEFINE F == {T \in SUBSET S : \E g : Rec(f, T, g)}
<1>1. ASSUME NEW T \in SUBSET S, \A U \in SUBSET T : U # T => U \in F
      PROVE  T \in F
  <2> DEFINE sum(U) == Recursion(f, U)[U]
             g == [s \in SUBSET T |-> IF s = {} THEN 0 ELSE f[Pick(s)] + sum(s \ {Pick(s)})]
  <2>1. ASSUME NEW U \in SUBSET T, U # T PROVE Rec(f, U, Recursion(f, U))
    BY <1>1, <2>1 DEF Recursion
  <2>2. ASSUME NEW s \in SUBSET T, s # {} PROVE g[s \ {Pick(s)}] = sum(s \ {Pick(s)})
    <3> DEFINE U == s \ {Pick(s)}
               V == U \ {Pick(U)}
    <3>1. Pick(s) \in s /\ U \in SUBSET T /\ U # T /\ IsFiniteSet(U)
      BY <2>2, FS_Subset DEF Pick
    <3>2. Rec(f, U, Recursion(f, U))
      BY <3>1, <2>1
    <3>3. CASE U = {}
      <4>1. g[U] = 0
        BY <3>1, <3>3
      <4>2. Recursion(f, U)[U] = 0
        BY <3>2, <3>3 DEF Rec
      <4> QED BY <4>1, <4>2
    <3>4. CASE U # {}
      <4>1. Pick(U) \in U /\ V \in SUBSET U /\ V # T /\ V \in SUBSET T /\ IsFiniteSet(V)
        BY <3>1, <3>4, FS_Subset DEF Pick
      <4>2. Rec(f, V, Recursion(f, V))
        BY <4>1, <2>1
      <4>3. Recursion(f, U)[V] = Recursion(f, V)[V]
        <5> HIDE DEF U, V
        <5> QED BY <3>2, <4>1, <4>2, RecAgree
      <4>4. Recursion(f, U)[U] = f[Pick(U)] + Recursion(f, U)[V]
        <5> HIDE DEF U
        <5> QED BY <3>2, <3>4 DEF Rec
      <4>5. g[U] = f[Pick(U)] + sum(V)
        BY <3>1, <3>4
      <4> QED BY <4>3, <4>4, <4>5
    <3> QED BY <3>3, <3>4
  <2>3. Rec(f, T, g)
    <3>1. g = [s \in SUBSET T |-> IF s = {} THEN 0 ELSE f[Pick(s)] + g[s \ {Pick(s)}]]
      BY <2>2
    <3> HIDE DEF g
    <3> QED BY <3>1 DEF Rec
  <2> HIDE DEF g
  <2> QED BY <2>3
<1> HIDE DEF F
<1>2. S \in F
  BY <1>1, SetInduction
<1> QED BY <1>2 DEF F, Recursion

\* The sum over a set, by the element that the fold picks.
LEMMA SumPick ==
  ASSUME NEW f, NEW S, IsFiniteSet(S), S # {}
  PROVE  /\ Pick(S) \in S
         /\ SumFunctionOnSet(f, S) = f[Pick(S)] + SumFunctionOnSet(f, S \ {Pick(S)})
<1> DEFINE T == S \ {Pick(S)}
<1>1. Pick(S) \in S /\ T \subseteq S /\ IsFiniteSet(T)
  BY FS_Subset DEF Pick
<1>2. Rec(f, S, Recursion(f, S)) /\ Rec(f, T, Recursion(f, T))
  BY <1>1, RecExists
<1>3. Recursion(f, S)[T] = Recursion(f, T)[T]
  <2> HIDE DEF T
  <2> QED BY <1>1, <1>2, RecAgree
<1>4. Recursion(f, S)[S] = f[Pick(S)] + Recursion(f, S)[T]
  BY <1>2 DEF Rec
<1> QED BY <1>1, <1>3, <1>4, SumIsRecursion

-----------------------------------------------------------------------------
\* The sum over no elements.
LEMMA SumEmpty == ASSUME NEW f PROVE SumFunctionOnSet(f, {}) = 0
<1>1. Rec(f, {}, Recursion(f, {}))
  BY FS_EmptySet, RecExists
<1> QED BY <1>1, SumIsRecursion DEF Rec

\* A sum of integers is one, and any element may be taken out first.
LEMMA SumElement ==
  ASSUME NEW f, NEW S, IsFiniteSet(S), \A x \in S : f[x] \in Int
  PROVE  /\ SumFunctionOnSet(f, S) \in Int
         /\ \A x \in S : SumFunctionOnSet(f, S) = f[x] + SumFunctionOnSet(f, S \ {x})
<1> DEFINE sum(T) == SumFunctionOnSet(f, T)
           F == {T \in SUBSET S : /\ sum(T) \in Int
                                 /\ \A x \in T : sum(T) = f[x] + sum(T \ {x})}
<1>1. ASSUME NEW T \in SUBSET S, \A U \in SUBSET T : U # T => U \in F
      PROVE  T \in F
  <2>1. CASE T = {}
    BY <2>1, SumEmpty
  <2>2. CASE T # {}
    <3> DEFINE p == Pick(T)
    <3>1. p \in T /\ sum(T) = f[p] + sum(T \ {p})
      BY <2>2, FS_Subset, SumPick
    <3>2. T \ {p} \in F
      BY <1>1, <3>1
    <3>3. sum(T) \in Int
      BY <3>1, <3>2
    <3>4. ASSUME NEW x \in T, x # p PROVE sum(T) = f[x] + sum(T \ {x})
      <4>1. T \ {x} \in F /\ p \in T \ {x} /\ x \in T \ {p}
        BY <1>1, <3>1, <3>4
      <4>2. (T \ {p}) \ {x} = (T \ {x}) \ {p}
        OBVIOUS
      <4>3. sum(T \ {p}) = f[x] + sum((T \ {p}) \ {x})
        BY <3>2, <4>1
      <4>4. sum(T \ {x}) = f[p] + sum((T \ {x}) \ {p})
        BY <4>1
      <4>5. (T \ {p}) \ {x} \in F
        BY <1>1, <3>1, <4>1
      <4>6. /\ f[x] \in Int /\ f[p] \in Int /\ sum((T \ {p}) \ {x}) \in Int
        BY <3>1, <4>5
      <4>7. sum(T) = f[p] + (f[x] + sum((T \ {p}) \ {x}))
        BY <3>1, <4>3
      <4>8. sum(T \ {x}) = f[p] + sum((T \ {p}) \ {x})
        BY <4>2, <4>4
      <4> HIDE DEF p, sum
      <4> QED BY <4>6, <4>7, <4>8
    <3> HIDE DEF p
    <3> QED BY <3>1, <3>3, <3>4
  <2> QED BY <2>1, <2>2
<1> HIDE DEF F
<1>2. S \in F
  BY <1>1, SetInduction
<1> QED BY <1>2 DEF F

\* Adding an element.
LEMMA SumAdd ==
  ASSUME NEW f, NEW S, IsFiniteSet(S), NEW x, x \notin S,
         \A y \in S \cup {x} : f[y] \in Int
  PROVE  SumFunctionOnSet(f, S \cup {x}) = SumFunctionOnSet(f, S) + f[x]
<1>1. IsFiniteSet(S \cup {x}) /\ (S \cup {x}) \ {x} = S
  BY FS_AddElement
<1>2. SumFunctionOnSet(f, S \cup {x}) = f[x] + SumFunctionOnSet(f, S)
  BY <1>1, SumElement
<1>3. SumFunctionOnSet(f, S) \in Int
  BY SumElement
<1> QED BY <1>2, <1>3

\* Only the values on the set count.
LEMMA SumSame ==
  ASSUME NEW f, NEW g, NEW S, IsFiniteSet(S), \A x \in S : f[x] = g[x]
  PROVE  SumFunctionOnSet(f, S) = SumFunctionOnSet(g, S)
<1> DEFINE F == {T \in SUBSET S : SumFunctionOnSet(f, T) = SumFunctionOnSet(g, T)}
<1>1. ASSUME NEW T \in SUBSET S, \A U \in SUBSET T : U # T => U \in F
      PROVE  T \in F
  <2>1. CASE T = {}
    BY <2>1, SumEmpty
  <2>2. CASE T # {}
    <3>1. IsFiniteSet(T)
      BY FS_Subset
    <3>2. Pick(T) \in T /\ SumFunctionOnSet(f, T) = f[Pick(T)] + SumFunctionOnSet(f, T \ {Pick(T)})
      BY <2>2, <3>1, SumPick
    <3>3. SumFunctionOnSet(g, T) = g[Pick(T)] + SumFunctionOnSet(g, T \ {Pick(T)})
      BY <2>2, <3>1, SumPick
    <3>4. T \ {Pick(T)} \in F
      BY <1>1, <3>2
    <3> QED BY <3>2, <3>3, <3>4
  <2> QED BY <2>1, <2>2
<1> HIDE DEF F
<1>2. S \in F
  BY <1>1, SetInduction
<1> QED BY <1>2 DEF F

\* A set in two parts.
LEMMA SumUnion ==
  ASSUME NEW f, NEW S, NEW T, IsFiniteSet(S), IsFiniteSet(T), S \cap T = {},
         \A x \in S \cup T : f[x] \in Int
  PROVE  SumFunctionOnSet(f, S \cup T) = SumFunctionOnSet(f, S) + SumFunctionOnSet(f, T)
<1> DEFINE sum(U) == SumFunctionOnSet(f, U)
           F == {U \in SUBSET T : sum(S \cup U) = sum(S) + sum(U)}
<1>1. ASSUME NEW U \in SUBSET T, \A V \in SUBSET U : V # U => V \in F
      PROVE  U \in F
  <2>1. CASE U = {}
    <3>1. sum(S) \in Int /\ S \cup U = S
      BY <2>1, SumElement
    <3> QED BY <2>1, <3>1, SumEmpty
  <2>2. CASE U # {}
    <3>1. PICK x \in U : TRUE
      BY <2>2
    <3>2. U \ {x} \in F /\ (S \cup U) \ {x} = S \cup (U \ {x})
      BY <1>1, <3>1
    <3>3. IsFiniteSet(U) /\ IsFiniteSet(S \cup U) /\ IsFiniteSet(U \ {x})
      BY FS_Subset, FS_Union
    <3>4. sum(U) = f[x] + sum(U \ {x}) /\ sum(U \ {x}) \in Int /\ sum(S) \in Int
      BY <3>1, <3>3, SumElement
    <3>5. sum(S \cup U) = f[x] + sum((S \cup U) \ {x})
      BY <3>1, <3>3, SumElement
    <3>6. f[x] \in Int /\ sum(S \cup (U \ {x})) = sum(S) + sum(U \ {x})
      BY <3>1, <3>2
    <3>7. sum(S \cup U) = f[x] + (sum(S) + sum(U \ {x}))
      BY <3>2, <3>5, <3>6
    <3>8. sum(S \cup U) = sum(S) + sum(U)
      <4> HIDE DEF sum
      <4> QED BY <3>4, <3>6, <3>7
    <3> QED BY <3>8
  <2> QED BY <2>1, <2>2
<1> HIDE DEF F
<1>2. T \in F
  BY <1>1, SetInduction
<1> QED BY <1>2 DEF F

\* A sum of natural numbers is one.
LEMMA SumNat ==
  ASSUME NEW f, NEW S, IsFiniteSet(S), \A x \in S : f[x] \in Nat
  PROVE  SumFunctionOnSet(f, S) \in Nat
<1> DEFINE F == {T \in SUBSET S : SumFunctionOnSet(f, T) \in Nat}
<1>1. ASSUME NEW T \in SUBSET S, \A U \in SUBSET T : U # T => U \in F
      PROVE  T \in F
  <2>1. CASE T = {}
    BY <2>1, SumEmpty
  <2>2. CASE T # {}
    <3>1. Pick(T) \in T /\ SumFunctionOnSet(f, T) = f[Pick(T)] + SumFunctionOnSet(f, T \ {Pick(T)})
      BY <2>2, FS_Subset, SumPick
    <3>2. T \ {Pick(T)} \in F
      BY <1>1, <3>1
    <3> QED BY <3>1, <3>2
  <2> QED BY <2>1, <2>2
<1> HIDE DEF F
<1>2. S \in F
  BY <1>1, SetInduction
<1> QED BY <1>2 DEF F

\* What is left when a part is taken away.
LEMMA SumRemove ==
  ASSUME NEW f, NEW S, IsFiniteSet(S), NEW T \in SUBSET S, \A x \in S : f[x] \in Int
  PROVE  SumFunctionOnSet(f, S \ T) = SumFunctionOnSet(f, S) - SumFunctionOnSet(f, T)
<1>1. IsFiniteSet(T) /\ IsFiniteSet(S \ T) /\ (S \ T) \cup T = S /\ (S \ T) \cap T = {}
  BY FS_Subset
<1>2. SumFunctionOnSet(f, S) = SumFunctionOnSet(f, S \ T) + SumFunctionOnSet(f, T)
  BY <1>1, SumUnion
<1>3. SumFunctionOnSet(f, S \ T) \in Int /\ SumFunctionOnSet(f, T) \in Int
  BY <1>1, SumElement
<1> QED BY <1>2, <1>3

\* A part of natural numbers is not more than the whole.
LEMMA SumPart ==
  ASSUME NEW f, NEW S, IsFiniteSet(S), NEW T \in SUBSET S, \A x \in S : f[x] \in Nat
  PROVE  SumFunctionOnSet(f, T) <= SumFunctionOnSet(f, S)
<1>1. SumFunctionOnSet(f, S \ T) = SumFunctionOnSet(f, S) - SumFunctionOnSet(f, T)
  BY SumRemove
<1>2. /\ SumFunctionOnSet(f, S \ T) \in Nat
      /\ SumFunctionOnSet(f, S) \in Nat /\ SumFunctionOnSet(f, T) \in Nat
  BY FS_Subset, SumNat
<1> QED BY <1>1, <1>2
-----------------------------------------------------------------------------
(* Sums that are made of other sums.                                        *)

\* The form of induction these use: one more element.
LEMMA AddInduction ==
  ASSUME NEW S, IsFiniteSet(S), NEW F, {} \in F,
         \A T \in SUBSET S : \A x \in S \ T : T \in F => T \cup {x} \in F
  PROVE  S \in F
<1>1. ASSUME NEW T \in SUBSET S, \A U \in SUBSET T : U # T => U \in F
      PROVE  T \in F
  <2>1. CASE T # {}
    <3>1. PICK x \in T : TRUE
      BY <2>1
    <3>2. T \ {x} \in F /\ (T \ {x}) \cup {x} = T
      BY <1>1, <3>1
    <3> QED BY <3>1, <3>2
  <2> QED BY <2>1
<1> QED BY <1>1, SetInduction

\* A finite union of finite sets.
LEMMA FiniteFamily ==
  ASSUME NEW D, IsFiniteSet(D), NEW G, \A t \in D : IsFiniteSet(G[t])
  PROVE  IsFiniteSet(UNION {G[t] : t \in D})
<1> DEFINE All(E) == UNION {G[t] : t \in E}
           F == {E \in SUBSET D : IsFiniteSet(All(E))}
<1>1. {} \in F
  <2>1. All({}) = {}
    OBVIOUS
  <2> HIDE DEF All
  <2> QED BY <2>1, FS_EmptySet
<1>2. ASSUME NEW E \in SUBSET D, NEW t \in D \ E, E \in F PROVE E \cup {t} \in F
  <2>1. All(E \cup {t}) = All(E) \cup G[t]
    OBVIOUS
  <2> HIDE DEF All
  <2> QED BY <1>2, <2>1, FS_Union
<1> HIDE DEF F
<1>3. D \in F
  BY <1>1, <1>2, AddInduction
<1> QED BY <1>3 DEF F

\* U is made of the sets G[t], which have nothing in common.
Splits(U, D, G) ==
  /\ \A x : x \in U <=> \E t \in D : x \in G[t]
  /\ \A t \in D : IsFiniteSet(G[t])
  /\ \A t, u \in D : t # u => G[t] \cap G[u] = {}

\* A union of disjoint sets amounts to the sum of what they amount to.
LEMMA SumFamily ==
  ASSUME NEW f, NEW D, IsFiniteSet(D), NEW G, NEW U, NEW g,
         Splits(U, D, G),
         \A t \in D : g[t] = SumFunctionOnSet(f, G[t]),
         \A x \in U : f[x] \in Int
  PROVE  IsFiniteSet(U) /\ SumFunctionOnSet(f, U) = SumFunctionOnSet(g, D)
<1> USE DEF Splits
<1> DEFINE All(E) == {x \in U : \E t \in E : x \in G[t]}
           F == {E \in SUBSET D : /\ IsFiniteSet(All(E))
                                 /\ SumFunctionOnSet(f, All(E)) = SumFunctionOnSet(g, E)}
<1>1. {} \in F
  <2>1. All({}) = {}
    OBVIOUS
  <2> HIDE DEF All
  <2> QED BY <2>1, SumEmpty, FS_EmptySet
<1>2. ASSUME NEW E \in SUBSET D, NEW t \in D \ E, E \in F PROVE E \cup {t} \in F
  <2>1. All(E \cup {t}) = All(E) \cup G[t] /\ All(E) \cap G[t] = {}
    OBVIOUS
  <2>2. IsFiniteSet(All(E)) /\ IsFiniteSet(G[t]) /\ IsFiniteSet(All(E) \cup G[t]) /\ IsFiniteSet(E)
    BY <1>2, FS_Union, FS_Subset
  <2>3. \A x \in All(E) \cup G[t] : f[x] \in Int
    OBVIOUS
  <2>4. \A u \in D : g[u] = SumFunctionOnSet(f, G[u]) /\ g[u] \in Int
    BY SumElement
  <2>5. SumFunctionOnSet(f, All(E) \cup G[t]) = SumFunctionOnSet(f, All(E)) + SumFunctionOnSet(f, G[t])
    <3> HIDE DEF All
    <3> QED BY <2>1, <2>2, <2>3, SumUnion
  <2>6. SumFunctionOnSet(g, E \cup {t}) = SumFunctionOnSet(g, E) + g[t]
    BY <2>2, <2>4, SumAdd
  <2> HIDE DEF All
  <2> QED BY <1>2, <2>1, <2>2, <2>4, <2>5, <2>6
<1> HIDE DEF F
<1>3. D \in F
  BY <1>1, <1>2, AddInduction
<1>4. All(D) = U
  OBVIOUS
<1> QED BY <1>3, <1>4 DEF F

\* One term.
LEMMA SumOne == ASSUME NEW f, NEW x, f[x] \in Int PROVE SumFunctionOnSet(f, {x}) = f[x]
<1>1. SumFunctionOnSet(f, {} \cup {x}) = SumFunctionOnSet(f, {}) + f[x]
  BY SumAdd, FS_EmptySet
<1>2. {} \cup {x} = {x}
  OBVIOUS
<1> QED BY <1>1, <1>2, SumEmpty

\* U is what the members of D name, each something else.
Lists(n, D, U) ==
  /\ \A x : x \in U <=> \E t \in D : x = n[t]
  /\ \A t, u \in D : t # u => n[t] # n[u]

\* A sum over names is a sum over what they name.
LEMMA SumImage ==
  ASSUME NEW f, NEW D, IsFiniteSet(D), NEW n, NEW U, NEW g,
         Lists(n, D, U),
         \A t \in D : g[t] = f[n[t]] /\ g[t] \in Int
  PROVE  IsFiniteSet(U) /\ SumFunctionOnSet(f, U) = SumFunctionOnSet(g, D)
<1> DEFINE G == [t \in D |-> {n[t]}]
<1>1. \A t \in D : IsFiniteSet(G[t])
  BY FS_Singleton
<1>2. \A t \in D : g[t] = SumFunctionOnSet(f, G[t])
  BY SumOne
<1>3. Splits(U, D, G)
  BY <1>1 DEF Splits, Lists
<1>4. \A x \in U : f[x] \in Int
  BY DEF Lists
<1> HIDE DEF G
<1> QED BY <1>2, <1>3, <1>4, SumFamily

\* Sums of sums and of differences.
LEMMA SumPlus ==
  ASSUME NEW f, NEW g, NEW h, NEW S, IsFiniteSet(S),
         \A x \in S : f[x] \in Int /\ g[x] \in Int /\ h[x] = f[x] + g[x]
  PROVE  SumFunctionOnSet(h, S) = SumFunctionOnSet(f, S) + SumFunctionOnSet(g, S)
<1> DEFINE sum(k, T) == SumFunctionOnSet(k, T)
           F == {T \in SUBSET S : sum(h, T) = sum(f, T) + sum(g, T)}
<1>1. {} \in F
  BY SumEmpty
<1>2. ASSUME NEW T \in SUBSET S, NEW x \in S \ T, T \in F PROVE T \cup {x} \in F
  <2>1. IsFiniteSet(T)
    BY FS_Subset
  <2>2. \A y \in S : h[y] \in Int /\ f[y] \in Int /\ g[y] \in Int
    OBVIOUS
  <2>3. sum(h, T \cup {x}) = sum(h, T) + h[x]
    BY <2>1, <2>2, SumAdd
  <2>4. sum(f, T \cup {x}) = sum(f, T) + f[x]
    BY <2>1, <2>2, SumAdd
  <2>5. sum(g, T \cup {x}) = sum(g, T) + g[x]
    BY <2>1, <2>2, SumAdd
  <2>6. sum(f, T) \in Int /\ sum(g, T) \in Int
    BY <2>1, <2>2, SumElement
  <2>7. sum(h, T) = sum(f, T) + sum(g, T) /\ h[x] = f[x] + g[x]
    BY <1>2
  <2> HIDE DEF sum
  <2>8. sum(h, T \cup {x}) = sum(f, T \cup {x}) + sum(g, T \cup {x})
    BY <2>2, <2>3, <2>4, <2>5, <2>6, <2>7
  <2> QED BY <2>8
<1> HIDE DEF F
<1>3. S \in F
  BY <1>1, <1>2, AddInduction
<1> QED BY <1>3 DEF F

\* What is zero outside a part does not count.
LEMMA SumWhere ==
  ASSUME NEW f, NEW h, NEW S, IsFiniteSet(S), NEW P \in SUBSET S,
         \A x \in P : f[x] \in Int /\ h[x] = f[x],
         \A x \in S \ P : h[x] = 0
  PROVE  SumFunctionOnSet(h, S) = SumFunctionOnSet(f, P)
<1> DEFINE F == {T \in SUBSET S : T \subseteq S \ P => SumFunctionOnSet(h, T) = 0}
<1>1. {} \in F
  BY SumEmpty
<1>2. ASSUME NEW T \in SUBSET S, NEW x \in S \ T, T \in F PROVE T \cup {x} \in F
  <2>1. CASE T \cup {x} \subseteq S \ P
    <3>1. \A y \in T \cup {x} : h[y] \in Int
      BY <2>1
    <3>2. SumFunctionOnSet(h, T \cup {x}) = SumFunctionOnSet(h, T) + h[x]
      BY <3>1, FS_Subset, SumAdd
    <3> QED BY <1>2, <2>1, <3>2
  <2> QED BY <2>1
<1>3. SumFunctionOnSet(h, S \ P) = 0
  <2>1. IsFiniteSet(S \ P)
    BY FS_Subset
  <2>2. \A T \in SUBSET (S \ P) : \A x \in (S \ P) \ T : T \in F => T \cup {x} \in F
    BY <1>2
  <2>3. S \ P \in F
    <3> HIDE DEF F
    <3> QED BY <1>1, <2>1, <2>2, AddInduction
  <2> QED BY <2>3
<1>4. IsFiniteSet(P) /\ IsFiniteSet(S \ P) /\ P \cup (S \ P) = S /\ P \cap (S \ P) = {}
  BY FS_Subset
<1>5. \A x \in P \cup (S \ P) : h[x] \in Int
  OBVIOUS
<1>6. SumFunctionOnSet(h, S) = SumFunctionOnSet(h, P) + SumFunctionOnSet(h, S \ P)
  BY <1>4, <1>5, SumUnion
<1>7. SumFunctionOnSet(h, P) = SumFunctionOnSet(f, P)
  BY <1>4, SumSame
<1>8. SumFunctionOnSet(h, P) \in Int
  BY <1>4, <1>5, SumElement
<1> QED BY <1>3, <1>6, <1>7, <1>8

-----------------------------------------------------------------------------
(* Amounts that are counted modulo w.                                       *)

\* What the remainder and the quotient are.
LEMMA Quotient ==
  ASSUME NEW w \in Nat \ {0}, NEW x \in Int
  PROVE  /\ x % w \in 0 .. w - 1 /\ x \div w \in Int
         /\ x = w * (x \div w) + (x % w)
  BY SMT

\* The remainder is what is left of any multiple of w.
LEMMA Remainder ==
  ASSUME NEW w \in Nat \ {0}, NEW q \in Int, NEW r \in 0 .. w - 1
  PROVE  (w * q + r) % w = r
<1> DEFINE x == w * q + r
           p == x \div w
           s == x % w
<1>1. x \in Int
  BY SMT
<1>2. s \in 0 .. w - 1 /\ p \in Int /\ x = w * p + s
  BY <1>1, Quotient
<1>3. w * q + r = w * p + s
  BY <1>2
<1> HIDE DEF x, p, s
<1>4. w * (q - p) = s - r
  BY <1>2, <1>3, SMT
<1>5. ASSUME q = p PROVE r = s
  BY <1>2, <1>4, <1>5, SMT
<1>6. ASSUME q - p >= 1 PROVE r = s
  <2>1. w * (q - p) >= w
    BY <1>2, <1>6, SMT
  <2> QED BY <1>2, <1>4, <2>1, SMT
<1>7. ASSUME p - q >= 1 PROVE r = s
  <2>1. w * (p - q) >= w /\ w * (p - q) = r - s
    BY <1>2, <1>4, <1>7, SMT
  <2> QED BY <1>2, <2>1, SMT
<1>8. q = p \/ q - p >= 1 \/ p - q >= 1
  BY <1>2, SMT
<1>9. r = s
  BY <1>5, <1>6, <1>7, <1>8
<1> QED BY <1>9 DEF s, x

\* A sum may be reduced before the next term is added.
LEMMA ModPlus ==
  ASSUME NEW w \in Nat \ {0}, NEW x \in Int, NEW y \in Int
  PROVE  /\ ((x % w) + y) % w = (x + y) % w
         /\ (x + (y % w)) % w = (x + y) % w
<1>1. ASSUME NEW u \in Int, NEW v \in Int PROVE ((u % w) + v) % w = (u + v) % w
  <2> DEFINE k == u \div w
             r == u % w
             l == (r + v) \div w
             m == (r + v) % w
  <2>1. r \in 0 .. w - 1 /\ k \in Int /\ u = w * k + r
    BY Quotient
  <2>2. m \in 0 .. w - 1 /\ l \in Int /\ r + v = w * l + m
    <3>1. r + v \in Int
      BY <2>1
    <3> QED BY <3>1, Quotient
  <2> HIDE DEF k, r, l
  <2>3. u + v = w * (k + l) + m /\ k + l \in Int
    <3> HIDE DEF m
    <3> QED BY <2>1, <2>2, SMT
  <2>4. (w * (k + l) + m) % w = m
    <3> HIDE DEF m
    <3> QED BY <2>2, <2>3, Remainder
  <2> QED BY <2>3, <2>4 DEF r, m
<1>2. ((y % w) + x) % w = (y + x) % w
  BY <1>1
<1>3. (y % w) \in Int
  BY Quotient
<1>4. (y % w) + x = x + (y % w) /\ y + x = x + y
  <2> HIDE <1>2
  <2> QED BY <1>3
<1> QED BY <1>1, <1>2, <1>4

\* So may the terms.
LEMMA SumModulo ==
  ASSUME NEW w \in Nat \ {0}, NEW f, NEW h, NEW S, IsFiniteSet(S),
         \A x \in S : f[x] \in Int /\ h[x] = f[x] % w
  PROVE  SumFunctionOnSet(h, S) % w = SumFunctionOnSet(f, S) % w
<1> DEFINE sum(k, T) == SumFunctionOnSet(k, T)
           F == {T \in SUBSET S : sum(h, T) % w = sum(f, T) % w}
<1>1. {} \in F
  BY SumEmpty
<1>2. ASSUME NEW T \in SUBSET S, NEW x \in S \ T, T \in F PROVE T \cup {x} \in F
  <2>1. IsFiniteSet(T)
    BY FS_Subset
  <2>2. \A y \in S : h[y] \in Int /\ f[y] \in Int
    BY Quotient
  <2>3. sum(h, T \cup {x}) = sum(h, T) + h[x]
    BY <2>1, <2>2, SumAdd
  <2>4. sum(f, T \cup {x}) = sum(f, T) + f[x]
    BY <2>1, <2>2, SumAdd
  <2>5. sum(h, T) \in Int /\ sum(f, T) \in Int
    BY <2>1, <2>2, SumElement
  <2>6. sum(h, T) % w = sum(f, T) % w /\ h[x] = f[x] % w
    BY <1>2
  <2> HIDE DEF sum
  <2>7. (sum(h, T) + h[x]) % w = ((sum(h, T) % w) + h[x]) % w
    BY <2>2, <2>5, ModPlus
  <2>8. (sum(f, T) + f[x]) % w = ((sum(f, T) % w) + h[x]) % w
    <3>1. (sum(f, T) + f[x]) % w = (sum(f, T) + h[x]) % w
      <4>1. (sum(f, T) + (f[x] % w)) % w = (sum(f, T) + f[x]) % w
        BY <2>2, <2>5, ModPlus
      <4> QED BY <2>6, <4>1
    <3>2. (sum(f, T) + h[x]) % w = ((sum(f, T) % w) + h[x]) % w
      BY <2>2, <2>5, ModPlus
    <3> QED BY <3>1, <3>2
  <2> QED BY <2>3, <2>4, <2>6, <2>7, <2>8
<1> HIDE DEF F
<1>3. S \in F
  BY <1>1, <1>2, AddInduction
<1> QED BY <1>3 DEF F
=============================================================================
