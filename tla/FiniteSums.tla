----------------------------- MODULE FiniteSums -----------------------------
(***************************************************************************)
(* What the folds of the community modules come to when they add up the    *)
(* values of a function over a finite set.  Where one would use induction  *)
(* the proofs take the smallest number or set for which a fact fails,      *)
(* which exists because < is well founded.                                 *)
(***************************************************************************)
EXTENDS Integers, FiniteSets, Functions, FiniteSetTheorems,
        WellFoundedInduction, TLAPS

\* A set of numbers that is not empty has a least element.
LEMMA LeastElement ==
    ASSUME NEW T \in SUBSET Nat, T # {}
    PROVE  \E x \in T : \A y \in T : x <= y
  <1>. DEFINE R == OpToRel(<, Nat)
  <1>1. R = {p \in Nat \X Nat : p[1] < p[2]}
    BY DEF OpToRel
  <1>2. \A x, y \in Nat : y < x => <<y, x>> \in R
    BY <1>1
  <1>3. IsWellFoundedOn(R, Nat)
    BY NatLessThanWellFounded
  <1>. HIDE DEF R
  <1>4. PICK x \in T : \A y \in T : ~(<<y, x>> \in R)
    BY <1>3, WFMin
  <1>5. ASSUME NEW y \in T PROVE x <= y
    <2>1. x \in Nat /\ y \in Nat /\ ~(y < x)
      BY <1>2, <1>4
    <2>. QED BY <2>1
  <1>. QED BY <1>5

\* A set of numbers up to n that is not empty has a greatest element.
LEMMA GreatestElement ==
    ASSUME NEW n \in Nat, NEW T \in SUBSET (0..n), T # {}
    PROVE  \E x \in T : \A y \in T : y <= x
  <1>. DEFINE R == {n - x : x \in T}
  <1>1. R \in SUBSET Nat /\ R # {}
    <2>1. \A x \in T : n - x \in Nat
      OBVIOUS
    <2>. QED BY <2>1
  <1>2. PICK r \in R : \A q \in R : r <= q
    <2>. HIDE DEF R
    <2>. QED BY <1>1, LeastElement
  <1>3. PICK x \in T : r = n - x
    BY <1>2
  <1>4. ASSUME NEW y \in T PROVE y <= x
    <2>1. r <= n - y
      BY <1>2
    <2>2. x \in 0..n /\ y \in 0..n
      OBVIOUS
    <2>. QED BY <1>3, <2>1, <2>2
  <1>. QED BY <1>4

\* Among finite sets one has no proper subset that is among them.
LEMMA SmallestSet ==
    ASSUME NEW F, F # {}, \A T \in F : IsFiniteSet(T)
    PROVE  \E T \in F : \A U \in F : U \subseteq T => U = T
  <1>. DEFINE sizes == {Cardinality(T) : T \in F}
  <1>1. sizes \in SUBSET Nat /\ sizes # {}
    BY FS_CardinalityType
  <1>2. PICK n \in sizes : \A m \in sizes : n <= m
    <2>. HIDE DEF sizes
    <2>. QED BY <1>1, LeastElement
  <1>3. PICK T \in F : n = Cardinality(T)
    BY <1>2
  <1>4. ASSUME NEW U \in F, U \subseteq T PROVE U = T
    <2>1. /\ Cardinality(U) <= Cardinality(T)
          /\ Cardinality(T) = Cardinality(U) => T = U
      BY <1>4, FS_Subset
    <2>2. Cardinality(T) <= Cardinality(U)
      BY <1>2, <1>3
    <2>3. Cardinality(T) \in Nat /\ Cardinality(U) \in Nat
      BY FS_CardinalityType
    <2>. QED BY <2>1, <2>2, <2>3
  <1>. QED BY <1>4

-----------------------------------------------------------------------------
(* The sum as the fold defines it, by the element CHOOSE takes first.      *)

Adds(w, S, f) ==
    f = [s \in SUBSET S |->
            IF s = {} THEN 0
            ELSE w[CHOOSE x \in s : TRUE] + f[s \ {CHOOSE x \in s : TRUE}]]

LEMMA SumUnfolds ==
    ASSUME NEW w, NEW S
    PROVE  SumFunctionOnSet(w, S) = (CHOOSE f : Adds(w, S, f))[S]
  BY DEF SumFunctionOnSet, FoldFunctionOnSet, MapThenFoldSet, Adds

\* The equation of the fold has a solution, built up by the size of the sets.
LEMMA SumExists ==
    ASSUME NEW w, NEW S, IsFiniteSet(S)
    PROVE  \E f : Adds(w, S, f)
  <1>. DEFINE Small(n) == {s \in SUBSET S : Cardinality(s) <= n}
              first(s) == CHOOSE x \in s : TRUE
              Step(f, s) == IF s = {} THEN 0
                            ELSE w[first(s)] + f[s \ {first(s)}]
              Solves(f, n) == f = [s \in Small(n) |-> Step(f, s)]
              N == Cardinality(S)
              Bad == {n \in 0..N : ~\E f : Solves(f, n)}
  <1>1. N \in Nat
    BY FS_CardinalityType
  <1>2. \A s \in SUBSET S : /\ IsFiniteSet(s) /\ Cardinality(s) \in Nat
                            /\ Cardinality(s) <= N
                            /\ Cardinality(s) = 0 <=> s = {}
    BY FS_Subset, FS_CardinalityType, FS_EmptySet
  <1>3. ASSUME NEW s \in SUBSET S, s # {}
        PROVE  /\ s \ {first(s)} \in SUBSET S
               /\ Cardinality(s \ {first(s)}) = Cardinality(s) - 1
    <2>1. first(s) \in s
      BY <1>3
    <2>. QED BY <1>2, <2>1, FS_RemoveElement
  <1>. HIDE DEF first, Step, Solves
  <1>4. Bad = {}
    <2>. SUFFICES ASSUME Bad # {} PROVE FALSE
      OBVIOUS
    <2>1. PICK n \in Bad : \A m \in Bad : n <= m
      <3>1. Bad \in SUBSET Nat
        BY <1>1
      <3>. HIDE DEF Bad
      <3>. QED BY <3>1, LeastElement
    <2>2. n # 0
      <3>1. Small(0) = {{}}
        BY <1>2, FS_EmptySet
      <3>. DEFINE f == [s \in {{}} |-> 0]
      <3>2. \A s \in {{}} : Step(f, s) = 0
        BY DEF Step
      <3>3. f = [s \in Small(0) |-> Step(f, s)]
        <4>1. f = [s \in {{}} |-> Step(f, s)]
          BY <3>2
        <4>. QED BY <3>1, <4>1
      <3>4. Solves(f, 0)
        BY <3>3 DEF Solves
      <3>. HIDE DEF f, Small
      <3>5. 0 \notin Bad
        BY <3>4
      <3>. QED BY <2>1, <3>5
    <2>3. n - 1 \in 0..N /\ n \in 1..N
      BY <1>1, <2>1, <2>2
    <2>4. PICK g : Solves(g, n - 1)
      <3>1. n - 1 \notin Bad
        BY <2>1, <2>3
      <3>. QED BY <2>3, <3>1
    <2>. DEFINE f == [s \in Small(n) |-> Step(g, s)]
    <2>5. \A s \in Small(n - 1) : s \in Small(n) /\ g[s] = Step(g, s)
      <3>1. \A s \in Small(n - 1) : g[s] = Step(g, s)
        BY <2>4 DEF Solves
      <3>2. Small(n - 1) \subseteq Small(n)
        BY <1>2, <2>3
      <3>. QED BY <3>1, <3>2
    <2>6. \A s \in Small(n - 1) : f[s] = g[s]
      BY <2>5
    <2>7. \A s \in Small(n) : s # {} => s \ {first(s)} \in Small(n - 1)
      BY <1>2, <1>3, <2>3
    <2>8. \A s \in Small(n) : Step(f, s) = Step(g, s)
      <3>. SUFFICES ASSUME NEW s \in Small(n) PROVE Step(f, s) = Step(g, s)
        OBVIOUS
      <3>1. s # {} => f[s \ {first(s)}] = g[s \ {first(s)}]
        <4>. HIDE DEF f, Small
        <4>. QED BY <2>6, <2>7
      <3>. HIDE DEF f
      <3>. QED BY <3>1 DEF Step
    <2>9. Solves(f, n)
      <3>1. f = [s \in Small(n) |-> Step(g, s)]
        OBVIOUS
      <3>. HIDE DEF f, Small
      <3>2. f = [s \in Small(n) |-> Step(f, s)]
        BY <2>8, <3>1
      <3>. QED BY <3>2 DEF Solves
    <2>10. \E h : Solves(h, n)
      <3>. HIDE DEF f
      <3>. QED BY <2>9
    <2>. QED BY <2>1, <2>10
  <1>5. PICK f : Solves(f, N)
    BY <1>1, <1>4
  <1>6. Small(N) = SUBSET S
    BY <1>2
  <1>. QED BY <1>5, <1>6 DEF Adds, Solves, Step, first

\* Solutions for a set and for a larger one agree.
LEMMA SolutionsAgree ==
    ASSUME NEW w, NEW S, IsFiniteSet(S), NEW T \in SUBSET S,
           NEW f, Adds(w, S, f), NEW g, Adds(w, T, g)
    PROVE  f[T] = g[T]
  <1>. DEFINE Differ == {s \in SUBSET T : f[s] # g[s]}
              first(s) == CHOOSE x \in s : TRUE
  <1>1. ASSUME NEW s \in SUBSET T
        PROVE  /\ f[s] = IF s = {} THEN 0
                         ELSE w[first(s)] + f[s \ {first(s)}]
               /\ g[s] = IF s = {} THEN 0
                         ELSE w[first(s)] + g[s \ {first(s)}]
    BY DEF Adds
  <1>2. ASSUME Differ # {} PROVE FALSE
    <2>1. \A s \in Differ : IsFiniteSet(s)
      BY FS_Subset
    <2>2. PICK s \in Differ : \A u \in Differ : u \subseteq s => u = s
      <3>. HIDE DEF Differ
      <3>. QED BY <1>2, <2>1, SmallestSet
    <2>3. s # {}
      BY <1>1, <2>2
    <2>4. first(s) \in s
      BY <2>3
    <2>. HIDE DEF first
    <2>5. s \ {first(s)} \notin Differ
      <3>1. s \ {first(s)} \subseteq s /\ s \ {first(s)} # s
        BY <2>4
      <3>. HIDE DEF Differ
      <3>. QED BY <2>2, <3>1
    <2>6. f[s \ {first(s)}] = g[s \ {first(s)}]
      BY <2>2, <2>5
    <2>. QED BY <1>1, <2>2, <2>3, <2>6
  <1>. QED BY <1>2

LEMMA SumOfNone == \A w : SumFunctionOnSet(w, {}) = 0
  <1>. SUFFICES ASSUME NEW w PROVE SumFunctionOnSet(w, {}) = 0
    OBVIOUS
  <1>1. PICK f : f = (CHOOSE g : Adds(w, {}, g))
    OBVIOUS
  <1>2. Adds(w, {}, f)
    BY <1>1, SumExists, FS_EmptySet
  <1>3. f[{}] = 0
    BY <1>2 DEF Adds
  <1>. QED BY <1>1, <1>3, SumUnfolds

\* The element the fold takes first.
LEMMA SumStep ==
    ASSUME NEW w, NEW S, IsFiniteSet(S), S # {}
    PROVE  \E x \in S : SumFunctionOnSet(w, S)
                           = w[x] + SumFunctionOnSet(w, S \ {x})
  <1>. DEFINE x == CHOOSE y \in S : TRUE
              T == S \ {x}
              f == CHOOSE h : Adds(w, S, h)
              g == CHOOSE h : Adds(w, T, h)
  <1>1. x \in S /\ T \in SUBSET S /\ IsFiniteSet(T)
    BY FS_Subset
  <1>2. Adds(w, S, f)
    BY SumExists
  <1>3. Adds(w, T, g)
    BY <1>1, SumExists
  <1>4. SumFunctionOnSet(w, S) = f[S] /\ SumFunctionOnSet(w, T) = g[T]
    BY SumUnfolds
  <1>. HIDE DEF f, g
  <1>5. f[S] = w[x] + f[T]
    BY <1>2 DEF Adds
  <1>6. f[T] = g[T]
    <2>. HIDE DEF T
    <2>. QED BY <1>1, <1>2, <1>3, SolutionsAgree
  <1>. HIDE DEF x
  <1>7. SumFunctionOnSet(w, S) = w[x] + SumFunctionOnSet(w, S \ {x})
    BY <1>4, <1>5, <1>6
  <1>. QED BY <1>1, <1>7

-----------------------------------------------------------------------------
(* What the proofs cite.                                                   *)

LEMMA SumType ==
    ASSUME NEW w, NEW S, IsFiniteSet(S), \A x \in S : w[x] \in Nat
    PROVE  SumFunctionOnSet(w, S) \in Nat
  <1>. DEFINE Wrong == {s \in SUBSET S : SumFunctionOnSet(w, s) \notin Nat}
  <1>1. ASSUME Wrong # {} PROVE FALSE
    <2>1. \A s \in Wrong : IsFiniteSet(s)
      BY FS_Subset
    <2>2. PICK s \in Wrong : \A u \in Wrong : u \subseteq s => u = s
      <3>. HIDE DEF Wrong
      <3>. QED BY <1>1, <2>1, SmallestSet
    <2>3. s # {}
      <3>1. SumFunctionOnSet(w, {}) \in Nat
        <4>1. 0 \in Nat
          OBVIOUS
        <4>. QED BY <4>1, SumOfNone, Zenon
      <3>2. SumFunctionOnSet(w, s) \notin Nat
        BY <2>2
      <3>. QED BY <3>1, <3>2, Zenon
    <2>4. PICK x \in s : SumFunctionOnSet(w, s)
                            = w[x] + SumFunctionOnSet(w, s \ {x})
      BY <2>1, <2>2, <2>3, SumStep
    <2>5. s \ {x} \notin Wrong /\ s \ {x} \in SUBSET S
      BY <2>2, <2>4
    <2>6. SumFunctionOnSet(w, s \ {x}) \in Nat /\ w[x] \in Nat
      BY <2>2, <2>5
    <2>. QED BY <2>2, <2>4, <2>6
  <1>. QED BY <1>1

LEMMA SumOfZeros ==
    ASSUME NEW w, NEW S, IsFiniteSet(S), \A x \in S : w[x] = 0
    PROVE  SumFunctionOnSet(w, S) = 0
  <1>. DEFINE Wrong == {s \in SUBSET S : SumFunctionOnSet(w, s) # 0}
  <1>1. ASSUME Wrong # {} PROVE FALSE
    <2>1. \A s \in Wrong : IsFiniteSet(s)
      BY FS_Subset
    <2>2. PICK s \in Wrong : \A u \in Wrong : u \subseteq s => u = s
      <3>. HIDE DEF Wrong
      <3>. QED BY <1>1, <2>1, SmallestSet
    <2>3. s # {}
      <3>1. SumFunctionOnSet(w, {}) = 0
        BY SumOfNone
      <3>2. SumFunctionOnSet(w, s) # 0
        BY <2>2
      <3>. QED BY <3>1, <3>2, Zenon
    <2>4. PICK x \in s : SumFunctionOnSet(w, s)
                            = w[x] + SumFunctionOnSet(w, s \ {x})
      BY <2>1, <2>2, <2>3, SumStep
    <2>5. s \ {x} \notin Wrong /\ s \ {x} \in SUBSET S
      BY <2>2, <2>4
    <2>6. SumFunctionOnSet(w, s \ {x}) = 0 /\ w[x] = 0
      BY <2>2, <2>5
    <2>. QED BY <2>2, <2>4, <2>6
  <1>. QED BY <1>1

\* The order in which the fold takes the elements does not matter.
LEMMA SumTakesOut ==
    ASSUME NEW w, NEW S, IsFiniteSet(S), \A x \in S : w[x] \in Nat, NEW y \in S
    PROVE  SumFunctionOnSet(w, S) = w[y] + SumFunctionOnSet(w, S \ {y})
  <1>. DEFINE Out(s, z) == SumFunctionOnSet(w, s)
                              = w[z] + SumFunctionOnSet(w, s \ {z})
              Wrong == {s \in SUBSET S : \E z \in s : ~Out(s, z)}
  <1>1. ASSUME Wrong # {} PROVE FALSE
    <2>1. \A s \in SUBSET S : IsFiniteSet(s)
      BY FS_Subset
    <2>2. PICK s \in Wrong : \A u \in Wrong : u \subseteq s => u = s
      <3>1. \A s \in Wrong : IsFiniteSet(s)
        BY <2>1
      <3>. HIDE DEF Wrong
      <3>. QED BY <1>1, <3>1, SmallestSet
    <2>3. PICK z \in s : ~Out(s, z)
      BY <2>2
    <2>4. PICK x \in s : Out(s, x)
      BY <2>1, <2>2, <2>3, SumStep
    <2>5. x # z
      BY <2>3, <2>4
    <2>6. Out(s \ {x}, z)
      <3>1. s \ {x} \in SUBSET S /\ s \ {x} # s /\ s \ {x} \subseteq s
        BY <2>2, <2>4
      <3>2. s \ {x} \notin Wrong
        <4>. HIDE DEF Wrong
        <4>. QED BY <2>2, <3>1
      <3>. QED BY <2>3, <2>5, <3>1, <3>2
    <2>7. Out(s \ {z}, x)
      <3>1. s \ {z} \in SUBSET S /\ s \ {z} # s /\ s \ {z} \subseteq s
        BY <2>2, <2>3
      <3>2. s \ {z} \notin Wrong
        <4>. HIDE DEF Wrong
        <4>. QED BY <2>2, <3>1
      <3>. QED BY <2>4, <2>5, <3>1, <3>2
    <2>. DEFINE rest == SumFunctionOnSet(w, (s \ {x}) \ {z})
    <2>8. (s \ {z}) \ {x} = (s \ {x}) \ {z}
      OBVIOUS
    <2>9. rest \in Nat /\ w[x] \in Nat /\ w[z] \in Nat
      BY <2>1, <2>2, SumType
    <2>10. /\ SumFunctionOnSet(w, s) = w[x] + (w[z] + rest)
           /\ SumFunctionOnSet(w, s \ {z}) = w[x] + rest
      BY <2>4, <2>6, <2>7, <2>8
    <2>. HIDE DEF rest
    <2>11. Out(s, z)
      BY <2>9, <2>10
    <2>. QED BY <2>3, <2>11
  <1>. QED BY <1>1

LEMMA SumAgrees ==
    ASSUME NEW w, NEW v, NEW S, IsFiniteSet(S),
           \A x \in S : w[x] \in Nat /\ v[x] = w[x]
    PROVE  SumFunctionOnSet(v, S) = SumFunctionOnSet(w, S)
  <1>. DEFINE Differ == {s \in SUBSET S :
                            SumFunctionOnSet(v, s) # SumFunctionOnSet(w, s)}
  <1>1. ASSUME Differ # {} PROVE FALSE
    <2>1. \A s \in SUBSET S : IsFiniteSet(s)
      BY FS_Subset
    <2>2. PICK s \in Differ : \A u \in Differ : u \subseteq s => u = s
      <3>1. \A s \in Differ : IsFiniteSet(s)
        BY <2>1
      <3>. HIDE DEF Differ
      <3>. QED BY <1>1, <3>1, SmallestSet
    <2>3. s # {}
      <3>1. SumFunctionOnSet(v, {}) = SumFunctionOnSet(w, {})
        BY SumOfNone
      <3>. QED BY <2>2, <3>1
    <2>4. PICK x \in s : TRUE
      BY <2>3
    <2>5. /\ SumFunctionOnSet(w, s) = w[x] + SumFunctionOnSet(w, s \ {x})
          /\ SumFunctionOnSet(v, s) = v[x] + SumFunctionOnSet(v, s \ {x})
      BY <2>1, <2>2, <2>4, SumTakesOut
    <2>6. s \ {x} \in SUBSET S /\ s \ {x} # s /\ s \ {x} \subseteq s
      BY <2>2, <2>4
    <2>7. s \ {x} \notin Differ
      <3>. HIDE DEF Differ
      <3>. QED BY <2>2, <2>6
    <2>8. SumFunctionOnSet(v, s \ {x}) = SumFunctionOnSet(w, s \ {x})
      BY <2>6, <2>7
    <2>9. SumFunctionOnSet(v, s) = SumFunctionOnSet(w, s)
      BY <2>2, <2>4, <2>5, <2>8
    <2>. QED BY <2>2, <2>9
  <1>. QED BY <1>1

\* One value has grown by d, or is new and d.
LEMMA SumGrows ==
    ASSUME NEW w, NEW v, NEW S, IsFiniteSet(S), NEW y, NEW d \in Nat,
           \A x \in S : w[x] \in Nat,
           \A x \in S \ {y} : v[x] = w[x],
           y \in S => v[y] = w[y] + d,
           y \notin S => v[y] = d
    PROVE  SumFunctionOnSet(v, S \cup {y}) = SumFunctionOnSet(w, S) + d
  <1>. DEFINE rest == SumFunctionOnSet(w, S \ {y})
              T == S \cup {y}
  <1>1. IsFiniteSet(S \ {y}) /\ S \ {y} \subseteq S /\ T \ {y} = S \ {y}
    BY FS_Subset
  <1>2. rest \in Nat
    BY <1>1, SumType
  <1>3. SumFunctionOnSet(v, S \ {y}) = rest
    BY <1>1, SumAgrees
  <1>4. SumFunctionOnSet(v, T) = v[y] + rest
    <2>1. IsFiniteSet(T) /\ y \in T
      BY FS_AddElement
    <2>2. \A x \in T : v[x] \in Nat
      OBVIOUS
    <2>. HIDE DEF T
    <2>3. SumFunctionOnSet(v, T) = v[y] + SumFunctionOnSet(v, T \ {y})
      BY <2>1, <2>2, SumTakesOut
    <2>. QED BY <1>1, <1>3, <2>3
  <1>5. CASE y \in S
    <2>1. SumFunctionOnSet(w, S) = w[y] + rest
      BY <1>5, SumTakesOut
    <2>2. w[y] \in Nat /\ v[y] = w[y] + d
      BY <1>5
    <2>. HIDE DEF rest
    <2>. QED BY <1>2, <1>4, <2>1, <2>2
  <1>6. CASE y \notin S
    <2>1. S \ {y} = S
      BY <1>6
    <2>2. SumFunctionOnSet(w, S) = rest
      BY <2>1
    <2>. HIDE DEF rest
    <2>. QED BY <1>2, <1>4, <1>6, <2>2
  <1>. QED BY <1>5, <1>6

\* A sum is at least what it adds up.
LEMMA SumBounds ==
    ASSUME NEW w, NEW S, IsFiniteSet(S), \A x \in S : w[x] \in Nat, NEW y \in S
    PROVE  w[y] <= SumFunctionOnSet(w, S)
  <1>1. IsFiniteSet(S \ {y}) /\ S \ {y} \subseteq S
    BY FS_Subset
  <1>2. SumFunctionOnSet(w, S \ {y}) \in Nat
    BY <1>1, SumType
  <1>3. SumFunctionOnSet(w, S) = w[y] + SumFunctionOnSet(w, S \ {y})
    BY SumTakesOut
  <1>. QED BY <1>2, <1>3

=============================================================================
