------------------------------ MODULE SumsProofs -----------------------------
(***************************************************************************)
(* What adding, removing and changing an element does to a sum.  The       *)
(* provers know no induction, so it is done by hand: among the subsets for *)
(* which a statement fails there is one of least size.                     *)
(***************************************************************************)
EXTENDS Sums, FiniteSets, FiniteSetTheorems, WellFoundedInduction, TLAPS

\* The partial sums of f over the subsets of S.
IsSum(g, f, S) ==
    g = [s \in SUBSET S |-> IF s = {} THEN 0
                            ELSE LET x == CHOOSE y \in s : TRUE
                                 IN  f[x] + g[s \ {x}]]

\* The same, for the subsets of at most n elements.
SumsUpTo(g, f, S, n) ==
    \A s \in SUBSET S : Cardinality(s) <= n =>
        g[s] = IF s = {} THEN 0 ELSE f[CHOOSE y \in s : TRUE] + g[s \ {CHOOSE y \in s : TRUE}]

-----------------------------------------------------------------------------
\* A set of numbers has a least one.
LEMMA LeastNumber ==
    ASSUME NEW T \in SUBSET Nat, T # {}
    PROVE  \E x \in T : \A y \in T : x <= y
  <1>1. PICK x \in T : \A y \in T : ~(<<y, x>> \in OpToRel(<, Nat))
    BY NatLessThanWellFounded, WFMin
  <1>2. \A y \in T : ~(y < x)
    BY <1>1 DEF OpToRel
  <1> QED  BY <1>2

\* What a set chooses is in it, and the rest is one smaller.
LEMMA Chosen ==
    ASSUME NEW S, IsFiniteSet(S), NEW s \in SUBSET S, s # {}
    PROVE  /\ (CHOOSE y \in s : TRUE) \in s
           /\ s \ {CHOOSE y \in s : TRUE} \in SUBSET S
           /\ Cardinality(s) \in Nat \ {0}
           /\ Cardinality(s \ {CHOOSE y \in s : TRUE}) = Cardinality(s) - 1
  <1> DEFINE x == CHOOSE y \in s : TRUE
  <1>1. x \in s
    OBVIOUS
  <1>2. IsFiniteSet(s)
    BY FS_Subset
  <1>3. Cardinality(s) \in Nat /\ Cardinality(s) # 0
    BY <1>2, FS_CardinalityType, FS_EmptySet
  <1>4. Cardinality(s \ {x}) = Cardinality(s) - 1
    BY <1>1, <1>2, FS_RemoveElement
  <1> QED  BY <1>1, <1>3, <1>4

\* The partial sums exist, size by size.
LEMMA SumsExistUpTo ==
    ASSUME NEW f, NEW S, IsFiniteSet(S)
    PROVE  \A n \in Nat : \E g : g = [s \in SUBSET S |-> g[s]] /\ SumsUpTo(g, f, S, n)
  <1> DEFINE Known(n) == \E g : g = [s \in SUBSET S |-> g[s]] /\ SumsUpTo(g, f, S, n)
             Bad == {n \in Nat : ~Known(n)}
  <1>1. Known(0)
    <2> DEFINE g == [s \in SUBSET S |-> 0]
    <2>1. ASSUME NEW s \in SUBSET S, Cardinality(s) <= 0  PROVE s = {}
      <3> SUFFICES ASSUME s # {} PROVE FALSE
        OBVIOUS
      <3>1. Cardinality(s) \in Nat \ {0}
        BY Chosen
      <3> QED  BY <2>1, <3>1
    <2>2. SumsUpTo(g, f, S, 0)
      BY <2>1 DEF SumsUpTo
    <2>3. g = [s \in SUBSET S |-> g[s]]
      OBVIOUS
    <2> HIDE DEF g
    <2> QED  BY <2>2, <2>3
  <1>2. ASSUME NEW n \in Nat, Known(n)  PROVE Known(n + 1)
    <2>1. PICK g : g = [s \in SUBSET S |-> g[s]] /\ SumsUpTo(g, f, S, n)
      BY <1>2
    <2> DEFINE c(s) == CHOOSE y \in s : TRUE
               h == [s \in SUBSET S |-> IF Cardinality(s) = n + 1
                                        THEN f[c(s)] + g[s \ {c(s)}] ELSE g[s]]
    <2>2. ASSUME NEW s \in SUBSET S, Cardinality(s) <= n + 1
          PROVE  h[s] = IF s = {} THEN 0 ELSE f[c(s)] + h[s \ {c(s)}]
      <3>1. CASE s = {}
        <4>1. Cardinality(s) = 0
          BY <3>1, FS_EmptySet
        <4>2. h[s] = g[s]
          BY <4>1
        <4>3. Cardinality(s) <= n
          BY <4>1
        <4>4. g[s] = 0
          BY <2>1, <3>1, <4>3 DEF SumsUpTo
        <4> QED  BY <3>1, <4>2, <4>4
      <3>2. CASE s # {}
        <4> DEFINE t == s \ {c(s)}
        <4>1. /\ t \in SUBSET S
              /\ Cardinality(s) \in Nat \ {0}
              /\ Cardinality(t) = Cardinality(s) - 1
          BY <3>2, Chosen
        <4> HIDE DEF t
        <4>2. h[t] = g[t]
          BY <2>2, <4>1
        <4>3. h[s] = f[c(s)] + g[t]
          <5>1. CASE Cardinality(s) = n + 1
            BY <5>1 DEF t
          <5>2. CASE Cardinality(s) <= n
            <6>1. h[s] = g[s]
              BY <5>2, <4>1
            <6>2. g[s] = f[c(s)] + g[s \ {c(s)}]
              BY <2>1, <3>2, <5>2 DEF SumsUpTo
            <6> QED  BY <6>1, <6>2 DEF t
          <5> QED  BY <2>2, <4>1, <5>1, <5>2
        <4> QED  BY <3>2, <4>2, <4>3 DEF t
      <3> QED  BY <3>1, <3>2
    <2>3. h = [s \in SUBSET S |-> h[s]]
      OBVIOUS
    <2>4. SumsUpTo(h, f, S, n + 1)
      BY <2>2 DEF SumsUpTo
    <2> HIDE DEF h
    <2> QED  BY <2>3, <2>4
  <1> HIDE DEF Known
  <1>3. Bad = {}
    <2> SUFFICES ASSUME Bad # {} PROVE FALSE
      OBVIOUS
    <2>1. PICK n \in Bad : \A m \in Bad : n <= m
      BY LeastNumber
    <2>2. n # 0 /\ n \in Nat
      BY <1>1
    <2>3. n - 1 \in Nat /\ n - 1 \notin Bad
      BY <2>1, <2>2
    <2>4. Known(n - 1 + 1)
      BY <1>2, <2>3
    <2> QED  BY <2>1, <2>2, <2>4
  <1> QED  BY <1>3 DEF Known

\* The partial sums of a finite set exist.
LEMMA SumsExist ==
    ASSUME NEW f, NEW S, IsFiniteSet(S)
    PROVE  \E g : IsSum(g, f, S)
  <1> DEFINE n == Cardinality(S)
             c(s) == CHOOSE y \in s : TRUE
  <1>1. n \in Nat
    BY FS_CardinalityType
  <1>2. PICK g : g = [s \in SUBSET S |-> g[s]] /\ SumsUpTo(g, f, S, n)
    BY <1>1, SumsExistUpTo
  <1>3. ASSUME NEW s \in SUBSET S
        PROVE  g[s] = IF s = {} THEN 0 ELSE f[c(s)] + g[s \ {c(s)}]
    <2>1. Cardinality(s) <= n
      BY FS_Subset
    <2> QED  BY <1>2, <2>1 DEF SumsUpTo
  <1>4. g = [s \in SUBSET S |-> IF s = {} THEN 0 ELSE f[c(s)] + g[s \ {c(s)}]]
    BY <1>2, <1>3
  <1> QED  BY <1>4 DEF IsSum

\* The sum over S is the partial sum that takes in all of S.
LEMMA SumIsPartial ==
    ASSUME NEW f, NEW S, IsFiniteSet(S)
    PROVE  \E g : IsSum(g, f, S) /\ SumOf(f, S) = g[S]
  <1> DEFINE iter == CHOOSE g : IsSum(g, f, S)
  <1>1. IsSum(iter, f, S)
    BY SumsExist
  <1>2. SumOf(f, S) = iter[S]
    BY DEF SumOf, MapThenSumSet, MapThenFoldSet, IsSum
  <1> QED  BY <1>1, <1>2
\* Two partial sums agree on a set both are about, when their functions agree
\* on its elements.
LEMMA PartialsAgree ==
    ASSUME NEW f, NEW e, NEW S, NEW T, IsFiniteSet(S), IsFiniteSet(T),
           NEW g, NEW h, IsSum(g, f, S), IsSum(h, e, T),
           T \subseteq S, \A x \in T : f[x] = e[x]
    PROVE  g[T] = h[T]
  <1> DEFINE Bad == {s \in SUBSET T : g[s] # h[s]}
             Sizes == {Cardinality(s) : s \in Bad}
             c(s) == CHOOSE y \in s : TRUE
  <1>0. IsFiniteSet(T)
    OBVIOUS
  <1> SUFFICES ASSUME Bad # {} PROVE FALSE
    BY T \in SUBSET T
  <1>1. Sizes \in SUBSET Nat /\ Sizes # {}
    BY <1>0, FS_Subset, FS_CardinalityType
  <1>2. PICK n \in Sizes : \A m \in Sizes : n <= m
    <2> HIDE DEF Sizes
    <2> QED  BY <1>1, LeastNumber
  <1>3. PICK s \in Bad : Cardinality(s) = n
    OBVIOUS
  <1>4. s \in SUBSET S /\ s \in SUBSET T
    OBVIOUS
  <1>5. /\ g[s] = IF s = {} THEN 0 ELSE f[c(s)] + g[s \ {c(s)}]
        /\ h[s] = IF s = {} THEN 0 ELSE e[c(s)] + h[s \ {c(s)}]
    BY <1>4 DEF IsSum
  <1>6. s # {}
    BY <1>5
  <1>7. /\ c(s) \in s
        /\ s \ {c(s)} \in SUBSET T
        /\ Cardinality(s) \in Nat \ {0}
        /\ Cardinality(s \ {c(s)}) = Cardinality(s) - 1
    BY <1>0, <1>6, Chosen
  <1>8. g[s \ {c(s)}] # h[s \ {c(s)}]
    BY <1>5, <1>6, <1>7
  <1>9. Cardinality(s) - 1 \in Sizes
    BY <1>7, <1>8
  <1> QED  BY <1>2, <1>3, <1>7, <1>9

\* The sum over nothing.
LEMMA SumEmpty ==
    ASSUME NEW f
    PROVE  SumOf(f, {}) = 0
  <1>1. PICK g : IsSum(g, f, {}) /\ SumOf(f, {}) = g[{}]
    BY FS_EmptySet, SumIsPartial
  <1> QED  BY <1>1 DEF IsSum

\* A sum depends on the elements' values only.
LEMMA SumSame ==
    ASSUME NEW f, NEW e, NEW S, IsFiniteSet(S), \A x \in S : f[x] = e[x]
    PROVE  SumOf(f, S) = SumOf(e, S)
  <1>1. PICK g : IsSum(g, f, S) /\ SumOf(f, S) = g[S]
    BY SumIsPartial
  <1>2. PICK h : IsSum(h, e, S) /\ SumOf(e, S) = h[S]
    BY SumIsPartial
  <1>3. S \subseteq S
    OBVIOUS
  <1>4. g[S] = h[S]
    BY <1>1, <1>2, <1>3, PartialsAgree
  <1> QED  BY <1>1, <1>2, <1>3, <1>4

\* A sum is the element it begins with and the sum of the rest.
LEMMA SumBegins ==
    ASSUME NEW f, NEW S, IsFiniteSet(S), S # {}
    PROVE  SumOf(f, S) = f[CHOOSE y \in S : TRUE] + SumOf(f, S \ {CHOOSE y \in S : TRUE})
  <1> DEFINE x == CHOOSE y \in S : TRUE
             T == S \ {x}
  <1>0. IsFiniteSet(T) /\ T \in SUBSET S
    BY FS_Subset
  <1>1. PICK g : IsSum(g, f, S) /\ SumOf(f, S) = g[S]
    BY SumIsPartial
  <1> HIDE DEF T
  <1>2. PICK h : IsSum(h, f, T) /\ SumOf(f, T) = h[T]
    BY <1>0, SumIsPartial
  <1>3. g[T] = h[T]
    <2>1. ASSUME NEW e, e = f, NEW U, U = T
          PROVE  g[U] = h[U]
      <3>1. IsSum(h, e, U) /\ IsFiniteSet(U) /\ U \subseteq S
        BY <1>0, <1>2, <2>1
      <3>2. \A y \in U : f[y] = e[y]
        BY <2>1
      <3> QED  BY <1>1, <3>1, <3>2, PartialsAgree
    <2> QED  BY <2>1
  <1>4. g[S] = f[x] + g[T]
    BY <1>1 DEF IsSum, T
  <1> QED  BY <1>1, <1>2, <1>3, <1>4 DEF T

\* What is true of the sums over all smaller subsets of a finite set, and then
\* of a subset, is true of them all: stated as the absence of a smallest
\* exception.
LEMMA SmallestException ==
    ASSUME NEW S, IsFiniteSet(S), NEW Bad \in SUBSET SUBSET S, Bad # {}
    PROVE  \E s \in Bad : \A t \in SUBSET S : Cardinality(t) < Cardinality(s) => t \notin Bad
  <1> DEFINE Sizes == {Cardinality(s) : s \in Bad}
  <1>1. \A s \in SUBSET S : Cardinality(s) \in Nat
    BY FS_Subset, FS_CardinalityType
  <1>2. Sizes \in SUBSET Nat /\ Sizes # {}
    BY <1>1
  <1>3. PICK n \in Sizes : \A m \in Sizes : n <= m
    <2> HIDE DEF Sizes
    <2> QED  BY <1>2, LeastNumber
  <1>4. PICK s \in Bad : Cardinality(s) = n
    OBVIOUS
  <1>5. ASSUME NEW t \in SUBSET S, Cardinality(t) < Cardinality(s), t \in Bad  PROVE FALSE
    BY <1>1, <1>3, <1>4, <1>5
  <1> QED  BY <1>4, <1>5

\* The sum of integers is an integer.
LEMMA SumInt ==
    ASSUME NEW f, NEW S, IsFiniteSet(S), \A x \in S : f[x] \in Int
    PROVE  SumOf(f, S) \in Int
  <1> DEFINE Bad == {s \in SUBSET S : SumOf(f, s) \notin Int}
             c(s) == CHOOSE y \in s : TRUE
  <1> SUFFICES ASSUME Bad # {} PROVE FALSE
    OBVIOUS
  <1>1. PICK s \in Bad : \A t \in SUBSET S : Cardinality(t) < Cardinality(s) => t \notin Bad
    <2>1. Bad \in SUBSET SUBSET S
      OBVIOUS
    <2> HIDE DEF Bad
    <2> QED  BY <2>1, SmallestException
  <1>2. s # {}
    BY SumEmpty
  <1>3. /\ c(s) \in s /\ IsFiniteSet(s)
        /\ s \ {c(s)} \in SUBSET S
        /\ Cardinality(s) \in Nat \ {0}
        /\ Cardinality(s \ {c(s)}) = Cardinality(s) - 1
    BY <1>2, Chosen, FS_Subset
  <1>4. SumOf(f, s \ {c(s)}) \in Int
    BY <1>1, <1>3
  <1>5. SumOf(f, s) = f[c(s)] + SumOf(f, s \ {c(s)})
    BY <1>2, <1>3, SumBegins
  <1> QED  BY <1>3, <1>4, <1>5

\* The sum of natural numbers is one.
LEMMA SumNat ==
    ASSUME NEW f, NEW S, IsFiniteSet(S), \A x \in S : f[x] \in Nat
    PROVE  SumOf(f, S) \in Nat
  <1> DEFINE Bad == {s \in SUBSET S : SumOf(f, s) \notin Nat}
             c(s) == CHOOSE y \in s : TRUE
  <1> SUFFICES ASSUME Bad # {} PROVE FALSE
    OBVIOUS
  <1>1. PICK s \in Bad : \A t \in SUBSET S : Cardinality(t) < Cardinality(s) => t \notin Bad
    <2>1. Bad \in SUBSET SUBSET S
      OBVIOUS
    <2> HIDE DEF Bad
    <2> QED  BY <2>1, SmallestException
  <1>2. s # {}
    BY SumEmpty
  <1>3. /\ c(s) \in s /\ IsFiniteSet(s)
        /\ s \ {c(s)} \in SUBSET S
        /\ Cardinality(s) \in Nat \ {0}
        /\ Cardinality(s \ {c(s)}) = Cardinality(s) - 1
    BY <1>2, Chosen, FS_Subset
  <1>4. SumOf(f, s \ {c(s)}) \in Nat
    BY <1>1, <1>3
  <1>5. SumOf(f, s) = f[c(s)] + SumOf(f, s \ {c(s)})
    BY <1>2, <1>3, SumBegins
  <1> QED  BY <1>3, <1>4, <1>5

\* Any element may come first.
LEMMA SumRemove ==
    ASSUME NEW f, NEW S, IsFiniteSet(S), \A y \in S : f[y] \in Int, NEW x \in S
    PROVE  SumOf(f, S) = f[x] + SumOf(f, S \ {x})
  <1> DEFINE Bad == {s \in SUBSET S : \E z \in s : SumOf(f, s) # f[z] + SumOf(f, s \ {z})}
             c(s) == CHOOSE y \in s : TRUE
  <1> SUFFICES ASSUME Bad # {} PROVE FALSE
    OBVIOUS
  <1>1. PICK s \in Bad : \A t \in SUBSET S : Cardinality(t) < Cardinality(s) => t \notin Bad
    <2>1. Bad \in SUBSET SUBSET S
      OBVIOUS
    <2> HIDE DEF Bad
    <2> QED  BY <2>1, SmallestException
  <1>2. PICK z \in s : SumOf(f, s) # f[z] + SumOf(f, s \ {z})
    OBVIOUS
  <1> DEFINE k == c(s)
             t == s \ {k}
             u == s \ {z}
             w == t \ {z}
  <1>3. /\ k \in s /\ IsFiniteSet(s)
        /\ t \in SUBSET S
        /\ Cardinality(s) \in Nat \ {0}
        /\ Cardinality(t) = Cardinality(s) - 1
    BY <1>2, Chosen, FS_Subset
  <1>4. IsFiniteSet(u) /\ u \in SUBSET S /\ Cardinality(u) = Cardinality(s) - 1
    BY <1>2, <1>3, FS_RemoveElement
  <1>5. SumOf(f, s) = f[k] + SumOf(f, t)
    BY <1>2, <1>3, SumBegins
  <1>6. z # k
    BY <1>2, <1>5
  <1>7. SumOf(f, t) = f[z] + SumOf(f, w)
    <2>1. t \notin Bad
      BY <1>1, <1>3
    <2> QED  BY <1>2, <1>3, <1>6, <2>1
  <1>8. SumOf(f, u) = f[k] + SumOf(f, u \ {k})
    <2>1. u \notin Bad
      BY <1>1, <1>3, <1>4
    <2> QED  BY <1>3, <1>4, <1>6, <2>1
  <1>9. u \ {k} = w
    OBVIOUS
  <1>10. IsFiniteSet(w) /\ \A y \in w : f[y] \in Int
    BY <1>3, FS_Subset
  <1>11. f[k] \in Int /\ f[z] \in Int /\ SumOf(f, w) \in Int
    BY <1>3, <1>10, SumInt
  <1> HIDE DEF w, t, u, k
  <1>12. SumOf(f, s) = f[z] + SumOf(f, u)
    <2>1. SumOf(f, s) = f[k] + (f[z] + SumOf(f, w))
      BY <1>5, <1>7
    <2>2. SumOf(f, u) = f[k] + SumOf(f, w)
      BY <1>8, <1>9
    <2> QED  BY <1>11, <2>1, <2>2
  <1> QED  BY <1>2, <1>12 DEF u

\* An element that comes in.
LEMMA SumAdd ==
    ASSUME NEW f, NEW S, IsFiniteSet(S), NEW x, x \notin S, \A y \in S \cup {x} : f[y] \in Int
    PROVE  SumOf(f, S \cup {x}) = f[x] + SumOf(f, S)
  <1>1. IsFiniteSet(S \cup {x})
    BY FS_AddElement
  <1>2. (S \cup {x}) \ {x} = S
    OBVIOUS
  <1> QED  BY <1>1, <1>2, SumRemove

\* A value that changes moves the sum by as much.
LEMMA SumChange ==
    ASSUME NEW f, NEW e, NEW S, IsFiniteSet(S), NEW x \in S,
           \A y \in S : f[y] \in Int, \A y \in S : e[y] \in Int,
           \A y \in S \ {x} : e[y] = f[y]
    PROVE  SumOf(e, S) = SumOf(f, S) + e[x] - f[x]
  <1> DEFINE T == S \ {x}
  <1>1. IsFiniteSet(T)
    BY FS_Subset
  <1>2. SumOf(f, T) \in Int
    BY <1>1, SumInt
  <1>3. SumOf(e, T) = SumOf(f, T)
    BY <1>1, SumSame
  <1>4. SumOf(f, S) = f[x] + SumOf(f, T) /\ SumOf(e, S) = e[x] + SumOf(e, T)
    BY SumRemove
  <1> QED  BY <1>2, <1>3, <1>4

\* A sum of nothings.
LEMMA SumZero ==
    ASSUME NEW f, NEW S, IsFiniteSet(S), \A x \in S : f[x] = 0
    PROVE  SumOf(f, S) = 0
  <1> DEFINE Bad == {s \in SUBSET S : SumOf(f, s) # 0}
             c(s) == CHOOSE y \in s : TRUE
  <1> SUFFICES ASSUME Bad # {} PROVE FALSE
    OBVIOUS
  <1>1. PICK s \in Bad : \A t \in SUBSET S : Cardinality(t) < Cardinality(s) => t \notin Bad
    <2>1. Bad \in SUBSET SUBSET S
      OBVIOUS
    <2> HIDE DEF Bad
    <2> QED  BY <2>1, SmallestException
  <1>2. s # {}
    BY SumEmpty
  <1>3. /\ c(s) \in s /\ IsFiniteSet(s)
        /\ s \ {c(s)} \in SUBSET S
        /\ Cardinality(s) \in Nat \ {0}
        /\ Cardinality(s \ {c(s)}) = Cardinality(s) - 1
    BY <1>2, Chosen, FS_Subset
  <1>4. SumOf(f, s \ {c(s)}) = 0
    BY <1>1, <1>3
  <1>5. SumOf(f, s) = f[c(s)] + SumOf(f, s \ {c(s)})
    BY <1>2, <1>3, SumBegins
  <1> QED  BY <1>3, <1>4, <1>5

\* A part of natural numbers comes to no more than the whole.
LEMMA SumSubset ==
    ASSUME NEW f, NEW S, IsFiniteSet(S), \A x \in S : f[x] \in Nat, NEW T \in SUBSET S
    PROVE  SumOf(f, T) <= SumOf(f, S)
  <1> DEFINE Bad == {s \in SUBSET S : T \subseteq s /\ ~(SumOf(f, T) <= SumOf(f, s))}
  <1> SUFFICES ASSUME Bad # {} PROVE FALSE
    OBVIOUS
  <1>1. PICK s \in Bad : \A t \in SUBSET S : Cardinality(t) < Cardinality(s) => t \notin Bad
    <2>1. Bad \in SUBSET SUBSET S
      OBVIOUS
    <2> HIDE DEF Bad
    <2> QED  BY <2>1, SmallestException
  <1>2. IsFiniteSet(s) /\ IsFiniteSet(T)
    BY FS_Subset
  <1>3. SumOf(f, T) \in Nat
    BY <1>2, SumNat
  <1>4. PICK x \in s : x \notin T
    <2>1. s # T
      BY <1>3
    <2> QED  BY <2>1
  <1>5. /\ s \ {x} \in SUBSET S /\ T \subseteq s \ {x}
        /\ IsFiniteSet(s \ {x})
        /\ Cardinality(s) \in Nat
        /\ Cardinality(s \ {x}) = Cardinality(s) - 1
    BY <1>2, <1>4, FS_RemoveElement, FS_CardinalityType
  <1>6. SumOf(f, T) <= SumOf(f, s \ {x})
    BY <1>1, <1>5
  <1>7. SumOf(f, s) = f[x] + SumOf(f, s \ {x})
    <2>1. \A y \in s : f[y] \in Int
      OBVIOUS
    <2> QED  BY <1>2, <2>1, SumRemove
  <1>8. SumOf(f, s \ {x}) \in Nat /\ f[x] \in Nat
    BY <1>4, <1>5, SumNat
  <1> QED  BY <1>3, <1>6, <1>7, <1>8

\* Elements that count for nothing may be left out.
LEMMA SumSupport ==
    ASSUME NEW f, NEW S, IsFiniteSet(S), \A x \in S : f[x] \in Int,
           NEW T \in SUBSET S, \A x \in S \ T : f[x] = 0
    PROVE  SumOf(f, S) = SumOf(f, T)
  <1> DEFINE Bad == {s \in SUBSET S : T \subseteq s /\ SumOf(f, s) # SumOf(f, T)}
  <1> SUFFICES ASSUME Bad # {} PROVE FALSE
    OBVIOUS
  <1>1. PICK s \in Bad : \A t \in SUBSET S : Cardinality(t) < Cardinality(s) => t \notin Bad
    <2>1. Bad \in SUBSET SUBSET S
      OBVIOUS
    <2> HIDE DEF Bad
    <2> QED  BY <2>1, SmallestException
  <1>2. IsFiniteSet(s) /\ IsFiniteSet(T)
    BY FS_Subset
  <1>3. PICK x \in s : x \notin T
    <2>1. s # T
      OBVIOUS
    <2> QED  BY <2>1
  <1>4. /\ s \ {x} \in SUBSET S /\ T \subseteq s \ {x}
        /\ IsFiniteSet(s \ {x})
        /\ Cardinality(s) \in Nat
        /\ Cardinality(s \ {x}) = Cardinality(s) - 1
    BY <1>2, <1>3, FS_RemoveElement, FS_CardinalityType
  <1>5. SumOf(f, s \ {x}) = SumOf(f, T)
    BY <1>1, <1>4
  <1>6. SumOf(f, s) = f[x] + SumOf(f, s \ {x})
    <2>1. \A y \in s : f[y] \in Int
      OBVIOUS
    <2> QED  BY <1>2, <2>1, SumRemove
  <1>7. f[x] = 0 /\ SumOf(f, T) \in Int
    BY <1>2, <1>3, SumInt
  <1> QED  BY <1>5, <1>6, <1>7
\* Where every value falls by what another function is, the sum falls by that
\* function's sum.
LEMMA SumLess ==
    ASSUME NEW f, NEW e, NEW g, NEW S, IsFiniteSet(S),
           \A x \in S : f[x] \in Int, \A x \in S : g[x] \in Int,
           \A x \in S : e[x] = f[x] - g[x]
    PROVE  SumOf(e, S) = SumOf(f, S) - SumOf(g, S)
  <1> DEFINE Bad == {s \in SUBSET S : SumOf(e, s) # SumOf(f, s) - SumOf(g, s)}
  <1> SUFFICES ASSUME Bad # {} PROVE FALSE
    OBVIOUS
  <1>1. PICK s \in Bad : \A t \in SUBSET S : Cardinality(t) < Cardinality(s) => t \notin Bad
    <2>1. Bad \in SUBSET SUBSET S
      OBVIOUS
    <2> HIDE DEF Bad
    <2> QED  BY <2>1, SmallestException
  <1>2. IsFiniteSet(s)
    BY FS_Subset
  <1>3. PICK x \in s : TRUE
    <2>1. SumOf(e, {}) = SumOf(f, {}) - SumOf(g, {})
      BY SumEmpty
    <2> QED  BY <2>1
  <1>4. /\ s \ {x} \in SUBSET S /\ IsFiniteSet(s \ {x})
        /\ Cardinality(s) \in Nat
        /\ Cardinality(s \ {x}) = Cardinality(s) - 1
    BY <1>2, <1>3, FS_RemoveElement, FS_CardinalityType
  <1>5. SumOf(e, s \ {x}) = SumOf(f, s \ {x}) - SumOf(g, s \ {x})
    BY <1>1, <1>4
  <1>6. /\ SumOf(e, s) = e[x] + SumOf(e, s \ {x})
        /\ SumOf(f, s) = f[x] + SumOf(f, s \ {x})
        /\ SumOf(g, s) = g[x] + SumOf(g, s \ {x})
    <2>1. \A y \in s : f[y] \in Int /\ g[y] \in Int /\ e[y] \in Int
      OBVIOUS
    <2> QED  BY <1>2, <1>3, <2>1, SumRemove
  <1>7. /\ SumOf(f, s \ {x}) \in Int /\ SumOf(g, s \ {x}) \in Int
        /\ e[x] = f[x] - g[x] /\ f[x] \in Int /\ g[x] \in Int
    <2>1. \A y \in s \ {x} : f[y] \in Int /\ g[y] \in Int
      OBVIOUS
    <2> QED  BY <1>3, <1>4, <2>1, SumInt
  <1> QED  BY <1>5, <1>6, <1>7
=============================================================================
