---------------------------- MODULE SumTheorems ----------------------------
(***************************************************************************)
(* Facts about SumFunctionOnSet (Functions, Folds), the sum of a function  *)
(* over a finite set.  The fold computes it with a recursive function that *)
(* takes one element after the other (Pick); every proof by induction is   *)
(* made with a smallest counterexample, which a family of finite sets has. *)
(***************************************************************************)
EXTENDS Integers, FiniteSets, Functions, FiniteSetTheorems, WellFoundedInduction, TLAPS

\* The element a fold takes next.
Pick(s) == CHOOSE x \in s : TRUE

\* The recursive function a sum is computed with.
SumsUp(g, f, S) ==
    g = [s \in SUBSET S |-> IF s = {} THEN 0 ELSE f[Pick(s)] + g[s \ {Pick(s)}]]

\* A family of subsets of a finite set has a smallest member: the form of
\* induction the proofs about sums use.
LEMMA SmallestSet ==
    ASSUME NEW S, IsFiniteSet(S), NEW B, B \subseteq SUBSET S, B # {}
    PROVE  \E s \in B : \A t \in SUBSET s : t # s => t \notin B
  <1>1. IsWellFoundedOn(StrictSubsetOrdering(S), SUBSET S)
    BY FS_StrictSubsetOrderingWellFounded, FS_FiniteSubsetsOfFinite
  <1>2. PICK s \in B : \A t \in B : <<t, s>> \notin StrictSubsetOrdering(S)
    BY <1>1, WFMin, Zenon
  <1>3. ASSUME NEW t \in SUBSET s, t # s, t \in B PROVE FALSE
    <2>1. <<t, s>> \in (SUBSET S) \X (SUBSET S)
      BY <1>2, <1>3
    <2>2. <<t, s>> \in StrictSubsetOrdering(S)
      BY <1>3, <2>1 DEF StrictSubsetOrdering
    <2>. QED BY <1>2, <1>3, <2>2
  <1>. QED BY <1>2, <1>3

\* A set of numbers has a least one.
LEMMA LeastOfNat ==
    ASSUME NEW S, S \subseteq Nat, S # {}
    PROVE  \E k \in S : \A j \in S : k <= j
  <1>1. PICK n \in Nat : n \in S
    OBVIOUS
  <1>. DEFINE B == {0 .. k : k \in {j \in S : j <= n}}
  <1>2. IsFiniteSet(0 .. n) /\ B \subseteq SUBSET (0 .. n) /\ 0 .. n \in B
    <2>1. IsFiniteSet(0 .. n)
      BY FS_Interval
    <2>. QED BY <1>1, <2>1
  <1>3. PICK s \in B : \A t \in SUBSET s : t # s => t \notin B
    <2>1. IsFiniteSet(0 .. n) /\ B \subseteq SUBSET (0 .. n) /\ B # {}
      BY <1>2
    <2>. HIDE DEF B
    <2>. QED BY <2>1, SmallestSet
  <1>4. PICK k \in S : k <= n /\ s = 0 .. k
    BY <1>3
  <1>5. ASSUME NEW j \in S, j < k PROVE FALSE
    <2>1. 0 .. j \subseteq s /\ 0 .. j # s /\ j <= n
      BY <1>1, <1>4, <1>5
    <2>2. 0 .. j \in B
      BY <2>1
    <2>. QED BY <1>3, <2>1, <2>2
  <1>6. \A j \in S : k <= j
    BY <1>5
  <1>. QED BY <1>4, <1>6

\* ... and a finite one a greatest.
LEMMA GreatestOfNat ==
    ASSUME NEW S, IsFiniteSet(S), S \subseteq Nat, S # {}
    PROVE  \E k \in S : \A j \in S : j <= k
  <1>. DEFINE above(k) == {j \in S : j > k}
              B == {above(k) : k \in S}
  <1>1. B \subseteq SUBSET S /\ B # {}
    OBVIOUS
  <1>2. PICK s \in B : \A t \in SUBSET s : t # s => t \notin B
    <2>. HIDE DEF B
    <2>. QED BY <1>1, SmallestSet
  <1>3. PICK k \in S : s = above(k)
    BY <1>2
  <1>4. ASSUME NEW j \in S, j > k PROVE FALSE
    <2>1. above(j) \subseteq s /\ j \in s /\ j \notin above(j)
      <3>1. j \in Nat /\ k \in Nat /\ \A x \in S : x \in Nat
        BY <1>4
      <3>2. \A x \in S : x > j => x > k
        BY <1>4, <3>1
      <3>3. ~(j > j)
        BY <3>1
      <3>. QED BY <1>3, <1>4, <3>2, <3>3
    <2>. QED BY <1>2, <2>1
  <1>. QED BY <1>4

\* Whatever set a sum is computed over, it is the same on the subsets.
LEMMA SumsAgree ==
    ASSUME NEW f, NEW S, NEW T, IsFiniteSet(S),
           NEW g, SumsUp(g, f, S), NEW h, SumsUp(h, f, T)
    PROVE  \A s \in SUBSET (S \cap T) : g[s] = h[s]
  <1>. DEFINE B == {s \in SUBSET (S \cap T) : g[s] # h[s]}
  <1>. SUFFICES ASSUME B # {} PROVE FALSE
    OBVIOUS
  <1>1. B \subseteq SUBSET S
    OBVIOUS
  <1>2. PICK s \in B : \A t \in SUBSET s : t # s => t \notin B
    <2>. HIDE DEF B
    <2>. QED BY <1>1, SmallestSet
  <1>3. s \in SUBSET S /\ s \in SUBSET T
    BY <1>2
  <1>4. CASE s = {}
    <2>1. g[s] = 0 /\ h[s] = 0
      BY <1>3, <1>4 DEF SumsUp
    <2>. QED BY <1>2, <2>1
  <1>5. CASE s # {}
    <2>1. Pick(s) \in s
      BY <1>5 DEF Pick
    <2>2. s \ {Pick(s)} \in SUBSET s /\ s \ {Pick(s)} # s
      BY <2>1
    <2>3. g[s \ {Pick(s)}] = h[s \ {Pick(s)}]
      BY <1>2, <2>2
    <2>4. /\ g[s] = f[Pick(s)] + g[s \ {Pick(s)}]
          /\ h[s] = f[Pick(s)] + h[s \ {Pick(s)}]
      BY <1>3, <1>5 DEF SumsUp
    <2>. QED BY <1>2, <2>3, <2>4
  <1>. QED BY <1>4, <1>5

\* A sum over a finite set is computed.
LEMMA SumsExist ==
    ASSUME NEW f, NEW S, IsFiniteSet(S) PROVE \E g : SumsUp(g, f, S)
  <1>. DEFINE B == {s \in SUBSET S : ~ \E g : SumsUp(g, f, s)}
  <1>. SUFFICES ASSUME B # {} PROVE FALSE
    OBVIOUS
  <1>1. PICK T \in B : \A t \in SUBSET T : t # T => t \notin B
    <2>1. B \subseteq SUBSET S
      OBVIOUS
    <2>. HIDE DEF B
    <2>. QED BY <2>1, SmallestSet
  <1>2. T \in SUBSET S /\ IsFiniteSet(T)
    BY <1>1, FS_Subset
  <1>3. \A u \in SUBSET T : u # T => \E g : SumsUp(g, f, u)
    BY <1>1, <1>2
  <1>. DEFINE part(u) == CHOOSE g : SumsUp(g, f, u)
              G == [s \in SUBSET T |-> IF s = {} THEN 0
                        ELSE f[Pick(s)] + part(s \ {Pick(s)})[s \ {Pick(s)}]]
  <1>4. \A u \in SUBSET T : u # T => SumsUp(part(u), f, u)
    BY <1>3
  <1>. HIDE DEF part
  <1>5. \A u \in SUBSET T : u # T => G[u] = part(u)[u]
    <2>. SUFFICES ASSUME NEW u \in SUBSET T, u # T PROVE G[u] = part(u)[u]
      OBVIOUS
    <2>0. IsFiniteSet(u)
      BY <1>2, FS_Subset
    <2>1. CASE u = {}
      BY <2>1, <1>4 DEF SumsUp
    <2>2. CASE u # {}
      <3>. DEFINE v == u \ {Pick(u)}
      <3>1. Pick(u) \in u
        BY <2>2 DEF Pick
      <3>2. v \in SUBSET T /\ v # T /\ v \in SUBSET u
        BY <3>1
      <3>3. SumsUp(part(u), f, u) /\ SumsUp(part(v), f, v)
        BY <1>4, <3>2
      <3>4. part(u)[v] = part(v)[v]
        <4>1. v \in SUBSET (u \cap v)
          OBVIOUS
        <4>. QED BY <2>0, <3>3, <4>1, SumsAgree
      <3>5. part(u)[u] = f[Pick(u)] + part(u)[v]
        BY <2>2, <3>3 DEF SumsUp
      <3>. QED BY <2>2, <3>4, <3>5
    <2>. QED BY <2>1, <2>2
  <1>6. \A s \in SUBSET T : s # {} =>
            G[s] = f[Pick(s)] + G[s \ {Pick(s)}]
    <2>. SUFFICES ASSUME NEW s \in SUBSET T, s # {}
                  PROVE  G[s] = f[Pick(s)] + G[s \ {Pick(s)}]
      OBVIOUS
    <2>1. Pick(s) \in s
      BY DEF Pick
    <2>2. s \ {Pick(s)} \in SUBSET T /\ s \ {Pick(s)} # T
      BY <2>1
    <2>3. G[s \ {Pick(s)}] = part(s \ {Pick(s)})[s \ {Pick(s)}]
      BY <1>5, <2>2
    <2>4. G[s] = f[Pick(s)] + part(s \ {Pick(s)})[s \ {Pick(s)}]
      OBVIOUS
    <2>. QED BY <2>3, <2>4
  <1>7. SumsUp(G, f, T)
    <2>1. G = [s \in SUBSET T |-> G[s]]
      OBVIOUS
    <2>2. \A s \in SUBSET T : G[s] = IF s = {} THEN 0 ELSE f[Pick(s)] + G[s \ {Pick(s)}]
      BY <1>6
    <2>. HIDE DEF G
    <2>. QED BY <2>1, <2>2 DEF SumsUp
  <1>. QED BY <1>1, <1>7

\* The sum of a function over a set.
LEMMA SumComputed ==
    ASSUME NEW f, NEW S, IsFiniteSet(S)
    PROVE  \E g : SumsUp(g, f, S) /\ SumFunctionOnSet(f, S) = g[S]
  <1>. DEFINE g == CHOOSE g : SumsUp(g, f, S)
  <1>1. SumsUp(g, f, S)
    BY SumsExist
  <1>2. SumFunctionOnSet(f, S) = g[S]
    BY DEF SumFunctionOnSet, FoldFunctionOnSet, MapThenFoldSet, SumsUp, Pick
  <1>. QED BY <1>1, <1>2

\* Nothing sums up to nothing, and a set to the element taken first and the rest.
LEMMA SumStep ==
    ASSUME NEW f, NEW S, IsFiniteSet(S)
    PROVE  /\ S = {} => SumFunctionOnSet(f, S) = 0
           /\ S # {} => /\ Pick(S) \in S
                        /\ SumFunctionOnSet(f, S)
                              = f[Pick(S)] + SumFunctionOnSet(f, S \ {Pick(S)})
  <1>1. PICK g : SumsUp(g, f, S) /\ SumFunctionOnSet(f, S) = g[S]
    BY SumComputed
  <1>2. CASE S = {}
    BY <1>1, <1>2 DEF SumsUp
  <1>3. CASE S # {}
    <2>. DEFINE R == S \ {Pick(S)}
    <2>1. Pick(S) \in S
      BY <1>3 DEF Pick
    <2>2. IsFiniteSet(R)
      BY FS_Subset
    <2>3. PICK h : SumsUp(h, f, R) /\ SumFunctionOnSet(f, R) = h[R]
      BY <2>2, SumComputed
    <2>4. g[R] = h[R]
      <3>1. R \in SUBSET (S \cap R)
        OBVIOUS
      <3>. HIDE DEF R
      <3>. QED BY <1>1, <2>3, <3>1, SumsAgree
    <2>5. g[S] = f[Pick(S)] + g[R]
      BY <1>1, <1>3 DEF SumsUp
    <2>. QED BY <1>1, <1>3, <2>1, <2>3, <2>4, <2>5
  <1>. QED BY <1>2, <1>3

\* What holds of zero and of every sum of two holds of a sum: it stays in any
\* such set of numbers.
LEMMA SumIn ==
    ASSUME NEW N, 0 \in N, \A a, b \in N : a + b \in N,
           NEW f, NEW S, IsFiniteSet(S), \A x \in S : f[x] \in N
    PROVE  SumFunctionOnSet(f, S) \in N
  <1>. DEFINE B == {s \in SUBSET S : SumFunctionOnSet(f, s) \notin N}
  <1>. SUFFICES ASSUME B # {} PROVE FALSE
    OBVIOUS
  <1>1. PICK T \in B : \A t \in SUBSET T : t # T => t \notin B
    <2>1. B \subseteq SUBSET S
      OBVIOUS
    <2>. HIDE DEF B
    <2>. QED BY <2>1, SmallestSet
  <1>2. T \in SUBSET S /\ IsFiniteSet(T)
    BY <1>1, FS_Subset
  <1>3. CASE T = {}
    <2>1. SumFunctionOnSet(f, T) = 0
      BY <1>2, <1>3, SumStep
    <2>. QED BY <1>1, <2>1
  <1>4. CASE T # {}
    <2>1. /\ Pick(T) \in T
          /\ SumFunctionOnSet(f, T) = f[Pick(T)] + SumFunctionOnSet(f, T \ {Pick(T)})
      BY <1>2, <1>4, SumStep
    <2>2. T \ {Pick(T)} \notin B /\ T \ {Pick(T)} \in SUBSET S
      BY <1>1, <1>2, <2>1
    <2>3. SumFunctionOnSet(f, T \ {Pick(T)}) \in N
      BY <2>2
    <2>. QED BY <1>1, <1>2, <2>1, <2>3
  <1>. QED BY <1>3, <1>4

\* A sum of integers is an integer, and one of natural numbers a natural number.
LEMMA SumIsInt ==
    ASSUME NEW f, NEW S, IsFiniteSet(S), \A x \in S : f[x] \in Int
    PROVE  SumFunctionOnSet(f, S) \in Int
  <1>1. 0 \in Int /\ \A a, b \in Int : a + b \in Int
    OBVIOUS
  <1>. QED BY <1>1, SumIn

\* ... the natural numbers.
LEMMA SumIsNat ==
    ASSUME NEW f, NEW S, IsFiniteSet(S), \A x \in S : f[x] \in Nat
    PROVE  SumFunctionOnSet(f, S) \in Nat
  <1>1. 0 \in Nat /\ \A a, b \in Nat : a + b \in Nat
    OBVIOUS
  <1>. QED BY <1>1, SumIn

\* The order does not matter: any element may be taken first.
LEMMA SumSplit ==
    ASSUME NEW f, NEW S, IsFiniteSet(S), \A y \in S : f[y] \in Int, NEW x \in S
    PROVE  SumFunctionOnSet(f, S) = f[x] + SumFunctionOnSet(f, S \ {x})
  <1>. DEFINE B == {s \in SUBSET S : \E y \in s :
                       SumFunctionOnSet(f, s) # f[y] + SumFunctionOnSet(f, s \ {y})}
  <1>. SUFFICES ASSUME B # {} PROVE FALSE
    OBVIOUS
  <1>1. PICK T \in B : \A t \in SUBSET T : t # T => t \notin B
    <2>1. B \subseteq SUBSET S
      OBVIOUS
    <2>. HIDE DEF B
    <2>. QED BY <2>1, SmallestSet
  <1>2. T \in SUBSET S /\ \A t \in SUBSET T : IsFiniteSet(t)
    <2>1. T \in SUBSET S
      BY <1>1
    <2>. QED BY <2>1, FS_Subset
  <1>3. PICK y \in T : SumFunctionOnSet(f, T) # f[y] + SumFunctionOnSet(f, T \ {y})
    BY <1>1
  <1>. DEFINE p == Pick(T)
              rest == T \ {p, y}
  <1>4. p \in T /\ SumFunctionOnSet(f, T) = f[p] + SumFunctionOnSet(f, T \ {p})
    BY <1>2, <1>3, SumStep
  <1>5. p # y
    BY <1>3, <1>4
  <1>6. SumFunctionOnSet(f, T \ {p}) = f[y] + SumFunctionOnSet(f, rest)
    <2>1. y \in T \ {p} /\ T \ {p} \in SUBSET T /\ T \ {p} # T
      BY <1>4, <1>5
    <2>2. T \ {p} \notin B /\ T \ {p} \in SUBSET S
      BY <1>1, <1>2, <2>1
    <2>3. (T \ {p}) \ {y} = rest
      OBVIOUS
    <2>. QED BY <2>1, <2>2, <2>3
  <1>7. SumFunctionOnSet(f, T \ {y}) = f[p] + SumFunctionOnSet(f, rest)
    <2>1. p \in T \ {y} /\ T \ {y} \in SUBSET T /\ T \ {y} # T
      BY <1>4, <1>5
    <2>2. T \ {y} \notin B /\ T \ {y} \in SUBSET S
      BY <1>1, <1>2, <2>1
    <2>3. (T \ {y}) \ {p} = rest
      OBVIOUS
    <2>. QED BY <2>1, <2>2, <2>3
  <1>8. f[p] \in Int /\ f[y] \in Int /\ SumFunctionOnSet(f, rest) \in Int
    <2>1. rest \in SUBSET T /\ \A z \in rest : f[z] \in Int
      BY <1>2
    <2>. QED BY <1>2, <1>4, <2>1, SumIsInt
  <1>. HIDE DEF p, rest
  <1>. QED BY <1>3, <1>4, <1>6, <1>7, <1>8

\* Two functions that agree on a set have the same sum over it.
LEMMA SumSame ==
    ASSUME NEW f, NEW g, NEW S, IsFiniteSet(S), \A x \in S : f[x] = g[x]
    PROVE  SumFunctionOnSet(f, S) = SumFunctionOnSet(g, S)
  <1>. DEFINE B == {s \in SUBSET S : SumFunctionOnSet(f, s) # SumFunctionOnSet(g, s)}
  <1>. SUFFICES ASSUME B # {} PROVE FALSE
    OBVIOUS
  <1>1. PICK T \in B : \A t \in SUBSET T : t # T => t \notin B
    <2>1. B \subseteq SUBSET S
      OBVIOUS
    <2>. HIDE DEF B
    <2>. QED BY <2>1, SmallestSet
  <1>2. T \in SUBSET S /\ IsFiniteSet(T)
    BY <1>1, FS_Subset
  <1>3. CASE T = {}
    <2>1. SumFunctionOnSet(f, T) = 0 /\ SumFunctionOnSet(g, T) = 0
      BY <1>2, <1>3, SumStep
    <2>. QED BY <1>1, <2>1
  <1>4. CASE T # {}
    <2>1. /\ Pick(T) \in T
          /\ SumFunctionOnSet(f, T) = f[Pick(T)] + SumFunctionOnSet(f, T \ {Pick(T)})
          /\ SumFunctionOnSet(g, T) = g[Pick(T)] + SumFunctionOnSet(g, T \ {Pick(T)})
      BY <1>2, <1>4, SumStep
    <2>2. T \ {Pick(T)} \notin B /\ T \ {Pick(T)} \in SUBSET S
      BY <1>1, <1>2, <2>1
    <2>3. SumFunctionOnSet(f, T \ {Pick(T)}) = SumFunctionOnSet(g, T \ {Pick(T)})
      BY <2>2
    <2>. QED BY <1>1, <1>2, <2>1, <2>3
  <1>. QED BY <1>3, <1>4

\* The sum over two sets that share nothing.
LEMMA SumUnion ==
    ASSUME NEW f, NEW A, NEW D, IsFiniteSet(A), IsFiniteSet(D), A \cap D = {},
           \A x \in A \cup D : f[x] \in Int
    PROVE  SumFunctionOnSet(f, A \cup D) = SumFunctionOnSet(f, A) + SumFunctionOnSet(f, D)
  <1>. DEFINE B == {s \in SUBSET D : SumFunctionOnSet(f, A \cup s)
                                       # SumFunctionOnSet(f, A) + SumFunctionOnSet(f, s)}
  <1>. SUFFICES ASSUME B # {} PROVE FALSE
    OBVIOUS
  <1>1. PICK T \in B : \A t \in SUBSET T : t # T => t \notin B
    <2>1. B \subseteq SUBSET D
      OBVIOUS
    <2>. HIDE DEF B
    <2>. QED BY <2>1, SmallestSet
  <1>2. T \in SUBSET D /\ IsFiniteSet(T)
    BY <1>1, FS_Subset
  <1>3. SumFunctionOnSet(f, A) \in Int
    BY SumIsInt
  <1>4. CASE T = {}
    <2>1. SumFunctionOnSet(f, T) = 0 /\ A \cup T = A
      BY <1>2, <1>4, SumStep
    <2>2. SumFunctionOnSet(f, A \cup T) = SumFunctionOnSet(f, A)
      BY <2>1
    <2>3. SumFunctionOnSet(f, A \cup T) = SumFunctionOnSet(f, A) + SumFunctionOnSet(f, T)
      BY <1>3, <2>1, <2>2
    <2>. QED BY <1>1, <2>3
  <1>5. CASE T # {}
    <2>1. PICK p \in T : SumFunctionOnSet(f, T) = f[p] + SumFunctionOnSet(f, T \ {p})
      BY <1>2, <1>5, SumStep
    <2>2. T \ {p} \in SUBSET T /\ T \ {p} # T /\ IsFiniteSet(T \ {p})
      BY <1>2, <2>1, FS_Subset
    <2>3. SumFunctionOnSet(f, A \cup (T \ {p}))
             = SumFunctionOnSet(f, A) + SumFunctionOnSet(f, T \ {p})
      BY <1>1, <1>2, <2>2
    <2>4. SumFunctionOnSet(f, A \cup T) = f[p] + SumFunctionOnSet(f, A \cup (T \ {p}))
      <3>1. (A \cup T) \ {p} = A \cup (T \ {p})
        BY <1>2, <2>1
      <3>2. IsFiniteSet(A \cup T) /\ p \in A \cup T
        BY <1>2, <2>1, FS_Union
      <3>3. \A y \in A \cup T : f[y] \in Int
        BY <1>2
      <3>. QED BY <3>1, <3>2, <3>3, SumSplit
    <2>5. f[p] \in Int /\ SumFunctionOnSet(f, T \ {p}) \in Int
      <3>1. \A y \in T \ {p} : f[y] \in Int
        BY <1>2
      <3>. QED BY <1>2, <2>1, <2>2, <3>1, SumIsInt
    <2>. QED BY <1>1, <1>3, <2>1, <2>3, <2>4, <2>5
  <1>. QED BY <1>4, <1>5

\* Changing a function at one place changes its sum by as much.
LEMMA SumChange ==
    ASSUME NEW f, NEW g, NEW S, IsFiniteSet(S), NEW x \in S,
           \A y \in S : f[y] \in Int /\ g[y] \in Int,
           \A y \in S \ {x} : g[y] = f[y]
    PROVE  SumFunctionOnSet(g, S) = SumFunctionOnSet(f, S) + (g[x] - f[x])
  <1>0. IsFiniteSet(S \ {x})
    BY FS_Subset
  <1>1. /\ SumFunctionOnSet(f, S) = f[x] + SumFunctionOnSet(f, S \ {x})
        /\ SumFunctionOnSet(g, S) = g[x] + SumFunctionOnSet(g, S \ {x})
    BY SumSplit
  <1>2. SumFunctionOnSet(f, S \ {x}) = SumFunctionOnSet(g, S \ {x})
    BY <1>0, SumSame
  <1>3. SumFunctionOnSet(f, S \ {x}) \in Int
    BY <1>0, SumIsInt
  <1>. QED BY <1>1, <1>2, <1>3

\* Summing up by group and then over the groups is summing up.
LEMMA SumGroups ==
    ASSUME NEW f, NEW E, IsFiniteSet(E), \A x \in E : f[x] \in Int,
           NEW C, IsFiniteSet(C), NEW k, \A x \in E : k[x] \in C
    PROVE  SumFunctionOnSet([c \in C |-> SumFunctionOnSet(f, {x \in E : k[x] = c})], C)
              = SumFunctionOnSet(f, E)
  <1>. DEFINE group(s) == [c \in C |-> SumFunctionOnSet(f, {x \in s : k[x] = c})]
              B == {s \in SUBSET E : SumFunctionOnSet(group(s), C) # SumFunctionOnSet(f, s)}
  <1>. SUFFICES ASSUME B # {} PROVE FALSE
    OBVIOUS
  <1>1. PICK T \in B : \A t \in SUBSET T : t # T => t \notin B
    <2>1. B \subseteq SUBSET E
      OBVIOUS
    <2>. HIDE DEF B
    <2>. QED BY <2>1, SmallestSet
  <1>2. T \in SUBSET E /\ \A s \in SUBSET T : IsFiniteSet(s)
    <2>1. T \in SUBSET E
      BY <1>1
    <2>. QED BY <2>1, FS_Subset
  <1>3. \A s \in SUBSET T : \A c \in C : group(s)[c] \in Int
    <2>. SUFFICES ASSUME NEW s \in SUBSET T, NEW c \in C
                  PROVE  SumFunctionOnSet(f, {x \in s : k[x] = c}) \in Int
      OBVIOUS
    <2>1. {x \in s : k[x] = c} \in SUBSET T /\ \A x \in {y \in s : k[y] = c} : f[x] \in Int
      BY <1>2
    <2>. QED BY <1>2, <2>1, SumIsInt
  <1>4. CASE T = {}
    <2>1. SumFunctionOnSet(f, {}) = 0
      BY FS_EmptySet, SumStep
    <2>2. \A c \in C : group(T)[c] \in {0}
      <3>1. \A c \in C : {x \in T : k[x] = c} = {}
        BY <1>4
      <3>. QED BY <2>1, <3>1
    <2>3. SumFunctionOnSet(group(T), C) \in {0}
      <3>1. 0 \in {0} /\ \A a, b \in {0} : a + b \in {0}
        OBVIOUS
      <3>. HIDE DEF group
      <3>. QED BY <2>2, <3>1, SumIn
    <2>. QED BY <1>1, <1>4, <2>1, <2>3
  <1>5. CASE T # {}
    <2>1. PICK p \in T : SumFunctionOnSet(f, T) = f[p] + SumFunctionOnSet(f, T \ {p})
      BY <1>2, <1>5, SumStep
    <2>. DEFINE R == T \ {p}
    <2>2. R \in SUBSET T /\ R # T /\ p \notin R /\ k[p] \in C /\ f[p] \in Int
      BY <1>2, <2>1
    <2>3. SumFunctionOnSet(group(R), C) = SumFunctionOnSet(f, R)
      BY <1>1, <1>2, <2>2
    <2>4. \A c \in C \ {k[p]} : group(T)[c] = group(R)[c]
      <3>. SUFFICES ASSUME NEW c \in C \ {k[p]} PROVE group(T)[c] = group(R)[c]
        OBVIOUS
      <3>1. {x \in T : k[x] = c} = {x \in R : k[x] = c}
        OBVIOUS
      <3>. QED BY <3>1
    <2>5. group(T)[k[p]] = f[p] + group(R)[k[p]]
      <3>. DEFINE U == {x \in T : k[x] = k[p]}
      <3>1. U \ {p} = {x \in R : k[x] = k[p]} /\ p \in U /\ U \in SUBSET T
        BY <2>1
      <3>2. \A x \in U : f[x] \in Int
        BY <1>2
      <3>3. SumFunctionOnSet(f, U) = f[p] + SumFunctionOnSet(f, U \ {p})
        <4>. HIDE DEF U
        <4>. QED BY <1>2, <3>1, <3>2, SumSplit
      <3>. QED BY <2>2, <3>1, <3>3
    <2>6. SumFunctionOnSet(group(T), C)
             = SumFunctionOnSet(group(R), C) + (group(T)[k[p]] - group(R)[k[p]])
      <3>1. \A c \in C : group(T)[c] \in Int /\ group(R)[c] \in Int
        BY <1>3, <2>2
      <3>2. PICK g, h : g = group(T) /\ h = group(R)
        OBVIOUS
      <3>. HIDE DEF group
      <3>3. k[p] \in C /\ \A c \in C : g[c] \in Int /\ h[c] \in Int
        BY <2>2, <3>1, <3>2
      <3>4. \A c \in C \ {k[p]} : g[c] = h[c]
        BY <2>4, <3>2
      <3>5. SumFunctionOnSet(g, C) = SumFunctionOnSet(h, C) + (g[k[p]] - h[k[p]])
        BY <3>3, <3>4, SumChange
      <3>. QED BY <3>2, <3>5
    <2>7. group(R)[k[p]] \in Int /\ SumFunctionOnSet(f, R) \in Int
      <3>1. \A x \in R : f[x] \in Int
        BY <1>2, <2>2
      <3>. QED BY <1>2, <1>3, <2>2, <3>1, SumIsInt
    <2>8. T \in SUBSET E /\ SumFunctionOnSet(group(T), C) # SumFunctionOnSet(f, T)
      BY <1>1
    <2>. HIDE DEF group, R
    <2>9. SumFunctionOnSet(f, T) = f[p] + SumFunctionOnSet(f, R)
      BY <2>1 DEF R
    <2>. QED BY <2>2, <2>3, <2>5, <2>6, <2>7, <2>8, <2>9
  <1>. QED BY <1>4, <1>5

\* The sum of two functions is the two sums.
LEMMA SumPlus ==
    ASSUME NEW f, NEW g, NEW S, IsFiniteSet(S), \A x \in S : f[x] \in Int /\ g[x] \in Int
    PROVE  SumFunctionOnSet([x \in S |-> f[x] + g[x]], S)
              = SumFunctionOnSet(f, S) + SumFunctionOnSet(g, S)
  <1>h. PICK h : h = [x \in S |-> f[x] + g[x]]
    OBVIOUS
  <1>0. \A x \in S : h[x] = f[x] + g[x] /\ h[x] \in Int
    BY <1>h
  <1>. DEFINE B == {s \in SUBSET S : SumFunctionOnSet(h, s)
                                       # SumFunctionOnSet(f, s) + SumFunctionOnSet(g, s)}
  <1>. SUFFICES ASSUME B # {} PROVE FALSE
    BY <1>h
  <1>1. PICK T \in B : \A t \in SUBSET T : t # T => t \notin B
    <2>1. B \subseteq SUBSET S
      OBVIOUS
    <2>. HIDE DEF B
    <2>. QED BY <2>1, SmallestSet
  <1>2. T \in SUBSET S /\ IsFiniteSet(T)
    BY <1>1, FS_Subset
  <1>3. CASE T = {}
    <2>1. /\ SumFunctionOnSet(h, T) = 0 /\ SumFunctionOnSet(f, T) = 0
          /\ SumFunctionOnSet(g, T) = 0
      BY <1>2, <1>3, SumStep
    <2>. QED BY <1>1, <2>1
  <1>4. CASE T # {}
    <2>1. PICK p \in T : p = Pick(T)
      BY <1>4 DEF Pick
    <2>2. /\ SumFunctionOnSet(h, T) = h[p] + SumFunctionOnSet(h, T \ {p})
          /\ SumFunctionOnSet(f, T) = f[p] + SumFunctionOnSet(f, T \ {p})
          /\ SumFunctionOnSet(g, T) = g[p] + SumFunctionOnSet(g, T \ {p})
      BY <1>2, <1>4, <2>1, SumStep
    <2>3. T \ {p} \notin B /\ T \ {p} \in SUBSET S /\ IsFiniteSet(T \ {p})
      BY <1>1, <1>2, <2>1, FS_Subset
    <2>4. /\ SumFunctionOnSet(h, T \ {p})
                = SumFunctionOnSet(f, T \ {p}) + SumFunctionOnSet(g, T \ {p})
          /\ SumFunctionOnSet(f, T \ {p}) \in Int /\ SumFunctionOnSet(g, T \ {p}) \in Int
      <3>1. \A x \in T \ {p} : f[x] \in Int /\ g[x] \in Int
        BY <1>2
      <3>. QED BY <2>3, <3>1, SumIsInt
    <2>5. h[p] = f[p] + g[p] /\ f[p] \in Int /\ g[p] \in Int
      BY <1>0, <1>2, <2>1
    <2>. QED BY <1>1, <2>2, <2>4, <2>5
  <1>. QED BY <1>3, <1>4

\* Leaving out what counts as zero changes no sum.
LEMMA SumFilter ==
    ASSUME NEW f, NEW g, NEW T, IsFiniteSet(T), NEW W \in SUBSET T,
           \A x \in W : f[x] \in Int /\ g[x] = f[x],
           \A x \in T \ W : g[x] = 0
    PROVE  SumFunctionOnSet(g, T) = SumFunctionOnSet(f, W)
  <1>1. IsFiniteSet(W) /\ IsFiniteSet(T \ W)
    BY FS_Subset
  <1>2. SumFunctionOnSet(g, W) = SumFunctionOnSet(f, W)
    BY <1>1, SumSame
  <1>3. SumFunctionOnSet(g, T \ W) \in {0}
    <2>1. 0 \in {0} /\ (\A a, b \in {0} : a + b \in {0}) /\ \A x \in T \ W : g[x] \in {0}
      OBVIOUS
    <2>. QED BY <1>1, <2>1, SumIn
  <1>4. SumFunctionOnSet(g, W \cup (T \ W))
           = SumFunctionOnSet(g, W) + SumFunctionOnSet(g, T \ W)
    <2>1. W \cap (T \ W) = {} /\ \A x \in W \cup (T \ W) : g[x] \in Int
      OBVIOUS
    <2>. QED BY <1>1, <2>1, SumUnion
  <1>5. SumFunctionOnSet(g, W) \in Int
    <2>1. \A x \in W : g[x] \in Int
      OBVIOUS
    <2>. QED BY <1>1, <2>1, SumIsInt
  <1>6. W \cup (T \ W) = T
    OBVIOUS
  <1>. QED BY <1>2, <1>3, <1>4, <1>5, <1>6
=============================================================================
