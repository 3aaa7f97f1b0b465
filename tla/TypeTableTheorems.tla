-------------------------- MODULE TypeTableTheorems --------------------------
(***************************************************************************)
(* What SWIG's runtime promises of the type tables, for any modules with   *)
(* any tables in any order of loading and any conversions between, as long *)
(* as there is one interpreter: with two the modules' ring can break.      *)
(*                                                                         *)
(* None of the properties is inductive.  ModulesInv says what the modules  *)
(* are in each turn of the loops: those of the interpreter are a ring, the *)
(* ones that are through use one structure per name, and the one that is   *)
(* not has so far chosen theirs, or its own where they know none.          *)
(* CastsInv says what the lists are: no two types share a cast, and a list *)
(* has, of the casts that were inserted for its type, one from each name.  *)
(* ClassesInv says which types share their class while others wait for     *)
(* their turn in SWIG_PropagateClientData().                               *)
(*                                                                         *)
(* Loops over pointers are recursive functions here: what they compute is  *)
(* proved by the least number principle, from the well-foundedness of the  *)
(* finite sets.                                                            *)
(***************************************************************************)
EXTENDS TypeTable, Integers, WellFoundedInduction, FiniteSetTheorems, TLAPS

-----------------------------------------------------------------------------
(* Counting. *)

\* The least number principle, through the intervals 1 .. n, which are finite sets.
LEMMA LeastNumber ==
    ASSUME NEW T \in SUBSET Nat, T # {}
    PROVE  \E m \in T : \A n \in T : m <= n
  <1> DEFINE U == {1 .. n : n \in T}
             R == StrictSubsetOrdering(Nat)
  <1>1. U \subseteq FiniteSubsetsOf(Nat)
    <2>1. ASSUME NEW n \in T
          PROVE  1 .. n \in FiniteSubsetsOf(Nat)
      <3>1. IsFiniteSet(1 .. n)
        BY FS_Interval
      <3> QED BY <3>1 DEF FiniteSubsetsOf
    <2> QED BY <2>1
  <1>2. U # {}
    OBVIOUS
  <1>3. IsWellFoundedOn(R, FiniteSubsetsOf(Nat))
    BY FS_StrictSubsetOrderingWellFounded
  <1>4. PICK x \in U : \A y \in U : ~(<<y, x>> \in R)
    <2> HIDE DEF U, R
    <2> QED BY <1>1, <1>2, <1>3, WFMin
  <1>5. PICK m \in T : x = 1 .. m
    OBVIOUS
  <1>6. ASSUME NEW n \in T, n < m
        PROVE  FALSE
    <2>1. 1 .. n \subseteq 1 .. m /\ 1 .. n # 1 .. m
      <3>1. m \in 1 .. m /\ m \notin 1 .. n
        BY <1>6
      <3> QED BY <1>6, <3>1
    <2>2. <<1 .. n, 1 .. m>> \in R
      BY <2>1 DEF StrictSubsetOrdering
    <2> QED BY <1>4, <1>5, <2>2
  <1> QED BY <1>6

\* Induction for a set of numbers.
LEMMA Counting ==
    ASSUME NEW G \in SUBSET Nat, 0 \in G, \A n \in G : n + 1 \in G
    PROVE  G = Nat
  <1>1. SUFFICES ASSUME Nat \ G # {}
                 PROVE  FALSE
    OBVIOUS
  <1>2. PICK m \in Nat \ G : \A n \in Nat \ G : m <= n
    BY <1>1, LeastNumber
  <1>3. m # 0 /\ m - 1 \in Nat
    BY <1>2
  <1>4. m - 1 \in G
    BY <1>2, <1>3
  <1> QED BY <1>2, <1>3, <1>4

\* The sequence of the values that a function gives when it is applied again and again.
Follows(a, x, g) == a[0] = x /\ \A j \in Nat : a[j + 1] = g[a[j]]

\* Following a function is well defined.
LEMMA Iterated ==
    ASSUME NEW X, NEW x \in X, NEW g \in [X -> X]
    PROVE  \E a \in [Nat -> X] : Follows(a, x, g)
  <1> DEFINE Up(f, n) == f[0] = x /\ \A j \in 0 .. n - 1 : f[j + 1] = g[f[j]]
             G == {n \in Nat : \E f \in [0 .. n -> X] : Up(f, n)}
  <1>1. 0 \in G
    <2>1. [j \in 0 .. 0 |-> x] \in [0 .. 0 -> X] /\ Up([j \in 0 .. 0 |-> x], 0)
      OBVIOUS
    <2> QED BY <2>1
  <1>2. ASSUME NEW n \in G
        PROVE  n + 1 \in G
    <2>1. PICK f \in [0 .. n -> X] : Up(f, n)
      OBVIOUS
    <2> DEFINE h == [j \in 0 .. n + 1 |-> IF j = n + 1 THEN g[f[n]] ELSE f[j]]
    <2>2. h \in [0 .. n + 1 -> X]
      OBVIOUS
    <2>3. h[0] = x /\ h[n + 1] = g[h[n]] /\ \A j \in 0 .. n : h[j] = f[j]
      BY <2>1
    <2>4. Up(h, n + 1)
      <3> HIDE DEF h
      <3> QED BY <2>1, <2>3
    <2>5. n + 1 \in Nat
      OBVIOUS
    <2> HIDE DEF h, Up
    <2> QED BY <2>2, <2>4, <2>5
  <1>3. G = Nat
    <2> HIDE DEF G
    <2> QED BY <1>1, <1>2, Counting DEF G
  <1> DEFINE F(n) == CHOOSE f \in [0 .. n -> X] : Up(f, n)
             a == [n \in Nat |-> F(n)[n]]
  <1>4. ASSUME NEW n \in Nat
        PROVE  F(n) \in [0 .. n -> X] /\ Up(F(n), n)
    <2>1. n \in G
      BY <1>3
    <2> QED BY <2>1
  <1>5. a \in [Nat -> X]
    BY <1>4
  <1>6. ASSUME NEW n \in Nat, NEW f \in [0 .. n -> X], Up(f, n)
        PROVE  \A k \in 0 .. n : f[k] = a[k]
    <2> DEFINE E == {k \in Nat : k <= n => \A m \in k .. n : \A h \in [0 .. m -> X] : Up(h, m) => h[k] = f[k]}
    <2>1. 0 \in E
      BY <1>6
    <2>2. ASSUME NEW k \in E
          PROVE  k + 1 \in E
      <3>1. ASSUME k + 1 <= n, NEW m \in k + 1 .. n, NEW h \in [0 .. m -> X], Up(h, m)
            PROVE  h[k + 1] = f[k + 1]
        <4>1. h[k] = f[k]
          <5>1. k <= n /\ m \in k .. n
            BY <3>1
          <5>2. \A j \in k .. n : \A e \in [0 .. j -> X] : Up(e, j) => e[k] = f[k]
            <6> HIDE DEF Up
            <6> QED BY <2>2, <5>1
          <5> HIDE DEF Up, E
          <5> QED BY <3>1, <5>1, <5>2
        <4>2. h[k + 1] = g[h[k]] /\ f[k + 1] = g[f[k]]
          <5>1. k \in 0 .. m - 1 /\ k \in 0 .. n - 1
            BY <3>1
          <5> QED BY ONLY <1>6, <3>1, <5>1
        <4> QED BY <4>1, <4>2
      <3> QED BY <3>1
    <2>3. E = Nat
      <3> HIDE DEF E
      <3> QED BY <2>1, <2>2, Counting DEF E
    <2>4. ASSUME NEW k \in 0 .. n
          PROVE  f[k] = a[k]
      <3>0. k \in Nat /\ k <= n
        OBVIOUS
      <3>1. k \in E
        <4> HIDE DEF E
        <4> QED BY <2>3, <3>0
      <3>2. F(k) \in [0 .. k -> X] /\ Up(F(k), k)
        <4> HIDE DEF F, Up
        <4> QED BY <1>4, <3>0
      <3>3. F(k)[k] = f[k]
        <4> HIDE DEF F
        <4> QED BY <3>0, <3>1, <3>2
      <3> QED BY <3>3
    <2> QED BY <2>4
  <1>7. a[0] = x
    <2>1. Up(F(0), 0)
      BY <1>4
    <2> QED BY <2>1
  <1>8. ASSUME NEW j \in Nat
        PROVE  a[j + 1] = g[a[j]]
    <2>1. F(j + 1) \in [0 .. j + 1 -> X] /\ Up(F(j + 1), j + 1)
      <3>1. j + 1 \in Nat
        OBVIOUS
      <3> HIDE DEF F, Up
      <3> QED BY <1>4, <3>1
    <2>2. F(j + 1)[j] = a[j] /\ F(j + 1)[j + 1] = a[j + 1]
      <3> HIDE DEF F, a, Up
      <3> QED BY <1>6, <2>1
    <2> HIDE DEF F, a
    <2> QED BY <2>1, <2>2
  <1> HIDE DEF a
  <1> QED BY <1>5, <1>7, <1>8 DEF Follows

-----------------------------------------------------------------------------
(* Following pointers. *)

LEMMA Following ==
    ASSUME NEW X, NEW x \in X, NEW g \in [X -> X],
           NEW f, \A p \in X : g[p] = IF p = Zero THEN Zero ELSE f[p]
    PROVE  /\ Walk(f, x) \in [Nat -> X]
           /\ Walk(f, x)[0] = x
           /\ \A k \in Nat : Walk(f, x)[k + 1] = g[Walk(f, x)[k]]
  <1> DEFINE Is(a) == a = [k \in Nat |-> IF k = 0 THEN x
                                        ELSE IF a[k - 1] = Zero THEN Zero ELSE f[a[k - 1]]]
  <1>1. \E a \in [Nat -> X] : Follows(a, x, g)
    BY Iterated
  <1>2. PICK a \in [Nat -> X] : a[0] = x /\ \A k \in Nat : a[k + 1] = g[a[k]]
    BY <1>1 DEF Follows
  <1>3. \A k \in Nat : k # 0 => a[k] = IF a[k - 1] = Zero THEN Zero ELSE f[a[k - 1]]
    <2>1. ASSUME NEW k \in Nat, k # 0
          PROVE  a[k] = IF a[k - 1] = Zero THEN Zero ELSE f[a[k - 1]]
      <3>1. k - 1 \in Nat /\ k - 1 + 1 = k
        BY <2>1
      <3>2. a[k - 1 + 1] = g[a[k - 1]] /\ a[k - 1] \in X
        BY <1>2, <3>1
      <3> QED BY <3>1, <3>2
    <2> QED BY <2>1
  <1>4. Is(a)
    BY <1>2, <1>3
  <1>5. Is(Walk(f, x))
    <2>1. Walk(f, x) = CHOOSE b : Is(b)
      BY DEF Walk
    <2> HIDE DEF Is
    <2> QED BY <1>4, <2>1
  <1> DEFINE w == Walk(f, x)
  <1>6. w[0] = x /\ \A k \in Nat : w[k + 1] = IF w[k] = Zero THEN Zero ELSE f[w[k]]
    <2>1. ASSUME NEW k \in Nat
          PROVE  w[k + 1] = IF w[k] = Zero THEN Zero ELSE f[w[k]]
      <3>1. k + 1 \in Nat /\ k + 1 # 0 /\ k + 1 - 1 = k
        OBVIOUS
      <3> HIDE DEF w
      <3> QED BY <1>5, <3>1 DEF w
    <2> QED BY <1>5, <2>1
  <1>7. {k \in Nat : w[k] \in X} = Nat
    <2> DEFINE G == {k \in Nat : w[k] \in X}
    <2>1. 0 \in G
      BY <1>6
    <2>2. ASSUME NEW k \in G
          PROVE  k + 1 \in G
      <3> HIDE DEF w
      <3>1. w[k + 1] = g[w[k]]
        BY <1>6
      <3> QED BY <3>1
    <2> HIDE DEF G
    <2> QED BY <2>1, <2>2, Counting DEF G
  <1> QED BY <1>5, <1>6, <1>7

Pointers(f, D) == f \in [D -> D \cup {Zero}] /\ Zero \notin D

LEMMA Walking ==
    ASSUME NEW D, NEW f, Pointers(f, D)
    PROVE  \A x \in D \cup {Zero} :
              /\ Walk(f, x) \in [Nat -> D \cup {Zero}]
              /\ Walk(f, x)[0] = x
              /\ \A k \in Nat : Walk(f, x)[k + 1] = IF Walk(f, x)[k] = Zero THEN Zero ELSE f[Walk(f, x)[k]]
  <1> SUFFICES ASSUME NEW X, X = D \cup {Zero}, NEW x \in X,
                      NEW g, g = [p \in X |-> IF p = Zero THEN Zero ELSE f[p]]
               PROVE  /\ Walk(f, x) \in [Nat -> X]
                      /\ Walk(f, x)[0] = x
                      /\ \A k \in Nat : Walk(f, x)[k + 1] =
                                          IF Walk(f, x)[k] = Zero THEN Zero ELSE f[Walk(f, x)[k]]
    OBVIOUS
  <1>1. g \in [X -> X] /\ \A p \in X : g[p] = IF p = Zero THEN Zero ELSE f[p]
    BY DEF Pointers
  <1> QED BY ONLY <1>1, x \in X, Following

\* A list l that ends with y, as the heap has it.
Links(f, l, y) == \A k \in DOMAIN l : f[l[k]] = IF k = Len(l) THEN y ELSE l[k + 1]
Start(l, y) == IF l = << >> THEN y ELSE l[1]

LEMMA ListLength ==
    ASSUME NEW D, IsFiniteSet(D), NEW l \in Seq(D), IsInjective(l)
    PROVE  Len(l) <= Cardinality(D)
  <1>1. l \in [1 .. Len(l) -> D] /\ Len(l) \in Nat
    OBVIOUS
  <1>2. l \in Injection(1 .. Len(l), D)
    BY <1>1 DEF IsInjective, Injection
  <1>3. Cardinality(1 .. Len(l)) = Len(l)
    <2>1. 1 \in Int /\ Len(l) \in Int
      BY <1>1
    <2>2. Cardinality(1 .. Len(l)) = IF 1 > Len(l) THEN 0 ELSE Len(l) - 1 + 1
      BY ONLY <2>1, FS_Interval, Zenon
    <2> QED BY <1>1, <2>2
  <1> QED BY <1>2, <1>3, FS_Injection

LEMMA WalkOfList ==
    ASSUME NEW D, NEW f, Pointers(f, D), NEW l \in Seq(D),
           NEW y \in D \cup {Zero}, Links(f, l, y)
    PROVE  \A k \in 0 .. Len(l) : Walk(f, Start(l, y))[k] = IF k = Len(l) THEN y ELSE l[k + 1]
  <1> DEFINE w == Walk(f, Start(l, y))
             G == {k \in Nat : k <= Len(l) => w[k] = IF k = Len(l) THEN y ELSE l[k + 1]}
  <1>1. Start(l, y) \in D \cup {Zero}
    BY DEF Start
  <1>2. w[0] = Start(l, y) /\ \A k \in Nat : w[k + 1] = IF w[k] = Zero THEN Zero ELSE f[w[k]]
    <2>1. \A x \in D \cup {Zero} : Walk(f, x)[0] = x
      BY Walking
    <2>2. \A x \in D \cup {Zero} : \A k \in Nat : Walk(f, x)[k + 1] = IF Walk(f, x)[k] = Zero THEN Zero ELSE f[Walk(f, x)[k]]
      BY Walking
    <2>3. w[0] = Start(l, y) 
      BY <2>1, <1>1
    <2> QED BY <2>2, <2>3, <1>1
  <1>3. 0 \in G
    BY <1>2 DEF Start
  <1>4. ASSUME NEW k \in G
        PROVE  k + 1 \in G
    <2>1. SUFFICES ASSUME k + 1 <= Len(l)
                   PROVE  w[k + 1] = IF k + 1 = Len(l) THEN y ELSE l[k + 2]
      OBVIOUS
    <2>2. k + 1 \in DOMAIN l /\ w[k] = l[k + 1]
      BY <2>1
    <2>3. w[k] # Zero /\ k \in Nat
      BY <2>2 DEF Pointers
    <2>4. w[k + 1] = f[l[k + 1]]
      <3> HIDE DEF w
      <3> QED BY <1>2, <2>2, <2>3
    <2>5. f[l[k + 1]] = IF k + 1 = Len(l) THEN y ELSE l[k + 1 + 1]
      BY <2>2 DEF Links
    <2> HIDE DEF w
    <2> QED BY <2>3, <2>4, <2>5
  <1>5. G = Nat
    <2> HIDE DEF G
    <2> QED BY <1>3, <1>4, Counting DEF G
  <1> QED BY <1>5

LEMMA PathOfList ==
    ASSUME NEW D, IsFiniteSet(D), NEW f, Pointers(f, D),
           NEW l \in Seq(D), IsInjective(l), NEW y \in D \cup {Zero}, y \notin ToSet(l),
           Links(f, l, y)
    PROVE  Path(f, Start(l, y), y) = l /\ Returns(f, Start(l, y), y)
  <1> DEFINE w == Walk(f, Start(l, y))
             Is(n) == w[n] = y /\ \A j \in 0 .. n - 1 : w[j] # y
             n == CHOOSE k \in Steps(f) : Is(k)
  <1>1. \A k \in 0 .. Len(l) : w[k] = IF k = Len(l) THEN y ELSE l[k + 1]
    BY WalkOfList
  <1>2. Len(l) \in Steps(f)
    <2>1. Cardinality(D) \in Nat
      BY FS_CardinalityType
    <2> QED BY <2>1, ListLength DEF Steps, Pointers
  <1>3. Is(Len(l))
    BY <1>1 DEF ToSet
  <1>4. ASSUME NEW k \in Steps(f), Is(k)
        PROVE  k = Len(l)
    <2>1. k \in Nat
      <3>1. Cardinality(D) \in Nat
        BY FS_CardinalityType
      <3> QED BY <3>1 DEF Steps, Pointers
    <2>2. ~(k < Len(l))
      <3>1. ASSUME k < Len(l)
            PROVE  FALSE
        <4>1. w[k] = l[k + 1] /\ k + 1 \in DOMAIN l
          <5> HIDE DEF w
          <5> QED BY <1>1, <2>1, <3>1
        <4> QED BY <1>4, <4>1 DEF ToSet
      <3> QED BY <3>1
    <2>3. ~(Len(l) < k)
      <3>1. ASSUME Len(l) < k
            PROVE  FALSE
        <4>1. Len(l) \in 0 .. k - 1
          BY <2>1, <3>1
        <4> HIDE DEF w
        <4> QED BY <1>3, <1>4, <4>1
      <3> QED BY <3>1
    <2> QED BY <2>1, <2>2, <2>3
  <1>5. n = Len(l)
    <2> HIDE DEF Is
    <2> QED BY <1>2, <1>3, <1>4
  <1>6. Path(f, Start(l, y), y) = [k \in 1 .. n |-> w[k - 1]]
    BY DEF Path
  <1>7. [k \in 1 .. Len(l) |-> w[k - 1]] = l
    <2>1. ASSUME NEW k \in 1 .. Len(l)
          PROVE  w[k - 1] = l[k]
      <3>1. k - 1 \in 0 .. Len(l) /\ k - 1 # Len(l) /\ k - 1 + 1 = k
        OBVIOUS
      <3> HIDE DEF w
      <3> QED BY <1>1, <3>1
    <2> HIDE DEF w
    <2> QED BY <2>1
  <1>8. Returns(f, Start(l, y), y)
    BY <1>2, <1>3 DEF Returns
  <1> HIDE DEF n, w
  <1> QED BY <1>5, <1>6, <1>7, <1>8

-----------------------------------------------------------------------------
(* Rings and lists. *)

\* The modules of r follow each other, and the first one the last one.
IsRing(nx, r) ==
    r \in Seq(Module) /\ r # << >> /\ IsInjective(r) /\ Links(nx, r, r[1])

LEMMA RingTurned ==
    ASSUME NEW nx, NEW r, IsRing(nx, r), NEW k \in DOMAIN r
    PROVE  \E s : IsRing(nx, s) /\ s[1] = r[k] /\ ToSet(s) = ToSet(r) /\ Len(s) = Len(r)
  <1> DEFINE n == Len(r)
             At(j) == IF j + k - 1 <= n THEN j + k - 1 ELSE j + k - 1 - n
             s == [j \in 1 .. n |-> r[At(j)]]
  <1>1. n \in Nat /\ k \in 1 .. n /\ DOMAIN r = 1 .. n /\ r \in [1 .. n -> Module]
    BY DEF IsRing
  <1>2. \A j \in 1 .. n : At(j) \in 1 .. n
    BY <1>1
  <1>3. s \in Seq(Module) /\ Len(s) = n /\ s[1] = r[k] /\ s # << >>
    <2>1. s \in [1 .. n -> Module]
      <3> HIDE DEF n, At
      <3> QED BY <1>1, <1>2
    <2>2. s \in Seq(Module)
      <3> HIDE DEF s, n
      <3> QED BY <1>1, <2>1
    <2>3. Len(s) = n
      <3> HIDE DEF n, At
      <3> QED BY <1>1, <2>1, <2>2
    <2>4. s[1] = r[At(1)] /\ At(1) = k
      BY <1>1
    <2> HIDE DEF s, n, At
    <2> QED BY <1>1, <2>2, <2>3, <2>4
  <1>4. IsInjective(s)
    <2>1. ASSUME NEW i \in 1 .. n, NEW j \in 1 .. n, At(i) = At(j)
          PROVE  i = j
      BY <1>1, <2>1
    <2>2. \A i, j \in 1 .. n : r[At(i)] = r[At(j)] => At(i) = At(j)
      <3> HIDE DEF At, n
      <3> QED BY <1>1, <1>2 DEF IsRing, IsInjective
    <2> HIDE DEF At, n
    <2> QED BY <2>1, <2>2 DEF IsInjective
  <1>5. ASSUME NEW j \in 1 .. n
        PROVE  nx[s[j]] = IF j = n THEN s[1] ELSE s[j + 1]
    <2>1. nx[r[At(j)]] = IF At(j) = n THEN r[1] ELSE r[At(j) + 1]
      <3> HIDE DEF At
      <3> QED BY <1>1, <1>2 DEF IsRing, Links
    <2>2. CASE j = n
      <3>1. At(j) = IF k = 1 THEN n ELSE k - 1
        BY <1>1, <2>2
      <3> HIDE DEF At, n
      <3>2. IF At(j) = n THEN r[1] = r[k] ELSE r[At(j) + 1] = r[k]
        BY <1>1, <3>1
      <3> QED BY <1>3, <2>1, <2>2, <3>2
    <2>3. CASE j # n
      <3>1. j + 1 \in 1 .. n /\ At(j + 1) = IF At(j) = n THEN 1 ELSE At(j) + 1
        <4>1. j + 1 \in 1 .. n
          <5> HIDE DEF n, At
          <5> QED BY <1>1, <2>3
        <4> HIDE DEF n
        <4>2. CASE j + k - 1 <= n
          BY <1>1, <2>3, <4>2
        <4>3. CASE ~(j + k - 1 <= n)
          BY <1>1, <2>3, <4>3
        <4> QED BY <4>1, <4>2, <4>3
      <3> HIDE DEF At, n
      <3> QED BY <2>1, <2>3, <3>1
    <2> QED BY <2>2, <2>3
  <1>6. Links(nx, s, s[1])
    <2> HIDE DEF s, n
    <2> QED BY <1>3, <1>5 DEF Links
  <1>7. ToSet(s) = ToSet(r)
    <2>1. ToSet(s) \subseteq ToSet(r)
      <3> HIDE DEF n, At
      <3> QED BY <1>1, <1>2 DEF ToSet
    <2>2. ASSUME NEW j \in 1 .. n
          PROVE  r[j] \in ToSet(s)
      <3> DEFINE i == IF j >= k THEN j - k + 1 ELSE j - k + 1 + n
      <3>1. i \in 1 .. n /\ At(i) = j
        BY <1>1
      <3> HIDE DEF n, At, i
      <3> QED BY <3>1 DEF ToSet
    <2> HIDE DEF s
    <2> QED BY <1>1, <2>1, <2>2 DEF ToSet
  <1> HIDE DEF s
  <1> QED BY <1>3, <1>4, <1>6, <1>7 DEF IsRing

LEMMA RingReturns ==
    ASSUME NEW nx, Pointers(nx, Module), NEW r, IsRing(nx, r), NEW y
    PROVE  Returns(nx, r[1], y) <=> y \in ToSet(r)
  <1> DEFINE w == Walk(nx, r[1])
             G == {k \in Nat : w[k] \in ToSet(r)}
  <1>1. r \in Seq(Module) /\ r # << >> /\ 1 \in DOMAIN r /\ r[1] \in Module
    BY DEF IsRing
  <1>2. \A k \in 0 .. Len(r) : w[k] = IF k = Len(r) THEN r[1] ELSE r[k + 1]
    <2>1. Start(r, r[1]) = r[1] /\ Links(nx, r, r[1])
      BY <1>1 DEF Start, IsRing
    <2>2. r[1] \in Module \cup {Zero}
      BY <1>1
    <2>3. \A k \in 0 .. Len(r) : Walk(nx, Start(r, r[1]))[k] = IF k = Len(r) THEN r[1] ELSE r[k + 1]
      BY ONLY <1>1, <2>1, <2>2, Pointers(nx, Module), WalkOfList
    <2> QED BY <2>1, <2>3
  <1>3. DOMAIN nx = Module /\ Zero \notin Module
    BY DEF Pointers
  <1>4. Len(r) <= Cardinality(Module) /\ Cardinality(Module) \in Nat
    BY <1>1, TablesAssumption, ListLength, FS_CardinalityType DEF IsRing
  <1>5. ASSUME y \in ToSet(r)
        PROVE  Returns(nx, r[1], y)
    <2>1. PICK k \in DOMAIN r : r[k] = y
      BY <1>5 DEF ToSet
    <2>2. k - 1 \in 0 .. Len(r) /\ k - 1 # Len(r) /\ k - 1 + 1 = k /\ k - 1 \in Steps(nx)
      BY <1>1, <1>3, <1>4 DEF Steps
    <2>3. w[k - 1] = y
      <3> HIDE DEF w
      <3> QED BY <1>2, <2>1, <2>2
    <2> QED BY <2>2, <2>3 DEF Returns
  <1>6. \A k \in Nat : w[k + 1] = IF w[k] = Zero THEN Zero ELSE nx[w[k]]
    <2>1. \A x \in Module \cup {Zero} : \A k \in Nat :
             Walk(nx, x)[k + 1] = IF Walk(nx, x)[k] = Zero THEN Zero ELSE nx[Walk(nx, x)[k]]
      BY Walking
    <2> QED BY <1>1, <2>1
  <1>7. G = Nat
    <2>1. 0 \in G
      BY <1>1, <1>2 DEF ToSet
    <2>2. ASSUME NEW k \in G
          PROVE  k + 1 \in G
      <3>1. PICK j \in DOMAIN r : w[k] = r[j]
        BY DEF ToSet
      <3>2. r[j] # Zero
        BY <1>1, <1>3
      <3>3. w[k + 1] = nx[r[j]]
        <4> HIDE DEF w
        <4> QED BY <1>6, <3>1, <3>2 
      <3>4. nx[r[j]] \in ToSet(r)
        BY <1>1 DEF IsRing, Links, ToSet
      <3> HIDE DEF w
      <3> QED BY <3>3, <3>4
    <2> HIDE DEF G
    <2> QED BY <2>1, <2>2, Counting DEF G
  <1>8. ASSUME Returns(nx, r[1], y)
        PROVE  y \in ToSet(r)
    <2>1. PICK k \in Steps(nx) : w[k] = y
      BY <1>8 DEF Returns
    <2>2. k \in Nat
      BY <1>3, <1>4 DEF Steps
    <2> QED BY <1>7, <2>1, <2>2
  <1> QED BY <1>5, <1>8

LEMMA RingComesBack ==
    ASSUME NEW nx, Pointers(nx, Module), NEW r, IsRing(nx, r)
    PROVE  Returns(nx, nx[r[1]], r[1])
  <1>1. nx[r[1]] \in ToSet(r) /\ r[1] \in ToSet(r)
    BY DEF IsRing, Links, ToSet
  <1>2. PICK k \in DOMAIN r : r[k] = nx[r[1]]
    BY <1>1 DEF ToSet
  <1>3. PICK s : IsRing(nx, s) /\ s[1] = r[k] /\ ToSet(s) = ToSet(r)
    BY RingTurned
  <1> QED BY <1>1, <1>2, <1>3, RingReturns

\* What SWIG_MangledTypeQueryModule() goes through: the other modules.
LEMMA RingOfOthers ==
    ASSUME NEW nx, Pointers(nx, Module), NEW r, IsRing(nx, r), NEW m \in ToSet(r)
    PROVE  IF nx[m] = m THEN ToSet(r) = {m}
           ELSE Ring(nx, nx[m], m) \in Seq(Module) /\ ToSet(Ring(nx, nx[m], m)) = ToSet(r) \ {m}
  <1>1. PICK k \in DOMAIN r : r[k] = m
    BY DEF ToSet
  <1>2. PICK s : IsRing(nx, s) /\ s[1] = m /\ ToSet(s) = ToSet(r)
    BY <1>1, RingTurned
  <1>3. s \in Seq(Module) /\ Len(s) \in Nat /\ Len(s) # 0 /\ DOMAIN s = 1 .. Len(s)
    BY <1>2 DEF IsRing
  <1>4. ASSUME NEW i \in DOMAIN s, NEW j \in DOMAIN s, s[i] = s[j]
        PROVE  i = j
    BY <1>2, <1>4 DEF IsRing, IsInjective
  <1>5. CASE Len(s) = 1
    <2>1. nx[m] = m
      BY <1>2, <1>3, <1>5 DEF IsRing, Links
    <2>2. ToSet(s) = {m}
      BY <1>2, <1>3, <1>5 DEF ToSet
    <2> QED BY <1>2, <2>1, <2>2
  <1>6. CASE Len(s) # 1
    <2> DEFINE l == [j \in 1 .. Len(s) - 2 |-> s[j + 2]]
    <2>1. Len(s) >= 2 /\ Len(s) - 2 \in Nat /\ 2 \in DOMAIN s
      BY <1>3, <1>6
    <2>2. nx[m] = s[2] /\ s[2] # m /\ s[2] \in Module
      <3>1. 1 \in DOMAIN s /\ 1 # Len(s) /\ 1 + 1 = 2
        BY <1>3, <1>6
      <3>2. nx[s[1]] = IF 1 = Len(s) THEN s[1] ELSE s[1 + 1]
        BY <1>2, <3>1 DEF IsRing, Links
      <3>3. s[2] # s[1]
        BY <1>4, <2>1, <3>1
      <3>4. s[2] \in Module
        BY <1>3, <2>1
      <3> QED BY <1>2, <3>1, <3>2, <3>3, <3>4
    <2>3. l \in Seq(Module) /\ Len(l) = Len(s) - 2
      <3>1. l \in [1 .. Len(s) - 2 -> Module]
        BY <1>3, <2>1
      <3> HIDE DEF l
      <3> QED BY <2>1, <3>1
    <2>4. \A j \in 1 .. Len(s) - 2 : l[j] = s[j + 2] /\ j + 2 \in DOMAIN s /\ j + 2 # 1
      BY <1>3
    <2>5. IsInjective(l) /\ m \notin ToSet(l)
      <3>1. DOMAIN l = 1 .. Len(s) - 2
        OBVIOUS
      <3> HIDE DEF l
      <3>2. IsInjective(l)
        <4>1. ASSUME NEW i \in DOMAIN l, NEW j \in DOMAIN l, l[i] = l[j]
              PROVE  i = j
          <5>1. i + 2 = j + 2
            BY <1>4, <2>4, <3>1, <4>1
          <5> QED BY <3>1, <5>1
        <4> QED BY <4>1 DEF IsInjective
      <3>3. ASSUME NEW j \in DOMAIN l, l[j] = m
            PROVE  FALSE
        BY <1>2, <1>3, <1>4, <2>4, <3>1, <3>3
      <3> QED BY <3>2, <3>3 DEF ToSet
    <2>6. nx[s[2]] = Start(l, m)
      <3>1. nx[s[2]] = IF 2 = Len(s) THEN m ELSE s[3]
        BY <1>2, <1>3, <2>1 DEF IsRing, Links
      <3>2. CASE Len(s) = 2
        <4>1. l = << >>
          <5> HIDE DEF l
          <5> QED BY <2>3, <3>2
        <4> QED BY <3>1, <3>2, <4>1 DEF Start
      <3>3. CASE Len(s) # 2
        <4>1. l # << >> /\ l[1] = s[3]
          <5>1. 1 \in 1 .. Len(s) - 2 /\ Len(l) # 0
            BY <2>1, <2>3, <3>3
          <5> HIDE DEF l
          <5> QED BY <2>3, <2>4, <5>1
        <4> HIDE DEF l
        <4> QED BY <3>1, <3>3, <4>1 DEF Start
      <3> QED BY <3>2, <3>3
    <2>7. Links(nx, l, m)
      <3>1. ASSUME NEW j \in 1 .. Len(s) - 2
            PROVE  nx[l[j]] = IF j = Len(s) - 2 THEN m ELSE l[j + 1]
        <4>1. nx[s[j + 2]] = IF j + 2 = Len(s) THEN m ELSE s[j + 2 + 1]
          BY <1>2, <1>3, <2>4 DEF IsRing, Links
        <4>2. j # Len(s) - 2 => j + 1 \in 1 .. Len(s) - 2 /\ l[j + 1] = s[j + 2 + 1]
          BY <2>1
        <4>3. l[j] = s[j + 2] /\ (j + 2 = Len(s) <=> j = Len(s) - 2)
          BY <1>3, <2>4
        <4> HIDE DEF l
        <4> QED BY <4>1, <4>2, <4>3
      <3> HIDE DEF l
      <3> QED BY <2>3, <3>1 DEF Links
    <2>8. Path(nx, nx[s[2]], m) = l
      <3>1. m \in Module \cup {Zero}
        BY <1>2, <1>3
      <3> HIDE DEF l
      <3> QED BY <2>3, <2>5, <2>6, <2>7, <3>1, PathOfList, TablesAssumption
    <2>9. Ring(nx, nx[m], m) = <<s[2]>> \o l
      BY <2>2, <2>8 DEF Ring
    <2>10. ToSet(<<s[2]>> \o l) = ToSet(s) \ {m} /\ <<s[2]>> \o l \in Seq(Module)
      <3> DEFINE c == <<s[2]>> \o l
      <3>1. <<s[2]>> \in Seq(Module) /\ Len(<<s[2]>>) = 1
        BY <2>2
      <3>2. c \in Seq(Module) /\ DOMAIN c = 1 .. Len(s) - 1
        <4> HIDE DEF l
        <4> QED BY <2>1, <2>3, <3>1
      <3>3. \A j \in 1 .. Len(s) - 1 : c[j] = s[j + 1]
        <4>1. \A j \in 1 .. Len(s) - 1 : c[j] = IF j <= 1 THEN s[2] ELSE l[j - 1]
          <5> HIDE DEF l
          <5> QED BY <2>1, <2>3, <3>1
        <4>2. \A j \in 1 .. Len(s) - 1 : j > 1 => j - 1 \in 1 .. Len(s) - 2 /\ j - 1 + 2 = j + 1
          BY <2>1
        <4> HIDE DEF l, c
        <4> QED BY <2>1, <2>4, <4>1, <4>2
      <3>4. ASSUME NEW x \in ToSet(s) \ {m}
            PROVE  x \in ToSet(c)
        <4>1. PICK j \in DOMAIN s : s[j] = x
          BY DEF ToSet
        <4>2. j # 1
          BY <1>2, <4>1
        <4>3. j - 1 \in 1 .. Len(s) - 1 /\ j - 1 + 1 = j
          BY <1>3, <4>2
        <4> HIDE DEF c
        <4> QED BY <3>2, <3>3, <4>1, <4>3 DEF ToSet
      <3>5. ASSUME NEW j \in 1 .. Len(s) - 1
            PROVE  c[j] \in ToSet(s) \ {m}
        <4>1. j + 1 \in DOMAIN s /\ j + 1 # 1 /\ 1 \in DOMAIN s
          BY <1>3, <2>1
        <4> HIDE DEF c
        <4> QED BY <1>2, <1>4, <3>3, <4>1 DEF ToSet
      <3> HIDE DEF c
      <3> QED BY <3>2, <3>4, <3>5 DEF ToSet, c
    <2> QED BY <1>2, <2>2, <2>9, <2>10
  <1> QED BY <1>5, <1>6

-----------------------------------------------------------------------------
(* Searching. *)

LEMMA FirstOfList ==
    ASSUME NEW D, NEW l \in Seq(D), Zero \notin D, NEW S
    PROVE  IF ToSet(l) \cap S = {} THEN FirstIn(l, S) = Zero
           ELSE FirstIn(l, S) \in ToSet(l) \cap S
  <1> DEFINE I == {i \in 1 .. Len(l) : l[i] \in S}
             k == IF I # {} THEN Min(I) ELSE 0
  <1>1. FirstIn(l, S) = IF k = 0 THEN Zero ELSE l[k]
    BY DEF FirstIn, SelectInSeq
  <1>2. CASE I = {}
    <2>1. ToSet(l) \cap S = {}
      BY <1>2 DEF ToSet
    <2>2. k = 0
      BY <1>2
    <2> HIDE DEF k
    <2> QED BY <1>1, <2>1, <2>2
  <1>3. CASE I # {}
    <2>1. I \in SUBSET Nat
      OBVIOUS
    <2>2. \E x \in I : \A y \in I : x <= y
      <3> HIDE DEF I
      <3> QED BY <1>3, <2>1, LeastNumber
    <2>3. Min(I) \in I
      <3> HIDE DEF I
      <3> QED BY <2>2 DEF Min
    <2>4. k \in I
      BY <1>3, <2>3
    <2>5. k \in 1 .. Len(l) /\ l[k] \in S /\ k # 0
      <3> HIDE DEF k
      <3> QED BY <2>4
    <2>6. l[k] \in ToSet(l)
      <3> HIDE DEF k
      <3> QED BY <2>5 DEF ToSet
    <2> HIDE DEF k, I
    <2> QED BY <1>1, <2>5, <2>6
  <1> QED BY <1>2, <1>3

\* The bisection finds what is in the table and nothing else.
LEMMA SearchFinds ==
    ASSUME NEW names \in Seq(Nat), NEW name \in Nat,
           \A j, k \in DOMAIN names : j < k => names[j] < names[k]
    PROVE  Search(names, name) # 0 <=> name \in ToSet(names)
  <1> DEFINE n == Len(names)
             D == (0 .. n) \X (0 .. n - 1)
             Turn(in, p) ==
                 LET l == p[1]
                     r == p[2]
                     i == (l + r) \div 2
                 IN  IF l > r THEN 0
                     ELSE IF name = names[i + 1] THEN i + 1
                     ELSE IF name > names[i + 1] THEN in[<<i + 1, r>>]
                     ELSE IF i = 0 THEN 0 ELSE in[<<l, i - 1>>]
             Is(in) == in = [p \in D |-> Turn(in, p)]
             at == IF name \in ToSet(names) THEN CHOOSE j \in DOMAIN names : names[j] = name ELSE 0
             found == [p \in D |-> IF p[1] < at /\ at <= p[2] + 1 THEN at ELSE 0]
             s == CHOOSE in : Is(in)
  <1>1. Search(names, name) = IF names = << >> THEN 0 ELSE s[<<0, n - 1>>]
    BY DEF Search
  <1>2. n \in Nat /\ DOMAIN names = 1 .. n /\ \A j \in 1 .. n : names[j] \in Nat
    OBVIOUS
  <1>4. /\ at \in 0 .. n
        /\ at # 0 <=> name \in ToSet(names)
        /\ \A j \in 1 .. n : at # 0 => /\ j < at => names[j] < name
                                       /\ j = at => names[j] = name
                                       /\ j > at => names[j] > name
        /\ \A j \in 1 .. n : at = 0 => names[j] # name
    <2>1. CASE name \in ToSet(names)
      <3>1. at \in 1 .. n /\ names[at] = name
        BY <1>2, <2>1 DEF ToSet
      <3> HIDE DEF at
      <3> QED BY <1>2, <2>1, <3>1
    <2>2. CASE name \notin ToSet(names)
      <3>1. at = 0
        BY <2>2
      <3> HIDE DEF at
      <3> QED BY <1>2, <2>2, <3>1 DEF ToSet
    <2> QED BY <2>1, <2>2
  <1> HIDE DEF at
  <1>5. ASSUME NEW l \in 0 .. n, NEW r \in 0 .. n - 1, l <= r
        PROVE  /\ (l + r) \div 2 \in l .. r
               /\ <<(l + r) \div 2 + 1, r>> \in D
               /\ (l + r) \div 2 # 0 => <<l, (l + r) \div 2 - 1>> \in D
    <2>1. (l + r) \div 2 \in l .. r
      BY <1>2, <1>5
    <2> DEFINE i == (l + r) \div 2
    <2> HIDE DEF i
    <2>2. i \in l .. r
      BY <2>1 DEF i
    <2>3. i + 1 \in 0 .. n /\ (i # 0 => i - 1 \in 0 .. n - 1)
      BY <1>2, <2>2
    <2> QED BY <2>2, <2>3 DEF i
  <1>6. ASSUME NEW in, NEW l \in 0 .. n, NEW r \in 0 .. n - 1,
               \A p \in D : l <= r /\ p[2] - p[1] < r - l => in[p] = found[p]
        PROVE  Turn(in, <<l, r>>) = found[<<l, r>>]
    <2>1. found[<<l, r>>] = IF l < at /\ at <= r + 1 THEN at ELSE 0
      OBVIOUS
    <2>2. CASE l > r
      <3>1. Turn(in, <<l, r>>) = 0
        BY <2>2
      <3> HIDE DEF Turn, found
      <3> QED BY <1>2, <1>4, <2>1, <2>2, <3>1
    <2>3. CASE l <= r
      <3> DEFINE i == (l + r) \div 2
      <3>1. i \in l .. r /\ <<i + 1, r>> \in D /\ (i # 0 => <<l, i - 1>> \in D)
        BY <1>5, <2>3
      <3>2. Turn(in, <<l, r>>) = IF name = names[i + 1] THEN i + 1
                     ELSE IF name > names[i + 1] THEN in[<<i + 1, r>>]
                     ELSE IF i = 0 THEN 0 ELSE in[<<l, i - 1>>]
        BY <2>3
      <3>3. in[<<i + 1, r>>] = IF i + 1 < at /\ at <= r + 1 THEN at ELSE 0
        <4>1. in[<<i + 1, r>>] = found[<<i + 1, r>>]
          <5>1. r - (i + 1) < r - l
            <6> HIDE DEF i
            <6> QED BY <3>1
          <5> DEFINE p == <<i + 1, r>>
          <5>2. p \in D /\ p[2] - p[1] < r - l
            BY <3>1, <5>1
          <5> HIDE DEF p, found, D
          <5>3. in[p] = found[p]
            BY <1>6, <2>3, <5>2
          <5> QED BY <5>3 DEF p
        <4> HIDE DEF i
        <4> QED BY <3>1, <4>1
      <3>4. i # 0 => in[<<l, i - 1>>] = IF l < at /\ at <= i THEN at ELSE 0
        <4>1. i # 0 => in[<<l, i - 1>>] = found[<<l, i - 1>>]
          <5>1. i - 1 - l < r - l
            <6> HIDE DEF i
            <6> QED BY <3>1
          <5> DEFINE p == <<l, i - 1>>
          <5>2. i # 0 => p \in D /\ p[2] - p[1] < r - l
            BY <3>1, <5>1
          <5> HIDE DEF p, found, D
          <5>3. i # 0 => in[p] = found[p]
            BY <1>6, <2>3, <5>2
          <5> QED BY <5>3 DEF p
        <4> HIDE DEF i
        <4>2. i # 0 => found[<<l, i - 1>>] = IF l < at /\ at <= i - 1 + 1 THEN at ELSE 0
          BY <3>1
        <4>3. i - 1 + 1 = i
          BY <3>1
        <4> QED BY ONLY <4>1, <4>2, <4>3
      <3>5. i + 1 \in 1 .. n
        BY <1>2, <3>1
      <3> HIDE DEF i, Turn, found, D
      <3>6. CASE name = names[i + 1]
        <4>1. at = i + 1
          BY <1>2, <1>4, <3>5, <3>6
        <4> QED BY <1>2, <2>1, <3>1, <3>2, <3>6, <4>1
      <3>7. CASE name > names[i + 1]
        <4>1. at = 0 \/ i + 1 < at
          <5>1. at # 0 => ~(i + 1 = at) /\ ~(i + 1 > at)
            <6>1. /\ at # 0 /\ i + 1 = at => names[i + 1] = name
                  /\ at # 0 /\ i + 1 > at => names[i + 1] > name
              BY <1>4, <3>5
            <6>2. names[i + 1] \in Nat
              BY <1>2, <3>5
            <6> QED BY ONLY <3>7, <6>1, <6>2
          <5>2. at \in Nat /\ i + 1 \in Nat
            BY <1>2, <1>4, <3>5
          <5> QED BY ONLY <5>1, <5>2
        <4>2. name # names[i + 1] /\ at \in Nat
          BY <1>2, <1>4, <3>5, <3>7
        <4> QED BY <1>2, <2>1, <3>1, <3>2, <3>3, <3>7, <4>1, <4>2
      <3>8. CASE name < names[i + 1]
        <4>1. at <= i /\ at \in Nat
          <5>1. at # 0 => ~(i + 1 = at) /\ ~(i + 1 < at)
            <6>1. /\ at # 0 /\ i + 1 = at => names[i + 1] = name
                  /\ at # 0 /\ i + 1 < at => names[i + 1] < name
              BY <1>4, <3>5
            <6>2. names[i + 1] \in Nat
              BY <1>2, <3>5
            <6> QED BY ONLY <3>8, <6>1, <6>2
          <5>2. at \in Nat /\ i \in Nat
            BY <1>2, <1>4, <3>1, <3>5
          <5> QED BY ONLY <5>1, <5>2
        <4>2. name # names[i + 1] /\ ~(name > names[i + 1])
          BY <1>2, <3>5, <3>8
        <4>3. Turn(in, <<l, r>>) = IF i = 0 THEN 0 ELSE in[<<l, i - 1>>]
          BY ONLY <3>2, <4>2
        <4>4. i \in Nat /\ l \in Nat /\ r \in Int /\ i <= r
          BY <1>2, <3>1
        <4> QED BY ONLY <2>1, <3>4, <4>1, <4>3, <4>4, SMTT(30)
      <3> QED BY <1>2, <3>5, <3>6, <3>7, <3>8
    <2> QED BY <1>2, <2>2, <2>3
  <1>7. Is(found)
    <2>1. ASSUME NEW p \in D
          PROVE  Turn(found, p) = found[p]
      <3>1. PICK l \in 0 .. n, r \in 0 .. n - 1 : p = <<l, r>>
        OBVIOUS
      <3> HIDE DEF Turn, found
      <3> QED BY <1>6, <3>1
    <2> HIDE DEF Turn
    <2> QED BY <2>1
  <1>8. Is(s)
    <2> HIDE DEF Is, found
    <2> QED BY <1>7
  <1> DEFINE G == {k \in Nat : \A p \in D : p[2] - p[1] < k => s[p] = found[p]}
  <1>9. \A p \in D : s[p] = Turn(s, p)
    <2> HIDE DEF s, Turn
    <2> QED BY <1>8
  <1> HIDE DEF s, found, Turn
  <1>10. ASSUME NEW k \in Nat, \A p \in D : p[2] - p[1] < k => s[p] = found[p],
                NEW p \in D, p[2] - p[1] < k + 1
         PROVE  s[p] = found[p]
    <2>1. PICK l \in 0 .. n, r \in 0 .. n - 1 : p = <<l, r>>
      OBVIOUS
    <2>2. \A q \in D : l <= r /\ q[2] - q[1] < r - l => s[q] = found[q]
      <3>1. \A q \in D : q[1] \in Int /\ q[2] \in Int
        BY <1>2
      <3> HIDE DEF D
      <3> QED BY <1>2, <1>10, <2>1, <3>1
    <2> QED BY <1>6, <1>9, <2>1, <2>2
  <1>11. 0 \in G
    <2>1. ASSUME NEW p \in D, p[2] - p[1] < 0
          PROVE  s[p] = found[p]
      <3>1. PICK l \in 0 .. n, r \in 0 .. n - 1 : p = <<l, r>>
        OBVIOUS
      <3>2. ~(l <= r)
        BY <1>2, <2>1, <3>1
      <3> QED BY <1>6, <1>9, <3>1, <3>2
    <2> QED BY <2>1
  <1>12. G = Nat
    <2>1. \A k \in G : k + 1 \in G
      BY <1>10
    <2> HIDE DEF G
    <2> QED BY <1>11, <2>1, Counting DEF G
  <1>13. CASE n = 0
    BY <1>1, <1>4, <1>13 DEF ToSet
  <1>14. CASE n # 0
    <2>1. <<0, n - 1>> \in D /\ n \in G /\ (n - 1) - 0 < n
      BY <1>2, <1>12, <1>14
    <2>2. s[<<0, n - 1>>] = found[<<0, n - 1>>]
      BY <2>1
    <2>3. found[<<0, n - 1>>] = at
      BY <1>2, <1>4, <2>1 DEF found
    <2> QED BY <1>1, <1>4, <1>14, <2>2, <2>3
  <1> QED BY <1>2, <1>13, <1>14

-----------------------------------------------------------------------------
(* What holds in every state of a process with one interpreter.             *)

\* Lib/lua and Lib/tcl keep the list of modules in the interpreter.
OneInterpreter == \E i : Interp = {i}

\* a module is in the loops of SWIG_InitializeModule()
Filling == loading.at \in {"types", "casts"}

\* the modules that are through them
Complete == IF Filling THEN Initialized \ {loading.module} ELSE Initialized

\* the types that the module which is not has in "types"
Filled == IF Filling THEN {Names[loading.module][j] : j \in 1 .. loading.i - 1} ELSE {}

PointersTyped ==
    /\ head \in [Interp -> Ptr(Module)]
    /\ Pointers(next, Module)
    /\ DOMAIN typeOf = Module /\ \A m \in Module : typeOf[m] \in [Known(m) -> Ptr(Type)]
    /\ loading \in [at : {"end", "types", "casts", "classes"}, module : Ptr(Module),
                    i : Nat, cast : Nat, type : Ptr(Type)]

RingInv ==
    \A i \in Interp :
        IF head[i] = Zero THEN Initialized = {}
        ELSE \E r : IsRing(next, r) /\ r[1] = head[i] /\ ToSet(r) = Initialized

LoadingInv ==
    /\ loading.at = "end" => loading = AtRest
    /\ loading.at # "end" => /\ loading.module \in Initialized
                             /\ loading.i \in 1 .. Len(Names[loading.module]) + 1
    /\ loading.at = "casts" => /\ loading.i <= Len(Names[loading.module])
                               /\ loading.cast \in 1 .. Len(castInitial) + 1
    /\ propagated = Complete

\* t is what m has to use for n
IsStructure(m, n, t) ==
    /\ \A k \in Complete : n \in Known(k) => t = typeOf[k][n]
    /\ (\A k \in Complete : n \notin Known(k)) => t = <<m, n>>

StructuresAgree ==
    /\ \A k \in Complete : \A n \in Known(k) :
          typeOf[k][n] \in Type /\ typeOf[k][n][1] \in Complete /\ typeOf[k][n][2] = n
    /\ \A k, m \in Complete : \A n \in Known(k) \cap Known(m) : typeOf[k][n] = typeOf[m][n]

FillingInv ==
    /\ \A n \in Filled : IsStructure(loading.module, n, typeOf[loading.module][n])
    /\ loading.at = "casts" => IsStructure(loading.module, typeName, loading.type)

ModulesInv == PointersTyped /\ RingInv /\ LoadingInv /\ StructuresAgree /\ FillingInv

LEMMA Tables ==
    ASSUME NEW m \in Module
    PROVE  /\ Names[m] \in Seq(Nat) /\ Len(Names[m]) \in Nat /\ DOMAIN Names[m] = 1 .. Len(Names[m])
           /\ \A j \in 1 .. Len(Names[m]) : Names[m][j] \in Known(m)
           /\ \A n \in Known(m) : n \in Nat /\ \E j \in 1 .. Len(Names[m]) : Names[m][j] = n
           /\ \A j, k \in 1 .. Len(Names[m]) : Names[m][j] = Names[m][k] => j = k
           /\ \A n \in Known(m) : /\ Row[m][n] \in Seq(Known(m)) /\ Len(Row[m][n]) \in Nat
                                  /\ DOMAIN Row[m][n] = 1 .. Len(Row[m][n])
                                  /\ <<m, n>> \in Type
                                  /\ \A j \in 1 .. Len(Row[m][n]) : Row[m][n][j] \in Known(m)
                                  /\ \A j, k \in 1 .. Len(Row[m][n]) : Row[m][n][j] = Row[m][n][k] => j = k
  <1>1. Names[m] \in Seq(Nat)
    BY TablesAssumption
  <1>2. Len(Names[m]) \in Nat /\ DOMAIN Names[m] = 1 .. Len(Names[m])
    BY <1>1
  <1>3. \A j \in 1 .. Len(Names[m]) : Names[m][j] \in Known(m) /\ Names[m][j] \in Nat
    BY <1>1, <1>2 DEF Known, ToSet
  <1>4. \A n \in Known(m) : n \in Nat /\ \E j \in 1 .. Len(Names[m]) : Names[m][j] = n
    BY <1>1, <1>2 DEF Known, ToSet
  <1>5. ASSUME NEW j \in 1 .. Len(Names[m]), NEW k \in 1 .. Len(Names[m]), Names[m][j] = Names[m][k]
        PROVE  j = k
    <2>1. \A a, b \in DOMAIN Names[m] : a < b => Names[m][a] < Names[m][b]
      BY TablesAssumption
    <2>2. ~(j < k) /\ ~(k < j)
      BY <1>2, <1>3, <1>5, <2>1
    <2> QED BY <1>2, <2>2
  <1>6. ASSUME NEW n \in Known(m)
        PROVE  /\ Row[m][n] \in Seq(Known(m)) /\ Len(Row[m][n]) \in Nat
               /\ DOMAIN Row[m][n] = 1 .. Len(Row[m][n])
               /\ <<m, n>> \in Type
               /\ \A j \in 1 .. Len(Row[m][n]) : Row[m][n][j] \in Known(m)
               /\ \A j, k \in 1 .. Len(Row[m][n]) : Row[m][n][j] = Row[m][n][k] => j = k
    <2>1. Row[m][n] \in Seq(Known(m)) /\ IsInjective(Row[m][n])
      BY TablesAssumption
    <2>2. <<m, n>> \in Type
      BY DEF Type
    <2>3. Len(Row[m][n]) \in Nat /\ DOMAIN Row[m][n] = 1 .. Len(Row[m][n])
      BY <2>1
    <2>4. \A j \in 1 .. Len(Row[m][n]) : Row[m][n][j] \in Known(m)
      BY <2>1
    <2>5. \A j, k \in 1 .. Len(Row[m][n]) : Row[m][n][j] = Row[m][n][k] => j = k
      BY <2>1, <2>3 DEF IsInjective
    <2> QED BY <2>1, <2>2, <2>3, <2>4, <2>5
  <1> QED BY <1>1, <1>2, <1>3, <1>4, <1>5, <1>6

LEMMA Types ==
    \A t \in Type : t[1] \in Module /\ t[2] \in Known(t[1]) /\ t = <<t[1], t[2]>>
  BY DEF Type

LEMMA FillingModule ==
    ASSUME ModulesInv, loading.at # "end"
    PROVE  /\ loading.module \in Module /\ loading.module \in Initialized
           /\ loading.i <= Len(Names[loading.module]) => typeName \in Known(loading.module)
           /\ Filling => loading.module \notin Complete
           /\ ~Filling => loading.module \in Complete
           /\ Complete \subseteq Module
  <1>1. loading.module \in Initialized /\ loading.module \in Module
    BY DEF ModulesInv, LoadingInv, Initialized
  <1>2. loading.i \in 1 .. Len(Names[loading.module]) + 1 /\ Len(Names[loading.module]) \in Nat
    BY <1>1, Tables DEF ModulesInv, LoadingInv
  <1>3. loading.i <= Len(Names[loading.module]) => typeName \in Known(loading.module)
    BY <1>1, <1>2, Tables DEF typeName
  <1>4. Initialized \subseteq Module
    BY DEF Initialized
  <1> QED BY <1>1, <1>3, <1>4 DEF Complete

\* What SWIG_MangledTypeQueryModule() finds for a module that is in the loops.
LEMMA LoadedIs ==
    ASSUME OneInterpreter, ModulesInv, Filling, NEW n \in Nat
    PROVE  \/ (\A k \in Complete : n \notin Known(k)) /\ Loaded(loading.module, n) = Zero
           \/ \E k \in Complete : n \in Known(k) /\ Loaded(loading.module, n) = typeOf[k][n]
  <1> DEFINE m == loading.module
             o == Ring(next, next[m], m)
             S == {k \in Module : Search(Names[k], n) # 0}
             f == FirstIn(o, S)
  <1>1. m \in Initialized /\ m \in Module /\ Complete = Initialized \ {m} /\ Complete \subseteq Module
    BY FillingModule DEF Filling, Complete
  <1>2. PICK i \in Interp : TRUE
    BY DEF OneInterpreter
  <1>3. PICK r : IsRing(next, r) /\ ToSet(r) = Initialized
    BY <1>1, <1>2 DEF ModulesInv, RingInv
  <1>4. Pointers(next, Module)
    BY DEF ModulesInv, PointersTyped
  <1>5. IF next[m] = m THEN Initialized = {m}
        ELSE o \in Seq(Module) /\ ToSet(o) = Initialized \ {m}
    BY <1>1, <1>3, <1>4, RingOfOthers
  <1>6. CASE next[m] = m
    <2>1. Complete = {}
      BY <1>1, <1>5, <1>6
    <2>2. Loaded(m, n) = Zero
      BY <1>6 DEF Loaded
    <2> QED BY <2>1, <2>2
  <1>7. CASE next[m] # m
    <2>1. Loaded(m, n) = IF f = Zero THEN Zero ELSE typeOf[f][n]
      BY <1>7 DEF Loaded, MangledTypeQueryModule
    <2>2. o \in Seq(Module) /\ ToSet(o) = Complete
      BY <1>1, <1>5, <1>7
    <2>3. Zero \notin Module
      BY ZeroAssumption
    <2> HIDE DEF o
    <2>4. IF ToSet(o) \cap S = {} THEN f = Zero ELSE f \in ToSet(o) \cap S
      <3> HIDE DEF S
      <3> QED BY <2>2, <2>3, FirstOfList
    <2>5. \A k \in Module : k \in S <=> n \in Known(k)
      <3>1. ASSUME NEW k \in Module
            PROVE  Search(Names[k], n) # 0 <=> n \in Known(k)
        <4>1. Names[k] \in Seq(Nat) /\ \A a, b \in DOMAIN Names[k] : a < b => Names[k][a] < Names[k][b]
          BY TablesAssumption
        <4> QED BY <4>1, SearchFinds DEF Known
      <3> QED BY <3>1
    <2> HIDE DEF S, f
    <2>6. CASE f = Zero
      <3>1. \A k \in Complete : n \notin Known(k)
        BY <1>1, <2>2, <2>3, <2>4, <2>5, <2>6
      <3> QED BY <2>1, <2>6, <3>1
    <2>7. CASE f # Zero
      <3>1. f \in Complete /\ n \in Known(f)
        BY <1>1, <2>2, <2>4, <2>5, <2>7
      <3> QED BY <2>1, <2>7, <3>1
    <2> QED BY <2>6, <2>7
  <1> QED BY <1>6, <1>7

LEMMA TypeForIs ==
    ASSUME OneInterpreter, ModulesInv, Filling, NEW n \in Known(loading.module)
    PROVE  IsStructure(loading.module, n, TypeFor(loading.module, n)) /\ TypeFor(loading.module, n) \in Type
  <1>1. loading.module \in Module
    BY FillingModule DEF Filling
  <1>2. n \in Nat /\ <<loading.module, n>> \in Type
    BY <1>1, Tables
  <1>3. CASE (\A k \in Complete : n \notin Known(k)) /\ Loaded(loading.module, n) = Zero
    BY <1>2, <1>3 DEF IsStructure, TypeFor
  <1>4. CASE \E k \in Complete : n \in Known(k) /\ Loaded(loading.module, n) = typeOf[k][n]
    <2>1. PICK k \in Complete : n \in Known(k) /\ Loaded(loading.module, n) = typeOf[k][n]
      BY <1>4
    <2>2. typeOf[k][n] \in Type
      BY <2>1 DEF ModulesInv, StructuresAgree
    <2>3. TypeFor(loading.module, n) = typeOf[k][n]
      BY <2>1, <2>2, ZeroAssumption DEF TypeFor
    <2>4. \A l \in Complete : n \in Known(l) => typeOf[k][n] = typeOf[l][n]
      BY <2>1 DEF ModulesInv, StructuresAgree
    <2> QED BY <2>1, <2>2, <2>3, <2>4 DEF IsStructure
  <1> QED BY <1>2, <1>3, <1>4, LoadedIs

\* nx becomes after when m is put behind h.
Behind(nx, after, h, m) == after = [nx EXCEPT ![m] = nx[h], ![h] = m]

LEMMA RingJoined ==
    ASSUME NEW nx, Pointers(nx, Module), NEW r, IsRing(nx, r),
           NEW m \in Module, m \notin ToSet(r),
           NEW after, Behind(nx, after, r[1], m)
    PROVE  \E s : IsRing(after, s) /\ s[1] = r[1] /\ ToSet(s) = ToSet(r) \cup {m}
  <1> DEFINE n == Len(r)
             s == [j \in 1 .. n + 1 |-> IF j = 1 THEN r[1] ELSE IF j = 2 THEN m ELSE r[j - 1]]
  <1>1. n \in Nat /\ n >= 1 /\ DOMAIN r = 1 .. n /\ \A j \in 1 .. n : r[j] \in Module
    BY DEF IsRing
  <1>2. \A j, k \in 1 .. n : r[j] = r[k] => j = k
    BY <1>1 DEF IsRing, IsInjective
  <1>3. \A j \in 1 .. n : r[j] # m /\ nx[r[j]] = IF j = n THEN r[1] ELSE r[j + 1]
    BY <1>1 DEF IsRing, Links, ToSet
  <1>4. /\ after[m] = nx[r[1]]
        /\ after[r[1]] = m
        /\ \A j \in 2 .. n : after[r[j]] = nx[r[j]]
    <2> HIDE DEF n
    <2>0. 1 \in 1 .. n /\ \A j \in 2 .. n : j \in 1 .. n /\ j # 1
      BY <1>1
    <2>1. r[1] \in Module /\ r[1] # m /\ DOMAIN nx = Module
      BY <1>1, <1>3, <2>0 DEF Pointers
    <2>2. \A j \in 2 .. n : r[j] \in Module /\ r[j] # m /\ r[j] # r[1]
      BY <1>1, <1>2, <1>3, <2>0
    <2> QED BY <2>1, <2>2 DEF Behind
  <1>5. s \in Seq(Module) /\ Len(s) = n + 1 /\ DOMAIN s = 1 .. n + 1
    <2>1. n + 1 \in Nat /\ \A j \in 1 .. n + 1 : s[j] \in Module
      BY <1>1
    <2>2. s \in [1 .. n + 1 -> Module]
      BY <2>1
    <2> HIDE DEF s, n
    <2> QED BY <2>1, <2>2
  <1>6. s[1] = r[1] /\ s[2] = m /\ \A j \in 3 .. n + 1 : j - 1 \in 2 .. n /\ s[j] = r[j - 1]
    BY <1>1
  <1> HIDE DEF s, n
  <1>7. IsInjective(s)
    <2>1. ASSUME NEW j \in 1 .. n + 1, NEW k \in 1 .. n + 1, s[j] = s[k]
          PROVE  j = k
      <3>1. j \in {1, 2} \cup 3 .. n + 1 /\ k \in {1, 2} \cup 3 .. n + 1
        BY <1>1
      <3>2. \A l \in 3 .. n + 1 : l - 1 \in 1 .. n /\ l - 1 # 1 /\ s[l] = r[l - 1]
        BY <1>1, <1>6
      <3>3. 1 \in 1 .. n
        BY <1>1
      <3>4. CASE j \in 3 .. n + 1 /\ k \in 3 .. n + 1
        <4>1. j - 1 = k - 1
          BY <1>2, <2>1, <3>2, <3>4
        <4> QED BY <1>1, <3>4, <4>1
      <3>5. CASE j \in {1, 2} /\ k \in 3 .. n + 1
        BY <1>2, <1>3, <1>6, <2>1, <3>2, <3>3, <3>5
      <3>6. CASE k \in {1, 2} /\ j \in 3 .. n + 1
        BY <1>2, <1>3, <1>6, <2>1, <3>2, <3>3, <3>6
      <3>7. CASE j \in {1, 2} /\ k \in {1, 2}
        BY <1>3, <1>6, <2>1, <3>3, <3>7
      <3> QED BY <3>1, <3>4, <3>5, <3>6, <3>7
    <2> QED BY <1>5, <2>1 DEF IsInjective
  <1>8. ASSUME NEW j \in 1 .. n + 1
        PROVE  after[s[j]] = IF j = n + 1 THEN s[1] ELSE s[j + 1]
    <2>1. CASE j = 1
      BY ONLY <1>1, <1>4, <1>6, <2>1
    <2>2. CASE j = 2
      <3>1. after[s[2]] = IF 1 = n THEN r[1] ELSE r[1 + 1]
        BY <1>1, <1>3, <1>4, <1>6
      <3>2. n # 1 => 3 \in 3 .. n + 1 /\ s[3] = r[2]
        BY <1>1, <1>6
      <3> QED BY <1>1, <1>6, <2>2, <3>1, <3>2
    <2>3. CASE j \in 3 .. n + 1
      <3>1. j - 1 \in 2 .. n /\ j - 1 \in 1 .. n /\ s[j] = r[j - 1]
        BY <1>1, <1>6, <2>3
      <3>2. after[s[j]] = IF j - 1 = n THEN r[1] ELSE r[j - 1 + 1]
        BY <1>3, <1>4, <3>1
      <3>3. j # n + 1 => j + 1 \in 3 .. n + 1 /\ s[j + 1] = r[j]
        BY <1>1, <1>6, <2>3
      <3>4. (j - 1 = n <=> j = n + 1) /\ j - 1 + 1 = j
        BY <1>1
      <3> QED BY <1>6, <3>2, <3>3, <3>4
    <2> QED BY <1>1, <2>1, <2>2, <2>3
  <1>9. IsRing(after, s)
    <2>1. s # << >> /\ \A j \in DOMAIN s : after[s[j]] = IF j = Len(s) THEN s[1] ELSE s[j + 1]
      BY ONLY <1>1, <1>5, <1>8
    <2> QED BY <1>5, <1>7, <2>1 DEF IsRing, Links
  <1>10. ToSet(s) = ToSet(r) \cup {m}
    <2>1. ASSUME NEW j \in 1 .. n + 1
          PROVE  s[j] \in ToSet(r) \cup {m}
      <3>1. j \in {1, 2} \cup 3 .. n + 1 /\ 1 \in 1 .. n /\ (j \in 3 .. n + 1 => j - 1 \in 1 .. n)
        BY <1>1
      <3> QED BY <1>1, <1>6, <3>1 DEF ToSet
    <2>2. ASSUME NEW j \in 1 .. n
          PROVE  r[j] \in ToSet(s)
      <3>1. j = 1 \/ (j + 1 \in 3 .. n + 1 /\ j + 1 - 1 = j)
        BY <1>1
      <3>2. 1 \in 1 .. n + 1 /\ 3 .. n + 1 \subseteq 1 .. n + 1
        BY <1>1
      <3>3. CASE j = 1
        BY <1>5, <1>6, <3>2, <3>3 DEF ToSet
      <3>4. CASE j + 1 \in 3 .. n + 1 /\ j + 1 - 1 = j
        <4>1. s[j + 1] = r[j]
          BY <1>6, <3>4
        <4> QED BY <1>5, <3>2, <3>4, <4>1 DEF ToSet
      <3> QED BY <3>1, <3>3, <3>4
    <2>3. m \in ToSet(s)
      <3>1. 2 \in 1 .. n + 1
        BY <1>1
      <3> QED BY <1>5, <1>6, <3>1 DEF ToSet
    <2> QED BY <1>1, <1>5, <2>1, <2>2, <2>3 DEF ToSet
  <1> QED BY <1>6, <1>9, <1>10

LEMMA RingOfOne ==
    ASSUME NEW nx, NEW m \in Module, nx[m] = m
    PROVE  IsRing(nx, <<m>>) /\ <<m>>[1] = m /\ ToSet(<<m>>) = {m}
  BY DEF IsRing, IsInjective, Links, ToSet

-----------------------------------------------------------------------------
(* SearchesEnd: the modules of an interpreter are a ring.                   *)

LEMMA ModulesInvInit ==
    ASSUME TypesInit
    PROVE  ModulesInv
  <1>1. Initialized = {} /\ Complete = {} /\ Filled = {}
    BY DEF TypesInit, Initialized, Complete, Filled, Filling, AtRest
  <1>2. PointersTyped
    <2>1. Zero \notin Module
      BY ZeroAssumption
    <2> QED BY <2>1 DEF TypesInit, AtRest, PointersTyped, Pointers, Ptr
  <1>3. RingInv
    BY <1>1 DEF TypesInit, RingInv
  <1>4. LoadingInv
    BY <1>1 DEF TypesInit, AtRest, LoadingInv
  <1>5. StructuresAgree /\ FillingInv
    BY <1>1 DEF TypesInit, AtRest, StructuresAgree, FillingInv
  <1> QED BY <1>2, <1>3, <1>4, <1>5 DEF ModulesInv

LEMMA FoundIs ==
    ASSUME ModulesInv, NEW i \in Interp, NEW m \in Module
    PROVE  Found(i, m) <=> m \in Initialized
  <1>1. CASE head[i] = Zero
    BY <1>1 DEF ModulesInv, RingInv, Found
  <1>2. CASE head[i] # Zero
    <2>1. PICK r : IsRing(next, r) /\ r[1] = head[i] /\ ToSet(r) = Initialized
      BY <1>2 DEF ModulesInv, RingInv
    <2>2. Pointers(next, Module)
      BY DEF ModulesInv, PointersTyped
    <2>3. Returns(next, r[1], m) <=> m \in ToSet(r)
      BY <2>1, <2>2, RingReturns
    <2> QED BY <1>2, <2>1, <2>3 DEF Found
  <1> QED BY <1>1, <1>2

LEMMA ModulesInvStutters ==
    ASSUME ModulesInv, UNCHANGED <<head, next, typeOf, propagated, loading>>
    PROVE  ModulesInv'
  <1>1. /\ Initialized' = Initialized /\ Complete' = Complete /\ Filled' = Filled /\ typeName' = typeName
        /\ castInitial' = castInitial
    BY DEF Initialized, Complete, Filled, Filling, typeName, castInitial
  <1>2. PointersTyped'
    BY DEF ModulesInv, PointersTyped
  <1>3. RingInv'
    BY <1>1 DEF ModulesInv, RingInv
  <1>4. LoadingInv'
    BY <1>1 DEF ModulesInv, LoadingInv
  <1>5. StructuresAgree'
    BY <1>1 DEF ModulesInv, StructuresAgree
  <1>6. FillingInv'
    BY <1>1 DEF ModulesInv, FillingInv, IsStructure
  <1> QED BY <1>2, <1>3, <1>4, <1>5, <1>6 DEF ModulesInv

\* A module that the interpreter has not is new.
LEMMA ModulesInvInitialize ==
    ASSUME OneInterpreter, ModulesInv, NEW i \in Interp, NEW m \in Module, SWIG_init(i, m)
    PROVE  /\ ModulesInv'
           /\ \/ m \in Initialized /\ UNCHANGED typesVars
              \/ /\ m \notin Initialized /\ loading' = [AtRest EXCEPT !.at = "types", !.module = m]
                 /\ Complete' = Complete /\ UNCHANGED <<typeOf, table, propagated>>
  <1>1. loading = AtRest /\ ~Filling /\ Complete = Initialized /\ propagated = Initialized
    BY DEF SWIG_init, Filling, AtRest, Complete, ModulesInv, LoadingInv
  <1>2. head[i] # Zero => head[i] \in Initialized
    <2>1. SUFFICES ASSUME head[i] # Zero
                   PROVE  head[i] \in Initialized
      OBVIOUS
    <2>2. PICK r : IsRing(next, r) /\ r[1] = head[i] /\ ToSet(r) = Initialized
      BY <2>1 DEF ModulesInv, RingInv
    <2>3. 1 \in DOMAIN r
      BY <2>2 DEF IsRing
    <2> QED BY <2>2, <2>3 DEF ToSet
  <1>3. Pointers(next, Module) /\ head \in [Interp -> Ptr(Module)] /\ Zero \notin Module
    BY ZeroAssumption DEF ModulesInv, PointersTyped
  <1>4. CASE m \in Initialized
    <2>1. Found(i, m) /\ head[i] # Zero
      BY <1>4, FoundIs DEF ModulesInv, RingInv
    <2>2. loading' = AtRest /\ propagated' = propagated \cup {m} /\ next' = next /\ head' = head
      <3>1. next[m] # Zero
        BY <1>4 DEF Initialized
      <3>2. m \in propagated
        BY <1>1, <1>4
      <3>3. head' = head
        BY <1>3, <2>1 DEF SWIG_init
      <3> QED BY <2>1, <3>1, <3>2, <3>3 DEF SWIG_init, StartClasses
    <2>3. UNCHANGED typesVars
      BY <1>1, <1>4, <2>2 DEF SWIG_init, typesVars
    <2>4. ModulesInv'
      <3>1. UNCHANGED <<head, next, typeOf, propagated, loading>>
        BY <2>3 DEF typesVars
      <3> QED BY <3>1, ModulesInvStutters
    <2> QED BY <1>4, <2>3, <2>4
  <1>5. CASE m \notin Initialized
    <2>1. ~Found(i, m) /\ next[m] = Zero
      BY <1>5, FoundIs DEF Initialized
    <2>2. /\ loading' = [AtRest EXCEPT !.at = "types", !.module = m]
          /\ next' = Joined(i, m) /\ UNCHANGED <<typeOf, table, propagated>>
      BY <2>1 DEF SWIG_init
    <2>3. /\ loading'.at = "types" /\ loading'.module = m /\ loading'.i = 1 /\ loading'.cast = 1
          /\ loading'.type = Zero /\ DOMAIN loading' = {"at", "module", "i", "cast", "type"}
      BY <2>2 DEF AtRest
    <2>4. head' = [head EXCEPT ![i] = IF @ = Zero THEN m ELSE @]
      BY DEF SWIG_init
    <2>5. /\ Pointers(next, Module)' /\ Initialized' = Initialized \cup {m}
          /\ \E r : IsRing(next', r) /\ r[1] = head'[i] /\ ToSet(r) = Initialized'
      <3>1. CASE head[i] = Zero
        <4>1. next' = [next EXCEPT ![m] = m] /\ Initialized = {} /\ head'[i] = m
          BY <1>3, <2>1, <2>2, <2>4, <3>1 DEF Joined, ModulesInv, RingInv
        <4>2. Pointers(next, Module)' /\ next'[m] = m /\ Initialized' = {m}
          BY <1>3, <4>1 DEF Pointers, Initialized
        <4>3. IsRing(next', <<m>>) /\ <<m>>[1] = m /\ ToSet(<<m>>) = {m}
          BY <4>2, RingOfOne
        <4> QED BY <4>1, <4>2, <4>3
      <3>2. CASE head[i] # Zero
        <4>1. next' = [next EXCEPT ![m] = next[head[i]], ![head[i]] = m] /\ head'[i] = head[i]
          BY <1>3, <2>1, <2>2, <2>4, <3>2 DEF Joined
        <4>2. PICK r : IsRing(next, r) /\ r[1] = head[i] /\ ToSet(r) = Initialized
          BY <3>2 DEF ModulesInv, RingInv
        <4>3. head[i] \in Initialized /\ head[i] \in Module /\ head[i] # m /\ next[head[i]] # Zero
          BY <1>2, <1>3, <1>5, <3>2 DEF Initialized
        <4>4. Pointers(next, Module)' /\ Initialized' = Initialized \cup {m}
          BY <1>3, <4>1, <4>3 DEF Pointers, Initialized
        <4>5. \E s : IsRing(next', s) /\ s[1] = r[1] /\ ToSet(s) = ToSet(r) \cup {m}
          <5>1. Behind(next, next', r[1], m)
            BY <4>1, <4>2 DEF Behind
          <5>2. m \notin ToSet(r)
            BY <1>5, <4>2
          <5>3. IsRing(next, r)
            BY <4>2
          <5>4. Pointers(next, Module)
            BY <1>3
          <5> QED BY <5>1, <5>2, <5>3, <5>4, RingJoined
        <4> QED BY <4>1, <4>2, <4>4, <4>5
      <3> QED BY <3>1, <3>2
    <2>6. Complete' = Complete /\ Filled' = {}
      BY <1>1, <1>5, <2>3, <2>5 DEF Complete, Filled, Filling
    <2>7. PointersTyped'
      <3>1. head' \in [Interp -> Ptr(Module)]
        BY <1>3, <2>4 DEF Ptr
      <3>2. loading' \in [at : {"end", "types", "casts", "classes"}, module : Ptr(Module),
                          i : Nat, cast : Nat, type : Ptr(Type)]
        BY <2>2 DEF AtRest, Ptr
      <3>3. DOMAIN typeOf' = Module /\ \A k \in Module : typeOf'[k] \in [Known(k) -> Ptr(Type)]
        BY <2>2 DEF ModulesInv, PointersTyped
      <3> QED BY <2>5, <3>1, <3>2, <3>3 DEF PointersTyped
    <2>8. RingInv'
      <3>1. \A j \in Interp : j = i
        BY DEF OneInterpreter
      <3>2. head'[i] # Zero
        BY <1>3, <2>4
      <3> QED BY <2>5, <3>1, <3>2 DEF RingInv
    <2>9. LoadingInv'
      <3>1. Len(Names[m]) \in Nat
        BY Tables
      <3> QED BY <1>1, <2>2, <2>3, <2>5, <2>6, <3>1 DEF LoadingInv
    <2>10. StructuresAgree'
      BY <2>2, <2>6 DEF ModulesInv, StructuresAgree
    <2>11. FillingInv'
      BY <2>3, <2>6 DEF FillingInv
    <2> QED BY <1>5, <2>2, <2>6, <2>7, <2>8, <2>9, <2>10, <2>11 DEF ModulesInv
  <1> QED BY <1>4, <1>5

LEMMA LoadingTyped ==
    ASSUME ModulesInv
    PROVE  loading \in [at : {"end", "types", "casts", "classes"}, module : Ptr(Module),
                        i : Nat, cast : Nat, type : Ptr(Type)]
  BY DEF ModulesInv, PointersTyped

\* The steps of the loops of SWIG_InitializeModule().
LEMMA ModulesInvNextType ==
    ASSUME OneInterpreter, ModulesInv, NextType
    PROVE  ModulesInv' /\ Complete' = Complete /\ Filled' = Filled
  <1> DEFINE m == loading.module
  <1>1. /\ Filling /\ loading.at = "types" /\ loading.i <= Len(Names[m])
        /\ loading' = [loading EXCEPT !.at = "casts", !.cast = 1, !.type = TypeFor(m, typeName)]
        /\ UNCHANGED <<head, next, typeOf, propagated>>
    BY DEF NextType, Filling
  <1>2. m \in Module /\ typeName \in Known(m)
    BY <1>1, FillingModule
  <1>3. /\ loading'.at = "casts" /\ loading'.module = m /\ loading'.i = loading.i /\ loading'.cast = 1
        /\ loading'.type = TypeFor(m, typeName)
    BY <1>1, LoadingTyped
  <1>4. IsStructure(m, typeName, TypeFor(m, typeName)) /\ TypeFor(m, typeName) \in Type
    BY <1>1, <1>2, TypeForIs
  <1>5. /\ Complete' = Complete /\ Filled' = Filled /\ Initialized' = Initialized
        /\ typeName' = typeName /\ castInitial' = castInitial
    BY <1>1, <1>3 DEF Complete, Filled, Filling, Initialized, typeName, castInitial
  <1>6. PointersTyped'
    BY <1>1, <1>4, LoadingTyped DEF ModulesInv, PointersTyped, Ptr
  <1>7. RingInv'
    BY <1>1, <1>5 DEF ModulesInv, RingInv
  <1>8. LoadingInv'
    <2>1. Len(castInitial) \in Nat
      BY <1>2, Tables DEF castInitial
    <2>2. 1 \in 1 .. Len(castInitial) + 1
      BY <2>1
    <2> QED BY <1>1, <1>3, <1>5, <2>2 DEF ModulesInv, LoadingInv
  <1>9. StructuresAgree'
    BY <1>1, <1>5 DEF ModulesInv, StructuresAgree
  <1>10. FillingInv'
    <2>1. \A n, t : IsStructure(m, n, t)' <=> IsStructure(m, n, t)
      BY <1>1, <1>3, <1>5 DEF IsStructure
    <2>2. \A n \in Filled : IsStructure(m, n, typeOf[m][n])
      BY DEF ModulesInv, FillingInv
    <2> QED BY <1>1, <1>3, <1>4, <1>5, <2>2 DEF FillingInv, IsStructure
  <1> QED BY <1>5, <1>6, <1>7, <1>8, <1>9, <1>10 DEF ModulesInv

LEMMA ModulesInvNextCast ==
    ASSUME ModulesInv, NextCast
    PROVE  ModulesInv' /\ Complete' = Complete /\ Filled' = Filled
  <1>1. /\ Filling /\ loading.at = "casts" /\ loading.cast <= Len(castInitial)
        /\ loading' = [loading EXCEPT !.cast = @ + 1]
        /\ UNCHANGED <<head, next, typeOf, propagated>>
    BY DEF NextCast, Filling
  <1>2. /\ loading'.at = "casts" /\ loading'.module = loading.module /\ loading'.i = loading.i
        /\ loading'.cast = loading.cast + 1 /\ loading'.type = loading.type
    BY <1>1, LoadingTyped
  <1>3. /\ Complete' = Complete /\ Filled' = Filled /\ Initialized' = Initialized
        /\ typeName' = typeName /\ castInitial' = castInitial
    BY <1>1, <1>2 DEF Complete, Filled, Filling, Initialized, typeName, castInitial
  <1>4. PointersTyped'
    BY <1>1, LoadingTyped DEF ModulesInv, PointersTyped
  <1>5. RingInv'
    BY <1>1, <1>3 DEF ModulesInv, RingInv
  <1>6. LoadingInv'
    <2>1. loading.module \in Module /\ typeName \in Known(loading.module)
      BY <1>1, FillingModule DEF ModulesInv, LoadingInv
    <2>2. Len(castInitial) \in Nat
      BY <2>1, Tables DEF castInitial
    <2>3. loading.cast + 1 \in 1 .. Len(castInitial) + 1
      BY <1>1, <2>2 DEF ModulesInv, LoadingInv
    <2> QED BY <1>1, <1>2, <1>3, <2>3 DEF ModulesInv, LoadingInv
  <1>7. StructuresAgree'
    BY <1>1, <1>3 DEF ModulesInv, StructuresAgree
  <1>8. FillingInv'
    BY <1>1, <1>2, <1>3 DEF ModulesInv, FillingInv, IsStructure
  <1> QED BY <1>3, <1>4, <1>5, <1>6, <1>7, <1>8 DEF ModulesInv

LEMMA ModulesInvEndCasts ==
    ASSUME ModulesInv, EndCasts
    PROVE  /\ ModulesInv' /\ Complete' = Complete /\ Filled' = Filled \cup {typeName}
           /\ typeName \notin Filled /\ typeOf'[loading.module][typeName] = loading.type
           /\ \A k \in Module : \A n \in Known(k) :
                 <<k, n>> # <<loading.module, typeName>> => typeOf'[k][n] = typeOf[k][n]
  <1> DEFINE m == loading.module
             n == typeName
  <1>1. /\ Filling /\ loading.at = "casts"
        /\ typeOf' = [typeOf EXCEPT ![m][n] = loading.type]
        /\ loading' = [loading EXCEPT !.at = "types", !.i = @ + 1]
        /\ UNCHANGED <<head, next, propagated>>
    BY DEF EndCasts, Filling
  <1>2. /\ loading'.at = "types" /\ loading'.module = m /\ loading'.i = loading.i + 1
    BY <1>1, LoadingTyped
  <1>3. /\ m \in Module /\ n \in Known(m) /\ m \notin Complete /\ Complete \subseteq Module
        /\ loading.i \in 1 .. Len(Names[m]) /\ Len(Names[m]) \in Nat
    <2>1. m \in Module
      BY <1>1, FillingModule
    <2>2. Len(Names[m]) \in Nat
      BY <2>1, Tables
    <2> QED BY <1>1, <2>1, <2>2, FillingModule DEF ModulesInv, LoadingInv
  <1>4. Complete' = Complete /\ Initialized' = Initialized
    BY <1>1, <1>2 DEF Complete, Filling, Initialized
  <1>5. Filled' = Filled \cup {n}
    <2>1. Filled' = {Names[m][j] : j \in 1 .. loading.i}
      <3>1. loading.i + 1 - 1 = loading.i
        BY <1>3
      <3>2. Filled' = {Names[loading'.module][j] : j \in 1 .. loading'.i - 1}
        BY <1>2 DEF Filled, Filling
      <3>3. loading'.i - 1 = loading.i
        BY <1>2, <1>3
      <3> QED BY <1>2, <3>2, <3>3
    <2>2. 1 .. loading.i = (1 .. loading.i - 1) \cup {loading.i}
      BY <1>3
    <2> QED BY <1>1, <2>1, <2>2 DEF Filled, typeName
  <1>6. n \notin Filled
    <2>1. \A j \in 1 .. loading.i - 1 : j \in 1 .. Len(Names[m]) /\ j # loading.i
      BY <1>3
    <2>2. \A j, k \in 1 .. Len(Names[m]) : Names[m][j] = Names[m][k] => j = k
      BY <1>3, Tables
    <2> QED BY <1>1, <1>3, <2>1, <2>2 DEF Filled, typeName
  <1>7. DOMAIN typeOf = Module /\ \A k \in Module : typeOf[k] \in [Known(k) -> Ptr(Type)]
    BY DEF ModulesInv, PointersTyped
  <1>8. /\ typeOf'[m][n] = loading.type /\ DOMAIN typeOf' = Module
        /\ \A k \in Module : \A l \in Known(k) : <<k, l>> # <<m, n>> => typeOf'[k][l] = typeOf[k][l]
    BY <1>1, <1>3, <1>7
  <1>9. PointersTyped'
    <2>1. \A k \in Module : typeOf'[k] \in [Known(k) -> Ptr(Type)]
      <3>1. loading.type \in Ptr(Type)
        BY LoadingTyped
      <3> QED BY <1>1, <1>3, <1>7, <3>1
    <2>2. loading' \in [at : {"end", "types", "casts", "classes"}, module : Ptr(Module),
                        i : Nat, cast : Nat, type : Ptr(Type)]
      <3>1. loading.i + 1 \in Nat /\ "types" \in {"end", "types", "casts", "classes"}
        BY <1>3
      <3>2. loading' = [loading EXCEPT !.at = "types", !.i = loading.i + 1]
        BY <1>1
      <3> QED BY <3>1, <3>2, LoadingTyped
    <2> QED BY <1>1, <1>8, <2>1, <2>2 DEF ModulesInv, PointersTyped
  <1>10. RingInv'
    BY <1>1, <1>4 DEF ModulesInv, RingInv
  <1>11. LoadingInv'
    <2>1. loading.i + 1 \in 1 .. Len(Names[m]) + 1
      BY <1>3
    <2> QED BY <1>1, <1>2, <1>4, <2>1 DEF ModulesInv, LoadingInv
  <1>12. StructuresAgree'
    BY <1>3, <1>4, <1>8 DEF ModulesInv, StructuresAgree
  <1>13. FillingInv'
    <2>1. ASSUME NEW l \in Known(m), NEW t, IsStructure(m, l, t)
          PROVE  /\ \A k \in Complete : l \in Known(k) => t = typeOf'[k][l]
                 /\ (\A k \in Complete : l \notin Known(k)) => t = <<m, l>>
      BY <1>3, <1>8, <2>1 DEF IsStructure
    <2>2. \A l \in Filled : IsStructure(m, l, typeOf[m][l]) /\ l \in Known(m)
      <3>1. Filled \subseteq Known(m)
        <4>1. \A j \in 1 .. loading.i - 1 : j \in 1 .. Len(Names[m])
          BY <1>3
        <4>2. \A j \in 1 .. Len(Names[m]) : Names[m][j] \in Known(m)
          BY <1>3, Tables
        <4>3. Filled \subseteq {Names[m][j] : j \in 1 .. loading.i - 1}
          BY DEF Filled
        <4> QED BY ONLY <4>1, <4>2, <4>3
      <3> QED BY <3>1 DEF ModulesInv, FillingInv
    <2>3. IsStructure(m, n, loading.type)
      BY <1>1 DEF ModulesInv, FillingInv
    <2>4. ASSUME NEW l \in Filled \cup {n}
          PROVE  /\ \A k \in Complete : l \in Known(k) => typeOf'[m][l] = typeOf'[k][l]
                 /\ (\A k \in Complete : l \notin Known(k)) => typeOf'[m][l] = <<m, l>>
      <3>1. CASE l \in Filled
        <4>1. IsStructure(m, l, typeOf[m][l]) /\ l \in Known(m) /\ typeOf'[m][l] = typeOf[m][l]
          BY <1>3, <1>6, <1>8, <2>2, <3>1
        <4> QED BY <2>1, <4>1
      <3>2. CASE l = n
        BY <1>3, <1>8, <2>1, <2>3, <3>2
      <3> QED BY <3>1, <3>2
    <2> HIDE DEF n
    <2> QED BY <1>2, <1>4, <1>5, <2>4 DEF FillingInv, IsStructure
  <1> QED BY <1>4, <1>5, <1>6, <1>8, <1>9, <1>10, <1>11, <1>12, <1>13 DEF ModulesInv

LEMMA ModulesInvEndTypes ==
    ASSUME ModulesInv, EndTypes
    PROVE  /\ ModulesInv' /\ Filled = Known(loading.module) /\ Complete' = Complete \cup {loading.module}
           /\ loading' = [AtRest EXCEPT !.at = "classes", !.module = loading.module]
  <1> DEFINE m == loading.module
  <1>1. Filling /\ loading.at = "types" /\ loading.i > Len(Names[m]) /\ UNCHANGED <<head, next, typeOf, table>>
    BY DEF EndTypes, Filling
  <1>2. m \in Module /\ m \in Initialized /\ m \notin Complete /\ Len(Names[m]) \in Nat /\ m \notin propagated
    BY <1>1, FillingModule, Tables DEF ModulesInv, LoadingInv
  <1>3. /\ loading' = [AtRest EXCEPT !.at = "classes", !.module = m]
        /\ propagated' = propagated \cup {m}
    BY <1>2 DEF EndTypes, StartClasses
  <1>4. loading'.at = "classes" /\ loading'.module = m /\ loading'.i = 1
    BY <1>3 DEF AtRest
  <1>5. Complete' = Complete \cup {m} /\ Initialized' = Initialized /\ Filled' = {} /\ Complete' = Initialized
    BY <1>1, <1>2, <1>4 DEF Complete, Filling, Initialized, Filled
  <1>6. Filled = Known(m)
    <2>1. loading.i - 1 = Len(Names[m])
      BY <1>1, <1>2 DEF ModulesInv, LoadingInv
    <2>2. Filled = {Names[m][j] : j \in 1 .. Len(Names[m])}
      BY <1>1, <2>1 DEF Filled
    <2>3. /\ \A j \in 1 .. Len(Names[m]) : Names[m][j] \in Known(m)
          /\ \A k \in Known(m) : \E j \in 1 .. Len(Names[m]) : Names[m][j] = k
      BY <1>2, Tables
    <2> QED BY ONLY <2>2, <2>3
  <1>7. PointersTyped'
    <2>1. loading' \in [at : {"end", "types", "casts", "classes"}, module : Ptr(Module),
                        i : Nat, cast : Nat, type : Ptr(Type)]
      BY <1>2, <1>3 DEF AtRest, Ptr
    <2> QED BY <1>1, <2>1 DEF ModulesInv, PointersTyped
  <1>8. RingInv'
    BY <1>1, <1>5 DEF ModulesInv, RingInv
  <1>9. LoadingInv'
    <2>1. 1 \in 1 .. Len(Names[m]) + 1
      BY <1>2
    <2>2. propagated = Complete
      BY DEF ModulesInv, LoadingInv
    <2> QED BY <1>2, <1>3, <1>4, <1>5, <2>1, <2>2 DEF LoadingInv
  <1>10. StructuresAgree'
    <2>1. \A n \in Known(m) : IsStructure(m, n, typeOf[m][n]) /\ <<m, n>> \in Type
      BY <1>2, <1>6, Tables DEF ModulesInv, FillingInv
    <2>2. \A n \in Known(m) : typeOf[m][n] \in Type /\ typeOf[m][n][1] \in Complete \cup {m} /\ typeOf[m][n][2] = n
      <3>1. ASSUME NEW n \in Known(m), NEW k \in Complete, n \in Known(k)
            PROVE  typeOf[m][n] \in Type /\ typeOf[m][n][1] \in Complete \cup {m} /\ typeOf[m][n][2] = n
        <4>1. typeOf[m][n] = typeOf[k][n]
          BY <2>1, <3>1 DEF IsStructure
        <4> QED BY <3>1, <4>1 DEF ModulesInv, StructuresAgree
      <3>2. ASSUME NEW n \in Known(m), \A k \in Complete : n \notin Known(k)
            PROVE  typeOf[m][n] \in Type /\ typeOf[m][n][1] \in Complete \cup {m} /\ typeOf[m][n][2] = n
        <4>1. typeOf[m][n] = <<m, n>> /\ <<m, n>> \in Type
          BY <2>1, <3>2 DEF IsStructure
        <4>2. <<m, n>>[1] = m /\ <<m, n>>[2] = n
          OBVIOUS
        <4> QED BY ONLY <4>1, <4>2
      <3> QED BY <3>1, <3>2
    <2>3. \A k \in Complete : \A n \in Known(k) \cap Known(m) : typeOf[k][n] = typeOf[m][n]
      BY <2>1 DEF IsStructure
    <2> QED BY <1>1, <1>5, <2>2, <2>3 DEF ModulesInv, StructuresAgree
  <1>11. FillingInv'
    BY <1>4, <1>5 DEF FillingInv
  <1> QED BY <1>3, <1>5, <1>6, <1>7, <1>8, <1>9, <1>10, <1>11 DEF ModulesInv

\* The steps of SWIG_PropagateClientData().
LEMMA ModulesInvClasses ==
    ASSUME ModulesInv, NextClass \/ EndClasses
    PROVE  ModulesInv' /\ Complete' = Complete
  <1> DEFINE m == loading.module
  <1>1. loading.at = "classes" /\ UNCHANGED <<head, next, typeOf, propagated>>
    BY DEF NextClass, EndClasses
  <1>2. /\ \/ loading' = AtRest
           \/ loading' = [loading EXCEPT !.i = @ + 1] /\ loading.i <= Len(Names[m])
    BY DEF NextClass, EndClasses
  <1>3. m \in Module /\ m \in Initialized /\ Len(Names[m]) \in Nat /\ loading.i \in 1 .. Len(Names[m]) + 1
    BY <1>1, FillingModule, Tables DEF ModulesInv, LoadingInv
  <1>4. \/ loading' = AtRest /\ loading'.at = "end"
        \/ loading'.at = "classes" /\ loading'.module = m /\ loading'.i \in 1 .. Len(Names[m]) + 1
    <2>1. CASE loading' = AtRest
      BY <2>1 DEF AtRest
    <2>2. CASE loading' = [loading EXCEPT !.i = @ + 1] /\ loading.i <= Len(Names[m])
      <3>1. loading'.at = "classes" /\ loading'.module = m /\ loading'.i = loading.i + 1
        BY <1>1, <2>2, LoadingTyped
      <3> QED BY <1>3, <2>2, <3>1
    <2> QED BY <1>2, <2>1, <2>2
  <1>5. Complete' = Complete /\ Initialized' = Initialized /\ Filled' = {}
    BY <1>1, <1>4 DEF Complete, Filled, Filling, Initialized
  <1>6. PointersTyped'
    <2>1. loading' \in [at : {"end", "types", "casts", "classes"}, module : Ptr(Module),
                        i : Nat, cast : Nat, type : Ptr(Type)]
      BY <1>2, LoadingTyped DEF AtRest, Ptr
    <2> QED BY <1>1, <2>1 DEF ModulesInv, PointersTyped
  <1>7. RingInv'
    BY <1>1, <1>5 DEF ModulesInv, RingInv
  <1>8. LoadingInv'
    BY <1>1, <1>3, <1>4, <1>5 DEF ModulesInv, LoadingInv
  <1>9. StructuresAgree'
    BY <1>1, <1>5 DEF ModulesInv, StructuresAgree
  <1>10. FillingInv'
    BY <1>4, <1>5 DEF FillingInv
  <1> QED BY <1>5, <1>6, <1>7, <1>8, <1>9, <1>10 DEF ModulesInv

LEMMA ModulesInvNext ==
    ASSUME OneInterpreter, ModulesInv, [TypesNext]_typesVars
    PROVE  ModulesInv'
  <1>1. CASE UNCHANGED typesVars
    BY <1>1, ModulesInvStutters DEF typesVars
  <1>2. ASSUME NEW i \in Interp, NEW m \in Module, SWIG_init(i, m)
        PROVE  ModulesInv'
    BY <1>2, ModulesInvInitialize
  <1>3. CASE NextType
    BY <1>3, ModulesInvNextType
  <1>4. CASE NextCast
    BY <1>4, ModulesInvNextCast
  <1>5. CASE EndCasts
    BY <1>5, ModulesInvEndCasts
  <1>6. CASE EndTypes
    BY <1>6, ModulesInvEndTypes
  <1>7. CASE NextClass \/ EndClasses
    BY <1>7, ModulesInvClasses
  <1>8. ASSUME NEW from \in InUse, NEW type \in InUse,
               ConvertPtr(from, type) \/ ConvertPtrByName(from[2], type)
        PROVE  ModulesInv'
    <2>1. UNCHANGED <<head, next, typeOf, propagated, loading>>
      BY <1>8 DEF ConvertPtr, ConvertPtrByName
    <2> QED BY <2>1, ModulesInvStutters
  <1> QED BY <1>1, <1>2, <1>3, <1>4, <1>5, <1>6, <1>7, <1>8 DEF TypesNext

\* swigrun.swg:203-205, swiginit.swg:103-111: with one interpreter the loop over the
\* modules comes back to its start, however many modules are loaded.
THEOREM SearchesEndForOne ==
    ASSUME OneInterpreter
    PROVE  TypesSpec => []SearchesEnd
  <1>1. ModulesInv => SearchesEnd
    <2>1. ASSUME ModulesInv, NEW i \in Interp, head[i] # Zero
          PROVE  Returns(next, next[head[i]], head[i])
      <3>1. PICK r : IsRing(next, r) /\ r[1] = head[i]
        BY <2>1 DEF ModulesInv, RingInv
      <3>2. Pointers(next, Module)
        BY <2>1 DEF ModulesInv, PointersTyped
      <3>3. Returns(next, next[r[1]], r[1])
        BY <3>1, <3>2, RingComesBack
      <3> QED BY <3>1, <3>3
    <2> QED BY <2>1 DEF SearchesEnd
  <1> QED BY <1>1, ModulesInvInit, ModulesInvNext, PTL DEF TypesSpec

-----------------------------------------------------------------------------
(* The lists of casts.                                                      *)

HeapTyped(h) ==
    h \in [cast : [Type -> Ptr(Cast)], clientdata : [Type -> Ptr(Module)],
           of : [Cast -> Type], nxt : [Cast -> Ptr(Cast)], prev : [Cast -> Ptr(Cast)]]

\* l is the list of type t: linked both ways, with one cast from each name
IsList(h, l, t) ==
    /\ l \in Seq(Cast)
    /\ h.cast[t] = Start(l, Zero) /\ Links(h.nxt, l, Zero)
    /\ \A k \in 2 .. Len(l) : h.prev[l[k]] = l[k - 1]
    /\ \A j, k \in DOMAIN l : l[j][3] = l[k][3] => j = k

\* L[t] is the list of each type t: casts of W[t], one from every name there
Heap(h, W, L) ==
    /\ \A t \in Type : IsList(h, L[t], t)
    /\ \A t \in Type : ToSet(L[t]) \subseteq W[t] /\ \A c \in W[t] : \E d \in ToSet(L[t]) : d[3] = c[3]
    /\ \A c \in Cast : (\A t \in Type : c \notin ToSet(L[t])) => h.nxt[c] = Zero
    /\ \A c \in Cast : h.of[c][2] = c[3]

Lists(h) == [t \in Type |-> Casts(h, t)]

Apart(W) == \A s, t \in Type : W[s] \cap W[t] # {} => s = t

LEMMA FiniteImage ==
    ASSUME NEW S, IsFiniteSet(S), NEW f
    PROVE  IsFiniteSet({f[x] : x \in S})
  <1> DEFINE T == {f[x] : x \in S}
             g == [x \in S |-> f[x]]
  <1>1. g \in Surjection(S, T)
    BY DEF Surjection
  <1> HIDE DEF g
  <1> QED BY <1>1, FS_Surjection

LEMMA FiniteRange ==
    ASSUME NEW D, NEW l \in Seq(D)
    PROVE  IsFiniteSet(ToSet(l))
  <1>1. ToSet(l) = {l[x] : x \in 1 .. Len(l)} /\ 1 \in Int /\ Len(l) \in Int
    BY DEF ToSet
  <1>2. IsFiniteSet(1 .. Len(l))
    BY <1>1, FS_Interval
  <1> QED BY <1>1, <1>2, FiniteImage

LEMMA CastsFinite == IsFiniteSet(Type) /\ IsFiniteSet(Cast)
  <1> DEFINE A == [m \in Module |-> {<<m, n>> : n \in Known(m)}]
             B == [t \in Type |-> {<<t[1], t[2], u>> : u \in ToSet(Row[t[1]][t[2]])}]
  <1>1. ASSUME NEW m \in Module
        PROVE  IsFiniteSet(A[m])
    <2> DEFINE f == [n \in Known(m) |-> <<m, n>>]
    <2>1. IsFiniteSet(Known(m))
      <3>1. Names[m] \in Seq(Nat)
        BY TablesAssumption
      <3> QED BY <3>1, FiniteRange DEF Known
    <2>2. A[m] = {f[n] : n \in Known(m)}
      OBVIOUS
    <2> HIDE DEF f
    <2> QED BY <2>1, <2>2, FiniteImage
  <1>2. IsFiniteSet(Type)
    <2>1. Type = UNION {A[m] : m \in Module}
      BY DEF Type
    <2> HIDE DEF A
    <2>2. IsFiniteSet({A[m] : m \in Module})
      BY FiniteImage, TablesAssumption
    <2>3. \A T \in {A[m] : m \in Module} : IsFiniteSet(T)
      BY <1>1
    <2> QED BY <2>1, <2>2, <2>3, FS_UNION
  <1>3. ASSUME NEW t \in Type
        PROVE  IsFiniteSet(B[t])
    <2> DEFINE R == Row[t[1]][t[2]]
               f == [u \in ToSet(R) |-> <<t[1], t[2], u>>]
    <2>1. IsFiniteSet(ToSet(R))
      <3>1. R \in Seq(Known(t[1]))
        BY Types, Tables
      <3> QED BY <3>1, FiniteRange
    <2>2. B[t] = {f[u] : u \in ToSet(R)}
      OBVIOUS
    <2> HIDE DEF f, R
    <2> QED BY <2>1, <2>2, FiniteImage
  <1>4. IsFiniteSet(Cast)
    <2>1. Cast = UNION {B[t] : t \in Type}
      BY DEF Cast
    <2> HIDE DEF B
    <2>2. IsFiniteSet({B[t] : t \in Type})
      BY <1>2, FiniteImage
    <2>3. \A T \in {B[t] : t \in Type} : IsFiniteSet(T)
      BY <1>3
    <2> QED BY <2>1, <2>2, <2>3, FS_UNION
  <1> QED BY <1>2, <1>4

LEMMA CastOf ==
    \A c \in Cast : /\ c[1] \in Module /\ c[2] \in Known(c[1]) /\ c[3] \in ToSet(Row[c[1]][c[2]])
                    /\ c = <<c[1], c[2], c[3]>> /\ c # Zero
  <1>1. SUFFICES ASSUME NEW c \in Cast
                 PROVE  /\ c[1] \in Module /\ c[2] \in Known(c[1]) /\ c[3] \in ToSet(Row[c[1]][c[2]])
                        /\ c = <<c[1], c[2], c[3]>> /\ c # Zero
    OBVIOUS
  <1>2. PICK t \in Type : \E u \in ToSet(Row[t[1]][t[2]]) : c = <<t[1], t[2], u>>
    BY DEF Cast
  <1>3. c # Zero
    BY ZeroAssumption
  <1> QED BY <1>2, <1>3, Types

LEMMA CastsOfList ==
    ASSUME NEW h, HeapTyped(h), NEW t \in Type, NEW l, IsList(h, l, t)
    PROVE  Casts(h, t) = l /\ Returns(h.nxt, h.cast[t], Zero)
  <1>1. Pointers(h.nxt, Cast) /\ Zero \notin Cast
    BY ZeroAssumption DEF HeapTyped, Pointers, Ptr
  <1>2. l \in Seq(Cast) /\ Links(h.nxt, l, Zero) /\ h.cast[t] = Start(l, Zero)
    BY DEF IsList
  <1>3. IsInjective(l)
    BY DEF IsList, IsInjective
  <1>4. Zero \notin ToSet(l) /\ Zero \in Cast \cup {Zero}
    BY <1>1, <1>2 DEF ToSet
  <1>5. Path(h.nxt, Start(l, Zero), Zero) = l /\ Returns(h.nxt, Start(l, Zero), Zero)
    BY <1>1, <1>2, <1>3, <1>4, CastsFinite, PathOfList
  <1> QED BY <1>2, <1>5 DEF Casts

LEMMA HeapLists ==
    ASSUME NEW h, HeapTyped(h), NEW W, NEW L, Heap(h, W, L)
    PROVE  \A t \in Type : Lists(h)[t] = L[t]
  BY CastsOfList DEF Heap, Lists

LEMMA HeapSame ==
    ASSUME NEW h, NEW W, NEW L, NEW K, \A t \in Type : K[t] = L[t], Heap(h, W, L)
    PROVE  Heap(h, W, K)
  BY DEF Heap

\* A list with another cast in front.
LEMMA ListWithFirst ==
    ASSUME NEW h, HeapTyped(h), NEW g, HeapTyped(g), NEW t \in Type, NEW l, IsList(h, l, t),
           NEW c \in Cast, c \notin ToSet(l), \A d \in ToSet(l) : d[3] # c[3],
           g.cast[t] = c, g.nxt[c] = Start(l, Zero), l # << >> => g.prev[l[1]] = c,
           \A d \in ToSet(l) : g.nxt[d] = h.nxt[d] /\ (d # l[1] => g.prev[d] = h.prev[d])
    PROVE  \E s : IsList(g, s, t) /\ ToSet(s) = ToSet(l) \cup {c}
  <1> DEFINE n == Len(l)
             s == [j \in 1 .. n + 1 |-> IF j = 1 THEN c ELSE l[j - 1]]
  <1>1. l \in Seq(Cast) /\ n \in Nat /\ DOMAIN l = 1 .. n /\ \A j \in 1 .. n : l[j] \in Cast /\ l[j] \in ToSet(l)
    BY DEF IsList, ToSet
  <1>2. /\ \A j, k \in 1 .. n : l[j][3] = l[k][3] => j = k
        /\ \A k \in 1 .. n : h.nxt[l[k]] = IF k = n THEN Zero ELSE l[k + 1]
        /\ \A k \in 2 .. n : h.prev[l[k]] = l[k - 1]
    BY <1>1 DEF IsList, Links
  <1>3. s \in Seq(Cast) /\ Len(s) = n + 1 /\ DOMAIN s = 1 .. n + 1
    <2>1. n + 1 \in Nat /\ \A j \in 1 .. n + 1 : s[j] \in Cast
      BY <1>1
    <2>2. s \in [1 .. n + 1 -> Cast]
      BY <2>1
    <2> HIDE DEF s, n
    <2> QED BY <2>1, <2>2
  <1>4. s[1] = c /\ \A j \in 2 .. n + 1 : j - 1 \in 1 .. n /\ s[j] = l[j - 1]
    BY <1>1
  <1> HIDE DEF s, n
  <1>5. ToSet(s) = ToSet(l) \cup {c}
    <2>1. \A j \in 1 .. n + 1 : s[j] \in ToSet(l) \cup {c}
      <3>1. \A j \in 1 .. n + 1 : j = 1 \/ j \in 2 .. n + 1
        BY <1>1
      <3> QED BY <1>1, <1>4, <3>1
    <2>2. \A j \in 1 .. n : l[j] \in ToSet(s)
      <3>1. \A j \in 1 .. n : j + 1 \in 2 .. n + 1 /\ j + 1 - 1 = j /\ j + 1 \in 1 .. n + 1
        BY <1>1
      <3>2. \A j \in 1 .. n : l[j] = s[j + 1]
        BY <1>4, <3>1
      <3>3. DOMAIN s = 1 .. n + 1
        BY <1>3
      <3> QED BY ONLY <3>1, <3>2, <3>3 DEF ToSet
    <2>3. c \in ToSet(s)
      <3>1. 1 \in 1 .. n + 1
        BY <1>1
      <3> QED BY <1>3, <1>4, <3>1 DEF ToSet
    <2>4. ToSet(l) = {l[j] : j \in 1 .. n} /\ ToSet(s) = {s[j] : j \in 1 .. n + 1}
      BY <1>1, <1>3 DEF ToSet
    <2> QED BY ONLY <2>1, <2>2, <2>3, <2>4
  <1>6. g.cast[t] = Start(s, Zero)
    BY <1>1, <1>3, <1>4 DEF Start
  <1>7. Links(g.nxt, s, Zero)
    <2>1. ASSUME NEW j \in 1 .. n + 1
          PROVE  g.nxt[s[j]] = IF j = n + 1 THEN Zero ELSE s[j + 1]
      <3>1. CASE j = 1
        <4>1. n # 0 => 2 \in 2 .. n + 1 /\ s[2] = l[1]
          BY <1>1, <1>4
        <4>2. n = 0 <=> l = << >>
          BY <1>1 DEF n
        <4> QED BY <1>1, <1>4, <3>1, <4>1, <4>2 DEF Start
      <3>2. CASE j \in 2 .. n + 1
        <4>1. j - 1 \in 1 .. n /\ s[j] = l[j - 1] /\ g.nxt[s[j]] = h.nxt[l[j - 1]]
          BY <1>1, <1>4, <3>2
        <4>2. j # n + 1 => j + 1 \in 2 .. n + 1 /\ s[j + 1] = l[j]
          BY <1>1, <1>4, <3>2
        <4>3. j - 1 + 1 = j /\ (j - 1 = n <=> j = n + 1)
          BY <1>1
        <4> QED BY <1>2, <4>1, <4>2, <4>3
      <3>3. j = 1 \/ j \in 2 .. n + 1
        BY <1>1
      <3> QED BY <3>1, <3>2, <3>3
    <2> QED BY <1>3, <2>1 DEF Links
  <1>8. \A j \in 2 .. Len(s) : g.prev[s[j]] = s[j - 1]
    <2>1. ASSUME NEW j \in 2 .. n + 1
          PROVE  g.prev[s[j]] = s[j - 1]
      <3>1. CASE j = 2
        <4>1. 1 \in 1 .. n /\ s[2] = l[1] /\ l # << >>
          BY <1>1, <1>4, <3>1 DEF n
        <4> QED BY <1>4, <3>1, <4>1
      <3>2. CASE j # 2
        <4>1. j - 1 \in 2 .. n /\ j - 1 \in 1 .. n /\ 1 \in 1 .. n /\ j - 1 # 1 /\ j - 1 \in 2 .. n + 1
          BY <1>1, <3>2
        <4>2. l[j - 1] # l[1] /\ s[j] = l[j - 1] /\ s[j - 1] = l[j - 1 - 1]
          BY <1>2, <1>4, <4>1
        <4> QED BY <1>1, <1>2, <4>1, <4>2
      <3> QED BY <3>1, <3>2
    <2> QED BY <1>3, <2>1
  <1>9. ASSUME NEW j \in 1 .. n + 1, NEW k \in 1 .. n + 1, s[j][3] = s[k][3]
        PROVE  j = k
    <2>1. (j = 1 \/ j \in 2 .. n + 1) /\ (k = 1 \/ k \in 2 .. n + 1)
      BY <1>1
    <2>2. CASE j = 1 \/ k = 1
      BY <1>1, <1>4, <1>9, <2>1, <2>2
    <2>3. CASE j \in 2 .. n + 1 /\ k \in 2 .. n + 1
      <3>1. j - 1 = k - 1
        BY <1>2, <1>4, <1>9, <2>3
      <3> QED BY <1>1, <2>3, <3>1
    <2> QED BY <2>1, <2>2, <2>3
  <1> QED BY <1>3, <1>5, <1>6, <1>7, <1>8, <1>9 DEF IsList

\* What changes in a list when its cast p goes to the front.
Moved(h, g, t, l, p) ==
    /\ g.cast[t] = l[p] /\ g.nxt[l[p]] = l[1] /\ g.nxt[l[p - 1]] = h.nxt[l[p]]
    /\ \A j \in 1 .. Len(l) : j # p /\ j # p - 1 => g.nxt[l[j]] = h.nxt[l[j]]
    /\ g.prev[l[1]] = l[p]
    /\ p # Len(l) => g.prev[l[p + 1]] = l[p - 1]
    /\ \A j \in 2 .. Len(l) : j # p /\ j # p + 1 => g.prev[l[j]] = h.prev[l[j]]

LEMMA ListMoved ==
    ASSUME NEW h, NEW g, NEW t \in Type, NEW l, IsList(h, l, t), NEW p \in 2 .. Len(l),
           Moved(h, g, t, l, p)
    PROVE  \E s : IsList(g, s, t) /\ ToSet(s) = ToSet(l)
  <1> DEFINE n == Len(l)
             s == [j \in 1 .. n |-> IF j = 1 THEN l[p] ELSE IF j <= p THEN l[j - 1] ELSE l[j]]
  <1>1. l \in Seq(Cast) /\ n \in Nat /\ DOMAIN l = 1 .. n /\ \A j \in 1 .. n : l[j] \in Cast
    BY DEF IsList
  <1>2. /\ \A j, k \in 1 .. n : l[j][3] = l[k][3] => j = k
        /\ \A k \in 1 .. n : h.nxt[l[k]] = IF k = n THEN Zero ELSE l[k + 1]
        /\ \A k \in 2 .. n : h.prev[l[k]] = l[k - 1]
    BY <1>1 DEF IsList, Links
  <1>0. /\ g.cast[t] = l[p] /\ g.nxt[l[p]] = l[1] /\ g.nxt[l[p - 1]] = h.nxt[l[p]]
        /\ g.prev[l[1]] = l[p]
    BY DEF Moved
  <1>3. p \in 2 .. n /\ p \in 1 .. n /\ p - 1 \in 1 .. n /\ 1 \in 1 .. n
    <2>1. p \in 2 .. n
      OBVIOUS
    <2> HIDE DEF n
    <2> QED BY ONLY <1>1, <2>1
  <1>4. s \in Seq(Cast) /\ Len(s) = n /\ DOMAIN s = 1 .. n
    <2>1. \A j \in 1 .. n : s[j] \in Cast
      <3>1. \A j \in 1 .. n : j # 1 /\ j <= p => j - 1 \in 1 .. n
        <4> HIDE DEF n
        <4> QED BY ONLY <1>1, <1>3
      <3> HIDE DEF n
      <3> QED BY ONLY <1>1, <1>3, <3>1
    <2>2. s \in [1 .. n -> Cast]
      BY <2>1
    <2> HIDE DEF s, n
    <2> QED BY <1>1, <2>2
  <1>5. /\ s[1] = l[p]
        /\ \A j \in 2 .. p : j - 1 \in 1 .. n /\ j - 1 < p /\ s[j] = l[j - 1]
        /\ \A j \in p + 1 .. n : j \in 1 .. n /\ s[j] = l[j]
    <2> HIDE DEF n
    <2> QED BY ONLY <1>1, <1>3
  <1>6. \A j \in 1 .. n : j = 1 \/ j \in 2 .. p \/ j \in p + 1 .. n
    BY <1>1, <1>3
  <1>7. /\ \A j \in 1 .. n : j # p /\ j # p - 1 => g.nxt[l[j]] = h.nxt[l[j]]
        /\ \A j \in 2 .. n : j # p /\ j # p + 1 => g.prev[l[j]] = h.prev[l[j]]
        /\ p # n => g.prev[l[p + 1]] = l[p - 1]
    BY DEF Moved
  <1> HIDE DEF s, n
  <1>8. ToSet(s) = ToSet(l)
    <2>1. \A j \in 1 .. n : s[j] \in ToSet(l)
      <3>1. \A j \in 1 .. n : l[j] \in ToSet(l)
        BY <1>1 DEF ToSet
      <3> QED BY <1>3, <1>5, <1>6, <3>1
    <2>2. ASSUME NEW j \in 1 .. n
          PROVE  \E k \in 1 .. n : s[k] = l[j]
      <3>1. CASE j = p
        BY <1>3, <1>5, <3>1
      <3>2. CASE j < p
        <4>1. j + 1 \in 2 .. p /\ j + 1 - 1 = j /\ j + 1 \in 1 .. n
          BY <1>1, <1>3, <3>2
        <4> QED BY <1>5, <4>1
      <3>3. CASE j > p
        <4>1. j \in p + 1 .. n
          BY <1>1, <1>3, <3>3
        <4> QED BY <1>5, <4>1
      <3> QED BY <1>1, <1>3, <3>1, <3>2, <3>3
    <2>3. ToSet(l) = {l[j] : j \in 1 .. n} /\ ToSet(s) = {s[j] : j \in 1 .. n}
      BY <1>1, <1>4 DEF ToSet
    <2> QED BY ONLY <2>1, <2>2, <2>3
  <1>9. g.cast[t] = Start(s, Zero)
    <2>1. s # << >>
      BY <1>3, <1>4
    <2> QED BY <1>0, <1>5, <2>1 DEF Start
  <1>10. Links(g.nxt, s, Zero)
    <2>1. ASSUME NEW j \in 1 .. n
          PROVE  g.nxt[s[j]] = IF j = n THEN Zero ELSE s[j + 1]
      <3>1. CASE j = 1
        <4>1. 2 \in 2 .. p /\ s[2] = l[1] /\ n # 1
          BY <1>1, <1>3, <1>5
        <4> QED BY <1>0, <1>5, <3>1, <4>1
      <3>2. CASE j \in 2 .. p /\ j # p
        <4>1. j - 1 \in 1 .. n /\ j - 1 # p /\ j - 1 # p - 1 /\ s[j] = l[j - 1]
          BY <1>1, <1>3, <1>5, <3>2
        <4>2. j - 1 # n /\ j - 1 + 1 = j /\ j # n /\ j + 1 \in 2 .. p /\ j + 1 - 1 = j
          BY <1>1, <1>3, <3>2
        <4>3. s[j + 1] = l[j]
          BY <1>5, <4>2
        <4> QED BY <1>2, <1>7, <4>1, <4>2, <4>3
      <3>3. CASE j = p
        <4>1. p \in 2 .. p /\ s[p] = l[p - 1]
          BY <1>3, <1>5
        <4>2. p # n => p + 1 \in p + 1 .. n /\ s[p + 1] = l[p + 1]
          BY <1>1, <1>3, <1>5
        <4> QED BY <1>0, <1>2, <1>3, <3>3, <4>1, <4>2
      <3>4. CASE j \in p + 1 .. n
        <4>1. s[j] = l[j] /\ j # p /\ j # p - 1
          BY <1>3, <1>5, <3>4
        <4>2. j # n => j + 1 \in p + 1 .. n /\ s[j + 1] = l[j + 1]
          BY <1>1, <1>3, <1>5, <3>4
        <4> QED BY <1>2, <1>7, <4>1, <4>2
      <3> QED BY <1>6, <3>1, <3>2, <3>3, <3>4
    <2> QED BY <1>4, <2>1 DEF Links
  <1>11. \A j \in 2 .. Len(s) : g.prev[s[j]] = s[j - 1]
    <2>1. ASSUME NEW j \in 2 .. n
          PROVE  g.prev[s[j]] = s[j - 1]
      <3>0. j \in 1 .. n
        BY <1>1
      <3>1. CASE j = 2
        <4>1. 2 \in 2 .. p
          BY <1>3
        <4> QED BY <1>0, <1>5, <3>1, <4>1
      <3>2. CASE j \in 3 .. p
        <4>1. j \in 2 .. p /\ j - 1 \in 2 .. p /\ j - 1 \in 2 .. n /\ j - 1 # p /\ j - 1 # p + 1
          BY <1>1, <1>3, <3>2
        <4>2. s[j] = l[j - 1] /\ s[j - 1] = l[j - 1 - 1]
          BY <1>5, <4>1
        <4> QED BY <1>2, <1>7, <4>1, <4>2
      <3>3. CASE j = p + 1
        <4>1. p # n /\ j \in p + 1 .. n /\ p \in 2 .. p /\ j - 1 = p
          BY <1>1, <1>3, <3>3
        <4>2. s[j] = l[p + 1] /\ s[j - 1] = l[p - 1]
          BY <1>5, <3>3, <4>1
        <4> QED BY <1>7, <4>1, <4>2
      <3>4. CASE j \in p + 2 .. n
        <4>1. j \in p + 1 .. n /\ j - 1 \in p + 1 .. n /\ j # p /\ j # p + 1
          BY <1>1, <1>3, <3>4
        <4>2. s[j] = l[j] /\ s[j - 1] = l[j - 1]
          BY <1>5, <4>1
        <4> QED BY <1>2, <1>7, <4>1, <4>2
      <3>5. j = 2 \/ j \in 3 .. p \/ j = p + 1 \/ j \in p + 2 .. n
        BY <1>1, <1>3
      <3> QED BY <3>1, <3>2, <3>3, <3>4, <3>5
    <2> QED BY <1>4, <2>1
  <1>12. ASSUME NEW j \in 1 .. n, NEW k \in 1 .. n, s[j][3] = s[k][3]
         PROVE  j = k
    <2> DEFINE Of(i) == IF i = 1 THEN p ELSE IF i <= p THEN i - 1 ELSE i
    <2>1. \A i \in 1 .. n : Of(i) \in 1 .. n /\ s[i] = l[Of(i)]
      BY <1>1, <1>3 DEF s
    <2>2. Of(j) = Of(k)
      <3> HIDE DEF Of
      <3>1. l[Of(j)][3] = l[Of(k)][3] /\ Of(j) \in 1 .. n /\ Of(k) \in 1 .. n
        BY ONLY <1>12, <2>1
      <3> QED BY ONLY <1>2, <3>1
    <2>3. j \in Nat /\ k \in Nat /\ p \in Nat /\ p >= 2 /\ j >= 1 /\ k >= 1
      BY <1>1, <1>3
    <2> QED BY ONLY <2>2, <2>3
  <1> QED BY <1>4, <1>8, <1>9, <1>10, <1>11, <1>12 DEF IsList

\* A list that is elsewhere.
LEMMA ListElsewhere ==
    ASSUME NEW h, NEW g, NEW t \in Type, NEW l, IsList(h, l, t), g.cast[t] = h.cast[t],
           \A d \in ToSet(l) : g.nxt[d] = h.nxt[d] /\ g.prev[d] = h.prev[d]
    PROVE  IsList(g, l, t)
  <1>1. \A k \in DOMAIN l : l[k] \in ToSet(l)
    BY DEF IsList, ToSet
  <1>2. Links(g.nxt, l, Zero)
    BY <1>1 DEF IsList, Links
  <1>3. \A k \in 2 .. Len(l) : g.prev[l[k]] = l[k - 1]
    <2>1. \A k \in 2 .. Len(l) : k \in DOMAIN l
      BY DEF IsList
    <2> QED BY <1>1, <2>1 DEF IsList
  <1> QED BY <1>2, <1>3 DEF IsList

\* The casts W become V: type ty gets c.
Gets(W, V, ty, c) == \A t \in Type : V[t] = IF t = ty THEN W[ty] \cup {c} ELSE W[t]

\* AddCast(): ty gets the cast c.
LEMMA HeapAdded ==
    ASSUME NEW h, HeapTyped(h), NEW W, NEW L, Heap(h, W, L), Apart(W),
           NEW ty \in Type, NEW c \in Cast, \A t \in Type : c \notin W[t],
           \A d \in ToSet(L[ty]) : d[3] # c[3],
           NEW V, Gets(W, V, ty, c)
    PROVE  \E K : /\ HeapTyped(AddCast(h, c, ty)) /\ Heap(AddCast(h, c, ty), V, K)
                  /\ \A t \in Type : ToSet(K[t]) = IF t = ty THEN ToSet(L[ty]) \cup {c} ELSE ToSet(L[t])
  <1> DEFINE g == AddCast(h, c, ty)
             first == h.cast[ty]
  <1>1. /\ \A t \in Type : IsList(h, L[t], t) /\ ToSet(L[t]) \subseteq W[t]
        /\ \A t \in Type : c \notin ToSet(L[t])
        /\ h.nxt[c] = Zero
    BY DEF Heap
  <1>2. first = Start(L[ty], Zero) /\ L[ty] \in Seq(Cast)
    BY <1>1 DEF IsList
  <1>3. first \in Cast \cup {Zero} /\ Zero \notin Cast
    BY ZeroAssumption DEF HeapTyped, Ptr
  <1>4. /\ L[ty] = << >> => first = Zero
        /\ L[ty] # << >> => first = L[ty][1] /\ first \in ToSet(L[ty]) /\ first # Zero /\ first \in Cast
    <2>1. L[ty] # << >> => L[ty][1] \in Cast /\ L[ty][1] \in ToSet(L[ty])
      BY <1>2 DEF ToSet
    <2> QED BY <1>2, <1>3, <2>1 DEF Start
  <1>5. /\ g.cast = [h.cast EXCEPT ![ty] = c]
        /\ g.of = h.of /\ g.clientdata = h.clientdata
        /\ first = Zero => g.nxt = h.nxt /\ g.prev = h.prev
        /\ first # Zero => g.nxt = [h.nxt EXCEPT ![c] = first] /\ g.prev = [h.prev EXCEPT ![first] = c]
    BY DEF AddCast, HeapTyped
  <1>6. HeapTyped(g)
    BY <1>3 DEF AddCast, HeapTyped, Ptr
  <1>7. /\ g.cast[ty] = c /\ g.nxt[c] = first /\ (first # Zero => g.prev[first] = c)
        /\ \A t \in Type : t # ty => g.cast[t] = h.cast[t]
        /\ \A d \in Cast : d # c => g.nxt[d] = h.nxt[d]
        /\ \A d \in Cast : d # first => g.prev[d] = h.prev[d]
    <2>1. DOMAIN h.cast = Type /\ DOMAIN h.nxt = Cast /\ DOMAIN h.prev = Cast
      BY DEF HeapTyped
    <2>2. CASE first = Zero
      BY <1>1, <1>5, <2>1, <2>2
    <2>3. CASE first # Zero
      BY <1>3, <1>5, <2>1, <2>3
    <2> QED BY <2>2, <2>3
  <1> HIDE DEF g
  <1>8. \E s : IsList(g, s, ty) /\ ToSet(s) = ToSet(L[ty]) \cup {c}
    <2>1. g.nxt[c] = Start(L[ty], Zero) /\ (L[ty] # << >> => g.prev[L[ty][1]] = c)
      BY <1>2, <1>4, <1>7
    <2>2. \A d \in ToSet(L[ty]) : g.nxt[d] = h.nxt[d] /\ (d # L[ty][1] => g.prev[d] = h.prev[d])
      <3>1. ASSUME NEW d \in ToSet(L[ty])
            PROVE  d \in Cast /\ L[ty] # << >>
        BY <1>2 DEF ToSet
      <3> QED BY <1>1, <1>4, <1>7, <3>1
    <2>3. IsList(h, L[ty], ty) /\ c \notin ToSet(L[ty]) /\ g.cast[ty] = c
      BY <1>1, <1>7
    <2> QED BY <1>6, <2>1, <2>2, <2>3, ListWithFirst
  <1>9. PICK s : IsList(g, s, ty) /\ ToSet(s) = ToSet(L[ty]) \cup {c}
    BY <1>8
  <1> DEFINE K == [t \in Type |-> IF t = ty THEN s ELSE L[t]]
  <1>10. \A t \in Type : ToSet(K[t]) = IF t = ty THEN ToSet(L[ty]) \cup {c} ELSE ToSet(L[t])
    BY <1>9
  <1>11. \A t \in Type : IsList(g, K[t], t)
    <2>1. ASSUME NEW t \in Type, t # ty
          PROVE  IsList(g, L[t], t)
      <3>1. \A d \in ToSet(L[t]) : d \in Cast /\ d # c /\ d # first
        <4>1. ToSet(L[t]) \subseteq W[t] /\ ToSet(L[ty]) \subseteq W[ty] /\ L[t] \in Seq(Cast)
          BY <1>1 DEF IsList
        <4>2. \A d \in ToSet(L[t]) : d \in Cast
          BY <4>1 DEF ToSet
        <4>3. W[t] \cap W[ty] = {}
          BY <2>1 DEF Apart
        <4>4. first \in Cast => first \in ToSet(L[ty])
          BY <1>3, <1>4
        <4> QED BY <1>1, <4>1, <4>2, <4>3, <4>4
      <3>2. g.cast[t] = h.cast[t] /\ \A d \in ToSet(L[t]) : g.nxt[d] = h.nxt[d] /\ g.prev[d] = h.prev[d]
        BY <1>7, <2>1, <3>1
      <3> QED BY <1>1, <3>2, ListElsewhere
    <2> QED BY <1>9, <2>1
  <1>12. Heap(g, V, K)
    <2>1. \A t \in Type : ToSet(K[t]) \subseteq V[t] /\ \A d \in V[t] : \E e \in ToSet(K[t]) : e[3] = d[3]
      <3>1. \A t \in Type : ToSet(L[t]) \subseteq W[t] /\ \A d \in W[t] : \E e \in ToSet(L[t]) : e[3] = d[3]
        BY DEF Heap
      <3> HIDE DEF K
      <3> QED BY <1>10, <3>1 DEF Gets
    <2>2. \A d \in Cast : (\A t \in Type : d \notin ToSet(K[t])) => g.nxt[d] = Zero
      <3>1. \A d \in Cast : (\A t \in Type : d \notin ToSet(L[t])) => h.nxt[d] = Zero
        BY DEF Heap
      <3> HIDE DEF K
      <3> QED BY <1>7, <1>10, <3>1
    <2>3. \A d \in Cast : g.of[d][2] = d[3]
      BY <1>5 DEF Heap
    <2> HIDE DEF K
    <2> QED BY <1>11, <2>1, <2>2, <2>3 DEF Heap
  <1> HIDE DEF K
  <1> QED BY <1>6, <1>10, <1>12 DEF g

LEMMA HeapWider ==
    ASSUME NEW h, NEW W, NEW L, Heap(h, W, L), NEW ty \in Type, NEW c,
           \E d \in ToSet(L[ty]) : d[3] = c[3],
           NEW V, Gets(W, V, ty, c)
    PROVE  Heap(h, V, L)
  <1>1. \A t \in Type : ToSet(L[t]) \subseteq V[t] /\ \A d \in V[t] : \E e \in ToSet(L[t]) : e[3] = d[3]
    <2>1. \A t \in Type : ToSet(L[t]) \subseteq W[t] /\ \A d \in W[t] : \E e \in ToSet(L[t]) : e[3] = d[3]
      BY DEF Heap
    <2> QED BY <2>1 DEF Gets
  <1> QED BY <1>1 DEF Heap

\* What SWIG_TypeCheck() finds, before it moves it.
LEMMA TypeCheckIs ==
    ASSUME NEW h, HeapTyped(h), NEW W, NEW L, Heap(h, W, L), NEW ty \in Type, NEW from
    PROVE  IF \E c \in ToSet(L[ty]) : h.of[c] \in from
           THEN TypeCheck(h, from, ty) \in ToSet(L[ty]) /\ h.of[TypeCheck(h, from, ty)] \in from
           ELSE TypeCheck(h, from, ty) = Zero
  <1> DEFINE S == {c \in Cast : h.of[c] \in from}
             l == L[ty]
  <1>1. IsList(h, l, ty)
    BY DEF Heap
  <1>2. TypeCheck(h, from, ty) = FirstIn(l, S)
    BY <1>1, CastsOfList DEF TypeCheck
  <1>3. l \in Seq(Cast) /\ Zero \notin Cast
    BY <1>1, ZeroAssumption DEF IsList
  <1>4. ToSet(l) \subseteq Cast
    BY <1>3 DEF ToSet
  <1>5. IF ToSet(l) \cap S = {} THEN FirstIn(l, S) = Zero ELSE FirstIn(l, S) \in ToSet(l) \cap S
    <2> HIDE DEF S, l
    <2> QED BY <1>3, FirstOfList
  <1>6. \A c \in ToSet(l) : c \in S <=> h.of[c] \in from
    BY <1>4
  <1> HIDE DEF S, l
  <1> QED BY <1>2, <1>5, <1>6 DEF l

\* SWIG_TypeCheck() moves the cast to the front.
LEMMA HeapMoved ==
    ASSUME NEW h, HeapTyped(h), NEW W, NEW L, Heap(h, W, L), Apart(W),
           NEW ty \in Type, NEW iter \in ToSet(L[ty]) \cup {Zero}
    PROVE  /\ HeapTyped(ToFront(h, iter, ty))
           /\ ToFront(h, iter, ty).of = h.of /\ ToFront(h, iter, ty).clientdata = h.clientdata
           /\ \E K : /\ Heap(ToFront(h, iter, ty), W, K)
                     /\ \A t \in Type : ToSet(K[t]) = ToSet(L[t])
  <1> DEFINE g == ToFront(h, iter, ty)
             l == L[ty]
             first == h.cast[ty]
             after == h.nxt[iter]
             n == Len(l)
  <1>1. \A t \in Type : IsList(h, L[t], t) /\ ToSet(L[t]) \subseteq W[t] /\ ToSet(L[t]) \subseteq Cast
    BY DEF Heap, IsList, ToSet
  <1>2. CASE iter \in {first, Zero}
    <2>1. g = h
      BY <1>2 DEF ToFront
    <2> HIDE DEF g
    <2> QED BY <2>1 DEF g
  <1>3. CASE iter \notin {first, Zero}
    <2>1. /\ l \in Seq(Cast) /\ DOMAIN l = 1 .. n /\ n \in Nat /\ IsList(h, l, ty)
          /\ \A j \in 1 .. n : l[j] \in Cast /\ l[j] \in ToSet(l)
      BY <1>1 DEF IsList, ToSet
    <2>2. /\ \A j, k \in 1 .. n : l[j] = l[k] => j = k
          /\ \A k \in 1 .. n : h.nxt[l[k]] = IF k = n THEN Zero ELSE l[k + 1]
          /\ \A k \in 2 .. n : h.prev[l[k]] = l[k - 1]
      BY <2>1 DEF IsList, Links
    <2>3. PICK p \in 1 .. n : iter = l[p]
      BY <1>3, <2>1 DEF ToSet
    <2>4. first = l[1] /\ 1 \in 1 .. n
      BY <2>1, <2>3 DEF IsList, Start
    <2> HIDE DEF first, n, l
    <2>5. p \in 2 .. n /\ p - 1 \in 1 .. n
      BY <1>3, <2>1, <2>3, <2>4
    <2>6. h.prev[iter] = l[p - 1] /\ after = IF p = n THEN Zero ELSE l[p + 1]
      BY <2>2, <2>3, <2>5
    <2>7. p # n => p + 1 \in 1 .. n
      BY <2>1, <2>3
    <2>8. iter \in Cast /\ first \in Cast /\ l[p - 1] \in Cast /\ after \in Ptr(Cast) /\ Zero \notin Cast
      BY <2>1, <2>3, <2>4, <2>5, <2>6, <2>7, ZeroAssumption DEF Ptr
    <2>9. g = [h EXCEPT
                !.nxt = [@ EXCEPT ![h.prev[iter]] = after, ![iter] = first],
                !.prev = [c \in Cast |-> CASE c = iter  -> Zero
                                           [] c = first -> iter
                                           [] c = after -> h.prev[iter]
                                           [] OTHER     -> h.prev[c]],
                !.cast[ty] = iter]
      BY <1>3 DEF ToFront, first
    <2> HIDE DEF g, after
    <2>10. /\ g.nxt = [h.nxt EXCEPT ![l[p - 1]] = after, ![iter] = first]
           /\ g.prev = [c \in Cast |-> CASE c = iter  -> Zero
                                           [] c = first -> iter
                                           [] c = after -> l[p - 1]
                                           [] OTHER     -> h.prev[c]]
           /\ g.cast = [h.cast EXCEPT ![ty] = iter]
           /\ g.of = h.of /\ g.clientdata = h.clientdata
           /\ DOMAIN g = DOMAIN h
      BY <2>6, <2>9 DEF HeapTyped
    <2>11. DOMAIN h.nxt = Cast /\ DOMAIN h.cast = Type /\ DOMAIN h.prev = Cast
      BY DEF HeapTyped
    <2>12. /\ g.cast[ty] = iter /\ \A t \in Type : t # ty => g.cast[t] = h.cast[t]
           /\ g.nxt[iter] = first /\ (l[p - 1] # iter => g.nxt[l[p - 1]] = after)
           /\ \A c \in Cast : c # iter /\ c # l[p - 1] => g.nxt[c] = h.nxt[c]
      BY <2>8, <2>10, <2>11
    <2>13. /\ first # iter => g.prev[first] = iter
           /\ after \in Cast /\ after # iter /\ after # first => g.prev[after] = l[p - 1]
           /\ \A c \in Cast : c \notin {iter, first, after} => g.prev[c] = h.prev[c]
      <3>0. iter # first /\ iter # after /\ first # after
        <4>1. p # n => p + 1 # p /\ p + 1 # 1
          BY <2>5
        <4> QED BY <1>3, <2>2, <2>3, <2>4, <2>6, <2>7, <2>8, <4>1
      <3>1. ASSUME NEW c \in Cast
            PROVE  g.prev[c] = IF c = iter THEN Zero ELSE IF c = first THEN iter
                               ELSE IF c = after THEN l[p - 1] ELSE h.prev[c]
        <4>1. g.prev[c] = CASE c = iter  -> Zero
                            [] c = first -> iter
                            [] c = after -> l[p - 1]
                            [] OTHER     -> h.prev[c]
          BY <2>10
        <4>2. CASE c = iter
          BY <3>0, <4>1, <4>2
        <4>3. CASE c # iter /\ c = first
          BY <3>0, <4>1, <4>3
        <4>4. CASE c # iter /\ c # first /\ c = after
          BY <3>0, <4>1, <4>4
        <4>5. CASE c # iter /\ c # first /\ c # after
          BY <3>0, <4>1, <4>5
        <4> QED BY ONLY <4>2, <4>3, <4>4, <4>5
      <3> QED BY <2>8, <3>1
    <2>14. HeapTyped(g)
      <3>1. \A c \in Cast : g.prev[c] \in Ptr(Cast)
        <4>1. \A c \in Cast : h.prev[c] \in Ptr(Cast)
          BY DEF HeapTyped
        <4> QED BY <2>8, <2>10, <4>1 DEF Ptr
      <3>2. g.prev \in [Cast -> Ptr(Cast)]
        BY <2>10, <3>1
      <3>3. g.nxt \in [Cast -> Ptr(Cast)] /\ g.cast \in [Type -> Ptr(Cast)]
        BY <2>8, <2>10 DEF HeapTyped, Ptr
      <3>4. g = [h EXCEPT !.nxt = g.nxt, !.prev = g.prev, !.cast = g.cast]
        BY <2>9, <2>10 DEF HeapTyped
      <3> QED BY <3>2, <3>3, <3>4 DEF HeapTyped
    <2>15. \E s : IsList(g, s, ty) /\ ToSet(s) = ToSet(l)
      <3>1. p \in 2 .. Len(l)
        BY <2>5 DEF n
      <3>2. g.cast[ty] = l[p] /\ g.nxt[l[p]] = l[1] /\ g.nxt[l[p - 1]] = h.nxt[l[p]]
        <4>1. l[p - 1] # l[p]
          BY <2>2, <2>5, <2>3
        <4> QED BY <2>3, <2>4, <2>12, <4>1 DEF after
      <3>3. \A j \in 1 .. Len(l) : j # p /\ j # p - 1 => g.nxt[l[j]] = h.nxt[l[j]]
        <4>1. \A j \in 1 .. n : j # p /\ j # p - 1 => l[j] # l[p] /\ l[j] # l[p - 1] /\ l[j] \in Cast
          BY <2>1, <2>2, <2>3, <2>5
        <4> QED BY <2>3, <2>12, <4>1 DEF n
      <3>4. g.prev[l[1]] = l[p]
        BY <1>3, <2>3, <2>4, <2>13
      <3>5. p # Len(l) => g.prev[l[p + 1]] = l[p - 1]
        <4>1. p # n => after = l[p + 1] /\ after # iter /\ after # first /\ after \in Cast
          <5>1. p + 1 # p /\ p + 1 # 1
            BY <2>5
          <5> QED BY <2>1, <2>2, <2>3, <2>4, <2>6, <2>7, <5>1
        <4> QED BY <2>13, <4>1 DEF n
      <3>6. \A j \in 2 .. Len(l) : j # p /\ j # p + 1 => g.prev[l[j]] = h.prev[l[j]]
        <4>1. ASSUME NEW j \in 2 .. n, j # p, j # p + 1
              PROVE  g.prev[l[j]] = h.prev[l[j]]
          <5>1. j \in 1 .. n /\ j # 1
            BY <2>1
          <5>2. l[j] # iter /\ l[j] # first /\ l[j] \in Cast
            BY <2>1, <2>2, <2>3, <2>4, <4>1, <5>1
          <5>3. l[j] # after
            BY <2>2, <2>6, <2>7, <2>8, <4>1, <5>1, <5>2
          <5> QED BY <2>13, <5>2, <5>3
        <4> QED BY <4>1 DEF n
      <3>7. IsList(h, l, ty)
        BY <2>1
      <3>8. Moved(h, g, ty, l, p)
        BY ONLY <3>2, <3>3, <3>4, <3>5, <3>6 DEF Moved
      <3> QED BY ONLY <3>1, <3>7, <3>8, ty \in Type, ListMoved
    <2>16. PICK s : IsList(g, s, ty) /\ ToSet(s) = ToSet(l)
      BY <2>15
    <2> DEFINE K == [t \in Type |-> IF t = ty THEN s ELSE L[t]]
    <2>17. \A t \in Type : ToSet(K[t]) = ToSet(L[t])
      BY <2>16 DEF l
    <2>18. iter \in ToSet(L[ty]) /\ first \in ToSet(L[ty]) /\ l[p - 1] \in ToSet(L[ty]) /\ after \in ToSet(L[ty]) \cup {Zero}
      BY <2>1, <2>3, <2>4, <2>5, <2>6, <2>7 DEF l
    <2>19. \A t \in Type : IsList(g, K[t], t)
      <3>1. ASSUME NEW t \in Type, t # ty
            PROVE  IsList(g, L[t], t)
        <4>1. W[t] \cap W[ty] = {} /\ ToSet(L[t]) \subseteq W[t] /\ ToSet(L[ty]) \subseteq W[ty] /\ ToSet(L[t]) \subseteq Cast
          BY <1>1, <3>1 DEF Apart
        <4>2. \A d \in ToSet(L[t]) : d \in Cast /\ d \notin {iter, first, after, l[p - 1]}
          BY <2>8, <2>18, <4>1
        <4>3. g.cast[t] = h.cast[t] /\ \A d \in ToSet(L[t]) : g.nxt[d] = h.nxt[d] /\ g.prev[d] = h.prev[d]
          BY <2>12, <2>13, <3>1, <4>2
        <4> QED BY <1>1, <4>3, ListElsewhere
      <3> QED BY <2>16, <3>1
    <2>20. Heap(g, W, K)
      <3> HIDE DEF K
      <3>1. \A t \in Type : ToSet(K[t]) \subseteq W[t] /\ \A d \in W[t] : \E e \in ToSet(K[t]) : e[3] = d[3]
        BY <2>17 DEF Heap
      <3>2. \A d \in Cast : (\A t \in Type : d \notin ToSet(K[t])) => g.nxt[d] = Zero
        <4>1. \A d \in Cast : (\A t \in Type : d \notin ToSet(K[t])) => d # iter /\ d # l[p - 1] /\ h.nxt[d] = Zero
          BY <2>17, <2>18 DEF Heap
        <4> QED BY <2>12, <4>1
      <3>3. \A d \in Cast : g.of[d][2] = d[3]
        BY <2>10 DEF Heap
      <3> QED BY <2>19, <3>1, <3>2, <3>3 DEF Heap
    <2> HIDE DEF K
    <2> QED BY <2>10, <2>14, <2>17, <2>20 DEF g
  <1> QED BY <1>2, <1>3

\* the cast c is of the row that the loops are at
InRow(c) == loading.at = "casts" /\ c[1] = loading.module /\ c[2] = typeName

\* the loops have been at c
Inserted(c) ==
    \/ c[1] \in Complete
    \/ Filling /\ c[1] = loading.module /\ c[2] \in Filled
    \/ InRow(c) /\ \E j \in 1 .. loading.cast - 1 : castInitial[j] = c[3]

\* the type to which it belongs
HomeOf(c) == IF InRow(c) THEN loading.type ELSE typeOf[c[1]][c[2]]

Wanted == [t \in Type |-> {c \in Cast : Inserted(c) /\ HomeOf(c) = t}]

CastsInv == HeapTyped(table) /\ Heap(table, Wanted, Lists(table))

LEMMA WantedApart == Apart(Wanted)
  BY DEF Apart, Wanted

\* What the loops have at a cast.
LEMMA AtCast ==
    ASSUME ModulesInv, loading.at = "casts", loading.cast <= Len(castInitial)
    PROVE  LET c == <<loading.module, typeName, castInitial[loading.cast]>>
           IN  /\ loading.module \in Module /\ typeName \in Known(loading.module)
               /\ castInitial[loading.cast] \in Known(loading.module)
               /\ c \in Cast /\ loading.cast \in 1 .. Len(castInitial) /\ Len(castInitial) \in Nat
               /\ loading.type \in Type /\ loading.type[2] = typeName
               /\ ~Inserted(c) /\ typeName \notin Filled
  <1> DEFINE m == loading.module
             u == castInitial[loading.cast]
             c == <<m, typeName, u>>
  <1>1. Filling /\ loading.i <= Len(Names[m])
    BY DEF Filling, ModulesInv, LoadingInv
  <1>2. m \in Module /\ typeName \in Known(m) /\ m \notin Complete
    BY <1>1, FillingModule
  <1>3. Len(castInitial) \in Nat
    BY <1>2, Tables DEF castInitial
  <1>4. loading.cast \in 1 .. Len(castInitial)
    BY <1>3 DEF ModulesInv, LoadingInv
  <1>5. u \in Known(m) /\ u \in ToSet(castInitial) /\ DOMAIN castInitial = 1 .. Len(castInitial)
    <2>1. DOMAIN castInitial = 1 .. Len(castInitial) /\ u \in Known(m)
      BY <1>2, <1>4, Tables DEF castInitial
    <2> QED BY <1>4, <2>1 DEF ToSet
  <1>6. c \in Cast
    <2>1. <<m, typeName>> \in Type
      BY <1>2, Tables
    <2>2. c = <<<<m, typeName>>[1], <<m, typeName>>[2], u>> /\ u \in ToSet(Row[<<m, typeName>>[1]][<<m, typeName>>[2]])
      BY <1>5 DEF castInitial
    <2> QED BY <2>1, <2>2 DEF Cast
  <1>7. IsStructure(m, typeName, loading.type)
    BY DEF ModulesInv, FillingInv
  <1>8. loading.type \in Type /\ loading.type[2] = typeName
    <2>1. CASE \E k \in Complete : typeName \in Known(k)
      <3>1. PICK k \in Complete : typeName \in Known(k)
        BY <2>1
      <3>2. loading.type = typeOf[k][typeName]
        BY <1>7, <3>1 DEF IsStructure
      <3> QED BY <3>1, <3>2 DEF ModulesInv, StructuresAgree
    <2>2. CASE \A k \in Complete : typeName \notin Known(k)
      <3>1. loading.type = <<m, typeName>>
        BY <1>7, <2>2 DEF IsStructure
      <3>2. <<m, typeName>> \in Type
        BY <1>2, Tables
      <3> QED BY <3>1, <3>2
    <2> QED BY <2>1, <2>2
  <1>9. typeName \notin Filled
    <2>0. loading.i \in 1 .. Len(Names[m]) /\ Len(Names[m]) \in Nat
      <3>1. Len(Names[m]) \in Nat
        BY <1>2, Tables
      <3> QED BY <1>1, <3>1 DEF ModulesInv, LoadingInv
    <2>1. \A j \in 1 .. loading.i - 1 : j \in 1 .. Len(Names[m]) /\ j # loading.i
      BY <2>0
    <2>2. \A j, k \in 1 .. Len(Names[m]) : Names[m][j] = Names[m][k] => j = k
      BY <1>2, Tables
    <2> QED BY <1>1, <2>0, <2>1, <2>2 DEF Filled, typeName
  <1>10. ~Inserted(c)
    <2>1. \A j \in 1 .. loading.cast - 1 : j \in 1 .. Len(castInitial) /\ j # loading.cast
      BY <1>3, <1>4
    <2>2. \A j, k \in 1 .. Len(castInitial) : castInitial[j] = castInitial[k] => j = k
      BY <1>2, Tables DEF castInitial
    <2>3. c[1] = m /\ c[2] = typeName /\ c[3] = u
      OBVIOUS
    <2>4. \A j \in 1 .. loading.cast - 1 : castInitial[j] # u
      BY <1>4, <2>1, <2>2
    <2> HIDE DEF c
    <2> QED BY <1>2, <1>9, <2>3, <2>4 DEF Inserted
  <1> QED BY <1>2, <1>3, <1>4, <1>5, <1>6, <1>8, <1>9, <1>10

\* A cast with the same ends in the list is of a module that is loaded.
LEMMA SameCast ==
    ASSUME ModulesInv, loading.at = "casts", loading.cast <= Len(castInitial),
           NEW d \in Wanted[loading.type], d[3] = castInitial[loading.cast]
    PROVE  d[1] \in Complete /\ typeName \in Known(d[1]) /\ castInitial[loading.cast] \in Known(d[1])
  <1> DEFINE m == loading.module
             u == castInitial[loading.cast]
             c == <<m, typeName, u>>
  <1>1. /\ m \in Module /\ typeName \in Known(m) /\ c \in Cast
        /\ loading.type \in Type /\ loading.type[2] = typeName /\ ~Inserted(c) /\ typeName \notin Filled
    BY AtCast
  <1>2. d \in Cast /\ Inserted(d) /\ HomeOf(d) = loading.type
    BY <1>1 DEF Wanted
  <1>3. d = <<d[1], d[2], d[3]>> /\ d[1] \in Module /\ d[2] \in Known(d[1]) /\ d[3] \in ToSet(Row[d[1]][d[2]])
    BY <1>2, CastOf
  <1>4. ~InRow(d)
    <2>1. ASSUME InRow(d)
          PROVE  d = c
      BY <1>3, <2>1 DEF InRow
    <2> QED BY <1>1, <1>2, <2>1
  <1>5. typeOf[d[1]][d[2]] = loading.type
    BY <1>2, <1>4 DEF HomeOf
  <1>6. m \notin Complete
    BY FillingModule DEF Filling
  <1>7. CASE d[1] \in Complete
    <2>1. d[2] = typeName
      BY <1>1, <1>3, <1>5, <1>7 DEF ModulesInv, StructuresAgree
    <2>2. u \in Known(d[1])
      <3>1. Row[d[1]][d[2]] \in Seq(Known(d[1]))
        BY <1>3, TablesAssumption
      <3> QED BY <1>3, <3>1 DEF ToSet
    <2> QED BY <1>3, <1>7, <2>1, <2>2
  <1>8. CASE d[1] = m /\ d[2] \in Filled
    <2>1. IsStructure(m, d[2], loading.type)
      BY <1>5, <1>8 DEF ModulesInv, FillingInv
    <2>2. loading.type[2] = d[2]
      <3>1. CASE \E k \in Complete : d[2] \in Known(k)
        <4>1. PICK k \in Complete : d[2] \in Known(k)
          BY <3>1
        <4>2. loading.type = typeOf[k][d[2]]
          BY <2>1, <4>1 DEF IsStructure
        <4> QED BY <4>1, <4>2 DEF ModulesInv, StructuresAgree
      <3>2. CASE \A k \in Complete : d[2] \notin Known(k)
        <4>1. loading.type = <<m, d[2]>>
          BY <2>1, <3>2 DEF IsStructure
        <4> QED BY <4>1
      <3> QED BY <3>1, <3>2
    <2> QED BY <1>1, <1>8, <2>2
  <1> QED BY <1>2, <1>4, <1>7, <1>8 DEF Inserted

\* "while (cast->type)": the list gets what the row has, and keeps what it had.
LEMMA CastInserted ==
    ASSUME OneInterpreter, ModulesInv, HeapTyped(table), NEW L, Heap(table, Wanted, L),
           loading.at = "casts", loading.cast <= Len(castInitial), NEW c, NEW g,
           c = <<loading.module, typeName, castInitial[loading.cast]>>,
           g = InsertCast(table, c, loading.type),
           NEW V, Gets(Wanted, V, loading.type, c)
    PROVE  /\ HeapTyped(g) /\ g.clientdata = table.clientdata
           /\ \A d \in Cast : d # c => g.of[d] = table.of[d]
           /\ \E K : Heap(g, V, K) /\ \A t \in Type : t # loading.type => ToSet(K[t]) = ToSet(L[t])
  <1> DEFINE m == loading.module
             u == castInitial[loading.cast]
             ty == loading.type
             h == table
             ret == Loaded(m, u)
  <1>1. /\ m \in Module /\ typeName \in Known(m) /\ u \in Known(m) /\ c \in Cast
        /\ ty \in Type /\ ty[2] = typeName /\ ~Inserted(c)
    BY AtCast
  <1>2. c[1] = m /\ c[2] = typeName /\ c[3] = u
    OBVIOUS
  <1>3. \A t \in Type : c \notin Wanted[t]
    BY <1>1 DEF Wanted
  <1>4. Gets(Wanted, V, ty, c)
    BY <1>1 DEF Gets
  <1>5. h.of[c][2] = u /\ \A t \in Type : ToSet(L[t]) \subseteq Wanted[t]
    BY <1>1, <1>2 DEF Heap
  <1>6. /\ u \in Nat /\ Filling
        /\ \/ (\A k \in Complete : u \notin Known(k)) /\ ret = Zero
           \/ \E k \in Complete : u \in Known(k) /\ ret = typeOf[k][u]
    <2>1. u \in Nat /\ Filling
      BY <1>1, Tables DEF Filling
    <2> QED BY <2>1, LoadedIs
  <1>7. g = IF ret = Zero THEN AddCast(h, c, ty)
            ELSE IF ty = <<m, typeName>> THEN AddCast([h EXCEPT !.of[c] = ret], c, ty)
            ELSE IF TypeCheck(h, OfName(ret[2]), ty) = Zero THEN AddCast(h, c, ty)
            ELSE ToFront(h, TypeCheck(h, OfName(ret[2]), ty), ty)
    BY <1>2, <1>5 DEF InsertCast
  <1> HIDE DEF u, m, ty, ret
  <1>8. \A d \in Wanted[ty] : d[3] = u => d[1] \in Complete /\ typeName \in Known(d[1]) /\ u \in Known(d[1])
    BY SameCast DEF u, ty
  <1>9. ASSUME NEW f, HeapTyped(f), Heap(f, Wanted, L), g = AddCast(f, c, ty), f.clientdata = h.clientdata,
               \A d \in Cast : d # c => f.of[d] = h.of[d],
               \A d \in ToSet(L[ty]) : d[3] # c[3]
        PROVE  /\ HeapTyped(g) /\ g.clientdata = h.clientdata
               /\ \A d \in Cast : d # c => g.of[d] = h.of[d]
               /\ \E K : Heap(g, V, K) /\ \A t \in Type : t # ty => ToSet(K[t]) = ToSet(L[t])
    <2>1. g.of = f.of /\ g.clientdata = f.clientdata
      BY <1>9 DEF AddCast, HeapTyped
    <2>2. \E K : /\ HeapTyped(AddCast(f, c, ty)) /\ Heap(AddCast(f, c, ty), V, K)
                 /\ \A t \in Type : ToSet(K[t]) = IF t = ty THEN ToSet(L[ty]) \cup {c} ELSE ToSet(L[t])
      <3>1. HeapTyped(f)
        BY <1>9
      <3>2. Heap(f, Wanted, L)
        BY <1>9
      <3>3. ty \in Type
        BY <1>1
      <3>4. c \in Cast
        BY <1>1
      <3>5. \A d \in ToSet(L[ty]) : d[3] # c[3]
        BY <1>9
      <3> QED BY ONLY <1>3, <1>4, <3>1, <3>2, <3>3, <3>4, <3>5, WantedApart, HeapAdded
    <2> QED BY <1>9, <2>1, <2>2
  <1>10. CASE ret = Zero
    <2>1. \A k \in Complete : u \notin Known(k)
      BY <1>6, <1>10, ZeroAssumption DEF ModulesInv, StructuresAgree
    <2>2. \A d \in ToSet(L[ty]) : d[3] # c[3]
      BY <1>1, <1>2, <1>5, <1>8, <2>1
    <2> QED BY <1>7, <1>9, <1>10, <2>2 DEF ty
  <1>11. CASE ret # Zero
    <2>1. ret \in Type /\ ret[2] = u
      BY <1>6, <1>11 DEF ModulesInv, StructuresAgree
    <2>2. CASE ty = <<m, typeName>>
      <3>1. \A k \in Complete : typeName \notin Known(k)
        <4>1. ASSUME NEW k \in Complete, typeName \in Known(k)
              PROVE  FALSE
          <5>1. ty = typeOf[k][typeName]
            BY <4>1 DEF ModulesInv, FillingInv, IsStructure, ty
          <5>2. ty[1] \in Complete /\ ty[1] = m
            BY <2>2, <4>1, <5>1 DEF ModulesInv, StructuresAgree
          <5> QED BY <1>6, <5>2, FillingModule DEF m, Filling
        <4> QED BY <4>1
      <3>2. \A d \in ToSet(L[ty]) : d[3] # c[3]
        BY <1>1, <1>2, <1>5, <1>8, <3>1
      <3> DEFINE f == [h EXCEPT !.of[c] = ret]
      <3>3. /\ f.of = [h.of EXCEPT ![c] = ret] /\ f.cast = h.cast /\ f.nxt = h.nxt /\ f.prev = h.prev
            /\ f.clientdata = h.clientdata
        BY DEF HeapTyped
      <3>4. HeapTyped(f)
        BY <2>1 DEF HeapTyped
      <3>5. g = AddCast(f, c, ty)
        BY <1>7, <1>11, <2>2
      <3> HIDE DEF f
      <3>6. \A d \in Cast : f.of[d] = IF d = c THEN ret ELSE h.of[d]
        BY <1>1, <3>3 DEF HeapTyped
      <3>7. Heap(f, Wanted, L)
        <4>1. \A d \in Cast : f.of[d][2] = d[3]
          BY <1>2, <2>1, <3>6 DEF Heap
        <4>2. \A t \in Type : IsList(f, L[t], t)
          <5>1. ASSUME NEW t \in Type, NEW l, IsList(h, l, t)
                PROVE  IsList(f, l, t)
            BY <3>3, <5>1 DEF IsList
          <5> QED BY <5>1 DEF Heap
        <4> QED BY <3>3, <4>1, <4>2 DEF Heap
      <3> QED BY <1>9, <3>2, <3>3, <3>4, <3>5, <3>6, <3>7 DEF ty
    <2>3. CASE ty # <<m, typeName>>
      <3> DEFINE ocast == TypeCheck(h, OfName(u), ty)
      <3>1. IF \E d \in ToSet(L[ty]) : h.of[d] \in OfName(u)
            THEN ocast \in ToSet(L[ty]) /\ h.of[ocast] \in OfName(u)
            ELSE ocast = Zero
        BY <1>1, TypeCheckIs
      <3>2. \A d \in ToSet(L[ty]) : d \in Cast /\ (h.of[d] \in OfName(u) <=> d[3] = u)
        <4>1. \A d \in ToSet(L[ty]) : d \in Cast
          BY <1>1, <1>5 DEF Wanted
        <4>2. \A d \in Cast : h.of[d] \in Type /\ h.of[d][2] = d[3]
          BY DEF Heap, HeapTyped
        <4> QED BY <4>1, <4>2 DEF OfName
      <3> HIDE DEF ocast
      <3>3. CASE ocast = Zero
        <4>1. \A d \in ToSet(L[ty]) : d[3] # c[3]
          BY <1>2, <3>1, <3>2, <3>3, ZeroAssumption
        <4>2. g = AddCast(h, c, ty)
          BY <1>7, <2>1, <3>3 , <1>11, <2>3 DEF ocast
        <4> QED BY <1>9, <4>1, <4>2 DEF ty
      <3>4. CASE ocast # Zero
        <4>1. ocast \in ToSet(L[ty]) /\ ocast[3] = u
          BY <3>1, <3>2, <3>4
        <4>2. g = ToFront(h, ocast, ty)
          BY <1>7, <1>11, <2>1, <2>3, <3>4 DEF ocast
        <4>3. /\ HeapTyped(ToFront(h, ocast, ty))
              /\ ToFront(h, ocast, ty).of = h.of /\ ToFront(h, ocast, ty).clientdata = h.clientdata
              /\ \E K : /\ Heap(ToFront(h, ocast, ty), Wanted, K)
                        /\ \A t \in Type : ToSet(K[t]) = ToSet(L[t])
          BY <1>1, <4>1, WantedApart, HeapMoved
        <4>4. PICK K : Heap(g, Wanted, K) /\ \A t \in Type : ToSet(K[t]) = ToSet(L[t])
          BY <4>2, <4>3
        <4>5. \E d \in ToSet(K[ty]) : d[3] = c[3]
          BY <1>1, <1>2, <4>1, <4>4
        <4>6. Heap(g, V, K)
          BY <1>1, <1>4, <4>4, <4>5, HeapWider
        <4> QED BY <4>2, <4>3, <4>4, <4>6 DEF ty
      <3> QED BY <3>3, <3>4
    <2> QED BY <2>2, <2>3
  <1> QED BY <1>10, <1>11

LEMMA CastsInvFrom ==
    ASSUME HeapTyped(table'), NEW W, NEW K, Heap(table', W, K), \A t \in Type : Wanted'[t] = W[t]
    PROVE  CastsInv' /\ \A t \in Type : Lists(table)'[t] = K[t]
  <1>1. Heap(table', Wanted', K)
    BY DEF Heap
  <1>2. \A t \in Type : Lists(table')[t] = K[t]
    BY HeapLists
  <1>3. Heap(table', Wanted', Lists(table'))
    BY <1>1, <1>2, HeapSame
  <1> QED BY <1>2, <1>3 DEF CastsInv

\* Steps that leave the lists alone.
LEMMA CastsInvSame ==
    ASSUME CastsInv, HeapTyped(table'), \A t \in Type : Wanted'[t] = Wanted[t],
           table'.cast = table.cast, table'.nxt = table.nxt, table'.prev = table.prev, table'.of = table.of
    PROVE  CastsInv' /\ \A t \in Type : Lists(table)'[t] = Lists(table)[t]
  <1> DEFINE L == Lists(table)
  <1>1. Heap(table, Wanted, L)
    BY DEF CastsInv
  <1>2. ASSUME NEW t \in Type, NEW l, IsList(table, l, t)
        PROVE  IsList(table', l, t)
    BY <1>2 DEF IsList
  <1>3. Heap(table', Wanted, L)
    <2> HIDE DEF L
    <2> QED BY <1>1, <1>2 DEF Heap
  <1> HIDE DEF L
  <1>4. CastsInv' /\ \A t \in Type : Lists(table)'[t] = L[t]
    BY <1>3, CastsInvFrom
  <1> QED BY <1>4 DEF L

LEMMA WantedSame ==
    ASSUME \A c \in Cast : Inserted(c)' <=> Inserted(c), \A c \in Cast : Inserted(c) => HomeOf(c)' = HomeOf(c)
    PROVE  \A t \in Type : Wanted'[t] = Wanted[t]
  <1>1. SUFFICES ASSUME NEW t \in Type
                 PROVE  Wanted'[t] = Wanted[t]
    OBVIOUS
  <1>2. Wanted[t] = {c \in Cast : Inserted(c) /\ HomeOf(c) = t}
    BY DEF Wanted
  <1>3. Wanted'[t] = {c \in Cast : Inserted(c)' /\ HomeOf(c)' = t}
    BY DEF Wanted
  <1> QED BY <1>2, <1>3

LEMMA NotFilled ==
    ASSUME ModulesInv, Filling, loading.i <= Len(Names[loading.module])
    PROVE  typeName \notin Filled /\ typeName \in Known(loading.module) /\ loading.module \in Module
  <1> DEFINE m == loading.module
  <1>1. m \in Module /\ typeName \in Known(m)
    BY FillingModule DEF Filling
  <1>2. loading.i \in 1 .. Len(Names[m]) /\ Len(Names[m]) \in Nat
    <2>1. Len(Names[m]) \in Nat
      BY <1>1, Tables
    <2> QED BY <2>1 DEF ModulesInv, LoadingInv, Filling
  <1>3. \A j \in 1 .. loading.i - 1 : j \in 1 .. Len(Names[m]) /\ j # loading.i
    BY <1>2
  <1>4. \A j, k \in 1 .. Len(Names[m]) : Names[m][j] = Names[m][k] => j = k
    BY <1>1, Tables
  <1> QED BY <1>1, <1>2, <1>3, <1>4 DEF Filled, typeName

LEMMA WantedStutters ==
    ASSUME UNCHANGED <<head, next, typeOf, propagated, loading>>
    PROVE  \A t \in Type : Wanted'[t] = Wanted[t]
  <1>1. Complete' = Complete /\ Filled' = Filled /\ typeName' = typeName /\ castInitial' = castInitial
        /\ (Filling' <=> Filling)
    BY DEF Initialized, Complete, Filled, Filling, typeName, castInitial
  <1>2. \A c : (InRow(c)' <=> InRow(c)) /\ HomeOf(c)' = HomeOf(c)
    BY <1>1 DEF InRow, HomeOf
  <1>3. \A c : Inserted(c)' <=> Inserted(c)
    BY <1>1, <1>2 DEF Inserted
  <1> QED BY <1>2, <1>3, WantedSame

LEMMA WantedInitialize ==
    ASSUME ModulesInv, loading = AtRest, NEW m \in Module, loading' = [AtRest EXCEPT !.at = "types", !.module = m],
           Complete' = Complete, typeOf' = typeOf
    PROVE  \A t \in Type : Wanted'[t] = Wanted[t]
  <1>1. loading.at = "end" /\ loading'.at = "types" /\ loading'.i = 1
    BY DEF AtRest
  <1>2. Filled' = {}
    BY <1>1 DEF Filled, Filling
  <1>3. \A c : ~InRow(c) /\ ~InRow(c)' /\ HomeOf(c)' = HomeOf(c)
    BY <1>1 DEF InRow, HomeOf
  <1>4. \A c : Inserted(c)' <=> Inserted(c)
    BY <1>1, <1>2, <1>3 DEF Inserted, Filling
  <1> QED BY <1>3, <1>4, WantedSame

LEMMA WantedNextType ==
    ASSUME OneInterpreter, ModulesInv, NextType
    PROVE  \A t \in Type : Wanted'[t] = Wanted[t]
  <1> DEFINE m == loading.module
  <1>1. /\ Filling /\ loading.at = "types" /\ loading.i <= Len(Names[m])
        /\ typeOf' = typeOf /\ loading' = [loading EXCEPT !.at = "casts", !.cast = 1, !.type = TypeFor(m, typeName)]
    BY DEF NextType, Filling
  <1>2. Complete' = Complete /\ Filled' = Filled
    BY ModulesInvNextType
  <1>3. /\ loading'.at = "casts" /\ loading'.module = m /\ loading'.i = loading.i /\ loading'.cast = 1
        /\ typeName' = typeName /\ Filling'
    BY <1>1, LoadingTyped DEF typeName, Filling
  <1>4. typeName \notin Filled /\ m \notin Complete
    BY <1>1, NotFilled, FillingModule
  <1>5. \A c : ~InRow(c) /\ (Inserted(c)' <=> Inserted(c))
    BY <1>1, <1>2, <1>3 DEF InRow, Inserted
  <1>6. \A c : Inserted(c) => ~InRow(c)'
    BY <1>1, <1>3, <1>4 DEF InRow, Inserted
  <1>7. \A c : Inserted(c) => HomeOf(c)' = HomeOf(c)
    BY <1>1, <1>5, <1>6 DEF HomeOf
  <1> QED BY <1>5, <1>7, WantedSame

LEMMA WantedNextCast ==
    ASSUME ModulesInv, NextCast
    PROVE  Gets(Wanted, Wanted', loading.type, <<loading.module, typeName, castInitial[loading.cast]>>)
  <1> DEFINE m == loading.module
             u == castInitial[loading.cast]
             c == <<m, typeName, u>>
  <1>1. /\ loading.at = "casts" /\ loading.cast <= Len(castInitial) /\ Filling
        /\ typeOf' = typeOf /\ loading' = [loading EXCEPT !.cast = @ + 1]
    BY DEF NextCast, Filling
  <1>2. /\ Complete' = Complete /\ Filled' = Filled
    BY ModulesInvNextCast
  <1>3. /\ loading'.at = "casts" /\ loading'.module = m /\ loading'.i = loading.i /\ loading'.type = loading.type
        /\ loading'.cast = loading.cast + 1
        /\ typeName' = typeName /\ castInitial' = castInitial /\ Filling'
    BY <1>1, LoadingTyped DEF typeName, castInitial, Filling
  <1>4. c \in Cast /\ loading.cast \in 1 .. Len(castInitial) /\ Len(castInitial) \in Nat
    BY <1>1, AtCast
  <1>5. \A d : (InRow(d)' <=> InRow(d)) /\ HomeOf(d)' = HomeOf(d)
    BY <1>1, <1>3 DEF InRow, HomeOf
  <1>6. 1 .. loading.cast + 1 - 1 = (1 .. loading.cast - 1) \cup {loading.cast}
    BY <1>4
  <1>7. \A d : Inserted(d)' <=> Inserted(d) \/ (InRow(d) /\ u = d[3])
    BY <1>1, <1>2, <1>3, <1>5, <1>6 DEF Inserted
  <1>8. \A d \in Cast : InRow(d) /\ u = d[3] <=> d = c
    <2>1. ASSUME NEW d \in Cast
          PROVE  InRow(d) /\ u = d[3] <=> d = c
      <3>1. d = <<d[1], d[2], d[3]>>
        BY CastOf
      <3>2. c[1] = m /\ c[2] = typeName /\ c[3] = u
        OBVIOUS
      <3>3. d = c <=> d[1] = m /\ d[2] = typeName /\ d[3] = u
        BY <3>1, <3>2
      <3> HIDE DEF c, u
      <3> QED BY <1>1, <3>3 DEF InRow
    <2> QED BY <2>1
  <1>9. HomeOf(c) = loading.type
    <2>1. c[1] = m /\ c[2] = typeName
      OBVIOUS
    <2> HIDE DEF c
    <2> QED BY <1>1, <2>1 DEF HomeOf, InRow
  <1> HIDE DEF c, u
  <1>10. ASSUME NEW t \in Type
         PROVE  Wanted'[t] = IF t = loading.type THEN Wanted[loading.type] \cup {c} ELSE Wanted[t]
    <2>1. Wanted[t] = {d \in Cast : Inserted(d) /\ HomeOf(d) = t}
      BY DEF Wanted
    <2>2. Wanted'[t] = {d \in Cast : Inserted(d)' /\ HomeOf(d)' = t}
      BY DEF Wanted
    <2> QED BY <1>4, <1>5, <1>7, <1>8, <1>9, <2>1, <2>2
  <1> QED BY <1>10 DEF Gets, c, u

LEMMA WantedEndCasts ==
    ASSUME ModulesInv, EndCasts
    PROVE  \A t \in Type : Wanted'[t] = Wanted[t]
  <1> DEFINE m == loading.module
             n == typeName
  <1>1. /\ loading.at = "casts" /\ loading.cast > Len(castInitial) /\ Filling /\ loading.i <= Len(Names[m])
        /\ loading' = [loading EXCEPT !.at = "types", !.i = @ + 1]
    BY DEF EndCasts, Filling, ModulesInv, LoadingInv
  <1>2. /\ Complete' = Complete /\ Filled' = Filled \cup {n}
        /\ n \notin Filled /\ typeOf'[m][n] = loading.type
        /\ \A k \in Module : \A l \in Known(k) : <<k, l>> # <<m, n>> => typeOf'[k][l] = typeOf[k][l]
    BY ModulesInvEndCasts
  <1>3. loading'.at = "types" /\ loading'.module = m /\ Filling'
    BY <1>1, LoadingTyped DEF Filling
  <1>4. n \in Known(m) /\ m \in Module
    BY <1>1, NotFilled
  <1>5. \A c : ~InRow(c)'
    BY <1>3 DEF InRow
  <1>6. ASSUME NEW c \in Cast
        PROVE  /\ HomeOf(c)' = HomeOf(c)
               /\ Inserted(c)' <=> Inserted(c)
    <2>1. c[1] \in Module /\ c[2] \in Known(c[1]) /\ c[3] \in ToSet(Row[c[1]][c[2]])
      BY CastOf
    <2>2. HomeOf(c)' = typeOf'[c[1]][c[2]]
      BY <1>5 DEF HomeOf
    <2>3. CASE InRow(c)
      <3>1. c[1] = m /\ c[2] = n
        BY <2>3 DEF InRow
      <3>2. HomeOf(c)' = HomeOf(c)
        BY <1>2, <2>2, <2>3, <3>1 DEF HomeOf
      <3>3. c[3] \in ToSet(castInitial)
        BY <2>1, <3>1 DEF castInitial
      <3>4. loading.cast - 1 = Len(castInitial) /\ DOMAIN castInitial = 1 .. Len(castInitial)
        <4>1. Len(castInitial) \in Nat /\ DOMAIN castInitial = 1 .. Len(castInitial)
          BY <1>4, Tables DEF castInitial
        <4> QED BY <1>1, <4>1 DEF ModulesInv, LoadingInv
      <3>5. \E j \in 1 .. loading.cast - 1 : castInitial[j] = c[3]
        BY <3>3, <3>4 DEF ToSet
      <3> QED BY <1>2, <1>3, <2>3, <3>1, <3>2, <3>5 DEF Inserted
    <2>4. CASE ~InRow(c)
      <3>1. <<c[1], c[2]>> # <<m, n>>
        BY <1>1, <2>4 DEF InRow
      <3>2. HomeOf(c)' = HomeOf(c)
        BY <1>2, <2>1, <2>2, <2>4, <3>1 DEF HomeOf
      <3> QED BY <1>1, <1>2, <1>3, <1>5, <2>4, <3>1, <3>2 DEF Inserted
    <2> QED BY <2>3, <2>4
  <1> QED BY <1>6, WantedSame

LEMMA WantedEndTypes ==
    ASSUME ModulesInv, EndTypes
    PROVE  \A t \in Type : Wanted'[t] = Wanted[t]
  <1> DEFINE m == loading.module
  <1>1. loading.at = "types" /\ Filling /\ typeOf' = typeOf
    BY DEF EndTypes, Filling
  <1>2. /\ Filled = Known(m) /\ Complete' = Complete \cup {m}
        /\ loading' = [AtRest EXCEPT !.at = "classes", !.module = m]
    BY ModulesInvEndTypes
  <1>3. loading'.at = "classes" /\ ~Filling'
    BY <1>2 DEF AtRest, Filling
  <1>4. \A c : ~InRow(c) /\ ~InRow(c)' /\ HomeOf(c)' = HomeOf(c)
    BY <1>1, <1>3 DEF InRow, HomeOf
  <1>5. \A c \in Cast : Inserted(c)' <=> Inserted(c)
    <2>1. \A c \in Cast : c[1] = m => c[2] \in Filled
      BY <1>2, CastOf
    <2> QED BY <1>1, <1>2, <1>3, <1>4, <2>1 DEF Inserted
  <1> QED BY <1>4, <1>5, WantedSame

LEMMA WantedClasses ==
    ASSUME ModulesInv, NextClass \/ EndClasses
    PROVE  \A t \in Type : Wanted'[t] = Wanted[t]
  <1>1. loading.at = "classes" /\ ~Filling /\ typeOf' = typeOf
    BY DEF NextClass, EndClasses, Filling
  <1>2. loading' = AtRest \/ loading' = [loading EXCEPT !.i = @ + 1]
    BY DEF NextClass, EndClasses
  <1>3. loading'.at \in {"end", "classes"} /\ ~Filling'
    BY <1>1, <1>2, LoadingTyped DEF AtRest, Filling
  <1>4. Complete' = Complete
    BY ModulesInvClasses
  <1>5. \A c : ~InRow(c) /\ ~InRow(c)' /\ HomeOf(c)' = HomeOf(c)
    BY <1>1, <1>3 DEF InRow, HomeOf
  <1>6. \A c : Inserted(c)' <=> Inserted(c)
    BY <1>1, <1>3, <1>4, <1>5 DEF Inserted
  <1> QED BY <1>5, <1>6, WantedSame

LEMMA InUseTypes ==
    ASSUME ModulesInv
    PROVE  InUse \subseteq Type
  <1>1. SUFFICES ASSUME NEW t \in InUse
                 PROVE  t \in Type
    OBVIOUS
  <1>2. PICK m \in Initialized : t \in {typeOf[m][n] : n \in Known(m)}
    BY DEF InUse
  <1>3. PICK n \in Known(m) : t = typeOf[m][n]
    BY <1>2
  <1>4. m \in Module /\ t # Zero
    <2>1. m \in Module
      BY DEF Initialized
    <2>2. t # Zero
      BY DEF InUse
    <2> QED BY <2>1, <2>2
  <1>5. typeOf[m] \in [Known(m) -> Ptr(Type)]
    BY <1>4 DEF ModulesInv, PointersTyped
  <1> QED BY <1>3, <1>4, <1>5 DEF Ptr

LEMMA CastsInvInit ==
    ASSUME TypesInit
    PROVE  CastsInv
  <1> DEFINE K == [t \in Type |-> << >>]
  <1>1. \A c \in Cast : <<c[1], c[3]>> \in Type /\ <<c[1], c[3]>>[2] = c[3]
    <2>1. ASSUME NEW c \in Cast
          PROVE  <<c[1], c[3]>> \in Type
      <3>1. c[1] \in Module /\ c[2] \in Known(c[1]) /\ c[3] \in ToSet(Row[c[1]][c[2]])
        BY CastOf
      <3>2. Row[c[1]][c[2]] \in Seq(Known(c[1]))
        BY <3>1, TablesAssumption
      <3>3. c[3] \in Known(c[1])
        BY <3>1, <3>2 DEF ToSet
      <3> QED BY <3>1, <3>3, Tables
    <2> QED BY <2>1
  <1>2. HeapTyped(table)
    <2>1. \A t \in Type : t[1] \in Module
      BY Types
    <2> QED BY <1>1, <2>1 DEF TypesInit, HeapTyped, Ptr
  <1>3. \A t \in Type : Wanted[t] = {}
    <2>1. Complete = {} /\ ~Filling /\ loading.at = "end"
      BY DEF TypesInit, Complete, Filling, Initialized, AtRest
    <2> QED BY <2>1 DEF Wanted, Inserted, InRow
  <1>4. Heap(table, Wanted, K)
    <2>1. \A t \in Type : K[t] = << >> /\ table.cast[t] = Zero
      BY DEF TypesInit
    <2>2. ToSet(<< >>) = {}
      BY DEF ToSet
    <2>3. \A c \in Cast : table.nxt[c] = Zero /\ table.of[c] = <<c[1], c[3]>>
      BY DEF TypesInit
    <2> HIDE DEF K
    <2>4. \A t \in Type : IsList(table, << >>, t)
      <3>1. << >> \in Seq(Cast) /\ Len(<< >>) = 0 /\ DOMAIN << >> = {}
        OBVIOUS
      <3>2. Start(<< >>, Zero) = Zero /\ Links(table.nxt, << >>, Zero)
        BY <3>1 DEF Start, Links
      <3> QED BY <2>1, <3>1, <3>2 DEF IsList
    <2> QED BY <1>1, <1>3, <2>1, <2>2, <2>3, <2>4 DEF Heap
  <1> HIDE DEF K
  <1>5. \A t \in Type : Lists(table)[t] = K[t]
    BY <1>2, <1>4, HeapLists
  <1>6. Heap(table, Wanted, Lists(table))
    BY <1>4, <1>5, HeapSame
  <1> QED BY <1>2, <1>6 DEF CastsInv

\* A step that changes the client data only, or nothing.
LEMMA CastsInvClients ==
    ASSUME CastsInv, \A t \in Type : Wanted'[t] = Wanted[t],
           NEW clients \in [Type -> Ptr(Module)], table' = [table EXCEPT !.clientdata = clients]
    PROVE  /\ CastsInv' /\ table'.clientdata = clients /\ table'.of = table.of
           /\ \A t \in Type : Lists(table)'[t] = Lists(table)[t]
  <1>1. HeapTyped(table)
    BY DEF CastsInv
  <1>2. /\ table'.cast = table.cast /\ table'.nxt = table.nxt /\ table'.prev = table.prev /\ table'.of = table.of
        /\ table'.clientdata = clients /\ HeapTyped(table')
    BY <1>1 DEF HeapTyped
  <1> QED BY <1>2, CastsInvSame

LEMMA CastsInvNextType ==
    ASSUME OneInterpreter, ModulesInv, CastsInv, NextType
    PROVE  /\ CastsInv' /\ table'.of = table.of /\ \A t \in Type : Lists(table)'[t] = Lists(table)[t]
           /\ loading'.type \in Type
           /\ \A t \in Type : /\ table.clientdata[t] # Zero => table'.clientdata[t] # Zero
                              /\ t # loading'.type => table'.clientdata[t] = table.clientdata[t]
  <1> DEFINE m == loading.module
             type == TypeFor(m, typeName)
             data == table.clientdata[typeInitial]
             clients == IF data = Zero THEN table.clientdata ELSE [table.clientdata EXCEPT ![type] = data]
  <1>1. /\ loading.at = "types" /\ loading.i <= Len(Names[m]) /\ Filling
        /\ loading' = [loading EXCEPT !.at = "casts", !.cast = 1, !.type = type]
        /\ table' = IF data = Zero THEN table ELSE [table EXCEPT !.clientdata[type] = data]
    BY DEF NextType, Filling
  <1>2. typeName \in Known(m) /\ m \in Module
    BY <1>1, NotFilled
  <1>3. type \in Type /\ typeInitial \in Type
    BY <1>1, <1>2, TypeForIs, Tables DEF typeInitial
  <1>4. loading'.type = type
    BY <1>1, LoadingTyped
  <1>5. HeapTyped(table)
    BY DEF CastsInv
  <1> HIDE DEF type, data
  <1>6. table.clientdata \in [Type -> Ptr(Module)]
    BY <1>5 DEF HeapTyped
  <1>7. data \in Ptr(Module)
    BY <1>3, <1>6 DEF data
  <1>8. clients \in [Type -> Ptr(Module)] /\ table' = [table EXCEPT !.clientdata = clients]
    BY <1>1, <1>3, <1>5, <1>6, <1>7 DEF HeapTyped
  <1>9. \A t \in Type : /\ table.clientdata[t] # Zero => clients[t] # Zero
                        /\ t # type => clients[t] = table.clientdata[t]
    BY <1>3, <1>6
  <1> HIDE DEF clients
  <1>10. \A t \in Type : Wanted'[t] = Wanted[t]
    BY WantedNextType
  <1>11. CastsInv' /\ table'.clientdata = clients /\ table'.of = table.of /\ \A t \in Type : Lists(table)'[t] = Lists(table)[t]
    BY <1>8, <1>10, CastsInvClients
  <1> QED BY <1>3, <1>4, <1>9, <1>11

LEMMA CastsInvNextCast ==
    ASSUME OneInterpreter, ModulesInv, CastsInv, NextCast
    PROVE  /\ CastsInv' /\ table'.clientdata = table.clientdata
           /\ \A t \in Type : t # loading.type => /\ ToSet(Lists(table)'[t]) = ToSet(Lists(table)[t])
                                                  /\ \A d \in ToSet(Lists(table)[t]) : table'.of[d] = table.of[d]
  <1> DEFINE c == <<loading.module, typeName, castInitial[loading.cast]>>
             L == Lists(table)
  <1>1. loading.at = "casts" /\ loading.cast <= Len(castInitial) /\ table' = InsertCast(table, c, loading.type)
    BY DEF NextCast
  <1>2. Gets(Wanted, Wanted', loading.type, c)
    BY WantedNextCast
  <1>3. HeapTyped(table) /\ Heap(table, Wanted, L)
    BY DEF CastsInv
  <1>4. c \in Cast /\ ~Inserted(c)
    BY <1>1, AtCast
  <1> HIDE DEF L
  <1>5. /\ HeapTyped(table') /\ table'.clientdata = table.clientdata
        /\ \A d \in Cast : d # c => table'.of[d] = table.of[d]
        /\ \E K : Heap(table', Wanted', K) /\ \A t \in Type : t # loading.type => ToSet(K[t]) = ToSet(L[t])
    <2> HIDE DEF c
    <2>1. c = <<loading.module, typeName, castInitial[loading.cast]>>
      BY DEF c
    <2> QED BY <1>1, <1>2, <1>3, <2>1, CastInserted
  <1>6. PICK K : Heap(table', Wanted', K) /\ \A t \in Type : t # loading.type => ToSet(K[t]) = ToSet(L[t])
    BY <1>5
  <1>7. HeapTyped(table')
    BY <1>5
  <1>8. CastsInv' /\ \A t \in Type : Lists(table)'[t] = K[t]
    <2>1. Heap(table', Wanted', K)
      BY <1>6
    <2> QED BY <1>7, <2>1, CastsInvFrom
  <1>9. \A t \in Type : \A d \in ToSet(L[t]) : d \in Cast /\ d # c
    BY <1>3, <1>4 DEF Heap, Wanted
  <1> HIDE DEF c
  <1> QED BY <1>5, <1>6, <1>8, <1>9 DEF L

\* SWIG_TypeCheck() and SWIG_TypeCheckStruct() in the wrappers.
LEMMA CastsInvConvert ==
    ASSUME ModulesInv, CastsInv, NEW from \in InUse, NEW type \in InUse,
           ConvertPtr(from, type) \/ ConvertPtrByName(from[2], type)
    PROVE  /\ CastsInv' /\ table'.clientdata = table.clientdata /\ table'.of = table.of
           /\ \A t \in Type : ToSet(Lists(table)'[t]) = ToSet(Lists(table)[t])
  <1> DEFINE L == Lists(table)
  <1>1. PICK S : table' = ToFront(table, TypeCheck(table, S, type), type)
    BY DEF ConvertPtr, ConvertPtrByName
  <1>2. UNCHANGED <<head, next, typeOf, propagated, loading>>
    BY DEF ConvertPtr, ConvertPtrByName
  <1>3. type \in Type
    BY InUseTypes
  <1>4. HeapTyped(table) /\ Heap(table, Wanted, L)
    BY DEF CastsInv
  <1> HIDE DEF L
  <1>5. TypeCheck(table, S, type) \in ToSet(L[type]) \cup {Zero}
    BY <1>3, <1>4, TypeCheckIs
  <1> DEFINE iter == TypeCheck(table, S, type)
  <1> HIDE DEF iter
  <1>6. /\ HeapTyped(ToFront(table, iter, type))
        /\ ToFront(table, iter, type).of = table.of /\ ToFront(table, iter, type).clientdata = table.clientdata
        /\ \E K : Heap(ToFront(table, iter, type), Wanted, K) /\ \A t \in Type : ToSet(K[t]) = ToSet(L[t])
    <2>1. iter \in ToSet(L[type]) \cup {Zero}
      BY <1>5 DEF iter
    <2> QED BY <1>3, <1>4, <2>1, WantedApart, HeapMoved
  <1>7. table' = ToFront(table, iter, type)
    BY <1>1 DEF iter
  <1>8. HeapTyped(table') /\ table'.of = table.of /\ table'.clientdata = table.clientdata
    BY <1>6, <1>7
  <1>9. PICK K : Heap(table', Wanted, K) /\ \A t \in Type : ToSet(K[t]) = ToSet(L[t])
    BY <1>6, <1>7
  <1>10. \A t \in Type : Wanted'[t] = Wanted[t]
    BY <1>2, WantedStutters
  <1>11. CastsInv' /\ \A t \in Type : Lists(table)'[t] = K[t]
    BY <1>8, <1>9, <1>10, CastsInvFrom
  <1> QED BY <1>8, <1>9, <1>11 DEF L

\* The other steps, but those of SWIG_PropagateClientData().
LEMMA CastsInvOther ==
    ASSUME OneInterpreter, ModulesInv, CastsInv, NEW i \in Interp, NEW m \in Module,
           SWIG_init(i, m) \/ EndCasts \/ EndTypes \/ EndClasses \/ UNCHANGED typesVars
    PROVE  CastsInv' /\ table' = table /\ \A t \in Type : Lists(table)'[t] = Lists(table)[t]
  <1>1. table' = table
    BY DEF SWIG_init, EndCasts, EndTypes, EndClasses, typesVars
  <1>2. \A t \in Type : Wanted'[t] = Wanted[t]
    <2>1. CASE UNCHANGED typesVars
      BY <2>1, WantedStutters DEF typesVars
    <2>2. CASE SWIG_init(i, m)
      <3>1. loading = AtRest
        BY <2>2 DEF SWIG_init
      <3>2. \/ UNCHANGED typesVars
            \/ loading' = [AtRest EXCEPT !.at = "types", !.module = m] /\ Complete' = Complete /\ typeOf' = typeOf
        BY <2>2, ModulesInvInitialize
      <3> QED BY <2>1, <3>1, <3>2, WantedInitialize
    <2>3. CASE EndCasts
      BY <2>3, WantedEndCasts
    <2>4. CASE EndTypes
      BY <2>4, WantedEndTypes
    <2>5. CASE EndClasses
      BY <2>5, WantedClasses
    <2> QED BY <2>1, <2>2, <2>3, <2>4, <2>5
  <1>3. HeapTyped(table')
    BY <1>1 DEF CastsInv
  <1>4. CastsInv' /\ \A t \in Type : Lists(table)'[t] = Lists(table)[t]
    BY <1>1, <1>2, <1>3, CastsInvSame
  <1> QED BY <1>1, <1>4

\* SWIG_TypeClientData() touches no list.
LEMMA CastsInvNextClass ==
    ASSUME ModulesInv, CastsInv, NextClass
    PROVE  /\ CastsInv' /\ table'.of = table.of /\ \A t \in Type : Lists(table)'[t] = Lists(table)[t]
           /\ LET type == typeOf[loading.module][typeName]
              IN  /\ type \in Type
                  /\ table'.clientdata =
                        IF table.clientdata[type] = Zero THEN table.clientdata
                        ELSE [t \in Type |-> IF t \in Reached(table, type) THEN table.clientdata[type]
                                             ELSE table.clientdata[t]]
  <1> DEFINE m == loading.module
             type == typeOf[m][typeName]
             data == table.clientdata[type]
             clients == IF data = Zero THEN table.clientdata
                        ELSE [t \in Type |-> IF t \in Reached(table, type) THEN data ELSE table.clientdata[t]]
  <1>1. /\ loading.at = "classes" /\ loading.i <= Len(Names[m]) /\ ~Filling
        /\ table' = IF data = Zero THEN table ELSE TypeClientData(table, type, data)
    BY DEF NextClass, Filling
  <1>2. typeName \in Known(m) /\ m \in Complete
    BY <1>1, FillingModule
  <1>3. type \in Type
    BY <1>2 DEF ModulesInv, StructuresAgree
  <1>4. HeapTyped(table)
    BY DEF CastsInv
  <1> HIDE DEF type
  <1>5. table.clientdata \in [Type -> Ptr(Module)] /\ data \in Ptr(Module)
    BY <1>3, <1>4 DEF HeapTyped
  <1> HIDE DEF data
  <1>6. clients \in [Type -> Ptr(Module)] /\ table' = [table EXCEPT !.clientdata = clients]
    <2>1. CASE data = Zero
      <3>1. table' = table /\ clients = table.clientdata
        BY <1>1, <2>1
      <3>2. table = [table EXCEPT !.clientdata = table.clientdata]
        BY <1>4 DEF HeapTyped
      <3> HIDE DEF clients
      <3> QED BY <1>5, <3>1, <3>2
    <2>2. CASE data # Zero
      <3>1. clients \in [Type -> Ptr(Module)]
        BY <1>5, <2>2
      <3>2. table' = [table EXCEPT !.clientdata = clients]
        BY <1>1, <2>2 DEF TypeClientData
      <3> QED BY <3>1, <3>2
    <2> QED BY <2>1, <2>2
  <1> HIDE DEF clients
  <1>7. \A t \in Type : Wanted'[t] = Wanted[t]
    BY WantedClasses
  <1>8. CastsInv' /\ table'.clientdata = clients /\ table'.of = table.of /\ \A t \in Type : Lists(table)'[t] = Lists(table)[t]
    BY <1>6, <1>7, CastsInvClients
  <1> QED BY <1>3, <1>8 DEF clients, data, type

LEMMA CastsInvNext ==
    ASSUME OneInterpreter, ModulesInv, CastsInv, [TypesNext]_typesVars
    PROVE  CastsInv'
  <1>0. PICK i \in Interp : TRUE
    BY DEF OneInterpreter
  <1>1. CASE UNCHANGED typesVars
    <2>1. Wanted' = Wanted /\ table' = table
      BY <1>1 DEF typesVars, Wanted, Inserted, HomeOf, InRow, Complete, Filled, Filling, Initialized,
                  typeName, castInitial
    <2> QED BY <2>1 DEF CastsInv
  <1>2. ASSUME NEW j \in Interp, NEW m \in Module, SWIG_init(j, m)
        PROVE  CastsInv'
    BY <1>2, CastsInvOther
  <1>3. CASE NextType
    BY <1>3, CastsInvNextType
  <1>4. CASE NextCast
    BY <1>4, CastsInvNextCast
  <1>5. CASE EndCasts \/ EndTypes \/ EndClasses
    <2>1. loading.module \in Module
      BY <1>5, FillingModule DEF EndCasts, EndTypes, EndClasses
    <2> QED BY <1>0, <1>5, <2>1, CastsInvOther
  <1>6. CASE NextClass
    BY <1>6, CastsInvNextClass
  <1>7. ASSUME NEW from \in InUse, NEW type \in InUse,
               ConvertPtr(from, type) \/ ConvertPtrByName(from[2], type)
        PROVE  CastsInv'
    BY <1>7, CastsInvConvert
  <1> QED BY <1>1, <1>2, <1>3, <1>4, <1>5, <1>6, <1>7 DEF TypesNext


\* swiginit.swg:25, swigrun.swg:284: in whatever order modules are loaded and conversions
\* made, a type has one structure, its list has each cast of the loaded modules, once,
\* and "prev" is right where SWIG_TypeCheck() uses it.
THEOREM TablesAgreeForOne ==
    ASSUME OneInterpreter
    PROVE  TypesSpec => []TablesAgree
  <1>1. ModulesInv /\ CastsInv => TablesAgree
    <2>1. SUFFICES ASSUME ModulesInv, CastsInv, loading = AtRest
                   PROVE  OneStructurePerType /\ EveryCastOnce /\ PrevIsRight
      BY DEF TablesAgree
    <2>2. Complete = Initialized /\ loading.at = "end"
      BY <2>1 DEF Complete, Filling, AtRest
    <2>3. OneStructurePerType
      BY <2>1, <2>2 DEF OneStructurePerType, ModulesInv, StructuresAgree
    <2>4. HeapTyped(table) /\ Heap(table, Wanted, Lists(table))
      BY <2>1 DEF CastsInv
    <2>5. \A t \in Type : /\ IsList(table, Casts(table, t), t)
                          /\ Returns(table.nxt, table.cast[t], Zero)
                          /\ \A c \in Wanted[t] : \E d \in ToSet(Casts(table, t)) : d[3] = c[3]
      <3>1. \A t \in Type : Lists(table)[t] = Casts(table, t)
        BY DEF Lists
      <3> QED BY <2>4, <3>1, CastsOfList DEF Heap
    <2>6. EveryCastOnce
      <3>1. ASSUME NEW m \in Initialized, NEW n \in Known(m), NEW u \in ToSet(Row[m][n])
            PROVE  LET list == Casts(table, typeOf[m][n])
                       IsIt(k) == table.of[list[k]][2] = u
                   IN  /\ Returns(table.nxt, table.cast[typeOf[m][n]], Zero)
                       /\ \E k \in DOMAIN list : IsIt(k) /\ \A l \in DOMAIN list \ {k} : ~IsIt(l)
        <4> DEFINE t == typeOf[m][n]
                   list == Casts(table, t)
                   c == <<m, n, u>>
        <4>1. t \in Type /\ m \in Module
          BY <2>1, <2>2 DEF ModulesInv, StructuresAgree, Initialized
        <4>2. c \in Cast
          <5>1. <<m, n>> \in Type
            BY <4>1, Tables
          <5>2. c = <<<<m, n>>[1], <<m, n>>[2], u>> /\ u \in ToSet(Row[<<m, n>>[1]][<<m, n>>[2]])
            OBVIOUS
          <5> QED BY <5>1, <5>2 DEF Cast
        <4>3. c[1] = m /\ c[2] = n /\ c[3] = u
          OBVIOUS
        <4> HIDE DEF c, list
        <4>4. c \in Wanted[t]
          <5>1. Inserted(c) /\ HomeOf(c) = t
            BY <2>2, <4>3 DEF Inserted, HomeOf, InRow
          <5> HIDE DEF t
          <5> QED BY <4>1, <4>2, <5>1 DEF Wanted
        <4> HIDE DEF t
        <4>5. PICK d \in ToSet(list) : d[3] = u
          BY <2>5, <4>1, <4>3, <4>4 DEF list
        <4>6. IsList(table, list, t) /\ Returns(table.nxt, table.cast[t], Zero)
          BY <2>5, <4>1 DEF list
        <4>7. PICK k \in DOMAIN list : list[k] = d
          BY DEF ToSet
        <4>8. \A l \in DOMAIN list : list[l] \in Cast /\ table.of[list[l]][2] = list[l][3]
          BY <2>4, <4>6 DEF IsList, Heap
        <4>9. \A l \in DOMAIN list : list[l][3] = list[k][3] => l = k
          BY <4>6 DEF IsList
        <4>10. \E j \in DOMAIN list : table.of[list[j]][2] = u /\ \A l \in DOMAIN list \ {j} : table.of[list[l]][2] # u
          BY <4>5, <4>7, <4>8, <4>9
        <4> QED BY <4>6, <4>10 DEF list, t
      <3> QED BY <3>1 DEF EveryCastOnce
    <2>7. PrevIsRight
      BY <2>1, <2>5, InUseTypes DEF PrevIsRight, IsList
    <2> QED BY <2>3, <2>6, <2>7
  <1>2. TypesInit => ModulesInv /\ CastsInv
    BY ModulesInvInit, CastsInvInit
  <1>3. ModulesInv /\ CastsInv /\ [TypesNext]_typesVars => (ModulesInv /\ CastsInv)'
    BY ModulesInvNext, CastsInvNext
  <1> QED BY <1>1, <1>2, <1>3, PTL DEF TypesSpec

\* swiginit.swg: what is in the fields is of the right kind, in every step of the loading.
THEOREM TablesTyped ==
    ASSUME OneInterpreter
    PROVE  TypesSpec => []TypesTypeOK
  <1>1. ModulesInv /\ CastsInv => TypesTypeOK
    <2>1. SUFFICES ASSUME ModulesInv, CastsInv
                   PROVE  TypesTypeOK
      OBVIOUS
    <2>2. /\ head \in [Interp -> Ptr(Module)] /\ next \in [Module -> Ptr(Module)]
          /\ DOMAIN typeOf = Module /\ \A m \in Module : typeOf[m] \in [Known(m) -> Ptr(Type)]
          /\ loading \in [at : {"end", "types", "casts", "classes"}, module : Ptr(Module),
                          i : Nat, cast : Nat, type : Ptr(Type)]
      BY <2>1 DEF ModulesInv, PointersTyped, Pointers, Ptr
    <2>3. HeapTyped(table)
      BY <2>1 DEF CastsInv
    <2>4. propagated \subseteq Module
      BY <2>1 DEF ModulesInv, LoadingInv, Complete, Initialized
    <2> QED BY <2>2, <2>3, <2>4 DEF TypesTypeOK, HeapTyped
  <1>2. TypesInit => ModulesInv /\ CastsInv
    BY ModulesInvInit, CastsInvInit
  <1>3. ModulesInv /\ CastsInv /\ [TypesNext]_typesVars => (ModulesInv /\ CastsInv)'
    BY ModulesInvNext, CastsInvNext
  <1> QED BY <1>1, <1>2, <1>3, PTL DEF TypesSpec

-----------------------------------------------------------------------------
(* The classes.                                                             *)

\* Sets that grow from one another stop growing after as many turns as there are elements.
LEMMA Closing ==
    ASSUME NEW X, IsFiniteSet(X), NEW g \in [SUBSET X -> SUBSET X], \A A \in SUBSET X : A \subseteq g[A],
           NEW a \in [Nat -> SUBSET X], \A j \in Nat : a[j + 1] = g[a[j]]
    PROVE  g[a[Cardinality(X)]] = a[Cardinality(X)] /\ \A n \in Nat : a[0] \subseteq a[n]
  <1> DEFINE G == {n \in Nat : Cardinality(a[n]) >= n \/ g[a[n]] = a[n]}
             H == {n \in Nat : a[0] \subseteq a[n]}
  <1>1. \A n \in Nat : /\ IsFiniteSet(a[n]) /\ Cardinality(a[n]) \in Nat
                       /\ a[n] \subseteq a[n + 1] /\ IsFiniteSet(a[n + 1]) /\ Cardinality(a[n + 1]) \in Nat
    <2>1. \A n \in Nat : IsFiniteSet(a[n]) /\ Cardinality(a[n]) \in Nat
      BY FS_Subset, FS_CardinalityType
    <2>2. \A n \in Nat : n + 1 \in Nat
      OBVIOUS
    <2> QED BY <2>1, <2>2
  <1>2. G = Nat
    <2>1. 0 \in G
      BY <1>1
    <2>2. ASSUME NEW n \in G
          PROVE  n + 1 \in G
      <3>1. n \in Nat /\ n + 1 \in Nat /\ a[n + 1] = g[a[n]]
        OBVIOUS
      <3>2. CASE g[a[n]] = a[n]
        BY <3>1, <3>2
      <3>3. CASE g[a[n]] # a[n] /\ Cardinality(a[n]) >= n
        <4>1. Cardinality(a[n]) < Cardinality(a[n + 1])
          <5>1. IsFiniteSet(a[n + 1]) /\ a[n] \in SUBSET a[n + 1] /\ a[n + 1] # a[n]
            BY <1>1, <3>1, <3>3
          <5>2. /\ Cardinality(a[n]) <= Cardinality(a[n + 1])
                /\ Cardinality(a[n + 1]) = Cardinality(a[n]) => a[n + 1] = a[n]
            BY ONLY <5>1, FS_Subset
          <5>3. Cardinality(a[n]) \in Nat /\ Cardinality(a[n + 1]) \in Nat
            BY <1>1
          <5> QED BY ONLY <5>1, <5>2, <5>3
        <4>2. Cardinality(a[n + 1]) >= n + 1
          <5> HIDE DEF G
          <5> QED BY <1>1, <3>1, <3>3, <4>1
        <4> QED BY <3>1, <4>2
      <3> QED BY <3>2, <3>3
    <2> HIDE DEF G
    <2> QED BY <2>1, <2>2, Counting DEF G
  <1>3. H = Nat
    <2>1. 0 \in H
      OBVIOUS
    <2>2. ASSUME NEW n \in H
          PROVE  n + 1 \in H
      BY <1>1
    <2> HIDE DEF H
    <2> QED BY <2>1, <2>2, Counting DEF H
  <1>4. Cardinality(X) \in Nat
    BY FS_CardinalityType
  <1> DEFINE N == Cardinality(X)
  <1>5. g[a[N]] = a[N]
    <2>1. CASE Cardinality(a[N]) >= N
      <3>1. a[N] \subseteq X
        BY <1>4
      <3>2. Cardinality(a[N]) <= N /\ (N = Cardinality(a[N]) => X = a[N])
        BY <3>1, FS_Subset
      <3>3. Cardinality(a[N]) \in Nat /\ N \in Nat
        BY <1>1, <1>4
      <3>4. N = Cardinality(a[N])
        <4> HIDE DEF N
        <4> QED BY ONLY <2>1, <3>2, <3>3
      <3>5. a[N] = X /\ g[X] \subseteq X /\ X \subseteq g[X]
        BY <3>2, <3>4
      <3> QED BY <3>5
    <2> QED BY <1>2, <1>4, <2>1
  <1> QED BY <1>3, <1>5

\* swigrun.swg:322: the recursion of SWIG_TypeClientData() comes to every type that it has to.
LEMMA ReachedIs ==
    ASSUME NEW h, HeapTyped(h), \A t \in Type : Same(h, t) \subseteq Type, NEW ti \in Type
    PROVE  /\ ti \in Reached(h, ti) /\ Reached(h, ti) \subseteq Type
           /\ \A t \in Reached(h, ti) : \A s \in Same(h, t) : h.clientdata[s] = Zero => s \in Reached(h, ti)
  <1> DEFINE X == SUBSET Type
             More(A) == A \cup {s \in UNION {Same(h, t) : t \in A} : h.clientdata[s] = Zero}
             g == [A \in X |-> More(A)]
             Is(b) == b = [k \in Nat |-> IF k = 0 THEN {ti} ELSE More(b[k - 1])]
             N == Cardinality(Type)
  <1>1. g \in [X -> X] /\ \A A \in X : A \subseteq g[A]
    OBVIOUS
  <1>2. {ti} \in X
    OBVIOUS
  <1>3. PICK a \in [Nat -> X] : a[0] = {ti} /\ \A j \in Nat : a[j + 1] = g[a[j]]
    <2>1. g \in [X -> X]
      BY <1>1
    <2> HIDE DEF X, g
    <2>2. \E a \in [Nat -> X] : Follows(a, {ti}, g)
      BY ONLY <1>2, <2>1, Iterated
    <2> QED BY ONLY <2>2 DEF Follows
  <1>4. \A j \in Nat : a[j] \in X /\ a[j + 1] = More(a[j])
    <2>1. \A A \in X : g[A] = More(A)
      OBVIOUS
    <2> HIDE DEF X, g, More
    <2> QED BY <1>3, <2>1
  <1>5. Is(a)
    <2>1. ASSUME NEW k \in Nat, k # 0
          PROVE  a[k] = More(a[k - 1])
      <3>1. k - 1 \in Nat /\ k - 1 + 1 = k
        BY <2>1
      <3> HIDE DEF More, X
      <3>2. a[k - 1 + 1] = More(a[k - 1])
        BY <1>4, <3>1
      <3> QED BY <3>1, <3>2
    <2> HIDE DEF More, X
    <2> QED BY <1>3, <2>1
  <1> DEFINE w == CHOOSE b : Is(b)
  <1>6. Is(w)
    <2> HIDE DEF Is
    <2> QED BY <1>5
  <1>7. w[0] = {ti} /\ \A j \in Nat : w[j + 1] = More(w[j])
    <2>1. ASSUME NEW j \in Nat
          PROVE  w[j + 1] = More(w[j])
      <3>1. j + 1 \in Nat /\ j + 1 # 0 /\ j + 1 - 1 = j
        OBVIOUS
      <3>2. ASSUME NEW b, Is(b)
            PROVE  b[j + 1] = IF j + 1 = 0 THEN {ti} ELSE More(b[j + 1 - 1])
        <4> HIDE DEF More
        <4>1. \A k \in Nat : b[k] = IF k = 0 THEN {ti} ELSE More(b[k - 1])
          BY <3>2
        <4> QED BY <3>1, <4>1
      <3> HIDE DEF w, More, Is
      <3> QED BY <1>6, <3>1, <3>2
    <2> HIDE DEF w, More
    <2> QED BY <1>6, <2>1
  <1>8. {k \in Nat : w[k] = a[k]} = Nat
    <2> DEFINE G == {k \in Nat : w[k] = a[k]}
    <2>1. 0 \in G
      BY <1>3, <1>7
    <2>2. ASSUME NEW k \in G
          PROVE  k + 1 \in G
      <3> HIDE DEF w, More, X
      <3> QED BY <1>4, <1>7
    <2> HIDE DEF G
    <2> QED BY <2>1, <2>2, Counting DEF G
  <1>9. Reached(h, ti) = w[N]
    BY DEF Reached
  <1>10. N \in Nat /\ IsFiniteSet(Type)
    BY CastsFinite, FS_CardinalityType
  <1>11. Reached(h, ti) = a[N]
    <2> HIDE DEF w, N
    <2> QED BY <1>8, <1>9, <1>10
  <1>12. g[a[N]] = a[N] /\ \A n \in Nat : a[0] \subseteq a[n]
    <2> HIDE DEF g
    <2> QED BY <1>1, <1>3, <1>10, Closing
  <1>13. a[N] \in X /\ More(a[N]) = a[N] /\ {ti} \subseteq a[N]
    <2> HIDE DEF N
    <2> QED BY <1>3, <1>10, <1>12
  <1> HIDE DEF N, w
  <1> QED BY <1>11, <1>13

\* the types whose turn in SWIG_PropagateClientData() is still to come
Touched ==
    IF Filling
    THEN {typeOf[loading.module][n] : n \in Filled} \cup (IF loading.at = "casts" THEN {loading.type} ELSE {})
    ELSE IF loading.at = "classes"
    THEN {typeOf[loading.module][Names[loading.module][j]] : j \in loading.i .. Len(Names[loading.module])}
    ELSE {}

Shared(h, t) == h.clientdata[t] # Zero => \A s \in Same(h, t) : h.clientdata[s] # Zero

ClassesInv == \A t \in Type \ Touched : Shared(table, t)

LEMMA SameTypes ==
    ASSUME CastsInv
    PROVE  \A t \in Type : Same(table, t) \subseteq Type
  <1>1. HeapTyped(table) /\ Heap(table, Wanted, Lists(table))
    BY DEF CastsInv
  <1>2. \A t \in Type : Lists(table)[t] = Casts(table, t) /\ Lists(table)[t] \in Seq(Cast)
    BY <1>1 DEF Lists, Heap, IsList
  <1>3. \A t \in Type : ToSet(Casts(table, t)) \subseteq Cast
    BY <1>2 DEF ToSet
  <1>4. \A d \in Cast : table.of[d] \in Type
    BY <1>1 DEF HeapTyped
  <1> QED BY ONLY <1>3, <1>4 DEF Same

\* A type keeps what it shares when its casts do not change and client data only grows.
LEMMA StaysShared ==
    ASSUME CastsInv, NEW t \in Type, ToSet(Lists(table)'[t]) = ToSet(Lists(table)[t]),
           \A d \in ToSet(Lists(table)[t]) : table'.of[d] = table.of[d]
    PROVE  /\ Same(table', t) = Same(table, t)
           /\ (/\ table'.clientdata[t] = table.clientdata[t] /\ Shared(table, t)
               /\ \A s \in Type : table.clientdata[s] # Zero => table'.clientdata[s] # Zero)
              => Shared(table', t)
  <1>1. Lists(table)[t] = Casts(table, t) /\ Lists(table)'[t] = Casts(table', t)
    BY DEF Lists
  <1>2. Same(table', t) = Same(table, t)
    BY <1>1 DEF Same
  <1>3. Same(table, t) \subseteq Type
    BY SameTypes
  <1> QED BY <1>2, <1>3 DEF Shared

LEMMA AtRestTouched ==
    ASSUME loading = AtRest
    PROVE  Touched = {} /\ ~Filling /\ loading.at = "end"
  BY DEF Touched, Filling, AtRest

LEMMA ClassesInvInit ==
    ASSUME TypesInit
    PROVE  ClassesInv
  <1>1. Wanted = [t \in Type |-> {}]
    <2>1. Complete = {} /\ ~Filling /\ loading.at = "end"
      BY DEF TypesInit, Complete, Filling, Initialized, AtRest
    <2>2. \A c : ~Inserted(c)
      BY <2>1 DEF Inserted, InRow
    <2> QED BY <2>2 DEF Wanted
  <1>2. CastsInv
    BY CastsInvInit
  <1>3. \A t \in Type : ToSet(Casts(table, t)) = {}
    BY <1>1, <1>2 DEF CastsInv, Heap, Lists
  <1> QED BY <1>3 DEF ClassesInv, Shared, Same

LEMMA ClassesInvNextType ==
    ASSUME OneInterpreter, ModulesInv, CastsInv, ClassesInv, NextType
    PROVE  ClassesInv'
  <1>1. Touched' = Touched \cup {loading'.type}
    <2>1. /\ loading.at = "types" /\ typeOf' = typeOf
          /\ loading' = [loading EXCEPT !.at = "casts", !.cast = 1, !.type = TypeFor(loading.module, typeName)]
      BY DEF NextType
    <2>2. loading'.at = "casts" /\ loading'.module = loading.module
      BY <2>1, LoadingTyped
    <2>3. Filled' = Filled
      BY ModulesInvNextType
    <2> QED BY <2>1, <2>2, <2>3 DEF Touched, Filling
  <1>2. /\ table'.of = table.of /\ \A t \in Type : Lists(table)'[t] = Lists(table)[t]
        /\ \A t \in Type : /\ table.clientdata[t] # Zero => table'.clientdata[t] # Zero
                           /\ t # loading'.type => table'.clientdata[t] = table.clientdata[t]
    BY CastsInvNextType
  <1>3. ASSUME NEW t \in Type, t \notin Touched'
        PROVE  Shared(table', t)
    <2>1. t # loading'.type /\ Shared(table, t)
      BY <1>1, <1>3 DEF ClassesInv
    <2> QED BY <1>2, <2>1, StaysShared
  <1> QED BY <1>3 DEF ClassesInv

LEMMA ClassesInvNextCast ==
    ASSUME OneInterpreter, ModulesInv, CastsInv, ClassesInv, NextCast
    PROVE  ClassesInv'
  <1>1. Touched' = Touched /\ loading.type \in Touched
    <2>1. /\ loading.at = "casts" /\ typeOf' = typeOf
          /\ loading' = [loading EXCEPT !.cast = @ + 1]
      BY DEF NextCast
    <2>2. loading'.at = "casts" /\ loading'.module = loading.module /\ loading'.type = loading.type
      BY <2>1, LoadingTyped
    <2>3. Filled' = Filled
      BY ModulesInvNextCast
    <2> QED BY <2>1, <2>2, <2>3 DEF Touched, Filling
  <1>2. /\ table'.clientdata = table.clientdata
        /\ \A t \in Type : t # loading.type => /\ ToSet(Lists(table)'[t]) = ToSet(Lists(table)[t])
                                               /\ \A d \in ToSet(Lists(table)[t]) : table'.of[d] = table.of[d]
    BY CastsInvNextCast
  <1>3. ASSUME NEW t \in Type, t \notin Touched'
        PROVE  Shared(table', t)
    <2>1. t # loading.type /\ Shared(table, t)
      BY <1>1, <1>3 DEF ClassesInv
    <2> QED BY <1>2, <2>1, StaysShared
  <1> QED BY <1>3 DEF ClassesInv

\* The steps that change no structure.
LEMMA ClassesInvOther ==
    ASSUME OneInterpreter, ModulesInv, CastsInv, ClassesInv, NEW i \in Interp, NEW m \in Module,
           SWIG_init(i, m) \/ EndCasts \/ EndTypes \/ EndClasses \/ UNCHANGED typesVars
    PROVE  ClassesInv'
  <1>1. table' = table /\ \A t \in Type : Lists(table)'[t] = Lists(table)[t]
    BY CastsInvOther
  <1>2. Touched' = Touched
    <2>1. CASE UNCHANGED typesVars
      BY <2>1 DEF typesVars, Touched, Filled, Filling
    <2>2. CASE SWIG_init(i, m)
      <3>1. loading = AtRest
        BY <2>2 DEF SWIG_init
      <3>2. UNCHANGED typesVars \/ loading' = [AtRest EXCEPT !.at = "types", !.module = m]
        BY <2>2, ModulesInvInitialize
      <3>3. CASE loading' = [AtRest EXCEPT !.at = "types", !.module = m]
        <4>1. loading'.at = "types" /\ loading'.i = 1 /\ Filling'
          BY <3>3 DEF AtRest, Filling
        <4>2. Filled' = {}
          BY <4>1 DEF Filled
        <4>3. Touched' = {}
          BY <4>1, <4>2 DEF Touched
        <4> QED BY <3>1, <4>3, AtRestTouched
      <3> QED BY <2>1, <3>2, <3>3
    <2>3. CASE EndCasts
      <3> DEFINE k == loading.module
      <3>1. /\ loading.at = "casts" /\ loading' = [loading EXCEPT !.at = "types", !.i = @ + 1] /\ Filling
        BY <2>3 DEF EndCasts, Filling
      <3>2. loading'.at = "types" /\ loading'.module = k /\ Filling'
        BY <3>1, LoadingTyped DEF Filling
      <3>3. /\ Filled' = Filled \cup {typeName} /\ typeName \notin Filled
            /\ typeOf'[k][typeName] = loading.type
            /\ \A l \in Module : \A n \in Known(l) :
                  <<l, n>> # <<k, typeName>> => typeOf'[l][n] = typeOf[l][n]
        BY <2>3, ModulesInvEndCasts
      <3>4. k \in Module /\ Filled \subseteq Known(k)
        <4>1. k \in Module
          BY <3>1, FillingModule
        <4>2. Len(Names[k]) \in Nat /\ loading.i \in 1 .. Len(Names[k]) + 1
          BY <3>1, <4>1, Tables DEF ModulesInv, LoadingInv
        <4>3. \A j \in 1 .. loading.i - 1 : j \in 1 .. Len(Names[k])
          BY <4>2
        <4> QED BY <3>1, <4>1, <4>3, Tables DEF Filled
      <3>5. \A n \in Filled : typeOf'[k][n] = typeOf[k][n]
        BY <3>3, <3>4
      <3>6. Touched' = {typeOf'[k][n] : n \in Filled \cup {typeName}}
        BY <3>2, <3>3 DEF Touched
      <3>7. Touched = {typeOf[k][n] : n \in Filled} \cup {loading.type}
        BY <3>1 DEF Touched
      <3> QED BY <3>3, <3>5, <3>6, <3>7
    <2>4. CASE EndTypes
      <3> DEFINE k == loading.module
      <3>1. Filling /\ loading.at = "types" /\ typeOf' = typeOf
        BY <2>4 DEF EndTypes, Filling
      <3>2. Filled = Known(k) /\ loading' = [AtRest EXCEPT !.at = "classes", !.module = k]
        BY <2>4, ModulesInvEndTypes
      <3>3. loading'.at = "classes" /\ loading'.module = k /\ loading'.i = 1 /\ ~Filling'
        BY <3>2 DEF AtRest, Filling
      <3>4. Touched = {typeOf[k][n] : n \in Known(k)}
        BY <3>1, <3>2 DEF Touched
      <3>5. Touched' = {typeOf[k][Names[k][j]] : j \in 1 .. Len(Names[k])}
        BY <3>1, <3>3 DEF Touched
      <3>6. k \in Module
        BY <3>1, FillingModule
      <3>7. /\ \A j \in 1 .. Len(Names[k]) : Names[k][j] \in Known(k)
            /\ \A n \in Known(k) : \E j \in 1 .. Len(Names[k]) : Names[k][j] = n
        BY <3>6, Tables
      <3> HIDE DEF k
      <3>8. {Names[k][j] : j \in 1 .. Len(Names[k])} = Known(k)
        BY ONLY <3>7
      <3> QED BY ONLY <3>4, <3>5, <3>8
    <2>5. CASE EndClasses
      <3>1. loading.at = "classes" /\ loading.i > Len(Names[loading.module]) /\ loading' = AtRest
        BY <2>5 DEF EndClasses
      <3>2. Touched' = {}
        BY <3>1 DEF Touched, Filling, AtRest
      <3>3. loading.i .. Len(Names[loading.module]) = {}
        <4>1. loading.module \in Module
          BY <3>1, FillingModule
        <4>2. Len(Names[loading.module]) \in Nat /\ loading.i \in Nat
          BY <4>1, Tables, LoadingTyped
        <4> QED BY <3>1, <4>2
      <3>4. Touched = {}
        BY <3>1, <3>3 DEF Touched, Filling
      <3> QED BY <3>2, <3>4
    <2> QED BY <2>1, <2>2, <2>3, <2>4, <2>5
  <1>3. ASSUME NEW t \in Type, t \notin Touched'
        PROVE  Shared(table', t)
    BY <1>1, <1>2, <1>3 DEF ClassesInv
  <1> QED BY <1>3 DEF ClassesInv

\* SWIG_TypeClientData(): the type and those that the recursion comes to share the class.
LEMMA ClassesInvNextClass ==
    ASSUME ModulesInv, CastsInv, ClassesInv, NextClass
    PROVE  ClassesInv'
  <1> DEFINE m == loading.module
             type == typeOf[m][typeName]
             data == table.clientdata[type]
             all == Reached(table, type)
  <1>1. /\ loading.at = "classes" /\ loading.i <= Len(Names[m]) /\ typeOf' = typeOf
        /\ loading' = [loading EXCEPT !.i = @ + 1]
    BY DEF NextClass
  <1>2. /\ table'.of = table.of /\ \A t \in Type : Lists(table)'[t] = Lists(table)[t]
        /\ type \in Type
        /\ table'.clientdata = IF data = Zero THEN table.clientdata
                               ELSE [t \in Type |-> IF t \in all THEN data ELSE table.clientdata[t]]
    BY CastsInvNextClass
  <1>3. Touched \subseteq Touched' \cup {type}
    <2>1. loading'.at = "classes" /\ loading'.module = m /\ loading'.i = loading.i + 1
      BY <1>1, LoadingTyped
    <2>2. Len(Names[m]) \in Nat /\ loading.i \in Nat
      <3>1. m \in Module
        BY <1>1, FillingModule
      <3> QED BY <3>1, Tables, LoadingTyped
    <2>3. \A j \in loading.i .. Len(Names[m]) : j = loading.i \/ j \in loading.i + 1 .. Len(Names[m])
      BY <2>2
    <2>4. Touched = {typeOf[m][Names[m][j]] : j \in loading.i .. Len(Names[m])}
      BY <1>1 DEF Touched, Filling
    <2>5. Touched' = {typeOf[m][Names[m][j]] : j \in loading.i + 1 .. Len(Names[m])}
      BY <1>1, <2>1 DEF Touched, Filling
    <2> QED BY <2>3, <2>4, <2>5 DEF typeName
  <1> HIDE DEF type, all
  <1>4. HeapTyped(table) /\ \A t \in Type : Same(table, t) \subseteq Type
    BY SameTypes DEF CastsInv
  <1>5. /\ type \in all /\ all \subseteq Type
        /\ \A t \in all : \A s \in Same(table, t) : table.clientdata[s] = Zero => s \in all
    BY <1>2, <1>4, ReachedIs DEF all
  <1> HIDE DEF data
  <1>6. ASSUME NEW t \in Type, t \notin Touched'
        PROVE  Shared(table', t)
    <2>1. Same(table', t) = Same(table, t)
      BY <1>2, StaysShared
    <2>2. CASE data = Zero
      <3>1. table'.clientdata = table.clientdata
        BY <1>2, <2>2
      <3>2. table.clientdata[type] = Zero
        BY <2>2 DEF data
      <3>3. Shared(table, t)
        BY <1>3, <1>6, <3>2 DEF ClassesInv, Shared
      <3> QED BY <2>1, <3>1, <3>3 DEF Shared
    <2>3. CASE data # Zero
      <3>1. \A s \in Type : table'.clientdata[s] = IF s \in all THEN data ELSE table.clientdata[s]
        BY <1>2, <2>3
      <3>2. \A s \in Type : table.clientdata[s] # Zero => table'.clientdata[s] # Zero
        BY <2>3, <3>1
      <3>3. CASE t \in all
        BY <1>4, <1>5, <2>1, <2>3, <3>1, <3>2, <3>3 DEF Shared
      <3>4. CASE t \notin all
        <4>1. Shared(table, t)
          BY <1>3, <1>5, <1>6, <3>4 DEF ClassesInv
        <4>2. table'.clientdata[t] = table.clientdata[t]
          BY <3>1, <3>4
        <4> QED BY <1>2, <3>2, <4>1, <4>2, StaysShared
      <3> QED BY <3>3, <3>4
    <2> QED BY <2>2, <2>3
  <1> QED BY <1>6 DEF ClassesInv

LEMMA ClassesInvConvert ==
    ASSUME ModulesInv, CastsInv, ClassesInv, NEW from \in InUse, NEW type \in InUse,
           ConvertPtr(from, type) \/ ConvertPtrByName(from[2], type)
    PROVE  ClassesInv'
  <1>1. Touched' = Touched
    <2>1. typeOf' = typeOf /\ loading' = loading
      BY DEF ConvertPtr, ConvertPtrByName
    <2> QED BY ONLY <2>1 DEF Touched, Filled, Filling
  <1>2. /\ table'.clientdata = table.clientdata /\ table'.of = table.of
        /\ \A t \in Type : ToSet(Lists(table)'[t]) = ToSet(Lists(table)[t])
    BY CastsInvConvert
  <1>3. ASSUME NEW t \in Type, t \notin Touched'
        PROVE  Shared(table', t)
    BY <1>1, <1>2, <1>3, StaysShared DEF ClassesInv
  <1> QED BY <1>3 DEF ClassesInv

\* swiginit.swg:208: once a module is loaded, every type that converts to a class without
\* a converter has a class, whichever of the modules brought the type, the class and the cast.
THEOREM ClassesAreSharedForOne ==
    ASSUME OneInterpreter
    PROVE  TypesSpec => []ClassesAreShared
  <1> DEFINE Inv == ModulesInv /\ CastsInv /\ ClassesInv
  <1>1. Inv => ClassesAreShared
    <2>1. SUFFICES ASSUME ModulesInv, ClassesInv, loading = AtRest, NEW t \in InUse, table.clientdata[t] # Zero
                   PROVE  \A s \in Same(table, t) : table.clientdata[s] # Zero
      BY DEF ClassesAreShared
    <2>2. t \in Type \ Touched
      BY <2>1, InUseTypes, AtRestTouched
    <2> QED BY <2>1, <2>2 DEF ClassesInv, Shared
  <1>2. TypesInit => Inv
    BY ModulesInvInit, CastsInvInit, ClassesInvInit
  <1>3. Inv /\ [TypesNext]_typesVars => Inv'
    <2>1. SUFFICES ASSUME Inv, [TypesNext]_typesVars
                   PROVE  ClassesInv'
      BY ModulesInvNext, CastsInvNext
    <2>2. PICK i \in Interp : TRUE
      BY DEF OneInterpreter
    <2>3. ASSUME NEW m \in Module, UNCHANGED typesVars
          PROVE  ClassesInv'
      BY <2>1, <2>2, <2>3, ClassesInvOther
    <2>4. CASE UNCHANGED typesVars
      <3>1. CASE Module = {}
        <4>1. Type = {}
          BY <3>1 DEF Type
        <4> QED BY <4>1 DEF ClassesInv
      <3> QED BY <2>3, <2>4, <3>1
    <2>5. ASSUME NEW j \in Interp, NEW m \in Module, SWIG_init(j, m)
          PROVE  ClassesInv'
      BY <2>1, <2>5, ClassesInvOther
    <2>6. CASE EndCasts \/ EndTypes \/ EndClasses
      <3>1. loading.module \in Module
        BY <2>1, <2>6, FillingModule DEF EndCasts, EndTypes, EndClasses
      <3> QED BY <2>1, <2>2, <2>6, <3>1, ClassesInvOther
    <2>7. CASE NextType
      BY <2>1, <2>7, ClassesInvNextType
    <2>8. CASE NextCast
      BY <2>1, <2>8, ClassesInvNextCast
    <2>9. CASE NextClass
      BY <2>1, <2>9, ClassesInvNextClass
    <2>10. ASSUME NEW from \in InUse, NEW type \in InUse,
                  ConvertPtr(from, type) \/ ConvertPtrByName(from[2], type)
           PROVE  ClassesInv'
      BY <2>1, <2>10, ClassesInvConvert
    <2> QED BY <2>1, <2>4, <2>5, <2>6, <2>7, <2>8, <2>9, <2>10 DEF TypesNext
  <1> HIDE DEF Inv
  <1> QED BY <1>1, <1>2, <1>3, PTL DEF TypesSpec

=============================================================================
