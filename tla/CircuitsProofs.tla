---------------------------- MODULE CircuitsProofs ----------------------------
(***************************************************************************)
(* What holds of the assembly of circuits for every manifest: the two      *)
(* validators agree, and the matrix that compose computes is where light   *)
(* goes.  Both are about loops over lists, so the folds of the model are   *)
(* turned into sequences of accumulators first, by induction on a set of   *)
(* numbers.  Then the validators are compared connection by connection,    *)
(* the slices of the system matrix are related to the endpoints, and the   *)
(* solutions of the linear system to the paths of the light: a long path   *)
(* has a ring in it, a ring is a solution to be added or left out, and     *)
(* two solutions differ along a path that goes back for ever.              *)
(***************************************************************************)
EXTENDS Circuits, SequenceTheorems, FiniteSetTheorems, WellFoundedInduction, TLAPS

-----------------------------------------------------------------------------
(* Recursion.  The induction theorems of the library take an operator;     *)
(* these take a set, and what is defined by recursion here takes what its  *)
(* step depends on from a function.                                        *)

LEMMA Inductive ==
  ASSUME NEW S, 0 \in S, \A n \in Nat : n \in S => n + 1 \in S
  PROVE  \A n \in Nat : n \in S
<1> DEFINE R == {pair \in Nat \X Nat : pair[1] < pair[2]}
           others == Nat \ S
<1>1. IsWellFoundedOn(R, Nat)
  BY NatLessThanWellFounded DEF OpToRel
<1>2. \A m, n \in Nat : n < m => <<n, m>> \in R
  <2> TAKE m \in Nat, n \in Nat
  <2> HAVE n < m
  <2>1. <<n, m>> \in Nat \X Nat /\ <<n, m>>[1] = n /\ <<n, m>>[2] = m
    OBVIOUS
  <2> QED
    BY <2>1
<1> SUFFICES ASSUME others # {} PROVE FALSE
  OBVIOUS
<1>3. PICK m \in others : \A n \in others : ~(<<n, m>> \in R)
  <2> HIDE DEF R, others
  <2>1. others \subseteq Nat
    BY DEF others
  <2> QED
    BY <1>1, <2>1, WFMin
<1>4. m \in Nat /\ m # 0 /\ m \notin S
  OBVIOUS
<1>5. m - 1 \in Nat /\ m - 1 < m /\ (m - 1) + 1 = m
  BY <1>4
<1>6. m - 1 \in S
  <2> HIDE DEF R
  <2> QED  BY <1>2, <1>3, <1>4, <1>5
<1> QED
  BY <1>4, <1>5, <1>6

\* Every set of numbers up to n has a greatest one.
LEMMA Greatest ==
  ASSUME NEW n \in Nat, NEW t \in SUBSET (1 .. n), t # {}
  PROVE  Max(t) \in t /\ \A y \in t : Max(t) >= y
<1> DEFINE S == {k \in Nat : \A u \in SUBSET (1 .. k) : u # {} => \E x \in u : \A y \in u : x >= y}
<1>1. 0 \in S
  <2>1. \A u \in SUBSET (1 .. 0) : u = {}
    OBVIOUS
  <2> QED
    BY <2>1
<1>2. ASSUME NEW k \in Nat, k \in S
      PROVE  k + 1 \in S
  <2> SUFFICES ASSUME NEW u \in SUBSET (1 .. k + 1), u # {}
               PROVE  \E x \in u : \A y \in u : x >= y
    OBVIOUS
  <2>1. CASE k + 1 \in u
    BY <2>1
  <2>2. CASE k + 1 \notin u
    <3>1. u \in SUBSET (1 .. k)
      BY <2>2
    <3> QED
      BY <1>2, <3>1
  <2> QED
    BY <2>1, <2>2
<1>3. n \in S
  <2> HIDE DEF S
  <2> QED  BY <1>1, <1>2, Inductive
<1>4. \E x \in t : \A y \in t : x >= y
  BY <1>3
<1> QED
  BY <1>4, Zenon DEF Max

LEMMA MaxOfPrefix ==
  ASSUME NEW k \in Nat \ {0}
  PROVE  Max(1 .. k) = k /\ (1 .. k) \ {Max(1 .. k)} = 1 .. k - 1
<1>1. 1 .. k # {} /\ k \in 1 .. k /\ \A y \in 1 .. k : y <= k /\ y \in Int
  OBVIOUS
<1>2. Max(1 .. k) \in 1 .. k /\ \A y \in 1 .. k : Max(1 .. k) >= y
  BY <1>1, Greatest
<1>3. Max(1 .. k) = k
  BY <1>1, <1>2
<1> QED
  BY <1>3

\* C chooses what is taken from a set, G is the step of a recursion over sets.
Foldable(n, C, V, base, G) ==
  /\ n \in Nat /\ base \in V /\ G \in [V \X (1 .. n) -> V]
  /\ \A t \in SUBSET (1 .. n) : t # {} => C[t] \in t

FoldOf(n, C, base, G, h) ==
  \A t \in SUBSET (1 .. n) :
    h[t] = IF t = {} THEN base ELSE G[<<h[t \ {C[t]}], C[t]>>]

\* A function defined by recursion over the subsets of 1 .. n exists.
LEMMA FoldExists ==
  ASSUME NEW n, NEW C, NEW V, NEW base, NEW G, Foldable(n, C, V, base, G)
  PROVE  \E h \in [SUBSET (1 .. n) -> V] : FoldOf(n, C, base, G, h)
<1> DEFINE Small(k) == {t \in SUBSET (1 .. n) : Cardinality(t) <= k}
           step(h, t) == IF t = {} THEN base ELSE G[<<h[t \ {C[t]}], C[t]>>]
           S == {k \in Nat : \E h \in [Small(k) -> V] : \A t \in Small(k) : h[t] = step(h, t)}
<1> n \in Nat /\ base \in V /\ G \in [V \X (1 .. n) -> V]
  BY DEF Foldable
<1>0. \A t \in SUBSET (1 .. n) : t # {} => C[t] \in t
  BY DEF Foldable
<1>1. \A t \in SUBSET (1 .. n) : IsFiniteSet(t) /\ Cardinality(t) \in Nat /\ Cardinality(t) <= n
  <2> TAKE t \in SUBSET (1 .. n)
  <2>1. IsFiniteSet(1 .. n) /\ Cardinality(1 .. n) = n
    BY FS_Interval
  <2>2. IsFiniteSet(t) /\ Cardinality(t) <= Cardinality(1 .. n)
    BY <2>1, FS_Subset
  <2> QED
    BY <2>1, <2>2, FS_CardinalityType
<1>2. \A t \in SUBSET (1 .. n) : t # {} =>
        /\ t \ {C[t]} \in SUBSET (1 .. n) /\ C[t] \in 1 .. n
        /\ Cardinality(t \ {C[t]}) = Cardinality(t) - 1
  BY <1>0, <1>1, FS_RemoveElement
<1>3. 0 \in S
  <2>1. \A t \in Small(0) : t = {}
    BY <1>1, FS_EmptySet
  <2>2. [t \in Small(0) |-> base] \in [Small(0) -> V]
    OBVIOUS
  <2> QED
    BY <2>1, <2>2
<1>4. ASSUME NEW k \in Nat, k \in S
      PROVE  k + 1 \in S
  <2>1. PICK h \in [Small(k) -> V] : \A t \in Small(k) : h[t] = step(h, t)
    BY <1>4
  <2> DEFINE g == [t \in Small(k + 1) |-> step(h, t)]
  <2>2. \A t \in Small(k + 1) : t # {} => t \ {C[t]} \in Small(k)
    BY <1>1, <1>2
  <2>3. g \in [Small(k + 1) -> V]
    BY <1>2, <2>2
  <2>4. \A t \in Small(k) : t \in Small(k + 1) /\ g[t] = h[t]
    <3>1. \A t \in Small(k) : t \in Small(k + 1)
      BY <1>1
    <3> QED
      BY <2>1, <3>1
  <2>5. \A t \in Small(k + 1) : g[t] = step(g, t)
    <3> TAKE t \in Small(k + 1)
    <3>1. CASE t = {}
      BY <3>1
    <3>2. CASE t # {}
      <4>1. g[t \ {C[t]}] = h[t \ {C[t]}]
        BY <2>2, <2>4, <3>2
      <4> QED
        BY <3>2, <4>1
    <3> QED
      BY <3>1, <3>2
  <2>6. \E f \in [Small(k + 1) -> V] : \A t \in Small(k + 1) : f[t] = step(f, t)
    <3> HIDE DEF g, Small, step
    <3> QED  BY <2>3, <2>5
  <2>7. k + 1 \in Nat
    OBVIOUS
  <2> QED
    <3> HIDE DEF Small, step
    <3> QED  BY <2>6, <2>7
<1>5. n \in S
  <2> HIDE DEF S
  <2> QED  BY <1>3, <1>4, Inductive
<1>6. Small(n) = SUBSET (1 .. n)
  BY <1>1
<1>7. PICK h \in [SUBSET (1 .. n) -> V] : \A t \in SUBSET (1 .. n) : h[t] = step(h, t)
  BY <1>5, <1>6
<1> QED
  BY <1>7 DEF FoldOf

\* The values of such a function at the prefixes, if the greatest is taken first.
Folded(n, V, base, G, it) ==
  /\ n \in Nat /\ base \in V /\ G \in [V \X (1 .. n) -> V]
  /\ it[{}] = base
  /\ \A t \in SUBSET (1 .. n) :
       t # {} /\ it[t \ {Max(t)}] \in V => it[t] = G[<<it[t \ {Max(t)}], Max(t)>>]

LEMMA Trajectory ==
  ASSUME NEW n, NEW V, NEW base, NEW G, NEW it, Folded(n, V, base, G, it)
  PROVE  \E h \in [0 .. n -> V] :
           /\ h[0] = base /\ h[n] = it[1 .. n]
           /\ \A k \in 1 .. n : h[k] = G[<<h[k - 1], k>>]
<1> DEFINE h == [k \in 0 .. n |-> it[1 .. k]]
           S == {k \in Nat : k <= n => it[1 .. k] \in V}
<1> n \in Nat /\ base \in V /\ G \in [V \X (1 .. n) -> V] /\ it[{}] = base
  BY DEF Folded
<1>0. \A t \in SUBSET (1 .. n) :
        t # {} /\ it[t \ {Max(t)}] \in V => it[t] = G[<<it[t \ {Max(t)}], Max(t)>>]
  BY DEF Folded
<1>1. \A k \in 0 .. n : 1 .. k \in SUBSET (1 .. n)
  OBVIOUS
<1>2. h[0] = base /\ h[n] = it[1 .. n] /\ it[1 .. 0] = base
  <2>1. 1 .. 0 = {} /\ 0 \in 0 .. n /\ n \in 0 .. n /\ 1 .. 0 \in SUBSET (1 .. n)
    OBVIOUS
  <2> QED
    BY <2>1
<1>3. ASSUME NEW k \in 1 .. n, it[1 .. k - 1] \in V
      PROVE  it[1 .. k] = G[<<it[1 .. k - 1], k>>] /\ it[1 .. k] \in V
  <2>1. 1 .. k # {} /\ k \in Nat \ {0} /\ 1 .. k \in SUBSET (1 .. n)
    OBVIOUS
  <2>2. Max(1 .. k) = k /\ (1 .. k) \ {Max(1 .. k)} = 1 .. k - 1
    BY <2>1, MaxOfPrefix
  <2>3. it[1 .. k] = G[<<it[1 .. k - 1], k>>]
    BY <1>0, <1>3, <2>1, <2>2
  <2>4. <<it[1 .. k - 1], k>> \in V \X (1 .. n)
    BY <1>3
  <2> QED
    BY <2>3, <2>4
<1>4. 0 \in S
  BY <1>2
<1>5. ASSUME NEW k \in Nat, k \in S
      PROVE  k + 1 \in S
  <2>1. k + 1 \in Nat /\ (k + 1 <= n => k + 1 \in 1 .. n /\ (k + 1) - 1 = k /\ k <= n)
    OBVIOUS
  <2>2. k + 1 <= n => it[1 .. k + 1] \in V
    <3> SUFFICES ASSUME k + 1 <= n PROVE it[1 .. k + 1] \in V
      OBVIOUS
    <3>1. it[1 .. (k + 1) - 1] \in V
      BY <1>5, <2>1
    <3> QED
      BY <1>3, <2>1, <3>1
  <2> QED
    BY <2>1, <2>2
<1>6. \A k \in 0 .. n : it[1 .. k] \in V
  <2>1. \A k \in Nat : k \in S
    <3> HIDE DEF S
    <3> QED  BY <1>4, <1>5, Inductive
  <2> QED
    BY <2>1
<1>7. \A k \in 1 .. n : h[k] = G[<<h[k - 1], k>>]
  <2> TAKE k \in 1 .. n
  <2>1. k - 1 \in 0 .. n /\ k \in 0 .. n
    OBVIOUS
  <2>2. it[1 .. k] = G[<<it[1 .. k - 1], k>>]
    BY <1>3, <1>6, <2>1
  <2> QED
    BY <2>1, <2>2
<1>8. h \in [0 .. n -> V]
  BY <1>6
<1> QED
  <2> HIDE DEF h
  <2> QED  BY <1>2, <1>7, <1>8

-----------------------------------------------------------------------------
(* The folds of the validators, as sequences of accumulators.              *)

Account == [used : SUBSET Names, valid : BOOLEAN]
Lists == Seq(Names \X Names)

LEMMA AccountFacts ==
  /\ NoneUsed \in Account
  /\ \A acc \in Account, e \in Names : Use(acc, e) \in Account
  /\ \A acc \in Account, b \in BOOLEAN : [acc EXCEPT !.valid = b] \in Account
  /\ \A acc \in Account, e \in Names : [acc EXCEPT !.used = @ \cup {e}] \in Account
  /\ \A acc \in Account : acc.valid \in BOOLEAN
<1>1. \A acc \in Account, e \in Names : Use(acc, e) \in Account
  BY DEF Account, Use
<1> QED
  BY <1>1 DEF Account, NoneUsed

LEMMA ConnectFold ==
  ASSUME NEW s \in Lists
  PROVE  \E h \in [0 .. Len(s) -> Account] :
           /\ h[0] = NoneUsed /\ h[Len(s)] = FoldLeft(Connect, NoneUsed, s)
           /\ \A k \in 1 .. Len(s) : h[k] = Connect(h[k - 1], s[k])
<1> DEFINE n == Len(s)
           G == [p \in Account \X (1 .. n) |-> Connect(p[1], s[p[2]])]
           C == [t \in SUBSET (1 .. n) |-> Max(t)]
           Steps(g) == g = [t \in SUBSET (1 .. n) |->
                              IF t = {} THEN NoneUsed ELSE Connect(g[t \ {Max(t)}], s[Max(t)])]
           it == CHOOSE g : Steps(g)
<1>1. n \in Nat /\ DOMAIN s = 1 .. n /\ \A k \in 1 .. n : s[k] \in (Names \X Names)
  BY DEF Lists
<1>2. NoneUsed \in Account
  BY AccountFacts
<1>3. \A acc \in Account, c \in (Names \X Names) : Connect(acc, c) \in Account
  BY AccountFacts DEF Connect
<1>4. G \in [Account \X (1 .. n) -> Account]
  BY <1>1, <1>3
<1>5. \A t \in SUBSET (1 .. n) : t # {} => C[t] \in t /\ C[t] = Max(t)
  BY <1>1, Greatest
<1>6. \E g : Steps(g)
  <2>1. Foldable(n, C, Account, NoneUsed, G)
    BY <1>1, <1>2, <1>4, <1>5 DEF Foldable
  <2>2. PICK g \in [SUBSET (1 .. n) -> Account] : FoldOf(n, C, NoneUsed, G, g)
    <3> HIDE DEF n, G, C
    <3> QED  BY <2>1, FoldExists
  <2>3. ASSUME NEW t \in SUBSET (1 .. n)
        PROVE  g[t] = IF t = {} THEN NoneUsed ELSE Connect(g[t \ {Max(t)}], s[Max(t)])
    <3> HIDE DEF n, C
    <3>1. CASE t # {}
      <4>1. <<g[t \ {C[t]}], C[t]>> \in Account \X (1 .. n)
        BY <1>5, <2>2, <3>1
      <4>2. g[t] = G[<<g[t \ {C[t]}], C[t]>>]
        <5> HIDE DEF G
        <5> QED  BY <2>2, <3>1 DEF FoldOf
      <4> QED
        BY <1>5, <3>1, <4>1, <4>2
    <3>2. CASE t = {}
      BY <2>2, <3>2 DEF FoldOf
    <3> QED
      BY <3>1, <3>2
  <2> QED
    BY <2>2, <2>3
<1>7. Steps(it)
  BY <1>6
<1>8. FoldLeft(Connect, NoneUsed, s) = it[1 .. n]
  BY <1>1 DEF FoldLeft, MapThenFoldSet
<1>9. it[{}] = NoneUsed
  BY <1>7
<1>10. \A t \in SUBSET (1 .. n) :
         t # {} /\ it[t \ {Max(t)}] \in Account => it[t] = G[<<it[t \ {Max(t)}], Max(t)>>]
  <2> TAKE t \in SUBSET (1 .. n)
  <2> HAVE t # {} /\ it[t \ {Max(t)}] \in Account
  <2> HIDE DEF it, n
  <2>1. Max(t) \in 1 .. n
    BY <1>1, <1>5
  <2> QED
    BY <1>7, <2>1
<1>11. \E h \in [0 .. n -> Account] :
         /\ h[0] = NoneUsed /\ h[n] = it[1 .. n]
         /\ \A k \in 1 .. n : h[k] = G[<<h[k - 1], k>>]
  <2>1. Folded(n, Account, NoneUsed, G, it)
    <3> HIDE DEF it, n, G
    <3> QED  BY <1>1, <1>2, <1>4, <1>9, <1>10 DEF Folded
  <2> HIDE DEF it, n, G
  <2> QED  BY <2>1, Trajectory
<1>12. ASSUME NEW h \in [0 .. n -> Account], NEW k \in 1 .. n
       PROVE  G[<<h[k - 1], k>>] = Connect(h[k - 1], s[k])
  <2>1. <<h[k - 1], k>> \in Account \X (1 .. n)
    <3>1. k - 1 \in 0 .. n
      BY <1>1
    <3> HIDE DEF n
    <3> QED  BY <3>1
  <2> QED
    BY <2>1
<1> QED
  <2> HIDE DEF it, G
  <2>1. PICK h \in [0 .. n -> Account] :
          /\ h[0] = NoneUsed /\ h[n] = it[1 .. n]
          /\ \A k \in 1 .. n : h[k] = G[<<h[k - 1], k>>]
    BY <1>11
  <2>2. \A k \in 1 .. n : h[k] = Connect(h[k - 1], s[k])
    BY <1>12, <2>1
  <2> QED
    BY <1>8, <2>1, <2>2

LEMMA JoinFold ==
  ASSUME NEW s \in Lists
  PROVE  \E h \in [0 .. Len(s) -> Account] :
           /\ h[0] = NoneUsed /\ h[Len(s)] = FoldLeft(Join, NoneUsed, s)
           /\ \A k \in 1 .. Len(s) : h[k] = Join(h[k - 1], s[k])
<1> DEFINE n == Len(s)
           G == [p \in Account \X (1 .. n) |-> Join(p[1], s[p[2]])]
           C == [t \in SUBSET (1 .. n) |-> Max(t)]
           Steps(g) == g = [t \in SUBSET (1 .. n) |->
                              IF t = {} THEN NoneUsed ELSE Join(g[t \ {Max(t)}], s[Max(t)])]
           it == CHOOSE g : Steps(g)
<1>1. n \in Nat /\ DOMAIN s = 1 .. n /\ \A k \in 1 .. n : s[k] \in (Names \X Names)
  BY DEF Lists
<1>2. NoneUsed \in Account
  BY AccountFacts
<1>3. \A acc \in Account, c \in (Names \X Names) : Join(acc, c) \in Account
  <2>1. \A acc \in Account, e \in Names : Occupy(acc, e) \in Account
    BY AccountFacts DEF Occupy
  <2> QED
    BY <2>1, AccountFacts DEF Join
<1>4. G \in [Account \X (1 .. n) -> Account]
  BY <1>1, <1>3
<1>5. \A t \in SUBSET (1 .. n) : t # {} => C[t] \in t /\ C[t] = Max(t)
  BY <1>1, Greatest
<1>6. \E g : Steps(g)
  <2>1. Foldable(n, C, Account, NoneUsed, G)
    BY <1>1, <1>2, <1>4, <1>5 DEF Foldable
  <2>2. PICK g \in [SUBSET (1 .. n) -> Account] : FoldOf(n, C, NoneUsed, G, g)
    <3> HIDE DEF n, G, C
    <3> QED  BY <2>1, FoldExists
  <2>3. ASSUME NEW t \in SUBSET (1 .. n)
        PROVE  g[t] = IF t = {} THEN NoneUsed ELSE Join(g[t \ {Max(t)}], s[Max(t)])
    <3> HIDE DEF n, C
    <3>1. CASE t # {}
      <4>1. <<g[t \ {C[t]}], C[t]>> \in Account \X (1 .. n)
        BY <1>5, <2>2, <3>1
      <4>2. g[t] = G[<<g[t \ {C[t]}], C[t]>>]
        <5> HIDE DEF G
        <5> QED  BY <2>2, <3>1 DEF FoldOf
      <4> QED
        BY <1>5, <3>1, <4>1, <4>2
    <3>2. CASE t = {}
      BY <2>2, <3>2 DEF FoldOf
    <3> QED
      BY <3>1, <3>2
  <2> QED
    BY <2>2, <2>3
<1>7. Steps(it)
  BY <1>6
<1>8. FoldLeft(Join, NoneUsed, s) = it[1 .. n]
  BY <1>1 DEF FoldLeft, MapThenFoldSet
<1>9. it[{}] = NoneUsed
  BY <1>7
<1>10. \A t \in SUBSET (1 .. n) :
         t # {} /\ it[t \ {Max(t)}] \in Account => it[t] = G[<<it[t \ {Max(t)}], Max(t)>>]
  <2> TAKE t \in SUBSET (1 .. n)
  <2> HAVE t # {} /\ it[t \ {Max(t)}] \in Account
  <2> HIDE DEF it, n
  <2>1. Max(t) \in 1 .. n
    BY <1>1, <1>5
  <2> QED
    BY <1>7, <2>1
<1>11. \E h \in [0 .. n -> Account] :
         /\ h[0] = NoneUsed /\ h[n] = it[1 .. n]
         /\ \A k \in 1 .. n : h[k] = G[<<h[k - 1], k>>]
  <2>1. Folded(n, Account, NoneUsed, G, it)
    <3> HIDE DEF it, n, G
    <3> QED  BY <1>1, <1>2, <1>4, <1>9, <1>10 DEF Folded
  <2> HIDE DEF it, n, G
  <2> QED  BY <2>1, Trajectory
<1>12. ASSUME NEW h \in [0 .. n -> Account], NEW k \in 1 .. n
       PROVE  G[<<h[k - 1], k>>] = Join(h[k - 1], s[k])
  <2>1. <<h[k - 1], k>> \in Account \X (1 .. n)
    <3>1. k - 1 \in 0 .. n
      BY <1>1
    <3> HIDE DEF n
    <3> QED  BY <3>1
  <2> QED
    BY <2>1
<1> QED
  <2> HIDE DEF it, G
  <2>1. PICK h \in [0 .. n -> Account] :
          /\ h[0] = NoneUsed /\ h[n] = it[1 .. n]
          /\ \A k \in 1 .. n : h[k] = G[<<h[k - 1], k>>]
    BY <1>11
  <2>2. \A k \in 1 .. n : h[k] = Join(h[k - 1], s[k])
    BY <1>12, <2>1
  <2> QED
    BY <1>8, <2>1, <2>2

LEMMA ExposeFold ==
  ASSUME NEW s \in Seq(Names), NEW base \in Account
  PROVE  \E h \in [0 .. Len(s) -> Account] :
           /\ h[0] = base /\ h[Len(s)] = FoldLeft(Expose, base, s)
           /\ \A k \in 1 .. Len(s) : h[k] = Expose(h[k - 1], s[k])
<1> DEFINE n == Len(s)
           G == [p \in Account \X (1 .. n) |-> Expose(p[1], s[p[2]])]
           C == [t \in SUBSET (1 .. n) |-> Max(t)]
           Steps(g) == g = [t \in SUBSET (1 .. n) |->
                              IF t = {} THEN base ELSE Expose(g[t \ {Max(t)}], s[Max(t)])]
           it == CHOOSE g : Steps(g)
<1>1. n \in Nat /\ DOMAIN s = 1 .. n /\ \A k \in 1 .. n : s[k] \in Names
  OBVIOUS
<1>2. base \in Account
  OBVIOUS
<1>3. \A acc \in Account, c \in Names : Expose(acc, c) \in Account
  BY AccountFacts DEF Expose
<1>4. G \in [Account \X (1 .. n) -> Account]
  BY <1>1, <1>3
<1>5. \A t \in SUBSET (1 .. n) : t # {} => C[t] \in t /\ C[t] = Max(t)
  BY <1>1, Greatest
<1>6. \E g : Steps(g)
  <2>1. Foldable(n, C, Account, base, G)
    BY <1>1, <1>2, <1>4, <1>5 DEF Foldable
  <2>2. PICK g \in [SUBSET (1 .. n) -> Account] : FoldOf(n, C, base, G, g)
    <3> HIDE DEF n, G, C
    <3> QED  BY <2>1, FoldExists
  <2>3. ASSUME NEW t \in SUBSET (1 .. n)
        PROVE  g[t] = IF t = {} THEN base ELSE Expose(g[t \ {Max(t)}], s[Max(t)])
    <3> HIDE DEF n, C
    <3>1. CASE t # {}
      <4>1. <<g[t \ {C[t]}], C[t]>> \in Account \X (1 .. n)
        BY <1>5, <2>2, <3>1
      <4>2. g[t] = G[<<g[t \ {C[t]}], C[t]>>]
        <5> HIDE DEF G
        <5> QED  BY <2>2, <3>1 DEF FoldOf
      <4> QED
        BY <1>5, <3>1, <4>1, <4>2
    <3>2. CASE t = {}
      BY <2>2, <3>2 DEF FoldOf
    <3> QED
      BY <3>1, <3>2
  <2> QED
    BY <2>2, <2>3
<1>7. Steps(it)
  BY <1>6
<1>8. FoldLeft(Expose, base, s) = it[1 .. n]
  BY <1>1 DEF FoldLeft, MapThenFoldSet
<1>9. it[{}] = base
  BY <1>7
<1>10. \A t \in SUBSET (1 .. n) :
         t # {} /\ it[t \ {Max(t)}] \in Account => it[t] = G[<<it[t \ {Max(t)}], Max(t)>>]
  <2> TAKE t \in SUBSET (1 .. n)
  <2> HAVE t # {} /\ it[t \ {Max(t)}] \in Account
  <2> HIDE DEF it, n
  <2>1. Max(t) \in 1 .. n
    BY <1>1, <1>5
  <2> QED
    BY <1>7, <2>1
<1>11. \E h \in [0 .. n -> Account] :
         /\ h[0] = base /\ h[n] = it[1 .. n]
         /\ \A k \in 1 .. n : h[k] = G[<<h[k - 1], k>>]
  <2>1. Folded(n, Account, base, G, it)
    <3> HIDE DEF it, n, G
    <3> QED  BY <1>1, <1>2, <1>4, <1>9, <1>10 DEF Folded
  <2> HIDE DEF it, n, G
  <2> QED  BY <2>1, Trajectory
<1>12. ASSUME NEW h \in [0 .. n -> Account], NEW k \in 1 .. n
       PROVE  G[<<h[k - 1], k>>] = Expose(h[k - 1], s[k])
  <2>1. <<h[k - 1], k>> \in Account \X (1 .. n)
    <3>1. k - 1 \in 0 .. n
      BY <1>1
    <3> HIDE DEF n
    <3> QED  BY <3>1
  <2> QED
    BY <2>1
<1> QED
  <2> HIDE DEF it, G
  <2>1. PICK h \in [0 .. n -> Account] :
          /\ h[0] = base /\ h[n] = it[1 .. n]
          /\ \A k \in 1 .. n : h[k] = G[<<h[k - 1], k>>]
    BY <1>11
  <2>2. \A k \in 1 .. n : h[k] = Expose(h[k - 1], s[k])
    BY <1>12, <2>1
  <2> QED
    BY <1>8, <2>1, <2>2

LEMMA OccupyFold ==
  ASSUME NEW s \in Seq(Names), NEW base \in Account
  PROVE  \E h \in [0 .. Len(s) -> Account] :
           /\ h[0] = base /\ h[Len(s)] = FoldLeft(Occupy, base, s)
           /\ \A k \in 1 .. Len(s) : h[k] = Occupy(h[k - 1], s[k])
<1> DEFINE n == Len(s)
           G == [p \in Account \X (1 .. n) |-> Occupy(p[1], s[p[2]])]
           C == [t \in SUBSET (1 .. n) |-> Max(t)]
           Steps(g) == g = [t \in SUBSET (1 .. n) |->
                              IF t = {} THEN base ELSE Occupy(g[t \ {Max(t)}], s[Max(t)])]
           it == CHOOSE g : Steps(g)
<1>1. n \in Nat /\ DOMAIN s = 1 .. n /\ \A k \in 1 .. n : s[k] \in Names
  OBVIOUS
<1>2. base \in Account
  OBVIOUS
<1>3. \A acc \in Account, c \in Names : Occupy(acc, c) \in Account
  BY AccountFacts DEF Occupy
<1>4. G \in [Account \X (1 .. n) -> Account]
  BY <1>1, <1>3
<1>5. \A t \in SUBSET (1 .. n) : t # {} => C[t] \in t /\ C[t] = Max(t)
  BY <1>1, Greatest
<1>6. \E g : Steps(g)
  <2>1. Foldable(n, C, Account, base, G)
    BY <1>1, <1>2, <1>4, <1>5 DEF Foldable
  <2>2. PICK g \in [SUBSET (1 .. n) -> Account] : FoldOf(n, C, base, G, g)
    <3> HIDE DEF n, G, C
    <3> QED  BY <2>1, FoldExists
  <2>3. ASSUME NEW t \in SUBSET (1 .. n)
        PROVE  g[t] = IF t = {} THEN base ELSE Occupy(g[t \ {Max(t)}], s[Max(t)])
    <3> HIDE DEF n, C
    <3>1. CASE t # {}
      <4>1. <<g[t \ {C[t]}], C[t]>> \in Account \X (1 .. n)
        BY <1>5, <2>2, <3>1
      <4>2. g[t] = G[<<g[t \ {C[t]}], C[t]>>]
        <5> HIDE DEF G
        <5> QED  BY <2>2, <3>1 DEF FoldOf
      <4> QED
        BY <1>5, <3>1, <4>1, <4>2
    <3>2. CASE t = {}
      BY <2>2, <3>2 DEF FoldOf
    <3> QED
      BY <3>1, <3>2
  <2> QED
    BY <2>2, <2>3
<1>7. Steps(it)
  BY <1>6
<1>8. FoldLeft(Occupy, base, s) = it[1 .. n]
  BY <1>1 DEF FoldLeft, MapThenFoldSet
<1>9. it[{}] = base
  BY <1>7
<1>10. \A t \in SUBSET (1 .. n) :
         t # {} /\ it[t \ {Max(t)}] \in Account => it[t] = G[<<it[t \ {Max(t)}], Max(t)>>]
  <2> TAKE t \in SUBSET (1 .. n)
  <2> HAVE t # {} /\ it[t \ {Max(t)}] \in Account
  <2> HIDE DEF it, n
  <2>1. Max(t) \in 1 .. n
    BY <1>1, <1>5
  <2> QED
    BY <1>7, <2>1
<1>11. \E h \in [0 .. n -> Account] :
         /\ h[0] = base /\ h[n] = it[1 .. n]
         /\ \A k \in 1 .. n : h[k] = G[<<h[k - 1], k>>]
  <2>1. Folded(n, Account, base, G, it)
    <3> HIDE DEF it, n, G
    <3> QED  BY <1>1, <1>2, <1>4, <1>9, <1>10 DEF Folded
  <2> HIDE DEF it, n, G
  <2> QED  BY <2>1, Trajectory
<1>12. ASSUME NEW h \in [0 .. n -> Account], NEW k \in 1 .. n
       PROVE  G[<<h[k - 1], k>>] = Occupy(h[k - 1], s[k])
  <2>1. <<h[k - 1], k>> \in Account \X (1 .. n)
    <3>1. k - 1 \in 0 .. n
      BY <1>1
    <3> HIDE DEF n
    <3> QED  BY <3>1
  <2> QED
    BY <2>1
<1> QED
  <2> HIDE DEF it, G
  <2>1. PICK h \in [0 .. n -> Account] :
          /\ h[0] = base /\ h[n] = it[1 .. n]
          /\ \A k \in 1 .. n : h[k] = G[<<h[k - 1], k>>]
    BY <1>11
  <2>2. \A k \in 1 .. n : h[k] = Occupy(h[k - 1], s[k])
    BY <1>12, <2>1
  <2> QED
    BY <1>8, <2>1, <2>2

\* The endpoints of the connections, and those of the instances, one after the other.
LEMMA PairIsSequence ==
  ASSUME NEW c \in Names \X Names
  PROVE  c \in Seq(Names) /\ Len(c) = 2 /\ c[1] \in Names /\ c[2] \in Names
<1>1. PICK a \in Names, b \in Names : c = <<a, b>>
  OBVIOUS
<1> QED
  BY <1>1

LEMMA FlattenFold ==
  ASSUME NEW s \in Lists
  PROVE  \E h \in [0 .. Len(s) -> Seq(Names)] :
           /\ h[0] = <<>> /\ h[Len(s)] = FoldLeft(LAMBDA a, c : a \o c, <<>>, s)
           /\ \A k \in 1 .. Len(s) : h[k] = (h[k - 1] \o s[k])
<1> DEFINE n == Len(s)
           G == [p \in Seq(Names) \X (1 .. n) |-> (p[1] \o s[p[2]])]
           C == [t \in SUBSET (1 .. n) |-> Max(t)]
           Steps(g) == g = [t \in SUBSET (1 .. n) |->
                              IF t = {} THEN <<>> ELSE (g[t \ {Max(t)}] \o s[Max(t)])]
           it == CHOOSE g : Steps(g)
<1>1. n \in Nat /\ DOMAIN s = 1 .. n /\ \A k \in 1 .. n : s[k] \in (Names \X Names)
  BY DEF Lists
<1>2. <<>> \in Seq(Names)
  OBVIOUS
<1>3. \A acc \in Seq(Names), c \in (Names \X Names) : (acc \o c) \in Seq(Names)
  BY PairIsSequence
<1>4. G \in [Seq(Names) \X (1 .. n) -> Seq(Names)]
  BY <1>1, <1>3
<1>5. \A t \in SUBSET (1 .. n) : t # {} => C[t] \in t /\ C[t] = Max(t)
  BY <1>1, Greatest
<1>6. \E g : Steps(g)
  <2>1. Foldable(n, C, Seq(Names), <<>>, G)
    BY <1>1, <1>2, <1>4, <1>5 DEF Foldable
  <2>2. PICK g \in [SUBSET (1 .. n) -> Seq(Names)] : FoldOf(n, C, <<>>, G, g)
    <3> HIDE DEF n, G, C
    <3> QED  BY <2>1, FoldExists
  <2>3. ASSUME NEW t \in SUBSET (1 .. n)
        PROVE  g[t] = IF t = {} THEN <<>> ELSE (g[t \ {Max(t)}] \o s[Max(t)])
    <3> HIDE DEF n, C
    <3>1. CASE t # {}
      <4>1. <<g[t \ {C[t]}], C[t]>> \in Seq(Names) \X (1 .. n)
        BY <1>5, <2>2, <3>1
      <4>2. g[t] = G[<<g[t \ {C[t]}], C[t]>>]
        <5> HIDE DEF G
        <5> QED  BY <2>2, <3>1 DEF FoldOf
      <4> QED
        BY <1>5, <3>1, <4>1, <4>2
    <3>2. CASE t = {}
      BY <2>2, <3>2 DEF FoldOf
    <3> QED
      BY <3>1, <3>2
  <2> QED
    BY <2>2, <2>3
<1>7. Steps(it)
  BY <1>6
<1>8. FoldLeft(LAMBDA a, c : a \o c, <<>>, s) = it[1 .. n]
  BY <1>1 DEF FoldLeft, MapThenFoldSet
<1>9. it[{}] = <<>>
  BY <1>7
<1>10. \A t \in SUBSET (1 .. n) :
         t # {} /\ it[t \ {Max(t)}] \in Seq(Names) => it[t] = G[<<it[t \ {Max(t)}], Max(t)>>]
  <2> TAKE t \in SUBSET (1 .. n)
  <2> HAVE t # {} /\ it[t \ {Max(t)}] \in Seq(Names)
  <2> HIDE DEF it, n
  <2>1. Max(t) \in 1 .. n
    BY <1>1, <1>5
  <2> QED
    BY <1>7, <2>1
<1>11. \E h \in [0 .. n -> Seq(Names)] :
         /\ h[0] = <<>> /\ h[n] = it[1 .. n]
         /\ \A k \in 1 .. n : h[k] = G[<<h[k - 1], k>>]
  <2>1. Folded(n, Seq(Names), <<>>, G, it)
    <3> HIDE DEF it, n, G
    <3> QED  BY <1>1, <1>2, <1>4, <1>9, <1>10 DEF Folded
  <2> HIDE DEF it, n, G
  <2> QED  BY <2>1, Trajectory
<1>12. ASSUME NEW h \in [0 .. n -> Seq(Names)], NEW k \in 1 .. n
       PROVE  G[<<h[k - 1], k>>] = (h[k - 1] \o s[k])
  <2>1. <<h[k - 1], k>> \in Seq(Names) \X (1 .. n)
    <3>1. k - 1 \in 0 .. n
      BY <1>1
    <3> HIDE DEF n
    <3> QED  BY <3>1
  <2> QED
    BY <2>1
<1> QED
  <2> HIDE DEF it, G
  <2>1. PICK h \in [0 .. n -> Seq(Names)] :
          /\ h[0] = <<>> /\ h[n] = it[1 .. n]
          /\ \A k \in 1 .. n : h[k] = G[<<h[k - 1], k>>]
    BY <1>11
  <2>2. \A k \in 1 .. n : h[k] = (h[k - 1] \o s[k])
    BY <1>12, <2>1
  <2> QED
    BY <1>8, <2>1, <2>2

PortList(i) == [k \in DOMAIN PortsOf(i) |-> <<i, PortsOf(i)[k]>>]

LEMMA PortListFacts ==
  ASSUME NEW i \in ToSet(Instances)
  PROVE  /\ PortList(i) \in Seq(Endpoints) /\ Len(PortList(i)) = Len(PortsOf(i))
         /\ Len(PortsOf(i)) \in Nat \ {0} /\ DOMAIN PortsOf(i) = 1 .. Len(PortsOf(i))
         /\ \A k \in 1 .. Len(PortsOf(i)) : PortList(i)[k] = <<i, PortsOf(i)[k]>>
         /\ \A j, k \in 1 .. Len(PortsOf(i)) : PortsOf(i)[j] = PortsOf(i)[k] => j = k
<1>1. PartOf[i] \in Parts
  BY DEF Parts
<1>2. PortsOf(i) \in Seq(ToSet(PortsOf(i))) /\ PortsOf(i) # <<>> /\ IsInjective(PortsOf(i))
  BY <1>1, CircuitAssumption DEF PortsOf
<1>3. DOMAIN PortsOf(i) = 1 .. Len(PortsOf(i)) /\ Len(PortsOf(i)) \in Nat \ {0}
  BY <1>2
<1>4. \A k \in 1 .. Len(PortsOf(i)) : <<i, PortsOf(i)[k]>> \in Endpoints
  BY <1>3 DEF Endpoints, ToSet
<1> QED
  BY <1>2, <1>3, <1>4 DEF PortList, IsInjective

LEMMA GlobalFold ==
  ASSUME NEW s, s = Instances
  PROVE  \E h \in [0 .. Len(s) -> Seq(Endpoints)] :
           /\ h[0] = <<>> /\ h[Len(s)] = Global
           /\ \A k \in 1 .. Len(s) : h[k] = (h[k - 1] \o PortList(s[k]))
<1> DEFINE n == Len(s)
           G == [p \in Seq(Endpoints) \X (1 .. n) |-> (p[1] \o PortList(s[p[2]]))]
           C == [t \in SUBSET (1 .. n) |-> Max(t)]
           Steps(g) == g = [t \in SUBSET (1 .. n) |->
                              IF t = {} THEN <<>> ELSE (g[t \ {Max(t)}] \o PortList(s[Max(t)]))]
           it == CHOOSE g : Steps(g)
<1>1. n \in Nat /\ DOMAIN s = 1 .. n /\ \A k \in 1 .. n : s[k] \in ToSet(Instances)
  BY CircuitAssumption DEF ToSet
<1>2. <<>> \in Seq(Endpoints)
  OBVIOUS
<1>3. \A acc \in Seq(Endpoints), c \in ToSet(Instances) : (acc \o PortList(c)) \in Seq(Endpoints)
  BY PortListFacts
<1>4. G \in [Seq(Endpoints) \X (1 .. n) -> Seq(Endpoints)]
  BY <1>1, <1>3
<1>5. \A t \in SUBSET (1 .. n) : t # {} => C[t] \in t /\ C[t] = Max(t)
  BY <1>1, Greatest
<1>6. \E g : Steps(g)
  <2>1. Foldable(n, C, Seq(Endpoints), <<>>, G)
    BY <1>1, <1>2, <1>4, <1>5 DEF Foldable
  <2>2. PICK g \in [SUBSET (1 .. n) -> Seq(Endpoints)] : FoldOf(n, C, <<>>, G, g)
    <3> HIDE DEF n, G, C
    <3> QED  BY <2>1, FoldExists
  <2>3. ASSUME NEW t \in SUBSET (1 .. n)
        PROVE  g[t] = IF t = {} THEN <<>> ELSE (g[t \ {Max(t)}] \o PortList(s[Max(t)]))
    <3> HIDE DEF n, C
    <3>1. CASE t # {}
      <4>1. <<g[t \ {C[t]}], C[t]>> \in Seq(Endpoints) \X (1 .. n)
        BY <1>5, <2>2, <3>1
      <4>2. g[t] = G[<<g[t \ {C[t]}], C[t]>>]
        <5> HIDE DEF G
        <5> QED  BY <2>2, <3>1 DEF FoldOf
      <4> QED
        BY <1>5, <3>1, <4>1, <4>2
    <3>2. CASE t = {}
      BY <2>2, <3>2 DEF FoldOf
    <3> QED
      BY <3>1, <3>2
  <2> QED
    BY <2>2, <2>3
<1>7. Steps(it)
  BY <1>6
<1>8. Global = it[1 .. n]
  BY <1>1 DEF FoldLeft, MapThenFoldSet, Global, PortList
<1>9. it[{}] = <<>>
  BY <1>7
<1>10. \A t \in SUBSET (1 .. n) :
         t # {} /\ it[t \ {Max(t)}] \in Seq(Endpoints) => it[t] = G[<<it[t \ {Max(t)}], Max(t)>>]
  <2> TAKE t \in SUBSET (1 .. n)
  <2> HAVE t # {} /\ it[t \ {Max(t)}] \in Seq(Endpoints)
  <2> HIDE DEF it, n
  <2>1. Max(t) \in 1 .. n
    BY <1>1, <1>5
  <2> QED
    BY <1>7, <2>1
<1>11. \E h \in [0 .. n -> Seq(Endpoints)] :
         /\ h[0] = <<>> /\ h[n] = it[1 .. n]
         /\ \A k \in 1 .. n : h[k] = G[<<h[k - 1], k>>]
  <2>1. Folded(n, Seq(Endpoints), <<>>, G, it)
    <3> HIDE DEF it, n, G
    <3> QED  BY <1>1, <1>2, <1>4, <1>9, <1>10 DEF Folded
  <2> HIDE DEF it, n, G
  <2> QED  BY <2>1, Trajectory
<1>12. ASSUME NEW h \in [0 .. n -> Seq(Endpoints)], NEW k \in 1 .. n
       PROVE  G[<<h[k - 1], k>>] = (h[k - 1] \o PortList(s[k]))
  <2>1. <<h[k - 1], k>> \in Seq(Endpoints) \X (1 .. n)
    <3>1. k - 1 \in 0 .. n
      BY <1>1
    <3> HIDE DEF n
    <3> QED  BY <3>1
  <2> QED
    BY <2>1
<1> QED
  <2> HIDE DEF it, G
  <2>1. PICK h \in [0 .. n -> Seq(Endpoints)] :
          /\ h[0] = <<>> /\ h[n] = it[1 .. n]
          /\ \A k \in 1 .. n : h[k] = G[<<h[k - 1], k>>]
    BY <1>11
  <2>2. \A k \in 1 .. n : h[k] = (h[k - 1] \o PortList(s[k]))
    BY <1>12, <2>1, ZenonT(60)
  <2> QED
    BY <1>8, <2>1, <2>2

-----------------------------------------------------------------------------
(* What one connection or external port does to an accumulator, in either  *)
(* validator, and what all of them together.                               *)

Known(c) == {c[1], c[2]} \subseteq Endpoints
Alike(c) == ModeOf[PartOf[c[1][1]]][c[1][2]] = ModeOf[PartOf[c[2][1]]][c[2][2]]

\* The endpoints that the first k connections name.
NamedBy(s, k) == UNION {{s[j][1], s[j][2]} : j \in 1 .. k}

LEMMA EndpointHasInstance ==
  ASSUME NEW e \in Endpoints
  PROVE  /\ e[1] \in ToSet(Instances) /\ e[2] \in ToSet(PortsOf(e[1])) /\ e = <<e[1], e[2]>>
         /\ e \in Names
BY DEF Endpoints, Names

LEMMA OccupyKnown ==
  ASSUME NEW acc \in Account, NEW e \in Endpoints
  PROVE  Occupy(acc, e) = Use(acc, e) /\ Use(acc, e) \in Account
<1>1. \E i \in ToSet(Instances) : e[1] = i
  BY EndpointHasInstance
<1>2. Use(acc, e) \in Account
  BY AccountFacts, EndpointHasInstance
<1> DEFINE b == Use(acc, e)
<1>3. b.valid \in BOOLEAN /\ b = [used |-> b.used, valid |-> b.valid]
  BY <1>2 DEF Account
<1>4. Occupy(acc, e) = [b EXCEPT !.valid = @ /\ TRUE]
  BY <1>1 DEF Occupy
<1>5. (b.valid /\ TRUE) = b.valid
  BY <1>3
<1>6. [b EXCEPT !.valid = b.valid] = b
  <2> HIDE DEF b
  <2> QED  BY <1>3
<1> QED
  BY <1>2, <1>4, <1>5, <1>6

LEMMA ConnectStep ==
  ASSUME NEW acc \in Account, NEW c \in Names \X Names
  PROVE  /\ Connect(acc, c).valid =>
              /\ acc.valid /\ Known(c) /\ Alike(c)
              /\ c[1] # c[2] /\ c[1] \notin acc.used /\ c[2] \notin acc.used
         /\ Known(c) => Connect(acc, c).used = acc.used \cup {c[1], c[2]}
         /\ Known(c) /\ Alike(c) => Connect(acc, c) = Join(acc, c)
<1> DEFINE after == Use(Use(acc, c[1]), c[2])
<1>1. /\ after.used = acc.used \cup {c[1], c[2]}
      /\ after.valid = (acc.valid /\ c[1] \notin acc.used /\ c[2] \notin acc.used \cup {c[1]})
      /\ after = [used |-> after.used, valid |-> after.valid]
      /\ after.valid \in BOOLEAN /\ acc.valid \in BOOLEAN
  BY DEF Use, Account
<1>2. CASE Known(c)
  <2>1. Connect(acc, c) = [after EXCEPT !.valid = @ /\ Alike(c) /\ c[1] # c[2]]
    BY <1>2 DEF Connect, Known, Alike
  <2>2. /\ Connect(acc, c).used = after.used
        /\ Connect(acc, c).valid = (after.valid /\ Alike(c) /\ c[1] # c[2])
    <3> HIDE DEF after
    <3> QED  BY <1>1, <2>1
  <2>3. Alike(c) => Connect(acc, c) = Join(acc, c)
    <3> SUFFICES ASSUME Alike(c) PROVE Connect(acc, c) = Join(acc, c)
      OBVIOUS
    <3>2. Occupy(Occupy(acc, c[1]), c[2]) = after
      <4>1. c[1] \in Endpoints /\ c[2] \in Endpoints
        BY <1>2 DEF Known
      <4> QED
        BY <4>1, OccupyKnown
    <3>3. Join(acc, c) = [after EXCEPT !.valid = @ /\ c[1] # c[2]]
      <4> HIDE DEF after
      <4> QED  BY <3>2 DEF Join
    <3> QED
      <4> HIDE DEF after
      <4> QED  BY <2>1, <3>3
  <2> QED
    BY <1>1, <1>2, <2>2, <2>3
<1>3. CASE ~Known(c)
  <2>1. Connect(acc, c) = [acc EXCEPT !.valid = FALSE]
    BY <1>3 DEF Connect, Known
  <2>2. ~Connect(acc, c).valid
    BY <2>1 DEF Account
  <2> QED
    BY <1>3, <2>2
<1> QED
  BY <1>2, <1>3

LEMMA ExposeStep ==
  ASSUME NEW acc \in Account, NEW e \in Names
  PROVE  /\ Expose(acc, e).valid => acc.valid /\ e \in Endpoints /\ e \notin acc.used
         /\ e \in Endpoints =>
              Expose(acc, e) = Occupy(acc, e) /\ Expose(acc, e).used = acc.used \cup {e}
<1>1. Use(acc, e).used = acc.used \cup {e} /\ Use(acc, e).valid = (acc.valid /\ e \notin acc.used)
  BY DEF Use
<1>2. CASE e \in Endpoints
  <2>1. Expose(acc, e) = Use(acc, e)
    BY <1>2 DEF Expose
  <2>3. Occupy(acc, e) = Use(acc, e)
    BY <1>2, OccupyKnown
  <2> QED
    BY <1>1, <1>2, <2>1, <2>3
<1>3. CASE e \notin Endpoints
  BY <1>3 DEF Expose, Account
<1> QED
  BY <1>2, <1>3

LEMMA NamedSteps ==
  ASSUME NEW s, NEW k \in Nat
  PROVE  NamedBy(s, 0) = {} /\ NamedBy(s, k + 1) = NamedBy(s, k) \cup {s[k + 1][1], s[k + 1][2]}
<1>1. 1 .. 0 = {} /\ 1 .. k + 1 = (1 .. k) \cup {k + 1}
  OBVIOUS
<1> QED
  BY <1>1 DEF NamedBy

\* Valid connections have known, distinct ends of one mode, none named before.
LEMMA ValidConnections ==
  ASSUME NEW s \in Lists, FoldLeft(Connect, NoneUsed, s).valid
  PROVE  /\ FoldLeft(Connect, NoneUsed, s).used = NamedBy(s, Len(s))
         /\ \A j \in 1 .. Len(s) :
              /\ Known(s[j]) /\ Alike(s[j]) /\ s[j][1] # s[j][2]
              /\ s[j][1] \notin NamedBy(s, j - 1) /\ s[j][2] \notin NamedBy(s, j - 1)
<1>1. PICK h \in [0 .. Len(s) -> Account] :
        /\ h[0] = NoneUsed /\ h[Len(s)] = FoldLeft(Connect, NoneUsed, s)
        /\ \A k \in 1 .. Len(s) : h[k] = Connect(h[k - 1], s[k])
  BY ConnectFold
<1>2. Len(s) \in Nat /\ \A k \in 1 .. Len(s) : s[k] \in Names \X Names
  BY DEF Lists
<1> DEFINE Fine(j) ==
             /\ Known(s[j]) /\ Alike(s[j]) /\ s[j][1] # s[j][2]
             /\ s[j][1] \notin NamedBy(s, j - 1) /\ s[j][2] \notin NamedBy(s, j - 1)
           Claim(k) == h[k].valid => h[k].used = NamedBy(s, k) /\ \A j \in 1 .. k : Fine(j)
           S == {k \in Nat : k <= Len(s) => Claim(k)}
<1>3. 0 \in S
  <2> HIDE DEF S, Claim, Fine
  <2>2. 0 \in Nat /\ 1 .. 0 = {}
    OBVIOUS
  <2>3. NamedBy(s, 0) = {}
    BY ONLY <2>2, NamedSteps
  <2>4. h[0] = NoneUsed
    BY ONLY <1>1
  <2>5. h[0].used = {}
    BY ONLY <2>4 DEF NoneUsed
  <2>1. NamedBy(s, 0) = {} /\ h[0].used = {} /\ 1 .. 0 = {} /\ 0 \in Nat
    BY ONLY <2>2, <2>3, <2>5
  <2> USE DEF S, Claim
  <2> QED  BY <2>1
<1>4. ASSUME NEW k \in Nat, k \in S
      PROVE  k + 1 \in S
  <2> SUFFICES ASSUME k + 1 <= Len(s), h[k + 1].valid
               PROVE  h[k + 1].used = NamedBy(s, k + 1) /\ \A j \in 1 .. k + 1 : Fine(j)
    OBVIOUS
  <2>1. k + 1 \in 1 .. Len(s) /\ (k + 1) - 1 = k /\ k \in 0 .. Len(s) /\ k <= Len(s)
    BY <1>2
  <2>2. h[k + 1] = Connect(h[k], s[k + 1]) /\ h[k] \in Account /\ s[k + 1] \in Names \X Names
    BY <1>1, <1>2, <2>1
  <2>3. /\ h[k].valid /\ Known(s[k + 1]) /\ Alike(s[k + 1]) /\ s[k + 1][1] # s[k + 1][2]
        /\ s[k + 1][1] \notin h[k].used /\ s[k + 1][2] \notin h[k].used
        /\ h[k + 1].used = h[k].used \cup {s[k + 1][1], s[k + 1][2]}
    BY <2>2, ConnectStep
  <2>4. h[k].used = NamedBy(s, k) /\ \A j \in 1 .. k : Fine(j)
    BY <1>4, <2>1, <2>3
  <2>5. Fine(k + 1)
    BY <2>1, <2>3, <2>4
  <2>6. h[k + 1].used = NamedBy(s, k + 1)
    BY <2>3, <2>4, NamedSteps
  <2>7. \A j \in 1 .. k + 1 : j \in 1 .. k \/ j = k + 1
    OBVIOUS
  <2> QED
    <3> HIDE DEF Fine
    <3> QED  BY <2>4, <2>5, <2>6, <2>7
<1>5. Len(s) \in S
  <2> HIDE DEF S
  <2> QED  BY <1>2, <1>3, <1>4, Inductive
<1> QED
  BY <1>1, <1>5

\* Connections that are known and alike are the same to both validators.
LEMMA ConnectionsAgree ==
  ASSUME NEW s \in Lists, \A j \in 1 .. Len(s) : Known(s[j]) /\ Alike(s[j])
  PROVE  /\ FoldLeft(Connect, NoneUsed, s) = FoldLeft(Join, NoneUsed, s)
         /\ FoldLeft(Connect, NoneUsed, s).used = NamedBy(s, Len(s))
<1>1. PICK h \in [0 .. Len(s) -> Account] :
        /\ h[0] = NoneUsed /\ h[Len(s)] = FoldLeft(Connect, NoneUsed, s)
        /\ \A k \in 1 .. Len(s) : h[k] = Connect(h[k - 1], s[k])
  BY ConnectFold
<1>2. PICK g \in [0 .. Len(s) -> Account] :
        /\ g[0] = NoneUsed /\ g[Len(s)] = FoldLeft(Join, NoneUsed, s)
        /\ \A k \in 1 .. Len(s) : g[k] = Join(g[k - 1], s[k])
  BY JoinFold
<1>3. Len(s) \in Nat /\ \A k \in 1 .. Len(s) : s[k] \in Names \X Names
  BY DEF Lists
<1> DEFINE S == {k \in Nat : k <= Len(s) => h[k] = g[k] /\ h[k].used = NamedBy(s, k)}
<1>4. 0 \in S
  <2> HIDE DEF S
  <2>2. 0 \in Nat
    OBVIOUS
  <2>3. NamedBy(s, 0) = {}
    BY ONLY <2>2, NamedSteps
  <2>4. h[0] = NoneUsed /\ g[0] = NoneUsed
    BY ONLY <1>1, <1>2
  <2>5. h[0].used = {}
    BY ONLY <2>4 DEF NoneUsed
  <2>6. h[0] = g[0] /\ h[0].used = NamedBy(s, 0)
    BY ONLY <2>3, <2>4, <2>5
  <2> QED
    BY ONLY <2>2, <2>6 DEF S
<1>5. ASSUME NEW k \in Nat, k \in S
      PROVE  k + 1 \in S
  <2> SUFFICES ASSUME k + 1 <= Len(s)
               PROVE  h[k + 1] = g[k + 1] /\ h[k + 1].used = NamedBy(s, k + 1)
    OBVIOUS
  <2>1. k + 1 \in 1 .. Len(s) /\ (k + 1) - 1 = k /\ k \in 0 .. Len(s) /\ k <= Len(s)
    BY <1>3
  <2>2. /\ h[k + 1] = Connect(h[k], s[k + 1]) /\ g[k + 1] = Join(g[k], s[k + 1])
        /\ h[k] \in Account /\ s[k + 1] \in Names \X Names
    BY <1>1, <1>2, <1>3, <2>1
  <2>3. h[k] = g[k] /\ h[k].used = NamedBy(s, k)
    BY <1>5, <2>1
  <2>4. Known(s[k + 1]) /\ Alike(s[k + 1])
    BY <2>1
  <2>5. h[k + 1] = g[k + 1] /\ h[k + 1].used = h[k].used \cup {s[k + 1][1], s[k + 1][2]}
    BY <2>2, <2>3, <2>4, ConnectStep
  <2> QED
    BY <2>3, <2>5, NamedSteps
<1>6. Len(s) \in S
  <2> HIDE DEF S
  <2> QED  BY <1>3, <1>4, <1>5, Inductive
<1> QED
  BY <1>1, <1>2, <1>3, <1>6

FirstOf(s, k) == {s[j] : j \in 1 .. k}

LEMMA FirstSteps ==
  ASSUME NEW s, NEW k \in Nat
  PROVE  FirstOf(s, 0) = {} /\ FirstOf(s, k + 1) = FirstOf(s, k) \cup {s[k + 1]}
<1>1. 1 .. 0 = {} /\ 1 .. k + 1 = (1 .. k) \cup {k + 1}
  OBVIOUS
<1> QED
  BY <1>1 DEF FirstOf

LEMMA ValidExternals ==
  ASSUME NEW s \in Seq(Names), NEW base \in Account, FoldLeft(Expose, base, s).valid
  PROVE  /\ base.valid /\ FoldLeft(Expose, base, s).used = base.used \cup ToSet(s)
         /\ \A j \in 1 .. Len(s) :
              s[j] \in Endpoints /\ s[j] \notin base.used /\ s[j] \notin FirstOf(s, j - 1)
<1>1. PICK h \in [0 .. Len(s) -> Account] :
        /\ h[0] = base /\ h[Len(s)] = FoldLeft(Expose, base, s)
        /\ \A k \in 1 .. Len(s) : h[k] = Expose(h[k - 1], s[k])
  BY ExposeFold
<1>2. Len(s) \in Nat /\ DOMAIN s = 1 .. Len(s) /\ \A k \in 1 .. Len(s) : s[k] \in Names
  OBVIOUS
<1> DEFINE Fine(j) == s[j] \in Endpoints /\ s[j] \notin base.used /\ s[j] \notin FirstOf(s, j - 1)
           Claim(k) == h[k].valid =>
             base.valid /\ h[k].used = base.used \cup FirstOf(s, k) /\ \A j \in 1 .. k : Fine(j)
           S == {k \in Nat : k <= Len(s) => Claim(k)}
<1>3. 0 \in S
  BY <1>1, FirstSteps
<1>4. ASSUME NEW k \in Nat, k \in S
      PROVE  k + 1 \in S
  <2> SUFFICES ASSUME k + 1 <= Len(s), h[k + 1].valid
               PROVE  /\ base.valid /\ h[k + 1].used = base.used \cup FirstOf(s, k + 1)
                      /\ \A j \in 1 .. k + 1 : Fine(j)
    OBVIOUS
  <2>1. k + 1 \in 1 .. Len(s) /\ (k + 1) - 1 = k /\ k \in 0 .. Len(s) /\ k <= Len(s)
    BY <1>2
  <2>2. h[k + 1] = Expose(h[k], s[k + 1]) /\ h[k] \in Account /\ s[k + 1] \in Names
    BY <1>1, <1>2, <2>1
  <2>3. /\ h[k].valid /\ s[k + 1] \in Endpoints /\ s[k + 1] \notin h[k].used
        /\ h[k + 1].used = h[k].used \cup {s[k + 1]}
    BY <2>2, ExposeStep
  <2>4. base.valid /\ h[k].used = base.used \cup FirstOf(s, k) /\ \A j \in 1 .. k : Fine(j)
    BY <1>4, <2>1, <2>3
  <2>5. Fine(k + 1)
    BY <2>1, <2>3, <2>4
  <2>6. h[k + 1].used = base.used \cup FirstOf(s, k + 1)
    BY <2>3, <2>4, FirstSteps
  <2>7. \A j \in 1 .. k + 1 : j \in 1 .. k \/ j = k + 1
    OBVIOUS
  <2> QED
    <3> HIDE DEF Fine
    <3> QED  BY <2>4, <2>5, <2>6, <2>7
<1>5. Len(s) \in S
  <2> HIDE DEF S
  <2> QED  BY <1>2, <1>3, <1>4, Inductive
<1>6. FirstOf(s, Len(s)) = ToSet(s)
  BY <1>2 DEF FirstOf, ToSet
<1> QED
  BY <1>1, <1>2, <1>5, <1>6

LEMMA ExternalsAgree ==
  ASSUME NEW s \in Seq(Names), NEW base \in Account, \A j \in 1 .. Len(s) : s[j] \in Endpoints
  PROVE  /\ FoldLeft(Expose, base, s) = FoldLeft(Occupy, base, s)
         /\ FoldLeft(Expose, base, s).used = base.used \cup ToSet(s)
<1>1. PICK h \in [0 .. Len(s) -> Account] :
        /\ h[0] = base /\ h[Len(s)] = FoldLeft(Expose, base, s)
        /\ \A k \in 1 .. Len(s) : h[k] = Expose(h[k - 1], s[k])
  BY ExposeFold
<1>2. PICK g \in [0 .. Len(s) -> Account] :
        /\ g[0] = base /\ g[Len(s)] = FoldLeft(Occupy, base, s)
        /\ \A k \in 1 .. Len(s) : g[k] = Occupy(g[k - 1], s[k])
  BY OccupyFold
<1>3. Len(s) \in Nat /\ DOMAIN s = 1 .. Len(s) /\ \A k \in 1 .. Len(s) : s[k] \in Names
  OBVIOUS
<1> DEFINE S == {k \in Nat : k <= Len(s) => h[k] = g[k] /\ h[k].used = base.used \cup FirstOf(s, k)}
<1>4. 0 \in S
  BY <1>1, <1>2, FirstSteps
<1>5. ASSUME NEW k \in Nat, k \in S
      PROVE  k + 1 \in S
  <2> SUFFICES ASSUME k + 1 <= Len(s)
               PROVE  h[k + 1] = g[k + 1] /\ h[k + 1].used = base.used \cup FirstOf(s, k + 1)
    OBVIOUS
  <2>1. k + 1 \in 1 .. Len(s) /\ (k + 1) - 1 = k /\ k \in 0 .. Len(s) /\ k <= Len(s)
    BY <1>3
  <2>2. /\ h[k + 1] = Expose(h[k], s[k + 1]) /\ g[k + 1] = Occupy(g[k], s[k + 1])
        /\ h[k] \in Account /\ s[k + 1] \in Names
    BY <1>1, <1>2, <1>3, <2>1
  <2>3. h[k] = g[k] /\ h[k].used = base.used \cup FirstOf(s, k)
    BY <1>5, <2>1
  <2>4. h[k + 1] = g[k + 1] /\ h[k + 1].used = h[k].used \cup {s[k + 1]}
    BY <2>1, <2>2, <2>3, ExposeStep
  <2>5. FirstOf(s, k + 1) = FirstOf(s, k) \cup {s[k + 1]}
    BY FirstSteps
  <2> QED
    BY <2>3, <2>4, <2>5
<1>6. Len(s) \in S
  <2> HIDE DEF S
  <2> QED  BY <1>3, <1>4, <1>5, Inductive
<1>7. FirstOf(s, Len(s)) = ToSet(s)
  BY <1>3 DEF FirstOf, ToSet
<1> QED
  BY <1>1, <1>2, <1>3, <1>6, <1>7
-----------------------------------------------------------------------------
(* The two validators.                                                     *)

WellTyped(m) == m.connections \in Lists /\ m.external \in Seq(Names)

LEMMA Halves ==
  ASSUME NEW n \in Nat, NEW i \in 1 .. 2 * n
  PROVE  \E j \in 1 .. n : i = 2 * j - 1 \/ i = 2 * j
<1> DEFINE j == (i + 1) \div 2
<1>1. j \in 1 .. n /\ (i = 2 * j - 1 \/ i = 2 * j)
  OBVIOUS
<1> QED
  <2> HIDE DEF j
  <2> QED  BY <1>1

\* The internal ports are the ends of the connections, in their order.
LEMMA InternalFacts ==
  ASSUME NEW m, WellTyped(m)
  PROVE  /\ Internal(m) \in Seq(Names) /\ Len(Internal(m)) = 2 * Len(m.connections)
         /\ \A k \in 1 .. Len(m.connections) :
              /\ Internal(m)[2 * k - 1] = m.connections[k][1]
              /\ Internal(m)[2 * k] = m.connections[k][2]
<1> DEFINE s == m.connections
<1>0. s \in Lists
  BY DEF WellTyped
<1>1. PICK h \in [0 .. Len(s) -> Seq(Names)] :
        /\ h[0] = <<>> /\ h[Len(s)] = Internal(m)
        /\ \A k \in 1 .. Len(s) : h[k] = (h[k - 1] \o s[k])
  <2>1. Internal(m) = FoldLeft(LAMBDA a, c : a \o c, <<>>, s)
    BY Zenon DEF Internal
  <2> HIDE DEF s
  <2> QED  BY <1>0, <2>1, FlattenFold
<1>2. Len(s) \in Nat /\ \A k \in 1 .. Len(s) : s[k] \in Names \X Names
  BY <1>0 DEF Lists
<1> DEFINE S == {k \in Nat : k <= Len(s) =>
                   /\ Len(h[k]) = 2 * k
                   /\ \A j \in 1 .. k : h[k][2 * j - 1] = s[j][1] /\ h[k][2 * j] = s[j][2]}
<1> HIDE DEF s
<1>3. 0 \in S
  BY <1>1
<1>4. ASSUME NEW k \in Nat, k \in S
      PROVE  k + 1 \in S
  <2> SUFFICES ASSUME k + 1 <= Len(s)
               PROVE  /\ Len(h[k + 1]) = 2 * (k + 1)
                      /\ \A j \in 1 .. k + 1 :
                           h[k + 1][2 * j - 1] = s[j][1] /\ h[k + 1][2 * j] = s[j][2]
    OBVIOUS
  <2>1. k + 1 \in 1 .. Len(s) /\ (k + 1) - 1 = k /\ k \in 0 .. Len(s) /\ k <= Len(s)
    BY <1>2
  <2> DEFINE a == h[k]
             c == s[k + 1]
  <2>2. h[k + 1] = a \o c /\ a \in Seq(Names) /\ c \in Seq(Names) /\ Len(c) = 2
    BY <1>1, <1>2, <2>1, PairIsSequence
  <2>3. Len(a) = 2 * k /\ \A j \in 1 .. k : a[2 * j - 1] = s[j][1] /\ a[2 * j] = s[j][2]
    BY <1>4, <2>1
  <2> HIDE DEF a, c
  <2>4. Len(a \o c) = 2 * k + 2 /\ \A i \in 1 .. 2 * k + 2 :
          (a \o c)[i] = IF i <= 2 * k THEN a[i] ELSE c[i - 2 * k]
    <3>1. /\ Len(a \o c) = Len(a) + Len(c)
          /\ \A i \in 1 .. Len(a) + Len(c) :
               (a \o c)[i] = IF i <= Len(a) THEN a[i] ELSE c[i - Len(a)]
      BY <2>2, ConcatProperties
    <3>2. Len(a) + Len(c) = 2 * k + 2
      BY <2>2, <2>3
    <3> QED
      BY <2>3, <3>1, <3>2
  <2>5. \A i \in 1 .. 2 * k : (a \o c)[i] = a[i]
    <3> TAKE i \in 1 .. 2 * k
    <3>1. i \in 1 .. 2 * k + 2 /\ i <= 2 * k
      OBVIOUS
    <3> QED
      BY ONLY <2>4, <3>1
  <2>6. (a \o c)[2 * k + 1] = c[1] /\ (a \o c)[2 * k + 2] = c[2]
    <3>1. /\ 2 * k + 1 \in 1 .. 2 * k + 2 /\ ~(2 * k + 1 <= 2 * k) /\ (2 * k + 1) - 2 * k = 1
          /\ 2 * k + 2 \in 1 .. 2 * k + 2 /\ ~(2 * k + 2 <= 2 * k) /\ (2 * k + 2) - 2 * k = 2
      OBVIOUS
    <3> QED
      BY <2>4, <3>1
  <2>7. \A j \in 1 .. k + 1 : (a \o c)[2 * j - 1] = s[j][1] /\ (a \o c)[2 * j] = s[j][2]
    <3> TAKE j \in 1 .. k + 1
    <3>1. CASE j \in 1 .. k
      <4>1. 2 * j - 1 \in 1 .. 2 * k /\ 2 * j \in 1 .. 2 * k
        BY <3>1
      <4> QED
        BY <2>3, <2>5, <3>1, <4>1
    <3>2. CASE j = k + 1
      <4>1. 2 * j - 1 = 2 * k + 1 /\ 2 * j = 2 * k + 2
        BY <3>2
      <4> QED
        BY <2>6, <3>2, <4>1 DEF c
    <3>3. j \in 1 .. k \/ j = k + 1
      OBVIOUS
    <3> QED
      BY <3>1, <3>2, <3>3
  <2>8. 2 * (k + 1) = 2 * k + 2
    OBVIOUS
  <2> QED
    BY <2>2, <2>4, <2>7, <2>8
<1>5. Len(s) \in S
  <2> HIDE DEF S
  <2> QED  BY <1>2, <1>3, <1>4, Inductive
<1>6. Internal(m) \in Seq(Names)
  BY <1>1, <1>2
<1> QED
  BY <1>1, <1>2, <1>5, <1>6 DEF s

LEMMA InternalNames ==
  ASSUME NEW m, WellTyped(m)
  PROVE  ToSet(Internal(m)) = NamedBy(m.connections, Len(m.connections))
<1> DEFINE s == m.connections
           inner == Internal(m)
<1>1. Len(s) \in Nat
  BY DEF WellTyped, Lists
<1>2. /\ DOMAIN inner = 1 .. 2 * Len(s)
      /\ \A k \in 1 .. Len(s) : inner[2 * k - 1] = s[k][1] /\ inner[2 * k] = s[k][2]
  BY InternalFacts
<1> HIDE DEF s, inner
<1>3. ASSUME NEW e \in ToSet(inner)
      PROVE  e \in NamedBy(s, Len(s))
  <2>1. PICK i \in 1 .. 2 * Len(s) : e = inner[i]
    BY <1>2 DEF ToSet
  <2>2. PICK j \in 1 .. Len(s) : i = 2 * j - 1 \/ i = 2 * j
    BY <1>1, Halves
  <2>3. e \in {s[j][1], s[j][2]}
    BY <1>2, <2>1, <2>2
  <2> QED
    BY <2>3 DEF NamedBy
<1>4. ASSUME NEW e \in NamedBy(s, Len(s))
      PROVE  e \in ToSet(inner)
  <2>1. PICK j \in 1 .. Len(s) : e \in {s[j][1], s[j][2]}
    BY DEF NamedBy
  <2>2. 2 * j - 1 \in 1 .. 2 * Len(s) /\ 2 * j \in 1 .. 2 * Len(s)
    BY <1>1
  <2>3. e = inner[2 * j - 1] \/ e = inner[2 * j]
    BY <1>2, <2>1
  <2> QED
    BY <1>2, <2>2, <2>3 DEF ToSet
<1>5. ToSet(inner) = NamedBy(s, Len(s))
  BY <1>3, <1>4
<1> QED
  BY <1>5 DEF s, inner

Agreement(m) ==
  StructureValid(m) <=>
    /\ NetlistValid(m)
    /\ ToSet(Internal(m)) \cup ToSet(m.external) = Endpoints /\ m.external # <<>>
    /\ \A c \in ToSet(m.connections) : Alike(c)

\* What a structure that is valid looks like.
Sound(m) ==
  /\ WellTyped(m) /\ m.external # <<>>
  /\ \A j \in 1 .. Len(m.connections) :
       LET c == m.connections[j]
       IN /\ Known(c) /\ Alike(c) /\ c[1] # c[2]
          /\ c[1] \notin NamedBy(m.connections, j - 1)
          /\ c[2] \notin NamedBy(m.connections, j - 1)
  /\ \A j \in 1 .. Len(m.external) :
       /\ m.external[j] \in Endpoints
       /\ m.external[j] \notin NamedBy(m.connections, Len(m.connections))
       /\ m.external[j] \notin FirstOf(m.external, j - 1)
  /\ Endpoints \subseteq NamedBy(m.connections, Len(m.connections)) \cup ToSet(m.external)

LEMMA ValidIsSound ==
  ASSUME NEW m, WellTyped(m), StructureValid(m)
  PROVE  Sound(m)
<1> DEFINE s == m.connections
           x == m.external
           base == FoldLeft(Connect, NoneUsed, s)
           all == FoldLeft(Expose, base, x)
<1>1. s \in Lists /\ x \in Seq(Names)
  BY DEF WellTyped
<1>2. all.valid /\ x # <<>> /\ Endpoints \subseteq all.used
  BY DEF StructureValid
<1>3. base \in Account
  <2> HIDE DEF s
  <2>1. Len(s) \in 0 .. Len(s)
    BY <1>1 DEF Lists
  <2> HIDE DEF base
  <2> QED  BY <1>1, <2>1, ConnectFold, ZenonT(60) DEF base
<1> HIDE DEF s, x, base
<1>4. /\ base.valid /\ all.used = base.used \cup ToSet(x)
      /\ \A j \in 1 .. Len(x) :
           x[j] \in Endpoints /\ x[j] \notin base.used /\ x[j] \notin FirstOf(x, j - 1)
  BY <1>1, <1>2, <1>3, ValidExternals
<1>5. /\ base.used = NamedBy(s, Len(s))
      /\ \A j \in 1 .. Len(s) :
           /\ Known(s[j]) /\ Alike(s[j]) /\ s[j][1] # s[j][2]
           /\ s[j][1] \notin NamedBy(s, j - 1) /\ s[j][2] \notin NamedBy(s, j - 1)
  BY <1>1, <1>4, ValidConnections DEF base
<1> QED
  BY <1>2, <1>4, <1>5 DEF Sound, s, x

\* Where both know all endpoints and the modes agree, both have the same opinion.
LEMMA SameOpinion ==
  ASSUME NEW m, WellTyped(m),
         \A j \in 1 .. Len(m.connections) : Known(m.connections[j]) /\ Alike(m.connections[j]),
         \A j \in 1 .. Len(m.external) : m.external[j] \in Endpoints
  PROVE  StructureValid(m) <=>
           /\ NetlistValid(m) /\ m.external # <<>>
           /\ Endpoints \subseteq NamedBy(m.connections, Len(m.connections)) \cup ToSet(m.external)
<1> DEFINE s == m.connections
           x == m.external
           base == FoldLeft(Connect, NoneUsed, s)
           all == FoldLeft(Expose, base, x)
<1>1. s \in Lists /\ x \in Seq(Names)
  BY DEF WellTyped
<1>2. StructureValid(m) <=> all.valid /\ x # <<>> /\ Endpoints \subseteq all.used
  BY DEF StructureValid
<1>3. base \in Account
  <2> HIDE DEF s
  <2>1. Len(s) \in 0 .. Len(s)
    BY <1>1 DEF Lists
  <2> HIDE DEF base
  <2> QED  BY <1>1, <2>1, ConnectFold, ZenonT(60) DEF base
<1>4. NetlistValid(m) <=> FoldLeft(Occupy, FoldLeft(Join, NoneUsed, s), x).valid
  BY DEF NetlistValid
<1>5. /\ \A j \in 1 .. Len(s) : Known(s[j]) /\ Alike(s[j])
      /\ \A j \in 1 .. Len(x) : x[j] \in Endpoints
  OBVIOUS
<1> HIDE DEF s, x
<1>6. base = FoldLeft(Join, NoneUsed, s) /\ base.used = NamedBy(s, Len(s))
  BY <1>1, <1>5, ConnectionsAgree
<1> HIDE DEF base
<1>7. all = FoldLeft(Occupy, base, x) /\ all.used = base.used \cup ToSet(x)
  BY <1>1, <1>3, <1>5, ExternalsAgree
<1> HIDE DEF all
<1> QED
  BY <1>2, <1>4, <1>6, <1>7 DEF s, x

LEMMA OpinionsAgree ==
  ASSUME NEW m, WellTyped(m)
  PROVE  Agreement(m)
<1> DEFINE s == m.connections
           x == m.external
           named == ToSet(Internal(m)) \cup ToSet(x)
<1>1. /\ DOMAIN s = 1 .. Len(s) /\ DOMAIN x = 1 .. Len(x) /\ Len(s) \in Nat
      /\ ToSet(Internal(m)) = NamedBy(s, Len(s))
  BY InternalNames DEF WellTyped, Lists
<1>2. (\A c \in ToSet(s) : Alike(c)) <=> \A j \in 1 .. Len(s) : Alike(s[j])
  BY <1>1 DEF ToSet
<1>3. ASSUME StructureValid(m)
      PROVE  /\ NetlistValid(m) /\ named = Endpoints /\ x # <<>>
             /\ \A c \in ToSet(s) : Alike(c)
  <2>1. Sound(m)
    BY <1>3, ValidIsSound
  <2>2. /\ \A j \in 1 .. Len(s) : Known(s[j]) /\ Alike(s[j])
        /\ \A j \in 1 .. Len(x) : x[j] \in Endpoints
        /\ Endpoints \subseteq NamedBy(s, Len(s)) \cup ToSet(x)
    BY <2>1 DEF Sound
  <2>3. NamedBy(s, Len(s)) \subseteq Endpoints /\ ToSet(x) \subseteq Endpoints
    BY <1>1, <2>2 DEF NamedBy, ToSet, Known
  <2>4. named = Endpoints
    BY <1>1, <2>2, <2>3
  <2>5. NetlistValid(m) /\ x # <<>>
    BY <1>3, <2>2, SameOpinion
  <2> QED
    BY <1>2, <2>2, <2>4, <2>5
<1>4. ASSUME NetlistValid(m), named = Endpoints, x # <<>>, \A c \in ToSet(s) : Alike(c)
      PROVE  StructureValid(m)
  <2>1. \A j \in 1 .. Len(s) : Known(s[j])
    <3> TAKE j \in 1 .. Len(s)
    <3>1. {s[j][1], s[j][2]} \subseteq NamedBy(s, Len(s))
      BY DEF NamedBy
    <3> QED
      BY <1>1, <1>4, <3>1 DEF Known
  <2>2. \A j \in 1 .. Len(x) : x[j] \in Endpoints
    <3> TAKE j \in 1 .. Len(x)
    <3>1. x[j] \in ToSet(x)
      BY <1>1 DEF ToSet
    <3> QED
      BY <1>4, <3>1
  <2>3. Endpoints \subseteq NamedBy(s, Len(s)) \cup ToSet(x)
    BY <1>1, <1>4
  <2> QED
    BY <1>2, <1>4, <2>1, <2>2, <2>3, SameOpinion
<1> QED
  BY <1>3, <1>4 DEF Agreement

-----------------------------------------------------------------------------
(* The inductive invariant: what the manifest and the tables are at each   *)
(* stage.                                                                  *)

Stages == {"start", "refused", "structured", "loaded", "singular", "composed"}
Checked == {"structured", "loaded", "singular", "composed"}

Assembled ==
  /\ stage \in Stages
  /\ WellTyped(manifest)
  /\ stage \in Checked => StructureValid(manifest)
  /\ stage \in {"loaded", "singular", "composed"} =>
       /\ DOMAIN tables = Parts /\ \A c \in Parts : tables[c] \in Tables[c]
       /\ DataValid(tables)
  /\ LET grid == Grid(tables[PartOf[Instances[1]]])
     IN /\ stage = "singular" => \E w \in grid : Singular(manifest, System(tables, w))
        /\ stage = "composed" =>
             /\ ~\E w \in grid : Singular(manifest, System(tables, w))
             /\ composed = [w \in grid |-> External(manifest, System(tables, w))]

LEMMA AssembledInit == CircuitInit => Assembled
<1> SUFFICES ASSUME CircuitInit PROVE Assembled
  OBVIOUS
<1>1. manifest.connections = <<>> /\ manifest.external = <<>>
  BY DEF CircuitInit, Nothing
<1>2. WellTyped(manifest)
  BY <1>1 DEF WellTyped, Lists
<1> QED
  BY <1>2 DEF CircuitInit, Assembled, Stages, Checked

LEMMA AssembledStep == Assembled /\ [CircuitNext]_circuitVars => Assembled'
<1> SUFFICES ASSUME Assembled, [CircuitNext]_circuitVars PROVE Assembled'
  OBVIOUS
<1>1. CASE Validate
  <2>1. WellTyped(manifest')
    <3>1. PICK n \in 0 .. MaxNamed \div 2 : \E k \in 0 .. MaxNamed - 2 * n :
            \E c \in [1 .. n -> Names \X Names], e \in [1 .. k -> Names] :
              manifest' = [connections |-> c, external |-> e]
      BY <1>1 DEF Validate
    <3>2. PICK k \in 0 .. MaxNamed - 2 * n :
            \E c \in [1 .. n -> Names \X Names], e \in [1 .. k -> Names] :
              manifest' = [connections |-> c, external |-> e]
      BY <3>1
    <3>3. PICK c \in [1 .. n -> Names \X Names], e \in [1 .. k -> Names] :
            manifest' = [connections |-> c, external |-> e]
      BY <3>2
    <3>4. n \in Nat /\ k \in Nat
      BY CircuitAssumption
    <3>5. c \in Seq(Names \X Names) /\ e \in Seq(Names)
      BY <3>4
    <3> QED
      BY <3>3, <3>5 DEF WellTyped, Lists
  <2>2. stage' \in {"structured", "refused"} /\ (stage' = "structured" => StructureValid(manifest'))
    BY <1>1 DEF Validate
  <2> QED
    BY <2>1, <2>2 DEF Assembled, Stages, Checked
<1>2. CASE LoadAll
  <2>1. /\ stage = "structured" /\ manifest' = manifest
        /\ DOMAIN tables' = Parts /\ \A c \in Parts : tables'[c] \in Tables[c]
        /\ stage' \in {"loaded", "refused"} /\ (stage' = "loaded" => DataValid(tables'))
    BY <1>2 DEF LoadAll
  <2>2. WellTyped(manifest) /\ StructureValid(manifest)
    BY <2>1 DEF Assembled, Checked
  <2> QED
    BY <2>1, <2>2 DEF Assembled, Stages, Checked
<1>3. CASE Compose
  <2> DEFINE grid == Grid(tables[PartOf[Instances[1]]])
  <2>1. /\ stage = "loaded" /\ manifest' = manifest /\ tables' = tables
        /\ \/ stage' = "singular" /\ \E w \in grid : Singular(manifest, System(tables, w))
           \/ /\ stage' = "composed" /\ ~\E w \in grid : Singular(manifest, System(tables, w))
              /\ composed' = [w \in grid |-> External(manifest, System(tables, w))]
    BY <1>3 DEF Compose
  <2>2. /\ WellTyped(manifest) /\ StructureValid(manifest)
        /\ DOMAIN tables = Parts /\ (\A c \in Parts : tables[c] \in Tables[c])
        /\ DataValid(tables)
    BY <2>1 DEF Assembled, Checked
  <2> QED
    BY <2>1, <2>2 DEF Assembled, Stages, Checked
<1>4. CASE UNCHANGED circuitVars
  BY <1>4 DEF circuitVars, Assembled
<1> QED
  BY <1>1, <1>2, <1>3, <1>4 DEF CircuitNext

\* What is known of manifest, tables and matrix at each stage of an assembly.
THEOREM AssemblyInvariant == CircuitSpec => []Assembled
BY AssembledInit, AssembledStep, PTL DEF CircuitSpec

\* validate_structure and validate_netlist agree on every manifest: the structures
\* that are accepted are the netlists that are valid, name known ports only,
\* connect equal modes and leave no port open, whatever the instances and ports.
THEOREM ValidatorsAlwaysAgree == CircuitSpec => []ValidatorsAgree
<1>1. Assembled => ValidatorsAgree
  <2>1. Assembled => Agreement(manifest)
    BY OpinionsAgree DEF Assembled
  <2> QED
    BY <2>1 DEF ValidatorsAgree, Agreement, Alike
<1> QED
  BY <1>1, AssemblyInvariant, PTL
-----------------------------------------------------------------------------
(* Sums of bits of which at most one is set.                               *)

LEMMA SumOfBits ==
  ASSUME NEW n \in Nat, NEW f \in [1 .. n -> {0, 1}],
         \A i, j \in 1 .. n : f[i] = 1 /\ f[j] = 1 => i = j
  PROVE  /\ SumFunction(f) \in {0, 1}
         /\ SumFunction(f) = 1 <=> \E i \in 1 .. n : f[i] = 1
<1> DEFINE G == [p \in Nat \X (1 .. n) |-> f[p[2]] + p[1]]
           C == [t \in SUBSET (1 .. n) |-> CHOOSE x \in t : TRUE]
           Body(g, t) == IF t = {} THEN 0
                         ELSE f[CHOOSE x \in t : TRUE] + g[t \ {CHOOSE x \in t : TRUE}]
           Steps(g) == g = [t \in SUBSET (1 .. n) |-> Body(g, t)]
           it == CHOOSE g : Steps(g)
<1>1. 0 \in Nat /\ G \in [Nat \X (1 .. n) -> Nat]
  OBVIOUS
<1>2. \A t \in SUBSET (1 .. n) : t # {} => C[t] \in t /\ C[t] = CHOOSE x \in t : TRUE
  OBVIOUS
<1>3. \E g : Steps(g)
  <2>1. Foldable(n, C, Nat, 0, G)
    BY <1>1, <1>2 DEF Foldable
  <2>2. PICK g \in [SUBSET (1 .. n) -> Nat] : FoldOf(n, C, 0, G, g)
    <3> HIDE DEF G, C
    <3> QED  BY <2>1, FoldExists
  <2>3. ASSUME NEW t \in SUBSET (1 .. n)
        PROVE  g[t] = Body(g, t)
    <3> HIDE DEF C
    <3>1. CASE t # {}
      <4>1. <<g[t \ {C[t]}], C[t]>> \in Nat \X (1 .. n)
        BY <1>2, <2>2, <3>1
      <4>2. g[t] = G[<<g[t \ {C[t]}], C[t]>>]
        <5> HIDE DEF G
        <5> QED  BY <2>2, <3>1 DEF FoldOf
      <4> QED
        BY <1>2, <3>1, <4>1, <4>2
    <3>2. CASE t = {}
      BY <2>2, <3>2 DEF FoldOf
    <3> QED
      BY <3>1, <3>2
  <2>4. Steps(g)
    <3> HIDE DEF Body
    <3> QED  BY <2>3
  <2> HIDE DEF Steps
  <2> QED  BY <2>4
<1>4. Steps(it)
  BY <1>3
<1>5. SumFunction(f) = it[1 .. n]
  BY DEF SumFunction, SumFunctionOnSet, FoldFunctionOnSet, MapThenFoldSet
<1>6. it[{}] = 0
  BY <1>4
<1>7. ASSUME NEW t \in SUBSET (1 .. n), t # {}
      PROVE  C[t] \in t /\ it[t] = f[C[t]] + it[t \ {C[t]}]
  BY <1>2, <1>4, <1>7, ZenonT(60)
<1> HIDE DEF it, C
<1>8. \A t \in SUBSET (1 .. n) : IsFiniteSet(t) /\ Cardinality(t) \in Nat /\ Cardinality(t) <= n
  <2> TAKE t \in SUBSET (1 .. n)
  <2>1. IsFiniteSet(1 .. n) /\ Cardinality(1 .. n) = n
    BY FS_Interval
  <2>2. IsFiniteSet(t) /\ Cardinality(t) <= Cardinality(1 .. n)
    BY <2>1, FS_Subset
  <2> QED
    BY <2>1, <2>2, FS_CardinalityType
<1> DEFINE Right(t) == it[t] \in {0, 1} /\ (it[t] = 1 <=> \E i \in t : f[i] = 1)
           S == {k \in Nat : \A t \in SUBSET (1 .. n) : Cardinality(t) <= k => Right(t)}
<1>9. 0 \in S
  <2>1. \A t \in SUBSET (1 .. n) : Cardinality(t) <= 0 => t = {}
    BY <1>8, FS_EmptySet
  <2>2. Right({})
    BY <1>6
  <2> HIDE DEF Right
  <2> QED  BY <2>1, <2>2
<1>10. ASSUME NEW k \in Nat, k \in S
       PROVE  k + 1 \in S
  <2>1. ASSUME NEW t \in SUBSET (1 .. n), Cardinality(t) <= k + 1
        PROVE  Right(t)
    <3>1. CASE t = {}
      BY <1>6, <3>1
    <3>2. CASE t # {}
      <4> DEFINE c == C[t]
                 u == t \ {c}
      <4>1. c \in t /\ it[t] = f[c] + it[u]
        BY <1>7, <3>2
      <4>2. Cardinality(u) <= k /\ u \in SUBSET (1 .. n)
        <5>1. Cardinality(u) = Cardinality(t) - 1 /\ u \in SUBSET (1 .. n)
          BY <1>8, <4>1, FS_RemoveElement
        <5>2. Cardinality(t) \in Nat
          BY <1>8
        <5> HIDE DEF u
        <5> QED  BY <2>1, <5>1, <5>2
      <4>3. Right(u)
        BY <1>10, <4>2
      <4>4. t = u \cup {c} /\ c \notin u /\ c \in 1 .. n /\ u \subseteq 1 .. n
        BY <4>1
      <4> HIDE DEF c, u
      <4>5. CASE f[c] = 1
        <5>1. ~\E i \in u : f[i] = 1
          BY <4>4, <4>5
        <5>2. it[u] = 0
          BY <4>3, <5>1
        <5> QED
          BY <4>1, <4>5, <5>2
      <4>6. CASE f[c] = 0
        <5>1. it[t] = it[u]
          BY <4>1, <4>3, <4>6
        <5>2. (\E i \in t : f[i] = 1) <=> \E i \in u : f[i] = 1
          BY <4>4, <4>6
        <5> QED
          BY <4>3, <5>1, <5>2
      <4> QED
        BY <4>4, <4>5, <4>6
    <3> QED
      BY <3>1, <3>2
  <2>2. k + 1 \in Nat
    OBVIOUS
  <2> QED
    <3> HIDE DEF Right
    <3> QED  BY <2>1, <2>2
<1>11. n \in S
  <2> HIDE DEF S
  <2> QED  BY <1>9, <1>10, Inductive
<1>12. Right(1 .. n)
  BY <1>8, <1>11
<1> QED
  BY <1>5, <1>12

-----------------------------------------------------------------------------
(* The endpoints of a manifest that is valid: the internal ones by twos,   *)
(* the external ones, each of them once.                                   *)

Mate(a) == IF a % 2 = 1 THEN a + 1 ELSE a - 1

\* The connection that internal port a belongs to.
PairOf(a) == (a + 1) \div 2

LEMMA MateFacts ==
  ASSUME NEW n \in Nat, NEW a \in 1 .. 2 * n
  PROVE  /\ PairOf(a) \in 1 .. n
         /\ a = 2 * PairOf(a) - 1 \/ a = 2 * PairOf(a)
         /\ a = 2 * PairOf(a) - 1 => Mate(a) = 2 * PairOf(a)
         /\ a = 2 * PairOf(a) => Mate(a) = 2 * PairOf(a) - 1
         /\ Mate(a) \in 1 .. 2 * n /\ Mate(a) # a /\ Mate(Mate(a)) = a
BY DEF Mate, PairOf

LEMMA SoundTypes ==
  ASSUME NEW m, Sound(m)
  PROVE  /\ Len(m.connections) \in Nat /\ Len(Internal(m)) = 2 * Len(m.connections)
         /\ DOMAIN m.connections = 1 .. Len(m.connections)
         /\ Len(m.external) \in Nat \ {0} /\ DOMAIN m.external = 1 .. Len(m.external)
         /\ DOMAIN Internal(m) = 1 .. Len(Internal(m))
         /\ \A a \in 1 .. Len(Internal(m)) : Internal(m)[a] \in Endpoints
         /\ \A k \in 1 .. Len(m.connections) :
              /\ Internal(m)[2 * k - 1] = m.connections[k][1]
              /\ Internal(m)[2 * k] = m.connections[k][2]
         /\ \A j \in 1 .. Len(m.external) : m.external[j] \in Endpoints
<1> DEFINE s == m.connections
           inner == Internal(m)
<1>1. /\ WellTyped(m) /\ m.external # <<>>
      /\ \A j \in 1 .. Len(s) : Known(s[j])
      /\ \A j \in 1 .. Len(m.external) : m.external[j] \in Endpoints
  BY DEF Sound
<1>2. /\ Len(s) \in Nat /\ DOMAIN s = 1 .. Len(s)
      /\ Len(m.external) \in Nat \ {0} /\ DOMAIN m.external = 1 .. Len(m.external)
  BY <1>1 DEF WellTyped, Lists
<1>3. /\ inner \in Seq(Names) /\ Len(inner) = 2 * Len(s)
      /\ \A k \in 1 .. Len(s) : inner[2 * k - 1] = s[k][1] /\ inner[2 * k] = s[k][2]
  BY <1>1, InternalFacts
<1>4. DOMAIN inner = 1 .. Len(inner)
  BY <1>3
<1>5. ASSUME NEW a \in 1 .. Len(inner)
      PROVE  inner[a] \in Endpoints
  <2> HIDE DEF s, inner
  <2>1. PICK j \in 1 .. Len(s) : a = 2 * j - 1 \/ a = 2 * j
    BY <1>2, <1>3, <1>5, Halves
  <2> QED
    BY <1>1, <1>3, <2>1 DEF Known
<1> QED
  BY <1>1, <1>2, <1>3, <1>4, <1>5

LEMMA SoundEndpoints ==
  ASSUME NEW m, Sound(m)
  PROVE  /\ \A a, b \in 1 .. Len(Internal(m)) : Internal(m)[a] = Internal(m)[b] => a = b
         /\ \A j, k \in 1 .. Len(m.external) : m.external[j] = m.external[k] => j = k
         /\ \A a \in 1 .. Len(Internal(m)), j \in 1 .. Len(m.external) :
              Internal(m)[a] # m.external[j]
         /\ \A e \in Endpoints : \/ \E a \in 1 .. Len(Internal(m)) : e = Internal(m)[a]
                                 \/ \E j \in 1 .. Len(m.external) : e = m.external[j]
<1> DEFINE s == m.connections
           x == m.external
           inner == Internal(m)
           n == Len(s)
<1>1. /\ n \in Nat /\ Len(inner) = 2 * n /\ Len(x) \in Nat
      /\ DOMAIN inner = 1 .. 2 * n /\ DOMAIN x = 1 .. Len(x)
      /\ \A k \in 1 .. n : inner[2 * k - 1] = s[k][1] /\ inner[2 * k] = s[k][2]
  BY SoundTypes
<1>2. /\ \A j \in 1 .. n :
           /\ s[j][1] # s[j][2]
           /\ s[j][1] \notin NamedBy(s, j - 1) /\ s[j][2] \notin NamedBy(s, j - 1)
      /\ \A j \in 1 .. Len(x) : x[j] \notin NamedBy(s, n) /\ x[j] \notin FirstOf(x, j - 1)
      /\ Endpoints \subseteq NamedBy(s, n) \cup ToSet(x)
      /\ ToSet(inner) = NamedBy(s, n)
  BY InternalNames DEF Sound
<1> HIDE DEF s, x, inner, n
<1>3. \A a \in 1 .. 2 * n : /\ PairOf(a) \in 1 .. n
                            /\ a = 2 * PairOf(a) - 1 \/ a = 2 * PairOf(a)
                            /\ inner[a] \in {s[PairOf(a)][1], s[PairOf(a)][2]}
  BY <1>1, MateFacts
<1>4. ASSUME NEW a \in 1 .. 2 * n, NEW b \in 1 .. 2 * n, PairOf(a) < PairOf(b)
      PROVE  inner[a] # inner[b]
  <2>1. PairOf(a) \in 1 .. PairOf(b) - 1
    BY <1>1, <1>3, <1>4
  <2>2. inner[a] \in NamedBy(s, PairOf(b) - 1)
    BY <1>3, <2>1 DEF NamedBy
  <2>3. inner[b] \notin NamedBy(s, PairOf(b) - 1)
    BY <1>2, <1>3
  <2> QED
    BY <2>2, <2>3
<1>5. ASSUME NEW a \in 1 .. 2 * n, NEW b \in 1 .. 2 * n, inner[a] = inner[b]
      PROVE  a = b
  <2>1. PairOf(a) = PairOf(b)
    <3>1. ~(PairOf(a) < PairOf(b)) /\ ~(PairOf(b) < PairOf(a))
      BY <1>4, <1>5
    <3>2. PairOf(a) \in Int /\ PairOf(b) \in Int
      BY <1>1, <1>3
    <3> QED
      BY <3>1, <3>2
  <2> DEFINE k == PairOf(a)
  <2>2. k \in 1 .. n /\ (a = 2 * k - 1 \/ a = 2 * k) /\ (b = 2 * k - 1 \/ b = 2 * k)
    BY <1>3, <2>1
  <2>3. inner[2 * k - 1] # inner[2 * k]
    BY <1>1, <1>2, <2>2
  <2> HIDE DEF k
  <2> QED  BY <1>5, <2>2, <2>3
<1>6. ASSUME NEW j \in 1 .. Len(x), NEW k \in 1 .. Len(x), j < k
      PROVE  x[j] # x[k]
  <2>1. j \in 1 .. k - 1
    BY <1>1, <1>6
  <2> QED
    BY <1>2, <2>1 DEF FirstOf
<1>7. \A j, k \in 1 .. Len(x) : x[j] = x[k] => j = k
  <2> TAKE j \in 1 .. Len(x), k \in 1 .. Len(x)
  <2>1. j < k \/ k < j \/ j = k
    BY <1>1
  <2> QED
    BY <1>6, <2>1
<1>8. \A a \in 1 .. 2 * n, j \in 1 .. Len(x) : inner[a] # x[j]
  BY <1>1, <1>2 DEF ToSet
<1>9. \A e \in Endpoints : \/ \E a \in 1 .. 2 * n : e = inner[a]
                           \/ \E j \in 1 .. Len(x) : e = x[j]
  BY <1>1, <1>2 DEF ToSet
<1> QED
  BY <1>1, <1>5, <1>7, <1>8, <1>9 DEF s, x, inner, n

\* The connection matrix takes what leaves a port to its mate.
LEMMA ConnectedIsMate ==
  ASSUME NEW m, Sound(m), NEW a \in 1 .. Len(Internal(m)), NEW b \in 1 .. Len(Internal(m))
  PROVE  Connected(m, a, b) = IF b = Mate(a) THEN 1 ELSE 0
<1> DEFINE n == Len(m.connections)
<1>1. n \in Nat /\ DOMAIN m.connections = 1 .. n /\ a \in 1 .. 2 * n /\ b \in 1 .. 2 * n
  BY SoundTypes
<1> HIDE DEF n
<1>2. b = Mate(a) => \E k \in 1 .. n : {a, b} = {2 * k - 1, 2 * k} /\ a # b
  <2> SUFFICES ASSUME b = Mate(a) PROVE \E k \in 1 .. n : {a, b} = {2 * k - 1, 2 * k} /\ a # b
    OBVIOUS
  <2>1. PairOf(a) \in 1 .. n /\ {a, b} = {2 * PairOf(a) - 1, 2 * PairOf(a)} /\ a # b
    BY <1>1, MateFacts
  <2> QED
    BY <2>1
<1>3. (\E k \in 1 .. n : {a, b} = {2 * k - 1, 2 * k} /\ a # b) => b = Mate(a)
  <2> SUFFICES ASSUME NEW k \in 1 .. n, {a, b} = {2 * k - 1, 2 * k}, a # b
               PROVE  b = Mate(a)
    OBVIOUS
  <2>1. (a = 2 * k - 1 /\ b = 2 * k) \/ (a = 2 * k /\ b = 2 * k - 1)
    BY <1>1
  <2>2. (a = 2 * k - 1 => Mate(a) = 2 * k) /\ (a = 2 * k => Mate(a) = 2 * k - 1)
    BY <1>1 DEF Mate
  <2> QED
    BY <2>1, <2>2
<1> QED
  BY <1>1, <1>2, <1>3 DEF Connected

LEMMA AcrossIsMate ==
  ASSUME NEW m, Sound(m), manifest = m
  PROVE  /\ \A a \in 1 .. Len(Internal(m)) : Across(Internal(m)[a]) = {Internal(m)[Mate(a)]}
         /\ \A j \in 1 .. Len(m.external) : Across(m.external[j]) = {}
<1> DEFINE s == m.connections
           inner == Internal(m)
           n == Len(s)
<1>1. /\ n \in Nat /\ Len(inner) = 2 * n /\ DOMAIN s = 1 .. n
      /\ \A a \in 1 .. 2 * n : inner[a] \in Endpoints
      /\ \A k \in 1 .. n : inner[2 * k - 1] = s[k][1] /\ inner[2 * k] = s[k][2]
  BY SoundTypes
<1>2. \A c \in ToSet(s) : c = <<c[1], c[2]>>
  <2>1. s \in Seq(Names \X Names)
    BY DEF Sound, WellTyped, Lists
  <2>2. \A c \in ToSet(s) : c \in Names \X Names
    BY <2>1 DEF ToSet
  <2> QED
    BY <2>2
<1>3. \A e, y : y \in Across(e) <=>
        /\ y \in Endpoints
        /\ \E k \in 1 .. n : \/ e = inner[2 * k - 1] /\ y = inner[2 * k]
                             \/ e = inner[2 * k] /\ y = inner[2 * k - 1]
  <2> TAKE e, y
  <2>1. y \in Across(e) <=>
          y \in Endpoints /\ \E c \in ToSet(s) : <<e, y>> \in {c, <<c[2], c[1]>>}
    BY DEF Across
  <2>2. (\E c \in ToSet(s) : <<e, y>> \in {c, <<c[2], c[1]>>}) <=>
        \E k \in 1 .. n : (e = s[k][1] /\ y = s[k][2]) \/ (e = s[k][2] /\ y = s[k][1])
    <3>1. \A k \in 1 .. n : s[k] \in ToSet(s)
      BY <1>1 DEF ToSet
    <3>2. \A c \in ToSet(s) : \E k \in 1 .. n : c = s[k]
      BY <1>1 DEF ToSet
    <3>3. \A c \in ToSet(s) : <<e, y>> \in {c, <<c[2], c[1]>>} <=>
                                (e = c[1] /\ y = c[2]) \/ (e = c[2] /\ y = c[1])
      <4> HIDE DEF s
      <4> TAKE c \in ToSet(s)
      <4>1. c = <<c[1], c[2]>>
        BY <1>2
      <4> QED
        BY <4>1
    <3> HIDE DEF s, n
    <3> QED  BY <3>1, <3>2, <3>3
  <2> HIDE DEF s, n, inner
  <2> QED  BY <1>1, <2>1, <2>2
<1>4. ASSUME NEW a \in 1 .. 2 * n
      PROVE  Across(inner[a]) = {inner[Mate(a)]}
  <2>1. \A b \in 1 .. 2 * n : inner[a] = inner[b] => a = b
    BY <1>1, SoundEndpoints
  <2> DEFINE k == PairOf(a)
  <2> HIDE DEF s, n, inner, k
  <2>2. /\ k \in 1 .. n /\ Mate(a) \in 1 .. 2 * n
        /\ \/ a = 2 * k - 1 /\ Mate(a) = 2 * k
           \/ a = 2 * k /\ Mate(a) = 2 * k - 1
    BY <1>1, MateFacts DEF k
  <2>3. inner[Mate(a)] \in Across(inner[a])
    <3>1. \/ inner[a] = inner[2 * k - 1] /\ inner[Mate(a)] = inner[2 * k]
          \/ inner[a] = inner[2 * k] /\ inner[Mate(a)] = inner[2 * k - 1]
      BY <2>2
    <3>2. inner[Mate(a)] \in Endpoints
      BY <1>1, <2>2
    <3> QED
      BY <1>3, <2>2, <3>1, <3>2
  <2>4. ASSUME NEW y \in Across(inner[a])
        PROVE  y = inner[Mate(a)]
    <3>1. PICK j \in 1 .. n : \/ inner[a] = inner[2 * j - 1] /\ y = inner[2 * j]
                              \/ inner[a] = inner[2 * j] /\ y = inner[2 * j - 1]
      BY <1>3, <2>4
    <3>2. 2 * j - 1 \in 1 .. 2 * n /\ 2 * j \in 1 .. 2 * n /\ j \in Nat /\ k \in Nat
      BY <1>1, <2>2
    <3>3. \/ a = 2 * j - 1 /\ y = inner[2 * j]
          \/ a = 2 * j /\ y = inner[2 * j - 1]
      BY <2>1, <3>1, <3>2
    <3>4. \/ a = 2 * j - 1 /\ Mate(a) = 2 * j
          \/ a = 2 * j /\ Mate(a) = 2 * j - 1
      BY <2>2, <3>2, <3>3
    <3>5. ~(a = 2 * j - 1 /\ a = 2 * j)
      BY <3>2
    <3> QED
      BY <3>3, <3>4, <3>5
  <2> QED
    BY <2>3, <2>4
<1>5. ASSUME NEW j \in 1 .. Len(m.external)
      PROVE  Across(m.external[j]) = {}
  <2>1. \A a \in 1 .. 2 * n : inner[a] # m.external[j]
    BY <1>1, SoundEndpoints
  <2> HIDE DEF s, n, inner
  <2>2. \A k \in 1 .. n : 2 * k - 1 \in 1 .. 2 * n /\ 2 * k \in 1 .. 2 * n
    BY <1>1
  <2> QED
    BY <1>3, <2>1, <2>2
<1> QED
  BY <1>1, <1>4, <1>5
-----------------------------------------------------------------------------
(* The matrix over the ports of all instances.                             *)

\* The first k instances are in g, each with its ports in a slice.
Laid(g, k) ==
  /\ g \in Seq(Endpoints)
  /\ \A a \in 1 .. Len(g) : \E j \in 1 .. k : g[a][1] = Instances[j]
  /\ \A a, b \in 1 .. Len(g) : g[a] = g[b] => a = b
  /\ \A j \in 1 .. k : \E q \in Nat : \A p \in 1 .. Len(PortsOf(Instances[j])) :
       q + p \in 1 .. Len(g) /\ g[q + p] = <<Instances[j], PortsOf(Instances[j])[p]>>

LEMMA LaidStep ==
  ASSUME NEW k \in Nat, k + 1 \in 1 .. Len(Instances), NEW g, Laid(g, k)
  PROVE  Laid(g \o PortList(Instances[k + 1]), k + 1)
<1> DEFINE i == Instances[k + 1]
           l == PortList(i)
           n == Len(PortsOf(i))
           f == g \o l
<1>1. /\ Len(Instances) \in Nat /\ DOMAIN Instances = 1 .. Len(Instances)
      /\ \A a, b \in 1 .. Len(Instances) : Instances[a] = Instances[b] => a = b
  BY CircuitAssumption DEF IsInjective
<1>2. i \in ToSet(Instances)
  BY <1>1 DEF ToSet
<1>3. /\ l \in Seq(Endpoints) /\ Len(l) = n /\ n \in Nat \ {0}
      /\ \A p \in 1 .. n : l[p] = <<i, PortsOf(i)[p]>>
      /\ \A p, q \in 1 .. n : PortsOf(i)[p] = PortsOf(i)[q] => p = q
  BY <1>2, PortListFacts
<1>4. g \in Seq(Endpoints) /\ Len(g) \in Nat
  BY DEF Laid
<1> HIDE DEF i, l, n
<1>5. /\ f \in Seq(Endpoints) /\ Len(f) = Len(g) + n
      /\ \A a \in 1 .. Len(g) + n : f[a] = IF a <= Len(g) THEN g[a] ELSE l[a - Len(g)]
  BY <1>3, <1>4, ConcatProperties, ZenonT(60)
<1> HIDE DEF f
<1>6. \A a \in 1 .. Len(g) : a \in 1 .. Len(f) /\ f[a] = g[a]
  BY <1>3, <1>4, <1>5
<1>7. \A p \in 1 .. n : Len(g) + p \in 1 .. Len(f) /\ f[Len(g) + p] = <<i, PortsOf(i)[p]>>
  <2> TAKE p \in 1 .. n
  <2>1. Len(g) + p \in 1 .. Len(g) + n /\ ~(Len(g) + p <= Len(g)) /\ (Len(g) + p) - Len(g) = p
    BY <1>3, <1>4
  <2> QED
    BY <1>3, <1>5, <2>1
<1>8. \A a \in 1 .. Len(f) : \/ a \in 1 .. Len(g)
                             \/ \E p \in 1 .. n : a = Len(g) + p
  <2> TAKE a \in 1 .. Len(f)
  <2>1. a \in 1 .. Len(g) \/ (a - Len(g) \in 1 .. n /\ a = Len(g) + (a - Len(g)))
    BY <1>3, <1>4, <1>5
  <2> QED
    BY <2>1
<1>9. \A a \in 1 .. Len(g) : g[a][1] # i
  <2> TAKE a \in 1 .. Len(g)
  <2>1. PICK j \in 1 .. k : g[a][1] = Instances[j]
    BY DEF Laid
  <2>2. j \in 1 .. Len(Instances) /\ j # k + 1
    BY <1>1
  <2> QED
    BY <1>1, <2>1, <2>2 DEF i
<1>10. \A a \in 1 .. Len(f) : \E j \in 1 .. k + 1 : f[a][1] = Instances[j]
  <2> TAKE a \in 1 .. Len(f)
  <2>1. CASE a \in 1 .. Len(g)
    <3>1. PICK j \in 1 .. k : g[a][1] = Instances[j]
      BY <2>1 DEF Laid
    <3>2. j \in 1 .. k + 1
      OBVIOUS
    <3> QED
      BY <1>6, <2>1, <3>1, <3>2
  <2>2. CASE \E p \in 1 .. n : a = Len(g) + p
    <3>1. f[a][1] = i
      BY <1>7, <2>2
    <3> QED
      BY <3>1 DEF i
  <2> QED
    BY <1>8, <2>1, <2>2
<1>11. \A a, b \in 1 .. Len(f) : f[a] = f[b] => a = b
  <2> TAKE a \in 1 .. Len(f), b \in 1 .. Len(f)
  <2> HAVE f[a] = f[b]
  <2>1. CASE a \in 1 .. Len(g) /\ b \in 1 .. Len(g)
    BY <1>6, <2>1 DEF Laid
  <2>2. CASE a \in 1 .. Len(g) /\ \E q \in 1 .. n : b = Len(g) + q
    BY <1>6, <1>7, <1>9, <2>2
  <2>3. CASE b \in 1 .. Len(g) /\ \E p \in 1 .. n : a = Len(g) + p
    BY <1>6, <1>7, <1>9, <2>3
  <2>4. CASE (\E p \in 1 .. n : a = Len(g) + p) /\ \E q \in 1 .. n : b = Len(g) + q
    <3>1. PICK p \in 1 .. n : a = Len(g) + p
      BY <2>4
    <3>2. PICK q \in 1 .. n : b = Len(g) + q
      BY <2>4
    <3>3. PortsOf(i)[p] = PortsOf(i)[q]
      BY <1>7, <3>1, <3>2
    <3> QED
      BY <1>3, <3>1, <3>2, <3>3
  <2> QED
    BY <1>8, <2>1, <2>2, <2>3, <2>4
<1>12. \A j \in 1 .. k + 1 : \E q \in Nat : \A p \in 1 .. Len(PortsOf(Instances[j])) :
         q + p \in 1 .. Len(f) /\ f[q + p] = <<Instances[j], PortsOf(Instances[j])[p]>>
  <2> TAKE j \in 1 .. k + 1
  <2>1. CASE j \in 1 .. k
    <3>1. PICK q \in Nat : \A p \in 1 .. Len(PortsOf(Instances[j])) :
            q + p \in 1 .. Len(g) /\ g[q + p] = <<Instances[j], PortsOf(Instances[j])[p]>>
      BY <2>1 DEF Laid
    <3> QED
      BY <1>6, <3>1
  <2>2. CASE j = k + 1
    BY <1>4, <1>7, <2>2 DEF i, n
  <2>3. j \in 1 .. k \/ j = k + 1
    OBVIOUS
  <2> QED
    BY <2>1, <2>2, <2>3
<1> QED
  BY <1>5, <1>10, <1>11, <1>12 DEF Laid, f, l, i

LEMMA GlobalLaid == Laid(Global, Len(Instances))
<1> DEFINE s == Instances
<1>1. PICK h \in [0 .. Len(s) -> Seq(Endpoints)] :
        /\ h[0] = <<>> /\ h[Len(s)] = Global
        /\ \A k \in 1 .. Len(s) : h[k] = (h[k - 1] \o PortList(s[k]))
  <2> HIDE DEF s
  <2>1. s = Instances
    BY DEF s
  <2> QED
    BY <2>1, GlobalFold
<1>2. Len(s) \in Nat
  BY CircuitAssumption
<1> DEFINE S == {k \in Nat : k <= Len(s) => Laid(h[k], k)}
<1>3. 0 \in S
  BY <1>1 DEF Laid
<1>4. ASSUME NEW k \in Nat, k \in S
      PROVE  k + 1 \in S
  <2> SUFFICES ASSUME k + 1 <= Len(s) PROVE Laid(h[k + 1], k + 1)
    OBVIOUS
  <2>1. k + 1 \in 1 .. Len(s) /\ (k + 1) - 1 = k /\ k <= Len(s)
    BY <1>2
  <2>2. h[k + 1] = h[k] \o PortList(Instances[k + 1]) /\ Laid(h[k], k)
    BY <1>1, <1>4, <2>1
  <2> QED
    BY <2>1, <2>2, LaidStep
<1>5. Len(s) \in S
  <2> HIDE DEF S
  <2> QED  BY <1>2, <1>3, <1>4, Inductive
<1> QED
  BY <1>1, <1>2, <1>5

LEMMA IndexFacts ==
  /\ DOMAIN Global = 1 .. Len(Global) /\ Len(Global) \in Nat
  /\ \A e \in Endpoints : Index(e) \in 1 .. Len(Global) /\ Global[Index(e)] = e
  /\ \A a \in 1 .. Len(Global) : Global[a] \in Endpoints /\ Index(Global[a]) = a
<1>1. /\ Global \in Seq(Endpoints)
      /\ \A a, b \in 1 .. Len(Global) : Global[a] = Global[b] => a = b
      /\ \A j \in 1 .. Len(Instances) : \E q \in Nat : \A p \in 1 .. Len(PortsOf(Instances[j])) :
           /\ q + p \in 1 .. Len(Global)
           /\ Global[q + p] = <<Instances[j], PortsOf(Instances[j])[p]>>
  BY GlobalLaid DEF Laid
<1>2. DOMAIN Global = 1 .. Len(Global) /\ Len(Global) \in Nat
  BY <1>1
<1>3. \A e \in Endpoints : \E a \in 1 .. Len(Global) : Global[a] = e
  <2> TAKE e \in Endpoints
  <2>1. e[1] \in ToSet(Instances) /\ e[2] \in ToSet(PortsOf(e[1])) /\ e = <<e[1], e[2]>>
    BY EndpointHasInstance
  <2>2. PICK j \in 1 .. Len(Instances) : e[1] = Instances[j]
    BY <2>1, CircuitAssumption DEF ToSet
  <2>3. PICK p \in 1 .. Len(PortsOf(e[1])) : e[2] = PortsOf(e[1])[p]
    BY <2>1, PortListFacts DEF ToSet
  <2>4. PICK q \in Nat : \A r \in 1 .. Len(PortsOf(Instances[j])) :
          /\ q + r \in 1 .. Len(Global)
          /\ Global[q + r] = <<Instances[j], PortsOf(Instances[j])[r]>>
    BY <1>1
  <2>5. q + p \in 1 .. Len(Global) /\ Global[q + p] = <<e[1], e[2]>>
    BY <2>2, <2>3, <2>4
  <2> QED
    BY <2>1, <2>5
<1>4. \A e \in Endpoints : Index(e) \in 1 .. Len(Global) /\ Global[Index(e)] = e
  BY <1>2, <1>3 DEF Index
<1>5. \A a \in 1 .. Len(Global) : Global[a] \in Endpoints
  BY <1>1
<1> QED
  BY <1>1, <1>2, <1>4, <1>5

LEMMA SliceFacts ==
  ASSUME NEW i \in ToSet(Instances)
  PROVE  /\ Offset(i) \in Nat
         /\ \A p \in 1 .. Len(PortsOf(i)) : /\ <<i, PortsOf(i)[p]>> \in Endpoints
                                            /\ Index(<<i, PortsOf(i)[p]>>) = Offset(i) + p
<1>1. PICK j \in 1 .. Len(Instances) : i = Instances[j]
  BY CircuitAssumption DEF ToSet
<1>2. PICK q \in Nat : \A p \in 1 .. Len(PortsOf(i)) :
        q + p \in 1 .. Len(Global) /\ Global[q + p] = <<i, PortsOf(i)[p]>>
  BY <1>1, GlobalLaid DEF Laid
<1>3. \A p \in 1 .. Len(PortsOf(i)) : /\ <<i, PortsOf(i)[p]>> \in Endpoints
                                      /\ Index(<<i, PortsOf(i)[p]>>) = q + p
  <2> TAKE p \in 1 .. Len(PortsOf(i))
  <2>1. q + p \in 1 .. Len(Global) /\ Global[q + p] = <<i, PortsOf(i)[p]>>
    BY <1>2
  <2> QED
    BY <2>1, IndexFacts
<1>4. 1 \in 1 .. Len(PortsOf(i))
  BY PortListFacts
<1>5. Offset(i) = q
  BY <1>3, <1>4 DEF Offset
<1> QED
  BY <1>3, <1>5

\* An entry of the system is an entry of the table of the instance that both
\* endpoints belong to, or 0.
LEMMA SystemEntry ==
  ASSUME NEW t, NEW w, NEW o \in Endpoints, NEW e \in Endpoints
  PROVE  /\ o[1] = e[1] =>
              System(t, w)[Index(o)][Index(e)] = Entry(t[PartOf[e[1]]], w, o[2], e[2])
         /\ o[1] # e[1] => System(t, w)[Index(o)][Index(e)] = 0
<1> DEFINE a == Index(o)
           b == Index(e)
<1>1. /\ a \in DOMAIN Global /\ b \in DOMAIN Global /\ Global[a] = o /\ Global[b] = e
      /\ a \in Int /\ b \in Int
  BY IndexFacts
<1>2. e[1] \in ToSet(Instances) /\ o[1] \in ToSet(Instances)
  BY EndpointHasInstance
<1>3. PICK p \in 1 .. Len(PortsOf(o[1])) : o = <<o[1], PortsOf(o[1])[p]>>
  <2>1. o[2] \in ToSet(PortsOf(o[1])) /\ o = <<o[1], o[2]>>
    BY EndpointHasInstance
  <2> QED
    BY <1>2, <2>1, PortListFacts DEF ToSet
<1>4. PICK q \in 1 .. Len(PortsOf(e[1])) : e = <<e[1], PortsOf(e[1])[q]>>
  <2>1. e[2] \in ToSet(PortsOf(e[1])) /\ e = <<e[1], e[2]>>
    BY EndpointHasInstance
  <2> QED
    BY <1>2, <2>1, PortListFacts DEF ToSet
<1>5. a = Offset(o[1]) + p /\ b = Offset(e[1]) + q
  BY <1>2, <1>3, <1>4, SliceFacts
<1>6. \A i \in ToSet(Instances), c \in DOMAIN Global :
        c \in Offset(i) + 1 .. Offset(i) + Len(PortsOf(i)) => Global[c][1] = i
  <2> TAKE i \in ToSet(Instances), c \in DOMAIN Global
  <2> HAVE c \in Offset(i) + 1 .. Offset(i) + Len(PortsOf(i))
  <2> DEFINE r == c - Offset(i)
  <2>1. r \in 1 .. Len(PortsOf(i)) /\ c = Offset(i) + r
    BY SliceFacts, PortListFacts
  <2> HIDE DEF r
  <2>2. <<i, PortsOf(i)[r]>> \in Endpoints /\ Index(<<i, PortsOf(i)[r]>>) = c
    BY <2>1, SliceFacts
  <2>3. Global[c] = <<i, PortsOf(i)[r]>>
    BY <2>2, IndexFacts
  <2> QED
    BY <2>3
<1> DEFINE Shared(x, y) ==
             \E i \in ToSet(Instances) :
               {x, y} \subseteq Offset(i) + 1 .. Offset(i) + Len(PortsOf(i))
           Value(x, y) ==
             LET i == Global[x][1]
             IN Entry(t[PartOf[i]], w, PortsOf(i)[x - Offset(i)], PortsOf(i)[y - Offset(i)])
<1>7. System(t, w)[a][b] = IF Shared(a, b) THEN Value(a, b) ELSE 0
  <2>1. System(t, w) = [x \in DOMAIN Global |-> [y \in DOMAIN Global |->
          IF Shared(x, y) THEN Value(x, y) ELSE 0]]
    BY DEF System
  <2>2. a \in DOMAIN Global /\ b \in DOMAIN Global
    BY <1>1
  <2> HIDE DEF Shared, Value, a, b
  <2>3. \A x, y \in DOMAIN Global :
          System(t, w)[x][y] = IF Shared(x, y) THEN Value(x, y) ELSE 0
    BY <2>1
  <2> QED
    BY <2>2, <2>3
<1> HIDE DEF a, b
<1>8. ASSUME o[1] = e[1]
      PROVE  System(t, w)[a][b] = Entry(t[PartOf[e[1]]], w, o[2], e[2])
  <2> DEFINE i == e[1]
  <2>1. Offset(i) \in Nat /\ Len(PortsOf(i)) \in Nat
    BY <1>2, SliceFacts, PortListFacts
  <2> HIDE DEF i
  <2>2. a = Offset(i) + p /\ b = Offset(i) + q
        /\ p \in 1 .. Len(PortsOf(i)) /\ q \in 1 .. Len(PortsOf(i))
    BY <1>3, <1>4, <1>5, <1>8 DEF i
  <2>3. {a, b} \subseteq Offset(i) + 1 .. Offset(i) + Len(PortsOf(i))
    BY <2>1, <2>2
  <2>4. Shared(a, b)
    BY <1>2, <2>3 DEF i
  <2>5. a - Offset(i) = p /\ b - Offset(i) = q
    BY <2>1, <2>2
  <2>6. Global[a][1] = i /\ o[2] = PortsOf(i)[p] /\ e[2] = PortsOf(i)[q]
    BY <1>1, <1>3, <1>4, <1>8 DEF i
  <2>7. Value(a, b) = Entry(t[PartOf[i]], w, o[2], e[2])
    BY <2>5, <2>6
  <2> HIDE DEF Shared, Value
  <2> QED  BY <1>7, <2>4, <2>7 DEF i
<1>9. ASSUME o[1] # e[1]
      PROVE  System(t, w)[a][b] = 0
  <2>1. ~Shared(a, b)
    BY <1>1, <1>6, <1>9
  <2> HIDE DEF Shared, Value
  <2> QED  BY <1>7, <2>1
<1> QED
  BY <1>8, <1>9 DEF a, b
-----------------------------------------------------------------------------
(* The matrix of tables that are valid has at most one 1 in a row and in a *)
(* column, where light passes from one endpoint of an instance to another. *)

Permutes(s) ==
  /\ \A o, e \in Endpoints : s[Index(o)][Index(e)] \in {0, 1}
  /\ \A o, e, f \in Endpoints :
       s[Index(o)][Index(e)] = 1 /\ s[Index(o)][Index(f)] = 1 => e = f
  /\ \A e, o, q \in Endpoints :
       s[Index(o)][Index(e)] = 1 /\ s[Index(q)][Index(e)] = 1 => o = q

Loaded ==
  /\ DOMAIN tables = Parts /\ \A c \in Parts : tables[c] \in Tables[c]
  /\ DataValid(tables)

FirstGrid == Grid(tables[PartOf[Instances[1]]])

LEMMA EntryFacts ==
  ASSUME Loaded, NEW w \in FirstGrid, NEW c \in Parts
  PROVE  /\ \A p, q \in ToSet(Ports[c]) : Entry(tables[c], w, p, q) \in {0, 1}
         /\ \A p, q, r \in ToSet(Ports[c]) :
              /\ Entry(tables[c], w, p, q) = 1 /\ Entry(tables[c], w, p, r) = 1 => q = r
              /\ Entry(tables[c], w, q, p) = 1 /\ Entry(tables[c], w, r, p) = 1 => q = r
<1> DEFINE rows == tables[c]
           d == PartOf[Instances[1]]
<1>1. d \in Parts
  <2>1. Instances[1] \in ToSet(Instances)
    BY CircuitAssumption DEF ToSet
  <2> QED
    BY <2>1 DEF Parts
<1>2. TableValid(c, rows) /\ Grid(rows) = Grid(tables[d]) /\ rows \in Tables[c]
  BY <1>1 DEF Loaded, DataValid
<1>3. w \in Grid(rows)
  BY <1>2 DEF FirstGrid
<1> HIDE DEF rows, d
<1>4. Passive(c, rows) /\ \A p, q \in ToSet(Ports[c]) :
        \E r \in ToSet(rows) : <<r[1], r[2], r[3]>> = <<w, p, q>>
  BY <1>2, <1>3 DEF TableValid
<1>5. \A r \in ToSet(rows) : r[4] \in {0, 1}
  BY <1>2, CircuitAssumption
<1>6. ASSUME NEW p \in ToSet(Ports[c]), NEW q \in ToSet(Ports[c])
      PROVE  Entry(rows, w, p, q) \in {0, 1}
  <2> DEFINE row == CHOOSE r \in ToSet(rows) : r[1] = w /\ r[2] = p /\ r[3] = q
  <2>1. \E r \in ToSet(rows) : r[1] = w /\ r[2] = p /\ r[3] = q
    BY <1>4
  <2>2. row \in ToSet(rows)
    BY <2>1
  <2>3. Entry(rows, w, p, q) = row[4]
    BY DEF Entry
  <2> HIDE DEF row
  <2> QED  BY <1>5, <2>2, <2>3
<1>7. ASSUME NEW p \in ToSet(Ports[c]), NEW q \in ToSet(Ports[c]), NEW r \in ToSet(Ports[c])
      PROVE  /\ Entry(rows, w, p, q) = 1 /\ Entry(rows, w, p, r) = 1 => q = r
             /\ Entry(rows, w, q, p) = 1 /\ Entry(rows, w, r, p) = 1 => q = r
  BY <1>3, <1>4 DEF Passive
<1> QED
  BY <1>6, <1>7 DEF rows

LEMMA MatrixFacts ==
  ASSUME Loaded, NEW w \in FirstGrid
  PROVE  /\ Permutes(System(tables, w))
         /\ \A e \in Endpoints : Leaving(w, e) \subseteq Endpoints
         /\ \A e, o \in Endpoints :
              o \in Leaving(w, e) <=> System(tables, w)[Index(o)][Index(e)] = 1
<1> DEFINE V(o, e) == System(tables, w)[Index(o)][Index(e)]
           N(o, e) == Entry(tables[PartOf[e[1]]], w, o[2], e[2])
<1>1. \A o, e \in Endpoints : /\ o[1] = e[1] => V(o, e) = N(o, e)
                              /\ o[1] # e[1] => V(o, e) = 0
  BY SystemEntry
<1>2. \A e \in Endpoints : /\ e[1] \in ToSet(Instances) /\ PartOf[e[1]] \in Parts
                           /\ e[2] \in ToSet(Ports[PartOf[e[1]]]) /\ e = <<e[1], e[2]>>
  BY EndpointHasInstance DEF Parts, PortsOf
<1>3. \A o, e \in Endpoints : o[1] = e[1] => N(o, e) \in {0, 1}
  BY <1>2, EntryFacts
<1>4. \A o, e \in Endpoints : V(o, e) \in {0, 1} /\ (V(o, e) = 1 => o[1] = e[1] /\ N(o, e) = 1)
  <2> HIDE DEF V, N
  <2> QED  BY <1>1, <1>3
<1>5. ASSUME NEW o \in Endpoints, NEW e \in Endpoints, NEW f \in Endpoints,
             V(o, e) = 1, V(o, f) = 1
      PROVE  e = f
  <2>1. o[1] = e[1] /\ o[1] = f[1] /\ N(o, e) = 1 /\ N(o, f) = 1
    BY <1>4, <1>5
  <2> DEFINE c == PartOf[o[1]]
  <2>2. c \in Parts /\ o[2] \in ToSet(Ports[c]) /\ e[2] \in ToSet(Ports[c]) /\ f[2] \in ToSet(Ports[c])
    BY <1>2, <2>1
  <2>3. Entry(tables[c], w, o[2], e[2]) = 1 /\ Entry(tables[c], w, o[2], f[2]) = 1
    BY <2>1
  <2> HIDE DEF c
  <2>4. e[2] = f[2]
    BY <2>2, <2>3, EntryFacts
  <2> QED
    BY <1>2, <2>1, <2>4
<1>6. ASSUME NEW e \in Endpoints, NEW o \in Endpoints, NEW q \in Endpoints,
             V(o, e) = 1, V(q, e) = 1
      PROVE  o = q
  <2>1. o[1] = e[1] /\ q[1] = e[1] /\ N(o, e) = 1 /\ N(q, e) = 1
    BY <1>4, <1>6
  <2> DEFINE c == PartOf[e[1]]
  <2>2. c \in Parts /\ o[2] \in ToSet(Ports[c]) /\ e[2] \in ToSet(Ports[c]) /\ q[2] \in ToSet(Ports[c])
    BY <1>2, <2>1
  <2>3. Entry(tables[c], w, o[2], e[2]) = 1 /\ Entry(tables[c], w, q[2], e[2]) = 1
    BY <2>1
  <2> HIDE DEF c
  <2>4. o[2] = q[2]
    BY <2>2, <2>3, EntryFacts
  <2> QED
    BY <1>2, <2>1, <2>4
<1>7. Permutes(System(tables, w))
  <2>1. /\ \A o, e \in Endpoints : V(o, e) \in {0, 1}
        /\ \A o, e, f \in Endpoints : V(o, e) = 1 /\ V(o, f) = 1 => e = f
        /\ \A e, o, q \in Endpoints : V(o, e) = 1 /\ V(q, e) = 1 => o = q
    <3> HIDE DEF V
    <3> QED  BY <1>4, <1>5, <1>6
  <2> QED
    BY <2>1 DEF Permutes
<1>8. \A e, o : o \in Leaving(w, e) <=>
        \E q \in ToSet(PortsOf(e[1])) :
          Entry(tables[PartOf[e[1]]], w, q, e[2]) = 1 /\ o = <<e[1], q>>
  BY DEF Leaving
<1>9. ASSUME NEW e \in Endpoints, NEW o \in Leaving(w, e)
      PROVE  o \in Endpoints
  <2>1. PICK q \in ToSet(PortsOf(e[1])) : o = <<e[1], q>>
    BY <1>8, <1>9
  <2> QED
    BY <1>2, <2>1 DEF Endpoints
<1>10. ASSUME NEW e \in Endpoints, NEW o \in Endpoints
       PROVE  o \in Leaving(w, e) <=> V(o, e) = 1
  <2>1. ASSUME o \in Leaving(w, e)
        PROVE  V(o, e) = 1
    <3>1. PICK q \in ToSet(PortsOf(e[1])) :
            Entry(tables[PartOf[e[1]]], w, q, e[2]) = 1 /\ o = <<e[1], q>>
      BY <1>8, <2>1
    <3>2. o[1] = e[1] /\ N(o, e) = 1
      BY <3>1
    <3> HIDE DEF V, N
    <3> QED  BY <1>1, <3>2
  <2>2. ASSUME V(o, e) = 1
        PROVE  o \in Leaving(w, e)
    <3>1. o[1] = e[1] /\ N(o, e) = 1
      BY <1>4, <2>2
    <3>2. o[2] \in ToSet(PortsOf(e[1])) /\ o = <<e[1], o[2]>>
      BY <1>2, <3>1 DEF PortsOf
    <3> QED
      BY <1>8, <3>1, <3>2
  <2> QED
    BY <2>1, <2>2
<1> QED
  BY <1>7, <1>9, <1>10

-----------------------------------------------------------------------------
(* What compose solves and what it computes of the solution.               *)

\* Light that enters endpoint e enters internal port a next.
Moves(m, s, e, a) == s[Index(Internal(m)[Mate(a)])][Index(e)] = 1

\* The internal ports that light enters if x says so and more enters at port in.
Settled(m, s, in, x) ==
  \A a \in 1 .. Len(Internal(m)) :
    x[a] = 1 <=> \/ Moves(m, s, m.external[in], a)
                 \/ \E d \in 1 .. Len(Internal(m)) : Moves(m, s, Internal(m)[d], a) /\ x[d] = 1

LEMMA MovesFacts ==
  ASSUME NEW m, Sound(m), NEW s, Permutes(s), NEW a \in 1 .. Len(Internal(m))
  PROVE  /\ \A d, e \in Endpoints : Moves(m, s, d, a) /\ Moves(m, s, e, a) => d = e
         /\ \A e \in Endpoints, b \in 1 .. Len(Internal(m)) :
              Moves(m, s, e, a) /\ Moves(m, s, e, b) => a = b
<1> DEFINE n == Len(m.connections)
           inner == Internal(m)
<1>1. /\ n \in Nat /\ Len(inner) = 2 * n
      /\ \A b \in 1 .. 2 * n : inner[b] \in Endpoints
      /\ \A b, c \in 1 .. 2 * n : inner[b] = inner[c] => b = c
  <2>1. n \in Nat /\ Len(inner) = 2 * n /\ \A b \in 1 .. Len(inner) : inner[b] \in Endpoints
    BY SoundTypes
  <2>2. \A b, c \in 1 .. Len(inner) : inner[b] = inner[c] => b = c
    BY SoundEndpoints
  <2> HIDE DEF n, inner
  <2> QED  BY <2>1, <2>2
<1>2. \A b \in 1 .. 2 * n : Mate(b) \in 1 .. 2 * n /\ Mate(Mate(b)) = b
  BY <1>1, MateFacts
<1> HIDE DEF n, inner
<1>3. a \in 1 .. 2 * n /\ inner[Mate(a)] \in Endpoints
  BY <1>1, <1>2 DEF inner
<1>4. \A d, e \in Endpoints : Moves(m, s, d, a) /\ Moves(m, s, e, a) => d = e
  BY <1>3 DEF Moves, Permutes, inner
<1>5. ASSUME NEW e \in Endpoints, NEW b \in 1 .. 2 * n, Moves(m, s, e, a), Moves(m, s, e, b)
      PROVE  a = b
  <2>1. inner[Mate(b)] \in Endpoints
    BY <1>1, <1>2
  <2>2. s[Index(inner[Mate(a)])][Index(e)] = 1 /\ s[Index(inner[Mate(b)])][Index(e)] = 1
    BY <1>5 DEF Moves, inner
  <2>3. inner[Mate(a)] = inner[Mate(b)]
    BY <1>3, <2>1, <2>2 DEF Permutes
  <2>4. Mate(a) = Mate(b)
    BY <1>1, <1>2, <1>3, <2>3
  <2> QED
    BY <1>2, <1>3, <2>4
<1> QED
  BY <1>1, <1>4, <1>5 DEF inner

\* The entries of row o at the internal ports, times those of x, are bits of which
\* at most one is set.
LEMMA RowSum ==
  ASSUME NEW m, Sound(m), NEW s, Permutes(s), NEW o \in Endpoints,
         NEW x \in [1 .. Len(Internal(m)) -> {0, 1}]
  PROVE  LET sum == SumFunction([d \in 1 .. Len(Internal(m)) |->
                                  s[Index(o)][Index(Internal(m)[d])] * x[d]])
         IN /\ sum \in {0, 1}
            /\ sum = 1 <=> \E d \in 1 .. Len(Internal(m)) :
                             s[Index(o)][Index(Internal(m)[d])] = 1 /\ x[d] = 1
<1> DEFINE n == Len(Internal(m))
           v(d) == s[Index(o)][Index(Internal(m)[d])]
           f == [d \in 1 .. n |-> v(d) * x[d]]
<1>1. /\ n \in Nat /\ \A d \in 1 .. n : Internal(m)[d] \in Endpoints
      /\ \A b, c \in 1 .. n : Internal(m)[b] = Internal(m)[c] => b = c
  <2>1. Len(m.connections) \in Nat /\ n = 2 * Len(m.connections)
    BY SoundTypes
  <2>2. n \in Nat
    BY <2>1
  <2> QED
    BY <2>2, SoundTypes, SoundEndpoints
<1>2. \A d \in 1 .. n : v(d) \in {0, 1}
  BY <1>1 DEF Permutes
<1>3. \A b, c \in 1 .. n : v(b) = 1 /\ v(c) = 1 => b = c
  BY <1>1 DEF Permutes
<1> HIDE DEF v
<1>4. \A d \in 1 .. n : /\ v(d) * x[d] \in {0, 1} /\ x[d] \in {0, 1}
                        /\ v(d) * x[d] = 1 <=> v(d) = 1 /\ x[d] = 1
  BY <1>2
<1>5. f \in [1 .. n -> {0, 1}]
  BY <1>4
<1>6. \A d \in 1 .. n : f[d] = 1 <=> v(d) = 1 /\ x[d] = 1
  BY <1>4
<1> HIDE DEF f, n
<1>7. \A b, c \in 1 .. n : f[b] = 1 /\ f[c] = 1 => b = c
  BY <1>3, <1>6
<1>8. SumFunction(f) \in {0, 1} /\ (SumFunction(f) = 1 <=> \E d \in 1 .. n : f[d] = 1)
  BY <1>1, <1>5, <1>7, SumOfBits
<1>9. SumFunction(f) \in {0, 1} /\ (SumFunction(f) = 1 <=> \E d \in 1 .. n : v(d) = 1 /\ x[d] = 1)
  BY <1>6, <1>8
<1> QED
  BY <1>9 DEF f, n, v
LEMMA LeavingBits ==
  ASSUME NEW m, Sound(m), NEW s, Permutes(s), NEW in \in 1 .. Len(m.external), NEW o \in Endpoints,
         NEW x \in [1 .. Len(Internal(m)) -> {0, 1}]
  PROVE  LET value == s[Index(o)][Index(m.external[in])]
                      + SumFunction([d \in 1 .. Len(Internal(m)) |->
                                      s[Index(o)][Index(Internal(m)[d])] * x[d]])
         IN /\ value \in {0, 1}
            /\ value = 1 <=> \/ s[Index(o)][Index(m.external[in])] = 1
                             \/ \E d \in 1 .. Len(Internal(m)) :
                                  s[Index(o)][Index(Internal(m)[d])] = 1 /\ x[d] = 1
<1> DEFINE n == Len(Internal(m))
           v(d) == s[Index(o)][Index(Internal(m)[d])]
           u == s[Index(o)][Index(m.external[in])]
           sum == SumFunction([d \in 1 .. n |-> v(d) * x[d]])
<1>1. sum \in {0, 1} /\ (sum = 1 <=> \E d \in 1 .. n : v(d) = 1 /\ x[d] = 1)
  BY RowSum
<1>2. m.external[in] \in Endpoints /\ u \in {0, 1}
  BY SoundTypes DEF Permutes
<1>3. \A d \in 1 .. n : ~(u = 1 /\ v(d) = 1)
  <2> TAKE d \in 1 .. n
  <2>1. Internal(m)[d] \in Endpoints /\ Internal(m)[d] # m.external[in]
    BY SoundTypes, SoundEndpoints
  <2> QED
    BY <1>2, <2>1 DEF Permutes
<1> HIDE DEF sum, u, v, n
<1>4. u + sum \in {0, 1} /\ (u + sum = 1 <=> u = 1 \/ sum = 1)
  BY <1>1, <1>2, <1>3
<1>5. u + sum \in {0, 1} /\ (u + sum = 1 <=> u = 1 \/ \E d \in 1 .. n : v(d) = 1 /\ x[d] = 1)
  BY <1>1, <1>4
<1> QED
  BY <1>5 DEF sum, u, v, n

LEMMA SolutionIff ==
  ASSUME NEW m, Sound(m), NEW s, Permutes(s), NEW in \in 1 .. Len(m.external),
         NEW x \in [1 .. Len(Internal(m)) -> {0, 1}]
  PROVE  x \in Solutions(m, s, in) <=> Settled(m, s, in, x)
<1> DEFINE inner == Internal(m)
           n == Len(inner)
           leaving(y) == [b \in 1 .. n |->
             s[Index(inner[b])][Index(m.external[in])]
             + SumFunction([d \in 1 .. n |-> s[Index(inner[b])][Index(inner[d])] * y[d]])]
           total(y, a) == SumFunction([b \in 1 .. n |-> Connected(m, a, b) * leaving(y)[b]])
<1>1. Solutions(m, s, in) =
        {y \in [1 .. n -> {0, 1}] : \A a \in 1 .. n : y[a] = total(y, a)}
  BY DEF Solutions
<1>2. /\ n \in Nat /\ \A a \in 1 .. n : inner[a] \in Endpoints
      /\ \A a \in 1 .. n : Mate(a) \in 1 .. n
      /\ \A a, b \in 1 .. n : Connected(m, a, b) = IF b = Mate(a) THEN 1 ELSE 0
  <2>1. Len(m.connections) \in Nat /\ n = 2 * Len(m.connections)
    BY SoundTypes
  <2>2. n \in Nat /\ \A a \in 1 .. n : Mate(a) \in 1 .. n
    <3> HIDE DEF n
    <3>1. \A a \in 1 .. n : Mate(a) \in 1 .. n
      BY <2>1, MateFacts
    <3> QED
      BY <2>1, <3>1
  <2>3. \A a, b \in 1 .. n : Connected(m, a, b) = IF b = Mate(a) THEN 1 ELSE 0
    BY ConnectedIsMate
  <2>4. \A a \in 1 .. n : inner[a] \in Endpoints
    BY SoundTypes
  <2> QED
    BY <2>2, <2>3, <2>4
<1> DEFINE Out(b) == \/ s[Index(inner[b])][Index(m.external[in])] = 1
                     \/ \E d \in 1 .. n : s[Index(inner[b])][Index(inner[d])] = 1 /\ x[d] = 1
           l == leaving(x)
<1>3. \A b \in 1 .. n : l[b] \in {0, 1} /\ (l[b] = 1 <=> Out(b))
  <2> TAKE b \in 1 .. n
  <2> DEFINE value == s[Index(inner[b])][Index(m.external[in])]
               + SumFunction([d \in 1 .. n |-> s[Index(inner[b])][Index(inner[d])] * x[d]])
  <2>1. inner[b] \in Endpoints
    BY <1>2
  <2>2. value \in {0, 1} /\ (value = 1 <=> Out(b))
    BY <2>1, LeavingBits
  <2>3. l[b] = value
    OBVIOUS
  <2> HIDE DEF l, value, Out
  <2> QED  BY <2>2, <2>3
<1>4. ASSUME NEW a \in 1 .. n
      PROVE  total(x, a) \in {0, 1} /\ (total(x, a) = 1 <=> Out(Mate(a)))
  <2> DEFINE f == [b \in 1 .. n |-> Connected(m, a, b) * l[b]]
  <2>1. total(x, a) = SumFunction(f)
    OBVIOUS
  <2> HIDE DEF l, inner, n, leaving, total, Out
  <2>2. \A b \in 1 .. n : /\ f[b] \in {0, 1}
                          /\ f[b] = 1 <=> b = Mate(a) /\ l[b] = 1
    BY <1>2, <1>3
  <2>3. f \in [1 .. n -> {0, 1}]
    <3>1. DOMAIN f = 1 .. n /\ f = [b \in DOMAIN f |-> f[b]]
      OBVIOUS
    <3> HIDE DEF f
    <3> QED  BY <2>2, <3>1
  <2> HIDE DEF f
  <2>4. \A b, c \in 1 .. n : f[b] = 1 /\ f[c] = 1 => b = c
    BY <2>2
  <2>5. SumFunction(f) \in {0, 1} /\ (SumFunction(f) = 1 <=> \E b \in 1 .. n : f[b] = 1)
    BY <1>2, <2>3, <2>4, SumOfBits
  <2>6. (\E b \in 1 .. n : f[b] = 1) <=> Out(Mate(a))
    BY <1>2, <1>3, <2>2
  <2> QED
    BY <2>1, <2>5, <2>6
<1>5. \A a \in 1 .. n : x[a] \in {0, 1}
  OBVIOUS
<1>6. x \in Solutions(m, s, in) <=> \A a \in 1 .. n : x[a] = 1 <=> Out(Mate(a))
  <2>1. x \in [1 .. n -> {0, 1}]
    OBVIOUS
  <2> HIDE DEF l, inner, n, leaving, total, Out
  <2>2. x \in Solutions(m, s, in) <=> \A a \in 1 .. n : x[a] = total(x, a)
    BY <1>1, <2>1
  <2>3. \A a \in 1 .. n : x[a] = total(x, a) <=> (x[a] = 1 <=> Out(Mate(a)))
    BY <1>4, <1>5
  <2> QED
    BY <2>2, <2>3
<1> QED
  BY <1>6 DEF Settled, Moves

\* An entry of the matrix of the network is 1 if light passes from port to port in
\* an instance, or comes from an internal port that it entered.
Passes(m, s, in, out, x) ==
  /\ External(m, s)[out][in] \in {0, 1}
  /\ External(m, s)[out][in] = 1 <=>
       \/ s[Index(m.external[out])][Index(m.external[in])] = 1
       \/ \E b \in 1 .. Len(Internal(m)) :
            s[Index(m.external[out])][Index(Internal(m)[b])] = 1 /\ x[b] = 1

LEMMA ExternalIff ==
  ASSUME NEW m, Sound(m), NEW s, Permutes(s), NEW in \in 1 .. Len(m.external),
         NEW out \in 1 .. Len(m.external), NEW x, Solutions(m, s, in) = {x}
  PROVE  Passes(m, s, in, out, x)
<1> DEFINE inner == Internal(m)
           n == Len(inner)
           o == m.external[out]
           response == [i \in DOMAIN m.external |-> CHOOSE y \in Solutions(m, s, i) : TRUE]
           value(y) == s[Index(o)][Index(m.external[in])]
                       + SumFunction([b \in 1 .. n |-> s[Index(o)][Index(inner[b])] * y[b]])
<1>1. in \in DOMAIN m.external /\ out \in DOMAIN m.external /\ o \in Endpoints
  BY SoundTypes
<1>2. External(m, s)[out][in] = value(response[in])
  BY <1>1 DEF External
<1>3. response[in] = x
  BY <1>1
<1>4. x \in [1 .. n -> {0, 1}]
  BY DEF Solutions
<1>5. /\ value(x) \in {0, 1}
      /\ value(x) = 1 <=> \/ s[Index(o)][Index(m.external[in])] = 1
                          \/ \E b \in 1 .. n : s[Index(o)][Index(inner[b])] = 1 /\ x[b] = 1
  <2> HIDE DEF o
  <2> QED  BY <1>1, <1>4, LeavingBits, SMTT(30)
<1>6. External(m, s)[out][in] = value(x)
  <2> HIDE DEF response, value
  <2> QED  BY <1>2, <1>3
<1> HIDE DEF value
<1> QED
  BY <1>5, <1>6 DEF Passes
-----------------------------------------------------------------------------
(* Following the light, as paths.                                          *)

Hop(w, e, y) == \E o \in Leaving(w, e) : y \in Across(o)

Path(w, p, k) == p \in [0 .. k -> Endpoints] /\ \A i \in 1 .. k : Hop(w, p[i - 1], p[i])

Reached(w, start, k) ==
  {y \in Endpoints : \E p \in [0 .. k -> Endpoints] : Path(w, p, k) /\ p[0] \in start /\ p[k] = y}

LEMMA PathExtended ==
  ASSUME NEW w, NEW k \in Nat, NEW p, Path(w, p, k), NEW y \in Endpoints, Hop(w, p[k], y)
  PROVE  \E q \in [0 .. k + 1 -> Endpoints] :
           Path(w, q, k + 1) /\ q[0] = p[0] /\ q[k + 1] = y
<1> DEFINE q == [i \in 0 .. k + 1 |-> IF i = k + 1 THEN y ELSE p[i]]
<1>1. p \in [0 .. k -> Endpoints] /\ \A i \in 1 .. k : Hop(w, p[i - 1], p[i])
  BY DEF Path
<1>2. q \in [0 .. k + 1 -> Endpoints]
  BY <1>1
<1>3. q[k + 1] = y /\ \A i \in 0 .. k : q[i] = p[i]
  OBVIOUS
<1> HIDE DEF q
<1>4. \A i \in 1 .. k + 1 : Hop(w, q[i - 1], q[i])
  <2> TAKE i \in 1 .. k + 1
  <2>1. CASE i \in 1 .. k
    <3>1. i \in 0 .. k /\ i - 1 \in 0 .. k
      BY <2>1
    <3>2. q[i] = p[i] /\ q[i - 1] = p[i - 1]
      BY <1>3, <3>1
    <3> QED
      BY <1>1, <2>1, <3>2
  <2>2. CASE i = k + 1
    <3>1. i - 1 = k /\ k \in 0 .. k
      BY <2>2
    <3>2. q[i] = y /\ q[i - 1] = p[k]
      BY <1>3, <2>2, <3>1
    <3> QED
      BY <3>2
  <2>3. i \in 1 .. k \/ i = k + 1
    OBVIOUS
  <2> QED
    BY <2>1, <2>2, <2>3
<1>5. q[0] = p[0]
  BY <1>3
<1>6. Path(w, q, k + 1)
  BY <1>2, <1>4 DEF Path
<1> QED
  BY <1>2, <1>3, <1>5, <1>6

\* A segment of a path is a path.
LEMMA Segment ==
  ASSUME NEW w, NEW k \in Nat, NEW p, Path(w, p, k), NEW i \in 0 .. k, NEW j \in i .. k
  PROVE  p[j] \in Reached(w, {p[i]}, j - i)
<1> DEFINE q == [t \in 0 .. j - i |-> p[i + t]]
<1>1. p \in [0 .. k -> Endpoints] /\ \A t \in 1 .. k : Hop(w, p[t - 1], p[t])
  BY DEF Path
<1>2. /\ q \in [0 .. j - i -> Endpoints]
      /\ q[0] = p[i] /\ q[j - i] = p[j] /\ p[j] \in Endpoints
  BY <1>1
<1>3. \A t \in 1 .. j - i : Hop(w, q[t - 1], q[t])
  <2> TAKE t \in 1 .. j - i
  <2>1. i + t \in 1 .. k /\ (i + t) - 1 = i + (t - 1) /\ t \in 0 .. j - i /\ t - 1 \in 0 .. j - i
    OBVIOUS
  <2>2. q[t] = p[i + t] /\ q[t - 1] = p[i + (t - 1)]
    BY <2>1
  <2>3. Hop(w, p[(i + t) - 1], p[i + t])
    BY <1>1, <2>1
  <2> HIDE DEF q
  <2> QED  BY <2>1, <2>2, <2>3
<1> HIDE DEF q
<1>4. Path(w, q, j - i)
  BY <1>2, <1>3 DEF Path
<1> QED
  BY <1>2, <1>4 DEF Reached

LEMMA ReachedSteps ==
  ASSUME NEW w, NEW start \in SUBSET Endpoints, NEW k \in Nat
  PROVE  /\ Reached(w, start, 0) = start
         /\ \A y : y \in Reached(w, start, k + 1) <=> \E e \in Reached(w, start, k) : Hop(w, e, y)
<1>1. Reached(w, start, 0) = start
  <2>1. ASSUME NEW y \in start
        PROVE  y \in Reached(w, start, 0)
    <3> DEFINE p == [i \in 0 .. 0 |-> y]
    <3>1. p \in [0 .. 0 -> Endpoints] /\ p[0] = y /\ y \in Endpoints
      OBVIOUS
    <3> HIDE DEF p
    <3>2. Path(w, p, 0)
      BY <3>1 DEF Path
    <3> QED
      BY <3>1, <3>2 DEF Reached
  <2>2. Reached(w, start, 0) \subseteq start
    BY DEF Reached
  <2> QED
    BY <2>1, <2>2
<1>2. ASSUME NEW y, NEW e \in Reached(w, start, k), Hop(w, e, y)
      PROVE  y \in Reached(w, start, k + 1)
  <2>1. PICK p \in [0 .. k -> Endpoints] : Path(w, p, k) /\ p[0] \in start /\ p[k] = e
    BY DEF Reached
  <2>2. y \in Endpoints
    BY <1>2 DEF Hop, Across
  <2>3. PICK q \in [0 .. k + 1 -> Endpoints] : Path(w, q, k + 1) /\ q[0] = p[0] /\ q[k + 1] = y
    BY <1>2, <2>1, <2>2, PathExtended
  <2> QED
    BY <2>1, <2>2, <2>3 DEF Reached
<1>3. ASSUME NEW y \in Reached(w, start, k + 1)
      PROVE  \E e \in Reached(w, start, k) : Hop(w, e, y)
  <2>1. PICK p \in [0 .. k + 1 -> Endpoints] : Path(w, p, k + 1) /\ p[0] \in start /\ p[k + 1] = y
    BY DEF Reached
  <2>2. 0 \in 0 .. k + 1 /\ k \in 0 .. k + 1 /\ k + 1 \in 1 .. k + 1 /\ (k + 1) - 1 = k
    OBVIOUS
  <2>3. Hop(w, p[k], y)
    BY <2>1, <2>2 DEF Path
  <2> DEFINE q == [i \in 0 .. k |-> p[i]]
  <2>4. q \in [0 .. k -> Endpoints] /\ \A i \in 0 .. k : q[i] = p[i]
    OBVIOUS
  <2> HIDE DEF q
  <2>5. \A i \in 1 .. k : Hop(w, q[i - 1], q[i])
    <3> TAKE i \in 1 .. k
    <3>1. i \in 0 .. k /\ i - 1 \in 0 .. k /\ i \in 1 .. k + 1
      OBVIOUS
    <3>2. Hop(w, p[i - 1], p[i])
      BY <2>1, <3>1 DEF Path
    <3> QED
      BY <2>4, <3>1, <3>2
  <2>6. Path(w, q, k)
    BY <2>4, <2>5 DEF Path
  <2>7. q[0] = p[0] /\ q[k] = p[k] /\ q[k] \in Endpoints
    BY <2>4
  <2>8. q[k] \in Reached(w, start, k)
    BY <2>1, <2>4, <2>6, <2>7 DEF Reached
  <2> QED
    BY <2>3, <2>7, <2>8
<1> QED
  BY <1>1, <1>2, <1>3

LEMMA FollowIsReached ==
  ASSUME NEW w, NEW start \in SUBSET Endpoints
  PROVE  \A k \in Nat : Follow(w, start, k) = Reached(w, start, k)
<1> DEFINE Onward(t) == UNION {Across(o) : o \in UNION {Leaving(w, e) : e \in t}}
           Steps(g) == g = [k \in Nat |-> IF k = 0 THEN start ELSE Onward(g[k - 1])]
           f == CHOOSE g : Steps(g)
           r == [k \in Nat |-> Reached(w, start, k)]
<1>1. \A k \in Nat : Follow(w, start, k) = f[k]
  BY DEF Follow
<1>2. \A t, y : y \in Onward(t) <=> \E e \in t : Hop(w, e, y)
  BY DEF Hop
<1>3. \A k \in Nat : Reached(w, start, k + 1) = Onward(Reached(w, start, k))
  <2> TAKE k \in Nat
  <2>1. \A y : y \in Reached(w, start, k + 1) <=> \E e \in Reached(w, start, k) : Hop(w, e, y)
    BY ReachedSteps
  <2> HIDE DEF Onward
  <2> QED  BY <1>2, <2>1
<1>4. Reached(w, start, 0) = start
  <2>1. 0 \in Nat
    OBVIOUS
  <2> QED
    BY <2>1, ReachedSteps
<1>5. Steps(r)
  <2> HIDE DEF Onward
  <2>1. ASSUME NEW k \in Nat
        PROVE  r[k] = IF k = 0 THEN start ELSE Onward(r[k - 1])
    <3>1. CASE k = 0
      BY <1>4, <3>1
    <3>2. CASE k # 0
      <4>1. k - 1 \in Nat /\ (k - 1) + 1 = k
        BY <3>2
      <4>2. Reached(w, start, k) = Onward(Reached(w, start, k - 1))
        BY <1>3, <4>1
      <4> QED
        BY <3>2, <4>1, <4>2
    <3> QED
      BY <3>1, <3>2
  <2> QED
    BY <2>1
<1>6. Steps(f)
  <2> HIDE DEF Steps, r
  <2> QED  BY <1>5
<1>7. f[0] = start /\ \A k \in Nat : f[k + 1] = Onward(f[k])
  <2> HIDE DEF f, Onward
  <2> QED  BY <1>6
<1> DEFINE S == {k \in Nat : f[k] = Reached(w, start, k)}
<1> HIDE DEF f, Onward
<1>8. 0 \in S
  BY <1>4, <1>7
<1>9. \A k \in Nat : k \in S => k + 1 \in S
  BY <1>3, <1>7
<1>10. \A k \in Nat : k \in S
  <2> HIDE DEF S
  <2> QED  BY <1>8, <1>9, Inductive
<1> QED
  BY <1>1, <1>10

LEMMA EndpointsFinite ==
  IsFiniteSet(Endpoints) /\ Cardinality(Endpoints) \in Nat
<1> DEFINE n == Len(Global)
           f == [e \in Endpoints |-> Index(e)]
<1>1. n \in Nat /\ \A e \in Endpoints : Index(e) \in 1 .. n /\ Global[Index(e)] = e
  BY IndexFacts
<1> HIDE DEF n
<1>2. f \in Injection(Endpoints, 1 .. n)
  BY <1>1 DEF Injection, IsInjective
<1>3. IsFiniteSet(1 .. n)
  BY <1>1, FS_Interval
<1>4. IsFiniteSet(Endpoints)
  BY <1>2, <1>3, FS_Injection
<1> QED
  BY <1>4, FS_CardinalityType

\* A path that is longer than there are endpoints has a ring in it.
LEMMA LongPathRing ==
  ASSUME NEW w, NEW p, Path(w, p, Cardinality(Endpoints))
  PROVE  Rings(w)
<1> DEFINE n == Cardinality(Endpoints)
<1>1. IsFiniteSet(Endpoints) /\ n \in Nat
  BY EndpointsFinite
<1>2. p \in [0 .. n -> Endpoints]
  BY DEF Path
<1>3. IsFiniteSet(0 .. n) /\ Cardinality(0 .. n) = n + 1
  <2> HIDE DEF n
  <2> QED  BY <1>1, FS_Interval
<1>4. PICK i \in 0 .. n, j \in 0 .. n : i # j /\ p[i] = p[j]
  <2>1. Cardinality(Endpoints) < Cardinality(0 .. n)
    BY <1>1, <1>3
  <2> HIDE DEF n
  <2> QED  BY <1>1, <1>2, <1>3, <2>1, FS_PigeonHole
<1>5. ASSUME NEW a \in 0 .. n, NEW b \in 0 .. n, a < b, p[a] = p[b]
      PROVE  Rings(w)
  <2>1. b \in a .. n /\ b - a \in (0 .. n) \ {0} /\ b - a \in Nat
    BY <1>1, <1>5
  <2>2. p[b] \in Reached(w, {p[a]}, b - a)
    BY <1>1, <2>1, Segment
  <2>3. p[a] \in Endpoints /\ {p[a]} \in SUBSET Endpoints
    BY <1>2
  <2>4. p[a] \in Follow(w, {p[a]}, b - a)
    BY <1>5, <2>1, <2>2, <2>3, FollowIsReached
  <2> QED
    BY <2>1, <2>3, <2>4 DEF Rings, Ways
<1>6. i < j \/ j < i
  BY <1>1, <1>4
<1> QED
  BY <1>4, <1>5, <1>6
-----------------------------------------------------------------------------
(* Rings and solutions.                                                    *)

Inside == 1 .. Len(Internal(manifest))
Inner(a) == Internal(manifest)[a]

\* What the lemmas below assume of the state, and the matrix at a wavelength.
Ready(w, s) ==
  Sound(manifest) /\ Loaded /\ w \in FirstGrid /\ s = System(tables, w) /\ Permutes(s)

LEMMA HopFacts ==
  ASSUME NEW w, NEW s, Ready(w, s)
  PROVE  /\ \A e, y : e \in Endpoints /\ Hop(w, e, y) => \E a \in Inside : y = Inner(a)
         /\ \A e \in Endpoints, a \in Inside : Hop(w, e, Inner(a)) <=> Moves(manifest, s, e, a)
<1> DEFINE m == manifest
           n == Len(m.connections)
<1>1. /\ Sound(m) /\ Loaded /\ w \in FirstGrid /\ s = System(tables, w)
      /\ n \in Nat /\ Len(Internal(m)) = 2 * n
      /\ \A a \in Inside : Inner(a) \in Endpoints
  BY SoundTypes DEF Ready, Inside, Inner
<1>2. \A a \in Inside : Across(Inner(a)) = {Inner(Mate(a))} /\ Mate(a) \in Inside
                        /\ Mate(Mate(a)) = a
  <2>1. \A a \in Inside : Across(Inner(a)) = {Inner(Mate(a))}
    BY <1>1, AcrossIsMate DEF Inside, Inner
  <2> HIDE DEF n
  <2>2. \A a \in Inside : Mate(a) \in Inside /\ Mate(Mate(a)) = a
    BY <1>1, MateFacts DEF Inside
  <2> QED
    BY <2>1, <2>2
<1>3. \A o \in Endpoints : \/ \E a \in Inside : o = Inner(a)
                           \/ Across(o) = {}
  <2>1. \A j \in 1 .. Len(m.external) : Across(m.external[j]) = {}
    BY <1>1, AcrossIsMate
  <2>2. \A o \in Endpoints : \/ \E a \in Inside : o = Inner(a)
                             \/ \E j \in 1 .. Len(m.external) : o = m.external[j]
    BY <1>1, SoundEndpoints DEF Inside, Inner
  <2> QED
    BY <2>1, <2>2
<1>4. /\ \A e \in Endpoints : Leaving(w, e) \subseteq Endpoints
      /\ \A e, o \in Endpoints : o \in Leaving(w, e) <=> s[Index(o)][Index(e)] = 1
  BY <1>1, MatrixFacts
<1>5. \A a, b \in Inside : Inner(a) = Inner(b) => a = b
  BY <1>1, SoundEndpoints DEF Inside, Inner
<1>6. ASSUME NEW e \in Endpoints, NEW y, Hop(w, e, y)
      PROVE  \E a \in Inside : y = Inner(a)
  <2>1. PICK o \in Leaving(w, e) : y \in Across(o)
    BY <1>6 DEF Hop
  <2>2. PICK a \in Inside : o = Inner(a)
    BY <1>3, <1>4, <2>1
  <2> QED
    BY <1>2, <2>1, <2>2
<1>7. ASSUME NEW e \in Endpoints, NEW a \in Inside
      PROVE  Hop(w, e, Inner(a)) <=> Moves(m, s, e, a)
  <2>1. Moves(m, s, e, a) <=> Inner(Mate(a)) \in Leaving(w, e)
    BY <1>1, <1>2, <1>4 DEF Moves, Inner
  <2>2. Inner(Mate(a)) \in Leaving(w, e) => Hop(w, e, Inner(a))
    <3>1. Inner(a) \in Across(Inner(Mate(a)))
      BY <1>2
    <3> QED
      BY <3>1 DEF Hop
  <2>3. ASSUME Hop(w, e, Inner(a))
        PROVE  Inner(Mate(a)) \in Leaving(w, e)
    <3>1. PICK o \in Leaving(w, e) : Inner(a) \in Across(o)
      BY <2>3 DEF Hop
    <3>2. PICK b \in Inside : o = Inner(b)
      BY <1>3, <1>4, <3>1
    <3>3. Inner(a) = Inner(Mate(b)) /\ Mate(b) \in Inside
      BY <1>2, <3>1, <3>2
    <3>4. a = Mate(b)
      BY <1>5, <3>3
    <3>5. Mate(a) = b
      BY <1>2, <3>4
    <3> QED
      BY <3>1, <3>2, <3>5
  <2> QED
    BY <2>1, <2>2, <2>3
<1> QED
  BY <1>6, <1>7

\* Internal ports that send light to one another, all of them.
Cycle(s, c) ==
  /\ c \subseteq Inside /\ c # {}
  /\ \A a \in c : \E d \in c : Moves(manifest, s, Inner(d), a)
  /\ \A d \in c : \E a \in c : Moves(manifest, s, Inner(d), a)

LEMMA RingIsCycle ==
  ASSUME NEW w, NEW s, Ready(w, s), Rings(w)
  PROVE  \E c : Cycle(s, c)
<1>1. PICK e \in Endpoints, k \in Ways \ {0} : e \in Follow(w, {e}, k)
  BY DEF Rings
<1>2. k \in Nat /\ k # 0
  BY EndpointsFinite DEF Ways
<1>3. e \in Reached(w, {e}, k)
  <2>1. {e} \in SUBSET Endpoints
    OBVIOUS
  <2> QED
    BY <1>1, <1>2, <2>1, FollowIsReached
<1>4. PICK p \in [0 .. k -> Endpoints] : Path(w, p, k) /\ p[0] = e /\ p[k] = e
  BY <1>3 DEF Reached
<1>5. \A i \in 1 .. k : Hop(w, p[i - 1], p[i]) /\ p[i - 1] \in Endpoints
  <2> TAKE i \in 1 .. k
  <2>1. i - 1 \in 0 .. k
    BY <1>2
  <2> QED
    BY <1>4, <2>1 DEF Path
<1> DEFINE c == {a \in Inside : \E i \in 1 .. k : Inner(a) = p[i]}
<1>6. \A i \in 1 .. k : \E a \in Inside : p[i] = Inner(a)
  BY <1>5, HopFacts
<1>7. \A i \in 1 .. k : \E j \in 1 .. k : p[i - 1] = p[j]
  <2> TAKE i \in 1 .. k
  <2>1. CASE i = 1
    BY <1>2, <1>4, <2>1
  <2>2. CASE i # 1
    <3>1. i - 1 \in 1 .. k
      BY <1>2, <2>2
    <3> QED
      BY <3>1
  <2> QED
    BY <2>1, <2>2
<1>8. ASSUME NEW a \in c
      PROVE  \E d \in c : Moves(manifest, s, Inner(d), a)
  <2>1. PICK i \in 1 .. k : Inner(a) = p[i]
    OBVIOUS
  <2>2. PICK j \in 1 .. k : p[i - 1] = p[j]
    BY <1>7
  <2>3. PICK d \in Inside : p[j] = Inner(d)
    BY <1>6
  <2>4. Hop(w, Inner(d), Inner(a)) /\ Inner(d) \in Endpoints
    BY <1>5, <2>1, <2>2, <2>3
  <2>5. Moves(manifest, s, Inner(d), a)
    BY <2>4, HopFacts
  <2> QED
    BY <2>3, <2>5
<1>9. ASSUME NEW d \in c
      PROVE  \E a \in c : Moves(manifest, s, Inner(d), a)
  <2>1. PICK i \in 1 .. k : Inner(d) = p[i]
    OBVIOUS
  <2>2. PICK j \in 1 .. k : p[j - 1] = p[i]
    <3>1. CASE i = k
      <4>1. 1 \in 1 .. k /\ 1 - 1 = 0
        BY <1>2
      <4> QED
        BY <1>4, <3>1, <4>1
    <3>2. CASE i # k
      <4>1. i + 1 \in 1 .. k /\ (i + 1) - 1 = i
        BY <1>2, <3>2
      <4> QED
        BY <4>1
    <3> QED
      BY <3>1, <3>2
  <2>3. PICK a \in Inside : p[j] = Inner(a)
    BY <1>6
  <2>4. Hop(w, Inner(d), Inner(a)) /\ Inner(d) \in Endpoints
    BY <1>5, <2>1, <2>2, <2>3
  <2>5. Moves(manifest, s, Inner(d), a)
    BY <2>4, HopFacts
  <2> QED
    BY <2>3, <2>5
<1>10. c # {}
  <2>1. k \in 1 .. k
    BY <1>2
  <2> QED
    BY <1>6, <2>1
<1> QED
  <2> HIDE DEF c
  <2>1. c \subseteq Inside
    BY DEF c
  <2> QED
    BY <1>8, <1>9, <1>10, <2>1 DEF Cycle

\* Light may be on a cycle or not: with the rest as in a solution both are solutions.
LEMMA CycleOnOff ==
  ASSUME NEW w, NEW s, Ready(w, s), NEW c, Cycle(s, c), NEW in \in 1 .. Len(manifest.external),
         NEW x \in [Inside -> {0, 1}], Settled(manifest, s, in, x), NEW bit \in {0, 1},
         NEW y \in [Inside -> {0, 1}], \A a \in Inside : y[a] = IF a \in c THEN bit ELSE x[a]
  PROVE  Settled(manifest, s, in, y)
<1> DEFINE m == manifest
           M(d, a) == Moves(m, s, Inner(d), a)
           B(a) == Moves(m, s, m.external[in], a)
<1>1. /\ Sound(m) /\ Permutes(s) /\ m.external[in] \in Endpoints
      /\ \A a \in Inside : Inner(a) \in Endpoints /\ Inner(a) # m.external[in]
      /\ \A a, d \in Inside : Inner(a) = Inner(d) => a = d
  <2>1. Sound(m) /\ Permutes(s)
    BY DEF Ready
  <2>2. m.external[in] \in Endpoints /\ \A a \in Inside : Inner(a) \in Endpoints
    BY <2>1, SoundTypes DEF Inside, Inner
  <2>3. /\ \A a \in Inside : Inner(a) # m.external[in]
        /\ \A a, d \in Inside : Inner(a) = Inner(d) => a = d
    BY <2>1, SoundEndpoints DEF Inside, Inner
  <2> QED
    BY <2>1, <2>2, <2>3
<1>2. /\ c \subseteq Inside
      /\ \A a \in c : \E d \in c : M(d, a)
      /\ \A d \in c : \E a \in c : M(d, a)
  BY DEF Cycle
<1>3. /\ \A a, d, b \in Inside : M(d, a) /\ M(b, a) => d = b
      /\ \A a, d, b \in Inside : M(d, a) /\ M(d, b) => a = b
      /\ \A a, d \in Inside : ~(B(a) /\ M(d, a))
  <2>1. \A a \in Inside, d, e \in Endpoints : Moves(m, s, d, a) /\ Moves(m, s, e, a) => d = e
    BY <1>1, MovesFacts DEF Inside
  <2>2. \A a, b \in Inside, e \in Endpoints : Moves(m, s, e, a) /\ Moves(m, s, e, b) => a = b
    BY <1>1, MovesFacts DEF Inside
  <2> HIDE DEF m
  <2> QED  BY <1>1, <2>1, <2>2
<1>4. \A a \in Inside : x[a] = 1 <=> B(a) \/ \E d \in Inside : M(d, a) /\ x[d] = 1
  BY DEF Settled, Inside, Inner
<1> HIDE DEF M, B
<1>5. \A a \in Inside : y[a] = IF a \in c THEN bit ELSE x[a]
  OBVIOUS
<1>6. \A a \in Inside : y[a] = 1 <=> B(a) \/ \E d \in Inside : M(d, a) /\ y[d] = 1
  <2> TAKE a \in Inside
  <2>1. CASE a \in c
    <3>1. PICK d \in c : M(d, a)
      BY <1>2, <2>1
    <3>2. ~B(a) /\ \A b \in Inside : M(b, a) => b = d
      BY <1>2, <1>3, <3>1
    <3>3. y[a] = bit /\ y[d] = bit /\ d \in Inside
      BY <1>2, <1>5, <2>1
    <3> QED
      BY <3>1, <3>2, <3>3
  <2>2. CASE a \notin c
    <3>1. \A d \in Inside : M(d, a) => d \notin c
      BY <1>2, <1>3, <2>2
    <3>2. \A d \in Inside : M(d, a) => y[d] = x[d]
      BY <1>5, <3>1
    <3>3. y[a] = x[a]
      BY <1>5, <2>2
    <3> QED
      BY <1>4, <3>2, <3>3
  <2> QED
    BY <2>1, <2>2
<1> QED
  BY <1>6 DEF Settled, Inside, Inner, M, B

LEMMA SolutionsFinite ==
  ASSUME NEW w, NEW s, Ready(w, s), NEW in \in 1 .. Len(manifest.external)
  PROVE  /\ Solutions(manifest, s, in) \subseteq [Inside -> {0, 1}]
         /\ \A x \in [Inside -> {0, 1}] :
              x \in Solutions(manifest, s, in) <=> Settled(manifest, s, in, x)
         /\ IsFiniteSet(Solutions(manifest, s, in))
<1> DEFINE X == Solutions(manifest, s, in)
           f == [x \in X |-> {a \in Inside : x[a] = 1}]
<1>1. X \subseteq [Inside -> {0, 1}]
  BY DEF Solutions, Inside
<1>2. \A x \in [Inside -> {0, 1}] : x \in X <=> Settled(manifest, s, in, x)
  BY SolutionIff DEF Ready, Inside
<1>3. IsFiniteSet(SUBSET Inside)
  <2>1. Len(manifest.connections) \in Nat /\ Len(Internal(manifest)) = 2 * Len(manifest.connections)
    BY SoundTypes DEF Ready
  <2>2. IsFiniteSet(Inside)
    BY <2>1, FS_Interval DEF Inside
  <2> QED
    BY <2>2, FS_SUBSET
<1> HIDE DEF X
<1>4. \A x, y \in X : {a \in Inside : x[a] = 1} = {a \in Inside : y[a] = 1} => x = y
  <2> TAKE x \in X, y \in X
  <2> HAVE {a \in Inside : x[a] = 1} = {a \in Inside : y[a] = 1}
  <2>1. x \in [Inside -> {0, 1}] /\ y \in [Inside -> {0, 1}]
    BY <1>1
  <2>2. \A a \in Inside : x[a] = y[a]
    <3> TAKE a \in Inside
    <3>1. x[a] = 1 <=> y[a] = 1
      OBVIOUS
    <3>2. x[a] \in {0, 1} /\ y[a] \in {0, 1}
      BY <2>1
    <3> QED
      BY <3>1, <3>2
  <2> QED
    BY <2>1, <2>2
<1>5. f \in Injection(X, SUBSET Inside)
  BY <1>4 DEF Injection, IsInjective
<1>6. IsFiniteSet(X)
  <2> HIDE DEF f
  <2> QED  BY <1>3, <1>5, FS_Injection
<1> QED
  BY <1>1, <1>2, <1>6 DEF X

\* With a ring the system of equations does not have exactly one solution.
LEMMA RingIsSingular ==
  ASSUME NEW w, NEW s, Ready(w, s), Rings(w), NEW in \in 1 .. Len(manifest.external)
  PROVE  Cardinality(Solutions(manifest, s, in)) # 1
<1> DEFINE X == Solutions(manifest, s, in)
<1>1. /\ X \subseteq [Inside -> {0, 1}] /\ IsFiniteSet(X)
      /\ \A x \in [Inside -> {0, 1}] : x \in X <=> Settled(manifest, s, in, x)
  BY SolutionsFinite
<1>2. PICK c : Cycle(s, c)
  BY RingIsCycle
<1> HIDE DEF X
<1> SUFFICES ASSUME Cardinality(X) = 1 PROVE FALSE
  BY DEF X
<1>3. PICK x : X = {x}
  BY <1>1, FS_Singleton
<1>4. x \in [Inside -> {0, 1}] /\ Settled(manifest, s, in, x)
  BY <1>1, <1>3
<1> DEFINE y(bit) == [a \in Inside |-> IF a \in c THEN bit ELSE x[a]]
<1>5. \A bit \in {0, 1} : /\ y(bit) \in [Inside -> {0, 1}]
                           /\ \A a \in Inside : y(bit)[a] = IF a \in c THEN bit ELSE x[a]
  BY <1>4
<1>6. \A bit \in {0, 1} : Settled(manifest, s, in, y(bit))
  <2> TAKE bit \in {0, 1}
  <2> HIDE DEF y
  <2> QED  BY <1>2, <1>4, <1>5, CycleOnOff
<1>7. PICK a \in Inside : a \in c
  BY <1>2 DEF Cycle
<1>8. y(0)[a] = 0 /\ y(1)[a] = 1
  BY <1>7
<1> HIDE DEF y
<1>9. y(0) \in X /\ y(1) \in X
  BY <1>1, <1>5, <1>6
<1>10. y(0) = y(1)
  BY <1>3, <1>9
<1> QED
  BY <1>8, <1>10
-----------------------------------------------------------------------------
(* Without a ring the light that enters is the only solution.              *)

\* Solutions that differ somewhere differ before that, and so on.
LEMMA DifferenceGoesBack ==
  ASSUME NEW w, NEW s, Ready(w, s), NEW in \in 1 .. Len(manifest.external),
         NEW x \in [Inside -> {0, 1}], Settled(manifest, s, in, x),
         NEW y \in [Inside -> {0, 1}], Settled(manifest, s, in, y),
         NEW a \in Inside, x[a] # y[a]
  PROVE  \E d \in Inside : x[d] # y[d] /\ Hop(w, Inner(d), Inner(a))
<1> DEFINE M(d, b) == Moves(manifest, s, Inner(d), b)
           B(b) == Moves(manifest, s, manifest.external[in], b)
<1>1. /\ \A b \in Inside : x[b] = 1 <=> B(b) \/ \E d \in Inside : M(d, b) /\ x[d] = 1
      /\ \A b \in Inside : y[b] = 1 <=> B(b) \/ \E d \in Inside : M(d, b) /\ y[d] = 1
  BY DEF Settled, Inside, Inner
<1>2. x[a] \in {0, 1} /\ y[a] \in {0, 1}
  OBVIOUS
<1> HIDE DEF M, B
<1>3. \E d \in Inside : M(d, a) /\ x[d] # y[d]
  <2>1. ~((x[a] = 1) <=> (y[a] = 1))
    BY <1>2
  <2> QED
    BY <1>1, <2>1
<1>4. PICK d \in Inside : M(d, a) /\ x[d] # y[d]
  BY <1>3
<1>5. Inner(d) \in Endpoints
  BY SoundTypes DEF Ready, Inside, Inner
<1>6. Hop(w, Inner(d), Inner(a))
  BY <1>4, <1>5, HopFacts DEF M
<1> QED
  BY <1>4, <1>6

LEMMA PathPrepended ==
  ASSUME NEW w, NEW k \in Nat, NEW p, Path(w, p, k), NEW e \in Endpoints, Hop(w, e, p[0])
  PROVE  \E q : Path(w, q, k + 1) /\ q[0] = e
<1> DEFINE q == [i \in 0 .. k + 1 |-> IF i = 0 THEN e ELSE p[i - 1]]
<1>1. p \in [0 .. k -> Endpoints] /\ \A i \in 1 .. k : Hop(w, p[i - 1], p[i])
  BY DEF Path
<1>2. q \in [0 .. k + 1 -> Endpoints]
  <2>1. \A i \in 0 .. k + 1 : i # 0 => i - 1 \in 0 .. k
    OBVIOUS
  <2> QED
    BY <1>1, <2>1
<1>3. q[0] = e /\ \A i \in 1 .. k + 1 : q[i] = p[i - 1]
  OBVIOUS
<1> HIDE DEF q
<1>4. \A i \in 1 .. k + 1 : Hop(w, q[i - 1], q[i])
  <2> TAKE i \in 1 .. k + 1
  <2>1. CASE i = 1
    BY <1>3, <2>1
  <2>2. CASE i # 1
    <3>1. i - 1 \in 1 .. k /\ i - 1 \in 1 .. k + 1
      BY <2>2
    <3>2. Hop(w, p[(i - 1) - 1], p[i - 1]) /\ q[i - 1] = p[(i - 1) - 1] /\ q[i] = p[i - 1]
      BY <1>1, <1>3, <3>1
    <3> QED
      BY <3>2
  <2> QED
    BY <2>1, <2>2
<1>5. Path(w, q, k + 1)
  BY <1>2, <1>4 DEF Path
<1> QED
  BY <1>3, <1>5

LEMMA SolutionsUnique ==
  ASSUME NEW w, NEW s, Ready(w, s), ~Rings(w), NEW in \in 1 .. Len(manifest.external),
         NEW x \in Solutions(manifest, s, in), NEW y \in Solutions(manifest, s, in)
  PROVE  x = y
<1>1. /\ x \in [Inside -> {0, 1}] /\ Settled(manifest, s, in, x)
      /\ y \in [Inside -> {0, 1}] /\ Settled(manifest, s, in, y)
  BY SolutionsFinite
<1> SUFFICES ASSUME NEW a \in Inside, x[a] # y[a] PROVE FALSE
  BY <1>1
<1> DEFINE Odd(d) == d \in Inside /\ x[d] # y[d]
           S == {k \in Nat : \E p : Path(w, p, k) /\ \E d : Odd(d) /\ p[0] = Inner(d)}
<1>2. \A d \in Inside : Inner(d) \in Endpoints
  BY SoundTypes DEF Ready, Inside, Inner
<1>3. 0 \in S
  <2> DEFINE p == [i \in 0 .. 0 |-> Inner(a)]
  <2>1. p \in [0 .. 0 -> Endpoints] /\ p[0] = Inner(a)
    BY <1>2
  <2> HIDE DEF p
  <2>2. Path(w, p, 0)
    BY <2>1 DEF Path
  <2> QED
    BY <2>1, <2>2
<1>4. ASSUME NEW k \in Nat, k \in S
      PROVE  k + 1 \in S
  <2>1. PICK p, d : Path(w, p, k) /\ Odd(d) /\ p[0] = Inner(d)
    BY <1>4
  <2>2. PICK b \in Inside : x[b] # y[b] /\ Hop(w, Inner(b), Inner(d))
    BY <1>1, <2>1, DifferenceGoesBack
  <2>3. Inner(b) \in Endpoints /\ Hop(w, Inner(b), p[0])
    BY <1>2, <2>1, <2>2
  <2>4. PICK q : Path(w, q, k + 1) /\ q[0] = Inner(b)
    BY <2>1, <2>3, PathPrepended
  <2>5. Odd(b) /\ k + 1 \in Nat
    BY <2>2
  <2> HIDE DEF Odd
  <2> QED  BY <2>4, <2>5
<1>5. Cardinality(Endpoints) \in S
  <2> HIDE DEF S
  <2> QED  BY <1>3, <1>4, EndpointsFinite, Inductive
<1>6. PICK p : Path(w, p, Cardinality(Endpoints))
  BY <1>5
<1> QED
  BY <1>6, LongPathRing

\* The internal ports that light from external port in enters.
Entered(w, in) ==
  [a \in Inside |-> IF \E k \in Nat \ {0} : Inner(a) \in Reached(w, {manifest.external[in]}, k)
                      THEN 1 ELSE 0]

LEMMA EnteredFacts ==
  ASSUME NEW w, NEW in
  PROVE  /\ Entered(w, in) \in [Inside -> {0, 1}]
         /\ \A a \in Inside : Entered(w, in)[a] = 1 <=>
              \E k \in Nat \ {0} : Inner(a) \in Reached(w, {manifest.external[in]}, k)
<1> DEFINE Way(a) == \E k \in Nat \ {0} : Inner(a) \in Reached(w, {manifest.external[in]}, k)
<1>1. Entered(w, in) = [a \in Inside |-> IF Way(a) THEN 1 ELSE 0]
  BY DEF Entered
<1>2. Entered(w, in) \in [Inside -> {0, 1}] /\ \A a \in Inside : Entered(w, in)[a] = 1 <=> Way(a)
  <2> HIDE DEF Way
  <2> QED  BY <1>1
<1> QED
  BY <1>2

LEMMA EnteredIsSolution ==
  ASSUME NEW w, NEW s, Ready(w, s), NEW in \in 1 .. Len(manifest.external)
  PROVE  Entered(w, in) \in Solutions(manifest, s, in)
<1> DEFINE e == manifest.external[in]
           x == Entered(w, in)
           R(k) == Reached(w, {e}, k)
<1>1. x \in [Inside -> {0, 1}] /\ \A a \in Inside : x[a] = 1 <=> \E k \in Nat \ {0} : Inner(a) \in R(k)
  BY EnteredFacts
<1>2. e \in Endpoints /\ {e} \in SUBSET Endpoints /\ \A d \in Inside : Inner(d) \in Endpoints
  BY SoundTypes DEF Ready, Inside, Inner
<1>3. R(0) = {e} /\ \A k \in Nat : \A y : y \in R(k + 1) <=> \E d \in R(k) : Hop(w, d, y)
  <2> HIDE DEF e
  <2>1. \A k \in Nat : \A y : y \in R(k + 1) <=> \E d \in R(k) : Hop(w, d, y)
    BY <1>2, ReachedSteps
  <2>2. R(0) = {e}
    <3>1. 0 \in Nat
      OBVIOUS
    <3> QED
      BY <1>2, <3>1, ReachedSteps
  <2> QED
    BY <2>1, <2>2
<1>4. \A k \in Nat : R(k) \subseteq Endpoints
  BY DEF Reached
<1>5. \A k \in Nat \ {0} : \A y \in R(k) : \E d \in Inside : y = Inner(d)
  <2> HIDE DEF R
  <2> TAKE k \in Nat \ {0}
  <2> TAKE y \in R(k)
  <2>1. k - 1 \in Nat /\ (k - 1) + 1 = k
    OBVIOUS
  <2>2. PICK d \in R(k - 1) : Hop(w, d, y)
    BY <1>3, <2>1
  <2> QED
    BY <1>4, <2>1, <2>2, HopFacts
<1> DEFINE M(d, a) == Moves(manifest, s, Inner(d), a)
           B(a) == Moves(manifest, s, e, a)
<1>6. \A a \in Inside : /\ \A d \in Inside : Hop(w, Inner(d), Inner(a)) <=> M(d, a)
                        /\ Hop(w, e, Inner(a)) <=> B(a)
  BY <1>2, HopFacts
<1>7. ASSUME NEW a \in Inside
      PROVE  x[a] = 1 <=> B(a) \/ \E d \in Inside : M(d, a) /\ x[d] = 1
  <2> HIDE DEF R, M, B, x, e
  <2>1. ASSUME x[a] = 1
        PROVE  B(a) \/ \E d \in Inside : M(d, a) /\ x[d] = 1
    <3>1. PICK k \in Nat \ {0} : Inner(a) \in R(k)
      BY <1>1, <2>1
    <3>2. k - 1 \in Nat /\ (k - 1) + 1 = k
      OBVIOUS
    <3>3. PICK d \in R(k - 1) : Hop(w, d, Inner(a))
      BY <1>3, <3>1, <3>2
    <3>4. CASE k - 1 = 0
      BY <1>3, <1>6, <3>3, <3>4
    <3>5. CASE k - 1 # 0
      <4>1. k - 1 \in Nat \ {0}
        BY <3>2, <3>5
      <4>2. PICK b \in Inside : d = Inner(b)
        BY <1>5, <3>3, <4>1
      <4>3. x[b] = 1
        BY <1>1, <3>3, <4>1, <4>2
      <4> QED
        BY <1>6, <3>3, <4>2, <4>3
    <3> QED
      BY <3>4, <3>5
  <2>2. ASSUME B(a)
        PROVE  x[a] = 1
    <3>1. Inner(a) \in R(0 + 1)
      BY <1>3, <1>6, <2>2
    <3>2. 0 + 1 \in Nat \ {0}
      OBVIOUS
    <3> QED
      BY <1>1, <3>1, <3>2
  <2>3. ASSUME NEW d \in Inside, M(d, a), x[d] = 1
        PROVE  x[a] = 1
    <3>1. PICK k \in Nat \ {0} : Inner(d) \in R(k)
      BY <1>1, <2>3
    <3>2. Inner(a) \in R(k + 1) /\ k + 1 \in Nat \ {0}
      BY <1>3, <1>6, <2>3, <3>1
    <3> QED
      BY <1>1, <3>2
  <2> QED
    BY <2>1, <2>2, <2>3
<1>8. Settled(manifest, s, in, x)
  <2> HIDE DEF x
  <2> QED  BY <1>7 DEF Settled, Inside, Inner
<1> QED
  BY <1>1, <1>8, SolutionsFinite

\* Light that leaves at port out, and compose has a 1 there, or neither.
LEMMA MatrixIsLightPath ==
  ASSUME NEW w, NEW s, Ready(w, s), ~Rings(w), NEW in \in 1 .. Len(manifest.external),
         NEW out \in 1 .. Len(manifest.external)
  PROVE  External(manifest, s)[out][in] = IF Leads(w, in, out) THEN 1 ELSE 0
<1> DEFINE e == manifest.external[in]
           o == manifest.external[out]
           x == Entered(w, in)
           value == External(manifest, s)[out][in]
           R(k) == Reached(w, {e}, k)
           n == Cardinality(Endpoints)
<1>1. /\ e \in Endpoints /\ {e} \in SUBSET Endpoints /\ o \in Endpoints
      /\ \A d \in Inside : Inner(d) \in Endpoints
  BY SoundTypes DEF Ready, Inside, Inner
<1>2. Solutions(manifest, s, in) = {x}
  <2> HIDE DEF x
  <2>1. x \in Solutions(manifest, s, in)
    BY EnteredIsSolution DEF x
  <2> QED
    BY <2>1, SolutionsUnique
<1> DEFINE Leave(d) == s[Index(o)][Index(d)] = 1
<1>3. /\ value \in {0, 1}
      /\ value = 1 <=> Leave(e) \/ \E b \in Inside : Leave(Inner(b)) /\ x[b] = 1
  <2> HIDE DEF x
  <2>1. Sound(manifest) /\ Permutes(s)
    BY DEF Ready
  <2>2. /\ value \in {0, 1}
        /\ value = 1 <=> \/ Leave(e)
                         \/ \E b \in 1 .. Len(Internal(manifest)) :
                              Leave(Internal(manifest)[b]) /\ x[b] = 1
    <3>1. Passes(manifest, s, in, out, x)
      <4> HIDE DEF Leave, value
      <4> QED  BY <1>2, <2>1, ExternalIff
    <3> QED
      BY <3>1 DEF Passes
  <2> HIDE DEF Leave, value
  <2> QED  BY <2>2 DEF Inside, Inner
<1>4. \A d \in Endpoints : o \in Leaving(w, d) <=> Leave(d)
  BY <1>1, MatrixFacts DEF Ready
<1>5. n \in Nat /\ Ways = 0 .. n
  BY EndpointsFinite DEF Ways
<1>6. \A k \in Nat : Follow(w, {e}, k) = R(k) /\ R(k) \subseteq Endpoints
  <2>1. \A k \in Nat : R(k) \subseteq Endpoints
    BY DEF Reached
  <2>2. \A k \in Nat : Follow(w, {e}, k) = R(k)
    BY <1>1, FollowIsReached
  <2> QED
    BY <2>1, <2>2
<1>7. \A k \in Nat : k > n => R(k) = {}
  <2> SUFFICES ASSUME NEW k \in Nat, k > n, NEW y \in R(k) PROVE FALSE
    OBVIOUS
  <2>1. PICK p \in [0 .. k -> Endpoints] : Path(w, p, k)
    BY DEF Reached
  <2> DEFINE q == [i \in 0 .. n |-> p[i]]
  <2> HIDE DEF n
  <2>2. q \in [0 .. n -> Endpoints] /\ \A i \in 0 .. n : q[i] = p[i]
    BY <1>5
  <2> HIDE DEF q
  <2>3. \A i \in 1 .. n : Hop(w, q[i - 1], q[i])
    <3> TAKE i \in 1 .. n
    <3>1. i \in 1 .. k /\ i \in 0 .. n /\ i - 1 \in 0 .. n
      BY <1>5
    <3> QED
      BY <2>1, <2>2, <3>1 DEF Path
  <2>4. Path(w, q, n)
    BY <2>2, <2>3 DEF Path
  <2> QED
    BY <2>4, LongPathRing DEF n
<1>8. Leads(w, in, out) <=> \E k \in 0 .. n : \E d \in R(k) : Leave(d)
  <2>1. Leads(w, in, out) <=> \E k \in 0 .. n : \E d \in Follow(w, {e}, k) : o \in Leaving(w, d)
    BY <1>5 DEF Leads
  <2>2. \A k \in 0 .. n : k \in Nat
    BY <1>5
  <2> HIDE DEF R, Leave, n, o, e
  <2> QED  BY <1>4, <1>6, <2>1, <2>2
<1>9. R(0) = {e}
  <2>1. 0 \in Nat
    OBVIOUS
  <2> QED
    BY <1>1, <2>1, ReachedSteps
<1>10. \A k \in Nat \ {0} : \A y \in R(k) : \E d \in Inside : y = Inner(d)
  <2> TAKE k \in Nat \ {0}
  <2> TAKE y \in R(k)
  <2>1. k - 1 \in Nat /\ (k - 1) + 1 = k
    OBVIOUS
  <2>2. PICK d \in R(k - 1) : Hop(w, d, y)
    BY <1>1, <2>1, ReachedSteps
  <2> QED
    BY <1>6, <2>1, <2>2, HopFacts
<1>11. \A b \in Inside : x[b] = 1 <=> \E k \in Nat \ {0} : Inner(b) \in R(k)
  BY EnteredFacts
<1> HIDE DEF R, Leave, n, o, e, x, value
<1>12. (Leave(e) \/ \E b \in Inside : Leave(Inner(b)) /\ x[b] = 1) <=> Leads(w, in, out)
  <2>1. ASSUME Leave(e)
        PROVE  Leads(w, in, out)
    <3>1. 0 \in 0 .. n
      BY <1>5
    <3> QED
      BY <1>8, <1>9, <2>1, <3>1
  <2>2. ASSUME NEW b \in Inside, Leave(Inner(b)), x[b] = 1
        PROVE  Leads(w, in, out)
    <3>1. PICK k \in Nat \ {0} : Inner(b) \in R(k)
      BY <1>11, <2>2
    <3>2. k \in 0 .. n
      BY <1>5, <1>7, <3>1
    <3> QED
      BY <1>8, <2>2, <3>1, <3>2
  <2>3. ASSUME Leads(w, in, out)
        PROVE  Leave(e) \/ \E b \in Inside : Leave(Inner(b)) /\ x[b] = 1
    <3>1. PICK k \in 0 .. n : \E d \in R(k) : Leave(d)
      BY <1>8, <2>3
    <3>2. PICK d \in R(k) : Leave(d)
      BY <3>1
    <3>3. CASE k = 0
      BY <1>9, <3>2, <3>3
    <3>4. CASE k # 0
      <4>1. k \in Nat \ {0}
        BY <1>5, <3>4
      <4>2. PICK b \in Inside : d = Inner(b)
        BY <1>10, <4>1
      <4>3. x[b] = 1
        BY <1>11, <4>1, <4>2
      <4> QED
        BY <3>2, <4>2, <4>3
    <3> QED
      BY <3>3, <3>4
  <2> QED
    BY <2>1, <2>2, <2>3
<1>13. value = IF Leads(w, in, out) THEN 1 ELSE 0
  BY <1>3, <1>12
<1> QED
  BY <1>13 DEF value

\* compose refuses with a singular system exactly if light may run in a ring.
LEMMA SingularIsRing ==
  ASSUME NEW w, NEW s, Ready(w, s)
  PROVE  Singular(manifest, s) <=> Rings(w)
<1>1. DOMAIN manifest.external = 1 .. Len(manifest.external) /\ 1 \in 1 .. Len(manifest.external)
  BY SoundTypes DEF Ready
<1>2. ASSUME Rings(w)
      PROVE  Singular(manifest, s)
  <2>1. Cardinality(Solutions(manifest, s, 1)) # 1
    BY <1>1, <1>2, RingIsSingular
  <2> QED
    BY <1>1, <2>1 DEF Singular
<1>3. ASSUME ~Rings(w), NEW in \in 1 .. Len(manifest.external)
      PROVE  Cardinality(Solutions(manifest, s, in)) = 1
  <2> DEFINE x == Entered(w, in)
  <2>1. x \in Solutions(manifest, s, in)
    BY EnteredIsSolution
  <2> HIDE DEF x
  <2>2. Solutions(manifest, s, in) = {x}
    BY <1>3, <2>1, SolutionsUnique
  <2> QED
    BY <2>2, FS_Singleton
<1> QED
  BY <1>1, <1>2, <1>3 DEF Singular

\* The matrix that compose computes with slices, index lists and a linear system
\* has a 1 exactly where light that enters one external port leaves another, and
\* compose refuses exactly if light may stay inside for ever: for every manifest,
\* whatever its instances, ports, connections and tables of 0s and 1s.
THEOREM ComposedIsAlwaysLightPath == CircuitSpec => []ComposedIsLightPath
<1>1. Assembled => ComposedIsLightPath
  <2> SUFFICES ASSUME Assembled PROVE ComposedIsLightPath
    OBVIOUS
  <2>1. ASSUME stage \in {"singular", "composed"}, NEW w \in FirstGrid
        PROVE  Ready(w, System(tables, w))
    <3>1. Sound(manifest)
      BY <2>1, ValidIsSound DEF Assembled, Checked
    <3>2. Loaded
      BY <2>1 DEF Assembled, Loaded
    <3> QED
      BY <3>1, <3>2, MatrixFacts DEF Ready
  <2>2. stage = "composed" =>
          \A w \in DOMAIN composed :
            /\ ~Rings(w)
            /\ \A out, in \in DOMAIN manifest.external :
                 composed[w][out][in] = IF Leads(w, in, out) THEN 1 ELSE 0
    <3> SUFFICES ASSUME stage = "composed", NEW w \in DOMAIN composed
                 PROVE  /\ ~Rings(w)
                        /\ \A out, in \in DOMAIN manifest.external :
                             composed[w][out][in] = IF Leads(w, in, out) THEN 1 ELSE 0
      OBVIOUS
    <3>1. /\ w \in FirstGrid /\ composed[w] = External(manifest, System(tables, w))
          /\ ~Singular(manifest, System(tables, w))
      BY DEF Assembled, FirstGrid
    <3>2. Ready(w, System(tables, w))
      BY <2>1, <3>1
    <3>3. ~Rings(w)
      BY <3>1, <3>2, SingularIsRing
    <3>4. DOMAIN manifest.external = 1 .. Len(manifest.external)
      BY <3>2, SoundTypes DEF Ready
    <3>5. \A out, in \in 1 .. Len(manifest.external) :
            External(manifest, System(tables, w))[out][in] = IF Leads(w, in, out) THEN 1 ELSE 0
      BY <3>2, <3>3, MatrixIsLightPath
    <3> QED
      BY <3>1, <3>3, <3>4, <3>5
  <2>3. stage = "singular" => \E w \in FirstGrid : Rings(w)
    <3> SUFFICES ASSUME stage = "singular" PROVE \E w \in FirstGrid : Rings(w)
      OBVIOUS
    <3>1. PICK w \in FirstGrid : Singular(manifest, System(tables, w))
      BY DEF Assembled, FirstGrid
    <3>2. Ready(w, System(tables, w))
      BY <2>1
    <3> QED
      BY <3>1, <3>2, SingularIsRing
  <2> QED
    BY <2>2, <2>3 DEF ComposedIsLightPath, FirstGrid
<1> QED
  BY <1>1, AssemblyInvariant, PTL
=============================================================================
