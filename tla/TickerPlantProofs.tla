------------------------- MODULE TickerPlantProofs --------------------------
(***************************************************************************)
(* Proofs about TickerPlant.tla, for every set of tables, messages, RDBs   *)
(* and connections and every number of days and crashes.                   *)
(***************************************************************************)
EXTENDS TickerPlant, FiniteSets, SequenceTheorems, FiniteSetTheorems,
        WellFoundedInduction, TLAPS

(* Every set of numbers that is not empty has a least one.                 *)
LEMMA Least ==
  ASSUME NEW S, S \subseteq Nat, S # {}
  PROVE  \E n \in S : \A m \in S : n <= m
<1>1. PICK n \in S : \A m \in S : ~(<<m, n>> \in OpToRel(<, Nat))
      BY NatLessThanWellFounded, WFMin
<1>2. \A m \in S : n <= m
  <2>1. SUFFICES ASSUME NEW m \in S, ~(n <= m)
                 PROVE  FALSE
        OBVIOUS
  <2>2. m \in Nat /\ n \in Nat /\ m < n
        BY <2>1
  <2>3. <<m, n>> \in {ss \in Nat \X Nat : ss[1] < ss[2]}
        BY <2>2
  <2>4. <<m, n>> \in OpToRel(<, Nat)
        BY <2>3 DEF OpToRel
  <2> QED
      BY <1>1, <2>4
<1> QED
    BY <1>2

(* Induction without an operator: a set of numbers with 0 and successors.   *)
LEMMA Induction ==
  ASSUME NEW N \in Nat, NEW S, 0 \in S,
         \A n \in 0 .. N - 1 : n \in S => n + 1 \in S
  PROVE  0 .. N \subseteq S
<1> SUFFICES ASSUME ~(0 .. N \subseteq S) PROVE FALSE
    OBVIOUS
<1> DEFINE B == {n \in 0 .. N : n \notin S}
<1>1. B \subseteq Nat /\ B # {}
      OBVIOUS
<1>2. PICK n \in B : \A m \in B : n <= m
      BY <1>1, Least
<1>3. n # 0 /\ n - 1 \in 0 .. N - 1 /\ n - 1 \notin B
      BY <1>1, <1>2
<1>4. n - 1 \in S
      BY <1>3
<1>5. (n - 1) + 1 \in S
      BY <1>3, <1>4
<1> QED
    BY <1>2, <1>5

(* A recursion on an interval has a function that satisfies it. *)
Follows(g, N, f0, H) == g[0] = f0 /\ \A n \in 1 .. N : g[n] = H[n][g[n - 1]]
LEMMA Recursion ==
  ASSUME NEW N \in Nat, NEW D, NEW f0 \in D, NEW H \in [1 .. N -> [D -> D]]
  PROVE  \E g \in [0 .. N -> D] : Follows(g, N, f0, H)
<1> DEFINE P(k) == \E g \in [0 .. k -> D] :
                      g[0] = f0 /\ \A n \in 1 .. k : g[n] = H[n][g[n - 1]]
<1> DEFINE S == {k \in 0 .. N : P(k)}
<1>1. 0 \in S
  <2> DEFINE g == [n \in 0 .. 0 |-> f0]
  <2>1. g \in [0 .. 0 -> D] /\ g[0] = f0
        OBVIOUS
  <2>2. \A n \in 1 .. 0 : g[n] = H[n][g[n - 1]]
        OBVIOUS
  <2>3. P(0)
        BY <2>1, <2>2
  <2> QED
      BY <2>3
<1>2. ASSUME NEW k \in 0 .. N - 1, k \in S PROVE k + 1 \in S
  <2>1. PICK g \in [0 .. k -> D] :
             g[0] = f0 /\ \A n \in 1 .. k : g[n] = H[n][g[n - 1]]
        BY <1>2
  <2> DEFINE h == [n \in 0 .. k + 1 |-> IF n = k + 1 THEN H[n][g[k]] ELSE g[n]]
  <2>2. H[k + 1] \in [D -> D] /\ g[k] \in D
        OBVIOUS
  <2>3. H[k + 1][g[k]] \in D
        BY <2>2
  <2>4. h \in [0 .. k + 1 -> D]
        BY <2>3
  <2>5. h[0] = f0
        BY <2>1
  <2>6. \A n \in 1 .. k + 1 : h[n] = H[n][h[n - 1]]
        BY <2>1
  <2>7. k + 1 \in 0 .. N
        OBVIOUS
  <2> QED
      BY <2>4, <2>5, <2>6, <2>7
<1> HIDE DEF S
<1>3. 0 .. N \subseteq S
      BY <1>1, <1>2, Induction
<1>4. P(N)
    BY <1>3 DEF S
<1> QED
    BY <1>4 DEF Follows

(* What FlattenSeq chooses.                                                *)
IsFlatten(F, N, s) ==
  F = [l \in 1 .. N |-> IF l = 1 THEN s[l] ELSE F[l - 1] \o s[l]]
(* A function as FlattenSeq chooses one exists,                            *)
LEMMA FlattenExists ==
  ASSUME NEW D, NEW N \in Nat, N # 0, NEW s \in [1 .. N -> Seq(D)]
  PROVE  \E F \in [1 .. N -> Seq(D)] : IsFlatten(F, N, s)
<1> DEFINE H == [n \in 1 .. N |-> [q \in Seq(D) |-> q \o s[n]]]
<1>1. H \in [1 .. N -> [Seq(D) -> Seq(D)]]
      OBVIOUS
<1> HIDE DEF H
<1> PICK e \in Seq(D) : e = << >>
    BY EmptySeq
<1>2. \E g \in [0 .. N -> Seq(D)] : Follows(g, N, e, H)
  <2>1. N \in Nat
        OBVIOUS
  <2> QED
      BY <1>1, <2>1, Recursion
<1> PICK g \in [0 .. N -> Seq(D)] :
        g[0] = e /\ \A n \in 1 .. N : g[n] = H[n][g[n - 1]]
      BY <1>2 DEF Follows
<1>3. 1 \in 1 .. N
      OBVIOUS
<1>4. \A n \in 1 .. N : g[n - 1] \in Seq(D)
      OBVIOUS
<1>5. \A n \in 1 .. N : g[n] = g[n - 1] \o s[n]
      BY <1>4 DEF H
<1>6. g[1] = s[1]
  <2>1. s[1] \in Seq(D) /\ g[1 - 1] = e
        BY <1>3
  <2>2. g[1] = e \o s[1]
        BY <1>3, <1>5, <2>1
  <2> QED
      BY <2>1, <2>2, ConcatEmptySeq
<1> DEFINE F == [l \in 1 .. N |-> g[l]]
<1>7. F \in [1 .. N -> Seq(D)]
      OBVIOUS
<1>8. \A l \in 1 .. N : F[l] = IF l = 1 THEN s[l] ELSE F[l - 1] \o s[l]
  <2>1. \A l \in 1 .. N : l # 1 => l - 1 \in 1 .. N
        OBVIOUS
  <2> QED
      BY <1>5, <1>6, <2>1
<1> HIDE DEF F
<1>9. F = [l \in 1 .. N |-> IF l = 1 THEN s[l] ELSE F[l - 1] \o s[l]]
      BY <1>7, <1>8
<1> QED
    BY <1>7, <1>9 DEF IsFlatten

(* Its values, the last of them the result.                                *)
Unfolds(F, N, s) ==
  /\ F[1] = s[1]
  /\ \A l \in 1 .. N : l # 1 => F[l] = F[l - 1] \o s[l]
  /\ FlattenSeq(s) = F[N]

(* so FlattenSeq joins the sequences from the left.                        *)
LEMMA FlattenUnfolds ==
  ASSUME NEW D, NEW N \in Nat, N # 0,
         NEW s \in [1 .. N -> Seq(D)], s \in Seq(Seq(D)), Len(s) = N
  PROVE  \E F \in [1 .. N -> Seq(D)] : Unfolds(F, N, s)
<1> DEFINE C == CHOOSE f : IsFlatten(f, N, s)
<1>1. \E f : IsFlatten(f, N, s)
      BY FlattenExists
<1>2. IsFlatten(C, N, s)
      BY <1>1
<1>3. FlattenSeq(s) = C[N]
      BY DEF FlattenSeq, IsFlatten
<1> HIDE DEF C
<1>4. \A l \in 1 .. N : C[l] = IF l = 1 THEN s[l] ELSE C[l - 1] \o s[l]
      BY <1>2 DEF IsFlatten
<1> DEFINE S == {n \in 0 .. N : n # 0 => C[n] \in Seq(D)}
<1>5. 0 .. N \subseteq S
  <2>1. 0 \in S
        OBVIOUS
  <2>2. ASSUME NEW n \in 0 .. N - 1, n \in S PROVE n + 1 \in S
    <3>1. n + 1 \in 1 .. N /\ s[n + 1] \in Seq(D) /\ (n + 1) - 1 = n
          OBVIOUS
    <3>2. C[n + 1] = IF n + 1 = 1 THEN s[n + 1] ELSE C[n] \o s[n + 1]
          BY <1>4, <3>1
    <3>3. C[n + 1] \in Seq(D)
          BY <2>2, <3>1, <3>2
    <3> QED BY <3>1, <3>3
  <2> HIDE DEF S
  <2> QED BY <2>1, <2>2, Induction
<1>6. C \in [1 .. N -> Seq(D)]
  <2>1. \A l \in 1 .. N : C[l] \in Seq(D)
     BY <1>5
  <2> QED BY <1>2, <2>1 DEF IsFlatten
<1>7. C[1] = s[1] /\ \A l \in 1 .. N : l # 1 => C[l] = C[l - 1] \o s[l]
  <2>1. 1 \in 1 .. N
        OBVIOUS
  <2> QED
      BY <1>4, <2>1
<1> QED
    BY <1>3, <1>6, <1>7 DEF Unfolds

(* The partial results of FlattenSeq, from the empty one on.               *)
Joins(F, s) ==
  F[0] = << >> /\ \A n \in 1 .. Len(s) : F[n] = F[n - 1] \o s[n]

LEMMA FlattenJoins ==
  ASSUME NEW D, NEW s \in Seq(Seq(D))
  PROVE  \E F \in [0 .. Len(s) -> Seq(D)] :
            Joins(F, s) /\ FlattenSeq(s) = F[Len(s)]
<1>1. Len(s) \in Nat /\ s \in [1 .. Len(s) -> Seq(D)]
      BY LenProperties
<1>2. << >> \in Seq(D)
      BY EmptySeq
<1>3. CASE Len(s) = 0
  <2> DEFINE F == [n \in 0 .. 0 |-> << >>]
  <2>1. F \in [0 .. Len(s) -> Seq(D)] /\ F[0] = << >>
        BY <1>2, <1>3
  <2>2. s = << >>
        BY <1>3, EmptySeq
  <2>3. FlattenSeq(s) = F[Len(s)]
        BY <1>3, <2>2 DEF FlattenSeq
  <2>4. Joins(F, s)
        BY <1>3, <2>1 DEF Joins
  <2> QED
      BY <2>1, <2>3, <2>4
<1>4. CASE Len(s) # 0
  <2> PICK N \in Nat : N = Len(s)
      BY <1>1
  <2>1. \E F \in [1 .. N -> Seq(D)] : Unfolds(F, N, s)
        BY <1>1, <1>4, FlattenUnfolds
  <2> PICK F \in [1 .. N -> Seq(D)] :
           /\ F[1] = s[1]
           /\ \A l \in 1 .. N : l # 1 => F[l] = F[l - 1] \o s[l]
           /\ FlattenSeq(s) = F[N]
        BY <2>1 DEF Unfolds
  <2> DEFINE G == [n \in 0 .. N |-> IF n = 0 THEN << >> ELSE F[n]]
  <2>2. G \in [0 .. N -> Seq(D)]
        BY <1>2
  <2>3. G[0] = << >> /\ G[N] = F[N]
        BY <1>4
  <2>4. ASSUME NEW n \in 1 .. N
        PROVE  G[n] = G[n - 1] \o s[n]
    <3>1. CASE n = 1
      <4>1. G[1] = s[1] /\ s[1] \in Seq(D) /\ G[1 - 1] = << >>
            BY <1>1, <3>1
      <4> QED
          BY <3>1, <4>1, ConcatEmptySeq
    <3>2. CASE n # 1
      <4>1. n - 1 \in 1 .. N /\ G[n] = F[n] /\ G[n - 1] = F[n - 1]
            BY <3>2
      <4> QED
          BY <3>2, <4>1
    <3> QED
        BY <3>1, <3>2
  <2> HIDE DEF G
  <2> QED
      BY <2>2, <2>3, <2>4 DEF Joins
<1> QED
    BY <1>3, <1>4

(* They determine the result.                                              *)
LEMMA JoinsFlatten ==
  ASSUME NEW D, NEW s \in Seq(Seq(D)), NEW G, Joins(G, s)
  PROVE  FlattenSeq(s) = G[Len(s)]
<1> PICK N \in Nat : N = Len(s)
    BY LenProperties
<1>1. PICK F \in [0 .. N -> Seq(D)] : Joins(F, s) /\ FlattenSeq(s) = F[N]
      BY FlattenJoins
<1>2. /\ F[0] = << >> /\ \A n \in 1 .. N : F[n] = F[n - 1] \o s[n]
      /\ G[0] = << >> /\ \A n \in 1 .. N : G[n] = G[n - 1] \o s[n]
      BY <1>1 DEF Joins
<1> DEFINE S == {n \in 0 .. N : F[n] = G[n]}
<1>3. 0 \in S
      BY <1>2
<1>4. ASSUME NEW n \in 0 .. N - 1, n \in S
      PROVE  n + 1 \in S
  <2>1. n + 1 \in 1 .. N /\ (n + 1) - 1 = n /\ F[n] = G[n]
        BY <1>4
  <2>2. F[n + 1] = F[n] \o s[n + 1] /\ G[n + 1] = G[n] \o s[n + 1]
        BY <1>2, <2>1
  <2>3. F[n + 1] = G[n + 1] /\ n + 1 \in 0 .. N
        BY <2>1, <2>2
  <2> HIDE <2>1, <2>2
  <2> QED
      BY <2>3
<1> HIDE DEF S
<1>5. 0 .. N \subseteq S
      BY <1>3, <1>4, Induction
<1> QED
    BY <1>1, <1>5 DEF S

(* What is joined are sequences over the same set.                         *)
LEMMA FlattenType ==
  ASSUME NEW D, NEW s \in Seq(Seq(D))
  PROVE  FlattenSeq(s) \in Seq(D)
<1>1. PICK F \in [0 .. Len(s) -> Seq(D)] : FlattenSeq(s) = F[Len(s)]
      BY FlattenJoins
<1>2. Len(s) \in 0 .. Len(s)
      BY LenProperties
<1> QED
    BY <1>1, <1>2

(* Nothing is joined to nothing.                                           *)
LEMMA FlattenEmpty == FlattenSeq(<< >>) = << >>
BY EmptySeq DEF FlattenSeq

(* The last sequence comes last.                                           *)
LEMMA FlattenAppend ==
  ASSUME NEW D, NEW s \in Seq(Seq(D)), NEW e \in Seq(D)
  PROVE  FlattenSeq(Append(s, e)) = FlattenSeq(s) \o e
<1> PICK N \in Nat : N = Len(s)
    BY LenProperties
<1> PICK a : a = Append(s, e)
    OBVIOUS
<1>1. /\ a \in Seq(Seq(D)) /\ Len(a) = N + 1 /\ a[N + 1] = e
      /\ \A n \in 1 .. N : a[n] = s[n]
      BY AppendProperties
<1>2. PICK F \in [0 .. N -> Seq(D)] : Joins(F, s) /\ FlattenSeq(s) = F[N]
      BY FlattenJoins
<1> DEFINE G == [n \in 0 .. N + 1 |-> IF n = N + 1 THEN F[N] \o e ELSE F[n]]
<1>3. G[0] = << >>
      BY <1>2 DEF Joins
<1>4. ASSUME NEW n \in 1 .. N + 1
      PROVE  G[n] = G[n - 1] \o a[n]
  <2>1. CASE n = N + 1
    <3>1. G[n] = F[N] \o e
          BY <2>1
    <3>2. N \in 0 .. N /\ N # N + 1 /\ n - 1 = N
          BY <2>1
    <3>3. G[n - 1] = F[N]
          BY <3>2
    <3> QED
        BY <1>1, <2>1, <3>1, <3>3
  <2>2. CASE n # N + 1
    <3>1. n \in 1 .. N /\ G[n] = F[n] /\ G[n - 1] = F[n - 1]
          BY <2>2
    <3> QED
        BY <1>1, <1>2, <3>1 DEF Joins
  <2> QED
      BY <2>1, <2>2
<1>5. G[N + 1] = F[N] \o e
      OBVIOUS
<1> HIDE DEF G
<1>6. Joins(G, a)
      BY <1>1, <1>3, <1>4 DEF Joins
<1> QED
    BY <1>1, <1>2, <1>5, <1>6, JoinsFlatten

(* Concatenation, under a name that the provers leave alone.               *)
Cat(x, y) == x \o y
(* It is associative.                                                      *)
LEMMA CatAssoc ==
  ASSUME NEW D, NEW x \in Seq(D), NEW y \in Seq(D), NEW z \in Seq(D)
  PROVE  Cat(Cat(x, y), z) = Cat(x, Cat(y, z))
BY ConcatAssociative DEF Cat

(* Two lists are joined one after the other.                               *)
LEMMA FlattenConcat ==
  ASSUME NEW D, NEW s \in Seq(Seq(D)), NEW r \in Seq(Seq(D))
  PROVE  FlattenSeq(s \o r) = FlattenSeq(s) \o FlattenSeq(r)
<1>0. \A x, y, z \in Seq(D) : Cat(Cat(x, y), z) = Cat(x, Cat(y, z))
      BY CatAssoc
<1> PICK N \in Nat, M \in Nat : N = Len(s) /\ M = Len(r)
    BY LenProperties
<1> PICK a : a = s \o r
    OBVIOUS
<1>1. /\ a \in Seq(Seq(D)) /\ Len(a) = N + M
      /\ \A n \in 1 .. N + M : a[n] = IF n <= N THEN s[n] ELSE r[n - N]
      BY ConcatProperties
<1>2. PICK F \in [0 .. N -> Seq(D)] : Joins(F, s) /\ FlattenSeq(s) = F[N]
      BY FlattenJoins
<1>3. PICK E \in [0 .. M -> Seq(D)] : Joins(E, r) /\ FlattenSeq(r) = E[M]
      BY FlattenJoins
<1>4. /\ F[0] = << >> /\ \A n \in 1 .. N : F[n] = F[n - 1] \o s[n]
      /\ E[0] = << >> /\ \A n \in 1 .. M : E[n] = E[n - 1] \o r[n]
      BY <1>2, <1>3 DEF Joins
<1>5. F[N] \in Seq(D) /\ \A n \in 0 .. M : E[n] \in Seq(D)
  <2>1. N \in 0 .. N
        OBVIOUS
  <2>2. F[N] \in Seq(D)
        BY <2>1
  <2>3. \A n \in 0 .. M : E[n] \in Seq(D)
        OBVIOUS
  <2> QED
      BY <2>2, <2>3
<1> DEFINE G == [n \in 0 .. N + M |-> IF n <= N THEN F[n] ELSE F[N] \o E[n - N]]
<1>6. G[0] = << >>
      BY <1>4
<1>7. F[N] \o << >> = F[N]
      BY <1>5, ConcatEmptySeq
<1>8. \A n \in 0 .. M : G[N + n] = F[N] \o E[n]
  <2>1. \A n \in 0 .. M : n # 0 => G[N + n] = F[N] \o E[n]
        OBVIOUS
  <2>2. G[N + 0] = F[N] \o E[0]
        BY <1>4, <1>7
  <2> QED
      BY <2>1, <2>2
<1>9. ASSUME NEW n \in 1 .. N + M
      PROVE  G[n] = G[n - 1] \o a[n]
  <2>1. CASE n <= N
    <3>1. n \in 1 .. N /\ G[n] = F[n] /\ G[n - 1] = F[n - 1]
          BY <2>1
    <3> QED
        BY <1>1, <1>4, <2>1, <3>1
  <2>2. CASE ~(n <= N)
    <3> PICK m \in 1 .. M : n = N + m
      <4>1. n - N \in 1 .. M /\ n = N + (n - N)
            BY <2>2
      <4> QED
          BY <4>1
    <3>1. G[n] = F[N] \o E[m] /\ a[n] = r[m]
      <4>1. m \in 0 .. M /\ n - N = m /\ ~(n <= N)
            BY <2>2
      <4>2. G[N + m] = F[N] \o E[m]
            BY <1>8, <4>1
      <4>3. a[n] = r[n - N]
            BY <1>1, <4>1
      <4> QED
          BY <4>1, <4>2, <4>3
    <3>2. m - 1 \in 0 .. M /\ n - 1 = N + (m - 1)
          OBVIOUS
    <3>3. G[n - 1] = F[N] \o E[m - 1]
          BY <1>8, <3>2
    <3>4. E[m] = E[m - 1] \o r[m] /\ E[m - 1] \in Seq(D) /\ r[m] \in Seq(D)
      <4>1. E[m] = E[m - 1] \o r[m]
            BY <1>4
      <4>2. E[m - 1] \in Seq(D)
            BY <1>5, <3>2
      <4>3. r[m] \in Seq(D)
            BY ElementOfSeq
      <4> QED
          BY <4>1, <4>2, <4>3
    <3>5. F[N] \o (E[m - 1] \o r[m]) = (F[N] \o E[m - 1]) \o r[m]
      <4>1. Cat(Cat(F[N], E[m - 1]), r[m]) = Cat(F[N], Cat(E[m - 1], r[m]))
            BY <1>5, <3>4, <1>0
      <4> QED
          BY <4>1 DEF Cat
    <3> QED
        BY <3>1, <3>3, <3>4, <3>5
  <2> QED
      BY <2>1, <2>2
<1>10. G[N + M] = F[N] \o E[M]
  <2>1. M \in 0 .. M
        OBVIOUS
  <2> QED
      BY <1>8, <2>1
<1> HIDE DEF G
<1>11. Joins(G, a)
       BY <1>1, <1>6, <1>9 DEF Joins
<1> QED
    BY <1>1, <1>2, <1>3, <1>10, <1>11, JoinsFlatten

(* What G makes of the elements of s, one after the other.                 *)
Each(s, G) == [k \in DOMAIN s |-> G[s[k]]]
Gather(s, G) == FlattenSeq(Each(s, G))

(* There are as many as elements of s.                                     *)
LEMMA EachType ==
  ASSUME NEW T, NEW R, NEW s \in Seq(T), NEW G \in [T -> R]
  PROVE  Each(s, G) \in Seq(R) /\ Len(Each(s, G)) = Len(s)
<1>1. /\ Len(s) \in Nat /\ DOMAIN s = 1 .. Len(s)
      /\ \A k \in 1 .. Len(s) : s[k] \in T
      BY LenProperties, ElementOfSeq
<1>2. Each(s, G) = [k \in 1 .. Len(s) |-> G[s[k]]]
      BY <1>1 DEF Each
<1>3. Each(s, G) \in [1 .. Len(s) -> R]
      BY <1>1, <1>2
<1> QED
    BY <1>1, <1>3, IsASeq, LenProperties, SeqDef

(* What a function makes of two sequences, one after the other.            *)
LEMMA EachConcat ==
  ASSUME NEW T, NEW R, NEW s \in Seq(T), NEW r \in Seq(T), NEW G \in [T -> R]
  PROVE  Each(s, G) \in Seq(R) =>
            Each(Cat(s, r), G) = Cat(Each(s, G), Each(r, G))
<1> USE DEF Cat
<1> PICK N \in Nat, M \in Nat : N = Len(s) /\ M = Len(r)
    BY LenProperties
<1>1. /\ s \o r \in Seq(T) /\ Len(s \o r) = N + M
      /\ \A n \in 1 .. N + M : (s \o r)[n] = IF n <= N THEN s[n] ELSE r[n - N]
      BY ConcatProperties
<1>2. /\ Each(s, G) \in Seq(R) /\ Len(Each(s, G)) = N
      /\ Each(r, G) \in Seq(R) /\ Len(Each(r, G)) = M
      /\ Each(s \o r, G) \in Seq(R) /\ Len(Each(s \o r, G)) = N + M
  <2>1. Each(s, G) \in Seq(R) /\ Len(Each(s, G)) = N
        BY EachType
  <2>2. Each(r, G) \in Seq(R) /\ Len(Each(r, G)) = M
        BY EachType
  <2>3. Each(s \o r, G) \in Seq(R) /\ Len(Each(s \o r, G)) = N + M
    <3>1. \A a \in Seq(T) : Each(a, G) \in Seq(R) /\ Len(Each(a, G)) = Len(a)
          BY EachType
    <3> QED
        BY <1>1, <3>1
  <2> QED
      BY <2>1, <2>2, <2>3
<1>3. /\ Each(s, G) \o Each(r, G) \in Seq(R)
      /\ Len(Each(s, G) \o Each(r, G)) = N + M
      /\ \A n \in 1 .. N + M :
            (Each(s, G) \o Each(r, G))[n] =
               IF n <= N THEN Each(s, G)[n] ELSE Each(r, G)[n - N]
  <2> DEFINE u == Each(s, G)
             v == Each(r, G)
  <2>1. u \in Seq(R) /\ v \in Seq(R) /\ Len(u) = N /\ Len(v) = M
        BY <1>2
  <2> HIDE DEF u, v
  <2>2. /\ u \o v \in Seq(R) /\ Len(u \o v) = Len(u) + Len(v)
        /\ \A n \in 1 .. Len(u) + Len(v) :
              (u \o v)[n] = IF n <= Len(u) THEN u[n] ELSE v[n - Len(u)]
        BY <2>1, ConcatProperties
  <2> QED
      BY <2>1, <2>2 DEF u, v
<1>4. /\ DOMAIN s = 1 .. N /\ DOMAIN r = 1 .. M /\ DOMAIN (s \o r) = 1 .. N + M
      BY <1>1, LenProperties
<1>5. /\ \A n \in 1 .. N : Each(s, G)[n] = G[s[n]]
      /\ \A n \in 1 .. M : Each(r, G)[n] = G[r[n]]
      /\ \A n \in 1 .. N + M : Each(s \o r, G)[n] = G[(s \o r)[n]]
      BY <1>4 DEF Each
<1>6. \A n \in 1 .. N + M : Each(s \o r, G)[n] = (Each(s, G) \o Each(r, G))[n]
  <2> SUFFICES ASSUME NEW n \in 1 .. N + M
               PROVE  Each(s \o r, G)[n] = (Each(s, G) \o Each(r, G))[n]
      OBVIOUS
  <2>1. CASE n <= N
    <3>1. n \in 1 .. N
          BY <2>1
    <3>2. (s \o r)[n] = s[n] /\ (Each(s, G) \o Each(r, G))[n] = Each(s, G)[n]
          BY <1>1, <1>3, <2>1
    <3> QED
        BY <1>5, <3>1, <3>2
  <2>2. CASE ~(n <= N)
    <3>1. n - N \in 1 .. M
          BY <2>2
    <3>2. /\ (s \o r)[n] = r[n - N]
          /\ (Each(s, G) \o Each(r, G))[n] = Each(r, G)[n - N]
          BY <1>1, <1>3, <2>2
    <3> QED
        BY <1>5, <3>1, <3>2, SMTT(40)
  <2> QED
      BY <2>1, <2>2
<1> PICK a \in Seq(R), b \in Seq(R) :
        a = Each(s \o r, G) /\ b = Each(s, G) \o Each(r, G)
    BY <1>2, <1>3
<1>7. Len(a) = N + M /\ Len(b) = N + M /\ \A n \in 1 .. N + M : a[n] = b[n]
      BY <1>2, <1>3, <1>6
<1> QED
    BY <1>7, SeqEqual

(* The same of what is gathered from them,                                 *)
LEMMA GatherConcat ==
  ASSUME NEW T, NEW D, NEW s \in Seq(T), NEW r \in Seq(T),
         NEW G \in [T -> Seq(D)]
  PROVE  /\ Gather(s, G) \in Seq(D) /\ Gather(r, G) \in Seq(D)
         /\ Gather(Cat(s, r), G) = Cat(Gather(s, G), Gather(r, G))
<1>1. Each(s, G) \in Seq(Seq(D)) /\ Each(r, G) \in Seq(Seq(D))
      BY EachType
<1>2. Each(Cat(s, r), G) = Cat(Each(s, G), Each(r, G))
      BY <1>1, EachConcat
<1>3. FlattenSeq(Cat(Each(s, G), Each(r, G))) =
         Cat(FlattenSeq(Each(s, G)), FlattenSeq(Each(r, G)))
      BY <1>1, FlattenConcat DEF Cat
<1>4. Gather(Cat(s, r), G) = Cat(Gather(s, G), Gather(r, G))
      BY <1>2, <1>3 DEF Gather
<1> QED
    BY <1>1, <1>4, FlattenType DEF Gather

(* whose elements come from the same set;                                  *)
LEMMA GatherType ==
  ASSUME NEW T, NEW D, NEW s \in Seq(T), NEW G \in [T -> Seq(D)]
  PROVE  Gather(s, G) \in Seq(D)
BY EachType, FlattenType DEF Gather

(* an empty sequence gives nothing,                                        *)
LEMMA GatherEmpty ==
  ASSUME NEW G
  PROVE  Gather(<< >>, G) = << >>
<1>1. Each(<< >>, G) = << >>
      BY EmptySeq DEF Each
<1> QED
    BY <1>1, FlattenEmpty DEF Gather

(* One sequence is left as it is.                                          *)
LEMMA FlattenOne ==
  ASSUME NEW D, NEW e \in Seq(D)
  PROVE  FlattenSeq(<<e>>) = e
<1>1. << >> \in Seq(Seq(D)) /\ Append(<< >>, e) = <<e>>
      BY EmptySeq
<1>2. FlattenSeq(<<e>>) = << >> \o e
      BY <1>1, FlattenAppend, FlattenEmpty
<1> QED
    BY <1>2, ConcatEmptySeq

(* and one element what is made of it.                                     *)
LEMMA GatherOne ==
  ASSUME NEW T, NEW D, NEW x \in T, NEW G \in [T -> Seq(D)]
  PROVE  Gather(<<x>>, G) = G[x] /\ Gather(<<x>>, G) \in Seq(D)
<1>1. Each(<<x>>, G) = <<G[x]>>
      BY DEF Each
<1> QED
    BY <1>1, FlattenOne DEF Gather

(* What holds of the parts and of every concatenation holds of the result. *)
LEMMA FlattenIn ==
  ASSUME NEW D, NEW R, R \subseteq Seq(D), << >> \in R,
         \A x, y \in R : Cat(x, y) \in R,
         NEW s \in Seq(Seq(D)), \A k \in 1 .. Len(s) : s[k] \in R
  PROVE  FlattenSeq(s) \in R
<1> PICK N \in Nat : N = Len(s)
    BY LenProperties
<1>1. PICK F \in [0 .. N -> Seq(D)] : Joins(F, s) /\ FlattenSeq(s) = F[N]
      BY FlattenJoins
<1>2. F[0] = << >> /\ \A n \in 1 .. N : F[n] = Cat(F[n - 1], s[n])
      BY <1>1 DEF Joins, Cat
<1> DEFINE S == {n \in 0 .. N : F[n] \in R}
<1>3. 0 \in S
      BY <1>2
<1>4. ASSUME NEW n \in 0 .. N - 1, n \in S
      PROVE  n + 1 \in S
  <2>1. n + 1 \in 1 .. N /\ (n + 1) - 1 = n /\ F[n] \in R
        BY <1>4
  <2>2. F[n + 1] = Cat(F[n], s[n + 1])
        BY <1>2, <2>1
  <2>3. F[n + 1] \in R
        BY <2>1, <2>2
  <2> QED
      BY <2>1, <2>3
<1> HIDE DEF S
<1>5. 0 .. N \subseteq S
      BY <1>3, <1>4, Induction
<1> QED
    BY <1>1, <1>5 DEF S

(* Every set of numbers with a bound that is not empty has a greatest one. *)
LEMMA Greatest ==
  ASSUME NEW N \in Nat, NEW S, S \subseteq 0 .. N, S # {}
  PROVE  \E m \in S : \A k \in S : k <= m
<1> DEFINE B == {N - k : k \in S}
<1>1. B \subseteq Nat
  <2>1. \A k \in S : N - k \in Nat
    <3>1. \A k \in 0 .. N : N - k \in Nat
          OBVIOUS
    <3> QED
        BY <3>1
  <2> QED
      BY <2>1
<1>2. B # {}
      OBVIOUS
<1>3. PICK b \in B : \A c \in B : b <= c
      BY <1>1, <1>2, Least
<1>4. PICK m \in S : b = N - m
      OBVIOUS
<1>5. \A k \in S : k <= m
  <2> SUFFICES ASSUME NEW k \in S PROVE k <= m
      OBVIOUS
  <2>1. k \in 0 .. N /\ m \in 0 .. N
        OBVIOUS
  <2>2. N - m <= N - k
        BY <1>3, <1>4
  <2> QED
      BY <2>1, <2>2
<1> QED
    BY <1>5

(* A part of the rest of a sequence is a part of the sequence.             *)
LEMMA SubSeqOfTail ==
  ASSUME NEW S, NEW s \in Seq(S), s # << >>,
         NEW m \in Nat, m # 0, NEW n \in Nat, n <= Len(s) - 1
  PROVE  /\ SubSeq(Tail(s), m, n) \in Seq(S)
         /\ SubSeq(Tail(s), m, n) = SubSeq(s, m + 1, n + 1)
<1> DEFINE r == Tail(s)
<1>1. /\ r \in Seq(S) /\ Len(r) = Len(s) - 1 /\ Len(s) \in Nat
      /\ \A k \in 1 .. Len(s) - 1 : r[k] = s[k + 1]
      BY HeadTailProperties, LenProperties
<1> HIDE DEF r
<1>2. /\ \A k \in m .. n : r[k] \in S
      /\ \A k \in m + 1 .. n + 1 : s[k] \in S
      BY <1>1, ElementOfSeq
<1>3. /\ SubSeq(r, m, n) \in Seq(S)
      /\ Len(SubSeq(r, m, n)) = IF m <= n THEN n - m + 1 ELSE 0
      /\ \A k \in 1 .. n - m + 1 : SubSeq(r, m, n)[k] = r[m + k - 1]
      BY <1>2, SubSeqProperties
<1>4. /\ SubSeq(s, m + 1, n + 1) \in Seq(S)
      /\ Len(SubSeq(s, m + 1, n + 1)) = IF m <= n THEN n - m + 1 ELSE 0
      /\ \A k \in 1 .. n - m + 1 : SubSeq(s, m + 1, n + 1)[k] = s[m + k]
  <2>1. /\ SubSeq(s, m + 1, n + 1) \in Seq(S)
        /\ Len(SubSeq(s, m + 1, n + 1)) =
              IF m + 1 <= n + 1 THEN (n + 1) - (m + 1) + 1 ELSE 0
        /\ \A k \in 1 .. (n + 1) - (m + 1) + 1 :
              SubSeq(s, m + 1, n + 1)[k] = s[(m + 1) + k - 1]
        BY <1>2, SubSeqProperties
  <2> DEFINE p == SubSeq(s, m + 1, n + 1)
  <2> HIDE DEF p
  <2>2. /\ p \in Seq(S) /\ Len(p) = IF m + 1 <= n + 1 THEN (n + 1) - (m + 1) + 1 ELSE 0
        /\ \A k \in 1 .. (n + 1) - (m + 1) + 1 : p[k] = s[(m + 1) + k - 1]
        BY <2>1 DEF p
  <2>3. /\ p \in Seq(S) /\ Len(p) = IF m <= n THEN n - m + 1 ELSE 0
        /\ \A k \in 1 .. n - m + 1 : p[k] = s[m + k]
        BY <2>2
  <2> QED
      BY <2>3 DEF p
<1> DEFINE u == SubSeq(r, m, n)
           v == SubSeq(s, m + 1, n + 1)
<1>5. Len(u) = Len(v) /\ \A k \in 1 .. Len(u) : u[k] = v[k]
  <2> HIDE DEF u, v
  <2>1. /\ Len(u) = IF m <= n THEN n - m + 1 ELSE 0
        /\ Len(v) = IF m <= n THEN n - m + 1 ELSE 0
        /\ \A k \in 1 .. n - m + 1 : u[k] = r[m + k - 1] /\ v[k] = s[m + k]
        BY <1>3, <1>4 DEF u, v
  <2>2. \A k \in 1 .. Len(u) : k \in 1 .. n - m + 1
        BY <2>1
  <2>3. \A k \in 1 .. n - m + 1 : r[m + k - 1] = s[m + k]
    <3> SUFFICES ASSUME NEW k \in 1 .. n - m + 1 PROVE r[m + k - 1] = s[m + k]
        OBVIOUS
    <3>1. m + k - 1 \in 1 .. Len(s) - 1 /\ (m + k - 1) + 1 = m + k
          BY <1>1
    <3>2. r[m + k - 1] = s[(m + k - 1) + 1]
          BY <1>1, <3>1
    <3> QED
        BY <3>1, <3>2
  <2> QED
      BY <2>1, <2>2, <2>3
<1> HIDE DEF u, v
<1>6. u = v
      BY <1>3, <1>4, <1>5, SeqEqual DEF u, v
<1> QED
    BY <1>3, <1>6 DEF u, v, r

(* What is appended is not among the first elements, and a prefix is made  *)
(* of elements.                                                            *)
LEMMA PrefixOfAppend ==
  ASSUME NEW S, NEW s \in Seq(S), NEW e \in S, NEW n \in Nat, n <= Len(s)
  PROVE  /\ SubSeq(s, 1, n) \in Seq(S)
         /\ SubSeq(Append(s, e), 1, n) = SubSeq(s, 1, n)
<1> DEFINE r == Append(s, e)
           u == SubSeq(r, 1, n)
           v == SubSeq(s, 1, n)
<1>1. /\ Len(s) \in Nat /\ r \in Seq(S) /\ Len(r) = Len(s) + 1
      /\ \A k \in 1 .. Len(s) : r[k] = s[k]
      BY AppendProperties, LenProperties
<1>2. \A k \in 1 .. n : k \in 1 .. Len(s) /\ s[k] \in S
      BY <1>1, ElementOfSeq
<1> HIDE DEF r
<1>3. \A k \in 1 .. n : r[k] = s[k] /\ r[k] \in S
      BY <1>1, <1>2
<1>4. /\ u \in Seq(S) /\ Len(u) = (IF 1 <= n THEN n - 1 + 1 ELSE 0)
      /\ \A k \in 1 .. n - 1 + 1 : u[k] = r[1 + k - 1]
      BY <1>3, SubSeqProperties
<1>5. /\ v \in Seq(S) /\ Len(v) = (IF 1 <= n THEN n - 1 + 1 ELSE 0)
      /\ \A k \in 1 .. n - 1 + 1 : v[k] = s[1 + k - 1]
      BY <1>2, SubSeqProperties
<1> HIDE DEF u, v
<1>6. Len(u) = Len(v) /\ Len(u) = n
      BY <1>4, <1>5
<1>7. \A k \in 1 .. n : u[k] = r[k] /\ v[k] = s[k]
      BY <1>4, <1>5
<1>8. u = v
      BY <1>3, <1>4, <1>5, <1>6, <1>7, SeqEqual
<1> QED
    BY <1>5, <1>8 DEF u, v, r

(* Appending to the second of two sequences appends to both.               *)
LEMMA CatAppend ==
  ASSUME NEW S, NEW x \in Seq(S), NEW y \in Seq(S), NEW e \in S
  PROVE  Cat(x, Append(y, e)) = Append(Cat(x, y), e)
<1> DEFINE o == <<e>>
           z == Cat(x, y)
<1>1. o \in Seq(S) /\ Append(y, e) = Cat(y, o)
      BY AppendIsConcat DEF Cat
<1>2. z \in Seq(S)
      BY ConcatProperties DEF Cat
<1>3. Append(z, e) = Cat(z, o)
  <2> HIDE DEF z
  <2> QED
      BY <1>2, AppendIsConcat DEF Cat
<1> HIDE DEF o
<1>4. Cat(x, Cat(y, o)) = Cat(Cat(x, y), o)
      BY <1>1, CatAssoc
<1> QED
    BY <1>1, <1>3, <1>4
-----------------------------------------------------------------------------

(* The sequences of messages of one table, tables of them, and the items   *)
(* of a connection.                                                        *)
RowsOf(t) == {ms \in Seq(Messages) : OfTable(ms, t) = ms}
Contents == {f \in [Tables -> Seq(Messages)] : \A t \in Tables : f[t] \in RowsOf(t)}
Updates == {x \in [kind : {"upd"}, table : Tables, rows : Seq(Messages)] :
              x.rows \in RowsOf(x.table)}
Items == Updates \cup [kind : {"end"}, day : Days]

PlantStates ==
  [up : BOOLEAN, timer : BOOLEAN, d : Days, i : Nat, j : Nat, buf : Contents,
   w : [Tables -> SUBSET Handles], log : [Days -> Seq(Messages)],
   chan : [Handles -> Seq(Items)], err : BOOLEAN]

(* The RDBs: no two have the same connection.                              *)
RdbTypes ==
  /\ rdb \in [Rdbs -> {"down", "replay", "live"}]
  /\ hand \in [Rdbs -> Handles \cup {NoHandle}]
  /\ sync \in [Rdbs -> [n : Nat, day : Days]]
  /\ rows \in [Rdbs -> Contents]
  /\ saved \in [Days -> SUBSET Contents]
  /\ \A r \in Rdbs : rdb[r] = "down" <=> hand[r] = NoHandle
  /\ \A r, q \in Rdbs : hand[r] = hand[q] /\ hand[r] # NoHandle => r = q
  /\ ~Logging => \A r \in Rdbs : sync[r].n = 0

OtherTypes ==
  /\ mode \in Modes /\ today \in 1 .. LastDay
  /\ torn \in [Days -> BOOLEAN] /\ sent \subseteq Messages
  /\ crashes \in 0 .. MaxCrashes
  /\ Logging /\ FeedEndsDay =>
       ~Batch /\ MaxCrashes = 0 /\ \A x \in Days : ~torn[x]

(* A state of the plant, whatever is logged.                               *)
Sound(s) ==
  /\ s \in PlantStates
  /\ \A h \in Handles : h \notin Held => s.chan[h] = << >>
  /\ \A t, u \in Tables : s.w[t] = s.w[u]
  /\ ~s.up => s.buf = Empty /\ \A t \in Tables : s.w[t] = {}
  /\ ~Batch => s.buf = Empty
  /\ ~Logging => s.i = 0 /\ s.j = 0
  /\ ~FeedEndsDay => s.d <= today
  /\ Logging /\ FeedEndsDay => s.up

(* What RDB r has of table t, when the logs are lg, and what it has after  *)
(* the items c, of which the last end of a day forgets those before it.    *)
CopyOf(r, lg, t) ==
  IF rdb[r] = "replay" THEN OfTable(SubSeq(lg[sync[r].day], 1, sync[r].n), t)
  ELSE rows[r][t]
After(q, c, t) ==
  IF Ends(c) = {} THEN q \o RowsIn(c, t)
  ELSE RowsIn(SubSeq(c, Max(Ends(c)) + 1, Len(c)), t)

(* The past is complete: an RDB replays what is in a log, has at the end   *)
(* of a day all of that day, and has saved all of it; later days are empty. *)
Past(s) ==
  /\ \A x \in Days : x > s.d => s.log[x] = << >>
  /\ \A r \in Rdbs :
       rdb[r] = "replay" => sync[r].n <= Len(s.log[sync[r].day])
  /\ \A r \in Rdbs : hand[r] # NoHandle =>
       \A k \in Ends(s.chan[hand[r]]) :
         LET c == s.chan[hand[r]]
         IN  /\ c[k].day < s.d
             /\ \A t \in Tables :
                  After(CopyOf(r, s.log, t), SubSeq(c, 1, k - 1), t) =
                    OfTable(s.log[c[k].day], t)
  /\ \A x \in Days : \A tables \in saved[x] :
       /\ x < s.d
       /\ \A t \in Tables : tables[t] = OfTable(s.log[x], t)

(* The day is exact: the counters and the copies of the connected RDBs.    *)
Counted(s) ==
  IF Batch
  THEN /\ s.i <= s.j /\ s.j = Len(s.log[s.d])
       /\ \A t \in Tables :
            OfTable(SubSeq(s.log[s.d], 1, s.i), t) \o s.buf[t] = OfTable(s.log[s.d], t)
  ELSE s.i = Len(s.log[s.d])
Agrees(s) ==
  \A r \in Rdbs, t \in Tables : hand[r] \in s.w[t] =>
    After(CopyOf(r, s.log, t), s.chan[hand[r]], t) \o s.buf[t] =
      OfTable(s.log[s.d], t)

Kept(s) ==
  /\ Sound(s)
  /\ Logging => Past(s)
  /\ Logging /\ s.up => Counted(s) /\ Agrees(s)

Inv == RdbTypes /\ OtherTypes /\ Kept(Plant)

-----------------------------------------------------------------------------
(* The rows of a table among messages, and among the items of a connection *)

Only(t) == [m \in Messages |-> IF TabOf[m] = t THEN <<m>> ELSE << >>]

(* OfTable gathers, from every message, itself or nothing.                 *)
LEMMA OfTableGathers ==
  ASSUME NEW ms \in Seq(Messages), NEW t
  PROVE  /\ Only(t) \in [Messages -> Seq(Messages)]
         /\ OfTable(ms, t) = Gather(ms, Only(t))
<1>1. \A m \in Messages : <<m>> \in Seq(Messages)
      OBVIOUS
<1>2. << >> \in Seq(Messages)
      BY EmptySeq
<1>3. \A m \in Messages :
         (IF TabOf[m] = t THEN <<m>> ELSE << >>) \in Seq(Messages)
      BY <1>1, <1>2
<1>4. Only(t) \in [Messages -> Seq(Messages)]
      BY <1>3 DEF Only
<1>5. \A k \in DOMAIN ms : ms[k] \in Messages
      BY ElementOfSeq, LenProperties
<1>6. \A k \in DOMAIN ms :
         (IF TabOf[ms[k]] = t THEN <<ms[k]>> ELSE << >>) = Only(t)[ms[k]]
      BY <1>5 DEF Only
<1>7. [k \in DOMAIN ms |-> IF TabOf[ms[k]] = t THEN <<ms[k]>> ELSE << >>] =
         [k \in DOMAIN ms |-> Only(t)[ms[k]]]
      BY <1>6
<1> QED
    BY <1>4, <1>7 DEF OfTable, Gather, Each

(* OfTable returns messages.                                               *)
LEMMA OfTableType ==
  ASSUME NEW ms \in Seq(Messages), NEW t
  PROVE  OfTable(ms, t) \in Seq(Messages)
BY OfTableGathers, GatherType

(* It takes the rows of two sequences one after the other,                 *)
LEMMA OfTableConcat ==
  ASSUME NEW a \in Seq(Messages), NEW b \in Seq(Messages), NEW t
  PROVE  OfTable(Cat(a, b), t) = Cat(OfTable(a, t), OfTable(b, t))
<1>1. Cat(a, b) \in Seq(Messages)
      BY ConcatProperties DEF Cat
<1>2. OfTable(Cat(a, b), t) = Gather(Cat(a, b), Only(t))
      BY <1>1, OfTableGathers
<1>3. /\ Only(t) \in [Messages -> Seq(Messages)]
      /\ OfTable(a, t) = Gather(a, Only(t)) /\ OfTable(b, t) = Gather(b, Only(t))
      /\ Gather(a, Only(t)) \in Seq(Messages)
      /\ Gather(b, Only(t)) \in Seq(Messages)
      BY OfTableGathers, OfTableType
<1>4. Gather(Cat(a, b), Only(t)) = Cat(Gather(a, Only(t)), Gather(b, Only(t)))
      BY <1>3, GatherConcat
<1> QED
    BY <1>2, <1>3, <1>4

(* nothing from nothing,                                                   *)
LEMMA OfTableEmpty ==
  ASSUME NEW t
  PROVE  OfTable(<< >>, t) = << >>
<1>1. << >> \in Seq(Messages)
      BY EmptySeq
<1> QED
    BY <1>1, OfTableGathers, GatherEmpty

(* from one message itself, if it is of the table,                         *)
LEMMA OfTableOne ==
  ASSUME NEW m \in Messages, NEW t
  PROVE  OfTable(<<m>>, t) = IF TabOf[m] = t THEN <<m>> ELSE << >>
<1>1. <<m>> \in Seq(Messages)
      OBVIOUS
<1>2. OfTable(<<m>>, t) = Gather(<<m>>, Only(t))
      BY <1>1, OfTableGathers
<1>3. Gather(<<m>>, Only(t)) = Only(t)[m]
  <2>1. /\ Only(t) \in [Messages -> Seq(Messages)]
        /\ Gather(<<m>>, Only(t)) \in Seq(Messages)
        BY <1>1, <1>2, OfTableGathers, OfTableType
  <2> QED
      BY <2>1, GatherOne
<1> QED
    BY <1>2, <1>3 DEF Only

(* and from one more message at most that one more.                        *)
LEMMA OfTableAppend ==
  ASSUME NEW a \in Seq(Messages), NEW m \in Messages, NEW t
  PROVE  OfTable(Append(a, m), t) =
           IF TabOf[m] = t THEN Append(OfTable(a, t), m) ELSE OfTable(a, t)
<1> DEFINE e == Append(a, m)
<1>1. e = Cat(a, <<m>>) /\ <<m>> \in Seq(Messages)
      BY AppendIsConcat DEF Cat
<1> HIDE DEF e
<1>2. OfTable(e, t) = Cat(OfTable(a, t), OfTable(<<m>>, t))
      BY <1>1, OfTableConcat
<1>3. OfTable(a, t) \in Seq(Messages)
      BY OfTableType
<1>4. OfTable(e, t) = IF TabOf[m] = t THEN Append(OfTable(a, t), m)
                                      ELSE OfTable(a, t)
  <2> DEFINE q == OfTable(a, t)
  <2>1. q \in Seq(Messages) /\ OfTable(e, t) = Cat(q, OfTable(<<m>>, t))
        BY <1>2, <1>3
  <2> HIDE DEF q
  <2>2. CASE TabOf[m] = t
        BY <2>1, <2>2, OfTableOne, AppendIsConcat, ZenonT(40) DEF q, Cat
  <2>3. CASE TabOf[m] # t
        BY <2>1, <2>3, OfTableOne, ConcatEmptySeq DEF q, Cat
  <2> QED
      BY <2>2, <2>3
<1> QED
    BY <1>4 DEF e

(* Rows of one table: none, one of them, one more, and two lots of them.   *)
LEMMA RowsOfTable ==
  ASSUME NEW t
  PROVE  /\ << >> \in RowsOf(t)
         /\ \A m \in Messages : TabOf[m] = t => <<m>> \in RowsOf(t)
         /\ \A a \in RowsOf(t), m \in Messages :
              TabOf[m] = t => Append(a, m) \in RowsOf(t)
         /\ \A a, b \in RowsOf(t) : Cat(a, b) \in RowsOf(t)
<1>1. << >> \in RowsOf(t)
      BY EmptySeq, OfTableEmpty DEF RowsOf
<1>2. ASSUME NEW m \in Messages, TabOf[m] = t
      PROVE  <<m>> \in RowsOf(t)
  <2>1. <<m>> \in Seq(Messages)
        OBVIOUS
  <2>2. OfTable(<<m>>, t) = <<m>>
        BY <1>2, OfTableOne
  <2> QED
      BY <2>1, <2>2 DEF RowsOf
<1>3. ASSUME NEW a \in RowsOf(t), NEW m \in Messages, TabOf[m] = t
      PROVE  Append(a, m) \in RowsOf(t)
  <2>1. a \in Seq(Messages) /\ OfTable(a, t) = a
        BY DEF RowsOf
  <2>2. Append(a, m) \in Seq(Messages)
        BY <2>1, AppendProperties
  <2>3. OfTable(Append(a, m), t) = Append(a, m)
        BY <1>3, <2>1, OfTableAppend
  <2> QED
      BY <2>2, <2>3 DEF RowsOf
<1>4. ASSUME NEW a \in RowsOf(t), NEW b \in RowsOf(t)
      PROVE  Cat(a, b) \in RowsOf(t)
  <2>1. /\ a \in Seq(Messages) /\ OfTable(a, t) = a
        /\ b \in Seq(Messages) /\ OfTable(b, t) = b
        BY DEF RowsOf
  <2>2. Cat(a, b) \in Seq(Messages)
        BY <2>1, ConcatProperties DEF Cat
  <2>3. OfTable(Cat(a, b), t) = Cat(a, b)
        BY <2>1, OfTableConcat
  <2> QED
      BY <2>2, <2>3 DEF RowsOf
<1> QED
    BY <1>1, <1>2, <1>3, <1>4

(* What OfTable returns are rows of that table.                            *)
LEMMA OfTableRows ==
  ASSUME NEW ms \in Seq(Messages), NEW t
  PROVE  OfTable(ms, t) \in RowsOf(t)
<1>1. /\ Only(t) \in [Messages -> Seq(Messages)]
      /\ OfTable(ms, t) = FlattenSeq(Each(ms, Only(t)))
      BY OfTableGathers DEF Gather
<1> DEFINE e == Each(ms, Only(t))
<1>2. e \in Seq(Seq(Messages)) /\ Len(e) = Len(ms)
      BY <1>1, EachType, SMTT(40)
<1>3. \A m \in Messages : Only(t)[m] \in RowsOf(t)
      BY RowsOfTable DEF Only
<1>4. \A k \in 1 .. Len(e) : e[k] \in RowsOf(t)
  <2>1. \A k \in 1 .. Len(ms) : k \in DOMAIN ms /\ ms[k] \in Messages
        BY ElementOfSeq, LenProperties
  <2> QED
      BY <1>2, <1>3, <2>1 DEF Each
<1>5. RowsOf(t) \subseteq Seq(Messages)
      BY DEF RowsOf
<1> HIDE DEF e
<1>6. FlattenSeq(e) \in RowsOf(t)
      BY <1>2, <1>4, <1>5, RowsOfTable, FlattenIn
<1> QED
    BY <1>1, <1>6 DEF e

RowsFor(t) ==
  [x \in Items |-> IF x.kind = "upd" /\ x.table = t THEN x.rows ELSE << >>]

(* An item is rows of a table or the end of a day.                         *)
LEMMA ItemIs ==
  ASSUME NEW x \in Items
  PROVE  /\ x.kind \in {"upd", "end"}
         /\ x.kind = "upd" =>
              /\ x.table \in Tables /\ x.rows \in Seq(Messages)
              /\ x.rows \in RowsOf(x.table)
         /\ x.kind = "end" => x.day \in Days
         /\ \A t : RowsFor(t)[x] \in RowsOf(t)
<1>1. CASE x \in Updates
  <2>1. /\ x.kind = "upd" /\ x.table \in Tables /\ x.rows \in Seq(Messages)
        /\ x.rows \in RowsOf(x.table)
        BY <1>1 DEF Updates
  <2> QED
      BY <2>1, RowsOfTable DEF RowsFor
<1>2. CASE x \in [kind : {"end"}, day : Days]
  <2>1. x.kind = "end" /\ x.day \in Days
        BY <1>2
  <2> QED
      BY <2>1, RowsOfTable DEF RowsFor
<1> QED
    BY <1>1, <1>2 DEF Items

(* RowsIn gathers, from every item, its rows or nothing.                   *)
LEMMA RowsInGathers ==
  ASSUME NEW c \in Seq(Items), NEW t
  PROVE  /\ RowsFor(t) \in [Items -> Seq(Messages)]
         /\ RowsIn(c, t) = Gather(c, RowsFor(t))
<1>1. \A x \in Items : RowsFor(t)[x] \in Seq(Messages)
      BY ItemIs DEF RowsOf
<1>2. RowsFor(t) \in [Items -> Seq(Messages)]
      BY <1>1 DEF RowsFor
<1>3. \A k \in DOMAIN c : c[k] \in Items
      BY ElementOfSeq, LenProperties
<1>4. \A k \in DOMAIN c :
         (IF c[k].kind = "upd" /\ c[k].table = t THEN c[k].rows ELSE << >>) =
            RowsFor(t)[c[k]]
      BY <1>3 DEF RowsFor
<1>5. [k \in DOMAIN c |->
          IF c[k].kind = "upd" /\ c[k].table = t THEN c[k].rows ELSE << >>] =
         [k \in DOMAIN c |-> RowsFor(t)[c[k]]]
      BY <1>4
<1> QED
    BY <1>2, <1>5 DEF RowsIn, Gather, Each

(* RowsIn returns rows of the table.                                       *)
LEMMA RowsInType ==
  ASSUME NEW c \in Seq(Items), NEW t
  PROVE  RowsIn(c, t) \in Seq(Messages) /\ RowsIn(c, t) \in RowsOf(t)
<1>1. /\ RowsFor(t) \in [Items -> Seq(Messages)]
      /\ RowsIn(c, t) = FlattenSeq(Each(c, RowsFor(t)))
      BY RowsInGathers DEF Gather
<1> DEFINE e == Each(c, RowsFor(t))
<1>2. e \in Seq(Seq(Messages)) /\ Len(e) = Len(c)
  <2> DEFINE G == RowsFor(t)
  <2>1. G \in [Items -> Seq(Messages)]
        BY <1>1
  <2> HIDE DEF G
  <2>2. Each(c, G) \in Seq(Seq(Messages))
        BY <2>1, EachType
  <2>3. Len(Each(c, G)) = Len(c)
        BY <2>1, <2>2, EachType
  <2> QED
      BY <2>2, <2>3 DEF G
<1>3. \A k \in 1 .. Len(e) : e[k] \in RowsOf(t)
  <2>1. \A k \in 1 .. Len(c) : k \in DOMAIN c /\ c[k] \in Items
        BY ElementOfSeq, LenProperties
  <2> QED
      BY <1>2, <2>1, ItemIs DEF Each
<1>4. RowsOf(t) \subseteq Seq(Messages)
      BY DEF RowsOf
<1> HIDE DEF e
<1>5. FlattenSeq(e) \in RowsOf(t)
      BY <1>2, <1>3, <1>4, RowsOfTable, FlattenIn
<1> QED
    BY <1>1, <1>4, <1>5 DEF e

(* It takes the rows of two sequences of items one after the other,        *)
LEMMA RowsInConcat ==
  ASSUME NEW a \in Seq(Items), NEW b \in Seq(Items), NEW t
  PROVE  RowsIn(Cat(a, b), t) = Cat(RowsIn(a, t), RowsIn(b, t))
<1>1. Cat(a, b) \in Seq(Items)
      BY ConcatProperties DEF Cat
<1>2. RowsIn(Cat(a, b), t) = Gather(Cat(a, b), RowsFor(t))
      BY <1>1, RowsInGathers
<1>3. /\ RowsFor(t) \in [Items -> Seq(Messages)]
      /\ RowsIn(a, t) = Gather(a, RowsFor(t)) /\ RowsIn(b, t) = Gather(b, RowsFor(t))
      /\ Gather(a, RowsFor(t)) \in Seq(Messages)
      /\ Gather(b, RowsFor(t)) \in Seq(Messages)
      BY RowsInGathers, RowsInType
<1>4. Gather(Cat(a, b), RowsFor(t)) =
         Cat(Gather(a, RowsFor(t)), Gather(b, RowsFor(t)))
      BY <1>3, GatherConcat
<1> QED
    BY <1>2, <1>3, <1>4

(* nothing from nothing,                                                   *)
LEMMA RowsInEmpty ==
  ASSUME NEW t
  PROVE  RowsIn(<< >>, t) = << >>
<1>1. << >> \in Seq(Items)
      BY EmptySeq
<1> QED
    BY <1>1, RowsInGathers, GatherEmpty

(* and from one item its rows, if they are of the table.                   *)
LEMMA RowsInOne ==
  ASSUME NEW x \in Items, NEW t
  PROVE  RowsIn(<<x>>, t) = RowsFor(t)[x]
<1>1. <<x>> \in Seq(Items)
      OBVIOUS
<1>2. RowsIn(<<x>>, t) = Gather(<<x>>, RowsFor(t))
      BY <1>1, RowsInGathers
<1>3. Gather(<<x>>, RowsFor(t)) = RowsFor(t)[x]
  <2>1. /\ RowsFor(t) \in [Items -> Seq(Messages)]
        /\ Gather(<<x>>, RowsFor(t)) \in Seq(Messages)
        BY <1>1, <1>2, RowsInGathers, RowsInType
  <2> QED
      BY <2>1, GatherOne
<1> QED
    BY <1>2, <1>3

-----------------------------------------------------------------------------
(* What an RDB has after the items of a connection                         *)

(* The last end of a day is the greatest.                                  *)
LEMMA LastEnd ==
  ASSUME NEW c \in Seq(Items), Ends(c) # {}
  PROVE  /\ Max(Ends(c)) \in Ends(c)
         /\ \A k \in Ends(c) : k <= Max(Ends(c))
<1>1. Len(c) \in Nat /\ Ends(c) \subseteq 0 .. Len(c)
      BY LenProperties DEF Ends
<1>2. PICK m \in Ends(c) : \A k \in Ends(c) : k <= m
      BY <1>1, Greatest
<1>3. \A k \in Ends(c) : m >= k
      BY <1>1, <1>2
<1>4. /\ Max(Ends(c)) \in Ends(c)
      /\ \A k \in Ends(c) : Max(Ends(c)) >= k
  <2> DEFINE M == CHOOSE m2 \in Ends(c) : \A k \in Ends(c) : m2 >= k
  <2>1. M \in Ends(c) /\ \A k \in Ends(c) : M >= k
        BY <1>3
  <2> QED
      BY <2>1 DEF Max
<1> QED
    BY <1>1, <1>4

(* A number in Ends that no other exceeds is the last.                     *)
LEMMA IsLastEnd ==
  ASSUME NEW c \in Seq(Items), NEW m \in Ends(c), \A k \in Ends(c) : k <= m
  PROVE  Max(Ends(c)) = m
<1>1. Len(c) \in Nat /\ Ends(c) \subseteq 0 .. Len(c)
      BY LenProperties DEF Ends
<1>2. Max(Ends(c)) \in Ends(c) /\ \A k \in Ends(c) : k <= Max(Ends(c))
      BY LastEnd
<1>3. Max(Ends(c)) <= m /\ m <= Max(Ends(c))
      BY <1>2
<1> QED
    BY <1>1, <1>2, <1>3

(* What an RDB has after items are rows of the table.                      *)
LEMMA AfterType ==
  ASSUME NEW t, NEW q \in RowsOf(t), NEW c \in Seq(Items)
  PROVE  After(q, c, t) \in RowsOf(t) /\ After(q, c, t) \in Seq(Messages)
<1>0. \A a \in RowsOf(t) : a \in Seq(Messages)
      BY DEF RowsOf
<1>1. CASE Ends(c) = {}
  <2>1. After(q, c, t) = Cat(q, RowsIn(c, t))
        BY <1>1 DEF After, Cat
  <2> QED
      BY <1>0, <2>1, RowsInType, RowsOfTable
<1>2. CASE Ends(c) # {}
  <2> DEFINE M == Max(Ends(c))
  <2>1. M \in 1 .. Len(c) /\ Len(c) \in Nat /\ DOMAIN c = 1 .. Len(c)
        BY <1>2, LastEnd, LenProperties DEF Ends
  <2> HIDE DEF M
  <2>2. \A k \in M + 1 .. Len(c) : c[k] \in Items
        BY <2>1, ElementOfSeq
  <2>3. SubSeq(c, M + 1, Len(c)) \in Seq(Items)
        BY <2>1, <2>2, SubSeqProperties
  <2>4. After(q, c, t) = RowsIn(SubSeq(c, M + 1, Len(c)), t)
        BY <1>2 DEF After, M
  <2> QED
      BY <1>0, <2>3, <2>4, RowsInType
<1> QED
    BY <1>1, <1>2

(* The same for rows of any tables, in what type they have.                *)
LEMMA AfterSeq ==
  ASSUME NEW t, NEW q \in Seq(Messages), NEW c \in Seq(Items)
  PROVE  After(q, c, t) \in Seq(Messages)
<1>1. << >> \in RowsOf(t)
      BY RowsOfTable
<1>2. CASE Ends(c) = {}
  <2>1. After(q, c, t) = Cat(q, RowsIn(c, t)) /\ RowsIn(c, t) \in Seq(Messages)
        BY <1>2, RowsInType DEF After, Cat
  <2> DEFINE e == RowsIn(c, t)
  <2> HIDE DEF e
  <2>2. Cat(q, e) \in Seq(Messages)
        BY <2>1, ConcatProperties DEF Cat, e
  <2> QED
      BY <2>1, <2>2 DEF e
<1>3. CASE Ends(c) # {}
  <2>1. After(q, c, t) = After(<< >>, c, t)
        BY <1>3 DEF After
  <2> QED
      BY <1>1, <2>1, AfterType
<1> QED
    BY <1>2, <1>3

(* Nothing came.                                                           *)
LEMMA AfterNone ==
  ASSUME NEW t, NEW q \in Seq(Messages)
  PROVE  After(q, << >>, t) = q
<1>1. Ends(<< >>) = {}
      BY DEF Ends
<1>2. After(q, << >>, t) = q \o << >>
      BY <1>1, RowsInEmpty DEF After
<1> QED
    BY <1>2, ConcatEmptySeq

(* Rows come behind what there is.                                         *)
LEMMA AfterRows ==
  ASSUME NEW t, NEW q \in Seq(Messages), NEW c \in Seq(Items),
         NEW b \in Seq(Items), Ends(b) = {}
  PROVE  After(q, Cat(c, b), t) = Cat(After(q, c, t), RowsIn(b, t))
<1> DEFINE a == Cat(c, b)
           N == Len(c)
           L == Len(b)
<1>1. N \in Nat /\ L \in Nat /\ DOMAIN c = 1 .. N /\ DOMAIN b = 1 .. L
      BY LenProperties
<1>2. /\ a \in Seq(Items) /\ Len(a) = N + L
      /\ \A k \in 1 .. N + L : a[k] = IF k <= N THEN c[k] ELSE b[k - N]
      BY ConcatProperties DEF Cat
<1>3. DOMAIN a = 1 .. N + L
      BY <1>2, LenProperties
<1>4. Ends(a) = Ends(c)
  <2> HIDE DEF a, N, L
  <2>1. \A k \in 1 .. L : b[k].kind # "end"
        BY <1>1 DEF Ends
  <2>2. \A k \in 1 .. N + L : k <= N \/ k - N \in 1 .. L
        BY <1>1
  <2>3. \A k \in 1 .. N + L : a[k].kind = "end" => k \in 1 .. N /\ a[k] = c[k]
        BY <1>1, <1>2, <2>1, <2>2
  <2>4. \A k \in 1 .. N : k \in 1 .. N + L /\ a[k] = c[k]
        BY <1>1, <1>2
  <2> QED
      BY <1>1, <1>3, <2>3, <2>4 DEF Ends
<1>5. RowsIn(c, t) \in Seq(Messages) /\ RowsIn(b, t) \in Seq(Messages)
      BY RowsInType
<1>6. CASE Ends(c) = {}
  <2>1. After(q, a, t) = Cat(q, RowsIn(a, t)) /\ After(q, c, t) = Cat(q, RowsIn(c, t))
        BY <1>4, <1>6 DEF After, Cat
  <2>2. RowsIn(a, t) = Cat(RowsIn(c, t), RowsIn(b, t))
        BY RowsInConcat
  <2>3. Cat(Cat(q, RowsIn(c, t)), RowsIn(b, t)) = Cat(q, Cat(RowsIn(c, t), RowsIn(b, t)))
        BY <1>5, CatAssoc
  <2> QED
      BY <2>1, <2>2, <2>3
<1>7. CASE Ends(c) # {}
  <2> DEFINE M == Max(Ends(c))
             u == SubSeq(c, M + 1, N)
             v == SubSeq(a, M + 1, N + L)
  <2>1. M \in 1 .. N
        BY <1>1, <1>7, LastEnd DEF Ends
  <2>2. After(q, a, t) = RowsIn(v, t) /\ After(q, c, t) = RowsIn(u, t)
        BY <1>2, <1>4, <1>7 DEF After
  <2> HIDE DEF a, N, L, M
  <2>3. /\ u \in Seq(Items) /\ Len(u) = N - M
        /\ \A k \in 1 .. N - M : u[k] = c[M + k]
    <3>1. \A k \in M + 1 .. N : c[k] \in Items
          BY <1>1, <2>1, ElementOfSeq DEF N
    <3>2. /\ u \in Seq(Items)
          /\ Len(u) = IF M + 1 <= N THEN N - (M + 1) + 1 ELSE 0
          /\ \A k \in 1 .. N - (M + 1) + 1 : u[k] = c[(M + 1) + k - 1]
          BY <1>1, <2>1, <3>1, SubSeqProperties
    <3> HIDE DEF u
    <3> QED
        BY <1>1, <2>1, <3>2
  <2>4. /\ v \in Seq(Items) /\ Len(v) = N + L - M
        /\ \A k \in 1 .. N + L - M : v[k] = a[M + k]
    <3>1. \A k \in M + 1 .. N + L : a[k] \in Items
          BY <1>1, <1>2, <2>1, ElementOfSeq
    <3>2. /\ v \in Seq(Items)
          /\ Len(v) = IF M + 1 <= N + L THEN N + L - (M + 1) + 1 ELSE 0
          /\ \A k \in 1 .. N + L - (M + 1) + 1 : v[k] = a[(M + 1) + k - 1]
          BY <1>1, <2>1, <3>1, SubSeqProperties
    <3> HIDE DEF v
    <3> QED
        BY <1>1, <2>1, <3>2
  <2> HIDE DEF u, v
  <2>5. /\ Cat(u, b) \in Seq(Items) /\ Len(Cat(u, b)) = N - M + L
        /\ \A k \in 1 .. N - M + L :
              Cat(u, b)[k] = IF k <= N - M THEN u[k] ELSE b[k - (N - M)]
    <3>1. L = Len(b)
          BY DEF L
    <3> DEFINE e == Cat(u, b)
    <3>2. /\ e \in Seq(Items) /\ Len(e) = Len(u) + Len(b)
          /\ \A k \in 1 .. Len(u) + Len(b) :
                e[k] = IF k <= Len(u) THEN u[k] ELSE b[k - Len(u)]
          BY <2>3, ConcatProperties DEF Cat
    <3> HIDE DEF e
    <3>3. /\ e \in Seq(Items) /\ Len(e) = N - M + L
          /\ \A k \in 1 .. N - M + L :
                e[k] = IF k <= N - M THEN u[k] ELSE b[k - (N - M)]
          BY <2>3, <3>1, <3>2
    <3> QED
        BY <3>3 DEF e
  <2>6. v = Cat(u, b)
    <3> DEFINE e == Cat(u, b)
    <3>1. \A k \in 1 .. N + L - M : v[k] = e[k]
      <4> SUFFICES ASSUME NEW k \in 1 .. N + L - M PROVE v[k] = e[k]
          OBVIOUS
      <4> HIDE DEF e
      <4>1. M + k \in 1 .. N + L /\ k \in 1 .. N - M + L
            BY <1>1, <2>1
      <4>2. v[k] = IF M + k <= N THEN c[M + k] ELSE b[(M + k) - N]
            BY <1>2, <2>4, <4>1
      <4>3. e[k] = IF k <= N - M THEN u[k] ELSE b[k - (N - M)]
            BY <2>5, <4>1 DEF e
      <4>4. (M + k <= N <=> k <= N - M) /\ (M + k) - N = k - (N - M)
            BY <1>1, <2>1
      <4>5. k <= N - M => u[k] = c[M + k]
            BY <1>1, <2>1, <2>3
      <4> QED
          BY <4>2, <4>3, <4>4, <4>5
    <3>2. e \in Seq(Items) /\ Len(e) = N + L - M
          BY <1>1, <2>1, <2>5
    <3> HIDE DEF e
    <3>3. v = e
          BY <2>4, <3>1, <3>2, SeqEqual
    <3> QED
        BY <3>3 DEF e
  <2>7. RowsIn(v, t) = Cat(RowsIn(u, t), RowsIn(b, t))
        BY <2>3, <2>6, RowsInConcat
  <2> QED
      BY <2>2, <2>7 DEF a
<1> QED
    BY <1>6, <1>7

(* The end of a day forgets.                                               *)
LEMMA AfterEnd ==
  ASSUME NEW t, NEW q, NEW c \in Seq(Items), NEW x \in Items, x.kind = "end"
  PROVE  After(q, Append(c, x), t) = << >>
<1> DEFINE e == Append(c, x)
           N == Len(c)
<1>1. /\ N \in Nat /\ e \in Seq(Items) /\ Len(e) = N + 1 /\ e[N + 1] = x
      /\ DOMAIN e = 1 .. N + 1
      BY AppendProperties, LenProperties
<1> HIDE DEF e, N
<1>2. N + 1 \in Ends(e) /\ \A k \in Ends(e) : k <= N + 1
      BY <1>1 DEF Ends
<1>3. Max(Ends(e)) = N + 1
      BY <1>1, <1>2, IsLastEnd
<1>4. After(q, e, t) = RowsIn(SubSeq(e, (N + 1) + 1, N + 1), t)
      BY <1>1, <1>2, <1>3 DEF After
<1>5. SubSeq(e, (N + 1) + 1, N + 1) = << >>
      BY <1>1, SubSeqEmpty
<1> QED
    BY <1>4, <1>5, RowsInEmpty DEF e

(* The ends of days in the rest of a sequence.                             *)
LEMMA EndsOfTail ==
  ASSUME NEW c \in Seq(Items), c # << >>
  PROVE  /\ 1 \in Ends(c) <=> Head(c).kind = "end"
         /\ \A k \in Ends(Tail(c)) : k \in Nat /\ k # 0 /\ k + 1 \in Ends(c)
         /\ \A k \in Ends(c) : k # 1 => k - 1 \in Ends(Tail(c))
         /\ \A k \in Ends(Tail(c)) : Tail(c)[k] = c[k + 1]
<1> DEFINE r == Tail(c)
<1>1. /\ r \in Seq(Items) /\ Len(r) = Len(c) - 1 /\ Len(c) \in Nat \ {0}
      /\ \A k \in 1 .. Len(c) - 1 : r[k] = c[k + 1]
      BY HeadTailProperties, EmptySeq
<1>2. Head(c) = c[1]
      BY <1>1
<1>3. DOMAIN c = 1 .. Len(c) /\ DOMAIN r = 1 .. Len(c) - 1
      BY <1>1, LenProperties
<1> HIDE DEF r
<1>4. \A k \in Ends(r) : k \in Nat /\ k # 0 /\ k + 1 \in Ends(c) /\ r[k] = c[k + 1]
      BY <1>1, <1>3 DEF Ends
<1>5. \A k \in Ends(c) : k # 1 => k - 1 \in Ends(r)
  <2> SUFFICES ASSUME NEW k \in Ends(c), k # 1 PROVE k - 1 \in Ends(r)
      OBVIOUS
  <2>1. k - 1 \in 1 .. Len(c) - 1 /\ (k - 1) + 1 = k
        BY <1>1, <1>3 DEF Ends
  <2>2. r[k - 1] = c[k]
        BY <1>1, <2>1
  <2> QED
      BY <1>3, <2>1, <2>2 DEF Ends
<1>6. 1 \in Ends(c) <=> Head(c).kind = "end"
      BY <1>1, <1>2, <1>3 DEF Ends
<1> QED
    BY <1>4, <1>5, <1>6 DEF r

(* Reading an item before the last end of a day changes nothing.           *)
LEMMA AfterLater ==
  ASSUME NEW t, NEW q, NEW p, NEW c \in Seq(Items), c # << >>, Ends(Tail(c)) # {}
  PROVE  After(p, Tail(c), t) = After(q, c, t)
<1> DEFINE r == Tail(c)
           M == Max(Ends(r))
<1>1. r \in Seq(Items) /\ Len(r) = Len(c) - 1 /\ Len(c) \in Nat \ {0}
      BY HeadTailProperties, EmptySeq
<1>2. M \in Ends(r) /\ \A k \in Ends(r) : k <= M
      BY <1>1, LastEnd
<1>3. M \in Nat /\ M # 0 /\ M + 1 \in Ends(c)
      BY <1>2, EndsOfTail
<1>4. \A k \in Ends(c) : k <= M + 1
  <2> SUFFICES ASSUME NEW k \in Ends(c) PROVE k <= M + 1
      OBVIOUS
  <2>1. k \in Nat /\ k # 0
        BY LenProperties DEF Ends
  <2>2. k # 1 => k - 1 \in Ends(r)
        BY EndsOfTail
  <2>3. k # 1 => k - 1 <= M
        BY <1>2, <2>2
  <2> HIDE DEF M
  <2> QED
      BY <1>3, <2>1, <2>3
<1>5. Max(Ends(c)) = M + 1
      BY <1>3, <1>4, IsLastEnd
<1>6. After(q, c, t) = RowsIn(SubSeq(c, (M + 1) + 1, Len(c)), t)
      BY <1>3, <1>5 DEF After
<1>7. After(p, r, t) = RowsIn(SubSeq(r, M + 1, Len(c) - 1), t)
      BY <1>1 DEF After
<1> HIDE DEF M
<1>8. SubSeq(r, M + 1, Len(c) - 1) = SubSeq(c, (M + 1) + 1, (Len(c) - 1) + 1)
      BY <1>1, <1>3, SubSeqOfTail
<1>9. (Len(c) - 1) + 1 = Len(c)
      BY <1>1
<1> QED
    BY <1>6, <1>7, <1>8, <1>9

(* What an RDB will have stays when it inserts rows                        *)
LEMMA AfterInsert ==
  ASSUME NEW t, NEW q \in Seq(Messages), NEW c \in Seq(Items), c # << >>,
         Head(c).kind = "upd"
  PROVE  After(Cat(q, RowsFor(t)[Head(c)]), Tail(c), t) = After(q, c, t)
<1> DEFINE r == Tail(c)
           h == Head(c)
<1>1. h \in Items /\ r \in Seq(Items)
      BY HeadTailProperties
<1>2. CASE Ends(r) # {}
      BY <1>2, AfterLater
<1>3. CASE Ends(r) = {}
  <2>1. Ends(c) = {}
    <3>1. \A k \in Ends(c) : k # 1
          BY EndsOfTail
    <3> QED
        BY <1>3, <3>1, EndsOfTail
  <2>2. c = Cat(<<h>>, r)
    <3>1. Len(c) \in Nat \ {0}
          BY EmptySeq
    <3>2. /\ SubSeq(c, 1, Len(c)) = <<c[1]>> \o SubSeq(c, 1 + 1, Len(c))
          /\ SubSeq(c, 1, Len(c)) = c /\ r = SubSeq(c, 2, Len(c)) /\ c[1] = h
          BY <3>1, SubSeqRecursiveFirst, SubSeqFull, TailIsSubSeq
    <3> QED
        BY <3>2 DEF Cat
  <2> HIDE DEF r, h
  <2>3. <<h>> \in Seq(Items)
        BY <1>1
  <2>4. RowsIn(c, t) = Cat(RowsFor(t)[h], RowsIn(r, t))
    <3> DEFINE o == <<h>>
    <3>1. RowsIn(o, t) = RowsFor(t)[h]
          BY <1>1, RowsInOne
    <3>2. o \in Seq(Items) /\ c = Cat(o, r)
          BY <2>2, <2>3
    <3> HIDE DEF o
    <3>3. RowsIn(Cat(o, r), t) = Cat(RowsIn(o, t), RowsIn(r, t))
          BY <1>1, <3>2, RowsInConcat
    <3> QED
        BY <3>1, <3>2, <3>3
  <2>5. RowsFor(t)[h] \in Seq(Messages) /\ RowsIn(r, t) \in Seq(Messages)
        BY <1>1, ItemIs, RowsInType DEF RowsOf
  <2>6. After(q, c, t) = Cat(q, Cat(RowsFor(t)[h], RowsIn(r, t)))
        BY <2>1, <2>4 DEF After, Cat
  <2>7. After(Cat(q, RowsFor(t)[h]), r, t) = Cat(Cat(q, RowsFor(t)[h]), RowsIn(r, t))
        BY <1>3 DEF After, Cat
  <2> DEFINE f == RowsFor(t)[h]
             g == RowsIn(r, t)
  <2> HIDE DEF f, g
  <2>8. Cat(Cat(q, f), g) = Cat(q, Cat(f, g))
        BY <2>5, CatAssoc DEF f, g
  <2> QED
      BY <2>6, <2>7, <2>8 DEF f, g, r, h
<1> QED
    BY <1>2, <1>3

(* and when it ends a day.                                                 *)
LEMMA AfterSave ==
  ASSUME NEW t, NEW q, NEW c \in Seq(Items), c # << >>, Head(c).kind = "end"
  PROVE  After(<< >>, Tail(c), t) = After(q, c, t)
<1> DEFINE r == Tail(c)
<1>1. r \in Seq(Items)
      BY HeadTailProperties
<1>2. CASE Ends(r) # {}
      BY <1>2, AfterLater
<1>3. CASE Ends(r) = {}
  <2>1. 1 \in Ends(c)
        BY EndsOfTail
  <2>2. \A k \in Ends(c) : k <= 1
    <3>1. \A k \in Ends(c) : k = 1
          BY <1>3, EndsOfTail
    <3> QED
        BY <3>1
  <2>3. Max(Ends(c)) = 1
        BY <2>1, <2>2, IsLastEnd
  <2> DEFINE v == SubSeq(c, 1 + 1, Len(c))
  <2>4. After(q, c, t) = RowsIn(v, t)
        BY <2>1, <2>3 DEF After
  <2>5. r = v
        BY TailIsSubSeq
  <2>6. After(<< >>, r, t) = << >> \o RowsIn(r, t)
        BY <1>3 DEF After
  <2>7. RowsIn(r, t) \in Seq(Messages)
        BY <1>1, RowsInType
  <2> HIDE DEF r, v
  <2>8. << >> \o RowsIn(r, t) = RowsIn(r, t)
        BY <2>7, ConcatEmptySeq
  <2>9. After(<< >>, r, t) = After(q, c, t)
        BY <2>4, <2>5, <2>6, <2>8
  <2> QED
      BY <2>9 DEF r
<1> QED
    BY <1>2, <1>3

(* No day ends in a concatenation of items in which none does.             *)
LEMMA NoEnds ==
  ASSUME NEW a \in Seq(Items), NEW b \in Seq(Items), Ends(a) = {}, Ends(b) = {}
  PROVE  Ends(Cat(a, b)) = {} /\ Cat(a, b) \in Seq(Items)
<1> DEFINE e == Cat(a, b)
<1>1. /\ e \in Seq(Items) /\ Len(e) = Len(a) + Len(b)
      /\ \A k \in 1 .. Len(a) + Len(b) : e[k] = IF k <= Len(a) THEN a[k] ELSE b[k - Len(a)]
      BY ConcatProperties DEF Cat
<1>2. /\ Len(a) \in Nat /\ Len(b) \in Nat
      /\ DOMAIN a = 1 .. Len(a) /\ DOMAIN b = 1 .. Len(b)
      BY LenProperties
<1> HIDE DEF e
<1>3. DOMAIN e = 1 .. Len(a) + Len(b)
      BY <1>1, LenProperties
<1>4. /\ \A k \in 1 .. Len(a) : a[k].kind # "end"
      /\ \A k \in 1 .. Len(b) : b[k].kind # "end"
      BY <1>2 DEF Ends
<1>5. \A k \in 1 .. Len(a) + Len(b) : e[k].kind # "end"
  <2> SUFFICES ASSUME NEW k \in 1 .. Len(a) + Len(b) PROVE e[k].kind # "end"
      OBVIOUS
  <2>1. CASE k <= Len(a)
        BY <1>1, <1>2, <1>4, <2>1
  <2>2. CASE ~(k <= Len(a))
    <3>1. k - Len(a) \in 1 .. Len(b)
          BY <1>2, <2>2
    <3> QED
        BY <1>1, <1>4, <2>2, <3>1
  <2> QED
      BY <2>1, <2>2
<1>6. Ends(e) = {}
      BY <1>3, <1>5 DEF Ends
<1> QED
    BY <1>1, <1>6 DEF e

(* Pub makes rows of one table for the subscribers of that table.          *)
LEMMA PubIs ==
  ASSUME NEW s, NEW t \in Tables, NEW ms \in RowsOf(t), NEW h
  PROVE  /\ Pub(s, t, ms, h) \in Seq(Items)
         /\ Ends(Pub(s, t, ms, h)) = {}
         /\ \A u : RowsIn(Pub(s, t, ms, h), u) =
                     IF u = t /\ h \in s.w[t] THEN ms ELSE << >>
<1>1. CASE h \in s.w[t] /\ ms # << >>
  <2> DEFINE x == Upd(t, ms)
  <2>1. x.kind = "upd" /\ x.table = t /\ x.rows = ms /\ x \in Items
        BY DEF Upd, Items, Updates, RowsOf
  <2>2. Pub(s, t, ms, h) = <<x>>
        BY <1>1 DEF Pub
  <2> HIDE DEF x
  <2>3. <<x>> \in Seq(Items) /\ Ends(<<x>>) = {}
        BY <2>1 DEF Ends
  <2>4. \A u : RowsIn(<<x>>, u) = IF u = t THEN ms ELSE << >>
        BY <2>1, RowsInOne DEF RowsFor
  <2> QED
      BY <1>1, <2>2, <2>3, <2>4
<1>2. CASE ~(h \in s.w[t] /\ ms # << >>)
  <2>1. Pub(s, t, ms, h) = << >>
        BY <1>2 DEF Pub
  <2>2. << >> \in Seq(Items) /\ Ends(<< >>) = {}
        BY EmptySeq DEF Ends
  <2> QED
      BY <1>2, <2>1, <2>2, RowsInEmpty
<1> QED
    BY <1>1, <1>2

(* What PubAll sends on connection h: the buffer of every table that has   *)
(* the connection as a subscriber.                                         *)
Batches(s, h) ==
  [k \in DOMAIN TableSeq |-> Pub(s, TableSeq[k], s.buf[TableSeq[k]], h)]

LEMMA BatchesAre ==
  ASSUME PlantAssumption, NEW s, s.buf \in Contents, NEW h
  PROVE  /\ FlattenSeq(Batches(s, h)) \in Seq(Items)
         /\ Ends(FlattenSeq(Batches(s, h))) = {}
         /\ \A t \in Tables : RowsIn(FlattenSeq(Batches(s, h)), t) =
                                IF h \in s.w[t] THEN s.buf[t] ELSE << >>
<1> DEFINE e == Batches(s, h)
<1> PICK N \in Nat : N = Len(TableSeq)
    BY LenProperties DEF PlantAssumption
<1>1. /\ DOMAIN TableSeq = 1 .. N
      /\ \A k \in 1 .. N : TableSeq[k] \in Tables
      /\ \A k, n \in 1 .. N : TableSeq[k] = TableSeq[n] => k = n
      /\ \A t \in Tables : \E k \in 1 .. N : TableSeq[k] = t
      BY LenProperties DEF PlantAssumption, Tables
<1>2. \A t \in Tables : s.buf[t] \in RowsOf(t) /\ s.buf[t] \in Seq(Messages)
      BY DEF Contents, RowsOf
<1>3. \A k \in 1 .. N :
         /\ e[k] = Pub(s, TableSeq[k], s.buf[TableSeq[k]], h)
         /\ e[k] \in Seq(Items) /\ Ends(e[k]) = {}
         /\ \A u : RowsIn(e[k], u) = IF u = TableSeq[k] /\ h \in s.w[TableSeq[k]]
                                     THEN s.buf[TableSeq[k]] ELSE << >>
      BY <1>1, <1>2, PubIs DEF Batches
<1>4. e = [k \in 1 .. N |-> e[k]]
      BY <1>1 DEF Batches
<1> HIDE DEF e
<1>5. e \in Seq(Seq(Items)) /\ Len(e) = N
  <2>1. e \in [1 .. N -> Seq(Items)]
        BY <1>3, <1>4
  <2>2. e \in Seq(Seq(Items))
        BY <2>1, SeqDef
  <2> QED
      BY <2>1, <2>2, LenProperties
<1>6. PICK F \in [0 .. N -> Seq(Items)] : Joins(F, e) /\ FlattenSeq(e) = F[N]
      BY <1>5, FlattenJoins
<1>7. F[0] = << >> /\ \A n \in 1 .. N : F[n] = Cat(F[n - 1], e[n])
      BY <1>5, <1>6 DEF Joins, Cat
<1> DEFINE Done(n, t) == \E k \in 1 .. n : TableSeq[k] = t
           Is(n, t) == RowsIn(F[n], t) = IF Done(n, t) /\ h \in s.w[t]
                                         THEN s.buf[t] ELSE << >>
           S == {n \in 0 .. N : Ends(F[n]) = {} /\ \A t \in Tables : Is(n, t)}
<1>8. 0 \in S
  <2>1. Ends(F[0]) = {}
        BY <1>7 DEF Ends
  <2>2. \A t \in Tables : Is(0, t)
        BY <1>7, RowsInEmpty
  <2> QED
      BY <2>1, <2>2
<1>9. ASSUME NEW n \in 0 .. N - 1, n \in S
      PROVE  n + 1 \in S
  <2>1. n + 1 \in 1 .. N /\ n + 1 \in 0 .. N /\ (n + 1) - 1 = n
        OBVIOUS
  <2>2. F[n] \in Seq(Items) /\ Ends(F[n]) = {} /\ \A t \in Tables : Is(n, t)
        BY <1>9
  <2> DEFINE u == TableSeq[n + 1]
             b == e[n + 1]
  <2>3. /\ u \in Tables /\ b \in Seq(Items) /\ Ends(b) = {}
        /\ \A t : RowsIn(b, t) = IF t = u /\ h \in s.w[u] THEN s.buf[u] ELSE << >>
        BY <1>1, <1>3, <2>1
  <2>4. F[n + 1] = Cat(F[n], b)
        BY <1>7, <2>1
  <2>5. ~Done(n, u) /\ Done(n + 1, u)
        BY <1>1, <2>1
  <2>6. \A t : t # u => (Done(n + 1, t) <=> Done(n, t))
    <3>1. \A k \in 1 .. n + 1 : k \in 1 .. n \/ k = n + 1
          BY <2>1
    <3>2. \A k \in 1 .. n : k \in 1 .. n + 1
          BY <2>1
    <3> QED
        BY <3>1, <3>2
  <2> HIDE DEF u, b, S, Done
  <2>7. Ends(F[n + 1]) = {}
        BY <2>2, <2>3, <2>4, NoEnds
  <2>8. ASSUME NEW t \in Tables
        PROVE  RowsIn(F[n + 1], t) = IF Done(n + 1, t) /\ h \in s.w[t]
                                     THEN s.buf[t] ELSE << >>
    <3>1. RowsIn(F[n + 1], t) = Cat(RowsIn(F[n], t), RowsIn(b, t))
          BY <2>2, <2>3, <2>4, RowsInConcat
    <3>2. RowsIn(F[n], t) = IF Done(n, t) /\ h \in s.w[t] THEN s.buf[t] ELSE << >>
          BY <2>2
    <3>3. \A q \in Seq(Messages) : Cat(<< >>, q) = q /\ Cat(q, << >>) = q
          BY ConcatEmptySeq DEF Cat
    <3>4. << >> \in Seq(Messages) /\ s.buf[t] \in Seq(Messages)
          BY <1>2, EmptySeq
    <3>5. CASE t = u
      <4>1. RowsIn(F[n], t) = << >>
            BY <2>5, <3>2, <3>5
      <4>2. RowsIn(b, t) = IF h \in s.w[t] THEN s.buf[t] ELSE << >>
            BY <2>3, <3>5
      <4>3. RowsIn(b, t) \in Seq(Messages)
            BY <3>4, <4>2
      <4>4. RowsIn(F[n + 1], t) = RowsIn(b, t)
            BY <3>1, <3>3, <4>1, <4>3
      <4> QED
          BY <2>5, <3>5, <4>2, <4>4
    <3>6. CASE t # u
      <4>1. RowsIn(b, t) = << >>
            BY <2>3, <3>6
      <4>2. RowsIn(F[n], t) \in Seq(Messages)
            BY <2>2, RowsInType
      <4>3. RowsIn(F[n + 1], t) = RowsIn(F[n], t)
            BY <3>1, <3>3, <4>1, <4>2
      <4> QED
          BY <2>6, <3>2, <3>6, <4>3
    <3> QED
        BY <3>5, <3>6
  <2> QED
      BY <2>1, <2>7, <2>8 DEF S
<1> HIDE DEF S
<1>10. 0 .. N \subseteq S
       BY <1>8, <1>9, Induction
<1>11. N \in S
       BY <1>10
<1>12. /\ F[N] \in Seq(Items) /\ Ends(F[N]) = {}
       /\ \A t \in Tables : Is(N, t)
       BY <1>11 DEF S
<1> QED
    BY <1>1, <1>6, <1>12 DEF e

-----------------------------------------------------------------------------
(* Sending                                                                 *)

(* Send, when what is sent is a function of the connection.                *)
Sends(s, it) ==
  [s EXCEPT !.chan = [h \in Handles |->
                        IF h \in Held THEN s.chan[h] \o it[h] ELSE << >>]]

(* It changes the connections alone.                                       *)
LEMMA SendsIs ==
  ASSUME NEW s \in PlantStates, NEW it \in [Handles -> Seq(Items)]
  PROVE  /\ Sends(s, it) \in PlantStates
         /\ \A h \in Handles : Sends(s, it).chan[h] =
                                 IF h \in Held THEN Cat(s.chan[h], it[h]) ELSE << >>
         /\ Sends(s, it).up = s.up /\ Sends(s, it).timer = s.timer
         /\ Sends(s, it).d = s.d /\ Sends(s, it).i = s.i /\ Sends(s, it).j = s.j
         /\ Sends(s, it).buf = s.buf /\ Sends(s, it).w = s.w
         /\ Sends(s, it).log = s.log /\ Sends(s, it).err = s.err
<1> DEFINE c == [h \in Handles |-> IF h \in Held THEN s.chan[h] \o it[h] ELSE << >>]
<1>1. \A h \in Handles : s.chan[h] \in Seq(Items) /\ it[h] \in Seq(Items)
      BY DEF PlantStates
<1>2. \A a, b \in Seq(Items) : a \o b \in Seq(Items)
      BY ConcatProperties
<1>3. << >> \in Seq(Items)
      BY EmptySeq
<1>4. \A h \in Handles :
         (IF h \in Held THEN s.chan[h] \o it[h] ELSE << >>) \in Seq(Items)
      BY <1>1, <1>2, <1>3
<1>5. c \in [Handles -> Seq(Items)]
      BY <1>4
<1>6. \A h \in Handles : c[h] = IF h \in Held THEN Cat(s.chan[h], it[h]) ELSE << >>
      BY DEF Cat
<1>7. Sends(s, it) = [s EXCEPT !.chan = c]
      BY DEF Sends
<1> HIDE DEF c
<1> QED
    BY <1>5, <1>6, <1>7 DEF PlantStates

(* Items behind which no day ends leave the ends before them as they are.  *)
LEMMA EndsOfConcat ==
  ASSUME NEW c \in Seq(Items), NEW b \in Seq(Items)
  PROVE  /\ Cat(c, b) \in Seq(Items)
         /\ \A k \in Ends(c) : /\ k \in Ends(Cat(c, b)) /\ Cat(c, b)[k] = c[k]
                               /\ SubSeq(Cat(c, b), 1, k - 1) = SubSeq(c, 1, k - 1)
         /\ Ends(b) = {} => Ends(Cat(c, b)) = Ends(c)
<1> DEFINE a == Cat(c, b)
           N == Len(c)
           L == Len(b)
<1>1. N \in Nat /\ L \in Nat /\ DOMAIN c = 1 .. N /\ DOMAIN b = 1 .. L
      BY LenProperties
<1>2. /\ a \in Seq(Items) /\ Len(a) = N + L
      /\ \A k \in 1 .. N + L : a[k] = IF k <= N THEN c[k] ELSE b[k - N]
      BY ConcatProperties DEF Cat
<1>3. DOMAIN a = 1 .. N + L
      BY <1>2, LenProperties
<1> HIDE DEF a, N, L
<1>4. \A k \in 1 .. N : k \in 1 .. N + L /\ a[k] = c[k]
      BY <1>1, <1>2
<1>5. ASSUME NEW k \in Ends(c)
      PROVE  k \in Ends(a) /\ a[k] = c[k] /\ SubSeq(a, 1, k - 1) = SubSeq(c, 1, k - 1)
  <2>1. k \in 1 .. N /\ c[k].kind = "end"
        BY <1>1 DEF Ends
  <2>2. k \in Ends(a) /\ a[k] = c[k]
        BY <1>1, <1>3, <1>4, <2>1 DEF Ends
  <2>3. \A n \in 1 .. k - 1 : n \in 1 .. N
        BY <1>1, <2>1
  <2>4. \A n \in 1 .. k - 1 : a[n] = c[n] /\ c[n] \in Items
        BY <1>4, <2>3, ElementOfSeq DEF N
  <2> DEFINE u == SubSeq(a, 1, k - 1)
             v == SubSeq(c, 1, k - 1)
  <2>5. /\ u \in Seq(Items) /\ Len(u) = (IF 1 <= k - 1 THEN (k - 1) - 1 + 1 ELSE 0)
        /\ \A n \in 1 .. (k - 1) - 1 + 1 : u[n] = a[1 + n - 1]
        BY <2>1, <2>4, SubSeqProperties
  <2>6. /\ v \in Seq(Items) /\ Len(v) = (IF 1 <= k - 1 THEN (k - 1) - 1 + 1 ELSE 0)
        /\ \A n \in 1 .. (k - 1) - 1 + 1 : v[n] = c[1 + n - 1]
        BY <2>1, <2>4, SubSeqProperties
  <2> HIDE DEF u, v
  <2>7. Len(u) = Len(v) /\ \A n \in 1 .. Len(u) : u[n] = v[n]
    <3>1. Len(u) = Len(v) /\ \A n \in 1 .. Len(u) : n \in 1 .. k - 1
          BY <2>1, <2>5, <2>6
    <3>2. \A n \in 1 .. k - 1 : u[n] = a[n] /\ v[n] = c[n]
          BY <2>1, <2>5, <2>6
    <3> QED
        BY <2>4, <3>1, <3>2
  <2>8. u = v
        BY <2>5, <2>6, <2>7, SeqEqual
  <2> QED
      BY <2>2, <2>8 DEF u, v
<1>6. Ends(b) = {} => Ends(a) = Ends(c)
  <2> SUFFICES ASSUME Ends(b) = {} PROVE Ends(a) = Ends(c)
      OBVIOUS
  <2>1. \A k \in 1 .. L : b[k].kind # "end"
        BY <1>1 DEF Ends
  <2>2. \A k \in 1 .. N + L : k <= N \/ k - N \in 1 .. L
        BY <1>1
  <2>3. \A k \in 1 .. N + L : a[k].kind = "end" => k \in 1 .. N /\ a[k] = c[k]
        BY <1>1, <1>2, <2>1, <2>2
  <2> QED
      BY <1>1, <1>3, <1>4, <2>3 DEF Ends
<1> QED
    BY <1>2, <1>5, <1>6 DEF a

(* What the past needs of a plant: that of its connections holds for       *)
(* connections that agree up to every end of a day.                        *)
EndsWhole(r, c, x, lg) ==
  \A k \in Ends(c) :
    /\ c[k].day < x
    /\ \A t \in Tables :
         After(CopyOf(r, lg, t), SubSeq(c, 1, k - 1), t) = OfTable(lg[c[k].day], t)

(* Rows behind the items change no end of a day among them.                *)
LEMMA EndsWholeMore ==
  ASSUME NEW r, NEW c \in Seq(Items), NEW b \in Seq(Items), Ends(b) = {},
         NEW x, NEW lg, EndsWhole(r, c, x, lg)
  PROVE  EndsWhole(r, Cat(c, b), x, lg)
<1> DEFINE a == Cat(c, b)
<1>1. /\ Ends(a) = Ends(c)
      /\ \A k \in Ends(c) : /\ a[k] = c[k]
                            /\ SubSeq(a, 1, k - 1) = SubSeq(c, 1, k - 1)
      BY EndsOfConcat, ZenonT(40)
<1> HIDE DEF a
<1>2. EndsWhole(r, a, x, lg)
  <2> SUFFICES ASSUME NEW k \in Ends(a)
               PROVE  /\ a[k].day < x
                      /\ \A t \in Tables :
                           After(CopyOf(r, lg, t), SubSeq(a, 1, k - 1), t) =
                             OfTable(lg[a[k].day], t)
      BY DEF EndsWhole
  <2>1. k \in Ends(c) /\ a[k] = c[k] /\ SubSeq(a, 1, k - 1) = SubSeq(c, 1, k - 1)
        BY <1>1
  <2>2. /\ c[k].day < x
        /\ \A t \in Tables :
             After(CopyOf(r, lg, t), SubSeq(c, 1, k - 1), t) = OfTable(lg[c[k].day], t)
        BY <2>1 DEF EndsWhole
  <2> DEFINE u == SubSeq(a, 1, k - 1)
             v == SubSeq(c, 1, k - 1)
  <2>3. u = v
        BY <2>1
  <2>4. \A t \in Tables : After(CopyOf(r, lg, t), v, t) = OfTable(lg[c[k].day], t)
        BY <2>2
  <2> HIDE DEF u, v
  <2>5. \A t \in Tables : After(CopyOf(r, lg, t), u, t) = OfTable(lg[a[k].day], t)
        BY <2>1, <2>3, <2>4
  <2> QED
      BY <2>1, <2>2, <2>5 DEF u
<1> QED
    BY <1>2 DEF a

(* The past, of the parts of a state it is about.                          *)
PastOf(x, lg, ch) ==
  /\ \A y \in Days : y > x => lg[y] = << >>
  /\ \A r \in Rdbs : rdb[r] = "replay" => sync[r].n <= Len(lg[sync[r].day])
  /\ \A r \in Rdbs : hand[r] # NoHandle => EndsWhole(r, ch[hand[r]], x, lg)
  /\ \A y \in Days : \A tables \in saved[y] :
       /\ y < x
       /\ \A t \in Tables : tables[t] = OfTable(lg[y], t)

(* The past depends on these parts of a state only.                        *)
LEMMA PastIs ==
  ASSUME NEW s
  PROVE  Past(s) <=> PastOf(s.d, s.log, s.chan)
BY Zenon DEF Past, PastOf, EndsWhole

(* What an RDB has of a table, or will replay, are rows of that table.     *)
LEMMA CopyType ==
  ASSUME RdbTypes, NEW lg \in [Days -> Seq(Messages)], NEW r \in Rdbs,
         rdb[r] = "replay" => sync[r].n <= Len(lg[sync[r].day]),
         NEW t \in Tables
  PROVE  CopyOf(r, lg, t) \in RowsOf(t) /\ CopyOf(r, lg, t) \in Seq(Messages)
<1>0. \A a \in RowsOf(t) : a \in Seq(Messages)
      BY DEF RowsOf
<1>1. CASE rdb[r] = "replay"
  <2> DEFINE n == sync[r].n
             a == lg[sync[r].day]
             p == SubSeq(a, 1, n)
  <2>1. n \in Nat /\ a \in Seq(Messages) /\ n <= Len(a) /\ Len(a) \in Nat
        BY <1>1, LenProperties DEF RdbTypes
  <2> HIDE DEF n, a
  <2>2. \A k \in 1 .. n : a[k] \in Messages
    <3>1. \A k \in 1 .. n : k \in 1 .. Len(a)
          BY <2>1
    <3> QED
        BY <2>1, <3>1, ElementOfSeq
  <2>3. p \in Seq(Messages)
        BY <2>1, <2>2, SubSeqProperties
  <2>4. CopyOf(r, lg, t) = OfTable(p, t)
        BY <1>1 DEF CopyOf, n, a
  <2> HIDE DEF p
  <2>5. OfTable(p, t) \in RowsOf(t)
        BY <2>3, OfTableRows
  <2> QED
      BY <1>0, <2>4, <2>5
<1>2. CASE rdb[r] # "replay"
  <2>1. rows[r][t] \in RowsOf(t)
        BY DEF RdbTypes, Contents
  <2> QED
      BY <1>0, <1>2, <2>1 DEF CopyOf
<1> QED
    BY <1>1, <1>2

(* Tables without rows.                                                    *)
LEMMA EmptyIs == Empty \in Contents /\ \A t \in Tables : Empty[t] = << >>
<1>1. \A t \in Tables : << >> \in RowsOf(t)
      BY RowsOfTable
<1>2. \A t \in Tables : << >> \in Seq(Messages)
      BY EmptySeq
<1> QED
    BY <1>1, <1>2 DEF Empty, Contents

(* A connection of an RDB is one of those that are sent to.                *)
LEMMA HandIs ==
  ASSUME RdbTypes, NEW r \in Rdbs, hand[r] # NoHandle
  PROVE  hand[r] \in Handles /\ hand[r] \in Held
BY DEF RdbTypes, Held

(* Sending items without an end of a day leaves the past as it is.         *)
LEMMA SendsKeepsPast ==
  ASSUME RdbTypes, NEW s \in PlantStates, NEW it \in [Handles -> Seq(Items)],
         \A h \in Handles : Ends(it[h]) = {}, Past(s)
  PROVE  PastOf(s.d, s.log, Sends(s, it).chan)
<1> DEFINE ch == Sends(s, it).chan
<1>1. /\ \A y \in Days : y > s.d => s.log[y] = << >>
      /\ \A r \in Rdbs : rdb[r] = "replay" => sync[r].n <= Len(s.log[sync[r].day])
      /\ \A r \in Rdbs : hand[r] # NoHandle =>
            EndsWhole(r, s.chan[hand[r]], s.d, s.log)
      /\ \A y \in Days : \A tables \in saved[y] :
            /\ y < s.d
            /\ \A t \in Tables : tables[t] = OfTable(s.log[y], t)
      BY PastIs DEF PastOf
<1>2. ASSUME NEW r \in Rdbs, hand[r] # NoHandle
      PROVE  EndsWhole(r, ch[hand[r]], s.d, s.log)
  <2> DEFINE h == hand[r]
             c == s.chan[h]
             b == it[h]
  <2>1. h \in Handles /\ h \in Held
        BY <1>2, HandIs
  <2>2. c \in Seq(Items) /\ b \in Seq(Items) /\ Ends(b) = {}
        BY <2>1 DEF PlantStates
  <2>3. ch[h] = Cat(c, b)
        BY <2>1, SendsIs
  <2>4. EndsWhole(r, c, s.d, s.log)
        BY <1>1, <1>2
  <2> HIDE DEF h, c, b, ch
  <2>5. EndsWhole(r, Cat(c, b), s.d, s.log)
        BY <2>2, <2>4, EndsWholeMore
  <2>6. EndsWhole(r, ch[h], s.d, s.log)
        BY <2>3, <2>5
  <2> QED
      BY <2>6 DEF h
<1> HIDE DEF ch
<1>3. PastOf(s.d, s.log, ch)
      BY <1>1, <1>2 DEF PastOf
<1> QED
    BY <1>3 DEF ch

-----------------------------------------------------------------------------
(* The buffer is published                                                 *)

AllBatches(s) == [h \in Handles |-> FlattenSeq(Batches(s, h))]

(* What is published is the buffer; then it is empty and all is counted.   *)
LEMMA FlushIs ==
  ASSUME PlantAssumption, NEW s \in PlantStates
  PROVE  /\ AllBatches(s) \in [Handles -> Seq(Items)]
         /\ \A h \in Handles :
              /\ Ends(AllBatches(s)[h]) = {}
              /\ \A t \in Tables : RowsIn(AllBatches(s)[h], t) =
                                     IF h \in s.w[t] THEN s.buf[t] ELSE << >>
         /\ Flush(s) \in PlantStates
         /\ Flush(s).chan = Sends(s, AllBatches(s)).chan
         /\ Flush(s).buf = Empty /\ Flush(s).i = s.j
         /\ Flush(s).up = s.up /\ Flush(s).d = s.d /\ Flush(s).j = s.j
         /\ Flush(s).w = s.w /\ Flush(s).log = s.log /\ Flush(s).err = s.err
         /\ Flush(s).timer = s.timer
<1>1. s.buf \in Contents /\ s.j \in Nat
      BY DEF PlantStates
<1>2. \A h \in Handles :
         /\ FlattenSeq(Batches(s, h)) \in Seq(Items)
         /\ Ends(FlattenSeq(Batches(s, h))) = {}
         /\ \A t \in Tables : RowsIn(FlattenSeq(Batches(s, h)), t) =
                                IF h \in s.w[t] THEN s.buf[t] ELSE << >>
      BY <1>1, BatchesAre
<1>3. /\ AllBatches(s) \in [Handles -> Seq(Items)]
      /\ \A h \in Handles : AllBatches(s)[h] = FlattenSeq(Batches(s, h))
      BY <1>2 DEF AllBatches
<1>4. PubAll(s) = Sends(s, AllBatches(s))
  <2>1. PubAll(s) =
          [s EXCEPT !.chan = [h \in Handles |->
             IF h \in Held THEN s.chan[h] \o FlattenSeq(Batches(s, h)) ELSE << >>]]
        BY Zenon DEF PubAll, Send, Batches
  <2>2. \A h \in Handles :
          (IF h \in Held THEN s.chan[h] \o FlattenSeq(Batches(s, h)) ELSE << >>) =
          (IF h \in Held THEN s.chan[h] \o AllBatches(s)[h] ELSE << >>)
        BY <1>3
  <2> QED
      BY <2>1, <2>2 DEF Sends
<1> DEFINE p == Sends(s, AllBatches(s))
<1>5. /\ p \in PlantStates
      /\ p.up = s.up /\ p.timer = s.timer /\ p.d = s.d /\ p.j = s.j
      /\ p.w = s.w /\ p.log = s.log /\ p.err = s.err
      BY <1>3, SendsIs
<1>6. Flush(s) = [p EXCEPT !.buf = Empty, !.i = s.j]
      BY <1>4 DEF Flush
<1> HIDE DEF p
<1>7. /\ Flush(s) \in PlantStates /\ Flush(s).chan = p.chan
      /\ Flush(s).buf = Empty /\ Flush(s).i = s.j
      /\ Flush(s).up = s.up /\ Flush(s).d = s.d /\ Flush(s).j = s.j
      /\ Flush(s).w = s.w /\ Flush(s).log = s.log /\ Flush(s).err = s.err
      /\ Flush(s).timer = s.timer
      BY <1>1, <1>5, <1>6, EmptyIs DEF PlantStates
<1> QED
    BY <1>2, <1>3, <1>7 DEF p

(* Messages of which none is buffered are rows without more.               *)
LEMMA NoMore ==
  ASSUME NEW q \in Seq(Messages)
  PROVE  q \o << >> = q /\ << >> \o q = q
BY ConcatEmptySeq

(* Publishing the buffer keeps the counters and the copies right.          *)
LEMMA FlushKeeps ==
  ASSUME PlantAssumption, RdbTypes, NEW s, Kept(s), Batch, s.up
  PROVE  Kept(Flush(s)) /\ (Logging => Counted(s))
<1>1. s \in PlantStates /\ Sound(s) /\ s.log \in [Days -> Seq(Messages)]
      /\ s.d \in Days /\ s.w \in [Tables -> SUBSET Handles]
      /\ s.chan \in [Handles -> Seq(Items)]
      BY DEF Kept, Sound, PlantStates
<1> DEFINE f == Flush(s)
           it == AllBatches(s)
<1>2. /\ it \in [Handles -> Seq(Items)]
      /\ \A h \in Handles :
              /\ Ends(it[h]) = {}
              /\ \A t \in Tables : RowsIn(it[h], t) =
                                     IF h \in s.w[t] THEN s.buf[t] ELSE << >>
      /\ f \in PlantStates
      /\ f.chan = Sends(s, it).chan
      /\ f.buf = Empty /\ f.i = s.j
      /\ f.up = s.up /\ f.d = s.d /\ f.j = s.j
      /\ f.w = s.w /\ f.log = s.log
      BY <1>1, FlushIs
<1> HIDE DEF f, it
<1>3. \A h \in Handles : f.chan[h] =
                           IF h \in Held THEN Cat(s.chan[h], it[h]) ELSE << >>
      BY <1>1, <1>2, SendsIs, SMTT(40)
<1>4. Sound(f)
      BY <1>1, <1>2, <1>3 DEF Sound
<1>5. ASSUME Logging
      PROVE  Past(f) /\ Counted(f) /\ Agrees(f) /\ Counted(s)
  <2>1. Past(s) /\ Counted(s) /\ Agrees(s)
        BY <1>5 DEF Kept
  <2>2. PastOf(s.d, s.log, f.chan)
        BY <1>1, <1>2, <2>1, SendsKeepsPast
  <2>3. Past(f)
        BY <1>2, <2>2, PastIs
  <2> DEFINE l == s.log[s.d]
  <2>4. l \in Seq(Messages) /\ \A t \in Tables : OfTable(l, t) \in Seq(Messages)
        BY <1>1, OfTableType
  <2>5. s.j = Len(l)
        BY <2>1 DEF Counted
  <2>6. SubSeq(l, 1, Len(l)) = l
        BY <2>4, SubSeqFull
  <2>7. \A t \in Tables : f.buf[t] = << >>
        BY <1>2, EmptyIs
  <2>8. Len(l) \in Nat
        BY <2>4, LenProperties
  <2> HIDE DEF l
  <2>9. Counted(f)
    <3>1. \A t \in Tables : OfTable(SubSeq(l, 1, s.j), t) \o f.buf[t] = OfTable(l, t)
      <4> SUFFICES ASSUME NEW t \in Tables
                   PROVE  OfTable(SubSeq(l, 1, s.j), t) \o f.buf[t] = OfTable(l, t)
          OBVIOUS
      <4> DEFINE p == SubSeq(l, 1, s.j)
                 a == OfTable(l, t)
      <4>1. p = l
            BY <2>5, <2>6
      <4>2. a \in Seq(Messages) /\ f.buf[t] = << >>
            BY <2>4, <2>7
      <4> HIDE DEF p
      <4>3. OfTable(p, t) = a
            BY <4>1
      <4> HIDE DEF a
      <4>4. OfTable(p, t) \o f.buf[t] = a
            BY <4>2, <4>3, NoMore
      <4> QED
          BY <4>4 DEF p, a
    <3>2. f.log[f.d] = l /\ f.i <= f.j /\ f.j = Len(l)
          BY <1>2, <2>5, <2>8 DEF l
    <3>3. \A t \in Tables :
             OfTable(SubSeq(f.log[f.d], 1, f.i), t) \o f.buf[t] = OfTable(f.log[f.d], t)
          BY <1>2, <3>1, <3>2
    <3> QED
        BY <3>2, <3>3 DEF Counted
  <2>10. Agrees(f)
    <3> SUFFICES ASSUME NEW r \in Rdbs, NEW t \in Tables, hand[r] \in f.w[t]
                 PROVE  After(CopyOf(r, f.log, t), f.chan[hand[r]], t) \o f.buf[t] =
                          OfTable(f.log[f.d], t)
        BY DEF Agrees
    <3> DEFINE h == hand[r]
               q == CopyOf(r, s.log, t)
               c == s.chan[h]
               b == it[h]
    <3>1. h \in s.w[t] /\ h \in Handles /\ h \in Held
          BY <1>1, <1>2 DEF Held
    <3>2. After(q, c, t) \o s.buf[t] = OfTable(l, t)
          BY <2>1, <3>1 DEF Agrees, l
    <3>3. /\ c \in Seq(Items) /\ b \in Seq(Items) /\ Ends(b) = {}
          /\ RowsIn(b, t) = s.buf[t] /\ f.chan[h] = Cat(c, b)
          BY <1>1, <1>2, <1>3, <3>1
    <3>4. q \in Seq(Messages)
      <4>1. rdb[r] = "replay" => sync[r].n <= Len(s.log[sync[r].day])
            BY <2>1 DEF Past
      <4> QED
          BY <1>1, <4>1, CopyType
    <3> HIDE DEF h, q, c, b
    <3>5. After(q, Cat(c, b), t) = Cat(After(q, c, t), RowsIn(b, t))
          BY <3>3, <3>4, AfterRows
    <3>6. After(q, f.chan[h], t) = OfTable(l, t)
          BY <3>2, <3>3, <3>5 DEF Cat
    <3>7. After(q, f.chan[h], t) \o f.buf[t] = OfTable(l, t)
          BY <2>4, <2>7, <3>6, NoMore
    <3> QED
        BY <1>2, <3>7 DEF h, q, l
  <2> QED
      BY <2>1, <2>3, <2>9, <2>10
<1>6. Kept(f)
      BY <1>4, <1>5 DEF Kept
<1> QED
    BY <1>5, <1>6 DEF f

-----------------------------------------------------------------------------
(* The end of a day, and the end of the process                            *)

(* A plant that has died keeps what is logged and what is on its way.      *)
LEMMA DeadIs ==
  ASSUME NEW s \in PlantStates
  PROVE  /\ Dead(s) \in PlantStates
         /\ Dead(s).up = FALSE /\ Dead(s).buf = Empty
         /\ \A t \in Tables : Dead(s).w[t] = {}
         /\ Dead(s).d = s.d /\ Dead(s).log = s.log /\ Dead(s).chan = s.chan
         /\ Dead(s).err = s.err /\ Dead(s).i = 0 /\ Dead(s).j = 0
<1>1. [t \in Tables |-> {}] \in [Tables -> SUBSET Handles]
      OBVIOUS
<1> QED
    BY <1>1, EmptyIs DEF Dead, PlantStates

(* A plant that dies keeps its log and what it sent.                       *)
LEMMA DeadKeeps ==
  ASSUME NEW s, Sound(s), Logging => Past(s), ~(Logging /\ FeedEndsDay)
  PROVE  Kept(Dead(s))
<1>1. s \in PlantStates
      BY DEF Sound
<1> DEFINE n == Dead(s)
<1>2. /\ n \in PlantStates /\ ~n.up /\ n.buf = Empty /\ n.i = 0 /\ n.j = 0
      /\ \A t \in Tables : n.w[t] = {}
      /\ n.d = s.d /\ n.log = s.log /\ n.chan = s.chan
      BY <1>1, DeadIs
<1> HIDE DEF n
<1>3. Sound(n)
      BY <1>2 DEF Sound
<1>4. Logging => Past(n)
      BY <1>2, PastIs
<1>5. Kept(n)
      BY <1>2, <1>3, <1>4 DEF Kept
<1> QED
    BY <1>5 DEF n

(* Opening the log of a day of which an RDB has all, as far as it is        *)
(* subscribed, makes the counters and the copies right, or the plant exits. *)
LEMMA LdKeeps ==
  ASSUME NEW s, Sound(s), s.buf = Empty, s.up, Logging, Past(s),
         FeedEndsDay => ~torn[s.d],
         \A r \in Rdbs, t \in Tables : hand[r] \in s.w[t] =>
           After(CopyOf(r, s.log, t), s.chan[hand[r]], t) = OfTable(s.log[s.d], t)
  PROVE  /\ Kept(Ld(s)) /\ Ld(s).buf = Empty /\ Ld(s).d = s.d
         /\ Ld(s).err = s.err
<1>1. s \in PlantStates /\ s.log \in [Days -> Seq(Messages)] /\ s.d \in Days
      BY DEF Sound, PlantStates
<1>2. CASE torn[s.d]
  <2>1. ~FeedEndsDay
        BY <1>2
  <2>2. Ld(s) = Dead(s)
        BY <1>2 DEF Ld
  <2> QED
      BY <1>1, <2>1, <2>2, DeadKeeps, DeadIs, ZenonT(40)
<1>3. CASE ~torn[s.d]
  <2> DEFINE n == Ld(s)
             l == s.log[s.d]
  <2>1. n = [s EXCEPT !.i = Len(l), !.j = Len(l)]
        BY <1>3 DEF Ld
  <2>2. l \in Seq(Messages) /\ Len(l) \in Nat
        BY <1>1, LenProperties
  <2> HIDE DEF n, l
  <2>3. /\ n \in PlantStates /\ n.i = Len(l) /\ n.j = Len(l)
        /\ n.up = s.up /\ n.d = s.d /\ n.log = s.log /\ n.chan = s.chan
        /\ n.w = s.w /\ n.buf = s.buf /\ n.err = s.err
        BY <1>1, <2>1, <2>2 DEF PlantStates
  <2>4. Sound(n)
    <3>1. /\ \A h \in Handles : h \notin Held => n.chan[h] = << >>
          /\ \A t, u \in Tables : n.w[t] = n.w[u]
          BY <2>3 DEF Sound
    <3>2. /\ ~n.up => n.buf = Empty /\ \A t \in Tables : n.w[t] = {}
          /\ ~Batch => n.buf = Empty
          BY <2>3
    <3>3. ~FeedEndsDay => n.d <= today
          BY <2>3 DEF Sound
    <3> QED
        BY <2>3, <3>1, <3>2, <3>3, Zenon DEF Sound
  <2>5. Past(n)
        BY <2>3, PastIs
  <2>6. \A t \in Tables : s.buf[t] = << >>
        BY EmptyIs
  <2>7. SubSeq(l, 1, Len(l)) = l
        BY <2>2, SubSeqFull
  <2>8. \A t \in Tables : OfTable(l, t) \in Seq(Messages)
        BY <2>2, OfTableType
  <2>9. Counted(n)
    <3>1. n.log[n.d] = l
          BY <2>3 DEF l
    <3>2. ASSUME NEW t \in Tables
          PROVE  OfTable(SubSeq(l, 1, Len(l)), t) \o s.buf[t] = OfTable(l, t)
      <4> DEFINE p == SubSeq(l, 1, Len(l))
                 a == OfTable(l, t)
      <4>1. p = l
            BY <2>7
      <4>2. a \in Seq(Messages) /\ s.buf[t] = << >>
            BY <2>6, <2>8
      <4> HIDE DEF p
      <4>3. OfTable(p, t) = a
            BY <4>1
      <4> HIDE DEF a
      <4>4. OfTable(p, t) \o s.buf[t] = a
            BY <4>2, <4>3, NoMore
      <4> QED
          BY <4>4 DEF p, a
    <3>3. \A t \in Tables :
             OfTable(SubSeq(n.log[n.d], 1, n.i), t) \o n.buf[t] = OfTable(n.log[n.d], t)
          BY <2>3, <3>1, <3>2
    <3>4. n.i <= n.j /\ n.j = Len(n.log[n.d]) /\ n.i = Len(n.log[n.d])
          BY <2>2, <2>3, <3>1
    <3> QED
        BY <3>3, <3>4, Zenon DEF Counted
  <2>10. Agrees(n)
    <3> SUFFICES ASSUME NEW r \in Rdbs, NEW t \in Tables, hand[r] \in n.w[t]
                 PROVE  After(CopyOf(r, n.log, t), n.chan[hand[r]], t) \o n.buf[t] =
                          OfTable(n.log[n.d], t)
        BY DEF Agrees
    <3> DEFINE e == After(CopyOf(r, s.log, t), s.chan[hand[r]], t)
    <3>1. e = OfTable(l, t) /\ e \in Seq(Messages)
          BY <2>3, <2>8 DEF l
    <3> HIDE DEF e
    <3>2. e \o s.buf[t] = e
          BY <2>6, <3>1, NoMore
    <3> QED
        BY <2>3, <3>1, <3>2 DEF e, l
  <2>11. Kept(n)
        BY <2>4, <2>5, <2>9, <2>10 DEF Kept
  <2> QED
      BY <2>3, <2>11 DEF n
<1> QED
    BY <1>2, <1>3

(* On a later day the days that have ended have still ended,               *)
LEMMA EndsWholeLater ==
  ASSUME NEW r, NEW c \in Seq(Items), NEW x \in Int, NEW y \in Int, x <= y, NEW lg,
         EndsWhole(r, c, x, lg)
  PROVE  EndsWhole(r, c, y, lg)
<1>1. \A k \in Ends(c) : c[k] \in Items /\ c[k].kind = "end"
      BY ElementOfSeq, LenProperties DEF Ends
<1>2. \A k \in Ends(c) : c[k].day \in Days
      BY <1>1, ItemIs
<1>3. Days \subseteq Int
      BY DEF Days
<1>4. \A z \in Int : z < x => z < y
      OBVIOUS
<1>5. \A k \in Ends(c) : c[k].day < x => c[k].day < y
      BY <1>2, <1>3, <1>4
<1> QED
    BY <1>5, Zenon DEF EndsWhole

(* and so has the one that ends, when all of it has been sent.             *)
LEMMA EndsWholeEnd ==
  ASSUME NEW r, NEW c \in Seq(Items), NEW x \in Days, NEW lg, EndsWhole(r, c, x, lg),
         \A t \in Tables : After(CopyOf(r, lg, t), c, t) = OfTable(lg[x], t)
  PROVE  EndsWhole(r, Append(c, End(x)), x + 1, lg)
<1> DEFINE z == End(x)
           b == <<z>>
           a == Append(c, z)
           N == Len(c)
<1>1. z \in Items /\ z.kind = "end" /\ z.day = x
      BY DEF End, Items
<1>2. b \in Seq(Items)
      BY <1>1
<1>3. a = Cat(c, b)
      BY <1>1, AppendIsConcat DEF Cat
<1>4. /\ N \in Nat /\ a \in Seq(Items) /\ Len(a) = N + 1 /\ a[N + 1] = z
      /\ DOMAIN a = 1 .. N + 1 /\ DOMAIN c = 1 .. N
      /\ \A k \in 1 .. N : a[k] = c[k]
      BY <1>1, AppendProperties, LenProperties
<1>5. SubSeq(a, 1, N) = c
  <2> DEFINE u == SubSeq(a, 1, N)
  <2>1. \A k \in 1 .. N : a[k] \in Items
        BY <1>4, ElementOfSeq
  <2>2. /\ u \in Seq(Items) /\ Len(u) = (IF 1 <= N THEN N - 1 + 1 ELSE 0)
        /\ \A k \in 1 .. N - 1 + 1 : u[k] = a[1 + k - 1]
    <3> HIDE DEF N, a
    <3> QED
        BY <1>4, <2>1, SubSeqProperties
  <2> HIDE DEF u
  <2>3. N = Len(c)
        OBVIOUS
  <2> HIDE DEF N, a
  <2>4. Len(u) = N /\ \A k \in 1 .. N : u[k] = a[k]
        BY <1>4, <2>2
  <2>5. u = c
        BY <1>4, <2>2, <2>3, <2>4, SeqEqual
  <2> QED
      BY <2>5 DEF u
<1>6. EndsWhole(r, c, x + 1, lg)
  <2>1. x \in Int /\ x + 1 \in Int /\ x <= x + 1
        BY DEF Days
  <2> QED
      BY <2>1, EndsWholeLater
<1>7. \A k \in Ends(c) : /\ Cat(c, b)[k] = c[k]
                         /\ SubSeq(Cat(c, b), 1, k - 1) = SubSeq(c, 1, k - 1)
  <2> HIDE DEF b
  <2> QED
      BY <1>2, EndsOfConcat
<1> HIDE DEF z, a, b, N
<1>8. \A k \in Ends(a) : k \in Ends(c) \/ k = N + 1
      BY <1>4 DEF Ends
<1>9. ASSUME NEW k \in Ends(a)
      PROVE  /\ a[k].day < x + 1
             /\ \A t \in Tables :
                  After(CopyOf(r, lg, t), SubSeq(a, 1, k - 1), t) =
                    OfTable(lg[a[k].day], t)
  <2>1. CASE k \in Ends(c)
    <3> DEFINE u == SubSeq(a, 1, k - 1)
               v == SubSeq(c, 1, k - 1)
    <3>1. a[k] = c[k] /\ u = v
          BY <1>3, <1>7, <2>1
    <3>2. /\ c[k].day < x + 1
          /\ \A t \in Tables :
               After(CopyOf(r, lg, t), v, t) = OfTable(lg[c[k].day], t)
          BY <1>6, <2>1 DEF EndsWhole
    <3> HIDE DEF u, v
    <3>3. /\ a[k].day < x + 1
          /\ \A t \in Tables :
               After(CopyOf(r, lg, t), u, t) = OfTable(lg[a[k].day], t)
          BY <3>1, <3>2
    <3> QED
        BY <3>3 DEF u
  <2>2. CASE k = N + 1
    <3>1. a[k].day = x /\ k - 1 = N
          BY <1>1, <1>4, <2>2
    <3>2. x < x + 1
          BY DEF Days
    <3> DEFINE u == SubSeq(a, 1, k - 1)
    <3>3. u = c
          BY <1>5, <3>1
    <3> HIDE DEF u
    <3>4. \A t \in Tables :
             After(CopyOf(r, lg, t), u, t) = OfTable(lg[a[k].day], t)
          BY <3>1, <3>3
    <3> QED
        BY <3>1, <3>2, <3>4 DEF u
  <2> QED
      BY <1>8, <2>1, <2>2
<1>10. EndsWhole(r, a, x + 1, lg)
       BY <1>9, Zenon DEF EndsWhole
<1> QED
    BY <1>10 DEF a, z

(* What is sent when a day ends, and the day after.                        *)
EndItems(s) ==
  [h \in Handles |-> IF \E t \in Tables : h \in s.w[t] THEN <<End(s.d)>> ELSE << >>]
NextDay(s) == [Sends(s, EndItems(s)) EXCEPT !.d = s.d + 1]

LEMMA EndofdayIs ==
  ASSUME PlantAssumption, NEW s \in PlantStates, s.d <= LastDay
  PROVE  /\ Endofday(s) = IF Logging THEN Ld(NextDay(s)) ELSE NextDay(s)
         /\ EndItems(s) \in [Handles -> Seq(Items)]
         /\ NextDay(s) \in PlantStates
         /\ \A h \in Handles : h \in Held =>
              NextDay(s).chan[h] = IF \E t \in Tables : h \in s.w[t]
                                   THEN Append(s.chan[h], End(s.d)) ELSE s.chan[h]
         /\ \A h \in Handles : h \notin Held => NextDay(s).chan[h] = << >>
         /\ NextDay(s).d = s.d + 1 /\ NextDay(s).d \in Days
         /\ NextDay(s).up = s.up /\ NextDay(s).buf = s.buf
         /\ NextDay(s).w = s.w /\ NextDay(s).log = s.log /\ NextDay(s).err = s.err
         /\ NextDay(s).i = s.i /\ NextDay(s).j = s.j /\ NextDay(s).timer = s.timer
<1>1. /\ s.d \in Days /\ s.d + 1 \in Days /\ s.chan \in [Handles -> Seq(Items)]
      BY DEF PlantStates, Days, PlantAssumption
<1> DEFINE z == End(s.d)
           it == EndItems(s)
<1>2. z \in Items
      BY <1>1 DEF End, Items
<1>3. <<z>> \in Seq(Items) /\ << >> \in Seq(Items)
      BY <1>2, EmptySeq
<1>4. it = [h \in Handles |-> IF \E t \in Tables : h \in s.w[t] THEN <<z>> ELSE << >>]
      BY DEF EndItems
<1> HIDE DEF it, z
<1>5. /\ it \in [Handles -> Seq(Items)]
      /\ \A h \in Handles : it[h] = IF \E t \in Tables : h \in s.w[t]
                                    THEN <<z>> ELSE << >>
      BY <1>3, <1>4
<1>6. Endofday(s) = IF Logging THEN Ld(NextDay(s)) ELSE NextDay(s)
  <2> DEFINE I2(h) == IF \E t \in Tables : h \in s.w[t] THEN <<End(s.d)>> ELSE << >>
  <2>1. Send(s, I2) = [s EXCEPT !.chan = [h \in Handles |->
                         IF h \in Held THEN s.chan[h] \o I2(h) ELSE << >>]]
        BY DEF Send
  <2>2. \A h \in Handles :
          (IF h \in Held THEN s.chan[h] \o I2(h) ELSE << >>) =
          (IF h \in Held THEN s.chan[h] \o EndItems(s)[h] ELSE << >>)
        BY DEF EndItems
  <2>3. Send(s, I2) = Sends(s, EndItems(s))
        BY <2>1, <2>2 DEF Sends
  <2>4. Endofday(s) = IF Logging THEN Ld([Send(s, I2) EXCEPT !.d = s.d + 1])
                                 ELSE [Send(s, I2) EXCEPT !.d = s.d + 1]
        BY Zenon DEF Endofday
  <2> QED
      BY <2>3, <2>4 DEF NextDay
<1> DEFINE p == Sends(s, it)
           n == NextDay(s)
<1>7. /\ p \in PlantStates
      /\ \A h \in Handles : p.chan[h] =
                              IF h \in Held THEN Cat(s.chan[h], it[h]) ELSE << >>
      /\ p.up = s.up /\ p.timer = s.timer /\ p.d = s.d /\ p.i = s.i /\ p.j = s.j
      /\ p.buf = s.buf /\ p.w = s.w /\ p.log = s.log /\ p.err = s.err
      BY <1>5, SendsIs
<1>8. n = [p EXCEPT !.d = s.d + 1]
      BY DEF NextDay, it
<1> HIDE DEF p, n
<1>9. /\ n \in PlantStates /\ n.chan = p.chan /\ n.d = s.d + 1
      /\ n.up = s.up /\ n.timer = s.timer /\ n.i = s.i /\ n.j = s.j
      /\ n.buf = s.buf /\ n.w = s.w /\ n.log = s.log /\ n.err = s.err
      BY <1>1, <1>7, <1>8 DEF PlantStates
<1>10. ASSUME NEW h \in Handles, h \in Held
       PROVE  n.chan[h] = IF \E t \in Tables : h \in s.w[t]
                          THEN Append(s.chan[h], z) ELSE s.chan[h]
  <2>1. n.chan[h] = Cat(s.chan[h], it[h]) /\ s.chan[h] \in Seq(Items)
        BY <1>1, <1>7, <1>9, <1>10
  <2>2. CASE \E t \in Tables : h \in s.w[t]
    <3>1. it[h] = <<z>>
          BY <1>5, <2>2
    <3>2. Cat(s.chan[h], <<z>>) = Append(s.chan[h], z)
          BY <1>2, <2>1, AppendIsConcat DEF Cat
    <3> QED
        BY <2>1, <2>2, <3>1, <3>2
  <2>3. CASE ~\E t \in Tables : h \in s.w[t]
    <3>1. it[h] = << >>
          BY <1>5, <2>3
    <3>2. Cat(s.chan[h], << >>) = s.chan[h]
          BY <2>1, ConcatEmptySeq DEF Cat
    <3> QED
        BY <2>1, <2>3, <3>1, <3>2
  <2> QED
      BY <2>2, <2>3
<1>11. \A h \in Handles : h \notin Held => n.chan[h] = << >>
       BY <1>7, <1>9
<1> QED
    BY <1>1, <1>5, <1>6, <1>9, <1>10, <1>11 DEF n, it, z

(* The end of a day, when nothing is buffered, keeps all of this.          *)
LEMMA EndofdayKeeps ==
  ASSUME PlantAssumption, RdbTypes, OtherTypes, NEW s, Kept(s), s.up,
         Logging => s.buf = Empty, s.d <= LastDay, FeedEndsDay \/ s.d < today
  PROVE  /\ Kept(Endofday(s))
         /\ s.buf = Empty => Endofday(s).buf = Empty
         /\ Endofday(s).d = s.d + 1 /\ Endofday(s).err = s.err
<1>1. s \in PlantStates /\ Sound(s) /\ s.log \in [Days -> Seq(Messages)]
      /\ s.d \in Days /\ s.w \in [Tables -> SUBSET Handles]
      /\ s.chan \in [Handles -> Seq(Items)]
      BY DEF Kept, Sound, PlantStates
<1> DEFINE n == NextDay(s)
<1>2. /\ n \in PlantStates
      /\ \A h \in Handles : h \in Held =>
           n.chan[h] = IF \E t \in Tables : h \in s.w[t]
                       THEN Append(s.chan[h], End(s.d)) ELSE s.chan[h]
      /\ \A h \in Handles : h \notin Held => n.chan[h] = << >>
      /\ n.d = s.d + 1 /\ n.d \in Days
      /\ n.up = s.up /\ n.buf = s.buf /\ n.w = s.w /\ n.log = s.log /\ n.err = s.err
      /\ n.i = s.i /\ n.j = s.j
      BY <1>1, EndofdayIs
<1>3. Endofday(s) = IF Logging THEN Ld(n) ELSE n
      BY <1>1, EndofdayIs
<1> HIDE DEF n
<1>4. Sound(n)
  <2>1. ~FeedEndsDay => n.d <= today
    <3>1. s.d \in Int /\ today \in Int
          BY <1>1 DEF Days, OtherTypes
    <3> QED
        BY <1>2, <3>1
  <2> QED
      BY <1>1, <1>2, <2>1 DEF Sound
<1>5. CASE ~Logging
  <2>1. Endofday(s) = n
        BY <1>3, <1>5
  <2>2. Kept(n)
        BY <1>4, <1>5 DEF Kept
  <2> QED
      BY <1>2, <2>1, <2>2
<1>6. CASE Logging
  <2>1. PastOf(s.d, s.log, s.chan) /\ Agrees(s)
        BY <1>6, PastIs DEF Kept
  <2>2. ASSUME NEW r \in Rdbs, NEW t \in Tables, hand[r] \in s.w[t]
        PROVE  After(CopyOf(r, s.log, t), s.chan[hand[r]], t) = OfTable(s.log[s.d], t)
    <3> DEFINE e == After(CopyOf(r, s.log, t), s.chan[hand[r]], t)
    <3>0. hand[r] \in Handles
          BY <1>1, <2>2
    <3>1. e \o s.buf[t] = OfTable(s.log[s.d], t)
          BY <2>1, <2>2 DEF Agrees
    <3>2. s.buf[t] = << >>
          BY <1>6, EmptyIs
    <3>3. e \in Seq(Messages)
      <4>1. rdb[r] = "replay" => sync[r].n <= Len(s.log[sync[r].day])
            BY <2>1 DEF PastOf
      <4> DEFINE q == CopyOf(r, s.log, t)
                 c == s.chan[hand[r]]
      <4>2. q \in RowsOf(t) /\ c \in Seq(Items)
            BY <1>1, <3>0, <4>1, CopyType
      <4> HIDE DEF q, c
      <4>3. After(q, c, t) \in Seq(Messages)
            BY <4>2, AfterType
      <4> QED
          BY <4>3 DEF q, c
    <3> HIDE DEF e
    <3>4. e = OfTable(s.log[s.d], t)
          BY <3>1, <3>2, <3>3, NoMore
    <3> QED
        BY <3>4 DEF e
  <2>3. \A y \in Int : y < s.d => y < s.d + 1
        BY <1>1 DEF Days
  <2>4. ASSUME NEW r \in Rdbs, hand[r] # NoHandle
        PROVE  EndsWhole(r, n.chan[hand[r]], s.d + 1, s.log)
    <3> DEFINE h == hand[r]
               c == s.chan[h]
    <3>1. h \in Handles /\ h \in Held
          BY <2>4, HandIs
    <3>2. c \in Seq(Items) /\ EndsWhole(r, c, s.d, s.log)
          BY <1>1, <2>1, <2>4, <3>1 DEF PastOf
    <3>3. CASE \E t \in Tables : h \in s.w[t]
      <4>1. \A t \in Tables : h \in s.w[t]
            BY <1>1, <3>3 DEF Sound
      <4>2. \A t \in Tables : After(CopyOf(r, s.log, t), c, t) = OfTable(s.log[s.d], t)
            BY <2>2, <4>1
      <4>3. n.chan[h] = Append(c, End(s.d))
            BY <1>2, <3>1, <3>3
      <4> HIDE DEF c, h
      <4>4. EndsWhole(r, Append(c, End(s.d)), s.d + 1, s.log)
            BY <1>1, <3>2, <4>2, EndsWholeEnd
      <4> QED
          BY <4>3, <4>4 DEF h
    <3>4. CASE ~\E t \in Tables : h \in s.w[t]
      <4>1. n.chan[h] = c
            BY <1>2, <3>1, <3>4
      <4> HIDE DEF c, h
      <4>2. s.d \in Int /\ s.d + 1 \in Int /\ s.d <= s.d + 1
            BY <1>1 DEF Days
      <4>3. EndsWhole(r, c, s.d + 1, s.log)
            BY <3>2, <4>2, EndsWholeLater
      <4> QED
          BY <4>1, <4>3 DEF h
    <3> QED
        BY <3>3, <3>4
  <2>5. PastOf(s.d + 1, s.log, n.chan)
    <3>1. /\ \A y \in Days : y > s.d => s.log[y] = << >>
          /\ \A r \in Rdbs : rdb[r] = "replay" => sync[r].n <= Len(s.log[sync[r].day])
          /\ \A y \in Days : \A tables \in saved[y] :
               /\ y < s.d
               /\ \A t \in Tables : tables[t] = OfTable(s.log[y], t)
          BY <2>1 DEF PastOf
    <3>2. \A y \in Days : y > s.d + 1 => y > s.d
          BY <1>1 DEF Days
    <3>3. Days \subseteq Int
          BY DEF Days
    <3> QED
        BY <2>3, <2>4, <3>1, <3>2, <3>3 DEF PastOf
  <2>6. Past(n)
        BY <1>2, <2>5, PastIs
  <2>7. n.log[n.d] = << >>
    <3>1. n.d > s.d
          BY <1>1, <1>2 DEF Days
    <3> QED
        BY <1>2, <2>1, <3>1 DEF PastOf
  <2>8. ASSUME NEW r \in Rdbs, NEW t \in Tables, hand[r] \in n.w[t]
        PROVE  After(CopyOf(r, n.log, t), n.chan[hand[r]], t) = OfTable(n.log[n.d], t)
    <3> DEFINE h == hand[r]
               c == s.chan[h]
               z == End(s.d)
               q == CopyOf(r, n.log, t)
    <3>1. h \in s.w[t] /\ h \in Handles /\ h \in Held
          BY <1>1, <1>2, <2>8 DEF Held
    <3>2. n.chan[h] = Append(c, z)
          BY <1>2, <3>1
    <3>3. c \in Seq(Items) /\ z \in Items /\ z.kind = "end"
          BY <1>1, <3>1 DEF End, Items
    <3> HIDE DEF h, c, z, q
    <3>4. After(q, Append(c, z), t) = << >>
          BY <3>3, AfterEnd
    <3>5. OfTable(n.log[n.d], t) = << >>
          BY <2>7, OfTableEmpty
    <3> QED
        BY <3>2, <3>4, <3>5 DEF h, q
  <2>9. FeedEndsDay => ~torn[n.d]
        BY <1>2, <1>6 DEF OtherTypes
  <2>10. Kept(Ld(n)) /\ Ld(n).buf = Empty /\ Ld(n).d = n.d /\ Ld(n).err = n.err
         BY <1>2, <1>4, <1>6, <2>6, <2>8, <2>9, LdKeeps
  <2> QED
      BY <1>2, <1>3, <1>6, <2>10
<1> QED
    BY <1>5, <1>6

(* The timer of a day that may have ended.                                 *)
LEMMA TsKeeps ==
  ASSUME PlantAssumption, RdbTypes, OtherTypes, NEW s, Kept(s), s.up,
         s.buf = Empty, ~s.err
  PROVE  /\ Kept(Ts(s, today)) /\ Ts(s, today).buf = Empty
         /\ ~Ts(s, today).err => Ts(s, today).d >= today
<1>1. s \in PlantStates /\ s.d \in Int /\ today \in Int /\ today <= LastDay
      BY DEF Kept, Sound, PlantStates, Days, OtherTypes
<1>2. CASE today <= s.d
  <2>1. Ts(s, today) = s
        BY <1>2 DEF Ts
  <2> QED
      BY <1>1, <1>2, <2>1
<1>3. CASE ~(today <= s.d) /\ s.d < today - 1
  <2> DEFINE n == [s EXCEPT !.timer = FALSE, !.err = TRUE]
  <2>1. Ts(s, today) = n
        BY <1>3 DEF Ts
  <2>2. /\ n \in PlantStates /\ n.err
        /\ n.up = s.up /\ n.d = s.d /\ n.i = s.i /\ n.j = s.j /\ n.buf = s.buf
        /\ n.w = s.w /\ n.log = s.log /\ n.chan = s.chan
        BY <1>1 DEF PlantStates
  <2> HIDE DEF n
  <2>3. Sound(n) /\ (Logging => Past(n))
        BY <2>2, PastIs DEF Sound, Kept
  <2>4. Logging => Counted(n)
        BY <2>2 DEF Kept, Counted
  <2>5. Logging => Agrees(n)
        BY <2>2 DEF Kept, Agrees
  <2>6. Kept(n)
        BY <2>3, <2>4, <2>5 DEF Kept
  <2> QED
      BY <2>1, <2>2, <2>6
<1>4. CASE ~(today <= s.d) /\ ~(s.d < today - 1)
  <2>1. Ts(s, today) = Endofday(s)
        BY <1>4 DEF Ts
  <2>2. s.d < today /\ s.d <= LastDay /\ s.d + 1 >= today
        BY <1>1, <1>4 DEF PlantAssumption
  <2> QED
      BY <2>1, <2>2, EndofdayKeeps
<1> QED
    BY <1>2, <1>3, <1>4

-----------------------------------------------------------------------------
(* The timer                                                               *)

(* An error changes nothing that this is about.                            *)
LEMMA ErrKeeps ==
  ASSUME NEW s, Kept(s)
  PROVE  Kept([s EXCEPT !.err = TRUE])
<1> DEFINE n == [s EXCEPT !.err = TRUE]
<1>1. s \in PlantStates
      BY DEF Kept, Sound
<1>2. /\ n \in PlantStates
      /\ n.up = s.up /\ n.d = s.d /\ n.i = s.i /\ n.j = s.j /\ n.buf = s.buf
      /\ n.w = s.w /\ n.log = s.log /\ n.chan = s.chan
      BY <1>1 DEF PlantStates
<1> HIDE DEF n
<1>3. Sound(n) /\ (Logging => Past(n))
      BY <1>2, PastIs DEF Sound, Kept
<1>4. Logging /\ n.up => Counted(n)
      BY <1>2 DEF Kept, Counted
<1>5. Logging /\ n.up => Agrees(n)
      BY <1>2 DEF Kept, Agrees
<1>6. Kept(n)
      BY <1>3, <1>4, <1>5 DEF Kept
<1> QED
    BY <1>6 DEF n

(* The timer publishes the buffer and may end the day.                     *)
LEMMA OnTimerKeeps ==
  ASSUME PlantAssumption, RdbTypes, OtherTypes, NEW s, Kept(s), s.up, ~s.err
  PROVE  Kept(OnTimer(s))
<1>1. s \in PlantStates /\ Sound(s)
      BY DEF Kept, Sound
<1>2. CASE ~Batch
  <2>1. OnTimer(s) = Ts(s, today) /\ s.buf = Empty
        BY <1>1, <1>2 DEF OnTimer, Sound
  <2> QED
      BY <2>1, TsKeeps
<1>3. CASE Batch
  <2>1. /\ Kept(Flush(s)) /\ Flush(s).up /\ Flush(s).buf = Empty
        /\ ~Flush(s).err
        BY <1>1, <1>3, FlushKeeps, FlushIs
  <2>2. CASE Logging
    <3>1. OnTimer(s) = Ts(Flush(s), today)
          BY <1>3, <2>2 DEF OnTimer
    <3> QED
        BY <2>1, <3>1, TsKeeps
  <2>3. CASE ~Logging
    <3>1. OnTimer(s) = [Flush(s) EXCEPT !.err = TRUE]
          BY <1>3, <2>3 DEF OnTimer
    <3> QED
        BY <2>1, <3>1, ErrKeeps
  <2> QED
      BY <2>2, <2>3
<1> QED
    BY <1>2, <1>3

(* What upd does before it takes the message.                              *)
LEMMA BeforeUpdKeeps ==
  ASSUME PlantAssumption, RdbTypes, OtherTypes, NEW s, Kept(s), s.up, ~s.err,
         NEW m
  PROVE  Kept(BeforeUpd(s, m))
<1>1. CASE ~Batch
  <2>1. BeforeUpd(s, m) = Ts(s, today) /\ s.buf = Empty
        BY <1>1 DEF BeforeUpd, Kept, Sound
  <2> QED
      BY <2>1, TsKeeps
<1>2. CASE Batch
  <2>1. BeforeUpd(s, m) = OnTimer(s) \/ BeforeUpd(s, m) = s
        BY <1>2 DEF BeforeUpd
  <2> QED
      BY <2>1, OnTimerKeeps
<1> QED
    BY <1>1, <1>2

-----------------------------------------------------------------------------
(* A message is stored or published, and logged                            *)

(* The logs after a message.                                               *)
Logged(lg, x, m) == [lg EXCEPT ![x] = Append(@, m)]

(* A message that is logged changes nothing for who replays what was       *)
(* logged before it.                                                       *)
LEMMA CopyOfLog ==
  ASSUME RdbTypes, NEW lg \in [Days -> Seq(Messages)], NEW r \in Rdbs,
         rdb[r] = "replay" => sync[r].n <= Len(lg[sync[r].day]),
         NEW x \in Days, NEW m \in Messages, NEW t
  PROVE  CopyOf(r, Logged(lg, x, m), t) = CopyOf(r, lg, t)
<1> DEFINE lh == Logged(lg, x, m)
<1>1. CASE rdb[r] = "replay"
  <2> DEFINE n == sync[r].n
             y == sync[r].day
  <2>1. n \in Nat /\ y \in Days /\ n <= Len(lg[y]) /\ lg[y] \in Seq(Messages)
        BY <1>1 DEF RdbTypes
  <2> DEFINE u == SubSeq(lh[y], 1, n)
             v == SubSeq(lg[y], 1, n)
  <2>2. u = v
    <3>1. CASE y = x
      <4>1. lh[y] = Append(lg[y], m)
            BY <2>1, <3>1 DEF Logged
      <4> DEFINE a == lg[y]
      <4>2. SubSeq(Append(a, m), 1, n) = SubSeq(a, 1, n)
        <5> HIDE DEF a, n
        <5> QED
            BY <2>1, PrefixOfAppend DEF a
      <4> QED
          BY <4>1, <4>2
    <3>2. CASE y # x
      <4>1. lh[y] = lg[y]
            BY <2>1, <3>2 DEF Logged
      <4> QED
          BY <4>1
    <3> QED
        BY <3>1, <3>2
  <2>3. CopyOf(r, lh, t) = OfTable(u, t) /\ CopyOf(r, lg, t) = OfTable(v, t)
        BY <1>1 DEF CopyOf
  <2> HIDE DEF u, v
  <2> QED
      BY <2>2, <2>3
<1>2. CASE rdb[r] # "replay"
      BY <1>2 DEF CopyOf
<1> QED
    BY <1>1, <1>2

(* The past is not touched by a message that is logged today.              *)
LEMMA LogKeepsPast ==
  ASSUME RdbTypes, NEW lg \in [Days -> Seq(Messages)], NEW x \in Days,
         NEW ch \in [Handles -> Seq(Items)], NEW m \in Messages, PastOf(x, lg, ch)
  PROVE  PastOf(x, Logged(lg, x, m), ch)
<1> DEFINE lh == Logged(lg, x, m)
<1>1. /\ \A y \in Days : y > x => lg[y] = << >>
      /\ \A r \in Rdbs : rdb[r] = "replay" => sync[r].n <= Len(lg[sync[r].day])
      /\ \A r \in Rdbs : hand[r] # NoHandle => EndsWhole(r, ch[hand[r]], x, lg)
      /\ \A y \in Days : \A tables \in saved[y] :
           /\ y < x
           /\ \A t \in Tables : tables[t] = OfTable(lg[y], t)
      BY DEF PastOf
<1>2. \A y \in Days : y # x => lh[y] = lg[y]
      BY DEF Logged
<1>3. Len(lh[x]) = Len(lg[x]) + 1 /\ Len(lg[x]) \in Nat
      BY AppendProperties, LenProperties DEF Logged
<1>4. \A r \in Rdbs : \A t : CopyOf(r, lh, t) = CopyOf(r, lg, t)
      BY <1>1, CopyOfLog
<1> HIDE DEF lh
<1>5. Days \subseteq Int
      BY DEF Days
<1>6. \A y \in Days : y > x => lh[y] = << >>
      BY <1>1, <1>2, <1>5
<1>7. ASSUME NEW r \in Rdbs, rdb[r] = "replay"
      PROVE  sync[r].n <= Len(lh[sync[r].day])
  <2>1. sync[r].n \in Nat /\ sync[r].day \in Days /\ sync[r].n <= Len(lg[sync[r].day])
        BY <1>1, <1>7 DEF RdbTypes
  <2>2. CASE sync[r].day = x
        BY <1>3, <2>1, <2>2
  <2>3. CASE sync[r].day # x
        BY <1>2, <2>1, <2>3
  <2> QED
      BY <2>2, <2>3
<1>8. ASSUME NEW r \in Rdbs, hand[r] # NoHandle
      PROVE  EndsWhole(r, ch[hand[r]], x, lh)
  <2> DEFINE c == ch[hand[r]]
  <2>1. c \in Seq(Items) /\ EndsWhole(r, c, x, lg)
        BY <1>1, <1>8, HandIs
  <2> HIDE DEF c
  <2>2. EndsWhole(r, c, x, lh)
    <3> SUFFICES ASSUME NEW k \in Ends(c)
                 PROVE  /\ c[k].day < x
                        /\ \A t \in Tables :
                             After(CopyOf(r, lh, t), SubSeq(c, 1, k - 1), t) =
                               OfTable(lh[c[k].day], t)
        BY Zenon DEF EndsWhole
    <3> DEFINE v == SubSeq(c, 1, k - 1)
    <3>1. /\ c[k].day < x
          /\ \A t \in Tables : After(CopyOf(r, lg, t), v, t) = OfTable(lg[c[k].day], t)
          BY <2>1 DEF EndsWhole
    <3>2. c[k] \in Items /\ c[k].kind = "end"
          BY <2>1, ElementOfSeq, LenProperties DEF Ends
    <3>3. c[k].day \in Days
          BY <3>2, ItemIs
    <3>4. lh[c[k].day] = lg[c[k].day]
          BY <1>2, <1>5, <3>1, <3>3
    <3> HIDE DEF v
    <3>5. \A t \in Tables : After(CopyOf(r, lh, t), v, t) = OfTable(lh[c[k].day], t)
          BY <1>4, <3>1, <3>4
    <3> QED
        BY <3>1, <3>5 DEF v
  <2> QED
      BY <2>2 DEF c
<1>9. ASSUME NEW y \in Days, NEW tables \in saved[y]
      PROVE  /\ y < x
             /\ \A t \in Tables : tables[t] = OfTable(lh[y], t)
  <2>1. lh[y] = lg[y]
        BY <1>1, <1>2, <1>5
  <2> QED
      BY <1>1, <2>1
<1>10. PastOf(x, lh, ch)
       BY <1>6, <1>7, <1>8, <1>9 DEF PastOf
<1> QED
    BY <1>10 DEF lh

(* What is sent of a message without a delay.                              *)
OneBatch(s, m) == [h \in Handles |-> Pub(s, TabOf[m], <<m>>, h)]

(* The message goes to the buffer, or to the subscribers of its table.     *)
LEMMA AcceptIs ==
  ASSUME PlantAssumption, NEW s \in PlantStates, NEW m \in Messages
  PROVE  /\ Accept(s, m) \in PlantStates
         /\ Accept(s, m).up = s.up /\ Accept(s, m).timer = s.timer
         /\ Accept(s, m).d = s.d /\ Accept(s, m).i = s.i /\ Accept(s, m).j = s.j
         /\ Accept(s, m).w = s.w /\ Accept(s, m).log = s.log
         /\ Accept(s, m).err = s.err
         /\ Batch => /\ Accept(s, m).chan = s.chan
                     /\ \A t \in Tables :
                          Accept(s, m).buf[t] = Cat(s.buf[t], Only(t)[m])
         /\ ~Batch => /\ Accept(s, m).chan = Sends(s, OneBatch(s, m)).chan
                      /\ Accept(s, m).buf = s.buf
         /\ OneBatch(s, m) \in [Handles -> Seq(Items)]
         /\ \A h \in Handles :
              /\ Ends(OneBatch(s, m)[h]) = {}
              /\ \A t \in Tables : h \in s.w[t] =>
                   RowsIn(OneBatch(s, m)[h], t) = Only(t)[m]
<1> DEFINE T == TabOf[m]
           n == Accept(s, m)
           it == OneBatch(s, m)
<1>1. T \in Tables
      BY DEF PlantAssumption
<1>2. <<m>> \in RowsOf(T)
      BY <1>1, RowsOfTable
<1> DEFINE o == <<m>>
<1>3. it = [h \in Handles |-> Pub(s, T, o, h)] /\ o \in RowsOf(T)
      BY <1>2 DEF OneBatch
<1> HIDE DEF T, it, o
<1>4. \A h : /\ Pub(s, T, o, h) \in Seq(Items) /\ Ends(Pub(s, T, o, h)) = {}
             /\ \A t : RowsIn(Pub(s, T, o, h), t) =
                         IF t = T /\ h \in s.w[T] THEN o ELSE << >>
      BY <1>1, <1>3, PubIs
<1>5. /\ it \in [Handles -> Seq(Items)]
      /\ \A h \in Handles : it[h] = Pub(s, T, o, h)
      BY <1>3, <1>4
<1>6. \A h \in Handles :
         /\ Ends(it[h]) = {}
         /\ \A t \in Tables : h \in s.w[t] => RowsIn(it[h], t) = Only(t)[m]
  <2>1. \A t \in Tables : Only(t)[m] = IF t = T THEN o ELSE << >>
        BY DEF Only, T, o
  <2> QED
      BY <1>4, <1>5, <2>1
<1>7. CASE Batch
  <2> DEFINE b == [s.buf EXCEPT ![T] = Append(@, m)]
  <2>1. n = [s EXCEPT !.buf = b]
        BY <1>7 DEF Accept, T, PlantStates
  <2>2. s.buf \in Contents
        BY DEF PlantStates
  <2>3. \A t \in Tables : s.buf[t] \in RowsOf(t) /\ s.buf[t] \in Seq(Messages)
        BY <2>2 DEF Contents
  <2>4. Append(s.buf[T], m) \in RowsOf(T)
        BY <1>1, <2>3, RowsOfTable DEF T
  <2>5. DOMAIN s.buf = Tables /\ s.buf \in [Tables -> Seq(Messages)]
        BY <2>2 DEF Contents
  <2> DEFINE e == Append(s.buf[T], m)
  <2>6. /\ b = [s.buf EXCEPT ![T] = e]
        /\ \A t \in Tables : b[t] = IF T = t THEN Append(s.buf[t], m) ELSE s.buf[t]
        BY <1>1, <2>5
  <2>7. e \in Seq(Messages)
        BY <2>4 DEF RowsOf
  <2> HIDE DEF e
  <2>8. /\ b \in [Tables -> Seq(Messages)]
        /\ \A t \in Tables : b[t] = IF T = t THEN e ELSE s.buf[t]
        BY <1>1, <2>5, <2>6, <2>7
  <2> HIDE DEF b
  <2>9. b \in Contents
        BY <2>3, <2>4, <2>8 DEF Contents, e
  <2>11. ASSUME NEW t \in Tables
         PROVE  b[t] = Cat(s.buf[t], Only(t)[m])
    <3> DEFINE q == s.buf[t]
    <3>1. q \in Seq(Messages)
          BY <2>3
    <3>2. b[t] = IF T = t THEN Append(q, m) ELSE q
          BY <2>6
    <3> HIDE DEF q
    <3>3. Append(q, m) = Cat(q, <<m>>)
          BY <3>1, AppendIsConcat DEF Cat
    <3>4. Cat(q, << >>) = q
          BY <3>1, NoMore DEF Cat
    <3>5. Only(t)[m] = IF T = t THEN <<m>> ELSE << >>
          BY DEF Only, T
    <3>6. b[t] = Cat(q, Only(t)[m])
          BY <3>2, <3>3, <3>4, <3>5
    <3> QED
        BY <3>6 DEF q
  <2>10. /\ n \in PlantStates /\ n.buf = b /\ n.chan = s.chan
         /\ n.up = s.up /\ n.timer = s.timer /\ n.d = s.d /\ n.i = s.i /\ n.j = s.j
         /\ n.w = s.w /\ n.log = s.log /\ n.err = s.err
         BY <2>1, <2>9 DEF PlantStates
  <2> HIDE DEF n
  <2> QED
      BY <1>5, <1>6, <1>7, <2>10, <2>11 DEF n, it
<1>8. CASE ~Batch
  <2>1. n = Sends(s, it)
    <3>1. n = PubNow(s, m)
          BY <1>8 DEF Accept
    <3>2. PubNow(s, m) = [s EXCEPT !.chan = [h \in Handles |->
             IF h \in Held THEN s.chan[h] \o Pub(s, T, o, h) ELSE << >>]]
          BY Zenon DEF PubNow, Send, T, o
    <3>3. \A h \in Handles :
            (IF h \in Held THEN s.chan[h] \o Pub(s, T, o, h) ELSE << >>) =
            (IF h \in Held THEN s.chan[h] \o it[h] ELSE << >>)
          BY <1>5
    <3> QED
        BY <3>1, <3>2, <3>3 DEF Sends
  <2>2. /\ n \in PlantStates /\ n.chan = Sends(s, it).chan
        /\ n.up = s.up /\ n.timer = s.timer /\ n.d = s.d /\ n.i = s.i /\ n.j = s.j
        /\ n.buf = s.buf /\ n.w = s.w /\ n.log = s.log /\ n.err = s.err
        BY <1>5, <2>1, SendsIs
  <2> HIDE DEF n
  <2> QED
      BY <1>5, <1>6, <1>8, <2>2 DEF n, it
<1> QED
    BY <1>7, <1>8

(* What an RDB has, has coming and does not have yet gets the message, if  *)
(* it is of the table.                                                     *)
LEMMA AcceptTakes ==
  ASSUME PlantAssumption, RdbTypes, NEW s, Sound(s), NEW m \in Messages,
         NEW r \in Rdbs, NEW t \in Tables, hand[r] \in s.w[t],
         NEW q \in Seq(Messages)
  PROVE  Cat(After(q, Accept(s, m).chan[hand[r]], t), Accept(s, m).buf[t]) =
           Cat(Cat(After(q, s.chan[hand[r]], t), s.buf[t]), Only(t)[m])
<1> DEFINE n == Accept(s, m)
           h == hand[r]
           c == s.chan[h]
           it == OneBatch(s, m)
           b == s.buf[t]
           o == Only(t)[m]
<1>1. /\ s \in PlantStates /\ h \in Handles /\ h \in Held
      /\ c \in Seq(Items) /\ b \in Seq(Messages)
  <2>1. s \in PlantStates
        BY DEF Sound
  <2>2. h \in Handles /\ b \in Seq(Messages)
        BY <2>1 DEF PlantStates, Contents
  <2> QED
      BY <2>1, <2>2 DEF Held, PlantStates
<1>2. o \in Seq(Messages)
  <2>1. << >> \in Seq(Messages)
        BY OfTableGathers
  <2> QED
      BY <2>1, OfTableGathers
<1> DEFINE a == After(q, c, t)
<1>3. a \in Seq(Messages)
  <2> HIDE DEF c
  <2> QED
      BY <1>1, AfterSeq
<1>4. CASE Batch
  <2>1. n.chan = s.chan /\ n.buf[t] = Cat(b, o)
        BY <1>1, <1>4, AcceptIs
  <2>2. Cat(a, Cat(b, o)) = Cat(Cat(a, b), o)
    <3> HIDE DEF a, b, o
    <3> QED
        BY <1>1, <1>2, <1>3, CatAssoc
  <2> QED
      BY <2>1, <2>2
<1>5. CASE ~Batch
  <2>0. /\ n.chan = Sends(s, it).chan /\ n.buf = s.buf
        /\ it \in [Handles -> Seq(Items)]
        BY <1>1, <1>5, AcceptIs
  <2>1. /\ n.chan = Sends(s, it).chan /\ n.buf = s.buf
        /\ it \in [Handles -> Seq(Items)] /\ Ends(it[h]) = {}
        /\ RowsIn(it[h], t) = o
    <3>1. \A g \in Handles :
             /\ Ends(it[g]) = {}
             /\ \A u \in Tables : g \in s.w[u] => RowsIn(it[g], u) = Only(u)[m]
      <4> DEFINE B == OneBatch(s, m)
      <4>1. \A g \in Handles :
               /\ Ends(B[g]) = {}
               /\ \A u \in Tables : g \in s.w[u] => RowsIn(B[g], u) = Only(u)[m]
            BY <1>1, AcceptIs, ZenonT(40)
      <4> QED
          BY <4>1
    <3> QED
        BY <1>1, <2>0, <3>1
  <2>2. n.chan[h] = Cat(c, it[h]) /\ it[h] \in Seq(Items)
        BY <1>1, <2>1, SendsIs
  <2>3. b = << >> /\ n.buf[t] = << >>
        BY <1>5, <2>1, EmptyIs DEF Sound
  <2> DEFINE e == it[h]
             z == After(q, n.chan[h], t)
  <2>4. z = Cat(a, o)
    <3> HIDE DEF c, e
    <3>1. After(q, Cat(c, e), t) = Cat(After(q, c, t), RowsIn(e, t))
          BY <1>1, <2>1, <2>2, AfterRows DEF e
    <3>2. n.chan[h] = Cat(c, e) /\ RowsIn(e, t) = o
          BY <2>1, <2>2 DEF e
    <3> QED
        BY <3>1, <3>2
  <2>5. \A p \in Seq(Messages) : Cat(p, << >>) = p
        BY NoMore DEF Cat
  <2> HIDE DEF a, o, z, b
  <2>6. Cat(a, o) \in Seq(Messages)
        BY <1>2, <1>3, ConcatProperties DEF Cat
  <2>7. Cat(z, n.buf[t]) = Cat(Cat(a, b), o)
        BY <1>3, <2>3, <2>4, <2>5, <2>6
  <2> QED
      BY <2>7 DEF a, o, z, b
<1> QED
    BY <1>4, <1>5

(* A message that is logged is the last of its table in the log.           *)
LEMMA LogTakes ==
  ASSUME NEW a \in Seq(Messages), NEW m \in Messages, NEW t
  PROVE  /\ Append(a, m) \in Seq(Messages)
         /\ Only(t)[m] \in Seq(Messages)
         /\ OfTable(Append(a, m), t) = Cat(OfTable(a, t), Only(t)[m])
<1> DEFINE e == Append(a, m)
           o == <<m>>
<1>1. e = Cat(a, o) /\ o \in Seq(Messages) /\ e \in Seq(Messages)
      BY AppendIsConcat, AppendProperties DEF Cat
<1>2. Only(t)[m] = OfTable(o, t)
      BY OfTableOne DEF Only
<1> HIDE DEF e, o
<1>3. OfTable(e, t) = Cat(OfTable(a, t), OfTable(o, t))
      BY <1>1, OfTableConcat
<1>4. OfTable(o, t) \in Seq(Messages)
      BY <1>1, OfTableType
<1> QED
    BY <1>1, <1>2, <1>3, <1>4 DEF e

(* Taking a message does not touch the past.                               *)
LEMMA AcceptKeeps ==
  ASSUME PlantAssumption, RdbTypes, NEW s, Kept(s), s.up, NEW m \in Messages
  PROVE  Sound(Accept(s, m)) /\ (Logging => Past(Accept(s, m)))
<1>1. s \in PlantStates /\ Sound(s)
      BY DEF Kept, Sound
<1> DEFINE n == Accept(s, m)
           it == OneBatch(s, m)
<1>2. /\ n \in PlantStates /\ n.up = s.up /\ n.d = s.d
      /\ n.w = s.w /\ n.log = s.log
      /\ Batch => n.chan = s.chan
      /\ ~Batch => n.chan = Sends(s, it).chan /\ n.buf = s.buf
      /\ it \in [Handles -> Seq(Items)]
      /\ n.i = s.i /\ n.j = s.j
  <2>1. n \in PlantStates /\ it \in [Handles -> Seq(Items)]
        BY <1>1, AcceptIs
  <2>2. /\ n.up = s.up /\ n.d = s.d /\ n.w = s.w /\ n.log = s.log
        /\ n.i = s.i /\ n.j = s.j
        BY <1>1, AcceptIs, ZenonT(40)
  <2>3. (Batch => n.chan = s.chan) /\ (~Batch => n.chan = Sends(s, it).chan)
        BY <1>1, AcceptIs
  <2>4. ~Batch => n.buf = s.buf
        BY <1>1, AcceptIs
  <2> QED
      BY <2>1, <2>2, <2>3, <2>4
<1>3. \A h \in Handles : Ends(it[h]) = {}
      BY <1>1, AcceptIs
<1> HIDE DEF n, it
<1>4. \A h \in Handles : h \notin Held => n.chan[h] = << >>
  <2>1. CASE Batch
        BY <1>1, <1>2, <2>1 DEF Sound
  <2>2. CASE ~Batch
        BY <1>1, <1>2, <2>2, SendsIs
  <2> QED
      BY <2>1, <2>2
<1>5. Sound(n)
      BY <1>1, <1>2, <1>4 DEF Sound
<1>6. ASSUME Logging
      PROVE  Past(n)
  <2>1. Past(s)
        BY <1>6 DEF Kept
  <2>2. CASE Batch
        BY <1>2, <2>1, <2>2, PastIs
  <2>3. CASE ~Batch
    <3>1. PastOf(s.d, s.log, Sends(s, it).chan)
          BY <1>1, <1>2, <1>3, <2>1, SendsKeepsPast
    <3> QED
        BY <1>2, <2>3, <3>1, PastIs
  <2> QED
      BY <2>2, <2>3
<1> QED
    BY <1>5, <1>6 DEF n

(* A message that is taken and logged is in the log and in what every      *)
(* connected RDB has, will have or waits for: they still agree.            *)
LEMMA LogKeeps ==
  ASSUME PlantAssumption, RdbTypes, NEW s, Kept(s), s.up, NEW m \in Messages
  PROVE  Kept(Log(Accept(s, m), m))
<1>1. s \in PlantStates /\ Sound(s) /\ s.log \in [Days -> Seq(Messages)]
      /\ s.d \in Days /\ s.w \in [Tables -> SUBSET Handles]
      /\ s.chan \in [Handles -> Seq(Items)] /\ s.i \in Nat /\ s.j \in Nat
      BY DEF Kept, Sound, PlantStates
<1> DEFINE n == Accept(s, m)
           f == Log(n, m)
<1>2. Sound(n) /\ (Logging => Past(n))
      BY AcceptKeeps
<1>3. /\ n \in PlantStates /\ n.up = s.up /\ n.d = s.d /\ n.i = s.i /\ n.j = s.j
      /\ n.w = s.w /\ n.log = s.log
  <2>1. s \in PlantStates
        BY <1>1
  <2> QED
      BY <2>1, AcceptIs, ZenonT(40)
<1>4. Batch => \A t \in Tables : n.buf[t] = Cat(s.buf[t], Only(t)[m])
      BY <1>1, AcceptIs
<1>5. CASE ~Logging
  <2>1. f = n
        BY <1>5 DEF Log
  <2> QED
      BY <1>2, <1>5, <2>1 DEF Kept
<1>6. CASE Logging
  <2> DEFINE l == s.log[s.d]
             e == Append(l, m)
             lh == Logged(s.log, s.d, m)
  <2>1. Past(s) /\ Counted(s) /\ Agrees(s) /\ Past(n)
        BY <1>2, <1>6 DEF Kept
  <2>2. l \in Seq(Messages) /\ Len(l) \in Nat
        BY <1>1, LenProperties
  <2>3. e \in Seq(Messages) /\ Len(e) = Len(l) + 1
        BY <2>2, AppendProperties
  <2>4. lh \in [Days -> Seq(Messages)] /\ lh[s.d] = e
        BY <1>1, <2>3 DEF Logged
  <2> DEFINE ii == IF Batch THEN s.i ELSE s.i + 1
             jj == IF Batch THEN s.j + 1 ELSE s.j
  <2>5. f = [n EXCEPT !.log = lh, !.i = ii, !.j = jj] /\ ii \in Nat /\ jj \in Nat
    <3>1. f = [n EXCEPT !.log[n.d] = Append(@, m),
                        !.i = IF Batch THEN @ ELSE @ + 1,
                        !.j = IF Batch THEN @ + 1 ELSE @]
          BY <1>6 DEF Log
    <3> HIDE DEF n, f
    <3>2. f = [n EXCEPT !.log = lh, !.i = ii, !.j = jj]
          BY <1>3, <3>1 DEF PlantStates, Logged
    <3> QED
        BY <1>1, <3>2
  <2>6. PastOf(s.d, lh, n.chan)
    <3>1. PastOf(s.d, s.log, n.chan) /\ n.chan \in [Handles -> Seq(Items)]
          BY <1>3, <2>1, PastIs DEF PlantStates
    <3> QED
        BY <1>1, <3>1, LogKeepsPast
  <2>7. \A r \in Rdbs, t \in Tables : CopyOf(r, lh, t) = CopyOf(r, s.log, t)
    <3>1. \A r \in Rdbs : rdb[r] = "replay" => sync[r].n <= Len(s.log[sync[r].day])
          BY <2>1 DEF Past
    <3>2. s.log \in [Days -> Seq(Messages)] /\ s.d \in Days
          BY <1>1
    <3> SUFFICES ASSUME NEW r \in Rdbs, NEW t \in Tables
                 PROVE  CopyOf(r, Logged(s.log, s.d, m), t) = CopyOf(r, s.log, t)
        OBVIOUS
    <3>3. rdb[r] = "replay" => sync[r].n <= Len(s.log[sync[r].day])
          BY <3>1
    <3> DEFINE lg == s.log
               x == s.d
    <3>4. /\ lg \in [Days -> Seq(Messages)] /\ x \in Days
          /\ rdb[r] = "replay" => sync[r].n <= Len(lg[sync[r].day])
          BY <3>2, <3>3
    <3> HIDE DEF lg, x
    <3>5. CopyOf(r, Logged(lg, x, m), t) = CopyOf(r, lg, t)
          BY <3>4, CopyOfLog
    <3> QED
        BY <3>5 DEF lg, x
  <2>8. \A t \in Tables :
           /\ Only(t)[m] \in Seq(Messages) /\ OfTable(l, t) \in Seq(Messages)
           /\ OfTable(e, t) = Cat(OfTable(l, t), Only(t)[m])
        BY <2>2, LogTakes, OfTableType
  <2>9. Batch => s.i <= Len(l) /\ s.i <= s.j /\ s.j = Len(l)
        BY <2>1, <2>2 DEF Counted
  <2>10. Batch => SubSeq(e, 1, s.i) = SubSeq(l, 1, s.i) /\ SubSeq(l, 1, s.i) \in Seq(Messages)
    <3> HIDE DEF l
    <3> QED
        BY <1>1, <2>2, <2>9, PrefixOfAppend DEF e
  <2>17. (Batch => ii = s.i /\ jj = s.j + 1) /\ (~Batch => ii = s.i + 1)
         OBVIOUS
  <2> HIDE DEF n, f, lh, e, ii, jj
  <2>18. /\ f \in PlantStates /\ f.log = lh /\ f.i = ii /\ f.j = jj
         /\ f.up = n.up /\ f.d = n.d /\ f.w = n.w /\ f.buf = n.buf /\ f.chan = n.chan
         BY <1>3, <2>4, <2>5 DEF PlantStates
  <2>11. /\ f \in PlantStates /\ f.log = lh
         /\ Batch => f.i = s.i /\ f.j = s.j + 1
         /\ ~Batch => f.i = s.i + 1
         /\ f.up = n.up /\ f.d = n.d /\ f.w = n.w /\ f.buf = n.buf /\ f.chan = n.chan
         BY <2>17, <2>18
  <2>12. Sound(f)
         BY <1>2, <1>3, <1>6, <2>11 DEF Sound
  <2>13. Past(f)
         BY <1>3, <2>6, <2>11, PastIs
  <2>14. f.log[f.d] = e /\ f.d = s.d
         BY <1>3, <2>4, <2>11
  <2>15. Counted(f)
    <3>1. CASE ~Batch
      <4>1. s.i = Len(l)
            BY <2>1, <3>1 DEF Counted
      <4> QED
          BY <2>3, <2>11, <2>14, <3>1, <4>1 DEF Counted
    <3>2. CASE Batch
      <4>1. f.i <= f.j /\ f.j = Len(e) /\ f.i = s.i
            BY <1>1, <2>2, <2>3, <2>9, <2>11, <3>2
      <4>2. ASSUME NEW t \in Tables
            PROVE  OfTable(SubSeq(e, 1, s.i), t) \o f.buf[t] = OfTable(e, t)
        <5> DEFINE p == SubSeq(e, 1, s.i)
                   v == SubSeq(l, 1, s.i)
                   b == s.buf[t]
                   o == Only(t)[m]
                   a == OfTable(v, t)
        <5>1. p = v /\ v \in Seq(Messages)
              BY <2>10, <3>2
        <5>2. a \o b = OfTable(l, t)
              BY <2>1, <3>2 DEF Counted
        <5>3. f.buf[t] = Cat(b, o)
              BY <1>4, <2>11, <3>2 DEF n
        <5>4. a \in Seq(Messages)
          <6> HIDE DEF v
          <6> QED
              BY <5>1, OfTableType
        <5>5. b \in Seq(Messages) /\ o \in Seq(Messages)
              BY <1>1, <2>8 DEF PlantStates, Contents
        <5> HIDE DEF p, v
        <5>6. OfTable(p, t) = a
              BY <5>1
        <5> HIDE DEF a, b, o
        <5>7. Cat(a, Cat(b, o)) = Cat(Cat(a, b), o)
              BY <5>4, <5>5, CatAssoc
        <5>8. Cat(Cat(a, b), o) = OfTable(e, t)
              BY <2>8, <5>2 DEF Cat, o
        <5>9. Cat(OfTable(p, t), f.buf[t]) = OfTable(e, t)
              BY <5>3, <5>6, <5>7, <5>8
        <5> QED
            BY <5>9 DEF Cat, p
      <4>3. \A t \in Tables :
               OfTable(SubSeq(f.log[f.d], 1, f.i), t) \o f.buf[t] = OfTable(f.log[f.d], t)
            BY <2>14, <4>1, <4>2
      <4>4. f.i <= f.j /\ f.j = Len(f.log[f.d])
            BY <2>14, <4>1
      <4> QED
          BY <3>2, <4>3, <4>4, Zenon DEF Counted
    <3> QED
        BY <3>1, <3>2
  <2>16. Agrees(f)
    <3> SUFFICES ASSUME NEW r \in Rdbs, NEW t \in Tables, hand[r] \in f.w[t]
                 PROVE  After(CopyOf(r, f.log, t), f.chan[hand[r]], t) \o f.buf[t] =
                          OfTable(f.log[f.d], t)
        BY DEF Agrees
    <3> DEFINE q == CopyOf(r, s.log, t)
               o == Only(t)[m]
               x == After(q, n.chan[hand[r]], t)
               y == After(q, s.chan[hand[r]], t)
               b == s.buf[t]
    <3>1. CopyOf(r, f.log, t) = q /\ hand[r] \in s.w[t]
          BY <1>3, <2>7, <2>11
    <3>2. q \in Seq(Messages)
      <4>1. rdb[r] = "replay" => sync[r].n <= Len(s.log[sync[r].day])
            BY <2>1 DEF Past
      <4> QED
          BY <1>1, <4>1, CopyType
    <3>3. y \o b = OfTable(l, t)
          BY <2>1, <3>1 DEF Agrees
    <3>4. Cat(x, n.buf[t]) = Cat(Cat(y, b), o)
      <4> HIDE DEF q
      <4>1. /\ Sound(s) /\ hand[r] \in s.w[t] /\ q \in Seq(Messages)
            BY <1>1, <3>1, <3>2
      <4> QED
          BY <4>1, AcceptTakes DEF n
    <3>5. After(CopyOf(r, f.log, t), f.chan[hand[r]], t) = x
          BY <2>11, <3>1
    <3> HIDE DEF x, y, b, o
    <3>6. Cat(Cat(y, b), o) = OfTable(e, t)
          BY <2>8, <3>3 DEF Cat, o
    <3>7. x \o f.buf[t] = OfTable(e, t)
          BY <2>11, <3>4, <3>6 DEF Cat
    <3> QED
        BY <2>14, <3>5, <3>7
  <2> QED
      BY <2>12, <2>13, <2>15, <2>16 DEF Kept, f, n
<1> QED
    BY <1>5, <1>6

-----------------------------------------------------------------------------
(* The plant dies                                                          *)

(* What is left of a connection has no end of a day that was not there.    *)
LEMMA EndsWholeCut ==
  ASSUME NEW r, NEW c \in Seq(Items), NEW n \in Nat, n <= Len(c), NEW x, NEW lg,
         EndsWhole(r, c, x, lg)
  PROVE  /\ SubSeq(c, 1, n) \in Seq(Items)
         /\ EndsWhole(r, SubSeq(c, 1, n), x, lg)
<1> DEFINE a == SubSeq(c, 1, n)
           b == SubSeq(c, n + 1, Len(c))
<1>1. Len(c) \in Nat /\ \A k \in 1 .. Len(c) : c[k] \in Items
      BY LenProperties, ElementOfSeq
<1>2. a \in Seq(Items) /\ b \in Seq(Items)
  <2>1. \A k \in 1 .. n : c[k] \in Items
        BY <1>1
  <2>2. \A k \in n + 1 .. Len(c) : c[k] \in Items
        BY <1>1
  <2> QED
      BY <1>1, <2>1, <2>2, SubSeqProperties
<1>3. c = Cat(a, b)
  <2>0. 1 \in 1 .. Len(c) + 1 /\ n \in 1 - 1 .. Len(c) /\ Len(c) \in n .. Len(c)
        BY <1>1
  <2>1. a \o b = SubSeq(c, 1, Len(c))
        BY <2>0, ConcatAdjacentSubSeq
  <2> QED
      BY <2>1, SubSeqFull DEF Cat
<1> HIDE DEF a, b
<1>4. \A k \in Ends(a) : /\ k \in Ends(c) /\ c[k] = a[k]
                         /\ SubSeq(c, 1, k - 1) = SubSeq(a, 1, k - 1)
  <2>1. \A k \in Ends(a) : /\ k \in Ends(Cat(a, b)) /\ Cat(a, b)[k] = a[k]
                           /\ SubSeq(Cat(a, b), 1, k - 1) = SubSeq(a, 1, k - 1)
        BY <1>2, EndsOfConcat
  <2> QED
      BY <1>3, <2>1, Zenon
<1>5. ASSUME NEW k \in Ends(a)
      PROVE  /\ a[k].day < x
             /\ \A t \in Tables :
                  After(CopyOf(r, lg, t), SubSeq(a, 1, k - 1), t) = OfTable(lg[a[k].day], t)
  <2> DEFINE u == SubSeq(a, 1, k - 1)
             v == SubSeq(c, 1, k - 1)
  <2>1. k \in Ends(c) /\ c[k] = a[k] /\ v = u
        BY <1>4
  <2>2. /\ c[k].day < x
        /\ \A t \in Tables : After(CopyOf(r, lg, t), v, t) = OfTable(lg[c[k].day], t)
        BY <2>1 DEF EndsWhole
  <2> HIDE DEF u, v
  <2>3. /\ a[k].day < x
        /\ \A t \in Tables : After(CopyOf(r, lg, t), u, t) = OfTable(lg[a[k].day], t)
        BY <2>1, <2>2
  <2> QED
      BY <2>3 DEF u
<1>6. EndsWhole(r, a, x, lg)
      BY <1>5, Zenon DEF EndsWhole
<1> QED
    BY <1>2, <1>6 DEF a

(* The last messages of the connections may be lost.                       *)
LEMMA CutKeeps ==
  ASSUME RdbTypes, NEW s, Sound(s), Logging => Past(s), NEW keep \in Nat
  PROVE  Sound(Cut(s, keep)) /\ (Logging => Past(Cut(s, keep)))
<1> DEFINE ch == [h \in Handles |-> IF keep < Len(s.chan[h])
                                    THEN SubSeq(s.chan[h], 1, keep) ELSE s.chan[h]]
           n == Cut(s, keep)
<1>1. s \in PlantStates
      BY DEF Sound
<1>2. s.chan \in [Handles -> Seq(Items)]
      BY <1>1 DEF PlantStates
<1>3. n = [s EXCEPT !.chan = ch]
      BY DEF Cut
<1>4. ASSUME NEW h \in Handles
      PROVE  /\ ch[h] \in Seq(Items)
             /\ s.chan[h] = << >> => ch[h] = << >>
             /\ \A r, x, lg : EndsWhole(r, s.chan[h], x, lg) =>
                                EndsWhole(r, ch[h], x, lg)
  <2> DEFINE c == s.chan[h]
  <2>1. ch[h] = IF keep < Len(c) THEN SubSeq(c, 1, keep) ELSE c
        OBVIOUS
  <2>2. c \in Seq(Items) /\ Len(c) \in Nat
        BY <1>2, LenProperties
  <2> HIDE DEF c, ch
  <2>3. CASE keep < Len(c)
    <3>1. ch[h] = SubSeq(c, 1, keep)
          BY <2>1, <2>3
    <3>2. c # << >>
          BY <2>2, <2>3, EmptySeq
    <3>3. \A k \in 1 .. keep : k \in 1 .. Len(c)
          BY <2>2, <2>3
    <3>4. SubSeq(c, 1, keep) \in Seq(Items)
          BY <2>2, <3>3, ElementOfSeq, SubSeqProperties
    <3>5. ASSUME NEW r, NEW x, NEW lg, EndsWhole(r, c, x, lg)
          PROVE  EndsWhole(r, ch[h], x, lg)
      <4>1. keep <= Len(c)
            BY <2>2, <2>3
      <4>2. EndsWhole(r, SubSeq(c, 1, keep), x, lg)
            BY <2>2, <3>5, <4>1, EndsWholeCut
      <4> QED
          BY <3>1, <4>2
    <3> QED
        BY <3>1, <3>2, <3>4, <3>5 DEF c
  <2>4. CASE ~(keep < Len(c))
    <3>1. ch[h] = c
          BY <2>1, <2>4
    <3> QED
        BY <2>2, <3>1 DEF c
  <2> QED
      BY <2>3, <2>4
<1>5. ch \in [Handles -> Seq(Items)]
  <2>1. ch = [h \in Handles |-> ch[h]]
        OBVIOUS
  <2> HIDE DEF ch
  <2> QED
      BY <1>4, <2>1
<1> HIDE DEF ch, n
<1>6. /\ n \in PlantStates /\ n.chan = ch
      /\ n.up = s.up /\ n.d = s.d /\ n.buf = s.buf /\ n.w = s.w /\ n.log = s.log
      /\ n.i = s.i /\ n.j = s.j
      BY <1>1, <1>3, <1>5 DEF PlantStates
<1>7. Sound(n)
  <2>1. \A h \in Handles : h \notin Held => n.chan[h] = << >>
        BY <1>4, <1>6 DEF Sound
  <2> QED
      BY <1>6, <2>1 DEF Sound
<1>8. ASSUME Logging
      PROVE  Past(n)
  <2>1. PastOf(s.d, s.log, s.chan)
        BY <1>8, PastIs
  <2>2. \A r \in Rdbs : hand[r] # NoHandle => EndsWhole(r, ch[hand[r]], s.d, s.log)
        BY <1>4, <2>1, HandIs DEF PastOf
  <2>3. PastOf(s.d, s.log, ch)
        BY <2>1, <2>2 DEF PastOf
  <2> QED
      BY <1>6, <2>3, PastIs
<1> QED
    BY <1>7, <1>8 DEF n

-----------------------------------------------------------------------------
(* Steps                                                                   *)

(* The state of the plant as it will be.                                   *)
LEMMA KeptNext ==
  ASSUME NEW s, Kept(s), RdbTypes, OtherTypes, Becomes(s),
         UNCHANGED <<mode, today, rdbs>>, OtherTypes'
  PROVE  Inv'
<1>1. s \in PlantStates
      BY DEF Kept, Sound
<1>2. Plant' = [up |-> s.up, timer |-> s.timer, d |-> s.d, i |-> s.i, j |-> s.j,
                buf |-> s.buf, w |-> s.w, log |-> s.log, chan |-> s.chan,
                err |-> FALSE]
      BY DEF Plant, Becomes
<1> DEFINE n == [up |-> s.up, timer |-> s.timer, d |-> s.d, i |-> s.i, j |-> s.j,
                 buf |-> s.buf, w |-> s.w, log |-> s.log, chan |-> s.chan,
                 err |-> FALSE]
<1>3. /\ n \in PlantStates
      /\ n.up = s.up /\ n.d = s.d /\ n.i = s.i /\ n.j = s.j /\ n.buf = s.buf
      /\ n.w = s.w /\ n.log = s.log /\ n.chan = s.chan
      BY <1>1 DEF PlantStates
<1>4. Plant' = n
      BY <1>2
<1> HIDE DEF n
<1>9. /\ Plant'.i = s.i /\ Plant'.j = s.j /\ Plant'.d = s.d /\ Plant'.buf = s.buf
      /\ Plant'.log = s.log /\ Plant'.chan = s.chan /\ Plant'.w = s.w /\ Plant'.up = s.up
      /\ mode' = mode /\ rdb' = rdb /\ hand' = hand /\ sync' = sync /\ rows' = rows
      BY <1>3, <1>4 DEF rdbs
<1>5. RdbTypes'
      BY DEF RdbTypes, Logging, rdbs
<1>6. Sound(Plant)'
      BY <1>3, <1>4 DEF Kept, Sound, Held, Batch, Logging, FeedEndsDay, rdbs, PlantStates
<1>7. Logging' => Past(Plant)'
  <2> SUFFICES ASSUME Logging PROVE Past(Plant)'
      BY DEF Logging
  <2>1. Past(s)
        BY DEF Kept
  <2> QED
      BY <1>3, <1>4, <2>1, SMTT(40) DEF Past, CopyOf, rdbs
<1>8. Logging' /\ Plant.up' => Counted(Plant)' /\ Agrees(Plant)'
  <2> SUFFICES ASSUME Logging, s.up PROVE Counted(Plant)' /\ Agrees(Plant)'
      BY <1>9 DEF Logging
  <2>1. Counted(s) /\ Agrees(s)
        BY DEF Kept
  <2>2. Counted(Plant)'
        BY <1>9, <2>1 DEF Counted, Batch
  <2>3. Agrees(Plant)'
    <3>1. \A r \in Rdbs, t \in Tables : CopyOf(r, Plant.log, t)' = CopyOf(r, s.log, t)
          BY <1>9 DEF CopyOf
    <3> QED
        BY <1>9, <2>1, <3>1 DEF Agrees
  <2> QED
      BY <2>2, <2>3
<1> QED
    BY <1>5, <1>6, <1>7, <1>8 DEF Inv, Kept

(* What a step of the plant starts from.                                   *)
LEMMA PlantIs ==
  ASSUME Inv
  PROVE  /\ RdbTypes /\ OtherTypes /\ Kept(Plant)
         /\ Plant \in PlantStates /\ Sound(Plant) /\ (Logging => Past(Plant))
         /\ Plant.up = up /\ ~Plant.err /\ Plant.d = d /\ Plant.buf = buf
         /\ Plant.i = i /\ Plant.j = j /\ Plant.w = w /\ Plant.log = log
         /\ Plant.chan = chan
<1>1. /\ Plant.up = up /\ ~Plant.err /\ Plant.d = d /\ Plant.buf = buf
      /\ Plant.i = i /\ Plant.j = j /\ Plant.w = w /\ Plant.log = log
      /\ Plant.chan = chan
      BY DEF Plant
<1> QED
    BY <1>1 DEF Inv, Kept, Sound

(* A message of the feed.                                                  *)
LEMMA FeedUpdStep ==
  ASSUME PlantAssumption, Inv, NEW m \in Messages, FeedUpd(m)
  PROVE  Inv'
<1> DEFINE s == BeforeUpd(Plant, m)
<1>1. /\ up /\ sent' = sent \cup {m}
      /\ Becomes(IF s.err \/ ~s.up THEN s ELSE Log(Accept(s, m), m))
      /\ UNCHANGED <<mode, today, torn, rdbs, crashes>>
      BY DEF FeedUpd
<1>2. RdbTypes /\ OtherTypes /\ Kept(s)
      BY <1>1, PlantIs, BeforeUpdKeeps
<1>3. OtherTypes'
      BY <1>1, <1>2 DEF OtherTypes, Logging, FeedEndsDay, Batch
<1>4. UNCHANGED <<mode, today, rdbs>>
      BY <1>1
<1> HIDE DEF s
<1>5. CASE s.err \/ ~s.up
  <2>1. Becomes(s)
        BY <1>1, <1>5
  <2> QED
      BY <1>2, <1>3, <1>4, <2>1, KeptNext
<1>6. CASE ~(s.err \/ ~s.up)
  <2> DEFINE n == Log(Accept(s, m), m)
  <2>1. Becomes(n)
        BY <1>1, <1>6
  <2>2. Kept(n)
        BY <1>2, <1>6, LogKeeps
  <2> HIDE DEF n
  <2> QED
      BY <1>2, <1>3, <1>4, <2>1, <2>2, KeptNext
<1> QED
    BY <1>5, <1>6

(* The timer event.                                                        *)
LEMMA TimerStep ==
  ASSUME PlantAssumption, Inv, Timer
  PROVE  Inv'
<1>1. up /\ Becomes(OnTimer(Plant)) /\ UNCHANGED <<mode, today, torn, rdbs, sent, crashes>>
      BY DEF Timer
<1>2. RdbTypes /\ OtherTypes /\ Kept(OnTimer(Plant))
      BY <1>1, PlantIs, OnTimerKeeps
<1>3. OtherTypes' /\ UNCHANGED <<mode, today, rdbs>>
      BY <1>1, <1>2 DEF OtherTypes, Logging, FeedEndsDay, Batch
<1> QED
    BY <1>1, <1>2, <1>3, KeptNext

(* The feed ends the day.                                                  *)
LEMMA FeedEndofdayStep ==
  ASSUME PlantAssumption, Inv, FeedEndofday
  PROVE  Inv'
<1>1. /\ FeedEndsDay /\ up /\ d <= LastDay /\ Becomes(Endofday(Plant))
      /\ UNCHANGED <<mode, today, torn, rdbs, sent, crashes>>
      BY DEF FeedEndofday
<1>2. RdbTypes /\ OtherTypes /\ Kept(Plant) /\ Sound(Plant)
      /\ Plant.up /\ Plant.d <= LastDay
      BY <1>1, PlantIs
<1>3. Logging => Plant.buf = Empty
      BY <1>1, <1>2 DEF OtherTypes, Sound
<1>4. Kept(Endofday(Plant))
      BY <1>1, <1>2, <1>3, EndofdayKeeps
<1>5. OtherTypes' /\ UNCHANGED <<mode, today, rdbs>>
      BY <1>1, <1>2 DEF OtherTypes, Logging, FeedEndsDay, Batch
<1> QED
    BY <1>1, <1>2, <1>4, <1>5, KeptNext

(* The bound on what is lost of a connection is a number.                  *)
LEMMA DiesKeeps ==
  ASSUME PlantAssumption, RdbTypes, OtherTypes, NEW s, Sound(s),
         Logging => Past(s), NEW keep \in Keeps, Dies(s, keep)
  PROVE  /\ Kept(Dead(Cut(s, keep))) /\ Becomes(Dead(Cut(s, keep)))
         /\ ~(Logging /\ FeedEndsDay) /\ crashes' \in 0 .. MaxCrashes
<1>1. keep \in Nat
  <2>1. keep \in 0 .. Cardinality(Messages) + LastDay
        BY DEF Keeps
  <2> QED
      BY <2>1
<1>2. /\ crashes < MaxCrashes /\ crashes' = crashes + 1
      /\ Becomes(Dead(Cut(s, keep)))
      BY DEF Dies
<1>3. MaxCrashes \in Nat /\ crashes \in 0 .. MaxCrashes
      BY DEF PlantAssumption, OtherTypes
<1>4. ~(Logging /\ FeedEndsDay) /\ crashes' \in 0 .. MaxCrashes
      BY <1>2, <1>3 DEF OtherTypes
<1>5. Sound(Cut(s, keep)) /\ (Logging => Past(Cut(s, keep)))
      BY <1>1, CutKeeps
<1>6. Kept(Dead(Cut(s, keep)))
      BY <1>4, <1>5, DeadKeeps
<1> QED
    BY <1>2, <1>4, <1>6

(* The plant dies between two events                                       *)
LEMMA CrashStep ==
  ASSUME PlantAssumption, Inv, Crash
  PROVE  Inv'
<1>1. PICK keep \in Keeps : Dies(Plant, keep)
      BY DEF Crash
<1>2. UNCHANGED <<mode, today, torn, rdbs, sent>>
      BY DEF Crash
<1>3. /\ RdbTypes /\ OtherTypes
      /\ Kept(Dead(Cut(Plant, keep))) /\ Becomes(Dead(Cut(Plant, keep)))
      /\ ~(Logging /\ FeedEndsDay) /\ crashes' \in 0 .. MaxCrashes
      BY <1>1, PlantIs, DiesKeeps
<1>4. OtherTypes' /\ UNCHANGED <<mode, today, rdbs>>
      BY <1>2, <1>3 DEF OtherTypes, Logging, FeedEndsDay, Batch
<1> QED
    BY <1>3, <1>4, KeptNext

(* or before it has logged a message.                                      *)
LEMMA CrashInUpdStep ==
  ASSUME PlantAssumption, Inv, NEW m \in Messages, CrashInUpd(m)
  PROVE  Inv'
<1> DEFINE s == BeforeUpd(Plant, m)
<1>1. /\ up /\ s.up /\ sent' = sent \cup {m}
      /\ torn' = torn \/ torn' = [torn EXCEPT ![s.d] = TRUE]
      /\ UNCHANGED <<mode, today, rdbs>>
      BY DEF CrashInUpd
<1>2. PICK keep \in Keeps : Dies(Accept(s, m), keep)
      BY DEF CrashInUpd
<1>3. RdbTypes /\ OtherTypes /\ Kept(s)
      BY <1>1, PlantIs, BeforeUpdKeeps
<1> HIDE DEF s
<1>4. Sound(Accept(s, m)) /\ (Logging => Past(Accept(s, m)))
      BY <1>1, <1>3, AcceptKeeps
<1> DEFINE n == Dead(Cut(Accept(s, m), keep))
<1>5. Kept(n) /\ Becomes(n) /\ ~(Logging /\ FeedEndsDay) /\ crashes' \in 0 .. MaxCrashes
      BY <1>2, <1>3, <1>4, DiesKeeps
<1>6. OtherTypes'
      BY <1>1, <1>3, <1>5 DEF OtherTypes, Logging, FeedEndsDay, Batch
<1> HIDE DEF n
<1> QED
    BY <1>1, <1>3, <1>5, <1>6, KeptNext

(* The plant starts again and opens the log of the day.                    *)
LEMMA RestartStep ==
  ASSUME PlantAssumption, Inv, Restart
  PROVE  Inv'
<1> DEFINE s == [Plant EXCEPT !.up = TRUE, !.timer = TRUE, !.d = today]
           o == IF Logging THEN Ld(s) ELSE s
<1>1. ~up /\ Becomes(o) /\ UNCHANGED <<mode, today, torn, rdbs, sent, crashes>>
      BY DEF Restart
<1>2. /\ RdbTypes /\ OtherTypes /\ Plant \in PlantStates /\ Sound(Plant)
      /\ Logging => Past(Plant)
      /\ ~Plant.up
      BY <1>1, PlantIs
<1>3. today \in Days /\ today \in Int
      BY <1>2 DEF OtherTypes, Days, PlantAssumption
<1>4. /\ s \in PlantStates /\ s.up = TRUE /\ s.d = today
      /\ s.buf = Plant.buf /\ s.i = Plant.i /\ s.j = Plant.j /\ s.w = Plant.w
      /\ s.log = Plant.log /\ s.chan = Plant.chan
      BY <1>2, <1>3 DEF PlantStates
<1> HIDE DEF s
<1>5. s.buf = Empty /\ \A t \in Tables : s.w[t] = {}
      BY <1>2, <1>4 DEF Sound
<1>6. Sound(s)
      BY <1>2, <1>3, <1>4, <1>5 DEF Sound
<1>7. ASSUME Logging
      PROVE  Kept(Ld(s))
  <2>1. ~FeedEndsDay /\ Plant.d <= today /\ Plant.d \in Int
    <3>1. Plant.d \in Days
          BY <1>2 DEF PlantStates
    <3> QED
        BY <1>2, <1>7, <3>1 DEF Sound, Days
  <2>2. PastOf(Plant.d, s.log, s.chan)
        BY <1>2, <1>4, <1>7, PastIs
  <2>3. ASSUME NEW r \in Rdbs, hand[r] # NoHandle
        PROVE  EndsWhole(r, s.chan[hand[r]], today, s.log)
    <3>1. s.chan[hand[r]] \in Seq(Items)
          BY <1>2, <1>4, <2>3, HandIs DEF PlantStates
    <3>2. EndsWhole(r, s.chan[hand[r]], Plant.d, s.log)
          BY <2>2, <2>3 DEF PastOf
    <3> DEFINE c == s.chan[hand[r]]
               x == Plant.d
               lg == s.log
    <3> HIDE DEF c, x, lg
    <3>3. EndsWhole(r, c, today, lg)
          BY <1>3, <2>1, <3>1, <3>2, EndsWholeLater DEF c, x, lg
    <3> QED
        BY <3>3 DEF c, lg
  <2>4. PastOf(today, s.log, s.chan)
    <3>1. \A y \in Days : y \in Int
          BY DEF Days
    <3>2. \A y \in Days : y > today => y > Plant.d
          BY <1>3, <2>1, <3>1
    <3>3. \A y \in Days : y < Plant.d => y < today
          BY <1>3, <2>1, <3>1
    <3> QED
        BY <2>2, <2>3, <3>2, <3>3 DEF PastOf
  <2>5. Past(s)
        BY <1>4, <2>4, PastIs
  <2>6. Kept(Ld(s))
        BY <1>4, <1>5, <1>6, <1>7, <2>1, <2>5, LdKeeps
  <2> QED
      BY <2>6
<1>8. ~Logging => Kept(s)
      BY <1>6 DEF Kept
<1>9. Kept(o)
      BY <1>7, <1>8
<1>10. OtherTypes'
       BY <1>1, <1>2 DEF OtherTypes, Logging, FeedEndsDay, Batch
<1> HIDE DEF o
<1> QED
    BY <1>1, <1>2, <1>9, <1>10, KeptNext

(* The operator repairs a log.                                             *)
LEMMA TruncateStep ==
  ASSUME PlantAssumption, Inv, NEW x \in Days, Truncate(x)
  PROVE  Inv'
<1>1. /\ torn' = [torn EXCEPT ![x] = FALSE]
      /\ UNCHANGED <<mode, today, plant, rdbs, sent, crashes>>
      BY DEF Truncate
<1>2. RdbTypes /\ OtherTypes /\ Kept(Plant)
      BY PlantIs
<1>3. OtherTypes'
      BY <1>1, <1>2 DEF OtherTypes, Logging, FeedEndsDay, Batch
<1>4. Becomes(Plant) /\ UNCHANGED <<mode, today, rdbs>>
      BY <1>1 DEF Becomes, Plant, plant
<1> QED
    BY <1>2, <1>3, <1>4, KeptNext

(* Fewer subscribers agree with the log when more do.                      *)
LEMMA AgreesLess ==
  ASSUME NEW s, NEW n, Agrees(s),
         n.log = s.log, n.d = s.d, n.chan = s.chan, n.buf = s.buf,
         \A r \in Rdbs, t \in Tables : hand[r] \in n.w[t] => hand[r] \in s.w[t]
  PROVE  Agrees(n)
BY DEF Agrees

(* The plant notices that a connection is closed.                          *)
LEMMA ClosedStep ==
  ASSUME PlantAssumption, Inv, NEW h \in Handles, Closed(h)
  PROVE  Inv'
<1> DEFINE v == [t \in Tables |-> w[t] \ {h}]
           n == [Plant EXCEPT !.w = v]
<1>1. /\ up /\ w' = v
      /\ UNCHANGED <<mode, today, up, timer, d, i, j, buf, log, chan, torn,
                     rdbs, sent, crashes>>
      BY DEF Closed
<1>2. /\ RdbTypes /\ OtherTypes /\ Plant \in PlantStates /\ Sound(Plant) /\ Kept(Plant)
      /\ Plant.w = w
      BY PlantIs
<1>3. v \in [Tables -> SUBSET Handles] /\ \A t \in Tables : v[t] = w[t] \ {h}
      BY <1>2 DEF PlantStates
<1>4. Becomes(n)
      BY <1>1, <1>2 DEF Becomes, Plant
<1> HIDE DEF v
<1>5. /\ n \in PlantStates /\ n.w = v
      /\ n.up = Plant.up /\ n.d = Plant.d /\ n.i = Plant.i /\ n.j = Plant.j
      /\ n.buf = Plant.buf /\ n.log = Plant.log /\ n.chan = Plant.chan
      BY <1>2, <1>3 DEF PlantStates
<1> HIDE DEF n
<1>6. Sound(n)
  <2>1. \A t, u \in Tables : n.w[t] = n.w[u]
    <3>1. \A t, u \in Tables : w[t] = w[u]
          BY <1>2 DEF Sound
    <3>2. \A t \in Tables : n.w[t] = w[t] \ {h}
          BY <1>3, <1>5
    <3> SUFFICES ASSUME NEW t \in Tables, NEW u \in Tables PROVE n.w[t] = n.w[u]
        OBVIOUS
    <3>3. w[t] = w[u] /\ n.w[t] = w[t] \ {h} /\ n.w[u] = w[u] \ {h}
          BY <3>1, <3>2
    <3> QED
        BY <3>3
  <2>2. Plant.up
        BY <1>1 DEF Plant
  <2> QED
      BY <1>2, <1>5, <2>1, <2>2, ZenonT(40) DEF Sound
<1>7. Logging => Past(n)
      BY <1>2, <1>5, PastIs DEF Kept
<1>8. Logging /\ n.up => Counted(n)
      BY <1>2, <1>5 DEF Kept, Counted
<1>9. Logging /\ n.up => Agrees(n)
  <2>1. \A r \in Rdbs, t \in Tables : hand[r] \in n.w[t] => hand[r] \in Plant.w[t]
        BY <1>2, <1>3, <1>5
  <2>2. Logging /\ n.up => Agrees(Plant)
        BY <1>2, <1>5 DEF Kept
  <2> QED
      BY <1>5, <2>1, <2>2, AgreesLess
<1>10. Kept(n)
       BY <1>6, <1>7, <1>8, <1>9 DEF Kept
<1>11. OtherTypes'
       BY <1>1, <1>2 DEF OtherTypes, Logging, FeedEndsDay, Batch
<1> QED
    BY <1>1, <1>2, <1>4, <1>10, <1>11, KeptNext

(* Midnight leaves the day of the plant behind.                            *)
LEMMA MidnightStep ==
  ASSUME PlantAssumption, Inv, Midnight
  PROVE  Inv'
<1>1. /\ today < LastDay /\ today' = today + 1
      /\ UNCHANGED <<mode, plant, torn, rdbs, sent, crashes>>
      BY DEF Midnight
<1>2. RdbTypes /\ OtherTypes /\ Sound(Plant) /\ Kept(Plant)
      BY PlantIs
<1>3. OtherTypes'
      BY <1>1, <1>2 DEF OtherTypes, Logging, FeedEndsDay, Batch, PlantAssumption
<1>4. Plant' = Plant
      BY <1>1 DEF Plant, plant
<1>5. ~FeedEndsDay => Plant.d <= today'
  <2>1. Plant.d \in Int /\ today \in Int
        BY <1>2 DEF OtherTypes, Sound, PlantStates, Days
  <2> QED
      BY <1>1, <1>2, <2>1 DEF Sound
<1>6. /\ mode' = mode /\ rdb' = rdb /\ hand' = hand /\ sync' = sync /\ rows' = rows
      /\ saved' = saved
      BY <1>1 DEF rdbs
<1>7. Sound(Plant)'
      BY <1>2, <1>4, <1>5, <1>6 DEF Sound, Held, Batch, Logging, FeedEndsDay
<1>8. RdbTypes'
      BY <1>2, <1>6 DEF RdbTypes, Logging
<1>9. Past(Plant)' <=> Past(Plant)
      BY <1>4, <1>6 DEF Past, CopyOf
<1>10. Counted(Plant)' <=> Counted(Plant)
       BY <1>4, <1>6 DEF Counted, Batch
<1>11. Agrees(Plant)' <=> Agrees(Plant)
       BY <1>4, <1>6 DEF Agrees, CopyOf
<1>12. Kept(Plant)'
       BY <1>2, <1>4, <1>6, <1>7, <1>9, <1>10, <1>11 DEF Kept, Logging
<1> QED
    BY <1>3, <1>8, <1>12 DEF Inv

-----------------------------------------------------------------------------
(* The RDBs                                                                *)

(* The invariant, as what is so of the plant and of every RDB.             *)
Later == \A x \in Days : x > d => log[x] = << >>
Savings ==
  \A x \in Days : \A tables \in saved[x] :
    x < d /\ \A t \in Tables : tables[t] = OfTable(log[x], t)
Good(r) ==
  /\ rdb[r] = "replay" => sync[r].n <= Len(log[sync[r].day])
  /\ hand[r] # NoHandle => EndsWhole(r, chan[hand[r]], d, log)
  /\ up => \A t \in Tables : hand[r] \in w[t] =>
       After(CopyOf(r, log, t), chan[hand[r]], t) \o buf[t] = OfTable(log[d], t)
Parts ==
  /\ RdbTypes /\ OtherTypes /\ Sound(Plant)
  /\ Logging => Later /\ Savings /\ \A r \in Rdbs : Good(r)
  /\ Logging /\ up => Counted(Plant)

(* The invariant, with what it says of each RDB apart.                     *)
LEMMA InvIs == Inv <=> Parts
<1>1. /\ Plant.up = up /\ Plant.d = d /\ Plant.buf = buf
      /\ Plant.w = w /\ Plant.log = log /\ Plant.chan = chan
      BY DEF Plant
<1>2. Past(Plant) <=> PastOf(d, log, chan)
      BY <1>1, PastIs
<1>3. Agrees(Plant) <=>
         \A r \in Rdbs, t \in Tables : hand[r] \in w[t] =>
           After(CopyOf(r, log, t), chan[hand[r]], t) \o buf[t] = OfTable(log[d], t)
      BY <1>1 DEF Agrees
<1>4. ASSUME Inv
      PROVE  Parts
  <2>1. RdbTypes /\ OtherTypes /\ Sound(Plant)
        BY <1>4 DEF Inv, Kept
  <2>2. Logging => PastOf(d, log, chan)
        BY <1>2, <1>4 DEF Inv, Kept
  <2>3. Logging /\ up => Counted(Plant) /\ Agrees(Plant)
        BY <1>1, <1>4 DEF Inv, Kept
  <2>4. Logging => Later /\ Savings
        BY <2>2 DEF PastOf, Later, Savings
  <2>5. ASSUME Logging, NEW r \in Rdbs
        PROVE  Good(r)
        BY <1>3, <2>2, <2>3, <2>5 DEF PastOf, Good
  <2> QED
      BY <2>1, <2>3, <2>4, <2>5 DEF Parts
<1>5. ASSUME Parts
      PROVE  Inv
  <2>1. Logging => PastOf(d, log, chan)
        BY <1>5 DEF Parts, Later, Savings, Good, PastOf
  <2>2. Logging /\ up => Agrees(Plant)
        BY <1>3, <1>5 DEF Parts, Good
  <2> QED
      BY <1>1, <1>2, <1>5, <2>1, <2>2 DEF Parts, Inv, Kept
<1> QED
    BY <1>4, <1>5

(* A step of another RDB changes nothing for this one.                     *)
LEMMA GoodSame ==
  ASSUME NEW r, Good(r), UNCHANGED <<up, d, buf, log>>,
         rdb'[r] = rdb[r], hand'[r] = hand[r], sync'[r] = sync[r],
         rows'[r] = rows[r],
         hand[r] # NoHandle => chan'[hand[r]] = chan[hand[r]],
         \A t \in Tables : hand[r] \in w'[t] => hand[r] \in w[t] /\ hand[r] # NoHandle
  PROVE  Good(r)'
<1>1. \A lg, t : CopyOf(r, lg, t)' = CopyOf(r, lg', t)
      BY DEF CopyOf
<1> QED
    BY <1>1, ZenonT(40) DEF Good, EndsWhole

(* What is so of an RDB is about its copy of the tables.                   *)
LEMMA GoodCopies ==
  ASSUME NEW r, Good(r), UNCHANGED <<up, d, buf, log, chan, w, hand>>,
         rdb'[r] # "replay",
         \A t \in Tables : CopyOf(r, log, t)' = CopyOf(r, log, t)
  PROVE  Good(r)'
<1> DEFINE c == chan[hand[r]]
           lg == log
<1>1. \A t \in Tables : CopyOf(r, log, t)' = CopyOf(r, lg, t)
      OBVIOUS
<1>2. /\ hand[r] # NoHandle => EndsWhole(r, c, d, lg)
      /\ up => \A t \in Tables : hand[r] \in w[t] =>
           After(CopyOf(r, lg, t), c, t) \o buf[t] = OfTable(lg[d], t)
      BY DEF Good
<1>3. (chan[hand[r]])' = c /\ log' = lg
      OBVIOUS
<1> HIDE DEF c, lg
<1>4. hand[r] # NoHandle => EndsWhole(r, chan[hand[r]], d, log)'
      BY <1>1, <1>2, <1>3 DEF EndsWhole
<1>5. up => \A t \in Tables : hand[r] \in w[t] =>
        After(CopyOf(r, log, t)', c, t) \o buf[t] = OfTable(lg[d], t)
      BY <1>1, <1>2
<1> QED
    BY <1>3, <1>4, <1>5 DEF Good

(* What it takes that a step of an RDB keeps the invariant.                *)
LEMMA RdbKeeps ==
  ASSUME Inv, UNCHANGED <<mode, today, up, timer, d, i, j, buf, log, torn, sent, crashes>>,
         RdbTypes', w' \in [Tables -> SUBSET Handles],
         \A t, u \in Tables : w'[t] = w'[u],
         ~up => \A t \in Tables : w'[t] = {},
         chan' \in [Handles -> Seq(Items)],
         \A h \in Handles : h \notin Held' => chan'[h] = << >>,
         Logging => Savings' /\ \A r \in Rdbs : Good(r)'
  PROVE  Inv'
<1>1. Parts
      BY InvIs
<1>2. OtherTypes'
      BY <1>1 DEF Parts, OtherTypes, Logging, FeedEndsDay, Batch
<1>3. Sound(Plant)'
  <2>1. Sound(Plant) /\ Plant \in PlantStates
        BY <1>1 DEF Parts, Sound
  <2> DEFINE v == w'
             c == chan'
             n == [up |-> up, timer |-> timer, d |-> d, i |-> i, j |-> j, buf |-> buf,
                   w |-> v, log |-> log, chan |-> c, err |-> FALSE]
  <2>2. Plant' = n
    <3>1. /\ up' = up /\ timer' = timer /\ d' = d /\ i' = i /\ j' = j
          /\ buf' = buf /\ log' = log
          OBVIOUS
    <3>2. Plant' = [up |-> up, timer |-> timer, d |-> d, i |-> i, j |-> j, buf |-> buf,
                    w |-> w', log |-> log, chan |-> chan', err |-> FALSE]
          BY <3>1 DEF Plant
    <3> QED
        BY <3>2
  <2>3. v \in [Tables -> SUBSET Handles] /\ c \in [Handles -> Seq(Items)]
        OBVIOUS
  <2> HIDE DEF v, c
  <2>4. /\ n \in PlantStates /\ n.w = v /\ n.chan = c
        /\ n.up = Plant.up /\ n.d = Plant.d /\ n.i = Plant.i /\ n.j = Plant.j
        /\ n.buf = Plant.buf /\ n.log = Plant.log
    <3>1. /\ up \in BOOLEAN /\ timer \in BOOLEAN /\ d \in Days /\ i \in Nat /\ j \in Nat
          /\ buf \in Contents /\ log \in [Days -> Seq(Messages)]
          BY <2>1 DEF PlantStates, Plant
    <3>2. n \in PlantStates
          BY <2>3, <3>1 DEF PlantStates
    <3> QED
        BY <3>2 DEF Plant
  <2> HIDE DEF n
  <2>5. /\ \A h \in Handles : h \notin Held' => n.chan[h] = << >>
        /\ \A t, u \in Tables : n.w[t] = n.w[u]
        /\ ~n.up => \A t \in Tables : n.w[t] = {}
        BY <2>4 DEF v, c, Plant
  <2>6. /\ ~n.up => n.buf = Empty
        /\ ~Batch => n.buf = Empty
        /\ ~Logging => n.i = 0 /\ n.j = 0
        /\ ~FeedEndsDay => n.d <= today
        /\ Logging /\ FeedEndsDay => n.up
        BY <2>1, <2>4, Zenon DEF Sound
  <2>7. mode' = mode /\ today' = today
        OBVIOUS
  <2> QED
      BY <2>2, <2>4, <2>5, <2>6, <2>7, Zenon DEF Sound, Batch, Logging, FeedEndsDay
<1>4. Logging => Later'
      BY <1>1 DEF Parts, Later
<1>5. Logging /\ up => Counted(Plant)'
  <2>1. /\ Plant'.i = Plant.i /\ Plant'.j = Plant.j /\ Plant'.log = Plant.log
        /\ Plant'.d = Plant.d /\ Plant'.buf = Plant.buf /\ mode' = mode
        BY DEF Plant
  <2>2. Counted(Plant) => Counted(Plant)'
        BY <2>1 DEF Counted, Batch
  <2> QED
      BY <1>1, <2>2 DEF Parts
<1>6. Parts'
      BY <1>2, <1>3, <1>4, <1>5 DEF Parts, Logging
<1>7. Inv' <=> Parts'
      BY InvIs, PTL
<1> QED
    BY <1>6, <1>7

(* Subscribers are connections, and all of them subscribe to every table.  *)
LEMMA SubscribersAre ==
  ASSUME Inv
  PROVE  /\ w \in [Tables -> SUBSET Handles]
         /\ \A t, u \in Tables : w[t] = w[u]
         /\ ~up => \A t \in Tables : w[t] = {}
         /\ chan \in [Handles -> Seq(Items)]
         /\ \A h \in Handles : h \notin Held => chan[h] = << >>
         /\ log \in [Days -> Seq(Messages)] /\ d \in Days /\ i \in Nat
         /\ buf \in Contents
         /\ ~Batch => buf = Empty
         /\ ~Logging => i = 0
<1>1. Plant \in PlantStates /\ Sound(Plant)
      BY PlantIs
<1>2. /\ Plant.up = up /\ Plant.w = w /\ Plant.chan = chan /\ Plant.log = log
      /\ Plant.d = d /\ Plant.i = i /\ Plant.buf = buf
      BY PlantIs
<1>3. /\ Plant.w \in [Tables -> SUBSET Handles] /\ Plant.chan \in [Handles -> Seq(Items)]
      /\ Plant.log \in [Days -> Seq(Messages)] /\ Plant.d \in Days /\ Plant.i \in Nat
      /\ Plant.buf \in Contents
      BY <1>1 DEF PlantStates
<1> QED
    BY <1>1, <1>2, <1>3 DEF Sound

(* An RDB that is down is nobody's subscriber.                             *)
LEMMA NoHandleIs ==
  ASSUME PlantAssumption, Inv, NEW t \in Tables
  PROVE  NoHandle \notin w[t]
<1>1. w[t] \subseteq Handles
      BY SubscribersAre
<1> QED
    BY <1>1 DEF PlantAssumption

(* The messages an RDB replays are rows of its tables.                     *)
LEMMA ReplaysRows ==
  ASSUME Inv, NEW r \in Rdbs, rdb[r] = "replay"
  PROVE  /\ Replayed(r) \in Contents
         /\ \A t \in Tables : Replayed(r)[t] = CopyOf(r, log, t)
<1>1. RdbTypes /\ log \in [Days -> Seq(Messages)] /\ Parts
      BY SubscribersAre, InvIs DEF Parts
<1>2. sync[r].n <= Len(log[sync[r].day])
  <2>1. CASE Logging
        BY <1>1, <2>1 DEF Parts, Good
  <2>2. CASE ~Logging
    <3>1. sync[r].n = 0 /\ sync[r].day \in Days
          BY <1>1, <2>2 DEF RdbTypes
    <3>2. Len(log[sync[r].day]) \in Nat
          BY <1>1, <3>1, LenProperties
    <3> QED
        BY <3>1, <3>2
  <2> QED
      BY <2>1, <2>2
<1>3. \A t \in Tables : Replayed(r)[t] = CopyOf(r, log, t)
      BY DEF Replayed, CopyOf
<1>4. \A t \in Tables : CopyOf(r, log, t) \in RowsOf(t) /\ CopyOf(r, log, t) \in Seq(Messages)
      BY <1>1, <1>2, CopyType
<1> DEFINE f == Replayed(r)
<1>5. f = [t \in Tables |-> f[t]]
      BY DEF Replayed
<1>6. \A t \in Tables : f[t] \in RowsOf(t) /\ f[t] \in Seq(Messages)
      BY <1>3, <1>4
<1> HIDE DEF f
<1>7. f \in [Tables -> Seq(Messages)]
      BY <1>5, <1>6
<1>8. f \in Contents
      BY <1>6, <1>7 DEF Contents
<1> QED
    BY <1>3, <1>8 DEF f

(* An RDB that has replayed the log has what it was to replay.             *)
LEMMA ReplayStep ==
  ASSUME PlantAssumption, Inv, NEW r \in Rdbs, Replay(r)
  PROVE  Inv'
<1> DEFINE f == Replayed(r)
<1>1. /\ rdb[r] = "replay"
      /\ rows' = [rows EXCEPT ![r] = f]
      /\ rdb' = [rdb EXCEPT ![r] = "live"]
      /\ UNCHANGED <<mode, today, plant, torn, hand, sync, saved, sent, crashes>>
      BY DEF Replay
<1>2. f \in Contents /\ \A t \in Tables : f[t] = CopyOf(r, log, t)
      BY <1>1, ReplaysRows
<1> HIDE DEF f
<1>3. RdbTypes /\ Parts
      BY InvIs DEF Parts
<1>4. RdbTypes'
  <2>1. rows' \in [Rdbs -> Contents] /\ rdb' \in [Rdbs -> {"down", "replay", "live"}]
        BY <1>1, <1>2, <1>3 DEF RdbTypes
  <2>2. \A q \in Rdbs : rdb'[q] = "down" <=> hand'[q] = NoHandle
        BY <1>1, <1>3 DEF RdbTypes
  <2> QED
      BY <1>1, <1>3, <2>1, <2>2 DEF RdbTypes, Logging
<1>5. ASSUME Logging, NEW q \in Rdbs
      PROVE  Good(q)'
  <2>1. Good(q)
        BY <1>3, <1>5 DEF Parts
  <2>2. UNCHANGED <<up, d, buf, log, chan, w, hand, sync>>
        BY <1>1 DEF plant
  <2>3. CASE q # r
    <3>1. rdb'[q] = rdb[q] /\ rows'[q] = rows[q]
          BY <1>1, <1>3, <2>3 DEF RdbTypes
    <3>2. \A t \in Tables : hand[q] \in w[t] => hand[q] # NoHandle
          BY NoHandleIs
    <3> QED
        BY <2>1, <2>2, <3>1, <3>2, GoodSame
  <2>4. CASE q = r
    <3>1. rdb'[r] = "live" /\ rows'[r] = f
          BY <1>1, <1>3 DEF RdbTypes
    <3>2. \A t \in Tables : CopyOf(r, log, t)' = CopyOf(r, log, t)
          BY <1>2, <3>1 DEF CopyOf
    <3> QED
        BY <2>1, <2>2, <2>4, <3>1, <3>2, GoodCopies
  <2> QED
      BY <2>3, <2>4
<1>6. Logging => Savings'
      BY <1>1, <1>3 DEF Parts, Savings, plant
<1>7. Held' = Held
      BY <1>1 DEF Held
<1>8. UNCHANGED <<mode, today, up, timer, d, i, j, buf, log, torn, sent, crashes, w, chan>>
      BY <1>1 DEF plant
<1> QED
    BY <1>4, <1>5, <1>6, <1>7, <1>8, SubscribersAre, RdbKeeps

(* A new subscriber replays what is published of the day, and what is      *)
(* buffered comes later: it agrees with the log.                           *)
LEMMA SubscribeStep ==
  ASSUME PlantAssumption, Inv, NEW r \in Rdbs, NEW h \in Handles, Subscribe(r, h)
  PROVE  Inv'
<1>1. /\ rdb[r] = "down" /\ up
      /\ \A q \in Rdbs : hand[q] # h
      /\ \A t \in Tables : h \notin w[t]
      /\ w' = [t \in Tables |-> w[t] \cup {h}]
      /\ hand' = [hand EXCEPT ![r] = h]
      /\ sync' = [sync EXCEPT ![r] = [n |-> i, day |-> d]]
      /\ rdb' = [rdb EXCEPT ![r] = "replay"]
      /\ UNCHANGED <<mode, today, up, timer, d, i, j, buf, log, chan, torn,
                     rows, saved, sent, crashes>>
      BY DEF Subscribe, SyncCount
<1>2. RdbTypes /\ Parts
      BY InvIs DEF Parts
<1>3. /\ w \in [Tables -> SUBSET Handles]
      /\ \A t, u \in Tables : w[t] = w[u]
      /\ \A g \in Handles : g \notin Held => chan[g] = << >>
      /\ log \in [Days -> Seq(Messages)] /\ d \in Days /\ i \in Nat
      /\ buf \in Contents
      /\ ~Batch => buf = Empty
      /\ ~Logging => i = 0
      BY SubscribersAre
<1>4. h # NoHandle /\ hand[r] = NoHandle
      BY <1>1, <1>2 DEF PlantAssumption, RdbTypes
<1>5. /\ hand'[r] = h /\ rdb'[r] = "replay" /\ sync'[r] = [n |-> i, day |-> d]
      /\ \A q \in Rdbs : q # r => /\ hand'[q] = hand[q] /\ rdb'[q] = rdb[q]
                                  /\ sync'[q] = sync[q]
      BY <1>1, <1>2 DEF RdbTypes
<1>6. RdbTypes'
  <2>1. /\ rdb' \in [Rdbs -> {"down", "replay", "live"}]
        /\ hand' \in [Rdbs -> Handles \cup {NoHandle}]
        /\ rows' \in [Rdbs -> Contents]
        /\ saved' \in [Days -> SUBSET Contents]
        BY <1>1, <1>2 DEF RdbTypes
  <2>2. sync' \in [Rdbs -> [n : Nat, day : Days]]
        BY <1>1, <1>2, <1>3 DEF RdbTypes
  <2>3. \A q \in Rdbs : rdb'[q] = "down" <=> hand'[q] = NoHandle
        BY <1>2, <1>4, <1>5, SMTT(40) DEF RdbTypes
  <2>4. \A p, q \in Rdbs : hand'[p] = hand'[q] /\ hand'[p] # NoHandle => p = q
        BY <1>1, <1>2, <1>5 DEF RdbTypes
  <2>5. ~Logging' => \A q \in Rdbs : sync'[q].n = 0
        BY <1>1, <1>2, <1>3, <1>5 DEF RdbTypes, Logging
  <2> QED
      BY <2>1, <2>2, <2>3, <2>4, <2>5 DEF RdbTypes
<1>7. \A t \in Tables : w'[t] = w[t] \cup {h}
      BY <1>1
<1>8. w' \in [Tables -> SUBSET Handles] /\ \A t, u \in Tables : w'[t] = w'[u]
  <2>1. w' \in [Tables -> SUBSET Handles]
        BY <1>1, <1>3
  <2>2. ASSUME NEW t \in Tables, NEW u \in Tables
        PROVE  w'[t] = w'[u]
    <3>1. w[t] = w[u] /\ w'[t] = w[t] \cup {h} /\ w'[u] = w[u] \cup {h}
          BY <1>3, <1>7
    <3> QED
        BY <3>1
  <2> QED
      BY <2>1, <2>2
<1>9. \A g \in Handles : g \in Held => g \in Held'
  <2> SUFFICES ASSUME NEW g \in Handles, NEW q \in Rdbs, hand[q] = g
               PROVE  g \in Held'
      BY DEF Held
  <2>1. g # NoHandle
        BY DEF PlantAssumption
  <2>2. hand'[q] = g
        BY <1>4, <1>5, <2>1
  <2> QED
      BY <2>2 DEF Held
<1>10. ASSUME Logging, NEW q \in Rdbs
       PROVE  Good(q)'
  <2>1. \A p \in Rdbs : Good(p)
        BY <1>2, <1>10 DEF Parts
  <2>2. CASE q # r
    <3>1. \A t \in Tables : hand[q] \in w'[t] => hand[q] \in w[t]
          BY <1>1, <1>7
    <3>2. \A t \in Tables : hand[q] \in w[t] => hand[q] # NoHandle
          BY NoHandleIs
    <3>3. /\ rdb'[q] = rdb[q] /\ hand'[q] = hand[q] /\ sync'[q] = sync[q]
          /\ rows'[q] = rows[q] /\ chan' = chan
          /\ UNCHANGED <<up, d, buf, log>>
          BY <1>1, <1>5, <2>2
    <3> QED
        BY <2>1, <3>1, <3>2, <3>3, GoodSame
  <2>3. CASE q = r
    <3> DEFINE l == log[d]
               p == SubSeq(l, 1, i)
    <3>1. h \notin Held
          BY <1>1 DEF Held
    <3>2. chan[h] = << >> /\ Ends(<< >>) = {}
          BY <1>3, <3>1 DEF Ends
    <3>3. Counted(Plant)
          BY <1>1, <1>2, <1>10 DEF Parts
    <3>4. l \in Seq(Messages) /\ Len(l) \in Nat /\ \A t \in Tables : buf[t] \in Seq(Messages)
          BY <1>3, LenProperties DEF Contents
    <3>5. i <= Len(l)
      <4>1. Plant.i = i /\ Plant.j = j /\ Plant.d = d /\ Plant.log = log
            BY DEF Plant
      <4>2. CASE Batch
        <5>1. i <= j /\ j = Len(l)
              BY <3>3, <4>1, <4>2 DEF Counted
        <5> QED
            BY <5>1
      <4>3. CASE ~Batch
        <5>1. i = Len(l)
              BY <3>3, <4>1, <4>3 DEF Counted
        <5> HIDE DEF l
        <5> QED
            BY <3>4, <5>1
      <4> QED
          BY <4>2, <4>3
    <3>6. p \in Seq(Messages)
      <4>1. \A k \in 1 .. i : k \in 1 .. Len(l)
            BY <1>3, <3>4, <3>5
      <4> HIDE DEF l
      <4>2. \A k \in 1 .. i : l[k] \in Messages
            BY <3>4, <4>1, ElementOfSeq
      <4> QED
          BY <1>3, <4>2, SubSeqProperties
    <3>7. \A t \in Tables : OfTable(p, t) \o buf[t] = OfTable(l, t)
      <4>1. CASE Batch
            BY <3>3, <4>1 DEF Counted, Plant
      <4>2. CASE ~Batch
        <5>1. i = Len(l)
              BY <3>3, <4>2 DEF Counted, Plant
        <5>2. SubSeq(l, 1, Len(l)) = l
              BY <3>4, SubSeqFull
        <5>3. p = l
              BY <5>1, <5>2
        <5>4. \A t \in Tables : buf[t] = << >>
              BY <1>3, <4>2, EmptyIs
        <5> HIDE DEF p, l
        <5>5. \A t \in Tables : OfTable(l, t) \in Seq(Messages)
              BY <3>4, OfTableType
        <5> QED
            BY <5>3, <5>4, <5>5, NoMore
      <4> QED
          BY <4>1, <4>2
    <3>8. \A t \in Tables : CopyOf(r, log, t)' = OfTable(p, t)
          BY <1>1, <1>5 DEF CopyOf
    <3> HIDE DEF p
    <3>9. \A t \in Tables : After(OfTable(p, t), << >>, t) = OfTable(p, t)
      <4>1. \A t \in Tables : OfTable(p, t) \in Seq(Messages)
            BY <3>6, OfTableType
      <4> QED
          BY <4>1, AfterNone
    <3>10. (chan[hand[r]])' = << >> /\ (log[d])' = l /\ (log[sync[r].day])' = l
           BY <1>1, <1>5, <3>2
    <3>11. EndsWhole(r, << >>, d, log)'
           BY <3>2 DEF EndsWhole
    <3>12. \A t \in Tables :
              After(CopyOf(r, log, t)', << >>, t) \o buf[t] = OfTable(l, t)
           BY <3>7, <3>8, <3>9
    <3>13. (sync[r].n <= Len(log[sync[r].day]))'
           BY <1>5, <3>5, <3>10
    <3> HIDE DEF l
    <3> QED
        BY <1>1, <2>3, <3>10, <3>11, <3>12, <3>13 DEF Good
  <2> QED
      BY <2>2, <2>3
<1>11. Logging => Savings'
       BY <1>1, <1>2 DEF Parts, Savings
<1>12. /\ UNCHANGED <<mode, today, up, timer, d, i, j, buf, log, torn, sent, crashes>>
       /\ up /\ chan' = chan /\ chan \in [Handles -> Seq(Items)]
       BY <1>1, SubscribersAre
<1> QED
    BY <1>3, <1>6, <1>8, <1>9, <1>10, <1>11, <1>12, RdbKeeps

(* An RDB that dies has nothing any more.                                  *)
LEMMA RdbDiesStep ==
  ASSUME PlantAssumption, Inv, NEW r \in Rdbs, RdbDies(r)
  PROVE  Inv'
<1>1. /\ rdb[r] # "down"
      /\ rdb' = [rdb EXCEPT ![r] = "down"]
      /\ hand' = [hand EXCEPT ![r] = NoHandle]
      /\ rows' = [rows EXCEPT ![r] = Empty]
      /\ chan' = [chan EXCEPT ![hand[r]] = << >>]
      /\ UNCHANGED <<mode, today, up, timer, d, i, j, buf, w, log, torn, sync,
                     saved, sent, crashes>>
      BY DEF RdbDies
<1>2. RdbTypes /\ Parts
      BY InvIs DEF Parts
<1>3. /\ w \in [Tables -> SUBSET Handles]
      /\ \A t, u \in Tables : w[t] = w[u]
      /\ ~up => \A t \in Tables : w[t] = {}
      /\ chan \in [Handles -> Seq(Items)]
      /\ \A g \in Handles : g \notin Held => chan[g] = << >>
      BY SubscribersAre
<1>4. hand[r] # NoHandle /\ hand[r] \in Handles
      BY <1>1, <1>2 DEF RdbTypes
<1>5. /\ hand'[r] = NoHandle /\ rdb'[r] = "down"
      /\ \A q \in Rdbs : q # r => /\ hand'[q] = hand[q] /\ rdb'[q] = rdb[q]
                                  /\ rows'[q] = rows[q]
      BY <1>1, <1>2 DEF RdbTypes
<1>6. RdbTypes'
  <2>1. /\ rdb' \in [Rdbs -> {"down", "replay", "live"}]
        /\ hand' \in [Rdbs -> Handles \cup {NoHandle}]
        /\ sync' = sync /\ saved' = saved
        BY <1>1, <1>2 DEF RdbTypes
  <2>2. rows' \in [Rdbs -> Contents]
        BY <1>1, <1>2, EmptyIs DEF RdbTypes
  <2>3. \A q \in Rdbs : rdb'[q] = "down" <=> hand'[q] = NoHandle
        BY <1>2, <1>5 DEF RdbTypes
  <2>4. \A p, q \in Rdbs : hand'[p] = hand'[q] /\ hand'[p] # NoHandle => p = q
        BY <1>2, <1>5 DEF RdbTypes
  <2>5. ~Logging' => \A q \in Rdbs : sync'[q].n = 0
        BY <1>1, <1>2 DEF RdbTypes, Logging
  <2> QED
      BY <1>2, <2>1, <2>2, <2>3, <2>4, <2>5 DEF RdbTypes
<1>7. chan' \in [Handles -> Seq(Items)]
  <2>1. << >> \in Seq(Items)
        BY EmptySeq
  <2> QED
      BY <1>1, <1>3, <2>1
<1>8. \A g \in Handles : g # hand[r] => chan'[g] = chan[g]
      BY <1>1, <1>3
<1>9. chan'[hand[r]] = << >>
      BY <1>1, <1>3, <1>4
<1>10. \A g \in Handles : g \notin Held' => chan'[g] = << >>
  <2> SUFFICES ASSUME NEW g \in Handles, g \notin Held' PROVE chan'[g] = << >>
      OBVIOUS
  <2>1. CASE g = hand[r]
        BY <1>9, <2>1
  <2>2. CASE g # hand[r]
    <3>1. g \notin Held
      <4> SUFFICES ASSUME NEW q \in Rdbs, hand[q] = g PROVE FALSE
          BY DEF Held
      <4>1. q # r /\ hand'[q] = g
            BY <1>5, <2>2
      <4> QED
          BY <4>1 DEF Held
    <3> QED
        BY <1>3, <1>8, <2>2, <3>1
  <2> QED
      BY <2>1, <2>2
<1>11. ASSUME Logging, NEW q \in Rdbs
       PROVE  Good(q)'
  <2>1. Good(q)
        BY <1>2, <1>11 DEF Parts
  <2>2. \A t \in Tables : NoHandle \notin w[t]
        BY NoHandleIs
  <2>3. CASE q # r
    <3>1. \A t \in Tables : hand[q] \in w[t] => hand[q] # NoHandle
          BY <2>2
    <3>2. hand[q] # NoHandle => hand[q] \in Handles /\ hand[q] # hand[r]
          BY <1>2, <1>4, <2>3 DEF RdbTypes
    <3>3. /\ rdb'[q] = rdb[q] /\ hand'[q] = hand[q] /\ sync'[q] = sync[q]
          /\ rows'[q] = rows[q] /\ w' = w
          /\ hand[q] # NoHandle => chan'[hand[q]] = chan[hand[q]]
          /\ UNCHANGED <<up, d, buf, log>>
          BY <1>1, <1>5, <1>8, <2>3, <3>2
    <3> QED
        BY <2>1, <3>1, <3>3, GoodSame
  <2>4. CASE q = r
    <3>1. \A t \in Tables : ~(hand'[r] \in w'[t])
          BY <1>1, <1>5, <2>2
    <3> QED
        BY <1>5, <2>4, <3>1 DEF Good
  <2> QED
      BY <2>3, <2>4
<1>12. Logging => Savings'
       BY <1>1, <1>2 DEF Parts, Savings
<1>13. UNCHANGED <<mode, today, up, timer, d, i, j, buf, log, torn, sent, crashes>>
       /\ w' = w
       BY <1>1
<1> QED
    BY <1>3, <1>6, <1>7, <1>10, <1>11, <1>12, <1>13, RdbKeeps

-----------------------------------------------------------------------------
(* An RDB takes an item of its connection                                  *)

(* What it has of table t when it had q before item x.                     *)
Read(q, x, t) == IF x.kind = "end" THEN << >> ELSE Cat(q, RowsFor(t)[x])

(* What it will have stays the same.                                       *)
LEMMA AfterRead ==
  ASSUME NEW t, NEW q \in Seq(Messages), NEW c \in Seq(Items), c # << >>
  PROVE  After(Read(q, Head(c), t), Tail(c), t) = After(q, c, t)
<1>1. Head(c) \in Items
      BY HeadTailProperties
<1>2. CASE Head(c).kind = "end"
  <2>1. Read(q, Head(c), t) = << >>
        BY <1>2 DEF Read
  <2> QED
      BY <1>2, <2>1, AfterSave
<1>3. CASE Head(c).kind = "upd"
  <2>1. Read(q, Head(c), t) = Cat(q, RowsFor(t)[Head(c)])
        BY <1>3 DEF Read
  <2> QED
      BY <1>3, <2>1, AfterInsert
<1> QED
    BY <1>1, <1>2, <1>3, ItemIs

(* So does what it will have at a later end of a day.                      *)
LEMMA AfterReadBefore ==
  ASSUME NEW t, NEW q \in Seq(Messages), NEW c \in Seq(Items), c # << >>,
         NEW k \in Ends(Tail(c))
  PROVE  /\ k + 1 \in Ends(c) /\ Tail(c)[k] = c[k + 1]
         /\ After(Read(q, Head(c), t), SubSeq(Tail(c), 1, k - 1), t) =
              After(q, SubSeq(c, 1, (k + 1) - 1), t)
<1>1. k \in Nat /\ k # 0 /\ k + 1 \in Ends(c) /\ Tail(c)[k] = c[k + 1]
      BY EndsOfTail
<1>2. Len(c) \in Nat /\ k + 1 \in 1 .. Len(c)
      BY <1>1, LenProperties DEF Ends
<1> DEFINE p == SubSeq(c, 1, k)
<1>3. 1 \in 1 .. Len(c) /\ k \in 1 .. Len(c)
      BY <1>1, <1>2
<1>4. Head(p) = c[1] /\ Tail(p) = SubSeq(c, 1 + 1, k)
      BY <1>3, HeadTailOfSubSeq
<1>5. \A n \in 1 .. k : c[n] \in Items
  <2>1. \A n \in 1 .. k : n \in 1 .. Len(c)
        BY <1>2, <1>1
  <2> QED
      BY <2>1, ElementOfSeq
<1>6. p \in Seq(Items) /\ Len(p) = k
  <2>1. /\ p \in Seq(Items)
        /\ Len(p) = IF 1 <= k THEN k - 1 + 1 ELSE 0
        BY <1>1, <1>5, SubSeqProperties
  <2> HIDE DEF p
  <2> QED
      BY <1>1, <2>1
<1>7. p # << >>
  <2> HIDE DEF p
  <2> QED
      BY <1>1, <1>6, EmptySeq
<1>8. SubSeq(Tail(c), 1, k - 1) = SubSeq(c, 1 + 1, (k - 1) + 1)
  <2>1. k - 1 \in Nat /\ k - 1 <= Len(c) - 1
        BY <1>1, <1>2
  <2> QED
      BY <2>1, SubSeqOfTail
<1>9. (k - 1) + 1 = k /\ (k + 1) - 1 = k
      BY <1>1
<1>10. Tail(p) = SubSeq(Tail(c), 1, k - 1) /\ Head(p) = Head(c)
  <2>1. Head(c) = c[1]
        OBVIOUS
  <2> HIDE DEF p
  <2> QED
      BY <1>4, <1>8, <1>9, <2>1
<1>11. p = SubSeq(c, 1, (k + 1) - 1)
      BY <1>9
<1> DEFINE v == SubSeq(Tail(c), 1, k - 1)
           u == SubSeq(c, 1, (k + 1) - 1)
<1> HIDE DEF p, u, v
<1>12. After(Read(q, Head(p), t), Tail(p), t) = After(q, p, t)
      BY <1>6, <1>7, AfterRead
<1>13. Tail(p) = v /\ Head(p) = Head(c) /\ p = u
      BY <1>10, <1>11 DEF u, v
<1>14. After(Read(q, Head(c), t), v, t) = After(q, u, t)
      BY <1>12, <1>13
<1> QED
    BY <1>1, <1>14 DEF u, v

(* Tables f show all of each day that ends among the items c.              *)
Shows(f, c, x, lg) ==
  \A k \in Ends(c) :
    /\ c[k].day < x
    /\ \A t \in Tables :
         After(f[t], SubSeq(c, 1, k - 1), t) = OfTable(lg[c[k].day], t)

(* If the next item ends a day, they are all of that day.                  *)
ShowsNext(f, e, x, lg) ==
  e.kind = "end" =>
    /\ e.day < x
    /\ \A t \in Tables : f[t] = OfTable(lg[e.day], t)

(* They do after an item, and if it ends a day they were all of it.        *)
LEMMA ShowsRead ==
  ASSUME NEW f \in [Tables -> Seq(Messages)], NEW g, NEW x, NEW lg,
         NEW c \in Seq(Items), c # << >>, Shows(f, c, x, lg),
         \A t \in Tables : g[t] = Read(f[t], Head(c), t)
  PROVE  Shows(g, Tail(c), x, lg) /\ ShowsNext(f, Head(c), x, lg)
<1>1. ASSUME NEW k \in Ends(Tail(c))
      PROVE  /\ Tail(c)[k].day < x
             /\ \A t \in Tables :
                  After(g[t], SubSeq(Tail(c), 1, k - 1), t) =
                    OfTable(lg[Tail(c)[k].day], t)
  <2>1. k + 1 \in Ends(c) /\ Tail(c)[k] = c[k + 1]
        BY EndsOfTail
  <2> DEFINE n == k + 1
             u == SubSeq(c, 1, n - 1)
             v == SubSeq(Tail(c), 1, k - 1)
  <2>2. c[n].day < x /\ \A t \in Tables : After(f[t], u, t) = OfTable(lg[c[n].day], t)
        BY <2>1 DEF Shows
  <2>3. \A t \in Tables : After(Read(f[t], Head(c), t), v, t) = After(f[t], u, t)
    <3> SUFFICES ASSUME NEW t \in Tables
                 PROVE  After(Read(f[t], Head(c), t), v, t) = After(f[t], u, t)
        OBVIOUS
    <3> DEFINE q == f[t]
    <3>1. q \in Seq(Messages)
          OBVIOUS
    <3> HIDE DEF q
    <3>2. After(Read(q, Head(c), t), v, t) = After(q, u, t)
          BY <3>1, AfterReadBefore
    <3> QED
        BY <3>2 DEF q
  <2>4. c[n] = Tail(c)[k]
        BY <2>1
  <2> HIDE DEF u, v, n
  <2>5. \A t \in Tables : After(g[t], v, t) = OfTable(lg[Tail(c)[k].day], t)
        BY <2>2, <2>3, <2>4
  <2>6. Tail(c)[k].day < x
        BY <2>2, <2>4
  <2> QED
      BY <2>5, <2>6 DEF v
<1>2. ASSUME Head(c).kind = "end"
      PROVE  /\ Head(c).day < x
             /\ \A t \in Tables : f[t] = OfTable(lg[Head(c).day], t)
  <2> DEFINE e == c[1]
             u == SubSeq(c, 1, 1 - 1)
  <2>1. 1 \in Ends(c) /\ Head(c) = e
        BY <1>2, EndsOfTail
  <2>2. e.day < x /\ \A t \in Tables : After(f[t], u, t) = OfTable(lg[e.day], t)
        BY <2>1 DEF Shows
  <2>3. u = << >>
        BY SubSeqEmpty
  <2> HIDE DEF e, u
  <2>4. \A t \in Tables : After(f[t], << >>, t) = f[t]
        BY AfterNone
  <2> QED
      BY <2>1, <2>2, <2>3, <2>4
<1>3. Shows(g, Tail(c), x, lg)
  <2> DEFINE b == Tail(c)
  <2>1. \A k \in Ends(b) :
          /\ b[k].day < x
          /\ \A t \in Tables : After(g[t], SubSeq(b, 1, k - 1), t) = OfTable(lg[b[k].day], t)
        BY <1>1
  <2> HIDE DEF b
  <2>2. Shows(g, b, x, lg)
        BY <2>1, Zenon DEF Shows
  <2> QED
      BY <2>2 DEF b
<1> QED
    BY <1>2, <1>3 DEF ShowsNext

(* Inserting rows into the tables f.                                       *)
Insert(f, x) == [f EXCEPT ![x.table] = Cat(f[x.table], x.rows)]

(* They are rows of their tables, and what the item makes of each.         *)
LEMMA InsertIs ==
  ASSUME NEW f \in Contents, NEW x \in Items, x.kind = "upd"
  PROVE  /\ Insert(f, x) \in Contents
         /\ \A t \in Tables : Insert(f, x)[t] = Read(f[t], x, t)
<1>1. /\ x.table \in Tables /\ x.rows \in RowsOf(x.table)
      /\ x.rows \in Seq(Messages)
      BY ItemIs
<1>2. /\ f \in [Tables -> Seq(Messages)]
      /\ \A t \in Tables : f[t] \in RowsOf(t) /\ f[t] \in Seq(Messages)
      BY DEF Contents
<1> DEFINE q == f[x.table]
           e == Cat(q, x.rows)
<1>3. q \in RowsOf(x.table)
      BY <1>1, <1>2
<1>4. e \in RowsOf(x.table) /\ e \in Seq(Messages)
  <2>1. e \in RowsOf(x.table)
        BY <1>1, <1>3, RowsOfTable
  <2> QED
      BY <2>1 DEF RowsOf
<1>5. Insert(f, x) = [f EXCEPT ![x.table] = e]
      BY DEF Insert
<1>6. \A t \in Tables : Insert(f, x)[t] = IF t = x.table THEN e ELSE f[t]
      BY <1>1, <1>2, <1>5
<1>7. Insert(f, x) \in [Tables -> Seq(Messages)]
  <2> HIDE DEF e
  <2> QED
      BY <1>2, <1>4, <1>5
<1>8. Insert(f, x) \in Contents
  <2>1. \A t \in Tables : Insert(f, x)[t] \in RowsOf(t)
    <3> HIDE DEF e
    <3> QED
        BY <1>2, <1>4, <1>6
  <2> QED
      BY <1>7, <2>1 DEF Contents
<1>9. ASSUME NEW t \in Tables
      PROVE  Insert(f, x)[t] = Read(f[t], x, t)
  <2>1. CASE t = x.table
    <3>1. RowsFor(t)[x] = x.rows
          BY <2>1 DEF RowsFor
    <3>2. Insert(f, x)[t] = e
          BY <1>6, <2>1
    <3> QED
        BY <2>1, <3>1, <3>2 DEF Read
  <2>2. CASE t # x.table
    <3>1. RowsFor(t)[x] = << >>
          BY <2>2 DEF RowsFor
    <3>2. Insert(f, x)[t] = f[t]
          BY <1>6, <2>2
    <3> DEFINE p == f[t]
    <3>3. p \in Seq(Messages)
          BY <1>2
    <3> HIDE DEF p
    <3>4. Cat(p, << >>) = p
          BY <3>3, ConcatEmptySeq DEF Cat
    <3>5. Read(p, x, t) = p
          BY <3>1, <3>4 DEF Read
    <3> QED
        BY <3>2, <3>5 DEF p
  <2> QED
      BY <2>1, <2>2
<1> QED
    BY <1>8, <1>9

(* What a live RDB has in its tables and has saved when it took item x of  *)
(* its connection, on which c were.                                        *)
Takes(r, c, x) ==
  /\ hand[r] \in Handles /\ hand[r] # NoHandle
  /\ c \in Seq(Items) /\ c # << >> /\ x \in Items
  /\ rows \in [Rdbs -> Contents] /\ rows' \in [Rdbs -> Contents]
  /\ \A q \in Rdbs : q # r => rows'[q] = rows[q]
  /\ \A t \in Tables : rows'[r][t] = Read(rows[r][t], x, t)
  /\ \/ saved' = saved
     \/ /\ x.kind = "end" /\ x.day \in Days
        /\ saved' = [saved EXCEPT ![x.day] = @ \cup {rows[r]}]

(* A live RDB takes the next item of its connection.                       *)
LEMMA ReceiveIs ==
  ASSUME Inv, NEW r \in Rdbs, Receive(r),
         NEW c, c = chan[hand[r]], NEW x, x = Head(c)
  PROVE  Takes(r, c, x)
<1>1. rdb[r] = "live" /\ c # << >>
      BY Zenon DEF Receive
<1>2. RdbTypes
      BY DEF Inv
<1>3. hand[r] \in Handles /\ hand[r] # NoHandle
  <2>1. rdb[r] # "down"
        BY <1>1
  <2> QED
      BY <1>2, <2>1 DEF RdbTypes
<1>4. c \in Seq(Items)
      BY <1>3, SubscribersAre
<1>5. x \in Items
      BY <1>1, <1>4, HeadTailProperties
<1>6. rows \in [Rdbs -> Contents]
      BY <1>2 DEF RdbTypes
<1> DEFINE Done == /\ rows' \in [Rdbs -> Contents]
                   /\ \A q \in Rdbs : q # r => rows'[q] = rows[q]
                   /\ \A t \in Tables : rows'[r][t] = Read(rows[r][t], x, t)
                   /\ \/ saved' = saved
                      \/ /\ x.kind = "end" /\ x.day \in Days
                         /\ saved' = [saved EXCEPT ![x.day] = @ \cup {rows[r]}]
<1>7. ASSUME x.kind = "upd"
      PROVE  Done
  <2> DEFINE g == Insert(rows[r], x)
  <2>1. rows' = [rows EXCEPT ![r] = g] /\ saved' = saved
    <3>1. rows' = [rows EXCEPT ![r][x.table] = @ \o x.rows] /\ saved' = saved
          BY <1>7, Zenon DEF Receive
    <3>2. rows' = [rows EXCEPT ![r] =
                     [rows[r] EXCEPT ![x.table] = rows[r][x.table] \o x.rows]]
          BY <3>1
    <3> QED
        BY <3>1, <3>2, Zenon DEF Insert, Cat
  <2>2. g \in Contents /\ \A t \in Tables : g[t] = Read(rows[r][t], x, t)
    <3> DEFINE f == rows[r]
    <3>1. f \in Contents
          BY <1>6
    <3> HIDE DEF f
    <3>2. /\ Insert(f, x) \in Contents
          /\ \A t \in Tables : Insert(f, x)[t] = Read(f[t], x, t)
          BY <1>5, <1>7, <3>1, InsertIs
    <3> QED
        BY <3>2 DEF f
  <2> HIDE DEF g
  <2>3. rows' \in [Rdbs -> Contents] /\ rows'[r] = g
        BY <1>6, <2>1, <2>2
  <2>4. \A q \in Rdbs : q # r => rows'[q] = rows[q]
        BY <1>6, <2>1
  <2> QED
      BY <2>1, <2>2, <2>3, <2>4
<1>8. ASSUME x.kind = "end"
      PROVE  Done
  <2>1. /\ rows' = [rows EXCEPT ![r] = Empty]
        /\ saved' = [saved EXCEPT ![x.day] = @ \cup {rows[r]}]
        BY <1>8, Zenon DEF Receive
  <2>2. x.day \in Days
        BY <1>5, <1>8, ItemIs
  <2>3. rows' \in [Rdbs -> Contents] /\ rows'[r] = Empty
        BY <1>6, <2>1, EmptyIs
  <2>4. \A q \in Rdbs : q # r => rows'[q] = rows[q]
        BY <1>6, <2>1
  <2>5. \A t \in Tables : rows'[r][t] = Read(rows[r][t], x, t)
        BY <1>8, <2>3, EmptyIs DEF Read
  <2> QED
      BY <1>8, <2>1, <2>2, <2>3, <2>4, <2>5
<1>9. Done
      BY <1>5, <1>7, <1>8, ItemIs
<1> QED
    BY <1>1, <1>3, <1>4, <1>5, <1>6, <1>9 DEF Takes

(* What an RDB has, what it will have at each end of a day and what it     *)
(* will have in the end stay as they are when it takes an item.            *)
LEMMA ReceiveStep ==
  ASSUME PlantAssumption, Inv, NEW r \in Rdbs, Receive(r)
  PROVE  Inv'
<1> PICK c : c = chan[hand[r]]
    OBVIOUS
<1> PICK x : x = Head(c)
    OBVIOUS
<1>1. /\ rdb[r] = "live"
      /\ chan' = [chan EXCEPT ![hand[r]] = Tail(@)]
      /\ UNCHANGED <<mode, today, up, timer, d, i, j, buf, w, log, torn, rdb,
                     hand, sync, sent, crashes>>
      BY Zenon DEF Receive
<1>2. /\ hand[r] \in Handles /\ hand[r] # NoHandle
      /\ c \in Seq(Items) /\ c # << >> /\ x \in Items
      /\ rows \in [Rdbs -> Contents] /\ rows' \in [Rdbs -> Contents]
      /\ \A q \in Rdbs : q # r => rows'[q] = rows[q]
      /\ \A t \in Tables : rows'[r][t] = Read(rows[r][t], x, t)
      /\ \/ saved' = saved
         \/ /\ x.kind = "end" /\ x.day \in Days
            /\ saved' = [saved EXCEPT ![x.day] = @ \cup {rows[r]}]
  <2>1. Takes(r, c, x)
        BY ReceiveIs
  <2> QED
      BY <2>1, Zenon DEF Takes
<1>3. RdbTypes /\ Parts
      BY InvIs DEF Parts
<1>4. /\ chan \in [Handles -> Seq(Items)]
      /\ \A g \in Handles : g \notin Held => chan[g] = << >>
      /\ w \in [Tables -> SUBSET Handles] /\ \A t, u \in Tables : w[t] = w[u]
      /\ ~up => \A t \in Tables : w[t] = {}
      BY SubscribersAre
<1>5. Tail(c) \in Seq(Items)
      BY <1>2, HeadTailProperties
<1>6. /\ chan' \in [Handles -> Seq(Items)] /\ chan'[hand[r]] = Tail(c)
      /\ \A g \in Handles : g # hand[r] => chan'[g] = chan[g]
  <2> DEFINE b == Tail(c)
  <2>1. chan' = [chan EXCEPT ![hand[r]] = b]
        BY <1>1
  <2> HIDE DEF b
  <2> QED
      BY <1>2, <1>4, <1>5, <2>1 DEF b
<1>7. Held' = Held /\ hand[r] \in Held
      BY <1>1 DEF Held
<1>8. \A g \in Handles : g \notin Held' => chan'[g] = << >>
  <2>1. \A g \in Handles : g \notin Held => g # hand[r]
        BY <1>7
  <2> QED
      BY <1>4, <1>6, <1>7, <2>1
<1>9. RdbTypes'
  <2>1. saved' \in [Days -> SUBSET Contents]
    <3>1. saved \in [Days -> SUBSET Contents] /\ rows[r] \in Contents
          BY <1>2, <1>3 DEF RdbTypes
    <3> QED
        BY <1>2, <3>1
  <2>2. UNCHANGED <<mode, rdb, hand, sync>>
        BY <1>1
  <2> QED
      BY <1>2, <1>3, <2>1, <2>2 DEF RdbTypes, Logging
<1>10. ASSUME Logging
       PROVE  /\ Shows(rows'[r], Tail(c), d, log)
              /\ x.kind = "end" =>
                   /\ x.day < d
                   /\ \A t \in Tables : rows[r][t] = OfTable(log[x.day], t)
  <2>1. EndsWhole(r, c, d, log)
        BY <1>2, <1>3, <1>10 DEF Parts, Good
  <2>2. \A t : CopyOf(r, log, t) = rows[r][t]
        BY <1>1 DEF CopyOf
  <2> DEFINE f == rows[r]
  <2>3. Shows(f, c, d, log)
        BY <2>1, <2>2 DEF EndsWhole, Shows
  <2>4. f \in [Tables -> Seq(Messages)]
        BY <1>2 DEF Contents
  <2> DEFINE g == rows'[r]
  <2>5. \A t \in Tables : g[t] = Read(f[t], Head(c), t)
        BY <1>2
  <2> HIDE DEF f, g
  <2>6. c \in Seq(Items) /\ c # << >>
        BY <1>2
  <2>7. Shows(g, Tail(c), d, log)
        BY <2>3, <2>4, <2>5, <2>6, ShowsRead
  <2>8. ShowsNext(f, Head(c), d, log)
        BY <2>3, <2>4, <2>5, <2>6, ShowsRead
  <2> QED
      BY <2>7, <2>8 DEF f, g, ShowsNext
<1>11. Logging => Savings'
  <2> SUFFICES ASSUME Logging, NEW y \in Days, NEW tables \in saved'[y]
               PROVE  y < d /\ \A t \in Tables : tables[t] = OfTable(log[y], t)
      BY <1>1 DEF Savings
  <2>1. CASE tables \in saved[y]
        BY <1>3, <2>1 DEF Parts, Savings
  <2>2. CASE tables \notin saved[y]
    <3>1. saved \in [Days -> SUBSET Contents]
          BY <1>3 DEF RdbTypes
    <3>2. x.kind = "end" /\ y = x.day /\ tables = rows[r]
          BY <1>2, <2>2, <3>1
    <3> QED
        BY <1>10, <3>2
  <2> QED
      BY <2>1, <2>2
<1>12. ASSUME Logging, NEW q \in Rdbs
       PROVE  Good(q)'
  <2>1. Good(q)
        BY <1>3, <1>12 DEF Parts
  <2>2. \A t \in Tables : hand[q] \in w[t] => hand[q] # NoHandle
        BY NoHandleIs
  <2>3. CASE q # r
    <3>1. /\ rdb'[q] = rdb[q] /\ hand'[q] = hand[q] /\ sync'[q] = sync[q]
          /\ rows'[q] = rows[q]
          /\ UNCHANGED <<up, d, buf, log, w>>
          BY <1>1, <1>2, <2>3
    <3>2. hand[q] # NoHandle => chan'[hand[q]] = chan[hand[q]]
          BY <1>3, <1>6, <2>3 DEF RdbTypes
    <3> QED
        BY <2>1, <2>2, <3>1, <3>2, GoodSame
  <2>4. CASE q = r
    <3> DEFINE b == Tail(c)
               l == log[d]
    <3>1. /\ rdb'[r] = "live" /\ hand'[r] = hand[r] /\ d' = d /\ log' = log
          /\ up' = up /\ buf' = buf /\ w' = w /\ (chan[hand[r]])' = b
          /\ (log[d])' = l
          BY <1>1, <1>6
    <3>2. \A t : CopyOf(r, log, t)' = rows'[r][t]
          BY <3>1 DEF CopyOf
    <3>3. Shows(rows'[r], b, d, log)
          BY <1>10, <1>12
    <3> HIDE DEF b
    <3>4. EndsWhole(r, b, d, log)'
          BY <3>1, <3>2, <3>3 DEF EndsWhole, Shows
    <3>5. ASSUME up, NEW t \in Tables, hand[r] \in w[t]
          PROVE  After(rows'[r][t], b, t) \o buf[t] = OfTable(l, t)
      <4>1. CopyOf(r, log, t) = rows[r][t]
            BY <1>1 DEF CopyOf
      <4> DEFINE f == rows[r][t]
                 g == rows'[r][t]
      <4>2. After(f, c, t) \o buf[t] = OfTable(l, t)
            BY <2>1, <2>4, <3>5, <4>1 DEF Good
      <4>3. f \in Seq(Messages) /\ g = Read(f, Head(c), t)
            BY <1>2 DEF Contents
      <4> HIDE DEF f, g
      <4>4. After(g, b, t) = After(f, c, t)
            BY <1>2, <4>3, AfterRead DEF b
      <4> QED
          BY <4>2, <4>4 DEF g
    <3> HIDE DEF l
    <3> QED
        BY <2>4, <3>1, <3>2, <3>4, <3>5 DEF Good
  <2> QED
      BY <2>3, <2>4
<1>13. /\ UNCHANGED <<mode, today, up, timer, d, i, j, buf, log, torn, sent, crashes>>
       /\ w' \in [Tables -> SUBSET Handles] /\ \A t, u \in Tables : w'[t] = w'[u]
       /\ ~up => \A t \in Tables : w'[t] = {}
       BY <1>1, <1>4
<1> QED
    BY <1>6, <1>8, <1>9, <1>11, <1>12, <1>13, RdbKeeps

-----------------------------------------------------------------------------
(* The invariant holds                                                     *)

(* A feed that ends days itself does so without batches, which may be      *)
(* buffered when it does, and with a plant that never dies, which would go *)
(* back to a day that was ended.                                           *)
NoEarlyEnds ==
  \A m \in Modes : m.feedEnds /\ m.logging => ~m.batch /\ MaxCrashes = 0

(* It holds when the plant has started.                                    *)
LEMMA InvInit ==
  ASSUME PlantAssumption, NoEarlyEnds, Init
  PROVE  Inv
<1>1. /\ mode \in Modes /\ today = 1 /\ d = 1 /\ up = TRUE /\ timer = TRUE
      /\ i = 0 /\ j = 0 /\ buf = Empty
      /\ w = [t \in Tables |-> {}]
      /\ log = [x \in Days |-> << >>]
      /\ torn = [x \in Days |-> FALSE]
      /\ chan = [h \in Handles |-> << >>]
      /\ rdb = [r \in Rdbs |-> "down"]
      /\ hand = [r \in Rdbs |-> NoHandle]
      /\ sync = [r \in Rdbs |-> [n |-> 0, day |-> 1]]
      /\ rows = [r \in Rdbs |-> Empty]
      /\ saved = [x \in Days |-> {}]
      /\ sent = {} /\ crashes = 0
      BY DEF Init
<1>2. LastDay \in Nat \ {0} /\ MaxCrashes \in Nat /\ 1 \in Days /\ 1 \in 1 .. LastDay
      BY DEF PlantAssumption, Days
<1>3. Empty \in Contents /\ \A t \in Tables : Empty[t] = << >>
      BY EmptyIs
<1>4. RdbTypes
      BY <1>1, <1>2, <1>3 DEF RdbTypes
<1>5. OtherTypes
      BY <1>1, <1>2 DEF OtherTypes, NoEarlyEnds, Logging, FeedEndsDay, Batch
<1>6. << >> \in Seq(Messages) /\ << >> \in Seq(Items)
      BY EmptySeq
<1>7. Sound(Plant)
  <2>1. Plant \in PlantStates
    <3>1. /\ w \in [Tables -> SUBSET Handles] /\ log \in [Days -> Seq(Messages)]
          /\ chan \in [Handles -> Seq(Items)] /\ buf \in Contents
          BY <1>1, <1>3, <1>6
    <3> QED
        BY <1>1, <1>2, <3>1 DEF Plant, PlantStates
  <2>2. /\ Plant.up = TRUE /\ Plant.buf = Empty /\ Plant.i = 0 /\ Plant.j = 0
        /\ Plant.d = 1 /\ Plant.chan = chan /\ Plant.w = w
        BY <1>1 DEF Plant
  <2>3. \A h \in Handles : h \notin Held => Plant.chan[h] = << >>
        BY <1>1, <2>2
  <2>4. \A t, u \in Tables : Plant.w[t] = Plant.w[u]
        BY <1>1, <2>2
  <2> QED
      BY <1>1, <2>1, <2>2, <2>3, <2>4 DEF Sound
<1>8. Later /\ Savings
      BY <1>1 DEF Later, Savings
<1>9. ASSUME NEW r \in Rdbs
      PROVE  Good(r)
  <2>1. rdb[r] = "down" /\ hand[r] = NoHandle /\ \A t \in Tables : w[t] = {}
        BY <1>1
  <2> QED
      BY <2>1 DEF Good
<1>10. Counted(Plant)
  <2> DEFINE l == << >>
  <2>1. /\ Plant.i = 0 /\ Plant.j = 0 /\ Plant.d = 1 /\ Plant.buf = Empty
        /\ Plant.log[1] = l
        BY <1>1, <1>2 DEF Plant
  <2>2. Len(l) = 0 /\ SubSeq(l, 1, 0) = l
        BY SubSeqEmpty
  <2>3. \A t \in Tables : OfTable(l, t) \o Empty[t] = OfTable(l, t)
    <3>1. l \o l = l
          BY <1>6, ConcatEmptySeq
    <3> QED
        BY <1>3, <3>1, OfTableEmpty
  <2> HIDE DEF l
  <2>4. \A t \in Tables : OfTable(SubSeq(l, 1, 0), t) \o Empty[t] = OfTable(l, t)
        BY <2>2, <2>3
  <2>5. 0 <= 0
        OBVIOUS
  <2> QED
      BY <2>1, <2>2, <2>4, <2>5 DEF Counted
<1> QED
    BY <1>4, <1>5, <1>7, <1>8, <1>9, <1>10, InvIs DEF Parts

(* Every step keeps it.                                                    *)
LEMMA InvNext ==
  ASSUME PlantAssumption, Inv, [Next]_vars
  PROVE  Inv'
<1>1. ASSUME NEW m \in Messages, FeedUpd(m)
      PROVE  Inv'
      BY <1>1, FeedUpdStep
<1>2. ASSUME NEW m \in Messages, CrashInUpd(m)
      PROVE  Inv'
      BY <1>2, CrashInUpdStep
<1>3. ASSUME Timer
      PROVE  Inv'
      BY <1>3, TimerStep
<1>4. ASSUME FeedEndofday
      PROVE  Inv'
      BY <1>4, FeedEndofdayStep
<1>5. ASSUME Midnight
      PROVE  Inv'
      BY <1>5, MidnightStep
<1>6. ASSUME Crash
      PROVE  Inv'
      BY <1>6, CrashStep
<1>7. ASSUME Restart
      PROVE  Inv'
      BY <1>7, RestartStep
<1>8. ASSUME NEW x \in Days, Truncate(x)
      PROVE  Inv'
      BY <1>8, TruncateStep
<1>9. ASSUME NEW r \in Rdbs, NEW h \in Handles, Subscribe(r, h)
      PROVE  Inv'
      BY <1>9, SubscribeStep
<1>10. ASSUME NEW r \in Rdbs, RdbStep(r)
       PROVE  Inv'
       BY <1>10, ReplayStep, ReceiveStep DEF RdbStep
<1>11. ASSUME NEW r \in Rdbs, RdbDies(r)
       PROVE  Inv'
       BY <1>11, RdbDiesStep
<1>12. ASSUME NEW h \in Handles, Closed(h)
       PROVE  Inv'
       BY <1>12, ClosedStep
<1>13. ASSUME UNCHANGED vars
       PROVE  Inv'
  <2>1. /\ UNCHANGED <<mode, today, up, timer, d, i, j, buf, log, torn, sent, crashes>>
        /\ UNCHANGED <<w, chan, rdb, hand, sync, rows, saved>>
        BY <1>13 DEF vars, plant, rdbs
  <2>2. RdbTypes /\ Parts
        BY InvIs DEF Parts
  <2>3. RdbTypes'
        BY <2>1, <2>2 DEF RdbTypes, Logging
  <2>4. Held' = Held
        BY <2>1 DEF Held
  <2>5. ASSUME Logging
        PROVE  Savings' /\ \A r \in Rdbs : Good(r)'
    <3>1. Savings'
          BY <2>1, <2>2, <2>5 DEF Parts, Savings
    <3>2. ASSUME NEW r \in Rdbs
          PROVE  Good(r)'
      <4>1. Good(r)
            BY <2>2, <2>5 DEF Parts
      <4>2. \A t \in Tables : hand[r] \in w[t] => hand[r] # NoHandle
            BY NoHandleIs
      <4> QED
          BY <2>1, <4>1, <4>2, GoodSame
    <3> QED
        BY <3>1, <3>2
  <2> QED
      BY <2>1, <2>3, <2>4, <2>5, SubscribersAre, RdbKeeps
<1> QED
    BY <1>1, <1>2, <1>3, <1>4, <1>5, <1>6, <1>7, <1>8, <1>9, <1>10, <1>11,
       <1>12, <1>13 DEF Next

(* What the properties say follows from it: the types,                     *)
LEMMA InvTypes ==
  ASSUME Inv
  PROVE  TypeOK
<1>1. /\ RdbTypes /\ OtherTypes /\ Plant \in PlantStates
      BY PlantIs
<1>2. /\ up \in BOOLEAN /\ timer \in BOOLEAN /\ d \in Days /\ i \in Nat /\ j \in Nat
      /\ buf \in Contents /\ w \in [Tables -> SUBSET Handles]
      /\ log \in [Days -> Seq(Messages)] /\ chan \in [Handles -> Seq(Items)]
      BY <1>1 DEF Plant, PlantStates
<1>3. \A f \in Contents : DOMAIN f = Tables /\ \A t \in Tables : IsRows(f[t], t)
      BY DEF Contents, RowsOf, IsRows
<1>4. ASSUME NEW x \in Items
      PROVE  IsItem(x)
  <2>1. CASE x.kind = "upd"
    <3>1. x.table \in Tables /\ x.rows \in RowsOf(x.table)
          BY <2>1, ItemIs
    <3>2. IsRows(x.rows, x.table)
          BY <3>1 DEF RowsOf, IsRows
    <3> QED
        BY <2>1, <3>1, <3>2 DEF IsItem
  <2>2. CASE x.kind = "end"
        BY <2>2, ItemIs DEF IsItem
  <2> QED
      BY <2>1, <2>2, ItemIs
<1>5. ASSUME NEW h \in Handles, NEW k \in DOMAIN chan[h]
      PROVE  IsItem(chan[h][k])
  <2> DEFINE c == chan[h]
  <2>1. c \in Seq(Items) /\ k \in DOMAIN c
        BY <1>2
  <2> HIDE DEF c
  <2>2. k \in 1 .. Len(c)
        BY <2>1, LenProperties
  <2>3. c[k] \in Items
        BY <2>1, <2>2, ElementOfSeq
  <2> QED
      BY <1>4, <2>3 DEF c
<1>6. \A r \in Rdbs : \A t \in Tables : IsRows(rows[r][t], t)
      BY <1>1, <1>3 DEF RdbTypes
<1> QED
    BY <1>1, <1>2, <1>3, <1>5, <1>6 DEF TypeOK, RdbTypes, OtherTypes

(* the counters, and                                                       *)
LEMMA InvCounters ==
  ASSUME Inv
  PROVE  CountersMatchLog
<1>1. ASSUME Logging, up
      PROVE  IF Batch
             THEN /\ j = Len(log[d])
                  /\ \A t \in Tables :
                       OfTable(SubSeq(log[d], 1, i), t) \o buf[t] = OfTable(log[d], t)
             ELSE i = Len(log[d])
  <2>1. Counted(Plant)
        BY <1>1, InvIs DEF Parts
  <2>2. Plant.i = i /\ Plant.j = j /\ Plant.d = d /\ Plant.log = log /\ Plant.buf = buf
        BY DEF Plant
  <2> QED
      BY <2>1, <2>2, Zenon DEF Counted
<1> QED
    BY <1>1, Zenon DEF CountersMatchLog

(* the copies of the RDBs.                                                 *)
LEMMA InvCopies ==
  ASSUME PlantAssumption, Inv
  PROVE  RdbFollowsLog
<1>1. ASSUME Logging, up, NEW r \in Rdbs, Connected(r), NEW t \in Tables
      PROVE  Today(r, t) \o buf[t] = OfTable(log[d], t)
  <2>1. hand[r] \in w[t]
        BY <1>1 DEF Connected
  <2>2. Copy(r)[t] = CopyOf(r, log, t)
    <3>1. CASE rdb[r] = "replay"
          BY <3>1, ReplaysRows DEF Copy
    <3>2. CASE rdb[r] # "replay"
          BY <3>2 DEF Copy, CopyOf
    <3> QED
        BY <3>1, <3>2
  <2>3. Today(r, t) = After(Copy(r)[t], chan[hand[r]], t)
        BY Zenon DEF Today, After
  <2>4. Good(r)
        BY <1>1, InvIs DEF Parts
  <2>5. After(CopyOf(r, log, t), chan[hand[r]], t) \o buf[t] = OfTable(log[d], t)
        BY <1>1, <2>1, <2>4 DEF Good
  <2> QED
      BY <2>2, <2>3, <2>5
<1> QED
    BY <1>1, Zenon DEF RdbFollowsLog

-----------------------------------------------------------------------------
(* The log of the day, the counters and what the RDBs have, are being sent *)
(* or will be sent agree in every state, whenever an RDB subscribes or     *)
(* dies and, unless the feed ends days, whenever the plant dies.           *)
THEOREM CopiesAgree == NoEarlyEnds => (Spec => []CopiesFollowLog)
<1> SUFFICES ASSUME NoEarlyEnds PROVE Spec => []CopiesFollowLog
    OBVIOUS
<1>1. Init => Inv
      BY PlantAssumption, InvInit
<1>2. Inv /\ [Next]_vars => Inv'
      BY PlantAssumption, InvNext
<1>3. Inv => CopiesFollowLog
      BY PlantAssumption, InvTypes, InvCounters, InvCopies DEF CopiesFollowLog
<1> QED
    BY <1>1, <1>2, <1>3, PTL DEF Spec

(* What an RDB saves at the end of a day is the log of that day, whatever  *)
(* was still on its way to it and wherever the plant died.                 *)
THEOREM WholeDaysAreSaved == NoEarlyEnds => (Spec => []EodSavesWholeDay)
<1> SUFFICES ASSUME NoEarlyEnds PROVE Spec => []EodSavesWholeDay
    OBVIOUS
<1>1. Init => Inv
      BY PlantAssumption, InvInit
<1>2. Inv /\ [Next]_vars => Inv'
      BY PlantAssumption, InvNext
<1>3. Inv => EodSavesWholeDay
  <2> SUFFICES ASSUME Inv, Logging PROVE Savings
      BY DEF EodSavesWholeDay, Savings
  <2> QED
      BY InvIs DEF Parts
<1> QED
    BY <1>1, <1>2, <1>3, PTL DEF Spec
=============================================================================
