--------------------------- MODULE SequenceLemmas ---------------------------
(***************************************************************************)
(* Induction over the natural numbers as a statement about sets of them,   *)
(* and what follows from it about concatenating the sequences of a         *)
(* sequence (FlattenSeq of SequencesExt).                                  *)
(***************************************************************************)
EXTENDS SequencesExt, SequenceTheorems, WellFoundedInduction, TLAPS

(* A set of natural numbers has a least element. *)
LEMMA LeastNatural ==
  ASSUME NEW T \in SUBSET Nat, T # {}
  PROVE  \E n \in T : \A m \in T : n =< m
<1> DEFINE Less == {p \in Nat \X Nat : p[1] < p[2]}
<1>1. IsWellFoundedOn(Less, Nat)
  BY NatLessThanWellFounded DEF OpToRel
<1> HIDE DEF Less
<1>2. PICK n \in T : \A m \in T : ~(<<m, n>> \in Less)
  BY <1>1, WFMin
<1>3. \A m \in T : ~(m < n)
  BY <1>2 DEF Less
<1> QED BY <1>3

LEMMA MinOf ==
  ASSUME NEW T \in SUBSET Nat, T # {}
  PROVE  Min(T) \in T /\ \A m \in T : Min(T) =< m
<1>1. \E n \in T : \A m \in T : n =< m
  BY LeastNatural
<1> QED BY <1>1 DEF Min

LEMMA MaxOf ==
  ASSUME NEW n \in Nat, NEW T \in SUBSET (0 .. n), T # {}
  PROVE  Max(T) \in T /\ \A m \in T : m =< Max(T)
<1> DEFINE U == {n - m : m \in T}
<1>1. U \in SUBSET Nat /\ U # {}
  <2>1. \A m \in T : n - m \in Nat
    OBVIOUS
  <2>2. PICK m \in T : TRUE
    OBVIOUS
  <2>3. n - m \in U
    OBVIOUS
  <2> QED BY <2>1, <2>3
<1>2. PICK u \in U : \A v \in U : u =< v
  <2> HIDE DEF U
  <2> QED BY <1>1, LeastNatural
<1>3. PICK g \in T : u = n - g
  BY <1>2
<1>4. \A m \in T : g >= m
  <2> SUFFICES ASSUME NEW m \in T
               PROVE  g >= m
    OBVIOUS
  <2>1. n - m \in U
    OBVIOUS
  <2>2. n - g =< n - m
    BY <1>2, <1>3, <2>1
  <2> QED BY <2>2
<1>5. \E x \in T : \A m \in T : x >= m
  BY <1>4
<1> QED BY <1>5 DEF Max

(* A set that has 0, and with each number the next, has them all. *)
LEMMA NaturalInduction ==
  ASSUME NEW T, 0 \in T, \A n \in Nat : n \in T => n + 1 \in T
  PROVE  \A n \in Nat : n \in T
<1> SUFFICES ASSUME NEW k \in Nat, k \notin T
             PROVE  FALSE
  OBVIOUS
<1> DEFINE Out == {n \in Nat : n \notin T}
<1>1. PICK n \in Out : \A m \in Out : n =< m
  <2>1. Out \in SUBSET Nat /\ Out # {}
    OBVIOUS
  <2> HIDE DEF Out
  <2> QED BY <2>1, LeastNatural
<1>2. n # 0 /\ n \in Nat
  BY <1>1
<1>3. n - 1 \in Nat /\ n - 1 \in T
  BY <1>1, <1>2
<1> QED BY <1>1, <1>2, <1>3

-----------------------------------------------------------------------------
(* A state carried through a sequence from the left. *)
Steps(St, C) == [St \X C -> St]

Folds(f, base, step, s) ==
  /\ DOMAIN f = 0 .. Len(s)
  /\ f[0] = base
  /\ \A k \in 1 .. Len(s) : f[k] = step[<<f[k - 1], s[k]>>]

LEMMA FoldExists ==
  ASSUME NEW St, NEW C, NEW base \in St, NEW step \in Steps(St, C), NEW s \in Seq(C)
  PROVE  \E f \in [0 .. Len(s) -> St] : Folds(f, base, step, s)
<1>0. step \in [St \X C -> St]
  BY DEF Steps
<1> DEFINE Upto(n) == \E f \in [0 .. n -> St] :
                        f[0] = base /\ \A k \in 1 .. n : f[k] = step[<<f[k - 1], s[k]>>]
           T == {n \in Nat : n =< Len(s) => Upto(n)}
<1>1. Upto(0)
  <2> DEFINE f == [k \in 0 .. 0 |-> base]
  <2>1. f \in [0 .. 0 -> St] /\ f[0] = base /\ \A k \in 1 .. 0 : f[k] = step[<<f[k - 1], s[k]>>]
    OBVIOUS
  <2> HIDE DEF f
  <2> QED BY <2>1
<1>2. ASSUME NEW n \in Nat, Upto(n), n + 1 =< Len(s)
      PROVE  Upto(n + 1)
  <2>1. PICK f \in [0 .. n -> St] :
          f[0] = base /\ \A k \in 1 .. n : f[k] = step[<<f[k - 1], s[k]>>]
    BY <1>2
  <2> DEFINE e == step[<<f[n], s[n + 1]>>]
             g == [k \in 0 .. n + 1 |-> IF k = n + 1 THEN e ELSE f[k]]
  <2>2. e \in St
    <3>1. f[n] \in St /\ s[n + 1] \in C
      BY <1>2
    <3> QED BY <3>1, <1>0
  <2>3. g \in [0 .. n + 1 -> St] /\ g[0] = base
    <3> HIDE DEF e
    <3> QED BY <2>1, <2>2
  <2>4. ASSUME NEW k \in 1 .. n + 1
        PROVE  g[k] = step[<<g[k - 1], s[k]>>]
    <3>1. CASE k = n + 1
      <4>1. k - 1 = n /\ g[n] = f[n] /\ g[n + 1] = e
        BY <3>1
      <4> HIDE DEF g
      <4> QED BY <3>1, <4>1
    <3>2. CASE k \in 1 .. n
      <4>1. g[k] = f[k] /\ g[k - 1] = f[k - 1]
        BY <3>2
      <4> HIDE DEF g
      <4> QED BY <3>2, <4>1, <2>1
    <3> QED BY <3>1, <3>2
  <2> HIDE DEF g
  <2> QED BY <2>3, <2>4
<1> HIDE DEF Upto
<1>3. \A n \in Nat : n \in T
  <2>1. 0 \in T
    BY <1>1
  <2>2. ASSUME NEW n \in Nat, n \in T
        PROVE  n + 1 \in T
    <3>1. CASE n + 1 =< Len(s)
      BY <2>2, <3>1, <1>2, LenProperties
    <3>2. CASE ~(n + 1 =< Len(s))
      BY <3>2
    <3> QED BY <3>1, <3>2
  <2> HIDE DEF T
  <2> QED BY <2>1, <2>2, NaturalInduction
<1>4. Upto(Len(s))
  BY <1>3, LenProperties
<1> QED BY <1>4 DEF Upto, Folds

-----------------------------------------------------------------------------
(* The length and the elements of a slice. *)
LEMMA Slice ==
  ASSUME NEW S, NEW s \in Seq(S), NEW a \in 0 .. Len(s), NEW b \in a .. Len(s)
  PROVE  /\ SubSeq(s, a + 1, b) \in Seq(S)
         /\ Len(SubSeq(s, a + 1, b)) = b - a
         /\ \A k \in 1 .. b - a : SubSeq(s, a + 1, b)[k] = s[a + k]
<1>1. a + 1 \in Int /\ b \in Int /\ \A k \in a + 1 .. b : s[k] \in S
  OBVIOUS
<1>2. /\ SubSeq(s, a + 1, b) \in Seq(S)
      /\ Len(SubSeq(s, a + 1, b)) = IF a + 1 <= b THEN b - (a + 1) + 1 ELSE 0
      /\ \A k \in 1 .. b - (a + 1) + 1 : SubSeq(s, a + 1, b)[k] = s[(a + 1) + k - 1]
  BY <1>1, SubSeqProperties
<1>3. \A k \in 1 .. b - a : (a + 1) + k - 1 = a + k
  OBVIOUS
<1> QED BY <1>2, <1>3

(* A slice of a slice. *)
LEMMA SliceOfSlice ==
  ASSUME NEW S, NEW s \in Seq(S), NEW a \in 0 .. Len(s), NEW b \in a .. Len(s),
         NEW i \in 0 .. b - a, NEW j \in i .. b - a
  PROVE  SubSeq(SubSeq(s, a + 1, b), i + 1, j) = SubSeq(s, a + i + 1, a + j)
<1>1. CASE i = j
  <2>1. SubSeq(SubSeq(s, a + 1, b), i + 1, j) = <<>>
    BY <1>1, SubSeqEmpty
  <2>2. SubSeq(s, a + i + 1, a + j) = <<>>
    BY <1>1, SubSeqEmpty
  <2> QED BY <2>1, <2>2
<1>2. CASE i < j
  <2>1. /\ a + 1 \in 1 .. Len(s) /\ b \in 1 .. Len(s)
        /\ i + 1 \in 1 .. b - (a + 1) + 1 /\ j \in 1 .. b - (a + 1) + 1
    BY <1>2
  <2>2. SubSeq(SubSeq(s, a + 1, b), i + 1, j) = SubSeq(s, (a + 1) + (i + 1) - 1, (a + 1) + j - 1)
    BY <2>1, SubSeqOfSubSeq
  <2>3. (a + 1) + (i + 1) - 1 = a + i + 1 /\ (a + 1) + j - 1 = a + j
    OBVIOUS
  <2> QED BY <2>2, <2>3
<1> QED BY <1>1, <1>2

-----------------------------------------------------------------------------
Cat(s, t) == s \o t

(* f has the concatenations of the first sequences of s, of none to all. *)
Accumulates(f, s) ==
  /\ DOMAIN f = 0 .. Len(s)
  /\ f[0] = <<>>
  /\ \A k \in 1 .. Len(s) : f[k] = Cat(f[k - 1], s[k])

LEMMA CatType ==
  ASSUME NEW S, NEW s \in Seq(S), NEW t \in Seq(S)
  PROVE  Cat(s, t) \in Seq(S)
  BY ConcatProperties DEF Cat

LEMMA CatEmpty ==
  ASSUME NEW S, NEW s \in Seq(S)
  PROVE  Cat(s, <<>>) = s /\ Cat(<<>>, s) = s
  BY ConcatEmptySeq DEF Cat

LEMMA CatAssociative ==
  ASSUME NEW S, NEW s \in Seq(S), NEW t \in Seq(S), NEW u \in Seq(S)
  PROVE  Cat(s, Cat(t, u)) = Cat(Cat(s, t), u)
<1>1. (s \o t) \o u = s \o (t \o u)
  BY ConcatAssociative
<1> QED BY <1>1, Zenon DEF Cat

(* There is such a function ... *)
LEMMA AccumulatorExists ==
  ASSUME NEW S, NEW s \in Seq(Seq(S))
  PROVE  \E f \in [0 .. Len(s) -> Seq(S)] : Accumulates(f, s)
<1> DEFINE step == [p \in Seq(S) \X Seq(S) |-> Cat(p[1], p[2])]
<1>1. step \in [Seq(S) \X Seq(S) -> Seq(S)] /\ <<>> \in Seq(S)
  BY CatType
<1>2. \A a, b \in Seq(S) : step[<<a, b>>] = Cat(a, b)
  OBVIOUS
<1> HIDE DEF step
<1>3. PICK f \in [0 .. Len(s) -> Seq(S)] : Folds(f, <<>>, step, s)
  BY <1>1, FoldExists DEF Steps
<1>4. ASSUME NEW k \in 1 .. Len(s)
      PROVE  f[k - 1] \in Seq(S) /\ s[k] \in Seq(S)
  <2>1. k - 1 \in 0 .. Len(s)
    BY LenProperties
  <2>2. s[k] \in Seq(S)
    BY ElementOfSeq
  <2> QED BY <1>3, <2>1, <2>2
<1>5. Accumulates(f, s)
  BY <1>2, <1>3, <1>4 DEF Accumulates, Folds
<1> QED BY <1>5

(* ... and only one, which ends in FlattenSeq(s). *)
LEMMA FlattenAccumulates ==
  ASSUME NEW S, NEW s \in Seq(Seq(S)), NEW f, Accumulates(f, s)
  PROVE  FlattenSeq(s) = f[Len(s)]
<1>0. Len(s) \in Nat
  BY LenProperties
<1>1. CASE Len(s) = 0
  <2>1. s = <<>>
    BY <1>1, EmptySeq
  <2> QED BY <1>1, <2>1 DEF FlattenSeq, Accumulates
<1>2. CASE Len(s) # 0
  <2> DEFINE Def(g) == [k \in 1 .. Len(s) |-> IF k = 1 THEN s[k] ELSE Cat(g[k - 1], s[k])]
             h == CHOOSE g : g = Def(g)
             r == [k \in 1 .. Len(s) |-> f[k]]
  <2>1. FlattenSeq(s) = h[Len(s)]
    BY <1>2 DEF FlattenSeq, Cat
  <2>2. f[1] = s[1]
    <3>1. s[1] \in Seq(S) /\ 1 \in 1 .. Len(s)
      BY <1>0, <1>2
    <3>2. f[1] = Cat(<<>>, s[1])
      BY <3>1 DEF Accumulates
    <3> QED BY <3>1, <3>2, CatEmpty
  <2>3. r = Def(r)
    <3>1. ASSUME NEW k \in 1 .. Len(s)
          PROVE  r[k] = Def(r)[k]
      <4>1. CASE k = 1
        BY <4>1, <2>2
      <4>2. CASE k # 1
        BY <4>2, <1>0 DEF Accumulates
      <4> QED BY <4>1, <4>2
    <3> QED BY <3>1
  <2>4. h = Def(h)
    <3> HIDE DEF Def
    <3> QED BY <2>3
  <2> HIDE DEF h, r
  <2> DEFINE T == {k \in Nat : k \in 1 .. Len(s) => h[k] = f[k]}
  <2>5. 0 \in T
    OBVIOUS
  <2>6. ASSUME NEW k \in Nat, k \in T, k + 1 \in 1 .. Len(s)
        PROVE  h[k + 1] = f[k + 1]
    <3>1. h[k + 1] = IF k = 0 THEN s[k + 1] ELSE Cat(h[k], s[k + 1])
      BY <2>4, <2>6, <1>0
    <3>2. CASE k = 0
      BY <3>1, <3>2, <2>2
    <3>3. CASE k # 0
      <4>1. k \in 1 .. Len(s) /\ f[k + 1] = Cat(f[(k + 1) - 1], s[k + 1])
        BY <3>3, <2>6, <1>0 DEF Accumulates
      <4>2. h[k] = f[k] /\ (k + 1) - 1 = k
        BY <4>1, <2>6
      <4> QED BY <3>1, <3>3, <4>1, <4>2
    <3> QED BY <3>2, <3>3
  <2>7. ASSUME NEW k \in Nat, k \in T
        PROVE  k + 1 \in T
    BY <2>6, <2>7
  <2>8. \A k \in Nat : k \in T
    <3> HIDE DEF T
    <3> QED BY <2>5, <2>7, NaturalInduction
  <2>9. h[Len(s)] = f[Len(s)]
    BY <2>8, <1>0, <1>2
  <2> QED BY <2>1, <2>9
<1> QED BY <1>1, <1>2

-----------------------------------------------------------------------------
LEMMA FlattenEmpty == FlattenSeq(<<>>) = <<>>
  BY DEF FlattenSeq

LEMMA FlattenType ==
  ASSUME NEW S, NEW s \in Seq(Seq(S))
  PROVE  FlattenSeq(s) \in Seq(S)
<1>1. PICK f \in [0 .. Len(s) -> Seq(S)] : Accumulates(f, s)
  BY AccumulatorExists
<1>2. FlattenSeq(s) = f[Len(s)]
  BY <1>1, FlattenAccumulates
<1> QED BY <1>1, <1>2, LenProperties

LEMMA FlattenConcat ==
  ASSUME NEW S, NEW s \in Seq(Seq(S)), NEW t \in Seq(Seq(S))
  PROVE  FlattenSeq(s \o t) = FlattenSeq(s) \o FlattenSeq(t)
<1> DEFINE u == s \o t
           m == Len(s)
           n == Len(t)
<1>1. /\ u \in Seq(Seq(S)) /\ Len(u) = m + n /\ m \in Nat /\ n \in Nat
      /\ \A k \in 1 .. m : u[k] = s[k]
      /\ \A k \in 1 .. n : u[m + k] = t[k]
      /\ \A k \in 1 .. n : t[k] \in Seq(S)
  BY ConcatProperties, LenProperties
<1> HIDE DEF u, m, n
<1>2. PICK f \in [0 .. m -> Seq(S)] : Accumulates(f, s)
  BY AccumulatorExists DEF m
<1>3. PICK g \in [0 .. n -> Seq(S)] : Accumulates(g, t)
  BY AccumulatorExists DEF n
<1> DEFINE h == [k \in 0 .. Len(u) |-> IF k =< m THEN f[k] ELSE Cat(f[m], g[k - m])]
<1>4. f[m] \in Seq(S) /\ \A k \in 0 .. n : g[k] \in Seq(S)
  BY <1>1, <1>2, <1>3
<1>5. Cat(f[m], g[0]) = f[m]
  BY <1>3, <1>4, CatEmpty DEF Accumulates
<1>6. ASSUME NEW k \in 0 .. n
      PROVE  h[m + k] = Cat(f[m], g[k])
  <2>1. m + k \in 0 .. Len(u) /\ (m + k) - m = k /\ (m + k =< m <=> k = 0)
    <3>1. m \in Nat /\ n \in Nat /\ Len(u) = m + n
      BY <1>1
    <3> QED BY <3>1
  <2>2. h[m + k] = IF k = 0 THEN f[m + k] ELSE Cat(f[m], g[k])
    BY <2>1
  <2>3. k = 0 => m + k = m
    BY <1>1
  <2> HIDE DEF h
  <2> QED BY <2>2, <2>3, <1>5
<1>7. \A k \in 0 .. m : h[k] = f[k]
  BY <1>1
<1>8. DOMAIN h = 0 .. Len(u)
  OBVIOUS
<1> HIDE DEF h
<1>9. Accumulates(h, u)
  <2>1. h[0] = <<>>
    BY <1>1, <1>2, <1>7 DEF Accumulates
  <2>2. ASSUME NEW k \in 1 .. Len(u)
        PROVE  h[k] = Cat(h[k - 1], u[k])
    <3>1. CASE k \in 1 .. m
      <4>1. f[k] = Cat(f[k - 1], s[k])
        BY <3>1, <1>2 DEF Accumulates, m
      <4>2. k - 1 \in 0 .. m /\ k \in 0 .. m
        BY <3>1, <1>1
      <4> QED BY <4>1, <4>2, <3>1, <1>1, <1>7
    <3>2. ASSUME NEW j \in 1 .. n, k = m + j
          PROVE  h[k] = Cat(h[k - 1], u[k])
      <4>1. /\ j \in 0 .. n /\ j - 1 \in 0 .. n /\ k - 1 = m + (j - 1)
            /\ u[k] = t[j] /\ t[j] \in Seq(S)
        BY <3>2, <1>1
      <4>2. h[k - 1] = Cat(f[m], g[j - 1]) /\ h[k] = Cat(f[m], g[j])
        BY <4>1, <3>2, <1>6
      <4>3. g[j] = Cat(g[j - 1], t[j])
        BY <1>3 DEF Accumulates, n
      <4>4. Cat(f[m], Cat(g[j - 1], t[j])) = Cat(Cat(f[m], g[j - 1]), t[j])
        BY <4>1, <1>4, CatAssociative
      <4> QED BY <4>1, <4>2, <4>3, <4>4
    <3>3. k \in 1 .. m \/ \E j \in 1 .. n : k = m + j
      <4>1. CASE k > m
        <5>1. k - m \in 1 .. n /\ k = m + (k - m)
          BY <4>1, <1>1
        <5> QED BY <5>1
      <4>2. CASE k =< m
        BY <4>2, <1>1
      <4> QED BY <4>1, <4>2, <1>1
    <3> QED BY <3>1, <3>2, <3>3
  <2> QED BY <2>1, <2>2, <1>8 DEF Accumulates
<1>10. FlattenSeq(u) = h[Len(u)]
  BY <1>1, <1>9, FlattenAccumulates
<1>11. FlattenSeq(s) = f[m] /\ FlattenSeq(t) = g[n]
  BY <1>2, <1>3, FlattenAccumulates DEF m, n
<1>12. h[Len(u)] = Cat(f[m], g[n])
  BY <1>1, <1>6
<1> QED BY <1>10, <1>11, <1>12 DEF u, Cat

(* Sequences of which one at most has elements. *)
LEMMA FlattenSingle ==
  ASSUME NEW S, NEW s \in Seq(Seq(S)), NEW j \in 1 .. Len(s),
         \A k \in 1 .. Len(s) : k # j => s[k] = <<>>
  PROVE  FlattenSeq(s) = s[j]
<1> DEFINE n == Len(s)
           f == [k \in 0 .. n |-> IF k < j THEN <<>> ELSE s[j]]
<1>1. s[j] \in Seq(S) /\ <<>> \in Seq(S) /\ n \in Nat
  BY LenProperties
<1>2. Cat(<<>>, <<>>) = <<>> /\ Cat(<<>>, s[j]) = s[j] /\ Cat(s[j], <<>>) = s[j]
  BY <1>1, CatEmpty
<1>3. Accumulates(f, s)
  <2>1. DOMAIN f = 0 .. n /\ f[0] = <<>>
    BY <1>1
  <2>2. ASSUME NEW k \in 1 .. n
        PROVE  f[k] = Cat(f[k - 1], s[k])
    <3> HIDE DEF n
    <3>1. CASE k < j
      <4>1. k \in 0 .. n /\ k - 1 \in 0 .. n /\ k - 1 < j /\ k # j
        BY <3>1, <1>1 DEF n
      <4>2. f[k] = <<>> /\ f[k - 1] = <<>>
        BY <3>1, <4>1
      <4>3. s[k] = <<>>
        BY <4>1 DEF n
      <4> HIDE DEF f
      <4> QED BY <4>2, <4>3, <1>2
    <3>2. CASE k = j
      <4>1. f[k] = s[j] /\ f[k - 1] = <<>>
        BY <3>2, <1>1 DEF n
      <4> HIDE DEF f
      <4> QED BY <4>1, <3>2, <1>2
    <3>3. CASE k > j
      <4>1. f[k] = s[j] /\ s[k] = <<>>
        BY <3>3, <1>1 DEF n
      <4>2. k - 1 \in 0 .. n /\ ~(k - 1 < j)
        BY <3>3, <1>1 DEF n
      <4>3. f[k - 1] = s[j]
        BY <4>2
      <4> HIDE DEF f
      <4> QED BY <4>1, <4>3, <1>2
    <3> QED BY <3>1, <3>2, <3>3, <1>1 DEF n
  <2> QED BY <2>1, <2>2 DEF Accumulates
<1>4. FlattenSeq(s) = f[n]
  BY <1>3, FlattenAccumulates
<1> QED BY <1>1, <1>4

(* Sequences of which none has an element. *)
LEMMA FlattenBlank ==
  ASSUME NEW S, NEW s \in Seq(Seq(S)), \A k \in 1 .. Len(s) : s[k] = <<>>
  PROVE  FlattenSeq(s) = <<>>
<1>1. CASE Len(s) = 0
  <2>1. s = <<>>
    BY <1>1, EmptySeq
  <2> QED BY <2>1, FlattenEmpty
<1>2. CASE Len(s) # 0
  <2>1. 1 \in 1 .. Len(s)
    BY <1>2, LenProperties
  <2> QED BY <2>1, FlattenSingle
<1> QED BY <1>1, <1>2

LEMMA FlattenOne ==
  ASSUME NEW S, NEW e \in Seq(S)
  PROVE  FlattenSeq(<<e>>) = e
<1> DEFINE s == <<e>>
<1>1. s \in Seq(Seq(S)) /\ Len(s) = 1 /\ s[1] = e
  OBVIOUS
<1> HIDE DEF s
<1>2. FlattenSeq(s) = s[1]
  BY <1>1, FlattenSingle
<1> QED BY <1>1, <1>2 DEF s

(* Flattening what a function gives for the elements of a sequence. *)
Mapped(F, s) == [k \in DOMAIN s |-> F[s[k]]]

(* Those that give sequences; a name of its own lets the provers match it. *)
Lists(S, T) == [S -> Seq(T)]

LEMMA MappedElements ==
  ASSUME NEW F, NEW S, NEW s \in Seq(S)
  PROVE  DOMAIN Mapped(F, s) = 1 .. Len(s) /\ \A k \in 1 .. Len(s) : Mapped(F, s)[k] = F[s[k]]
BY LenProperties DEF Mapped

LEMMA MappedType ==
  ASSUME NEW S, NEW T, NEW F \in Lists(S, T), NEW s \in Seq(S)
  PROVE  Mapped(F, s) \in Seq(Seq(T))
<1>1. Len(s) \in Nat /\ DOMAIN s = 1 .. Len(s) /\ \A k \in 1 .. Len(s) : s[k] \in S
  BY LenProperties
<1>2. \A k \in 1 .. Len(s) : F[s[k]] \in Seq(T)
  BY <1>1 DEF Lists
<1> QED BY <1>1, <1>2 DEF Mapped

LEMMA FlattenMapped ==
  ASSUME NEW S, NEW T, NEW F \in Lists(S, T), NEW s \in Seq(S), NEW t \in Seq(S)
  PROVE  /\ FlattenSeq(Mapped(F, s)) \in Seq(T)
         /\ FlattenSeq(Mapped(F, s \o t)) = FlattenSeq(Mapped(F, s)) \o FlattenSeq(Mapped(F, t))
<1> DEFINE a == Mapped(F, s)
           b == Mapped(F, t)
           u == s \o t
           c == Mapped(F, u)
           d == a \o b
<1>0. ASSUME NEW v \in Seq(S)
      PROVE  /\ Mapped(F, v) \in Seq(Seq(T)) /\ Len(Mapped(F, v)) = Len(v)
             /\ \A k \in 1 .. Len(v) : Mapped(F, v)[k] = F[v[k]]
  <2> DEFINE m == Mapped(F, v)
  <2>1. m \in Seq(Seq(T))
    BY MappedType
  <2>2. DOMAIN m = 1 .. Len(v) /\ \A k \in 1 .. Len(v) : m[k] = F[v[k]]
    BY MappedElements
  <2> HIDE DEF m
  <2>3. Len(m) = Len(v)
    BY <2>1, <2>2, LenProperties
  <2> QED BY <2>1, <2>2, <2>3 DEF m
<1>1. /\ a \in Seq(Seq(T)) /\ Len(a) = Len(s) /\ \A k \in 1 .. Len(s) : a[k] = F[s[k]]
      /\ b \in Seq(Seq(T)) /\ Len(b) = Len(t) /\ \A k \in 1 .. Len(t) : b[k] = F[t[k]]
  BY <1>0
<1>2. /\ u \in Seq(S) /\ Len(u) = Len(s) + Len(t)
      /\ \A k \in 1 .. Len(s) + Len(t) : u[k] = IF k =< Len(s) THEN s[k] ELSE t[k - Len(s)]
  BY ConcatProperties
<1> HIDE DEF u
<1>3. c \in Seq(Seq(T)) /\ Len(c) = Len(u) /\ \A k \in 1 .. Len(u) : c[k] = F[u[k]]
  BY <1>0, <1>2
<1> HIDE DEF a, b, c
<1>4. /\ d \in Seq(Seq(T)) /\ Len(d) = Len(a) + Len(b)
      /\ \A k \in 1 .. Len(a) + Len(b) : d[k] = IF k =< Len(a) THEN a[k] ELSE b[k - Len(a)]
  <2>1. a \in Seq(Seq(T)) /\ b \in Seq(Seq(T))
    BY <1>1
  <2> QED BY <2>1, ConcatProperties
<1> HIDE DEF d
<1>5. Len(s) \in Nat /\ Len(t) \in Nat
  BY LenProperties
<1>6. ASSUME NEW k \in 1 .. Len(c)
      PROVE  c[k] = d[k]
  <2>1. k \in 1 .. Len(s) + Len(t) /\ c[k] = F[u[k]]
    BY <1>2, <1>3
  <2>2. CASE k =< Len(s)
    <3>1. k \in 1 .. Len(s)
      BY <2>1, <2>2, <1>5
    <3>2. u[k] = s[k]
      BY <2>1, <2>2, <1>2
    <3>3. d[k] = a[k]
      BY <2>1, <2>2, <1>1, <1>4
    <3> QED BY <2>1, <3>1, <3>2, <3>3, <1>1
  <2>3. CASE ~(k =< Len(s))
    <3>1. k - Len(s) \in 1 .. Len(t)
      BY <2>1, <2>3, <1>5
    <3>2. u[k] = t[k - Len(s)]
      BY <2>1, <2>3, <1>2
    <3>3. d[k] = b[k - Len(s)]
      BY <2>1, <2>3, <1>1, <1>4
    <3> QED BY <2>1, <3>1, <3>2, <3>3, <1>1
  <2> QED BY <2>2, <2>3
<1>7. c = d
  BY <1>1, <1>2, <1>3, <1>4, <1>6, SeqEqual
<1>8. FlattenSeq(c) = FlattenSeq(a) \o FlattenSeq(b) /\ FlattenSeq(a) \in Seq(T)
  BY <1>1, <1>7, FlattenConcat, FlattenType DEF d
<1> QED BY <1>8 DEF a, b, c, u

LEMMA FlattenMappedOne ==
  ASSUME NEW S, NEW T, NEW F \in Lists(S, T), NEW x \in S
  PROVE  FlattenSeq(Mapped(F, <<x>>)) = F[x]
<1> DEFINE s == <<x>>
<1>1. s \in Seq(S) /\ Len(s) = 1 /\ s[1] = x
  OBVIOUS
<1> HIDE DEF s
<1> DEFINE m == Mapped(F, s)
<1>2. m \in Seq(Seq(T))
  BY <1>1, MappedType
<1>3. Len(m) = 1 /\ m[1] = F[x]
  <2>1. DOMAIN m = 1 .. Len(s) /\ \A k \in 1 .. Len(s) : m[k] = F[s[k]]
    BY <1>1, MappedElements
  <2> HIDE DEF m
  <2> QED BY <1>1, <1>2, <2>1, LenProperties
<1> HIDE DEF m
<1>4. FlattenSeq(m) = m[1]
  <2>1. 1 \in 1 .. Len(m) /\ \A k \in 1 .. Len(m) : k # 1 => m[k] = <<>>
    BY <1>3
  <2> QED BY <1>2, <2>1, FlattenSingle
<1> QED BY <1>3, <1>4 DEF m, s

LEMMA FlattenMappedNone == \A F : FlattenSeq(Mapped(F, <<>>)) = <<>>
<1>1. \A F : Mapped(F, <<>>) = <<>>
  BY DEF Mapped
<1> QED BY <1>1, FlattenEmpty

-----------------------------------------------------------------------------
(* A sequence begins with another when it is that one and something more. *)
LEMMA PrefixIsConcat ==
  ASSUME NEW S, NEW s \in Seq(S), NEW t \in Seq(S)
  PROVE  IsPrefix(s, t) <=> \E u \in Seq(S) : t = s \o u
<1> DEFINE m == Len(s)
           n == Len(t)
<1>1. m \in Nat /\ n \in Nat /\ SubSeq(s, 1, m) = s
  <2>1. 0 \in 0 .. m /\ m \in 0 .. m
    BY LenProperties
  <2>2. /\ SubSeq(s, 0 + 1, m) \in Seq(S) /\ Len(SubSeq(s, 0 + 1, m)) = m
        /\ \A k \in 1 .. m : SubSeq(s, 0 + 1, m)[k] = s[k]
    BY <2>1, Slice
  <2>3. SubSeq(s, 0 + 1, m) = s
    BY <2>2, SeqEqual
  <2> QED BY <2>3, LenProperties
<1> HIDE DEF m, n
<1>2. ASSUME IsPrefix(s, t)
      PROVE  \E u \in Seq(S) : t = s \o u
  <2>1. m \in 0 .. n /\ n \in m .. n /\ 0 \in 0 .. n /\ SubSeq(t, 1, m) = s
    BY <1>1, <1>2 DEF IsPrefix, m, n
  <2> DEFINE u == SubSeq(t, m + 1, n)
  <2>2. u \in Seq(S) /\ Len(u) = n - m /\ \A k \in 1 .. n - m : u[k] = t[m + k]
    BY <2>1, Slice DEF n
  <2>3. \A k \in 1 .. m : s[k] = t[k]
    BY <2>1, <1>1 DEF n, IsPrefix
  <2> HIDE DEF u
  <2> DEFINE w == s \o u
  <2>4. /\ w \in Seq(S) /\ Len(w) = m + (n - m)
        /\ \A k \in 1 .. m + (n - m) : w[k] = IF k =< m THEN s[k] ELSE u[k - m]
    <3>1. /\ w \in Seq(S) /\ Len(w) = Len(s) + Len(u)
          /\ \A k \in 1 .. Len(s) + Len(u) : w[k] = IF k =< Len(s) THEN s[k] ELSE u[k - Len(s)]
      BY <2>2, ConcatProperties
    <3> HIDE DEF w
    <3> QED BY <2>2, <3>1 DEF m
  <2> HIDE DEF w
  <2>5. m + (n - m) = n
    BY <1>1
  <2>6. \A k \in 1 .. n : w[k] = t[k]
    <3> SUFFICES ASSUME NEW k \in 1 .. n
                 PROVE  w[k] = t[k]
      OBVIOUS
    <3>1. CASE k =< m
      BY <3>1, <2>3, <2>4, <2>5, <1>1
    <3>2. CASE k > m
      <4>1. k - m \in 1 .. n - m /\ m + (k - m) = k
        BY <3>2, <1>1
      <4>2. w[k] = u[k - m] /\ u[k - m] = t[m + (k - m)]
        BY <3>2, <4>1, <2>2, <2>4, <2>5, <1>1
      <4> QED BY <4>1, <4>2
    <3> QED BY <3>1, <3>2, <1>1
  <2>7. t = w
    BY <2>4, <2>5, <2>6, SeqEqual DEF n
  <2> QED BY <2>2, <2>7 DEF w
<1>3. ASSUME NEW u \in Seq(S), t = s \o u
      PROVE  IsPrefix(s, t)
  <2>1. /\ n = m + Len(u) /\ Len(u) \in Nat
        /\ \A k \in 1 .. m + Len(u) : t[k] = IF k =< m THEN s[k] ELSE u[k - m]
    BY <1>3, ConcatProperties, LenProperties DEF m, n
  <2>2. m =< n /\ \A k \in 1 .. m : t[k] = s[k]
    BY <1>1, <2>1
  <2>3. 0 \in 0 .. n /\ m \in 0 .. n
    BY <1>1, <2>2
  <2>4. /\ SubSeq(t, 0 + 1, m) \in Seq(S) /\ Len(SubSeq(t, 0 + 1, m)) = m
        /\ \A k \in 1 .. m : SubSeq(t, 0 + 1, m)[k] = t[k]
    BY <1>1, <2>2, <2>3, Slice DEF n
  <2>5. SubSeq(t, 0 + 1, m) = s
    BY <2>2, <2>4, SeqEqual DEF m
  <2> QED BY <1>1, <2>2, <2>5 DEF IsPrefix, m, n
<1> QED BY <1>2, <1>3

LEMMA PrefixOfMore ==
  ASSUME NEW S, NEW s \in Seq(S), NEW t \in Seq(S), NEW u \in Seq(S), IsPrefix(s, t)
  PROVE  IsPrefix(s, t \o u)
<1>1. PICK v \in Seq(S) : t = s \o v
  BY PrefixIsConcat
<1>2. t \o u = s \o (v \o u)
  BY <1>1, ConcatAssociative
<1>3. v \o u \in Seq(S) /\ t \o u \in Seq(S)
  BY ConcatProperties
<1> QED BY <1>2, <1>3, PrefixIsConcat

(* Two sequences of which the second is exchanged for what it says. *)
LEMMA Exchange ==
  ASSUME NEW S, NEW a \in Seq(S), NEW b \in Seq(S), NEW t \in Seq(S), NEW u \in Seq(S),
         NEW y \in Seq(S), Cat(b, u) = Cat(t, y)
  PROVE  Cat(Cat(a, b), u) = Cat(Cat(a, t), y)
<1>1. Cat(Cat(a, b), u) = Cat(a, Cat(b, u)) /\ Cat(Cat(a, t), y) = Cat(a, Cat(t, y))
  BY CatAssociative
<1> QED BY <1>1

LEMMA PrefixIsSlice ==
  ASSUME NEW S, NEW s \in Seq(S), NEW t \in Seq(S)
  PROVE  IsPrefix(s, t) <=> Len(s) =< Len(t) /\ s = SubSeq(t, 1, Len(s))
<1>1. Len(s) \in Nat /\ 0 \in 0 .. Len(s) /\ Len(s) \in 0 .. Len(s)
  BY LenProperties
<1>2. /\ SubSeq(s, 0 + 1, Len(s)) \in Seq(S) /\ Len(SubSeq(s, 0 + 1, Len(s))) = Len(s) - 0
      /\ \A k \in 1 .. Len(s) - 0 : SubSeq(s, 0 + 1, Len(s))[k] = s[0 + k]
  BY <1>1, Slice
<1>3. SubSeq(s, 1, Len(s)) = s
  BY <1>1, <1>2, SeqEqual
<1> QED BY <1>3 DEF IsPrefix

(* Sequences of one element each. *)
LEMMA FlattenSingletons ==
  ASSUME NEW S, NEW e \in Seq(S), NEW s \in Seq(Seq(S)), Len(s) = Len(e),
         \A k \in 1 .. Len(e) : s[k] = <<e[k]>>
  PROVE  FlattenSeq(s) = e
<1> DEFINE n == Len(e)
           f == [k \in 0 .. n |-> SubSeq(e, 1, k)]
<1>1. n \in Nat
  BY LenProperties
<1>2. DOMAIN f = 0 .. n /\ f[0] = <<>> /\ f[n] = e
  <2>1. SubSeq(e, 1, 0) = <<>> /\ SubSeq(e, 1, n) = e
    BY SubSeqEmpty, SubSeqFull
  <2> HIDE DEF n
  <2> QED BY <1>1, <2>1
<1>3. ASSUME NEW k \in 1 .. n
      PROVE  f[k] = Cat(f[k - 1], s[k])
  <2>1. 1 \in 1 .. n /\ k \in 1 .. n /\ k - 1 \in 0 .. n /\ k \in 0 .. n
    BY <1>1
  <2>2. SubSeq(e, 1, k) = SubSeq(e, 1, k - 1) \o <<e[k]>>
    BY <2>1, SubSeqRecursiveSecond
  <2> QED BY <2>1, <2>2 DEF Cat
<1> HIDE DEF f
<1>4. FlattenSeq(s) = f[Len(s)]
  BY <1>2, <1>3, FlattenAccumulates DEF Accumulates
<1> QED BY <1>2, <1>4

(* A slice of sequences taken in two. *)
LEMMA FlattenAdjacent ==
  ASSUME NEW S, NEW s \in Seq(Seq(S)), NEW i \in 0 .. Len(s), NEW j \in i .. Len(s)
  PROVE  FlattenSeq(SubSeq(s, 1, j)) = FlattenSeq(SubSeq(s, 1, i)) \o FlattenSeq(SubSeq(s, i + 1, j))
<1>1. /\ 1 \in 1 .. Len(s) + 1 /\ i \in 1 - 1 .. Len(s) /\ j \in i .. Len(s)
      /\ 0 \in 0 .. Len(s) /\ i \in 0 .. Len(s) /\ i \in 0 .. Len(s) /\ 0 + 1 = 1
  BY LenProperties
<1>2. SubSeq(s, 1, i) \o SubSeq(s, i + 1, j) = SubSeq(s, 1, j)
  BY <1>1, ConcatAdjacentSubSeq
<1>3. SubSeq(s, 1, i) \in Seq(Seq(S)) /\ SubSeq(s, i + 1, j) \in Seq(Seq(S))
  BY <1>1, Slice
<1> QED BY <1>2, <1>3, FlattenConcat

(* The parts of a concatenation. *)
LEMMA ConcatParts ==
  ASSUME NEW S, NEW s \in Seq(S), NEW t \in Seq(S), NEW i \in 0 .. Len(s)
  PROVE  /\ SubSeq(s \o t, 1, i) = SubSeq(s, 1, i)
         /\ SubSeq(s \o t, Len(s) + 1, Len(s \o t)) = t
<1>1. Len(s) \in Nat /\ Len(t) \in Nat /\ Len(s \o t) = Len(s) + Len(t)
  BY ConcatProperties, LenProperties
<1>2. SubSeq(s \o t, 1, i) = SubSeq(s, 1, i)
  <2>1. CASE i = 0
    BY <2>1, SubSeqEmpty
  <2>2. CASE i # 0
    <3>1. 1 \in 1 .. Len(s) /\ i \in 1 .. Len(s)
      BY <1>1, <2>2
    <3> QED BY <3>1, SubSeqOfConcat1
  <2> QED BY <2>1, <2>2
<1>3. SubSeq(s \o t, Len(s) + 1, Len(s) + Len(t)) = t
  <2>1. CASE Len(t) = 0
    <3>1. t = <<>> /\ Len(s) + Len(t) < Len(s) + 1
      BY <1>1, <2>1, EmptySeq
    <3> QED BY <1>1, <3>1, SubSeqEmpty
  <2>2. CASE Len(t) # 0
    <3>1. /\ Len(s) + 1 \in Len(s) + 1 .. Len(s) + Len(t)
          /\ Len(s) + Len(t) \in Len(s) + 1 .. Len(s) + Len(t)
          /\ (Len(s) + 1) - Len(s) = 1 /\ (Len(s) + Len(t)) - Len(s) = Len(t)
      BY <1>1, <2>2
    <3>2. SubSeq(s \o t, Len(s) + 1, Len(s) + Len(t))
            = SubSeq(t, (Len(s) + 1) - Len(s), (Len(s) + Len(t)) - Len(s))
      BY <3>1, SubSeqOfConcat2
    <3> QED BY <3>1, <3>2, SubSeqFull
  <2> QED BY <2>1, <2>2
<1> QED BY <1>1, <1>2, <1>3

(***************************************************************************)
(* Flattening elements of at most one: what is in them remains, in a place *)
(* that is its own if none before it is empty.                             *)
(***************************************************************************)
Remains(s, f, n) ==
  /\ \A j \in 1 .. n : s[j] # <<>> =>
       \E i \in 1 .. Len(f) : f[i] = s[j][1] /\ ((\A k \in 1 .. j - 1 : s[k] # <<>>) => i = j)
  /\ \A i \in 1 .. Len(f) : \E j \in 1 .. n :
       s[j] # <<>> /\ f[i] = s[j][1] /\ ((\A k \in 1 .. j - 1 : s[k] # <<>>) => i = j)
  /\ (\A k \in 1 .. n : s[k] # <<>>) => Len(f) = n

LEMMA FlattenOptional ==
  ASSUME NEW S, NEW s \in Seq(Seq(S)), \A k \in 1 .. Len(s) : s[k] = <<>> \/ Len(s[k]) = 1
  PROVE  Remains(s, FlattenSeq(s), Len(s))
<1> DEFINE F(n) == FlattenSeq(SubSeq(s, 1, n))
           T == {n \in Nat : n =< Len(s) => F(n) \in Seq(S) /\ Remains(s, F(n), n)}
<1>0. Len(s) \in Nat
  BY LenProperties
<1>1. 0 \in T
  <2>1. SubSeq(s, 1, 0) = <<>>
    <3>1. 0 \in 0 .. Len(s) /\ 0 - 0 = 0
      BY <1>0
    <3>2. SubSeq(s, 0 + 1, 0) \in Seq(Seq(S)) /\ Len(SubSeq(s, 0 + 1, 0)) = 0 - 0
      BY <3>1, Slice
    <3> QED BY <3>1, <3>2, EmptySeq
  <2>2. <<>> \in Seq(S) /\ Len(<<>>) = 0
    OBVIOUS
  <2>3. F(0) = <<>>
    BY <2>1, FlattenEmpty
  <2> HIDE DEF F
  <2>4. Remains(s, F(0), 0)
    BY <2>2, <2>3 DEF Remains
  <2> QED BY <2>2, <2>3, <2>4
<1>2. ASSUME NEW n \in Nat, n \in T
      PROVE  n + 1 \in T
  <2> SUFFICES ASSUME n + 1 =< Len(s)
               PROVE  F(n + 1) \in Seq(S) /\ Remains(s, F(n + 1), n + 1)
    OBVIOUS
  <2>1. F(n) \in Seq(S) /\ Remains(s, F(n), n)
    BY <1>0, <1>2
  <2>2. n \in 0 .. Len(s) /\ n + 1 \in n .. Len(s) /\ n + 1 \in 1 .. Len(s) /\ n + 1 \in 0 .. Len(s)
    BY <1>0
  <2>3. F(n + 1) = F(n) \o FlattenSeq(SubSeq(s, n + 1, n + 1))
    BY <2>2, FlattenAdjacent
  <2>4. FlattenSeq(SubSeq(s, n + 1, n + 1)) = s[n + 1]
    <3>1. /\ SubSeq(s, n + 1, n + 1) \in Seq(Seq(S)) /\ Len(SubSeq(s, n + 1, n + 1)) = (n + 1) - n
          /\ \A k \in 1 .. (n + 1) - n : SubSeq(s, n + 1, n + 1)[k] = s[n + k]
      BY <2>2, Slice
    <3> DEFINE e == SubSeq(s, n + 1, n + 1)
    <3>0. (n + 1) - n = 1 /\ 1 \in 1 .. 1
      BY <1>0
    <3>2. e \in Seq(Seq(S)) /\ Len(e) = 1 /\ e[1] = s[n + 1]
      <4> HIDE DEF e
      <4>1. Len(e) = (n + 1) - n /\ \A k \in 1 .. (n + 1) - n : e[k] = s[n + k]
        BY <3>1 DEF e
      <4>2. e \in Seq(Seq(S))
        BY <3>1 DEF e
      <4> QED BY <3>0, <4>1, <4>2
    <3> HIDE DEF e
    <3>3. 1 \in 1 .. Len(e) /\ \A k \in 1 .. Len(e) : k # 1 => e[k] = <<>>
      BY <3>2
    <3>4. FlattenSeq(e) = e[1]
      BY <3>2, <3>3, FlattenSingle
    <3> QED BY <3>2, <3>4 DEF e
  <2>5. s[n + 1] \in Seq(S) /\ (s[n + 1] = <<>> \/ Len(s[n + 1]) = 1)
    BY <2>2, ElementOfSeq
  <2> DEFINE f == F(n)
             g == F(n + 1)
             m == Len(f)
  <2>6. g = f \o s[n + 1]
    BY <2>3, <2>4
  <2> HIDE DEF F, f, g
  <2>7. g \in Seq(S) /\ m \in Nat
    BY <2>1, <2>5, <2>6, ConcatProperties, LenProperties DEF f
  <2>8. CASE s[n + 1] = <<>>
    <3>1. g = f
      BY <2>1, <2>6, <2>8, ConcatEmptySeq DEF f
    <3>2. Remains(s, f, n + 1)
      <4>1. \A j \in 1 .. n + 1 : s[j] # <<>> => j \in 1 .. n
        BY <2>8
      <4>2. \A j \in 1 .. n : j \in 1 .. n + 1
        OBVIOUS
      <4>3. ~(\A k \in 1 .. n + 1 : s[k] # <<>>)
        BY <2>8
      <4> QED BY <2>1, <4>1, <4>2, <4>3 DEF Remains, f
    <3> QED BY <2>7, <3>1, <3>2 DEF g
  <2>9. CASE Len(s[n + 1]) = 1
    <3>1. /\ Len(g) = m + 1 /\ g[m + 1] = s[n + 1][1] /\ \A i \in 1 .. m : g[i] = f[i]
      <4>1. f \in Seq(S)
        BY <2>1 DEF f
      <4>2. /\ Len(f \o s[n + 1]) = Len(f) + Len(s[n + 1])
            /\ \A i \in 1 .. Len(f) + Len(s[n + 1]) :
                 (f \o s[n + 1])[i] = IF i =< Len(f) THEN f[i] ELSE s[n + 1][i - Len(f)]
        BY <2>5, <4>1, ConcatProperties
      <4>3. (m + 1) - m = 1 /\ m + 1 \in 1 .. m + 1 /\ ~(m + 1 =< m)
            /\ \A i \in 1 .. m : i \in 1 .. m + 1 /\ i =< m
        BY <2>7
      <4> QED BY <2>6, <2>9, <4>2, <4>3
    <3>2. s[n + 1] # <<>>
      <4>1. \A e : e = <<>> => Len(e) # 1
        OBVIOUS
      <4> QED BY <2>9, <4>1
    <3> HIDE DEF m
    <3>3. (\A k \in 1 .. n : s[k] # <<>>) => m = n
      BY <2>1 DEF Remains, f, m
    <3>4. ASSUME NEW j \in 1 .. n + 1, s[j] # <<>>
          PROVE  \E i \in 1 .. Len(g) :
                   g[i] = s[j][1] /\ ((\A k \in 1 .. j - 1 : s[k] # <<>>) => i = j)
      <4>1. CASE j = n + 1
        <5>1. m + 1 \in 1 .. Len(g) /\ j - 1 = n
          BY <2>7, <3>1, <4>1
        <5> QED BY <3>1, <3>3, <4>1, <5>1
      <4>2. CASE j \in 1 .. n
        <5>1. PICK i \in 1 .. m :
                f[i] = s[j][1] /\ ((\A k \in 1 .. j - 1 : s[k] # <<>>) => i = j)
          BY <2>1, <3>4, <4>2 DEF Remains, f, m
        <5>2. i \in 1 .. Len(g) /\ g[i] = f[i]
          BY <2>7, <3>1
        <5> QED BY <5>1, <5>2
      <4> QED BY <4>1, <4>2
    <3>5. ASSUME NEW i \in 1 .. Len(g)
          PROVE  \E j \in 1 .. n + 1 :
                   s[j] # <<>> /\ g[i] = s[j][1] /\ ((\A k \in 1 .. j - 1 : s[k] # <<>>) => i = j)
      <4>1. CASE i = m + 1
        <5>1. n + 1 \in 1 .. n + 1 /\ (n + 1) - 1 = n
          OBVIOUS
        <5> QED BY <3>1, <3>2, <3>3, <4>1, <5>1
      <4>2. CASE i \in 1 .. m
        <5>1. PICK j \in 1 .. n : /\ s[j] # <<>> /\ f[i] = s[j][1]
                                  /\ (\A k \in 1 .. j - 1 : s[k] # <<>>) => i = j
          BY <2>1, <4>2 DEF Remains, f, m
        <5>2. j \in 1 .. n + 1
          OBVIOUS
        <5> QED BY <3>1, <4>2, <5>1, <5>2
      <4> QED BY <2>7, <3>1, <4>1, <4>2
    <3>6. (\A k \in 1 .. n + 1 : s[k] # <<>>) => Len(g) = n + 1
      BY <3>1, <3>3
    <3> QED BY <2>7, <3>4, <3>5, <3>6 DEF Remains, g
  <2> QED BY <2>5, <2>8, <2>9
<1>3. Len(s) \in T
  <2>1. \A n \in Nat : n \in T
    <3> HIDE DEF T
    <3> QED BY <1>1, <1>2, NaturalInduction
  <2> HIDE DEF T
  <2> QED BY <1>0, <2>1
<1>4. Remains(s, F(Len(s)), Len(s))
  <2> HIDE DEF F
  <2> QED BY <1>0, <1>3
<1>5. SubSeq(s, 1, Len(s)) = s
  <2>1. /\ SubSeq(s, 0 + 1, Len(s)) \in Seq(Seq(S)) /\ Len(SubSeq(s, 0 + 1, Len(s))) = Len(s) - 0
        /\ \A k \in 1 .. Len(s) - 0 : SubSeq(s, 0 + 1, Len(s))[k] = s[0 + k]
    <3>1. 0 \in 0 .. Len(s) /\ Len(s) \in 0 .. Len(s)
      BY <1>0
    <3> QED BY <3>1, Slice
  <2>2. Len(SubSeq(s, 1, Len(s))) = Len(s) /\ \A k \in 1 .. Len(s) : SubSeq(s, 1, Len(s))[k] = s[k]
    BY <1>0, <2>1
  <2> QED BY <1>0, <2>1, <2>2, SeqEqual
<1> QED BY <1>4, <1>5
=============================================================================
