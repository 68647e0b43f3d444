------------------------- MODULE StreamEventProofs --------------------------
(***************************************************************************)
(* Proofs about StreamEvent, for events of any depth and size and any      *)
(* order in which their strings are visited.                               *)
(*                                                                         *)
(* A path is Valid if at each value on its way there is something at the   *)
(* next segment.  Two paths part at a segment, or one goes Along the       *)
(* other.  To change or remove what is at the end of one builds the values *)
(* on its way anew (ChangedAt), and the other leaves that way where they   *)
(* part, by a segment at which the new value has what the old one had.  So *)
(* the tree Becomes, string by string, what is said of each path alone:    *)
(* that, and what is held and flushed, is the inductive invariant EventInv.*)
(*                                                                         *)
(* Of what is pruned each value has its place in the tree (Stems), with    *)
(* the same keys, and a smaller position at most; its address is the same  *)
(* if what gives an item its number stays (SignalsAreKept).  The event     *)
(* made for a tail has nothing but blanks beside the way to it (BareWay),  *)
(* so that it is read there and nowhere else (TextsAreConserved).          *)
(*                                                                         *)
(* And so with SseStream's few words on an event: the texts that have a    *)
(* place, whatever is under the first delta and the finish reason are the  *)
(* same in the event and the pruned tree (SseStreamAgrees).                *)
(***************************************************************************)
EXTENDS StreamEvent, SequenceLemmas

(* A value has something at segment s. *)
Leads(u, s) == WellFormed(u) /\ s \in Segments(u)

-----------------------------------------------------------------------------
LEMMA SegmentsTyped ==
  ASSUME NEW u, WellFormed(u)
  PROVE  Segments(u) \subseteq Segment
<1>1. CASE u.kind = "array"
  <2>1. u.items \in Seq(ToSet(u.items))
    BY <1>1 DEF WellFormed, Scalars
  <2>2. DOMAIN u.items = 1 .. Len(u.items) /\ Len(u.items) \in Nat
    BY <2>1, LenProperties
  <2>3. \A k \in DOMAIN u.items : k - 1 \in Nat
    BY <2>2
  <2>4. Segments(u) = {Index(k - 1) : k \in DOMAIN u.items}
    BY <1>1 DEF Segments
  <2> QED BY <2>3, <2>4 DEF Index, Segment
<1>2. CASE u.kind = "object"
  <2>1. DOMAIN u.fields \subseteq STRING
    BY <1>2 DEF WellFormed, Scalars
  <2>2. Segments(u) = {Key(k) : k \in DOMAIN u.fields}
    BY <1>2 DEF Segments
  <2> QED BY <2>1, <2>2 DEF Key, Segment
<1>3. CASE u.kind \notin {"array", "object"}
  BY <1>3 DEF Segments
<1> QED BY <1>1, <1>2, <1>3

(* What a segment is. *)
LEMMA SegmentCases ==
  ASSUME NEW s \in Segment
  PROVE  \/ IsKey(s) /\ s.key \in STRING /\ s = Key(s.key)
         \/ ~IsKey(s) /\ s.index \in Nat /\ s = Index(s.index)
<1>1. CASE s \in [key : STRING]
  BY <1>1 DEF IsKey, Key
<1>2. CASE s \in [index : Nat]
  BY <1>2 DEF IsKey, Index
<1> QED BY <1>1, <1>2 DEF Segment

(***************************************************************************)
(* Putting a value in the place of another changes nothing beside it.      *)
(***************************************************************************)
LEMMA ChildOfChanged ==
  ASSUME NEW u, NEW s \in Segment, Leads(u, s), NEW x
  PROVE  /\ Child(WithChild(u, s, x), s) = x
         /\ \A r \in Segment : r # s => Child(WithChild(u, s, x), r) = Child(u, r)
         /\ WellFormed(WithChild(u, s, x))
         /\ Segments(WithChild(u, s, x)) = Segments(u)
         /\ WithChild(u, s, x).kind = u.kind
<1> DEFINE y == WithChild(u, s, x)
<1>1. CASE u.kind = "object"
  <2>1. /\ u = Object(u.fields) /\ DOMAIN u.fields \subseteq STRING
        /\ u.fields = [k \in DOMAIN u.fields |-> u.fields[k]]
        /\ s \in {Key(k) : k \in DOMAIN u.fields}
    BY <1>1 DEF Leads, WellFormed, Segments, Scalars
  <2>2. IsKey(s) /\ s.key \in DOMAIN u.fields /\ s = Key(s.key)
    BY <2>1 DEF IsKey, Key
  <2> DEFINE f == [u.fields EXCEPT ![s.key] = x]
  <2>3. y = Object(f)
    BY <2>1, <2>2 DEF WithChild, Object
  <2>4. /\ DOMAIN f = DOMAIN u.fields /\ f[s.key] = x
        /\ \A k \in DOMAIN f : k # s.key => f[k] = u.fields[k]
        /\ f = [k \in DOMAIN f |-> f[k]]
    BY <2>1, <2>2
  <2> HIDE DEF f
  <2>5. y.kind = "object" /\ y.fields = f
    BY <2>3 DEF Object
  <2> HIDE DEF y
  <2>6. Child(y, s) = x
    BY <2>2, <2>4, <2>5 DEF Child
  <2>7. ASSUME NEW r \in Segment, r # s
        PROVE  Child(y, r) = Child(u, r)
    <3>1. CASE IsKey(r)
      <4>1. r.key # s.key
        BY <2>2, <2>7, <3>1, SegmentCases
      <4> QED BY <1>1, <2>4, <2>5, <3>1, <4>1 DEF Child
    <3>2. CASE ~IsKey(r)
      BY <1>1, <2>5, <3>2 DEF Child
    <3> QED BY <3>1, <3>2
  <2>8. WellFormed(y)
    BY <2>1, <2>3, <2>4, <2>5 DEF WellFormed
  <2>9. Segments(y) = Segments(u)
    BY <1>1, <2>4, <2>5 DEF Segments
  <2> QED BY <1>1, <2>5, <2>6, <2>7, <2>8, <2>9 DEF y
<1>2. CASE u.kind = "array"
  <2>1. /\ u = Array(u.items) /\ u.items \in Seq(ToSet(u.items))
        /\ s \in {Index(k - 1) : k \in DOMAIN u.items}
    BY <1>2 DEF Leads, WellFormed, Segments, Scalars
  <2>2. DOMAIN u.items = 1 .. Len(u.items) /\ Len(u.items) \in Nat
    BY <2>1, LenProperties
  <2>3. ~IsKey(s) /\ s.index + 1 \in DOMAIN u.items /\ s.index \in Nat /\ s = Index(s.index)
        /\ s.index < Len(u.items)
    <3>1. PICK k \in DOMAIN u.items : s = Index(k - 1)
      BY <2>1
    <3>2. ~IsKey(s) /\ s.index = k - 1
      BY <3>1 DEF IsKey, Index
    <3> QED BY <2>2, <3>1, <3>2
  <2> DEFINE f == [u.items EXCEPT ![s.index + 1] = x]
  <2>4. y = Array(f)
    <3>1. y = [u EXCEPT !.items[s.index + 1] = x]
      BY <2>3 DEF WithChild
    <3>2. u = [kind |-> "array", items |-> u.items]
      BY <2>1 DEF Array
    <3> QED BY <3>1, <3>2 DEF Array
  <2>5. /\ DOMAIN f = 1 .. Len(u.items) /\ f[s.index + 1] = x
        /\ \A k \in 1 .. Len(u.items) : k # s.index + 1 => f[k] = u.items[k]
        /\ f = [k \in DOMAIN f |-> f[k]]
    BY <2>1, <2>2, <2>3
  <2> HIDE DEF f
  <2>6. f \in Seq(ToSet(f)) /\ Len(f) = Len(u.items)
    <3>1. f \in [1 .. Len(u.items) -> ToSet(f)]
      BY <2>5 DEF ToSet
    <3>2. f \in Seq(ToSet(f))
      BY <2>2, <3>1, SeqDef
    <3> QED BY <2>2, <2>5, <3>2, LenProperties
  <2>7. y.kind = "array" /\ y.items = f
    BY <2>4 DEF Array
  <2> HIDE DEF y
  <2>8. Child(y, s) = x
    BY <2>3, <2>5, <2>6, <2>7 DEF Child
  <2>9. ASSUME NEW r \in Segment, r # s
        PROVE  Child(y, r) = Child(u, r)
    <3>1. CASE IsKey(r)
      BY <1>2, <2>7, <3>1 DEF Child
    <3>2. CASE ~IsKey(r)
      <4>1. r.index # s.index /\ r.index \in Nat
        BY <2>3, <2>9, <3>2, SegmentCases
      <4>2. r.index < Len(u.items) => f[r.index + 1] = u.items[r.index + 1]
        <5>1. r.index < Len(u.items) => r.index + 1 \in 1 .. Len(u.items)
          BY <2>2, <4>1
        <5>2. r.index + 1 # s.index + 1
          BY <2>3, <4>1
        <5> QED BY <2>5, <5>1, <5>2
      <4> QED BY <1>2, <2>6, <2>7, <3>2, <4>2 DEF Child
    <3> QED BY <3>1, <3>2
  <2>10. WellFormed(y)
    BY <2>4, <2>6, <2>7 DEF WellFormed
  <2>11. Segments(y) = Segments(u)
    BY <1>2, <2>2, <2>5, <2>7 DEF Segments
  <2> QED BY <1>2, <2>7, <2>8, <2>9, <2>10, <2>11 DEF y
<1>3. CASE u.kind \notin {"array", "object"}
  BY <1>3 DEF Leads, Segments
<1> QED BY <1>1, <1>2, <1>3


-----------------------------------------------------------------------------
(* The functions of the operators that walk along a path exist. *)
LEMMA WalkExists ==
  ASSUME NEW v, NEW path, Len(path) \in Nat
  PROVE  \E f : /\ DOMAIN f = 0 .. Len(path)
                /\ f = [k \in 0 .. Len(path) |-> IF k = 0 THEN v ELSE Child(f[k - 1], path[k])]
<1> DEFINE Upto(n) == \E f : f = [k \in 0 .. n |-> IF k = 0 THEN v ELSE Child(f[k - 1], path[k])]
           T == {n \in Nat : Upto(n)}
<1>1. Upto(0)
  <2> DEFINE f == [k \in 0 .. 0 |-> v]
  <2>1. f = [k \in 0 .. 0 |-> IF k = 0 THEN v ELSE Child(f[k - 1], path[k])]
    OBVIOUS
  <2> QED BY <2>1
<1>2. ASSUME NEW n \in Nat, Upto(n)
      PROVE  Upto(n + 1)
  <2>1. PICK f : f = [k \in 0 .. n |-> IF k = 0 THEN v ELSE Child(f[k - 1], path[k])]
    BY <1>2
  <2> DEFINE e == Child(f[n], path[n + 1])
             g == [k \in 0 .. n + 1 |-> IF k = n + 1 THEN e ELSE f[k]]
  <2>2. DOMAIN f = 0 .. n /\ \A k \in 0 .. n : f[k] = IF k = 0 THEN v ELSE Child(f[k - 1], path[k])
    BY <2>1
  <2>3. ASSUME NEW k \in 0 .. n + 1
        PROVE  g[k] = IF k = 0 THEN v ELSE Child(g[k - 1], path[k])
    <3>1. CASE k = n + 1
      <4>1. k - 1 = n /\ g[n] = f[n] /\ g[n + 1] = e /\ k # 0
        BY <3>1
      <4> HIDE DEF g
      <4> QED BY <3>1, <4>1
    <3>2. CASE k \in 0 .. n
      <4>1. g[k] = f[k] /\ (k # 0 => g[k - 1] = f[k - 1])
        BY <3>2
      <4> HIDE DEF g
      <4> QED BY <2>2, <3>2, <4>1
    <3> QED BY <3>1, <3>2
  <2>4. g = [k \in 0 .. n + 1 |-> g[k]]
    OBVIOUS
  <2> HIDE DEF g
  <2>5. g = [k \in 0 .. n + 1 |-> IF k = 0 THEN v ELSE Child(g[k - 1], path[k])]
    BY <2>3, <2>4
  <2> QED BY <2>5
<1>3. \A n \in Nat : n \in T
  <2> HIDE DEF Upto
  <2>1. 0 \in T /\ \A n \in Nat : n \in T => n + 1 \in T
    BY <1>1, <1>2
  <2> HIDE DEF T
  <2> QED BY <2>1, NaturalInduction
<1> QED BY <1>3

LEMMA WalkFacts ==
  ASSUME NEW v, NEW path, Len(path) \in Nat
  PROVE  /\ Walk(v, path)[0] = v
         /\ \A k \in 1 .. Len(path) : Walk(v, path)[k] = Child(Walk(v, path)[k - 1], path[k])
<1> DEFINE W == Walk(v, path)
<1>1. W = [k \in 0 .. Len(path) |-> IF k = 0 THEN v ELSE Child(W[k - 1], path[k])]
  BY WalkExists DEF Walk
<1> HIDE DEF W
<1>2. \A k \in 0 .. Len(path) : W[k] = IF k = 0 THEN v ELSE Child(W[k - 1], path[k])
  BY <1>1
<1> QED BY <1>2 DEF W

(* Two ways go together as long as the paths do. *)
LEMMA WalkTogether ==
  ASSUME NEW v, NEW p, NEW q, Len(p) \in Nat, Len(q) \in Nat, NEW n \in Nat,
         n =< Len(p), n =< Len(q), \A k \in 1 .. n : p[k] = q[k]
  PROVE  \A k \in 0 .. n : Walk(v, p)[k] = Walk(v, q)[k]
<1> DEFINE T == {k \in Nat : k =< n => Walk(v, p)[k] = Walk(v, q)[k]}
<1>1. 0 \in T
  BY WalkFacts
<1>2. ASSUME NEW k \in Nat, k \in T
      PROVE  k + 1 \in T
  <2>1. CASE k + 1 =< n
    <3>1. k + 1 \in 1 .. n /\ k + 1 \in 1 .. Len(p) /\ k + 1 \in 1 .. Len(q) /\ (k + 1) - 1 = k /\ k =< n
      BY <2>1
    <3>2. /\ Walk(v, p)[k + 1] = Child(Walk(v, p)[(k + 1) - 1], p[k + 1])
          /\ Walk(v, q)[k + 1] = Child(Walk(v, q)[(k + 1) - 1], q[k + 1])
      BY <3>1, WalkFacts
    <3> QED BY <1>2, <3>1, <3>2
  <2>2. CASE ~(k + 1 =< n)
    BY <2>2
  <2> QED BY <2>1, <2>2
<1>3. \A k \in Nat : k \in T
  <2> HIDE DEF T
  <2> QED BY <1>1, <1>2, NaturalInduction
<1> QED BY <1>3

(* The values that are built from the place of the change to the root. *)
Rebuilds(b, v, path, w) ==
  /\ b[0] = Replaced(v, path, w)
  /\ b[Len(path)] = w
  /\ \A k \in 0 .. Len(path) - 1 : b[k] = WithChild(Walk(v, path)[k], path[k + 1], b[k + 1])

LEMMA ReplacedFacts ==
  ASSUME NEW v, NEW path, Len(path) \in Nat, NEW w
  PROVE  \E b : Rebuilds(b, v, path, w)
<1> DEFINE n == Len(path)
           at == Walk(v, path)
           Step(f, k) == IF k = n THEN w ELSE WithChild(at[k], path[k + 1], f[k + 1])
           Upto(m) == \E f : f = [k \in n - m .. n |-> Step(f, k)]
           T == {m \in Nat : m =< n => Upto(m)}
<1> HIDE DEF at
<1>1. Upto(0)
  <2> DEFINE f == [k \in n - 0 .. n |-> w]
  <2>1. f = [k \in n - 0 .. n |-> Step(f, k)]
    OBVIOUS
  <2> QED BY <2>1
<1>2. ASSUME NEW m \in Nat, Upto(m), m + 1 =< n
      PROVE  Upto(m + 1)
  <2>1. PICK f : f = [k \in n - m .. n |-> Step(f, k)]
    BY <1>2
  <2> DEFINE i == n - (m + 1)
             e == WithChild(at[i], path[i + 1], f[i + 1])
             g == [k \in i .. n |-> IF k = i THEN e ELSE f[k]]
  <2>0. i \in Nat /\ i + 1 = n - m /\ i # n /\ n \in Nat /\ i < n
    BY <1>2
  <2> HIDE DEF i, n
  <2>2. \A k \in i + 1 .. n : f[k] = Step(f, k)
    BY <2>0, <2>1
  <2>3. ASSUME NEW k \in i .. n
        PROVE  g[k] = Step(g, k)
    <3>1. CASE k = i
      <4>1. g[i] = e /\ g[i + 1] = f[i + 1]
        BY <2>0
      <4> HIDE DEF g
      <4> QED BY <2>0, <3>1, <4>1
    <3>2. CASE k \in i + 1 .. n
      <4>1. g[k] = f[k] /\ (k # n => g[k + 1] = f[k + 1])
        BY <2>0, <3>2
      <4> HIDE DEF g
      <4> QED BY <2>2, <3>2, <4>1
    <3> QED BY <2>0, <3>1, <3>2
  <2>4. g = [k \in i .. n |-> g[k]]
    OBVIOUS
  <2> HIDE DEF g
  <2>5. g = [k \in i .. n |-> Step(g, k)]
    BY <2>3, <2>4
  <2> QED BY <2>5 DEF i
<1>3. \A m \in Nat : m \in T
  <2> HIDE DEF Upto
  <2>1. 0 \in T
    BY <1>1
  <2>2. ASSUME NEW m \in Nat, m \in T
        PROVE  m + 1 \in T
    <3>1. m + 1 =< n => m =< n
      OBVIOUS
    <3> QED BY <1>2, <2>2, <3>1
  <2> HIDE DEF T
  <2> QED BY <2>1, <2>2, NaturalInduction
<1>4. \E f : f = [k \in 0 .. n |-> Step(f, k)]
  <2>1. n \in Nat /\ n - n = 0
    OBVIOUS
  <2>2. Upto(n)
    <3> HIDE DEF Upto
    <3> QED BY <1>3, <2>1
  <2> QED BY <2>1, <2>2
<1> DEFINE b == Rebuilt(v, path, w)
<1>5. b = [k \in 0 .. n |-> Step(b, k)]
  BY <1>4 DEF Rebuilt, at
<1>6. Replaced(v, path, w) = b[0]
  BY DEF Replaced
<1> HIDE DEF b
<1>7. \A k \in 0 .. n : b[k] = Step(b, k)
  BY <1>5
<1>8. b[n] = w /\ \A k \in 0 .. n - 1 : b[k] = WithChild(at[k], path[k + 1], b[k + 1])
  BY <1>7
<1> QED BY <1>6, <1>8 DEF Rebuilds, at


-----------------------------------------------------------------------------
(* All the way along p there is something, up to the last segment. *)
Valid(v, p) ==
  /\ p \in Seq(Segment)
  /\ \A k \in 0 .. Len(p) - 1 : Leads(Walk(v, p)[k], p[k + 1])

(* The paths part at segment d. *)
PartAt(p, q, d) ==
  /\ d \in 1 .. Len(p) /\ d \in 1 .. Len(q)
  /\ p[d] # q[d]
  /\ \A k \in 1 .. d - 1 : p[k] = q[k]

LEMMA WalkOn ==
  ASSUME NEW u, NEW v, NEW p, Len(p) \in Nat, NEW d \in 0 .. Len(p), Walk(u, p)[d] = Walk(v, p)[d]
  PROVE  \A k \in d .. Len(p) : Walk(u, p)[k] = Walk(v, p)[k]
<1> DEFINE T == {j \in Nat : d + j =< Len(p) => Walk(u, p)[d + j] = Walk(v, p)[d + j]}
<1>1. 0 \in T
  OBVIOUS
<1>2. ASSUME NEW j \in Nat, j \in T
      PROVE  j + 1 \in T
  <2>1. CASE d + (j + 1) =< Len(p)
    <3>1. d + (j + 1) \in 1 .. Len(p) /\ (d + (j + 1)) - 1 = d + j /\ d + j =< Len(p)
      BY <2>1
    <3>2. /\ Walk(u, p)[d + (j + 1)] = Child(Walk(u, p)[(d + (j + 1)) - 1], p[d + (j + 1)])
          /\ Walk(v, p)[d + (j + 1)] = Child(Walk(v, p)[(d + (j + 1)) - 1], p[d + (j + 1)])
      BY <3>1, WalkFacts
    <3> QED BY <1>2, <3>1, <3>2
  <2>2. CASE ~(d + (j + 1) =< Len(p))
    BY <2>2
  <2> QED BY <2>1, <2>2
<1>3. \A j \in Nat : j \in T
  <2> HIDE DEF T
  <2> QED BY <1>1, <1>2, NaturalInduction
<1>4. ASSUME NEW k \in d .. Len(p)
      PROVE  Walk(u, p)[k] = Walk(v, p)[k]
  <2>1. k - d \in Nat /\ d + (k - d) = k /\ d + (k - d) =< Len(p)
    OBVIOUS
  <2>2. k - d \in T
    <3> HIDE DEF T
    <3> QED BY <1>3, <2>1
  <2> QED BY <2>1, <2>2
<1> QED BY <1>4

(* Along the path of the change the values are those rebuilt. *)
LEMMA AlongReplaced ==
  ASSUME NEW v, NEW c, Valid(v, c), NEW w, NEW b, Rebuilds(b, v, c, w),
         NEW p, Len(p) \in Nat, NEW n \in Nat, n =< Len(p), n =< Len(c),
         \A k \in 1 .. n : p[k] = c[k]
  PROVE  \A k \in 0 .. n : Walk(Replaced(v, c, w), p)[k] = b[k]
<1> DEFINE u == Replaced(v, c, w)
           T == {k \in Nat : k =< n => Walk(u, p)[k] = b[k]}
<1>0. Len(c) \in Nat /\ c \in Seq(Segment) /\ b[0] = u
  BY LenProperties DEF Valid, Rebuilds
<1> HIDE DEF u
<1>1. 0 \in T
  BY <1>0, WalkFacts
<1>2. ASSUME NEW k \in Nat, k \in T
      PROVE  k + 1 \in T
  <2>1. CASE k + 1 =< n
    <3>1. /\ k + 1 \in 1 .. Len(p) /\ k \in 0 .. Len(c) - 1 /\ (k + 1) - 1 = k /\ k =< n
          /\ k + 1 \in 1 .. n /\ k + 1 \in 1 .. Len(c)
      BY <1>0, <2>1
    <3>2. Walk(u, p)[k + 1] = Child(Walk(u, p)[(k + 1) - 1], p[k + 1])
      BY <3>1, WalkFacts
    <3>3. Walk(u, p)[k + 1] = Child(b[k], c[k + 1])
      BY <1>2, <3>1, <3>2
    <3>4. b[k] = WithChild(Walk(v, c)[k], c[k + 1], b[k + 1]) /\ Leads(Walk(v, c)[k], c[k + 1])
      BY <3>1 DEF Rebuilds, Valid
    <3>5. c[k + 1] \in Segment
      BY <1>0, <3>1, ElementOfSeq
    <3> QED BY <3>3, <3>4, <3>5, ChildOfChanged
  <2>2. CASE ~(k + 1 =< n)
    BY <2>2
  <2> QED BY <2>1, <2>2
<1>3. \A k \in Nat : k \in T
  <2> HIDE DEF T
  <2> QED BY <1>1, <1>2, NaturalInduction
<1> QED BY <1>3 DEF u

(* The path to the container of what is at c. *)
LEMMA FrontFacts ==
  ASSUME NEW v, NEW c, Valid(v, c), c # <<>>
  PROVE  /\ Valid(v, Front(c)) /\ Len(c) \in Nat \ {0} /\ Len(Front(c)) = Len(c) - 1
         /\ \A k \in 1 .. Len(c) - 1 : Front(c)[k] = c[k]
         /\ ValueAt(v, Front(c)) = Walk(v, c)[Len(c) - 1]
         /\ Leads(Walk(v, c)[Len(c) - 1], Last(c)) /\ Last(c) \in Segment
<1> DEFINE f == Front(c)
           n == Len(c) - 1
<1>1. c \in Seq(Segment) /\ Len(c) \in Nat /\ Len(c) # 0
  <2>1. c \in Seq(Segment)
    BY DEF Valid
  <2> QED BY <2>1, LenProperties, EmptySeq
<1>2. /\ n \in Nat /\ n \in 0 .. Len(c) /\ n + 1 = Len(c) /\ 0 \in 0 .. Len(c) /\ n - 0 = n
      /\ n \in 0 .. Len(c) - 1
  BY <1>1
<1>3. f \in Seq(Segment) /\ Len(f) = n /\ \A k \in 1 .. n : f[k] = c[k]
  <2>1. f = SubSeq(c, 0 + 1, n)
    BY DEF Front
  <2> HIDE DEF f, n
  <2>2. /\ SubSeq(c, 0 + 1, n) \in Seq(Segment) /\ Len(SubSeq(c, 0 + 1, n)) = n - 0
        /\ \A k \in 1 .. n - 0 : SubSeq(c, 0 + 1, n)[k] = c[0 + k]
    BY <1>1, <1>2, Slice
  <2> QED BY <1>2, <2>1, <2>2
<1> HIDE DEF f
<1>4. \A k \in 0 .. n : Walk(v, f)[k] = Walk(v, c)[k]
  <2> HIDE DEF n
  <2> QED BY <1>1, <1>2, <1>3, WalkTogether
<1>5. ASSUME NEW k \in 0 .. n - 1
      PROVE  Leads(Walk(v, f)[k], f[k + 1])
  <2>1. k \in 0 .. Len(c) - 1 /\ k \in 0 .. n /\ k + 1 \in 1 .. n
    BY <1>2
  <2>2. Leads(Walk(v, c)[k], c[k + 1])
    BY <2>1 DEF Valid
  <2> QED BY <1>3, <1>4, <2>1, <2>2
<1>6. ValueAt(v, f) = Walk(v, c)[n]
  <2>1. n \in 0 .. n
    BY <1>2
  <2> QED BY <1>3, <1>4, <2>1 DEF ValueAt
<1>7. Leads(Walk(v, c)[n], c[Len(c)]) /\ c[Len(c)] \in Segment
  <2>1. Leads(Walk(v, c)[n], c[n + 1])
    BY <1>2 DEF Valid
  <2> QED BY <1>1, <1>2, <2>1, ElementOfSeq
<1> QED BY <1>1, <1>3, <1>5, <1>6, <1>7 DEF f, Valid, Last

-----------------------------------------------------------------------------
(* p leads on to c, or is c. *)
Along(p, c) == Len(p) =< Len(c) /\ \A k \in 1 .. Len(p) : p[k] = c[k]

(* The values on the way to c differ at the segment of c alone. *)
Beside(x, y, s) ==
  /\ WellFormed(x) /\ WellFormed(y) /\ x.kind = y.kind
  /\ \A r \in Segment \ {s} : (r \in Segments(x) <=> r \in Segments(y)) /\ Child(x, r) = Child(y, r)

(* u is v but for what is at c. *)
ChangedAt(u, v, c) ==
  \A n \in 0 .. Len(c) - 1 :
    /\ Beside(Walk(u, c)[n], Walk(v, c)[n], c[n + 1])
    /\ n < Len(c) - 1 => Leads(Walk(u, c)[n], c[n + 1])

LEMMA PathCases ==
  ASSUME NEW p \in Seq(Segment), NEW c \in Seq(Segment)
  PROVE  Along(p, c) \/ Along(c, p) \/ \E d : PartAt(p, c, d)
<1>0. Len(p) \in Nat /\ Len(c) \in Nat
  BY LenProperties
<1> DEFINE D == {d \in Nat : d \in 1 .. Len(p) /\ d \in 1 .. Len(c) /\ p[d] # c[d]}
<1>1. CASE D = {}
  <2>1. \A k \in 1 .. Len(p) : k \in 1 .. Len(c) => p[k] = c[k]
    BY <1>0, <1>1
  <2>2. CASE Len(p) =< Len(c)
    <3>1. \A k \in 1 .. Len(p) : p[k] = c[k]
      BY <1>0, <2>1, <2>2
    <3> QED BY <2>2, <3>1 DEF Along
  <2>3. CASE Len(c) =< Len(p)
    <3>1. \A k \in 1 .. Len(c) : c[k] = p[k]
      BY <1>0, <2>1, <2>3
    <3> QED BY <2>3, <3>1 DEF Along
  <2> QED BY <1>0, <2>2, <2>3
<1>2. CASE D # {}
  <2>1. PICK d \in D : \A e \in D : d =< e
    <3>1. D \in SUBSET Nat
      OBVIOUS
    <3> HIDE DEF D
    <3> QED BY <1>2, <3>1, LeastNatural
  <2>2. \A k \in 1 .. d - 1 : p[k] = c[k]
    <3> SUFFICES ASSUME NEW k \in 1 .. d - 1, p[k] # c[k]
                 PROVE  FALSE
      OBVIOUS
    <3>1. k \in D /\ k < d
      BY <1>0
    <3> QED BY <2>1, <3>1
  <2> QED BY <2>2 DEF PartAt
<1> QED BY <1>1, <1>2

LEMMA SamePath ==
  ASSUME NEW p \in Seq(Segment), NEW c \in Seq(Segment), Along(p, c), Len(c) =< Len(p)
  PROVE  p = c
<1>1. Len(p) \in Nat /\ Len(c) \in Nat
  BY LenProperties
<1>2. Len(p) = Len(c) /\ \A k \in 1 .. Len(p) : p[k] = c[k]
  BY <1>1 DEF Along
<1> QED BY <1>2, SeqEqual

(* Nothing is below a value that holds nothing, or that is not there. *)
LEMMA NothingBelow ==
  ASSUME NEW v, NEW c \in Seq(Segment), NEW p, Valid(v, p), Along(c, p)
  PROVE  Valid(v, c) /\ (p # c => Segments(ValueAt(v, c)) # {})
<1>1. p \in Seq(Segment) /\ Len(p) \in Nat /\ Len(c) \in Nat /\ Len(c) =< Len(p)
      /\ \A k \in 1 .. Len(c) : c[k] = p[k]
  BY LenProperties DEF Valid, Along
<1>2. \A k \in 0 .. Len(c) : Walk(v, c)[k] = Walk(v, p)[k]
  BY <1>1, WalkTogether
<1>3. Valid(v, c)
  <2> SUFFICES ASSUME NEW k \in 0 .. Len(c) - 1
               PROVE  Leads(Walk(v, c)[k], c[k + 1])
    BY DEF Valid
  <2>1. k \in 0 .. Len(c) /\ k \in 0 .. Len(p) - 1 /\ k + 1 \in 1 .. Len(c)
    BY <1>1
  <2>2. Leads(Walk(v, p)[k], p[k + 1])
    BY <2>1 DEF Valid
  <2> QED BY <1>1, <1>2, <2>1, <2>2
<1>4. ASSUME p # c
      PROVE  Segments(ValueAt(v, c)) # {}
  <2>1. Len(c) < Len(p)
    BY <1>1, <1>4, SeqEqual
  <2>2. Len(c) \in 0 .. Len(p) - 1 /\ Len(c) \in 0 .. Len(c)
    BY <1>1, <2>1
  <2>3. Leads(Walk(v, p)[Len(c)], p[Len(c) + 1])
    BY <2>2 DEF Valid
  <2> QED BY <1>2, <2>2, <2>3 DEF ValueAt, Leads
<1> QED BY <1>3, <1>4

(* What stands at a path that parts from c is the same. *)
LEMMA ApartFromChange ==
  ASSUME NEW u, NEW v, NEW c, Valid(v, c), ChangedAt(u, v, c),
         NEW p \in Seq(Segment), NEW d, PartAt(p, c, d)
  PROVE  (Valid(u, p) <=> Valid(v, p)) /\ ValueAt(u, p) = ValueAt(v, p)
<1>0. /\ c \in Seq(Segment) /\ Len(c) \in Nat /\ Len(p) \in Nat
      /\ d \in 1 .. Len(p) /\ d \in 1 .. Len(c) /\ p[d] # c[d]
      /\ \A k \in 1 .. d - 1 : p[k] = c[k]
  BY LenProperties DEF Valid, PartAt
<1> DEFINE n == d - 1
<1>1. /\ n \in Nat /\ n + 1 = d /\ n =< Len(p) /\ n =< Len(c) /\ n \in 0 .. Len(c) - 1
      /\ n \in 0 .. n /\ d - 1 = n
  BY <1>0
<1> HIDE DEF n
<1>2. \A k \in 0 .. n : Walk(u, p)[k] = Walk(u, c)[k] /\ Walk(v, p)[k] = Walk(v, c)[k]
  BY <1>0, <1>1, WalkTogether
<1>3. Beside(Walk(u, c)[n], Walk(v, c)[n], c[d]) /\ p[d] \in Segment \ {c[d]}
  BY <1>0, <1>1, ElementOfSeq DEF ChangedAt
<1>4. Walk(u, p)[d] = Walk(v, p)[d]
  <2>1. Walk(u, p)[d] = Child(Walk(u, p)[d - 1], p[d]) /\ Walk(v, p)[d] = Child(Walk(v, p)[d - 1], p[d])
    BY <1>0, WalkFacts
  <2>2. Child(Walk(u, c)[n], p[d]) = Child(Walk(v, c)[n], p[d])
    BY <1>3 DEF Beside
  <2> QED BY <1>1, <1>2, <2>1, <2>2
<1>5. \A k \in d .. Len(p) : Walk(u, p)[k] = Walk(v, p)[k]
  BY <1>0, <1>4, WalkOn
<1>6. ASSUME NEW k \in 0 .. Len(p) - 1
      PROVE  Leads(Walk(u, p)[k], p[k + 1]) <=> Leads(Walk(v, p)[k], p[k + 1])
  <2>1. CASE k < n
    <3>1. k \in 0 .. n /\ k \in 0 .. Len(c) - 1 /\ k < Len(c) - 1 /\ k + 1 \in 1 .. d - 1
      BY <1>0, <1>1, <2>1
    <3>2. Leads(Walk(u, c)[k], c[k + 1]) /\ Leads(Walk(v, c)[k], c[k + 1])
      BY <3>1 DEF ChangedAt, Valid
    <3> QED BY <1>0, <1>2, <3>1, <3>2
  <2>2. CASE k = n
    <3>1. Walk(u, p)[k] = Walk(u, c)[n] /\ Walk(v, p)[k] = Walk(v, c)[n] /\ p[k + 1] = p[d]
      BY <1>1, <1>2, <2>2
    <3> QED BY <1>3, <3>1 DEF Beside, Leads
  <2>3. CASE k \in d .. Len(p)
    BY <1>5, <2>3
  <2> QED BY <1>0, <1>1, <2>1, <2>2, <2>3
<1>7. ValueAt(u, p) = ValueAt(v, p)
  <2>1. Len(p) \in d .. Len(p)
    BY <1>0
  <2> QED BY <1>5, <2>1 DEF ValueAt
<1> QED BY <1>6, <1>7 DEF Valid

(* On the way to c there are the same containers, which have the same beside c. *)
LEMMA OnTheWayToChange ==
  ASSUME NEW u, NEW v, NEW c, Valid(v, c), ChangedAt(u, v, c),
         NEW p \in Seq(Segment), Along(p, c), p # c
  PROVE  /\ Valid(u, p) /\ Valid(v, p)
         /\ Len(p) + 1 \in 1 .. Len(c)
         /\ Beside(ValueAt(u, p), ValueAt(v, p), c[Len(p) + 1])
<1>0. /\ c \in Seq(Segment) /\ Len(c) \in Nat /\ Len(p) \in Nat /\ Len(p) =< Len(c)
      /\ \A k \in 1 .. Len(p) : p[k] = c[k]
  BY LenProperties DEF Valid, Along
<1>1. Len(p) < Len(c)
  BY <1>0, SeqEqual
<1>2. Len(p) \in 0 .. Len(c) - 1 /\ Len(p) \in 0 .. Len(p) /\ Len(p) + 1 \in 1 .. Len(c)
  BY <1>0, <1>1
<1>3. \A k \in 0 .. Len(p) : Walk(u, p)[k] = Walk(u, c)[k] /\ Walk(v, p)[k] = Walk(v, c)[k]
  BY <1>0, WalkTogether
<1>4. ASSUME NEW k \in 0 .. Len(p) - 1
      PROVE  Leads(Walk(u, p)[k], p[k + 1]) /\ Leads(Walk(v, p)[k], p[k + 1])
  <2>1. k \in 0 .. Len(p) /\ k \in 0 .. Len(c) - 1 /\ k < Len(c) - 1 /\ k + 1 \in 1 .. Len(p)
    BY <1>0, <1>1
  <2>2. Leads(Walk(u, c)[k], c[k + 1]) /\ Leads(Walk(v, c)[k], c[k + 1])
    BY <2>1 DEF ChangedAt, Valid
  <2> QED BY <1>0, <1>3, <2>1, <2>2
<1>5. Beside(Walk(u, c)[Len(p)], Walk(v, c)[Len(p)], c[Len(p) + 1])
  BY <1>2 DEF ChangedAt
<1> QED BY <1>2, <1>3, <1>4, <1>5 DEF Valid, ValueAt

(* To replace a value changes that alone. *)
LEMMA ReplacedIsChange ==
  ASSUME NEW v, NEW c, Valid(v, c), NEW w
  PROVE  /\ ChangedAt(Replaced(v, c, w), v, c)
         /\ Valid(Replaced(v, c, w), c)
         /\ ValueAt(Replaced(v, c, w), c) = w
<1> DEFINE u == Replaced(v, c, w)
<1>0. c \in Seq(Segment) /\ Len(c) \in Nat
  BY LenProperties DEF Valid
<1>1. PICK b : Rebuilds(b, v, c, w)
  BY <1>0, ReplacedFacts
<1>2. \A k \in 0 .. Len(c) : Walk(u, c)[k] = b[k]
  BY <1>0, <1>1, AlongReplaced
<1> HIDE DEF u
<1>3. ASSUME NEW n \in 0 .. Len(c) - 1
      PROVE  Leads(Walk(u, c)[n], c[n + 1]) /\ Beside(Walk(u, c)[n], Walk(v, c)[n], c[n + 1])
  <2> DEFINE x == Walk(v, c)[n]
             s == c[n + 1]
             y == WithChild(x, s, b[n + 1])
  <2>1. n \in 0 .. Len(c) /\ n + 1 \in 1 .. Len(c)
    BY <1>0
  <2>2. Walk(u, c)[n] = y /\ Leads(x, s) /\ s \in Segment
    BY <1>0, <1>1, <1>2, <2>1, ElementOfSeq DEF Rebuilds, Valid
  <2> HIDE DEF x, s
  <2>3. /\ WellFormed(y) /\ Segments(y) = Segments(x) /\ y.kind = x.kind
        /\ \A r \in Segment : r # s => Child(y, r) = Child(x, r)
    BY <2>2, ChildOfChanged
  <2> HIDE DEF y
  <2>4. Leads(y, s) /\ Beside(y, x, s)
    BY <2>2, <2>3 DEF Leads, Beside
  <2> QED BY <2>2, <2>4 DEF x, s
<1>4. ValueAt(u, c) = w
  <2>1. Len(c) \in 0 .. Len(c)
    BY <1>0
  <2> QED BY <1>1, <1>2, <2>1 DEF ValueAt, Rebuilds
<1> QED BY <1>0, <1>3, <1>4 DEF ChangedAt, Valid, u

(* An object without one of its fields. *)
LEMMA FieldRemoved ==
  ASSUME NEW u, NEW s \in Segment, Leads(u, s), IsKey(s), NEW w,
         w = Object(Restrict(u.fields, DOMAIN u.fields \ {s.key}))
  PROVE  Beside(w, u, s) /\ s \notin Segments(w)
<1>1. u.kind = "object"
  BY DEF Leads, Segments, Index, IsKey
<1>2. /\ DOMAIN u.fields \subseteq STRING
      /\ u.fields = [k \in DOMAIN u.fields |-> u.fields[k]]
      /\ s \in {Key(k) : k \in DOMAIN u.fields}
  BY <1>1 DEF Leads, WellFormed, Segments, Scalars
<1>3. s.key \in DOMAIN u.fields /\ s = Key(s.key)
  BY <1>2 DEF Key
<1> DEFINE D == DOMAIN u.fields \ {s.key}
           g == [k \in D |-> u.fields[k]]
<1>4. w = Object(g)
  BY DEF Restrict
<1>5. /\ DOMAIN g = D /\ g = [k \in DOMAIN g |-> g[k]]
      /\ \A k \in D : g[k] = u.fields[k]
      /\ D \subseteq STRING
  BY <1>2
<1>6. \A k : k \in D <=> k \in DOMAIN u.fields /\ k # s.key
  OBVIOUS
<1> HIDE DEF g, D
<1>7. w.kind = "object" /\ w.fields = g
  BY <1>4 DEF Object
<1>8. WellFormed(w)
  BY <1>4, <1>5, <1>7 DEF WellFormed
<1>9. Segments(w) = {Key(k) : k \in D}
  BY <1>5, <1>7 DEF Segments
<1>10. Segments(u) = {Key(k) : k \in DOMAIN u.fields}
  BY <1>1 DEF Segments
<1>11. \A k, l : Key(k) = Key(l) => k = l
  <2> SUFFICES ASSUME NEW k, NEW l, Key(k) = Key(l) PROVE k = l
    OBVIOUS
  <2>1. Key(k).key = k /\ Key(l).key = l
    BY DEF Key
  <2> QED BY <2>1
<1>12. s \notin Segments(w)
  BY <1>3, <1>6, <1>9, <1>11
<1>13. ASSUME NEW r \in Segment \ {s}
       PROVE  (r \in Segments(w) <=> r \in Segments(u)) /\ Child(w, r) = Child(u, r)
  <2>1. r \in Segments(w) <=> r \in Segments(u)
    BY <1>3, <1>6, <1>9, <1>10, <1>11
  <2>2. CASE IsKey(r)
    <3>1. r.key # s.key
      BY <1>3, <1>13, <2>2, SegmentCases
    <3> QED BY <1>1, <1>5, <1>6, <1>7, <2>1, <2>2, <3>1 DEF Child
  <2>3. CASE ~IsKey(r)
    BY <1>1, <1>7, <2>1, <2>3 DEF Child
  <2> QED BY <2>1, <2>2, <2>3
<1> QED BY <1>1, <1>7, <1>8, <1>12, <1>13 DEF Beside, Leads

(* To remove one changes that alone: the place of an item of an array is kept. *)
LEMMA RemovedIsChange ==
  ASSUME NEW v, NEW c, Valid(v, c), c # <<>>
  PROVE  /\ ChangedAt(Removed(v, c), v, c)
         /\ IsKey(Last(c)) => ~Valid(Removed(v, c), c)
         /\ ~IsKey(Last(c)) => /\ Valid(Removed(v, c), c)
                               /\ ValueAt(Removed(v, c), c) = Null
<1>1. CASE ~IsKey(Last(c))
  <2>1. Removed(v, c) = Replaced(v, c, Null)
    BY <1>1 DEF Removed
  <2> QED BY <1>1, <2>1, ReplacedIsChange
<1>2. CASE IsKey(Last(c))
  <2> DEFINE f == Front(c)
             n == Len(c) - 1
             parent == ValueAt(v, f)
             w == Object(Restrict(parent.fields, DOMAIN parent.fields \ {Last(c).key}))
             u == Replaced(v, f, w)
  <2>1. Removed(v, c) = u
    BY <1>2 DEF Removed
  <2>2. /\ Valid(v, f) /\ Len(c) \in Nat \ {0} /\ Len(f) = n /\ \A k \in 1 .. n : f[k] = c[k]
        /\ parent = Walk(v, c)[n] /\ Leads(parent, Last(c)) /\ Last(c) \in Segment
    BY FrontFacts
  <2>3. /\ n \in Nat /\ n + 1 = Len(c) /\ n \in 0 .. n /\ n \in 0 .. Len(c) - 1 /\ n =< Len(c)
        /\ c \in Seq(Segment) /\ Last(c) = c[n + 1]
    BY <2>2 DEF Valid, Last
  <2> HIDE DEF f, n, parent
  <2>4. Beside(w, parent, Last(c)) /\ Last(c) \notin Segments(w)
    BY <1>2, <2>2, FieldRemoved
  <2>5. ChangedAt(u, v, f) /\ Valid(u, f) /\ ValueAt(u, f) = w
    BY <2>2, ReplacedIsChange
  <2> HIDE DEF w, u
  <2>6. \A k \in 0 .. n : Walk(u, c)[k] = Walk(u, f)[k] /\ Walk(v, c)[k] = Walk(v, f)[k]
    BY <2>2, <2>3, WalkTogether
  <2>7. Walk(u, c)[n] = w /\ Walk(v, c)[n] = parent
    BY <2>2, <2>3, <2>5, <2>6 DEF ValueAt
  <2>8. ASSUME NEW k \in 0 .. Len(c) - 1
        PROVE  /\ Beside(Walk(u, c)[k], Walk(v, c)[k], c[k + 1])
               /\ k < Len(c) - 1 => Leads(Walk(u, c)[k], c[k + 1])
    <3>1. CASE k < n
      <4>1. k \in 0 .. Len(f) - 1 /\ k \in 0 .. n /\ k + 1 \in 1 .. n
        BY <2>2, <2>3, <3>1
      <4>2. Beside(Walk(u, f)[k], Walk(v, f)[k], f[k + 1]) /\ Leads(Walk(u, f)[k], f[k + 1])
        BY <2>5, <4>1 DEF ChangedAt, Valid
      <4> QED BY <2>2, <2>6, <4>1, <4>2
    <3>2. CASE k = n
      <4>1. ~(k < Len(c) - 1)
        BY <2>3, <3>2
      <4> QED BY <2>3, <2>4, <2>7, <3>2, <4>1
    <3> QED BY <2>3, <3>1, <3>2
  <2>9. ~Valid(u, c)
    <3> SUFFICES ASSUME Valid(u, c) PROVE FALSE
      OBVIOUS
    <3>1. Leads(Walk(u, c)[n], c[n + 1])
      BY <2>3 DEF Valid
    <3> QED BY <2>3, <2>4, <2>7, <3>1 DEF Leads
  <2> QED BY <1>2, <2>1, <2>8, <2>9 DEF ChangedAt
<1> QED BY <1>1, <1>2
-----------------------------------------------------------------------------
LEMMA LevelsExist ==
  ASSUME NEW v
  PROVE  \E f : f = [n \in 0 .. MaxDepth |->
                       IF n = 0 THEN {<<>>} ELSE Longer(v, f[n - 1])]
<1> DEFINE Upto(m) == \E f : f = [n \in 0 .. m |-> IF n = 0 THEN {<<>>} ELSE Longer(v, f[n - 1])]
           T == {m \in Nat : Upto(m)}
<1>1. Upto(0)
  <2> DEFINE f == [n \in 0 .. 0 |-> {<<>>}]
  <2>1. f = [n \in 0 .. 0 |-> IF n = 0 THEN {<<>>} ELSE Longer(v, f[n - 1])]
    OBVIOUS
  <2> QED BY <2>1
<1>2. ASSUME NEW m \in Nat, Upto(m)
      PROVE  Upto(m + 1)
  <2>1. PICK f : f = [n \in 0 .. m |-> IF n = 0 THEN {<<>>} ELSE Longer(v, f[n - 1])]
    BY <1>2
  <2> DEFINE g == [n \in 0 .. m + 1 |-> IF n = m + 1 THEN Longer(v, f[m]) ELSE f[n]]
  <2>2. \A n \in 0 .. m : f[n] = IF n = 0 THEN {<<>>} ELSE Longer(v, f[n - 1])
    BY <2>1
  <2>3. ASSUME NEW n \in 0 .. m + 1
        PROVE  g[n] = IF n = 0 THEN {<<>>} ELSE Longer(v, g[n - 1])
    <3>1. CASE n = m + 1
      <4>1. n - 1 = m /\ g[m] = f[m] /\ g[m + 1] = Longer(v, f[m]) /\ n # 0
        BY <3>1
      <4> HIDE DEF g
      <4> QED BY <3>1, <4>1
    <3>2. CASE n \in 0 .. m
      <4>1. g[n] = f[n] /\ (n # 0 => g[n - 1] = f[n - 1])
        BY <3>2
      <4> HIDE DEF g
      <4> QED BY <2>2, <3>2, <4>1
    <3> QED BY <3>1, <3>2
  <2>4. g = [n \in 0 .. m + 1 |-> g[n]]
    OBVIOUS
  <2> HIDE DEF g
  <2>5. g = [n \in 0 .. m + 1 |-> IF n = 0 THEN {<<>>} ELSE Longer(v, g[n - 1])]
    BY <2>3, <2>4
  <2> QED BY <2>5
<1>3. \A m \in Nat : m \in T
  <2> HIDE DEF Upto
  <2>1. 0 \in T /\ \A m \in Nat : m \in T => m + 1 \in T
    BY <1>1, <1>2
  <2> HIDE DEF T
  <2> QED BY <2>1, NaturalInduction
<1>4. Upto(MaxDepth)
  <2> HIDE DEF Upto
  <2> QED BY <1>3, JsonTreeAssumption
<1> QED BY <1>4

LEMMA LevelFacts ==
  ASSUME NEW v
  PROVE  /\ Levels(v)[0] = {<<>>}
         /\ \A n \in 1 .. MaxDepth : Levels(v)[n] = Longer(v, Levels(v)[n - 1])
<1> DEFINE L == Levels(v)
           Is(f) == f = [n \in 0 .. MaxDepth |-> IF n = 0 THEN {<<>>} ELSE Longer(v, f[n - 1])]
<1>1. Is(L)
  <2>1. \E f : Is(f)
    BY LevelsExist
  <2>2. L = CHOOSE f : Is(f)
    BY DEF Levels
  <2> HIDE DEF Is, L
  <2> QED BY <2>1, <2>2
<1> HIDE DEF L
<1>2. \A n \in 0 .. MaxDepth : L[n] = IF n = 0 THEN {<<>>} ELSE Longer(v, L[n - 1])
  BY <1>1
<1>3. L[0] = {<<>>} /\ \A n \in 1 .. MaxDepth : L[n] = Longer(v, L[n - 1])
  BY <1>2, JsonTreeAssumption
<1> QED BY <1>3 DEF L

(* The paths of a value all of whose parts are well-formed lead through it. *)
LEMMA PathsAreValid ==
  ASSUME NEW v, \A p \in PathsIn(v) : Valid(v, p) => WellFormed(ValueAt(v, p)),
         NEW p \in PathsIn(v)
  PROVE  Valid(v, p)
<1> DEFINE T == {n \in Nat : n =< MaxDepth =>
                   \A q \in Levels(v)[n] : Valid(v, q) /\ Len(q) = n}
<1>1. 0 \in T
  <2>1. Levels(v)[0] = {<<>>}
    BY LevelFacts
  <2>2. <<>> \in Seq(Segment) /\ Len(<<>>) = 0
    OBVIOUS
  <2>3. Valid(v, <<>>)
    BY <2>2 DEF Valid
  <2> QED BY <2>1, <2>2, <2>3
<1>2. ASSUME NEW n \in Nat, n \in T
      PROVE  n + 1 \in T
  <2> SUFFICES ASSUME n + 1 =< MaxDepth, NEW q \in Levels(v)[n + 1]
               PROVE  Valid(v, q) /\ Len(q) = n + 1
    OBVIOUS
  <2>0. PICK r \in Levels(v)[n] : \E s \in Segments(ValueAt(v, r)) : q = Append(r, s)
    <3>1. n + 1 \in 1 .. MaxDepth /\ (n + 1) - 1 = n
      BY JsonTreeAssumption
    <3>2. Levels(v)[n + 1] = Longer(v, Levels(v)[n])
      BY <3>1, LevelFacts
    <3> QED BY <3>2 DEF Longer
  <2>1. PICK s \in Segments(ValueAt(v, r)) : q = Append(r, s)
    BY <2>0
  <2>2. Valid(v, r) /\ Len(r) = n /\ r \in Seq(Segment)
    BY <1>2, JsonTreeAssumption DEF Valid
  <2>3. r \in PathsIn(v)
    <3>1. n \in 0 .. MaxDepth
      BY JsonTreeAssumption
    <3> QED BY <3>1 DEF PathsIn
  <2>4. WellFormed(ValueAt(v, r)) /\ s \in Segment
    <3>1. WellFormed(ValueAt(v, r))
      BY <2>2, <2>3
    <3> QED BY <3>1, SegmentsTyped
  <2>5. /\ q \in Seq(Segment) /\ Len(q) = n + 1 /\ q[n + 1] = s
        /\ \A k \in 1 .. n : q[k] = r[k]
    BY <2>1, <2>2, <2>4, AppendProperties
  <2>6. \A k \in 0 .. n : Walk(v, q)[k] = Walk(v, r)[k]
    BY <2>2, <2>5, WalkTogether
  <2>7. ASSUME NEW k \in 0 .. n
        PROVE  Leads(Walk(v, q)[k], q[k + 1])
    <3>1. CASE k = n
      <4>1. Walk(v, q)[n] = ValueAt(v, r)
        BY <2>2, <2>6, <3>1 DEF ValueAt
      <4> QED BY <2>4, <2>5, <3>1, <4>1 DEF Leads
    <3>2. CASE k < n
      <4>1. k \in 0 .. Len(r) - 1 /\ k + 1 \in 1 .. n
        BY <2>2, <3>2
      <4>2. Leads(Walk(v, r)[k], r[k + 1])
        BY <2>2, <4>1 DEF Valid
      <4> QED BY <2>5, <2>6, <4>1, <4>2
    <3> QED BY <3>1, <3>2
  <2>8. (n + 1) - 1 = n
    OBVIOUS
  <2> QED BY <2>5, <2>7, <2>8 DEF Valid
<1>3. \A n \in Nat : n \in T
  <2> HIDE DEF T
  <2> QED BY <1>1, <1>2, NaturalInduction
<1>4. PICK n \in 0 .. MaxDepth : p \in Levels(v)[n]
  BY DEF PathsIn
<1>5. n \in T /\ n =< MaxDepth
  <2> HIDE DEF T
  <2> QED BY <1>3, <1>4, JsonTreeAssumption
<1> QED BY <1>4, <1>5


LEMMA AppendFacts ==
  ASSUME NEW r \in Seq(Segment), NEW s \in Segment
  PROVE  /\ Append(r, s) \in Seq(Segment)
         /\ Len(r) \in Nat /\ Len(Append(r, s)) = Len(r) + 1
         /\ \A k \in 1 .. Len(r) : Append(r, s)[k] = r[k]
         /\ Append(r, s)[Len(r) + 1] = s
         /\ Append(r, s) # <<>> /\ Last(Append(r, s)) = s
<1> DEFINE q == Append(r, s)
<1>1. /\ q \in Seq(Segment) /\ Len(r) \in Nat /\ Len(q) = Len(r) + 1 /\ q[Len(r) + 1] = s
      /\ \A k \in 1 .. Len(r) : q[k] = r[k]
  BY AppendProperties, LenProperties
<1> HIDE DEF q
<1>2. q # <<>>
  <2>1. Len(q) # 0
    BY <1>1
  <2> QED BY <1>1, <2>1, EmptySeq
<1> QED BY <1>1, <1>2 DEF Last, q

LEMMA PathInduction ==
  ASSUME NEW T, <<>> \in T,
         \A r \in Seq(Segment) : r \in T => \A s \in Segment : Append(r, s) \in T
  PROVE  \A p \in Seq(Segment) : p \in T
<1> DEFINE N == {n \in Nat : \A p \in Seq(Segment) : Len(p) = n => p \in T}
<1>1. 0 \in N
  BY EmptySeq
<1>2. ASSUME NEW n \in Nat, n \in N
      PROVE  n + 1 \in N
  <2> SUFFICES ASSUME NEW p \in Seq(Segment), Len(p) = n + 1
               PROVE  p \in T
    OBVIOUS
  <2> DEFINE f == SubSeq(p, 0 + 1, n)
  <2>1. /\ f \in Seq(Segment) /\ Len(f) = n - 0
        /\ \A k \in 1 .. n - 0 : f[k] = p[0 + k]
    <3>1. 0 \in 0 .. Len(p) /\ n \in 0 .. Len(p)
      OBVIOUS
    <3> HIDE DEF f
    <3> QED BY <3>1, Slice DEF f
  <2>2. p[n + 1] \in Segment
    BY ElementOfSeq
  <2> HIDE DEF f
  <2>3. /\ Append(f, p[n + 1]) \in Seq(Segment) /\ Len(Append(f, p[n + 1])) = n + 1
        /\ \A k \in 1 .. n : Append(f, p[n + 1])[k] = p[k]
        /\ Append(f, p[n + 1])[n + 1] = p[n + 1]
    BY <2>1, <2>2, AppendFacts
  <2>4. \A k \in 1 .. n + 1 : Append(f, p[n + 1])[k] = p[k]
    BY <2>3
  <2>5. p = Append(f, p[n + 1])
    BY <2>3, <2>4, SeqEqual
  <2>6. f \in T
    BY <1>2, <2>1
  <2> QED BY <2>1, <2>2, <2>5, <2>6
<1>3. \A n \in Nat : n \in N
  <2> HIDE DEF N
  <2> QED BY <1>1, <1>2, NaturalInduction
<1>4. \A p \in Seq(Segment) : Len(p) \in N
  <2> HIDE DEF N
  <2> QED BY <1>3, LenProperties
<1> QED BY <1>4

(* One segment further on. *)
LEMMA ValidAppend ==
  ASSUME NEW v, NEW r \in Seq(Segment), NEW s \in Segment
  PROVE  /\ Valid(v, Append(r, s)) <=> Valid(v, r) /\ Leads(ValueAt(v, r), s)
         /\ ValueAt(v, Append(r, s)) = Child(ValueAt(v, r), s)
<1> DEFINE q == Append(r, s)
           n == Len(r)
<1>1. /\ q \in Seq(Segment) /\ n \in Nat /\ Len(q) = n + 1 /\ q[n + 1] = s
      /\ \A k \in 1 .. n : q[k] = r[k]
  BY AppendFacts
<1> HIDE DEF q, n
<1>2. \A k \in 0 .. n : Walk(v, q)[k] = Walk(v, r)[k]
  <2>1. Len(q) \in Nat /\ Len(r) = n /\ n =< Len(q)
    BY <1>1 DEF n
  <2> QED BY <1>1, <2>1, WalkTogether
<1>3. Walk(v, q)[n] = ValueAt(v, r)
  BY <1>1, <1>2 DEF ValueAt, n
<1>4. ValueAt(v, q) = Child(ValueAt(v, r), s)
  <2>1. \A k \in 1 .. Len(q) : Walk(v, q)[k] = Child(Walk(v, q)[k - 1], q[k])
    <3>1. Len(q) \in Nat
      BY <1>1
    <3> QED BY <3>1, WalkFacts
  <2>2. n + 1 \in 1 .. Len(q) /\ (n + 1) - 1 = n
    BY <1>1
  <2>3. Walk(v, q)[n + 1] = Child(Walk(v, q)[n], s)
    BY <1>1, <2>1, <2>2
  <2> QED BY <1>1, <1>3, <2>3 DEF ValueAt
<1>5. ASSUME Valid(v, q)
      PROVE  Valid(v, r) /\ Leads(ValueAt(v, r), s)
  <2>1. \A k \in 0 .. n : Leads(Walk(v, q)[k], q[k + 1])
    BY <1>1, <1>5 DEF Valid
  <2>2. Leads(ValueAt(v, r), s)
    BY <1>1, <1>3, <2>1
  <2>3. ASSUME NEW k \in 0 .. n - 1
        PROVE  Leads(Walk(v, r)[k], r[k + 1])
    <3>1. k \in 0 .. n /\ k + 1 \in 1 .. n
      BY <1>1
    <3> QED BY <1>1, <1>2, <2>1, <3>1
  <2> QED BY <2>2, <2>3 DEF Valid, n
<1>6. ASSUME Valid(v, r), Leads(ValueAt(v, r), s)
      PROVE  Valid(v, q)
  <2> SUFFICES ASSUME NEW k \in 0 .. n
               PROVE  Leads(Walk(v, q)[k], q[k + 1])
    BY <1>1 DEF Valid
  <2>1. CASE k = n
    BY <1>1, <1>3, <1>6, <2>1
  <2>2. CASE k < n
    <3>1. k \in 0 .. n - 1 /\ k + 1 \in 1 .. n
      BY <1>1, <2>2
    <3>2. Leads(Walk(v, r)[k], r[k + 1])
      BY <1>6, <3>1 DEF Valid, n
    <3> QED BY <1>1, <1>2, <3>1, <3>2
  <2> QED BY <1>1, <2>1, <2>2
<1> QED BY <1>4, <1>5, <1>6 DEF q

LEMMA ValidRoot ==
  ASSUME NEW v
  PROVE  <<>> \in Seq(Segment) /\ Len(<<>>) = 0 /\ Valid(v, <<>>) /\ ValueAt(v, <<>>) = v
<1>1. <<>> \in Seq(Segment) /\ Len(<<>>) = 0
  OBVIOUS
<1>2. Walk(v, <<>>)[0] = v
  BY <1>1, WalkFacts
<1> QED BY <1>1, <1>2 DEF Valid, ValueAt

(* A value of serde_json. *)
Json(v) == \A p \in Seq(Segment) : Valid(v, p) => WellFormed(ValueAt(v, p)) /\ Len(p) =< MaxDepth

(* Its paths, as they are collected, are those that are valid. *)
LEMMA ShallowPaths ==
  ASSUME NEW v,
         \A p \in PathsIn(v) : Valid(v, p) /\ Len(p) = MaxDepth => Segments(ValueAt(v, p)) = {},
         NEW p, Valid(v, p)
  PROVE  p \in PathsIn(v) /\ Len(p) =< MaxDepth
<1> DEFINE T == {q \in Seq(Segment) : Valid(v, q) => Len(q) \in 0 .. MaxDepth /\ q \in Levels(v)[Len(q)]}
<1>1. <<>> \in T
  <2>1. Levels(v)[0] = {<<>>}
    BY LevelFacts
  <2> QED BY <2>1, ValidRoot, JsonTreeAssumption
<1>2. ASSUME NEW r \in Seq(Segment), r \in T, NEW s \in Segment
      PROVE  Append(r, s) \in T
  <2>0. Append(r, s) \in Seq(Segment) /\ Len(Append(r, s)) = Len(r) + 1 /\ Len(r) \in Nat
    BY AppendFacts
  <2> SUFFICES ASSUME Valid(v, Append(r, s))
               PROVE  /\ Len(r) + 1 \in 0 .. MaxDepth
                      /\ Append(r, s) \in Levels(v)[Len(r) + 1]
    BY <2>0
  <2>1. Valid(v, r) /\ s \in Segments(ValueAt(v, r))
    BY ValidAppend DEF Leads
  <2>2. Len(r) \in 0 .. MaxDepth /\ r \in Levels(v)[Len(r)]
    BY <1>2, <2>1
  <2>3. r \in PathsIn(v)
    BY <2>2 DEF PathsIn
  <2>4. Len(r) + 1 \in 1 .. MaxDepth /\ (Len(r) + 1) - 1 = Len(r)
    BY <2>1, <2>2, <2>3, JsonTreeAssumption
  <2>5. Levels(v)[Len(r) + 1] = Longer(v, Levels(v)[Len(r)])
    BY <2>4, LevelFacts
  <2>6. Append(r, s) \in Longer(v, Levels(v)[Len(r)])
    BY <2>1, <2>2 DEF Longer
  <2> QED BY <2>4, <2>5, <2>6, JsonTreeAssumption
<1>3. p \in T
  <2>1. p \in Seq(Segment)
    BY DEF Valid
  <2> HIDE DEF T
  <2> QED BY <1>1, <1>2, <2>1, PathInduction
<1>4. Len(p) \in 0 .. MaxDepth /\ p \in Levels(v)[Len(p)]
  BY <1>3
<1> QED BY <1>4, JsonTreeAssumption DEF PathsIn

LEMMA JsonPaths ==
  ASSUME NEW v, Json(v)
  PROVE  \A p : p \in PathsIn(v) <=> Valid(v, p)
<1>1. \A p \in PathsIn(v) : Valid(v, p) => WellFormed(ValueAt(v, p))
  BY DEF Json, Valid
<1>2. ASSUME NEW p \in PathsIn(v), Valid(v, p), Len(p) = MaxDepth
      PROVE  Segments(ValueAt(v, p)) = {}
  <2> SUFFICES ASSUME NEW s \in Segments(ValueAt(v, p))
               PROVE  FALSE
    OBVIOUS
  <2>1. p \in Seq(Segment) /\ WellFormed(ValueAt(v, p)) /\ s \in Segment
    BY <1>2, SegmentsTyped DEF Json, Valid
  <2>2. Valid(v, Append(p, s)) /\ Append(p, s) \in Seq(Segment) /\ Len(Append(p, s)) = MaxDepth + 1
    BY <1>2, <2>1, ValidAppend, AppendFacts DEF Leads
  <2>3. Len(Append(p, s)) =< MaxDepth
    BY <2>2 DEF Json
  <2> QED BY <2>2, <2>3, JsonTreeAssumption
<1> QED BY <1>1, <1>2, PathsAreValid, ShallowPaths

(* What the parser makes is one. *)
LEMMA ParsedIsJson ==
  ASSUME NEW v, IsJson(v)
  PROVE  Json(v)
<1>1. \A p \in PathsIn(v) : WellFormed(ValueAt(v, p)) /\ (Len(p) = MaxDepth => Segments(ValueAt(v, p)) = {})
  BY DEF IsJson
<1> QED BY <1>1, ShallowPaths DEF Json

LEMMA ScalarHasNone ==
  ASSUME NEW v, v.kind \in Scalars
  PROVE  Segments(v) = {}
BY DEF Scalars, Segments

-----------------------------------------------------------------------------
(* The whole of a text as far as it is known, what is safe of it, and the rest. *)
Grown(p) ==
  (IF p \in DOMAIN before THEN before[p] ELSE <<>>)
    \o (IF p \in Texts(event) THEN ValueAt(event, p).text ELSE <<>>)
Split(p) == IF Len(Grown(p)) > Window THEN Len(Grown(p)) - Window ELSE 0
Safe(p) == SubSeq(Grown(p), 1, Split(p))
Held(p) == SubSeq(Grown(p), Split(p) + 1, Len(Grown(p)))
Gone(p) == p \in failing \/ Safe(p) = <<>>

(* A text that was visited, and of which nothing is left in its object. *)
Taken(p) == p \in Texts(event) \ todo /\ Gone(p) /\ IsKey(Last(p))

(* here is what may stand at p of the event. *)
Stands(here, p) ==
  LET sent == ValueAt(event, p)
  IN /\ WellFormed(here)
     /\ sent.kind \in {"array", "object"} => here.kind = sent.kind
     /\ sent.kind \in {"number", "null"} => here = sent
     /\ sent.kind = "string" =>
          IF p \in todo THEN here = sent
          ELSE IF ~Buffered(p) THEN here = sent \/ here = String(Restored(sent.text))
          ELSE IF Gone(p) THEN here = Null ELSE here = String(Restored(Safe(p)))

(* t is the event with what has become of the strings that were visited. *)
BecomesOf(p, t) ==
  /\ Valid(t, p) => Valid(event, p)
  /\ Valid(event, p) => IF Taken(p) THEN ~Valid(t, p) ELSE Valid(t, p) /\ Stands(ValueAt(t, p), p)
Becomes(t) == \A p \in Seq(Segment) : BecomesOf(p, t)

LEMMA UnchangedIsChange ==
  ASSUME NEW v, NEW c, Valid(v, c)
  PROVE  ChangedAt(v, v, c)
<1> SUFFICES ASSUME NEW n \in 0 .. Len(c) - 1
             PROVE  Beside(Walk(v, c)[n], Walk(v, c)[n], c[n + 1]) /\ Leads(Walk(v, c)[n], c[n + 1])
  BY DEF ChangedAt
<1>1. Leads(Walk(v, c)[n], c[n + 1])
  BY DEF Valid
<1> QED BY <1>1 DEF Beside, Leads

(* A string that is visited. *)
LEMMA VisitBecomes ==
  ASSUME Json(event), Becomes(tree), NEW c \in todo, Valid(event, c), Valid(tree, c),
         ValueAt(event, c).kind = "string",
         event' = event, before' = before, todo' = todo \ {c},
         \A p : p # c => (p \in failing' <=> p \in failing),
         ChangedAt(tree', tree, c),
         Valid(tree', c) => ValueAt(tree', c).kind \in Scalars,
         BecomesOf(c, tree)'
  PROVE  Becomes(tree)'
<1> SUFFICES ASSUME NEW p \in Seq(Segment)
             PROVE  BecomesOf(p, tree)'
  BY DEF Becomes
<1>0. c \in Seq(Segment)
  BY DEF Valid
<1>1. ASSUME p # c
      PROVE  (Taken(p)' <=> Taken(p)) /\ \A here : Stands(here, p)' <=> Stands(here, p)
  <2>1. Safe(p)' = Safe(p)
    BY DEF Safe, Split, Grown
  <2>2. Gone(p)' <=> Gone(p)
    BY <1>1, <2>1 DEF Gone
  <2>3. p \in todo' <=> p \in todo
    BY <1>1
  <2>4. Taken(p)' <=> Taken(p)
    BY <2>2, <2>3 DEF Taken
  <2>5. ASSUME NEW here
        PROVE  Stands(here, p)' <=> Stands(here, p)
    BY <2>1, <2>2, <2>3 DEF Stands
  <2> QED BY <2>4, <2>5
<1>2. BecomesOf(p, tree)
  BY DEF Becomes
<1>3. CASE p = c
  BY <1>3
<1>4. CASE p # c /\ \E d : PartAt(p, c, d)
  <2>1. (Valid(tree', p) <=> Valid(tree, p)) /\ ValueAt(tree', p) = ValueAt(tree, p)
    BY <1>4, ApartFromChange
  <2>2. Valid(event', p) <=> Valid(event, p)
    OBVIOUS
  <2> QED BY <1>1, <1>2, <1>4, <2>1, <2>2 DEF BecomesOf
<1>5. CASE p # c /\ Along(p, c)
  <2>1. /\ Valid(tree', p) /\ Valid(tree, p)
        /\ Beside(ValueAt(tree', p), ValueAt(tree, p), c[Len(p) + 1])
    BY <1>5, OnTheWayToChange
  <2>2. Valid(event, p) /\ Segments(ValueAt(event, p)) # {}
    BY <1>5, NothingBelow
  <2>3. ValueAt(event, p).kind \in {"array", "object"}
    BY <2>2 DEF Segments
  <2>4. ~Taken(p)
    BY <2>3 DEF Taken, Texts, StringPaths
  <2>5. Stands(ValueAt(tree, p), p)
    BY <1>2, <2>2, <2>4 DEF BecomesOf
  <2>6. Stands(ValueAt(tree', p), p)
    BY <2>1, <2>3, <2>5 DEF Stands, Beside
  <2>7. ~Taken(p)' /\ Stands(ValueAt(tree, p), p)'
    BY <1>1, <1>5, <2>4, <2>6
  <2> QED BY <2>1, <2>2, <2>7 DEF BecomesOf
<1>6. CASE p # c /\ Along(c, p)
  <2>1. ~Valid(event, p)
    <3> SUFFICES ASSUME Valid(event, p) PROVE FALSE
      OBVIOUS
    <3>1. Segments(ValueAt(event, c)) # {}
      BY <1>0, <1>6, NothingBelow
    <3> QED BY <3>1, ScalarHasNone DEF Scalars
  <2>2. ~Valid(tree', p)
    <3> SUFFICES ASSUME Valid(tree', p) PROVE FALSE
      OBVIOUS
    <3>1. Valid(tree', c) /\ Segments(ValueAt(tree', c)) # {}
      BY <1>0, <1>6, NothingBelow
    <3> QED BY <3>1, ScalarHasNone
  <2> QED BY <2>1, <2>2 DEF BecomesOf
<1> QED BY <1>0, <1>3, <1>4, <1>5, <1>6, PathCases

-----------------------------------------------------------------------------
(* What the buffers hold once the texts that were visited are in them. *)
Buffers ==
  [p \in DOMAIN before \cup (Texts(event) \ todo) |->
     IF p \in Texts(event) \ todo THEN Held(p) ELSE before[p]]

FlushOf(p) == [path |-> p, event |-> DeltaEvent(p, Restored(Buffers[p]))]

(***************************************************************************)
(* The inductive invariant, in parts: the variables' ranges, the strings   *)
(* as they are visited, the event that is pruned, the decision to send it, *)
(* and what has been flushed of the buffers.                               *)
(***************************************************************************)
InputInv ==
  /\ \E i \in Inputs : event = i[1] /\ before = i[2]
  /\ todo \subseteq StringPaths(event)
  /\ failing \subseteq Texts(event) \ todo
  /\ pc \in {"strings", "draining", "deciding", "ending", "ended"}
  /\ pc # "strings" => todo = {}

StringsInv ==
  pc = "strings" => Becomes(tree) /\ streams = Buffers /\ flushed = {} /\ lost = {}

PrunedInv == pc # "strings" => \E t : Becomes(t) /\ tree = Pruned(t)

PassedInv ==
  passed = IF pc \in {"ending", "ended"} /\ ShouldForward(tree, Texts(event) # {})
             THEN <<tree>> ELSE <<>>

FlushInv ==
  pc # "strings" =>
    /\ DOMAIN streams \subseteq DOMAIN Buffers
    /\ streams = [p \in DOMAIN streams |-> Buffers[p]]
    /\ lost \subseteq DOMAIN Buffers \ DOMAIN streams
    /\ flushed = {FlushOf(p) : p \in {q \in DOMAIN Buffers \ (DOMAIN streams \cup lost) :
                                        Buffers[q] # <<>>}}
    /\ pc = "deciding" => DOMAIN streams = DOMAIN Buffers
    /\ pc = "ended" => DOMAIN streams = {}

EventInv == InputInv /\ StringsInv /\ PrunedInv /\ PassedInv /\ FlushInv

LEMMA InputFacts ==
  ASSUME InputInv
  PROVE  IsJson(event) /\ Json(event) /\ AreHeld(before)
<1>1. IsJson(event) /\ AreHeld(before)
  BY StreamEventAssumption DEF InputInv
<1> QED BY <1>1, ParsedIsJson

(* The strings of the event are what is valid and a string. *)
LEMMA StringFacts ==
  ASSUME NEW v, Json(v)
  PROVE  \A p : p \in StringPaths(v) <=> Valid(v, p) /\ ValueAt(v, p).kind = "string"
BY JsonPaths DEF StringPaths, ScalarPaths, Scalars

LEMMA InitEventInv == Init => EventInv
<1> SUFFICES ASSUME Init
             PROVE  EventInv
  OBVIOUS
<1>1. InputInv
  BY DEF Init, InputInv
<1>2. Becomes(tree)
  <2> SUFFICES ASSUME NEW p \in Seq(Segment), Valid(event, p)
               PROVE  ~Taken(p) /\ Stands(ValueAt(event, p), p)
    BY DEF Init, Becomes, BecomesOf
  <2>1. ~Taken(p)
    BY DEF Init, Taken, Texts
  <2>2. WellFormed(ValueAt(event, p)) /\ (ValueAt(event, p).kind = "string" => p \in todo)
    BY <1>1, InputFacts, StringFacts DEF Json, Init
  <2> QED BY <2>1, <2>2 DEF Stands
<1>3. streams = Buffers
  <2>1. Texts(event) \ todo = {}
    BY DEF Init, Texts
  <2>2. before = [p \in DOMAIN before |-> before[p]]
    BY <1>1, InputFacts DEF AreHeld
  <2>3. Buffers = [p \in DOMAIN before |-> before[p]]
    BY <2>1 DEF Buffers
  <2> QED BY <2>2, <2>3 DEF Init
<1>4. pc = "strings" /\ passed = <<>> /\ flushed = {} /\ lost = {}
  BY DEF Init
<1> QED BY <1>1, <1>2, <1>3, <1>4 DEF EventInv, StringsInv, PrunedInv, PassedInv, FlushInv

(* A string that is still to be visited stands where its path says. *)
LEMMA TodoFacts ==
  ASSUME InputInv, StringsInv, NEW c \in todo
  PROVE  /\ pc = "strings" /\ c \in Seq(Segment)
         /\ Valid(event, c) /\ Valid(tree, c) /\ ValueAt(tree, c) = ValueAt(event, c)
         /\ ValueAt(event, c).kind = "string" /\ ValueAt(event, c).text \in Seq(Char)
<1>1. pc = "strings" /\ c \in StringPaths(event)
  BY DEF InputInv
<1>2. Valid(event, c) /\ ValueAt(event, c).kind = "string" /\ c \in Seq(Segment)
  BY <1>1, InputFacts, StringFacts DEF Valid
<1>3. Becomes(tree)
  BY <1>1 DEF StringsInv
<1>4. ~Taken(c) /\ BecomesOf(c, tree)
  BY <1>2, <1>3 DEF Taken, Becomes
<1>5. ValueAt(event, c).text \in Seq(Char)
  BY <1>1, InputFacts DEF IsJson
<1> QED BY <1>1, <1>2, <1>4, <1>5 DEF BecomesOf, Stands

LEMMA DetokenizeKeepsEventInv ==
  ASSUME EventInv, NEW c \in todo, Detokenize(c)
  PROVE  EventInv'
<1>1. /\ InputInv /\ StringsInv /\ Becomes(tree) /\ Json(event)
      /\ pc = "strings" /\ c \in Seq(Segment)
      /\ Valid(event, c) /\ Valid(tree, c) /\ ValueAt(tree, c) = ValueAt(event, c)
      /\ ValueAt(event, c).kind = "string"
  BY TodoFacts, InputFacts DEF EventInv, StringsInv
<1>2. /\ event' = event /\ before' = before /\ todo' = todo \ {c} /\ streams' = streams
      /\ pc' = pc /\ passed' = passed /\ flushed' = flushed /\ failing' = failing /\ lost' = lost
      /\ ~Buffered(c)
  BY DEF Detokenize
<1>0. PICK w : w = String(Restored(ValueAt(event, c).text))
  OBVIOUS
<1>3. tree' = Replaced(tree, c, w) \/ tree' = tree
  BY <1>0, <1>1 DEF Detokenize
<1>4. WellFormed(w) /\ w.kind = "string"
  BY <1>0 DEF String, WellFormed, Scalars
<1>5. /\ ChangedAt(tree', tree, c) /\ Valid(tree', c)
      /\ ValueAt(tree', c) = w \/ ValueAt(tree', c) = ValueAt(event, c)
  BY <1>1, <1>3, ReplacedIsChange, UnchangedIsChange
<1>6. WellFormed(ValueAt(event, c))
  BY <1>1 DEF Json
<1>7. BecomesOf(c, tree)'
  <2>1. ~Taken(c)'
    BY <1>2 DEF Taken, Texts
  <2>2. PICK here : here = ValueAt(tree', c)
    OBVIOUS
  <2>3. Stands(here, c)'
    BY <1>0, <1>1, <1>2, <1>4, <1>5, <1>6, <2>2 DEF Stands
  <2> QED BY <1>1, <1>2, <1>5, <2>1, <2>2, <2>3 DEF BecomesOf
<1>8. Becomes(tree)'
  <2>1. ValueAt(tree', c).kind \in Scalars
    BY <1>1, <1>4, <1>5 DEF Scalars
  <2> QED BY <1>1, <1>2, <1>5, <1>7, <2>1, VisitBecomes
<1>9. Texts(event) \ todo' = Texts(event) \ todo
  BY <1>2 DEF Texts
<1>10. streams' = Buffers'
  <2>1. \A p : Held(p)' = Held(p)
    BY <1>2 DEF Held, Grown, Split
  <2>2. Buffers' = Buffers
    BY <1>2, <1>9, <2>1 DEF Buffers
  <2> QED BY <1>1, <1>2, <2>2 DEF StringsInv
<1>11. InputInv'
  BY <1>1, <1>2, <1>9 DEF InputInv
<1> QED BY <1>1, <1>2, <1>8, <1>10, <1>11 DEF EventInv, StringsInv, PrunedInv, PassedInv, FlushInv

LEMMA PushKeepsEventInv ==
  ASSUME EventInv, NEW c \in todo, Push(c)
  PROVE  EventInv'
<1>1. /\ InputInv /\ StringsInv /\ Becomes(tree) /\ Json(event)
      /\ pc = "strings" /\ c \in Seq(Segment)
      /\ Valid(event, c) /\ Valid(tree, c) /\ ValueAt(tree, c) = ValueAt(event, c)
      /\ ValueAt(event, c).kind = "string" /\ streams = Buffers
      /\ todo \subseteq StringPaths(event)
  BY TodoFacts, InputFacts DEF EventInv, StringsInv, InputInv
<1>2. /\ event' = event /\ before' = before /\ todo' = todo \ {c}
      /\ pc' = pc /\ passed' = passed /\ flushed' = flushed /\ lost' = lost
      /\ Buffered(c)
  BY DEF Push
<1>3. c \in Texts(event) /\ c # <<>>
  <2>1. c # <<>>
    BY <1>2 DEF Buffered
  <2> QED BY <1>1, <1>2, <2>1 DEF Texts
<1> DEFINE grown == (IF c \in DOMAIN streams THEN streams[c] ELSE <<>>) \o ValueAt(tree, c).text
<1>4. grown = Grown(c)
  <2>1. c \in DOMAIN streams <=> c \in DOMAIN before
    BY <1>1 DEF Buffers
  <2>2. c \in DOMAIN before => streams[c] = before[c]
    BY <1>1, <2>1 DEF Buffers
  <2> QED BY <1>1, <1>3, <2>1, <2>2 DEF Grown
<1>5. /\ streams' = [p \in DOMAIN streams \cup {c} |-> IF p = c THEN Held(c) ELSE streams[p]]
      /\ \/ /\ tree' = IF Safe(c) = <<>> THEN Removed(tree, c)
                       ELSE Replaced(tree, c, String(Restored(Safe(c))))
            /\ failing' = failing
         \/ tree' = Removed(tree, c) /\ failing' = failing \cup {c}
  <2> DEFINE split == IF Len(grown) > Window THEN Len(grown) - Window ELSE 0
             safe == SubSeq(grown, 1, split)
  <2>1. /\ streams' = [p \in DOMAIN streams \cup {c} |->
                         IF p = c THEN SubSeq(grown, split + 1, Len(grown)) ELSE streams[p]]
        /\ \/ /\ tree' = IF safe = <<>> THEN Removed(tree, c)
                         ELSE Replaced(tree, c, String(Restored(safe)))
              /\ failing' = failing
           \/ tree' = Removed(tree, c) /\ failing' = failing \cup {c}
    BY DEF Push
  <2>2. split = Split(c)
    BY <1>4 DEF Split
  <2> HIDE DEF split, grown
  <2>3. safe = Safe(c) /\ SubSeq(grown, split + 1, Len(grown)) = Held(c)
    BY <1>4, <2>2 DEF Safe, Held
  <2> HIDE DEF safe
  <2> QED BY <2>1, <2>3
<1> HIDE DEF grown
<1>6. \A p : p # c => (p \in failing' <=> p \in failing)
  BY <1>5
<1>7. c \notin failing
  BY <1>1 DEF InputInv
<1>8. \A p : Safe(p)' = Safe(p) /\ Held(p)' = Held(p)
  BY <1>2 DEF Safe, Held, Split, Grown
<1>9. c \in failing' \/ Safe(c) = <<>> => tree' = Removed(tree, c)
  BY <1>5, <1>7
<1>10. ~(c \in failing' \/ Safe(c) = <<>>) => tree' = Replaced(tree, c, String(Restored(Safe(c))))
  BY <1>5, <1>7
<1>11. Gone(c)' <=> c \in failing' \/ Safe(c) = <<>>
  BY <1>8 DEF Gone
<1>12. Taken(c)' <=> Gone(c)' /\ IsKey(Last(c))
  BY <1>2, <1>3 DEF Taken
<1>13. BecomesOf(c, tree)' /\ ChangedAt(tree', tree, c) /\ (Valid(tree', c) => ValueAt(tree', c).kind \in Scalars)
  <2>1. CASE Gone(c)'
    <3>1. /\ ChangedAt(tree', tree, c)
          /\ IsKey(Last(c)) => ~Valid(tree', c)
          /\ ~IsKey(Last(c)) => Valid(tree', c) /\ ValueAt(tree', c) = Null
      BY <1>1, <1>3, <1>9, <1>11, <2>1, RemovedIsChange
    <3>2. WellFormed(Null) /\ Null.kind = "null"
      BY DEF Null, WellFormed, Scalars
    <3>3. CASE IsKey(Last(c))
      BY <1>1, <1>2, <1>12, <2>1, <3>1, <3>3 DEF BecomesOf
    <3>4. CASE ~IsKey(Last(c))
      <4>1. Stands(Null, c)'
        BY <1>1, <1>2, <2>1, <3>2 DEF Stands
      <4> QED BY <1>1, <1>2, <1>12, <3>1, <3>2, <3>4, <4>1 DEF BecomesOf, Scalars
    <3> QED BY <3>3, <3>4
  <2>2. CASE ~Gone(c)'
    <3>0. PICK w : w = String(Restored(Safe(c)))
      OBVIOUS
    <3>1. WellFormed(w) /\ w.kind = "string"
      BY <3>0 DEF String, WellFormed, Scalars
    <3>2. tree' = Replaced(tree, c, w)
      BY <1>10, <1>11, <2>2, <3>0
    <3>3. ChangedAt(tree', tree, c) /\ Valid(tree', c) /\ ValueAt(tree', c) = w
      BY <1>1, <3>2, ReplacedIsChange
    <3>4. Stands(w, c)'
      BY <1>1, <1>2, <1>8, <2>2, <3>0, <3>1 DEF Stands
    <3> QED BY <1>1, <1>2, <1>12, <2>2, <3>1, <3>3, <3>4 DEF BecomesOf, Scalars
  <2> QED BY <2>1, <2>2
<1>14. Becomes(tree)'
  BY <1>1, <1>2, <1>6, <1>13, VisitBecomes
<1>15. Texts(event) \ todo' = (Texts(event) \ todo) \cup {c}
  BY <1>2, <1>3
<1>16. streams' = Buffers'
  <2> DEFINE D == DOMAIN before \cup (Texts(event) \ todo')
  <2>1. Buffers' = [p \in D |-> IF p \in Texts(event) \ todo' THEN Held(p) ELSE before[p]]
    BY <1>2, <1>8 DEF Buffers
  <2>2. DOMAIN streams \cup {c} = D
    BY <1>1, <1>15 DEF Buffers
  <2>3. ASSUME NEW p \in D
        PROVE  (IF p = c THEN Held(c) ELSE streams[p])
                 = IF p \in Texts(event) \ todo' THEN Held(p) ELSE before[p]
    <3>1. CASE p = c
      BY <1>15, <3>1
    <3>2. CASE p # c
      <4>1. p \in DOMAIN before \cup (Texts(event) \ todo)
        BY <1>15, <3>2
      <4>2. streams[p] = IF p \in Texts(event) \ todo THEN Held(p) ELSE before[p]
        BY <1>1, <4>1 DEF Buffers
      <4> QED BY <1>15, <3>2, <4>2
    <3> QED BY <3>1, <3>2
  <2> HIDE DEF D
  <2> QED BY <1>5, <2>1, <2>2, <2>3
<1>17. InputInv'
  BY <1>1, <1>2, <1>5, <1>15 DEF InputInv
<1> QED BY <1>1, <1>2, <1>14, <1>16, <1>17 DEF EventInv, StringsInv, PrunedInv, PassedInv, FlushInv

LEMMA PruneKeepsEventInv ==
  ASSUME EventInv, Prune
  PROVE  EventInv'
<1>1. /\ event' = event /\ before' = before /\ todo' = todo /\ streams' = streams
      /\ passed' = passed /\ flushed' = flushed /\ failing' = failing /\ lost' = lost
      /\ pc = "strings" /\ todo = {} /\ tree' = Pruned(tree)
      /\ pc' \in {"draining", "deciding"}
  BY DEF Prune
<1>2. /\ InputInv /\ Becomes(tree) /\ streams = Buffers /\ flushed = {} /\ lost = {} /\ passed = <<>>
  BY <1>1 DEF EventInv, StringsInv, PassedInv
<1>3. \A p : /\ Held(p)' = Held(p) /\ (Taken(p)' <=> Taken(p))
             /\ \A here : Stands(here, p)' <=> Stands(here, p)
  BY <1>1 DEF Held, Safe, Split, Grown, Taken, Gone, Stands
<1>4. \E t : Becomes(t)' /\ tree' = Pruned(t)
  <2>1. PICK t : t = tree
    OBVIOUS
  <2>2. Becomes(t)'
    BY <1>1, <1>2, <1>3, <2>1 DEF Becomes, BecomesOf
  <2> QED BY <1>1, <2>1, <2>2
<1>5. Buffers' = Buffers
  BY <1>1, <1>3 DEF Buffers
<1>6. Buffers = [p \in DOMAIN Buffers |-> Buffers[p]]
  BY DEF Buffers
<1>7. FlushInv'
  <2> DEFINE none == {FlushOf(p) : p \in {q \in DOMAIN Buffers \ (DOMAIN Buffers \cup {}) : Buffers[q] # <<>>}}
  <2>1. none = {}
    OBVIOUS
  <2>2. none' = {}
    OBVIOUS
  <2>3. flushed' = {FlushOf(p) : p \in {q \in DOMAIN Buffers \ (DOMAIN streams \cup lost) :
                                        Buffers[q] # <<>>}}'
    BY <1>1, <1>2, <1>5
  <2>4. pc' # "ended"
    BY <1>1
  <2> HIDE DEF none
  <2> QED BY <1>1, <1>2, <1>5, <1>6, <2>3, <2>4 DEF FlushInv
<1> QED BY <1>1, <1>2, <1>4, <1>7 DEF EventInv, InputInv, StringsInv, PrunedInv, PassedInv

(* Once the strings have been visited, what was made of them stays. *)
LEMMA LaterSteps ==
  ASSUME event' = event, before' = before, todo' = todo, failing' = failing
  PROVE  /\ \A t : Becomes(t)' <=> Becomes(t)
         /\ Buffers' = Buffers
         /\ \A p : FlushOf(p)' = FlushOf(p)
<1>1. \A p : /\ Held(p)' = Held(p) /\ (Taken(p)' <=> Taken(p))
             /\ \A here : Stands(here, p)' <=> Stands(here, p)
  BY DEF Held, Safe, Split, Grown, Taken, Gone, Stands
<1>2. Buffers' = Buffers
  BY <1>1 DEF Buffers
<1> QED BY <1>1, <1>2 DEF Becomes, BecomesOf, FlushOf

LEMMA FlushKeepsEventInv ==
  ASSUME EventInv, NEW c \in DOMAIN streams, Flush(c)
  PROVE  EventInv'
<1>1. /\ event' = event /\ before' = before /\ todo' = todo /\ tree' = tree
      /\ passed' = passed /\ failing' = failing /\ pc' = pc
      /\ pc \in {"draining", "ending"}
      /\ streams' = Restrict(streams, DOMAIN streams \ {c})
      /\ \/ /\ flushed' = flushed \cup
                 (IF streams[c] = <<>> THEN {}
                  ELSE {[path |-> c, event |-> DeltaEvent(c, Restored(streams[c]))]})
            /\ lost' = lost
         \/ lost' = lost \cup {c} /\ flushed' = flushed
  BY DEF Flush
<1>2. /\ \A t : Becomes(t)' <=> Becomes(t)
      /\ Buffers' = Buffers
      /\ \A p : FlushOf(p)' = FlushOf(p)
  BY <1>1, LaterSteps
<1>3. /\ DOMAIN streams \subseteq DOMAIN Buffers
      /\ streams = [p \in DOMAIN streams |-> Buffers[p]]
      /\ lost \subseteq DOMAIN Buffers \ DOMAIN streams
      /\ flushed = {FlushOf(p) : p \in {q \in DOMAIN Buffers \ (DOMAIN streams \cup lost) :
                                          Buffers[q] # <<>>}}
  BY <1>1 DEF EventInv, FlushInv
<1>4. /\ DOMAIN streams' = DOMAIN streams \ {c}
      /\ streams' = [p \in DOMAIN streams' |-> Buffers[p]]
  <2>1. streams' = [p \in DOMAIN streams \ {c} |-> streams[p]]
    BY <1>1 DEF Restrict
  <2> QED BY <1>3, <2>1
<1>5. streams[c] = Buffers[c]
  BY <1>3
<1>6. flushed' = {FlushOf(p) : p \in {q \in DOMAIN Buffers \ (DOMAIN streams' \cup lost') :
                                        Buffers[q] # <<>>}}
  <2>1. CASE lost' = lost \cup {c} /\ flushed' = flushed
    <3>1. DOMAIN streams' \cup lost' = DOMAIN streams \cup lost
      BY <1>4, <2>1
    <3> QED BY <1>3, <2>1, <3>1
  <2>2. CASE /\ lost' = lost
             /\ flushed' = flushed \cup
                 (IF streams[c] = <<>> THEN {}
                  ELSE {[path |-> c, event |-> DeltaEvent(c, Restored(streams[c]))]})
    <3>1. DOMAIN Buffers \ (DOMAIN streams' \cup lost')
            = (DOMAIN Buffers \ (DOMAIN streams \cup lost)) \cup {c}
      BY <1>3, <1>4, <2>2
    <3>2. flushed' = flushed \cup (IF Buffers[c] = <<>> THEN {} ELSE {FlushOf(c)})
      BY <1>5, <2>2 DEF FlushOf
    <3> DEFINE Q == {q \in DOMAIN Buffers \ (DOMAIN streams \cup lost) : Buffers[q] # <<>>}
               R == {q \in DOMAIN Buffers \ (DOMAIN streams' \cup lost') : Buffers[q] # <<>>}
    <3>3. R = Q \cup (IF Buffers[c] = <<>> THEN {} ELSE {c})
      BY <3>1
    <3>4. flushed = {FlushOf(p) : p \in Q}
      BY <1>3
    <3> HIDE DEF Q, R
    <3>5. flushed' = {FlushOf(p) : p \in R}
      BY <3>2, <3>3, <3>4
    <3> QED BY <3>5 DEF R
  <2> QED BY <1>1, <2>1, <2>2
<1>7. lost' \subseteq DOMAIN Buffers \ DOMAIN streams'
  BY <1>1, <1>3, <1>4
<1>8. FlushInv'
  <2>1. flushed' = {FlushOf(p) : p \in {q \in DOMAIN Buffers \ (DOMAIN streams \cup lost) :
                                        Buffers[q] # <<>>}}'
    BY <1>2, <1>6
  <2>2. pc' # "ended" /\ pc' # "deciding"
    BY <1>1
  <2> QED BY <1>2, <1>3, <1>4, <1>7, <2>1, <2>2 DEF FlushInv
<1>9. PrunedInv'
  BY <1>1, <1>2 DEF EventInv, PrunedInv
<1> QED BY <1>1, <1>8, <1>9 DEF EventInv, InputInv, StringsInv, PassedInv

LEMMA DecideKeepsEventInv ==
  ASSUME EventInv, Decide \/ End
  PROVE  EventInv'
<1>1. /\ event' = event /\ before' = before /\ todo' = todo /\ tree' = tree
      /\ failing' = failing /\ streams' = streams /\ flushed' = flushed /\ lost' = lost
      /\ pc \in {"draining", "deciding", "ending"}
      /\ pc' \in {"ending", "ended"}
      /\ pc' = "ended" => streams = <<>> /\ pc = "ending" /\ passed' = passed
      /\ pc' = "ending" =>
           /\ pc # "ending"
           /\ passed' = IF ShouldForward(tree, Texts(event) # {}) THEN <<tree>> ELSE <<>>
  BY DEF Decide, End
<1>2. /\ \A t : Becomes(t)' <=> Becomes(t)
      /\ Buffers' = Buffers
      /\ \A p : FlushOf(p)' = FlushOf(p)
  BY <1>1, LaterSteps
<1>3. pc' = "ended" => DOMAIN streams = {}
  BY <1>1
<1>4. FlushInv'
  <2>1. flushed' = {FlushOf(p) : p \in {q \in DOMAIN Buffers \ (DOMAIN streams \cup lost) :
                                        Buffers[q] # <<>>}}'
    BY <1>1, <1>2 DEF EventInv, FlushInv
  <2>2. pc' # "deciding"
    BY <1>1
  <2> QED BY <1>1, <1>2, <1>3, <2>1, <2>2 DEF EventInv, FlushInv
<1>5. PrunedInv'
  BY <1>1, <1>2 DEF EventInv, PrunedInv
<1>6. PassedInv'
  BY <1>1 DEF EventInv, PassedInv
<1> QED BY <1>1, <1>4, <1>5, <1>6 DEF EventInv, InputInv, StringsInv

LEMMA NextKeepsEventInv == EventInv /\ [Next]_vars => EventInv'
<1> SUFFICES ASSUME EventInv, [Next]_vars
             PROVE  EventInv'
  OBVIOUS
<1>1. CASE UNCHANGED vars
  <2>1. /\ event' = event /\ before' = before /\ todo' = todo /\ tree' = tree /\ passed' = passed
        /\ failing' = failing /\ streams' = streams /\ flushed' = flushed /\ lost' = lost /\ pc' = pc
    BY <1>1 DEF vars
  <2>2. /\ \A t : Becomes(t)' <=> Becomes(t)
        /\ Buffers' = Buffers
        /\ \A p : FlushOf(p)' = FlushOf(p)
    BY <2>1, LaterSteps
  <2>3. StringsInv' /\ PrunedInv'
    <3>1. PICK t : t = tree
      OBVIOUS
    <3>2. StringsInv'
      BY <2>1, <2>2, <3>1 DEF EventInv, StringsInv, Becomes, BecomesOf
    <3> QED BY <2>1, <2>2, <3>2 DEF EventInv, PrunedInv
  <2>4. FlushInv'
    <3>1. pc # "strings" =>
          flushed' = {FlushOf(p) : p \in {q \in DOMAIN Buffers \ (DOMAIN streams \cup lost) :
                                          Buffers[q] # <<>>}}'
      BY <2>1, <2>2 DEF EventInv, FlushInv
    <3> QED BY <2>1, <2>2, <3>1 DEF EventInv, FlushInv
  <2> QED BY <2>1, <2>3, <2>4 DEF EventInv, InputInv, PassedInv
<1>2. CASE Next
  BY <1>2, DetokenizeKeepsEventInv, PushKeepsEventInv, PruneKeepsEventInv, FlushKeepsEventInv,
     DecideKeepsEventInv DEF Next
<1> QED BY <1>1, <1>2

THEOREM EventInvariant == Spec => []EventInv
BY InitEventInv, NextKeepsEventInv, PTL DEF Spec

(***************************************************************************)
(* For events of any depth and in whatever order its strings are visited:  *)
(* while strings are taken out and put back, every other stays where its   *)
(* path says, so that value_mut_at_path never misses.                      *)
(***************************************************************************)
THEOREM PathsStay == Spec => []PathsStayValid
<1>1. EventInv => PathsStayValid
  BY TodoFacts DEF EventInv, PathsStayValid
<1> QED BY <1>1, EventInvariant, PTL

-----------------------------------------------------------------------------
(* What becomes of the value at p, if f is what becomes of those below it. *)
Pruning(v, f, p) ==
  LET w == ValueAt(v, p)
  IN CASE w.kind = "array" ->
            Array(FlattenSeq([k \in DOMAIN w.items |-> Kept(f[Append(p, Index(k - 1))])]))
       [] w.kind = "object" ->
            LET fields == [k \in DOMAIN w.fields |-> f[Append(p, Key(k))]]
            IN Object(Restrict(fields, {k \in DOMAIN fields : ~IsEmptyContainer(fields[k])}))
       [] OTHER -> w

(* The value at p stays in its container. *)
Stays(v, p) ==
  /\ ~IsEmptyContainer(PrunedAll(v)[p])
  /\ IsKey(Last(p)) \/ PrunedAll(v)[p] # Null

LEMMA PruningSame ==
  ASSUME NEW v, NEW p, NEW f, NEW g,
         \A s \in Segments(ValueAt(v, p)) : f[Append(p, s)] = g[Append(p, s)]
  PROVE  Pruning(v, f, p) = Pruning(v, g, p)
<1> DEFINE w == ValueAt(v, p)
<1>1. CASE w.kind = "array"
  <2>1. \A k \in DOMAIN w.items : Index(k - 1) \in Segments(w)
    BY <1>1 DEF Segments
  <2>2. [k \in DOMAIN w.items |-> Kept(f[Append(p, Index(k - 1))])]
          = [k \in DOMAIN w.items |-> Kept(g[Append(p, Index(k - 1))])]
    BY <2>1
  <2> QED BY <1>1, <2>2 DEF Pruning
<1>2. CASE w.kind = "object"
  <2>1. \A k \in DOMAIN w.fields : Key(k) \in Segments(w)
    BY <1>2 DEF Segments
  <2>2. [k \in DOMAIN w.fields |-> f[Append(p, Key(k))]]
          = [k \in DOMAIN w.fields |-> g[Append(p, Key(k))]]
    BY <2>1
  <2> QED BY <1>2, <2>2 DEF Pruning
<1>3. CASE w.kind \notin {"array", "object"}
  BY <1>3 DEF Pruning
<1> QED BY <1>1, <1>2, <1>3

LEMMA PrunedExists ==
  ASSUME NEW v, Json(v)
  PROVE  \E f : f = [p \in PathsIn(v) |-> Pruning(v, f, p)]
<1> DEFINE D(m) == {p \in PathsIn(v) : Len(p) > MaxDepth - m}
           Upto(m) == \E f : f = [p \in D(m) |-> Pruning(v, f, p)]
           T == {m \in Nat : Upto(m)}
<1>0. \A p \in PathsIn(v) : p \in Seq(Segment) /\ Len(p) \in Nat /\ Len(p) =< MaxDepth
  BY JsonPaths, LenProperties DEF Json, Valid
<1>1. Upto(0)
  <2>1. D(0) = {}
    BY <1>0, JsonTreeAssumption
  <2> DEFINE f == [p \in {} |-> v]
  <2>2. f = [p \in {} |-> Pruning(v, f, p)]
    OBVIOUS
  <2> QED BY <2>1, <2>2
<1>2. ASSUME NEW m \in Nat, Upto(m)
      PROVE  Upto(m + 1)
  <2>1. PICK f : f = [p \in D(m) |-> Pruning(v, f, p)]
    BY <1>2
  <2> DEFINE g == [p \in D(m + 1) |-> IF p \in D(m) THEN f[p] ELSE Pruning(v, f, p)]
  <2>2. \A p \in D(m) : p \in D(m + 1)
    BY <1>0, JsonTreeAssumption
  <2>3. ASSUME NEW p \in D(m + 1), NEW s \in Segments(ValueAt(v, p))
        PROVE  g[Append(p, s)] = f[Append(p, s)]
    <3>1. Valid(v, p) /\ p \in Seq(Segment) /\ Len(p) > MaxDepth - (m + 1)
      BY <1>0, JsonPaths
    <3>2. WellFormed(ValueAt(v, p)) /\ s \in Segment
      BY <3>1, SegmentsTyped DEF Json
    <3>3. Append(p, s) \in PathsIn(v) /\ Len(Append(p, s)) = Len(p) + 1 /\ Len(p) \in Nat
      BY <3>1, <3>2, ValidAppend, AppendFacts, JsonPaths DEF Leads
    <3>4. Len(Append(p, s)) > MaxDepth - m
      BY <3>1, <3>3, JsonTreeAssumption
    <3>5. Append(p, s) \in D(m) /\ Append(p, s) \in D(m + 1)
      BY <2>2, <3>3, <3>4
    <3> HIDE DEF D
    <3> QED BY <3>5
  <2>4. ASSUME NEW p \in D(m + 1)
        PROVE  g[p] = Pruning(v, g, p)
    <3>1. Pruning(v, g, p) = Pruning(v, f, p)
      <4> HIDE DEF D, g
      <4> QED BY <2>3, PruningSame
    <3> HIDE DEF D
    <3>2. p \in D(m) => f[p] = Pruning(v, f, p)
      BY <2>1
    <3> QED BY <3>1, <3>2
  <2>5. g = [p \in D(m + 1) |-> g[p]]
    OBVIOUS
  <2> HIDE DEF g, D
  <2>6. g = [p \in D(m + 1) |-> Pruning(v, g, p)]
    BY <2>4, <2>5
  <2> QED BY <2>6
<1>3. MaxDepth + 1 \in T
  <2>1. \A m \in Nat : m \in T
    <3> HIDE DEF Upto
    <3>1. 0 \in T /\ \A m \in Nat : m \in T => m + 1 \in T
      BY <1>1, <1>2
    <3> HIDE DEF T
    <3> QED BY <3>1, NaturalInduction
  <2> HIDE DEF T
  <2> QED BY <2>1, JsonTreeAssumption
<1>4. D(MaxDepth + 1) = PathsIn(v)
  BY <1>0, JsonTreeAssumption
<1>5. Upto(MaxDepth + 1)
  <2> HIDE DEF Upto
  <2> QED BY <1>3
<1> HIDE DEF D
<1> QED BY <1>4, <1>5

LEMMA PrunedAllFacts ==
  ASSUME NEW v, Json(v), NEW p, Valid(v, p)
  PROVE  PrunedAll(v)[p] = Pruning(v, PrunedAll(v), p)
<1> DEFINE P == PrunedAll(v)
<1>1. P = [q \in PathsIn(v) |-> Pruning(v, P, q)]
  BY PrunedExists DEF PrunedAll, Pruning
<1> HIDE DEF P
<1>2. p \in PathsIn(v)
  BY JsonPaths
<1> QED BY <1>1, <1>2 DEF P

(* Where an item that stays is then. *)
Matches(v, p, s, t) ==
  IF IsKey(s) THEN t = s
  ELSE /\ ~IsKey(t)
       /\ (\A j \in 0 .. s.index - 1 : Stays(v, Append(p, Index(j)))) => t = s

(* What is in the value at p, and what in what becomes of it. *)
Follows(v, p) ==
  LET w == ValueAt(v, p)
      u == PrunedAll(v)[p]
  IN /\ WellFormed(u) /\ u.kind = w.kind
     /\ \A s \in Segments(w) : Stays(v, Append(p, s)) =>
          \E t \in Segments(u) : Child(u, t) = PrunedAll(v)[Append(p, s)] /\ Matches(v, p, s, t)
     /\ \A t \in Segments(u) : \E s \in Segments(w) :
          /\ Stays(v, Append(p, s))
          /\ Child(u, t) = PrunedAll(v)[Append(p, s)] /\ Matches(v, p, s, t)

LEMMA PrunedObject ==
  ASSUME NEW v, Json(v), NEW p, Valid(v, p), ValueAt(v, p).kind = "object"
  PROVE  Follows(v, p)
<1> DEFINE w == ValueAt(v, p)
           P == PrunedAll(v)
           u == P[p]
           D == {k \in DOMAIN w.fields : ~IsEmptyContainer(P[Append(p, Key(k))])}
           g == [k \in D |-> P[Append(p, Key(k))]]
<1>0. p \in Seq(Segment)
  BY DEF Valid
<1>1. u = Pruning(v, P, p)
  BY PrunedAllFacts
<1>2. u = Object(g)
  <2> DEFINE fields == [k \in DOMAIN w.fields |-> P[Append(p, Key(k))]]
             E == {k \in DOMAIN fields : ~IsEmptyContainer(fields[k])}
  <2>1. u = Object(Restrict(fields, E))
    BY <1>1 DEF Pruning
  <2>2. E = D
    OBVIOUS
  <2>3. Restrict(fields, E) = [k \in E |-> fields[k]]
    BY DEF Restrict
  <2>4. [k \in E |-> fields[k]] = g
    BY <2>2
  <2> QED BY <2>1, <2>3, <2>4
<1>3. WellFormed(w)
  BY DEF Json, Valid
<1>4. DOMAIN w.fields \subseteq STRING
  BY <1>3 DEF WellFormed, Scalars
<1>5. DOMAIN g = D /\ g = [k \in DOMAIN g |-> g[k]] /\ D \subseteq STRING /\ D \subseteq DOMAIN w.fields
  BY <1>4
<1>6. \A k \in D : g[k] = P[Append(p, Key(k))]
  OBVIOUS
<1>7. \A k : k \in D <=> k \in DOMAIN w.fields /\ ~IsEmptyContainer(P[Append(p, Key(k))])
  OBVIOUS
<1> HIDE DEF D, g, u
<1>8. u.kind = "object" /\ u.fields = g
  BY <1>2 DEF Object
<1>9. WellFormed(u)
  BY <1>2, <1>5, <1>8 DEF WellFormed
<1>10. Segments(u) = {Key(k) : k \in D} /\ Segments(w) = {Key(k) : k \in DOMAIN w.fields}
  BY <1>5, <1>8 DEF Segments
<1>11. \A k \in DOMAIN w.fields : IsKey(Key(k)) /\ Key(k).key = k /\ Key(k) \in Segment
  BY <1>4 DEF IsKey, Key, Segment
<1>12. \A k \in DOMAIN w.fields : Stays(v, Append(p, Key(k))) <=> k \in D
  <2> SUFFICES ASSUME NEW k \in DOMAIN w.fields
               PROVE  Stays(v, Append(p, Key(k))) <=> k \in D
    OBVIOUS
  <2>1. Last(Append(p, Key(k))) = Key(k)
    BY <1>0, <1>11, AppendFacts
  <2> QED BY <1>7, <1>11, <2>1 DEF Stays
<1>13. ASSUME NEW k \in D
       PROVE  Child(u, Key(k)) = P[Append(p, Key(k))] /\ Matches(v, p, Key(k), Key(k))
  BY <1>5, <1>6, <1>8, <1>11 DEF Child, Matches
<1>14. ASSUME NEW s \in Segments(w), Stays(v, Append(p, s))
       PROVE  \E t \in Segments(u) : Child(u, t) = P[Append(p, s)] /\ Matches(v, p, s, t)
  <2>1. PICK k \in DOMAIN w.fields : s = Key(k)
    BY <1>10
  <2> QED BY <1>10, <1>12, <1>13, <1>14, <2>1
<1>15. ASSUME NEW t \in Segments(u)
       PROVE  \E s \in Segments(w) : /\ Stays(v, Append(p, s))
                                     /\ Child(u, t) = P[Append(p, s)] /\ Matches(v, p, s, t)
  <2>1. PICK k \in D : t = Key(k)
    BY <1>10
  <2> QED BY <1>5, <1>10, <1>12, <1>13, <2>1
<1> QED BY <1>8, <1>9, <1>14, <1>15 DEF Follows, u

LEMMA PrunedArray ==
  ASSUME NEW v, Json(v), NEW p, Valid(v, p), ValueAt(v, p).kind = "array"
  PROVE  Follows(v, p)
<1> DEFINE w == ValueAt(v, p)
           P == PrunedAll(v)
           u == P[p]
           e(k) == P[Append(p, Index(k - 1))]
           s == [k \in DOMAIN w.items |-> Kept(e(k))]
           f == FlattenSeq(s)
           S == {e(k) : k \in DOMAIN w.items}
<1>0. p \in Seq(Segment)
  BY DEF Valid
<1>1. u = Array(f)
  <2>1. u = Pruning(v, P, p)
    BY PrunedAllFacts
  <2> QED BY <2>1 DEF Pruning
<1>2. WellFormed(w)
  BY DEF Json, Valid
<1>3. DOMAIN w.items = 1 .. Len(w.items) /\ Len(w.items) \in Nat
  <2>1. w.items \in Seq(ToSet(w.items))
    BY <1>2 DEF WellFormed, Scalars
  <2> QED BY <2>1, LenProperties
<1> HIDE DEF e, w
<1>4. \A k \in DOMAIN w.items :
        /\ Kept(e(k)) = <<>> \/ (Kept(e(k)) = <<e(k)>> /\ Kept(e(k)) # <<>>)
        /\ Kept(e(k)) \in Seq(S)
        /\ Kept(e(k)) # <<>> <=> e(k) # Null /\ ~IsEmptyContainer(e(k))
        /\ Kept(e(k)) # <<>> => Kept(e(k))[1] = e(k) /\ Len(Kept(e(k))) = 1
  <2> SUFFICES ASSUME NEW k \in DOMAIN w.items
               PROVE  /\ Kept(e(k)) = <<>> \/ (Kept(e(k)) = <<e(k)>> /\ Kept(e(k)) # <<>>)
                      /\ Kept(e(k)) \in Seq(S)
                      /\ Kept(e(k)) # <<>> <=> e(k) # Null /\ ~IsEmptyContainer(e(k))
                      /\ Kept(e(k)) # <<>> => Kept(e(k))[1] = e(k) /\ Len(Kept(e(k))) = 1
    OBVIOUS
  <2>1. e(k) \in S
    OBVIOUS
  <2> HIDE DEF S
  <2>2. <<e(k)>> \in Seq(S) /\ <<>> \in Seq(S) /\ <<e(k)>> # <<>> /\ <<e(k)>>[1] = e(k) /\ Len(<<e(k)>>) = 1
    BY <2>1
  <2> QED BY <2>2 DEF Kept
<1>5. /\ s \in Seq(Seq(S)) /\ Len(s) = Len(w.items)
      /\ \A k \in DOMAIN w.items : s[k] = Kept(e(k))
  <2> HIDE DEF S
  <2>1. s \in [1 .. Len(w.items) -> Seq(S)] /\ DOMAIN s = 1 .. Len(w.items)
    BY <1>3, <1>4
  <2>2. \A k \in DOMAIN w.items : s[k] = Kept(e(k))
    OBVIOUS
  <2> HIDE DEF s
  <2>3. s \in Seq(Seq(S))
    BY <1>3, <2>1, SeqDef
  <2> QED BY <1>3, <2>1, <2>2, <2>3, LenProperties
<1> HIDE DEF s, S
<1>6. Remains(s, f, Len(s))
  <2>1. \A k \in 1 .. Len(s) : s[k] = <<>> \/ Len(s[k]) = 1
    BY <1>3, <1>4, <1>5
  <2> QED BY <1>5, <2>1, FlattenOptional
<1>7. f \in Seq(S)
  BY <1>5, FlattenType
<1> HIDE DEF f, u
<1>8. u.kind = "array" /\ u.items = f
  BY <1>1 DEF Array
<1>9. DOMAIN f = 1 .. Len(f) /\ Len(f) \in Nat /\ f \in Seq(ToSet(f))
  <2>1. DOMAIN f = 1 .. Len(f) /\ Len(f) \in Nat
    BY <1>7, LenProperties
  <2>2. f \in [1 .. Len(f) -> ToSet(f)]
    BY <1>7, <2>1, LenProperties DEF ToSet
  <2> QED BY <2>1, <2>2, SeqDef
<1>10. WellFormed(u)
  BY <1>1, <1>8, <1>9 DEF WellFormed
<1>11. Segments(u) = {Index(k - 1) : k \in 1 .. Len(f)} /\ Segments(w) = {Index(k - 1) : k \in 1 .. Len(s)}
  BY <1>3, <1>5, <1>8, <1>9 DEF Segments, w
<1>12. \A n \in Nat : ~IsKey(Index(n)) /\ Index(n).index = n /\ Index(n) \in Segment
  BY DEF IsKey, Index, Segment
<1>13. \A k \in 1 .. Len(s) : Stays(v, Append(p, Index(k - 1))) <=> s[k] # <<>>
  <2> SUFFICES ASSUME NEW k \in 1 .. Len(s)
               PROVE  Stays(v, Append(p, Index(k - 1))) <=> s[k] # <<>>
    OBVIOUS
  <2>1. k - 1 \in Nat
    BY <1>3, <1>5
  <2>2. ~IsKey(Last(Append(p, Index(k - 1))))
    BY <1>0, <1>12, <2>1, AppendFacts
  <2> QED BY <1>3, <1>4, <1>5, <2>2 DEF Stays, e
<1>14. ASSUME NEW j \in 1 .. Len(s), s[j] # <<>>, NEW i \in 1 .. Len(f), f[i] = s[j][1],
              (\A k \in 1 .. j - 1 : s[k] # <<>>) => i = j
       PROVE  /\ Child(u, Index(i - 1)) = P[Append(p, Index(j - 1))]
              /\ Matches(v, p, Index(j - 1), Index(i - 1))
  <2>1. i - 1 \in Nat /\ j - 1 \in Nat /\ (i - 1) + 1 = i /\ i - 1 < Len(f) /\ Len(s) \in Nat
    BY <1>3, <1>5, <1>9
  <2>2. Child(u, Index(i - 1)) = f[i]
    BY <1>8, <1>12, <2>1 DEF Child
  <2>3. f[i] = e(j)
    BY <1>3, <1>4, <1>5, <1>14
  <2>4. ASSUME \A k \in 0 .. (j - 1) - 1 : Stays(v, Append(p, Index(k)))
        PROVE  i = j
    <3> SUFFICES ASSUME NEW k \in 1 .. j - 1
                 PROVE  s[k] # <<>>
      BY <1>14
    <3>1. k \in 1 .. Len(s) /\ k - 1 \in 0 .. (j - 1) - 1
      BY <2>1
    <3> QED BY <1>13, <2>4, <3>1
  <2>5. Matches(v, p, Index(j - 1), Index(i - 1))
    BY <1>12, <2>1, <2>4 DEF Matches
  <2> QED BY <2>2, <2>3, <2>5 DEF e
<1>15. ASSUME NEW r \in Segments(w), Stays(v, Append(p, r))
       PROVE  \E t \in Segments(u) : Child(u, t) = P[Append(p, r)] /\ Matches(v, p, r, t)
  <2>1. PICK j \in 1 .. Len(s) : r = Index(j - 1)
    BY <1>11
  <2>2. s[j] # <<>>
    BY <1>13, <1>15, <2>1
  <2>3. PICK i \in 1 .. Len(f) : f[i] = s[j][1] /\ ((\A k \in 1 .. j - 1 : s[k] # <<>>) => i = j)
    BY <1>6, <2>2 DEF Remains
  <2> QED BY <1>11, <1>14, <2>1, <2>2, <2>3
<1>16. ASSUME NEW t \in Segments(u)
       PROVE  \E r \in Segments(w) : /\ Stays(v, Append(p, r))
                                     /\ Child(u, t) = P[Append(p, r)] /\ Matches(v, p, r, t)
  <2>1. PICK i \in 1 .. Len(f) : t = Index(i - 1)
    BY <1>11
  <2>2. PICK j \in 1 .. Len(s) : /\ s[j] # <<>> /\ f[i] = s[j][1]
                                 /\ (\A k \in 1 .. j - 1 : s[k] # <<>>) => i = j
    BY <1>6 DEF Remains
  <2> QED BY <1>11, <1>13, <1>14, <2>1, <2>2
<1>17. u.kind = w.kind
  BY <1>8 DEF w
<1> QED BY <1>10, <1>15, <1>16, <1>17 DEF Follows, u, w

LEMMA PrunedFollows ==
  ASSUME NEW v, Json(v), NEW p, Valid(v, p)
  PROVE  /\ Follows(v, p)
         /\ ValueAt(v, p).kind \notin {"array", "object"} => PrunedAll(v)[p] = ValueAt(v, p)
<1> DEFINE w == ValueAt(v, p)
<1>1. CASE w.kind = "object"
  BY <1>1, PrunedObject
<1>2. CASE w.kind = "array"
  BY <1>2, PrunedArray
<1>3. CASE w.kind \notin {"array", "object"}
  <2>1. PrunedAll(v)[p] = w
    BY <1>3, PrunedAllFacts DEF Pruning
  <2>2. WellFormed(w) /\ Segments(w) = {}
    BY <1>3 DEF Json, Valid, Segments
  <2> QED BY <2>1, <2>2 DEF Follows
<1> QED BY <1>1, <1>2, <1>3

-----------------------------------------------------------------------------
(* The beginnings of a path. *)
LEMMA Beginnings ==
  ASSUME NEW p \in Seq(Segment), NEW n \in 0 .. Len(p)
  PROVE  /\ SubSeq(p, 1, n) \in Seq(Segment) /\ Len(SubSeq(p, 1, n)) = n
         /\ \A k \in 1 .. n : SubSeq(p, 1, n)[k] = p[k]
         /\ Along(SubSeq(p, 1, n), p)
         /\ n = Len(p) => SubSeq(p, 1, n) = p
         /\ n = 0 => SubSeq(p, 1, n) = <<>>
<1> DEFINE r == SubSeq(p, 1, n)
<1>0. Len(p) \in Nat /\ n \in Nat /\ n =< Len(p)
  BY LenProperties
<1>1. r \in Seq(Segment) /\ Len(r) = n /\ \A k \in 1 .. n : r[k] = p[k]
  <2>1. 0 \in 0 .. Len(p) /\ n \in 0 .. Len(p) /\ 0 + 1 = 1 /\ n - 0 = n
    BY <1>0
  <2>2. /\ SubSeq(p, 0 + 1, n) \in Seq(Segment)
        /\ Len(SubSeq(p, 0 + 1, n)) = n - 0
        /\ \A k \in 1 .. n - 0 : SubSeq(p, 0 + 1, n)[k] = p[0 + k]
    BY <2>1, Slice
  <2>3. r = SubSeq(p, 0 + 1, n)
    BY <2>1
  <2> HIDE DEF r
  <2>4. \A k \in 1 .. n : 0 + k = k
    BY <1>0
  <2> QED BY <2>1, <2>2, <2>3, <2>4
<1> HIDE DEF r
<1>2. Along(r, p)
  BY <1>0, <1>1 DEF Along
<1>3. n = Len(p) => r = p
  BY <1>0, <1>1, SeqEqual
<1>4. n = 0 => r = <<>>
  BY <1>1, EmptySeq
<1> QED BY <1>1, <1>2, <1>3, <1>4 DEF r

LEMMA BeginningsNext ==
  ASSUME NEW p \in Seq(Segment), NEW n \in 0 .. Len(p) - 1
  PROVE  /\ p[n + 1] \in Segment
         /\ SubSeq(p, 1, n + 1) = Append(SubSeq(p, 1, n), p[n + 1])
<1> DEFINE r == SubSeq(p, 1, n)
           q == SubSeq(p, 1, n + 1)
<1>0. Len(p) \in Nat /\ n \in 0 .. Len(p) /\ n + 1 \in 0 .. Len(p) /\ n + 1 \in 1 .. Len(p)
  BY LenProperties
<1>1. r \in Seq(Segment) /\ Len(r) = n /\ \A k \in 1 .. n : r[k] = p[k]
  BY <1>0, Beginnings
<1>2. q \in Seq(Segment) /\ Len(q) = n + 1 /\ \A k \in 1 .. n + 1 : q[k] = p[k]
  BY <1>0, Beginnings
<1>3. p[n + 1] \in Segment
  BY <1>0, ElementOfSeq
<1> HIDE DEF r, q
<1>4. /\ Append(r, p[n + 1]) \in Seq(Segment) /\ Len(Append(r, p[n + 1])) = n + 1
      /\ \A k \in 1 .. n : Append(r, p[n + 1])[k] = r[k]
      /\ Append(r, p[n + 1])[n + 1] = p[n + 1]
  BY <1>1, <1>3, AppendFacts
<1>5. \A k \in 1 .. n + 1 : q[k] = Append(r, p[n + 1])[k]
  <2> SUFFICES ASSUME NEW k \in 1 .. n + 1
               PROVE  q[k] = Append(r, p[n + 1])[k]
    OBVIOUS
  <2>1. CASE k = n + 1
    BY <1>2, <1>4, <2>1
  <2>2. CASE k # n + 1
    <3>1. k \in 1 .. n
      BY <1>0, <2>2
    <3> QED BY <1>1, <1>2, <1>4, <3>1
  <2> QED BY <2>1, <2>2
<1>6. q = Append(r, p[n + 1])
  BY <1>2, <1>4, <1>5, SeqEqual
<1> QED BY <1>3, <1>6 DEF r, q

LEMMA BeginningsOfAppend ==
  ASSUME NEW p \in Seq(Segment), NEW s \in Segment, NEW n \in 0 .. Len(p)
  PROVE  SubSeq(Append(p, s), 1, n) = SubSeq(p, 1, n)
<1> DEFINE a == Append(p, s)
           r == SubSeq(p, 1, n)
           q == SubSeq(a, 1, n)
<1>0. /\ a \in Seq(Segment) /\ Len(p) \in Nat /\ Len(a) = Len(p) + 1
      /\ \A k \in 1 .. Len(p) : a[k] = p[k]
  BY AppendFacts
<1> HIDE DEF a
<1>1. n \in 0 .. Len(a) /\ \A k \in 1 .. n : k \in 1 .. Len(p)
  BY <1>0
<1>2. r \in Seq(Segment) /\ Len(r) = n /\ \A k \in 1 .. n : r[k] = p[k]
  BY Beginnings
<1>3. q \in Seq(Segment) /\ Len(q) = n /\ \A k \in 1 .. n : q[k] = a[k]
  BY <1>0, <1>1, Beginnings
<1> HIDE DEF r, q
<1>4. q = r
  BY <1>0, <1>1, <1>2, <1>3, SeqEqual
<1> QED BY <1>4 DEF a, r, q

(* The values on the way are those at the beginnings. *)
LEMMA WalkIsValueAt ==
  ASSUME NEW v, NEW p \in Seq(Segment), NEW n \in 0 .. Len(p)
  PROVE  /\ Walk(v, p)[n] = ValueAt(v, SubSeq(p, 1, n))
         /\ Valid(v, p) => Valid(v, SubSeq(p, 1, n))
<1> DEFINE r == SubSeq(p, 1, n)
<1>1. r \in Seq(Segment) /\ Len(r) = n /\ Along(r, p) /\ \A k \in 1 .. n : r[k] = p[k]
  BY Beginnings
<1>2. n \in Nat /\ n =< Len(p) /\ Len(p) \in Nat /\ n \in 0 .. n
  BY LenProperties
<1> HIDE DEF r
<1>3. Walk(v, p)[n] = Walk(v, r)[n]
  BY <1>1, <1>2, WalkTogether
<1>4. Valid(v, p) => Valid(v, r)
  BY <1>1, NothingBelow
<1> QED BY <1>1, <1>3, <1>4 DEF r, ValueAt

(* q of the pruned value is where p of v went. *)
Stems(v, p, q) ==
  /\ Valid(v, p) /\ Valid(Pruned(v), q) /\ Len(q) = Len(p)
  /\ \A n \in 0 .. Len(p) : Walk(Pruned(v), q)[n] = PrunedAll(v)[SubSeq(p, 1, n)]
  /\ \A n \in 1 .. Len(p) :
       Stays(v, SubSeq(p, 1, n)) /\ Matches(v, SubSeq(p, 1, n - 1), p[n], q[n])

LEMMA StemsRoot ==
  ASSUME NEW v
  PROVE  Stems(v, <<>>, <<>>)
<1>1. \A u : Valid(u, <<>>) /\ Walk(u, <<>>)[0] = u
  BY ValidRoot DEF ValueAt
<1>2. Len(<<>>) = 0 /\ SubSeq(<<>>, 1, 0) = <<>>
  BY ValidRoot, Beginnings
<1>3. \A n \in 0 .. Len(<<>>) : n = 0
  BY <1>2
<1>4. Walk(Pruned(v), <<>>)[0] = PrunedAll(v)[<<>>]
  BY <1>1 DEF Pruned
<1>5. ~\E n \in 1 .. Len(<<>>) : TRUE
  BY <1>2
<1> QED BY <1>1, <1>2, <1>3, <1>4, <1>5 DEF Stems

LEMMA StemsOn ==
  ASSUME NEW v, NEW p, NEW q, Stems(v, p, q), NEW s \in Segment, NEW t \in Segment,
         Leads(ValueAt(v, p), s), Leads(PrunedAll(v)[p], t), Stays(v, Append(p, s)),
         Child(PrunedAll(v)[p], t) = PrunedAll(v)[Append(p, s)], Matches(v, p, s, t)
  PROVE  Stems(v, Append(p, s), Append(q, t))
<1> DEFINE u == Pruned(v)
           P == PrunedAll(v)
           a == Append(p, s)
           b == Append(q, t)
           m == Len(p)
<1>0. /\ Valid(v, p) /\ Valid(u, q) /\ p \in Seq(Segment) /\ q \in Seq(Segment) /\ Len(q) = m
      /\ \A n \in 0 .. m : Walk(u, q)[n] = P[SubSeq(p, 1, n)]
      /\ \A n \in 1 .. m : Stays(v, SubSeq(p, 1, n)) /\ Matches(v, SubSeq(p, 1, n - 1), p[n], q[n])
  BY DEF Stems, Valid
<1>1. /\ a \in Seq(Segment) /\ m \in Nat /\ Len(a) = m + 1 /\ a[m + 1] = s
      /\ \A k \in 1 .. m : a[k] = p[k]
  BY <1>0, AppendFacts
<1>2. /\ b \in Seq(Segment) /\ Len(b) = m + 1 /\ b[m + 1] = t
      /\ \A k \in 1 .. m : b[k] = q[k]
  BY <1>0, AppendFacts
<1>3. m \in 0 .. m /\ SubSeq(p, 1, m) = p
  BY <1>0, <1>1, Beginnings
<1>4. ValueAt(u, q) = P[p]
  BY <1>0, <1>3 DEF ValueAt
<1>5. Valid(v, a) /\ Valid(u, b) /\ ValueAt(u, b) = P[a]
  BY <1>0, <1>4, ValidAppend
<1>6. \A n \in 0 .. m : SubSeq(a, 1, n) = SubSeq(p, 1, n)
  BY <1>0, BeginningsOfAppend
<1>7. SubSeq(a, 1, m + 1) = a
  <2>1. m + 1 \in 0 .. Len(a)
    BY <1>1
  <2> HIDE DEF a, m
  <2> QED BY <1>1, <2>1, Beginnings
<1>8. \A n \in 0 .. m : Walk(u, b)[n] = Walk(u, q)[n]
  <2> HIDE DEF a, b, m, u, P
  <2>1. Len(b) \in Nat /\ Len(q) \in Nat /\ m =< Len(b) /\ m =< Len(q)
    BY <1>0, <1>1, <1>2
  <2> QED BY <1>1, <1>2, <2>1, WalkTogether
<1> HIDE DEF a, b, m, u, P
<1>9. ASSUME NEW n \in 0 .. m + 1
      PROVE  Walk(u, b)[n] = P[SubSeq(a, 1, n)]
  <2>1. CASE n = m + 1
    BY <1>2, <1>5, <1>7, <2>1 DEF ValueAt
  <2>2. CASE n # m + 1
    <3>1. n \in 0 .. m
      BY <1>1, <2>2
    <3> QED BY <1>0, <1>6, <1>8, <3>1
  <2> QED BY <2>1, <2>2
<1>10. ASSUME NEW n \in 1 .. m + 1
       PROVE  Stays(v, SubSeq(a, 1, n)) /\ Matches(v, SubSeq(a, 1, n - 1), a[n], b[n])
  <2>1. CASE n = m + 1
    <3>1. n - 1 = m
      BY <1>1, <2>1
    <3>2. SubSeq(a, 1, n - 1) = p
      BY <1>3, <1>6, <3>1
    <3>3. Stays(v, a) /\ Matches(v, p, s, t)
      BY DEF a
    <3> QED BY <1>1, <1>2, <1>7, <2>1, <3>2, <3>3
  <2>2. CASE n # m + 1
    <3>1. n \in 0 .. m /\ n \in 1 .. m /\ n - 1 \in 0 .. m
      BY <1>1, <2>2
    <3> QED BY <1>0, <1>1, <1>2, <1>6, <3>1
  <2> QED BY <2>1, <2>2
<1> QED BY <1>1, <1>2, <1>5, <1>9, <1>10 DEF Stems, a, b, u, P

(* Whatever stays, all on its way with it, stands in the pruned value ... *)
LEMMA PrunedHas ==
  ASSUME NEW v, Json(v), NEW p, Valid(v, p),
         \A n \in 1 .. Len(p) : Stays(v, SubSeq(p, 1, n))
  PROVE  \E q : Stems(v, p, q)
<1> DEFINE T == {r \in Seq(Segment) :
                   Valid(v, r) /\ (\A n \in 1 .. Len(r) : Stays(v, SubSeq(r, 1, n)))
                     => \E q : Stems(v, r, q)}
<1>1. <<>> \in T
  BY StemsRoot, ValidRoot
<1>2. ASSUME NEW r \in Seq(Segment), r \in T, NEW s \in Segment
      PROVE  Append(r, s) \in T
  <2> DEFINE a == Append(r, s)
  <2>0. a \in Seq(Segment) /\ Len(a) = Len(r) + 1 /\ Len(r) \in Nat
    BY AppendFacts
  <2> SUFFICES ASSUME Valid(v, a), \A n \in 1 .. Len(a) : Stays(v, SubSeq(a, 1, n))
               PROVE  \E q : Stems(v, a, q)
    BY <2>0
  <2>1. Valid(v, r) /\ Leads(ValueAt(v, r), s)
    BY ValidAppend
  <2>2. \A n \in 1 .. Len(r) : Stays(v, SubSeq(r, 1, n))
    <3> SUFFICES ASSUME NEW n \in 1 .. Len(r)
                 PROVE  Stays(v, SubSeq(r, 1, n))
      OBVIOUS
    <3>1. n \in 0 .. Len(r) /\ n \in 1 .. Len(a)
      BY <2>0
    <3>2. SubSeq(a, 1, n) = SubSeq(r, 1, n)
      BY <3>1, BeginningsOfAppend
    <3> QED BY <3>1, <3>2
  <2>3. PICK q : Stems(v, r, q)
    BY <1>2, <2>1, <2>2
  <2>4. Stays(v, a)
    <3>1. Len(a) \in 1 .. Len(a) /\ Len(a) \in 0 .. Len(a)
      BY <2>0
    <3>2. SubSeq(a, 1, Len(a)) = a
      <4> HIDE DEF a
      <4> QED BY <2>0, <3>1, Beginnings
    <3> QED BY <3>1, <3>2
  <2>5. Follows(v, r)
    BY <2>1, PrunedFollows
  <2>6. PICK t \in Segments(PrunedAll(v)[r]) :
           Child(PrunedAll(v)[r], t) = PrunedAll(v)[a] /\ Matches(v, r, s, t)
    BY <2>1, <2>4, <2>5 DEF Follows, Leads
  <2>7. Leads(PrunedAll(v)[r], t) /\ t \in Segment
    BY <2>5, SegmentsTyped DEF Follows, Leads
  <2>8. Stems(v, a, Append(q, t))
    BY <2>1, <2>3, <2>4, <2>6, <2>7, StemsOn
  <2> QED BY <2>8
<1>3. p \in T
  <2>1. p \in Seq(Segment)
    BY DEF Valid
  <2> HIDE DEF T
  <2> QED BY <1>1, <1>2, <2>1, PathInduction
<1> QED BY <1>3

(* ... and nothing else does. *)
LEMMA PrunedHasOnly ==
  ASSUME NEW v, Json(v), NEW q, Valid(Pruned(v), q)
  PROVE  \E p : Stems(v, p, q)
<1> DEFINE T == {r \in Seq(Segment) : Valid(Pruned(v), r) => \E p : Stems(v, p, r)}
<1>1. <<>> \in T
  BY StemsRoot, ValidRoot
<1>2. ASSUME NEW r \in Seq(Segment), r \in T, NEW t \in Segment
      PROVE  Append(r, t) \in T
  <2>0. Append(r, t) \in Seq(Segment)
    BY AppendFacts
  <2> SUFFICES ASSUME Valid(Pruned(v), Append(r, t))
               PROVE  \E p : Stems(v, p, Append(r, t))
    BY <2>0
  <2>1. Valid(Pruned(v), r) /\ Leads(ValueAt(Pruned(v), r), t)
    BY ValidAppend
  <2>2. PICK p : Stems(v, p, r)
    BY <1>2, <2>1
  <2>3. Valid(v, p) /\ ValueAt(Pruned(v), r) = PrunedAll(v)[p] /\ p \in Seq(Segment)
    <3>1. /\ Valid(v, p) /\ p \in Seq(Segment) /\ Len(r) = Len(p)
          /\ \A n \in 0 .. Len(p) : Walk(Pruned(v), r)[n] = PrunedAll(v)[SubSeq(p, 1, n)]
      BY <2>2 DEF Stems, Valid
    <3>2. Len(p) \in 0 .. Len(p) /\ SubSeq(p, 1, Len(p)) = p
      BY <3>1, LenProperties, Beginnings
    <3> QED BY <3>1, <3>2 DEF ValueAt
  <2>4. Follows(v, p)
    BY <2>3, PrunedFollows
  <2>5. PICK s \in Segments(ValueAt(v, p)) :
           /\ Stays(v, Append(p, s)) /\ Child(PrunedAll(v)[p], t) = PrunedAll(v)[Append(p, s)]
           /\ Matches(v, p, s, t)
    BY <2>1, <2>3, <2>4 DEF Follows, Leads
  <2>6. Leads(ValueAt(v, p), s) /\ s \in Segment
    BY <2>3, SegmentsTyped DEF Json, Leads
  <2>7. Stems(v, Append(p, s), Append(r, t))
    BY <2>1, <2>2, <2>3, <2>5, <2>6, StemsOn
  <2> QED BY <2>7
<1>3. q \in T
  <2>1. q \in Seq(Segment)
    BY DEF Valid
  <2> HIDE DEF T
  <2> QED BY <1>1, <1>2, <2>1, PathInduction
<1> QED BY <1>3

LEMMA StemsFacts ==
  ASSUME NEW v, Json(v), NEW p, NEW q, Stems(v, p, q)
  PROVE  /\ p \in Seq(Segment) /\ q \in Seq(Segment) /\ Len(p) \in Nat /\ Len(q) = Len(p)
         /\ ValueAt(Pruned(v), q) = PrunedAll(v)[p]
         /\ ValueAt(Pruned(v), q).kind = ValueAt(v, p).kind
         /\ WellFormed(ValueAt(Pruned(v), q))
         /\ ValueAt(v, p).kind \in Scalars => ValueAt(Pruned(v), q) = ValueAt(v, p)
<1>1. p \in Seq(Segment) /\ q \in Seq(Segment) /\ Len(p) \in Nat /\ Len(q) = Len(p) /\ Valid(v, p)
  BY LenProperties DEF Stems, Valid
<1>2. ValueAt(Pruned(v), q) = PrunedAll(v)[p]
  <2>1. Len(p) \in 0 .. Len(p) /\ SubSeq(p, 1, Len(p)) = p
    BY <1>1, Beginnings
  <2> QED BY <1>1, <2>1 DEF Stems, ValueAt
<1> QED BY <1>1, <1>2, PrunedFollows DEF Follows, Scalars

(* What is pruned is a value of serde_json, too. *)
LEMMA PrunedIsJson ==
  ASSUME NEW v, Json(v)
  PROVE  Json(Pruned(v))
<1> SUFFICES ASSUME NEW q \in Seq(Segment), Valid(Pruned(v), q)
             PROVE  WellFormed(ValueAt(Pruned(v), q)) /\ Len(q) =< MaxDepth
  BY DEF Json
<1>1. PICK p : Stems(v, p, q)
  BY PrunedHasOnly
<1> QED BY <1>1, StemsFacts DEF Json, Stems

(* Where something is one segment on. *)
LEMMA ChildIsThere ==
  ASSUME NEW v, WellFormed(v), NEW s \in Segment, Child(v, s).kind # "absent"
  PROVE  Leads(v, s)
<1>0. Child(v, s) # Absent
  BY DEF Absent
<1>1. CASE IsKey(s)
  <2>1. v.kind = "object" /\ s.key \in DOMAIN v.fields
    BY <1>0, <1>1 DEF Child
  <2> QED BY <1>1, <2>1, SegmentCases DEF Leads, Segments
<1>2. CASE ~IsKey(s)
  <2>1. v.kind = "array" /\ s.index < Len(v.items) /\ s.index \in Nat /\ s = Index(s.index)
    BY <1>0, <1>2, SegmentCases DEF Child
  <2>2. v.items \in Seq(ToSet(v.items))
    BY <2>1 DEF WellFormed, Scalars
  <2>3. DOMAIN v.items = 1 .. Len(v.items) /\ Len(v.items) \in Nat
    BY <2>2, LenProperties
  <2>4. s.index + 1 \in DOMAIN v.items /\ (s.index + 1) - 1 = s.index
    BY <2>1, <2>3
  <2>5. s \in {Index(k - 1) : k \in DOMAIN v.items}
    BY <2>1, <2>4
  <2> QED BY <2>1, <2>5 DEF Leads, Segments
<1> QED BY <1>1, <1>2

LEMMA IndexKey == Key("index") \in Segment /\ IsKey(Key("index"))
<1>1. Key("index") = [key |-> "index"]
  BY DEF Key
<1>2. "index" \in STRING
  BY KeyAssumption
<1> QED BY <1>1, <1>2 DEF Segment, IsKey

(* Pruning keeps the number of an item, and makes none. *)
LEMMA IndexKept ==
  ASSUME NEW v, Json(v), NEW r, Valid(v, r)
  PROVE  LET sent == Child(ValueAt(v, r), Key("index"))
             seen == Child(PrunedAll(v)[r], Key("index"))
         IN  /\ sent.kind = "number" <=> seen.kind = "number"
             /\ sent.kind = "number" => seen = sent
<1> DEFINE s == Key("index")
           sent == Child(ValueAt(v, r), s)
           seen == Child(PrunedAll(v)[r], s)
           a == Append(r, s)
<1>0. /\ r \in Seq(Segment) /\ s \in Segment /\ IsKey(s) /\ WellFormed(ValueAt(v, r))
      /\ Follows(v, r) /\ Last(a) = s
  BY IndexKey, AppendFacts, PrunedFollows DEF Json, Valid
<1>1. ASSUME sent.kind = "number"
      PROVE  seen = sent
  <2>1. Leads(ValueAt(v, r), s)
    BY <1>0, <1>1, ChildIsThere
  <2>2. Valid(v, a) /\ ValueAt(v, a) = sent
    BY <1>0, <2>1, ValidAppend
  <2>3. PrunedAll(v)[a] = sent
    BY <1>1, <2>2, PrunedFollows
  <2>4. Stays(v, a)
    BY <1>0, <1>1, <2>3 DEF Stays, IsEmptyContainer
  <2>5. PICK t \in Segments(PrunedAll(v)[r]) :
           Child(PrunedAll(v)[r], t) = PrunedAll(v)[a] /\ Matches(v, r, s, t)
    BY <1>0, <2>1, <2>4 DEF Follows, Leads
  <2>6. t = s
    BY <1>0, <2>5 DEF Matches
  <2> QED BY <2>3, <2>5, <2>6
<1>2. ASSUME seen.kind = "number"
      PROVE  sent.kind = "number"
  <2>1. Leads(PrunedAll(v)[r], s)
    BY <1>0, <1>2, ChildIsThere DEF Follows
  <2>2. PICK t \in Segments(ValueAt(v, r)) :
           seen = PrunedAll(v)[Append(r, t)] /\ Matches(v, r, t, s)
    BY <1>0, <2>1 DEF Follows, Leads
  <2>3. t = s
    BY <1>0, <2>2 DEF Matches
  <2>4. Valid(v, a) /\ ValueAt(v, a) = sent
    BY <1>0, <2>2, <2>3, ValidAppend DEF Leads
  <2>5. PrunedAll(v)[a].kind = sent.kind
    BY <2>4, PrunedFollows DEF Follows
  <2> QED BY <1>2, <2>2, <2>3, <2>5
<1> QED BY <1>1, <1>2

(* The item at p[k] has a number, or those before it stay. *)
HasPlace(v, p, k) ==
  IsKey(p[k]) \/ ValueAt(v, Append(SubSeq(p, 1, k), Key("index"))).kind = "number"
              \/ \A j \in 0 .. p[k].index - 1 : Stays(v, Append(SubSeq(p, 1, k - 1), Index(j)))

(* Then the client finds what is there at the address it had. *)
LEMMA AddressKept ==
  ASSUME NEW v, Json(v), NEW p, NEW q, Stems(v, p, q),
         \A k \in 1 .. Len(p) : HasPlace(v, p, k)
  PROVE  Address(Pruned(v), q) = Address(v, p)
<1> DEFINE u == Pruned(v)
           at(w, r, k) ==
             LET number == ValueAt(w, Append(SubSeq(r, 1, k), Key("index")))
             IN IF ~IsKey(r[k]) /\ number.kind = "number" THEN Index(number.value) ELSE r[k]
<1>1. /\ p \in Seq(Segment) /\ q \in Seq(Segment) /\ Len(p) \in Nat /\ Len(q) = Len(p)
      /\ DOMAIN p = 1 .. Len(p) /\ DOMAIN q = 1 .. Len(p)
      /\ Valid(v, p) /\ Valid(u, q)
  BY StemsFacts, LenProperties DEF Stems
<1>2. ASSUME NEW k \in 1 .. Len(p)
      PROVE  at(u, q, k) = at(v, p, k)
  <2> DEFINE r == SubSeq(p, 1, k)
             x == SubSeq(q, 1, k)
             sent == Child(ValueAt(v, r), Key("index"))
             seen == Child(PrunedAll(v)[r], Key("index"))
  <2>1. k \in 0 .. Len(p) /\ k \in 0 .. Len(q)
    BY <1>1
  <2>2. Valid(v, r) /\ r \in Seq(Segment) /\ x \in Seq(Segment)
    BY <1>1, <2>1, Beginnings, WalkIsValueAt
  <2>3. ValueAt(u, x) = PrunedAll(v)[r]
    <3>1. Walk(u, q)[k] = ValueAt(u, x)
      BY <1>1, <2>1, WalkIsValueAt
    <3>2. Walk(u, q)[k] = PrunedAll(v)[r]
      BY <2>1 DEF Stems
    <3> QED BY <3>1, <3>2
  <2>4. /\ ValueAt(v, Append(r, Key("index"))) = sent
        /\ ValueAt(u, Append(x, Key("index"))) = seen
    <3>1. \A w : /\ ValueAt(w, Append(r, Key("index"))) = Child(ValueAt(w, r), Key("index"))
                 /\ ValueAt(w, Append(x, Key("index"))) = Child(ValueAt(w, x), Key("index"))
      BY <2>2, IndexKey, ValidAppend
    <3> QED BY <2>3, <3>1
  <2>5. /\ sent.kind = "number" <=> seen.kind = "number"
        /\ sent.kind = "number" => seen = sent
    BY <2>2, IndexKept
  <2>6. /\ Matches(v, SubSeq(p, 1, k - 1), p[k], q[k])
        /\ HasPlace(v, p, k)
    BY DEF Stems
  <2> HIDE DEF sent, seen, r, x
  <2>7. at(v, p, k) = IF ~IsKey(p[k]) /\ sent.kind = "number" THEN Index(sent.value) ELSE p[k]
    BY <2>4 DEF r
  <2>8. at(u, q, k) = IF ~IsKey(q[k]) /\ seen.kind = "number" THEN Index(seen.value) ELSE q[k]
    BY <2>4 DEF x
  <2>9. CASE IsKey(p[k])
    BY <2>6, <2>7, <2>8, <2>9 DEF Matches
  <2>10. CASE ~IsKey(p[k]) /\ sent.kind = "number"
    BY <2>5, <2>6, <2>7, <2>8, <2>10 DEF Matches
  <2>11. CASE ~IsKey(p[k]) /\ sent.kind # "number"
    <3>1. \A j \in 0 .. p[k].index - 1 : Stays(v, Append(SubSeq(p, 1, k - 1), Index(j)))
      BY <2>4, <2>6, <2>11 DEF HasPlace, r
    <3>2. q[k] = p[k]
      BY <2>6, <2>11, <3>1 DEF Matches
    <3> HIDE DEF at
    <3> QED BY <2>5, <2>7, <2>8, <2>11, <3>2
  <2> QED BY <2>9, <2>10, <2>11
<1>3. Address(u, q) = [k \in 1 .. Len(p) |-> at(u, q, k)]
  BY <1>1 DEF Address
<1>4. Address(v, p) = [k \in 1 .. Len(p) |-> at(v, p, k)]
  BY <1>1 DEF Address
<1> HIDE DEF at, u
<1> QED BY <1>2, <1>3, <1>4 DEF u

(***************************************************************************)
(* What is no container and no number of an item stays, and keeps what it  *)
(* is in.                                                                  *)
(***************************************************************************)
LEMMA SolidStays ==
  ASSUME NEW v, Json(v), NEW p, Valid(v, p), p # <<>>,
         ValueAt(v, p).kind \in Scalars,
         \A n \in 1 .. Len(p) : p[n] # Key("index"),
         IsKey(Last(p)) \/ ValueAt(v, p) # Null
  PROVE  \A n \in 1 .. Len(p) : Stays(v, SubSeq(p, 1, n))
<1> DEFINE m == Len(p)
           at(n) == SubSeq(p, 1, n)
           P == PrunedAll(v)
           T == {j \in Nat : j < m => Stays(v, at(m - j))}
<1>0. p \in Seq(Segment) /\ m \in Nat /\ m # 0 /\ at(m) = p
  <2>1. p \in Seq(Segment) /\ m \in Nat
    BY LenProperties DEF Valid
  <2>2. m # 0
    BY <2>1, EmptySeq
  <2>3. m \in 0 .. Len(p)
    BY <2>1
  <2> QED BY <2>1, <2>2, <2>3, Beginnings
<1> HIDE DEF m
<1>1. 0 \in T
  <2>1. PrunedAll(v)[p] = ValueAt(v, p)
    BY PrunedFollows DEF Scalars
  <2>2. ~IsEmptyContainer(PrunedAll(v)[p])
    BY <2>1 DEF IsEmptyContainer, Scalars
  <2>3. Stays(v, p)
    BY <2>1, <2>2 DEF Stays
  <2>4. m - 0 = m
    BY <1>0
  <2> QED BY <1>0, <2>3, <2>4
<1>2. ASSUME NEW j \in Nat, j \in T
      PROVE  j + 1 \in T
  <2> SUFFICES ASSUME j + 1 < m
               PROVE  Stays(v, at(m - (j + 1)))
    OBVIOUS
  <2> DEFINE n == m - (j + 1)
             r == at(n)
             s == p[n + 1]
  <2>1. n \in 0 .. m - 1 /\ n \in 0 .. m /\ n \in 1 .. m /\ m - j = n + 1 /\ n + 1 \in 1 .. m
    BY <1>0
  <2> HIDE DEF n
  <2>2. /\ r \in Seq(Segment) /\ Valid(v, r) /\ s \in Segment /\ at(n + 1) = Append(r, s)
        /\ s # Key("index") /\ Len(r) = n
    BY <1>0, <2>1, Beginnings, BeginningsNext, WalkIsValueAt DEF m
  <2>3. Stays(v, Append(r, s)) /\ Valid(v, Append(r, s))
    <3>1. Stays(v, at(m - j))
      <4>1. j < m
        BY <1>0
      <4> HIDE DEF at
      <4> QED BY <1>2, <4>1
    <3>2. n + 1 \in 0 .. m
      BY <1>0, <2>1
    <3>3. Valid(v, at(n + 1))
      BY <1>0, <3>2, WalkIsValueAt DEF m
    <3> HIDE DEF at
    <3> QED BY <2>1, <2>2, <3>1, <3>3
  <2>4. Leads(ValueAt(v, r), s) /\ Follows(v, r)
    BY <2>2, <2>3, ValidAppend, PrunedFollows
  <2>5. PICK t \in Segments(P[r]) : Matches(v, r, s, t)
    BY <2>3, <2>4 DEF Follows, Leads
  <2>6. WellFormed(P[r]) /\ t \in Segment
    BY <2>4, <2>5, SegmentsTyped DEF Follows
  <2>7. P[r].kind \in {"array", "object"}
    BY <2>5 DEF Segments
  <2>8. ~IsEmptyContainer(P[r])
    <3>1. CASE P[r].kind = "object"
      <4>1. PICK k \in DOMAIN P[r].fields : t = Key(k)
        BY <2>5, <3>1 DEF Segments
      <4>2. IsKey(t)
        BY <4>1 DEF IsKey, Key
      <4>3. t = s
        BY <2>5, <4>2 DEF Matches
      <4>4. k # "index"
        BY <2>2, <4>1, <4>3
      <4> QED BY <3>1, <4>1, <4>4 DEF IsEmptyContainer
    <3>2. CASE P[r].kind = "array"
      <4>1. DOMAIN P[r].items # {}
        BY <2>5, <3>2 DEF Segments
      <4>2. P[r].items # <<>>
        BY <4>1
      <4> QED BY <3>2, <4>2 DEF IsEmptyContainer
    <3> QED BY <2>7, <3>1, <3>2
  <2>9. P[r] # Null
    BY <2>7 DEF Null
  <2> QED BY <2>8, <2>9 DEF Stays, n
<1>3. \A j \in Nat : j \in T
  <2> HIDE DEF T
  <2> QED BY <1>1, <1>2, NaturalInduction
<1>4. ASSUME NEW n \in 1 .. m
      PROVE  Stays(v, at(n))
  <2>1. m - n \in Nat /\ m - n < m /\ m - (m - n) = n
    BY <1>0
  <2>2. m - n \in T
    <3> HIDE DEF T
    <3> QED BY <1>3, <2>1
  <2>3. Stays(v, at(m - (m - n)))
    <3> HIDE DEF at
    <3> QED BY <2>1, <2>2
  <2> HIDE DEF at
  <2> QED BY <2>1, <2>3
<1> QED BY <1>4 DEF m

-----------------------------------------------------------------------------
(* What has become of the event, and its addresses. *)
LEMMA BecomesJson ==
  ASSUME Json(event), NEW t, Becomes(t)
  PROVE  Json(t)
<1> SUFFICES ASSUME NEW p \in Seq(Segment), Valid(t, p)
             PROVE  WellFormed(ValueAt(t, p)) /\ Len(p) =< MaxDepth
  BY DEF Json
<1>1. Valid(event, p) /\ Stands(ValueAt(t, p), p)
  BY DEF Becomes, BecomesOf
<1> QED BY <1>1 DEF Stands, Json

(* A number stays, and there are no others. *)
LEMMA NumberStays ==
  ASSUME Json(event), NEW t, Becomes(t), NEW r, Valid(t, r), NEW s \in Segment
  PROVE  LET sent == Child(ValueAt(event, r), s)
             here == Child(ValueAt(t, r), s)
         IN  /\ sent.kind = "number" <=> here.kind = "number"
             /\ sent.kind = "number" => here = sent
<1> DEFINE sent == Child(ValueAt(event, r), s)
           here == Child(ValueAt(t, r), s)
           a == Append(r, s)
<1>1. /\ r \in Seq(Segment) /\ a \in Seq(Segment) /\ Valid(event, r)
      /\ WellFormed(ValueAt(event, r)) /\ WellFormed(ValueAt(t, r))
      /\ ValueAt(event, a) = sent /\ ValueAt(t, a) = here
  BY BecomesJson, AppendFacts, ValidAppend DEF Valid, Becomes, BecomesOf, Json
<1>2. BecomesOf(a, t)
  BY <1>1 DEF Becomes
<1>3. ASSUME sent.kind = "number"
      PROVE  here = sent
  <2>1. Valid(event, a)
    BY <1>1, <1>3, ChildIsThere, ValidAppend
  <2>2. ~Taken(a)
    BY <1>1, <1>3 DEF Taken, Texts, StringPaths
  <2>3. Stands(here, a)
    BY <1>1, <1>2, <2>1, <2>2 DEF BecomesOf
  <2> QED BY <1>1, <1>3, <2>3 DEF Stands
<1>4. ASSUME here.kind = "number"
      PROVE  sent.kind = "number"
  <2>1. Valid(t, a)
    BY <1>1, <1>4, ChildIsThere, ValidAppend
  <2>2. Valid(event, a) /\ Stands(here, a)
    BY <1>1, <1>2, <2>1 DEF BecomesOf
  <2>3. WellFormed(sent)
    BY <1>1, <2>2 DEF Json
  <2>4. sent.kind \in {"string", "number", "null", "array", "object"}
    BY <2>3 DEF WellFormed, Scalars
  <2>5. sent.kind # "string"
    BY <1>1, <1>4, <2>2 DEF Stands, String, Null
  <2> QED BY <1>1, <1>4, <2>2, <2>4, <2>5 DEF Stands
<1> QED BY <1>3, <1>4

LEMMA SameAddress ==
  ASSUME Json(event), NEW t, Becomes(t), NEW p, Valid(t, p)
  PROVE  Address(t, p) = Address(event, p)
<1> DEFINE at(w, k) ==
             LET number == ValueAt(w, Append(SubSeq(p, 1, k), Key("index")))
             IN IF ~IsKey(p[k]) /\ number.kind = "number" THEN Index(number.value) ELSE p[k]
<1>1. p \in Seq(Segment) /\ Len(p) \in Nat /\ DOMAIN p = 1 .. Len(p)
  BY LenProperties DEF Valid
<1>2. ASSUME NEW k \in DOMAIN p
      PROVE  at(t, k) = at(event, k)
  <2> DEFINE r == SubSeq(p, 1, k)
             sent == Child(ValueAt(event, r), Key("index"))
             here == Child(ValueAt(t, r), Key("index"))
  <2>1. k \in 0 .. Len(p)
    BY <1>1
  <2>2. Valid(t, r) /\ r \in Seq(Segment)
    BY <1>1, <2>1, Beginnings, WalkIsValueAt
  <2>3. /\ ValueAt(event, Append(r, Key("index"))) = sent
        /\ ValueAt(t, Append(r, Key("index"))) = here
    BY <2>2, IndexKey, ValidAppend
  <2>4. /\ sent.kind = "number" <=> here.kind = "number"
        /\ sent.kind = "number" => here = sent
    BY <2>2, IndexKey, NumberStays
  <2> HIDE DEF sent, here, r
  <2>5. at(event, k) = IF ~IsKey(p[k]) /\ sent.kind = "number" THEN Index(sent.value) ELSE p[k]
    BY <2>3 DEF r
  <2>6. at(t, k) = IF ~IsKey(p[k]) /\ here.kind = "number" THEN Index(here.value) ELSE p[k]
    BY <2>3 DEF r
  <2> QED BY <2>4, <2>5, <2>6
<1>3. Address(t, p) = [k \in DOMAIN p |-> at(t, k)]
  BY DEF Address
<1>4. Address(event, p) = [k \in DOMAIN p |-> at(event, k)]
  BY DEF Address
<1> HIDE DEF at
<1> QED BY <1>2, <1>3, <1>4

(* An index is a number, so that nothing is below it. *)
LEMMA NoIndexOn ==
  ASSUME Json(event), Regular(event), NEW p, Valid(event, p),
         Last(p) = Key("index") => ValueAt(event, p).kind # "number"
  PROVE  \A n \in 1 .. Len(p) : p[n] # Key("index")
<1> SUFFICES ASSUME NEW n \in 1 .. Len(p), p[n] = Key("index")
             PROVE  FALSE
  OBVIOUS
<1> DEFINE r == SubSeq(p, 1, n)
<1>1. p \in Seq(Segment) /\ Len(p) \in Nat /\ n \in 0 .. Len(p)
  BY LenProperties DEF Valid
<1>2. r \in Seq(Segment) /\ Len(r) = n /\ r[n] = p[n] /\ Along(r, p)
  BY <1>1, Beginnings
<1> HIDE DEF r
<1>3. r # <<>> /\ Last(r) = Key("index")
  BY <1>2, EmptySeq DEF Last
<1>4. Valid(event, r) /\ (p # r => Segments(ValueAt(event, r)) # {})
  BY <1>1, <1>2, NothingBelow
<1>5. r \in PathsIn(event) \ {<<>>}
  BY <1>3, <1>4, JsonPaths
<1>6. ValueAt(event, r).kind = "number"
  BY <1>3, <1>5 DEF Regular
<1> QED BY <1>3, <1>4, <1>6 DEF Segments

(* What is plain is there to the end, with all that it is in. *)
LEMMA PlainStays ==
  ASSUME Json(event), Regular(event), todo = {}, NEW t, Becomes(t), NEW p \in Plain(event)
  PROVE  /\ Valid(event, p) /\ Valid(t, p)
         /\ LET sent == ValueAt(event, p)
                here == ValueAt(t, p)
            IN  /\ here.kind \in Scalars
                /\ \/ here = sent
                   \/ sent.kind = "string" /\ here = String(Restored(sent.text))
         /\ \A n \in 1 .. Len(p) : Stays(t, SubSeq(p, 1, n))
<1> DEFINE sent == ValueAt(event, p)
           here == ValueAt(t, p)
<1>1. /\ p \in ScalarPaths(event) /\ p \notin Texts(event)
      /\ Last(p) # Key("index") /\ (IsKey(Last(p)) \/ sent # Null)
  BY DEF Plain
<1>2. Valid(event, p) /\ sent.kind \in Scalars /\ p \in Seq(Segment) /\ Len(p) \in Nat
  BY <1>1, JsonPaths, LenProperties DEF ScalarPaths, Valid
<1>3. Valid(t, p) /\ Stands(here, p)
  BY <1>1, <1>2 DEF Becomes, BecomesOf, Taken
<1>4. /\ here.kind \in Scalars
      /\ here = sent \/ (sent.kind = "string" /\ here = String(Restored(sent.text)))
      /\ sent # Null => here # Null
  <2>1. CASE sent.kind \in {"number", "null"}
    BY <1>2, <1>3, <2>1 DEF Stands
  <2>2. CASE sent.kind = "string"
    <3>1. ~Buffered(p)
      BY <1>1, <1>2, <2>2, JsonPaths DEF Texts, StringPaths, ScalarPaths
    <3>2. here = sent \/ here = String(Restored(sent.text))
      BY <1>3, <2>2, <3>1 DEF Stands
    <3> QED BY <1>2, <2>2, <3>2 DEF String, Null, Scalars
  <2> QED BY <1>2, <2>1, <2>2 DEF Scalars
<1>5. \A n \in 1 .. Len(p) : p[n] # Key("index")
  BY <1>1, <1>2, NoIndexOn
<1>6. \A n \in 1 .. Len(p) : Stays(t, SubSeq(p, 1, n))
  <2>1. CASE p = <<>>
    <3>1. ~\E n \in 1 .. Len(p) : TRUE
      BY <2>1, ValidRoot
    <3> QED BY <3>1
  <2>2. CASE p # <<>>
    <3>1. IsKey(Last(p)) \/ here # Null
      BY <1>1, <1>4
    <3> QED BY <1>3, <1>4, <1>5, <2>2, <3>1, BecomesJson, SolidStays
  <2> QED BY <2>1, <2>2
<1> QED BY <1>2, <1>3, <1>4, <1>6

(* A path that is steady keeps its address. *)
LEMMA SteadyHasPlaces ==
  ASSUME Json(event), Regular(event), todo = {}, NEW t, Becomes(t),
         NEW p, Valid(t, p), Steady(event, p)
  PROVE  \A k \in 1 .. Len(p) : HasPlace(t, p, k)
<1> SUFFICES ASSUME NEW k \in 1 .. Len(p), ~IsKey(p[k])
             PROVE  HasPlace(t, p, k)
  BY DEF HasPlace
<1>1. p \in Seq(Segment) /\ Len(p) \in Nat /\ DOMAIN p = 1 .. Len(p) /\ p[k] \in Segment
  BY LenProperties, ElementOfSeq DEF Valid
<1>2. k \in 0 .. Len(p) /\ k - 1 \in 0 .. Len(p)
  BY <1>1
<1> DEFINE r == SubSeq(p, 1, k)
           b == SubSeq(p, 1, k - 1)
<1>3. /\ r \in Seq(Segment) /\ Valid(t, r)
      /\ b \in Seq(Segment) /\ Len(b) = k - 1 /\ Valid(t, b)
  BY <1>1, <1>2, Beginnings, WalkIsValueAt
<1> HIDE DEF r, b
<1>4. CASE ValueAt(event, Append(r, Key("index"))).kind = "number"
  <2>1. /\ ValueAt(event, Append(r, Key("index"))) = Child(ValueAt(event, r), Key("index"))
        /\ ValueAt(t, Append(r, Key("index"))) = Child(ValueAt(t, r), Key("index"))
    BY <1>3, IndexKey, ValidAppend
  <2>2. ValueAt(t, Append(r, Key("index"))).kind = "number"
    BY <1>3, <1>4, <2>1, IndexKey, NumberStays
  <2> QED BY <2>2 DEF HasPlace, r
<1>5. CASE \A j \in 0 .. p[k].index - 1 : \E x \in Plain(event) : IsPrefix(Append(b, Index(j)), x)
  <2>1. ASSUME NEW j \in 0 .. p[k].index - 1
        PROVE  Stays(t, Append(b, Index(j)))
    <3> DEFINE a == Append(b, Index(j))
    <3>1. PICK x \in Plain(event) : IsPrefix(a, x)
      BY <1>5
    <3>2. Index(j) \in Segment
      <4>1. p[k].index \in Nat
        BY <1>1, SegmentCases
      <4>2. j \in Nat
        BY <4>1
      <4> QED BY <4>2 DEF Segment, Index
    <3>3. a \in Seq(Segment) /\ Len(a) = k
      BY <1>3, <3>2, AppendFacts
    <3>4. x \in Seq(Segment) /\ \A n \in 1 .. Len(x) : Stays(t, SubSeq(x, 1, n))
      BY PlainStays DEF Valid
    <3> HIDE DEF a
    <3>5. k =< Len(x) /\ a = SubSeq(x, 1, k) /\ Len(x) \in Nat
      BY <3>1, <3>3, <3>4, PrefixIsSlice, LenProperties
    <3>6. k \in 1 .. Len(x)
      BY <3>5
    <3> QED BY <3>4, <3>5, <3>6 DEF a
  <2> QED BY <2>1 DEF HasPlace, b
<1> QED BY <1>1, <1>4, <1>5 DEF Steady, r, b

-----------------------------------------------------------------------------
LEMMA FirstDeltaFacts ==
  /\ FirstDelta \in Seq(Segment) /\ Len(FirstDelta) = 3
  /\ FirstDelta[1] = Key("choices") /\ FirstDelta[2] = Index(0) /\ FirstDelta[3] = Key("delta")
<1>1. Key("choices") \in Segment /\ Key("delta") \in Segment /\ Index(0) \in Segment
  BY KeyAssumption DEF Key, Index, Segment
<1>2. /\ FirstOfChoices \in Seq(Segment) /\ Len(FirstOfChoices) = 2
      /\ FirstOfChoices[1] = Key("choices") /\ FirstOfChoices[2] = Index(0)
  BY <1>1 DEF FirstOfChoices
<1>3. /\ FirstDelta \in Seq(Segment) /\ Len(FirstDelta) = Len(FirstOfChoices) + 1
      /\ FirstDelta[Len(FirstOfChoices) + 1] = Key("delta")
      /\ \A k \in 1 .. Len(FirstOfChoices) : FirstDelta[k] = FirstOfChoices[k]
  BY <1>1, <1>2, AppendFacts DEF FirstDelta
<1>4. 1 \in 1 .. Len(FirstOfChoices) /\ 2 \in 1 .. Len(FirstOfChoices)
  BY <1>2
<1>5. FirstDelta[1] = Key("choices") /\ FirstDelta[2] = Index(0)
  BY <1>2, <1>3, <1>4
<1> QED BY <1>2, <1>3, <1>5

(* What is known when the stream has ended. *)
LEMMA EndFacts ==
  ASSUME EventInv, pc = "ended"
  PROVE  /\ todo = {} /\ Json(event)
         /\ passed = IF ShouldForward(tree, Texts(event) # {}) THEN <<tree>> ELSE <<>>
         /\ \E t : Becomes(t) /\ Json(t) /\ tree = Pruned(t)
<1>1. todo = {} /\ Json(event)
  BY InputFacts DEF EventInv, InputInv
<1>2. passed = IF ShouldForward(tree, Texts(event) # {}) THEN <<tree>> ELSE <<>>
  BY DEF EventInv, PassedInv
<1>3. \E t : Becomes(t) /\ tree = Pruned(t)
  BY DEF EventInv, PrunedInv
<1> QED BY <1>1, <1>2, <1>3, BecomesJson

(* What goes with the first delta's path is still there. *)
LEMMA FirstDeltaStems ==
  ASSUME NEW v, NEW p, NEW q, Stems(v, p, q), IsPrefix(FirstDelta, p)
  PROVE  Len(p) >= 3 /\ SubSeq(p, 1, 3) = FirstDelta /\ SubSeq(q, 1, 3) = FirstDelta
<1>1. /\ p \in Seq(Segment) /\ q \in Seq(Segment) /\ Len(p) \in Nat /\ Len(q) = Len(p)
  BY LenProperties DEF Stems, Valid
<1>2. Len(p) >= 3 /\ SubSeq(p, 1, 3) = FirstDelta
  BY <1>1, FirstDeltaFacts, PrefixIsSlice
<1>3. 3 \in 0 .. Len(p) /\ 3 \in 0 .. Len(q) /\ \A k \in 1 .. 3 : k \in 1 .. Len(p)
  BY <1>1, <1>2
<1>4. \A k \in 1 .. 3 : p[k] = FirstDelta[k]
  BY <1>1, <1>2, <1>3, Beginnings
<1>5. \A k \in 1 .. 3 : Matches(v, SubSeq(p, 1, k - 1), p[k], q[k])
  BY <1>3 DEF Stems
<1>6. \A k \in 1 .. 3 : q[k] = FirstDelta[k]
  <2>1. q[1] = p[1] /\ q[3] = p[3]
    <3>1. IsKey(p[1]) /\ IsKey(p[3])
      BY <1>4, FirstDeltaFacts DEF Key, IsKey
    <3>2. 1 \in 1 .. 3 /\ 3 \in 1 .. 3
      OBVIOUS
    <3> QED BY <1>5, <3>1, <3>2 DEF Matches
  <2>2. q[2] = p[2]
    <3>1. 2 \in 1 .. 3
      OBVIOUS
    <3>2. p[2] = Index(0)
      BY <1>4, <3>1, FirstDeltaFacts
    <3>3. ~IsKey(p[2]) /\ p[2].index = 0
      BY <3>2 DEF Index, IsKey
    <3>4. ~\E j \in 0 .. p[2].index - 1 : TRUE
      BY <3>3
    <3> QED BY <1>5, <3>1, <3>3, <3>4 DEF Matches
  <2> QED BY <1>4, <2>1, <2>2
<1>7. SubSeq(q, 1, 3) = FirstDelta
  <2>1. /\ SubSeq(q, 1, 3) \in Seq(Segment) /\ Len(SubSeq(q, 1, 3)) = 3
        /\ \A k \in 1 .. 3 : SubSeq(q, 1, 3)[k] = q[k]
    BY <1>1, <1>3, Beginnings
  <2> QED BY <1>6, <2>1, FirstDeltaFacts, SeqEqual
<1> QED BY <1>2, <1>7

(* With something in the first delta, it has fields when it is pruned. *)
LEMMA DeltaKeepsFields ==
  ASSUME NEW v, Json(v), NEW p, NEW q, Stems(v, p, q), IsPrefix(FirstDelta, p),
         p # FirstDelta, ValueAt(v, FirstDelta).kind = "object"
  PROVE  DeltaHasFields(Pruned(v))
<1> DEFINE u == Pruned(v)
           delta == ValueAt(u, FirstDelta)
<1>1. /\ p \in Seq(Segment) /\ q \in Seq(Segment) /\ Len(p) \in Nat /\ Len(q) = Len(p)
      /\ Valid(v, p) /\ Valid(u, q)
  BY StemsFacts DEF Stems
<1>2. Len(p) >= 3 /\ SubSeq(p, 1, 3) = FirstDelta /\ SubSeq(q, 1, 3) = FirstDelta
  BY FirstDeltaStems
<1>3. Len(p) # 3
  <2> SUFFICES ASSUME Len(p) = 3 PROVE FALSE
    OBVIOUS
  <2>1. 3 \in 0 .. Len(p)
    OBVIOUS
  <2> QED BY <1>1, <1>2, <2>1, Beginnings
<1>4. 3 \in 0 .. Len(p) /\ 3 \in 0 .. Len(q) /\ 3 \in 0 .. Len(q) - 1
  BY <1>1, <1>2, <1>3
<1>5. Walk(u, q)[3] = delta /\ Valid(v, FirstDelta)
  <2>1. Walk(u, q)[3] = ValueAt(u, SubSeq(q, 1, 3))
    BY <1>1, <1>4, WalkIsValueAt
  <2>2. Valid(v, SubSeq(p, 1, 3))
    BY <1>1, <1>4, WalkIsValueAt
  <2> QED BY <1>2, <2>1, <2>2
<1>6. delta = PrunedAll(v)[FirstDelta]
  BY <1>2, <1>4, <1>5 DEF Stems
<1>7. delta.kind = "object"
  BY <1>5, <1>6, PrunedFollows DEF Follows
<1>8. q[3 + 1] \in Segments(delta)
  BY <1>1, <1>4, <1>5 DEF Valid, Leads
<1> HIDE DEF delta
<1>9. DOMAIN delta.fields # {}
  BY <1>7, <1>8 DEF Segments
<1> QED BY <1>7, <1>9 DEF DeltaHasFields, delta

(* So an event with something in its first delta is sent on. *)
LEMMA DeltaIsSent ==
  ASSUME Json(event), Regular(event), NEW t, Becomes(t), Json(t), NEW p, NEW q, Stems(t, p, q),
         IsPrefix(FirstDelta, p), ValueAt(t, p).kind \in Scalars
  PROVE  DeltaHasFields(Pruned(t))
<1>1. Valid(t, FirstDelta) /\ FirstDelta \in Seq(Segment)
  <2>1. Len(p) >= 3 /\ SubSeq(p, 1, 3) = FirstDelta
    BY FirstDeltaStems
  <2>2. Valid(t, p) /\ p \in Seq(Segment)
    BY DEF Stems, Valid
  <2>3. 3 \in 0 .. Len(p)
    BY <2>1, <2>2, LenProperties
  <2> QED BY <2>1, <2>2, <2>3, WalkIsValueAt, FirstDeltaFacts
<1>2. Valid(event, FirstDelta) /\ Stands(ValueAt(t, FirstDelta), FirstDelta)
  BY <1>1 DEF Becomes, BecomesOf
<1>3. ValueAt(event, FirstDelta).kind = "object"
  <2>1. WellFormed(ValueAt(event, FirstDelta))
    BY <1>1, <1>2 DEF Json
  <2>2. ValueAt(event, FirstDelta).kind # "absent"
    BY <2>1 DEF WellFormed, Scalars
  <2> QED BY <2>2 DEF Regular
<1>4. ValueAt(t, FirstDelta).kind = "object"
  BY <1>2, <1>3 DEF Stands
<1>5. p # FirstDelta
  BY <1>4 DEF Scalars
<1> QED BY <1>4, <1>5, DeltaKeepsFields

(***************************************************************************)
(* Of events as upstreams send them, whatever is no part of a text reaches *)
(* the client: whatever is removed and pruned around it, it is where it    *)
(* was, and no event is held back that has such in its first delta.        *)
(***************************************************************************)
THEOREM SignalsAreKept ==
  ASSUME \A i \in Inputs : Regular(i[1])
  PROVE  Spec => []SignalsKept
<1>1. ASSUME EventInv
      PROVE  SignalsKept
  <2> SUFFICES ASSUME pc = "ended", NEW p \in Plain(event)
               PROVE  IF passed = <<>> THEN ~IsPrefix(FirstDelta, p)
                      ELSE \E q \in ScalarPaths(passed[1]) :
                             /\ Address(passed[1], q) = Address(event, p)
                             /\ LET sent == ValueAt(event, p)
                                    seen == ValueAt(passed[1], q)
                                IN \/ seen = sent
                                   \/ sent.kind = "string" /\ seen = String(Restored(sent.text))
    BY DEF SignalsKept
  <2>1. todo = {} /\ Json(event)
        /\ passed = IF ShouldForward(tree, Texts(event) # {}) THEN <<tree>> ELSE <<>>
    BY <1>1, EndFacts
  <2>2. PICK t : Becomes(t) /\ Json(t) /\ tree = Pruned(t)
    BY <1>1, EndFacts
  <2>3. Regular(event)
    BY <1>1 DEF EventInv, InputInv
  <2>4. /\ Valid(event, p) /\ Valid(t, p)
        /\ ValueAt(t, p).kind \in Scalars
        /\ \/ ValueAt(t, p) = ValueAt(event, p)
           \/ /\ ValueAt(event, p).kind = "string"
              /\ ValueAt(t, p) = String(Restored(ValueAt(event, p).text))
        /\ \A n \in 1 .. Len(p) : Stays(t, SubSeq(p, 1, n))
    BY <2>1, <2>2, <2>3, PlainStays
  <2>5. PICK q : Stems(t, p, q)
    BY <2>2, <2>4, PrunedHas
  <2>6. CASE passed = <<>>
    <3> SUFFICES ASSUME IsPrefix(FirstDelta, p)
                 PROVE  FALSE
      BY <2>6
    <3>1. ~DeltaHasFields(tree)
      BY <2>1, <2>6 DEF ShouldForward
    <3> QED BY <2>1, <2>2, <2>3, <2>4, <2>5, <3>1, DeltaIsSent
  <2>7. CASE passed # <<>>
    <3>1. passed[1] = tree
      BY <2>1, <2>7
    <3>2. ValueAt(tree, q) = ValueAt(t, p)
      BY <2>2, <2>4, <2>5, StemsFacts
    <3>3. q \in ScalarPaths(tree)
      BY <2>2, <2>4, <2>5, <3>2, PrunedIsJson, JsonPaths DEF Stems, ScalarPaths
    <3>4. Steady(event, p)
      BY <2>3 DEF Regular
    <3>5. Address(tree, q) = Address(event, p)
      BY <2>1, <2>2, <2>3, <2>4, <2>5, <3>4, SteadyHasPlaces, AddressKept, SameAddress
    <3> QED BY <2>4, <2>7, <3>1, <3>2, <3>3, <3>5
  <2> QED BY <2>6, <2>7
<1> QED BY <1>1, EventInvariant, PTL

-----------------------------------------------------------------------------
(* Further on along b from where a leads to. *)
LEMMA PathConcat ==
  ASSUME NEW v, NEW a \in Seq(Segment), NEW b \in Seq(Segment)
  PROVE  /\ a \o b \in Seq(Segment) /\ Len(a) \in Nat /\ Len(b) \in Nat
         /\ Len(a \o b) = Len(a) + Len(b)
         /\ \A k \in 1 .. Len(a) : (a \o b)[k] = a[k]
         /\ \A j \in 1 .. Len(b) : (a \o b)[Len(a) + j] = b[j]
         /\ \A k \in 0 .. Len(a) : Walk(v, a \o b)[k] = Walk(v, a)[k]
         /\ \A j \in 0 .. Len(b) : Walk(v, a \o b)[Len(a) + j] = Walk(ValueAt(v, a), b)[j]
<1> DEFINE y == a \o b
           m == Len(a)
           u == ValueAt(v, a)
           T == {j \in Nat : j =< Len(b) => Walk(v, y)[m + j] = Walk(u, b)[j]}
<1>0. \A i \in 1 .. m + Len(b) : y[i] = IF i =< m THEN a[i] ELSE b[i - m]
  BY ConcatProperties
<1>1. /\ y \in Seq(Segment) /\ m \in Nat /\ Len(b) \in Nat
      /\ Len(y) = m + Len(b)
  BY ConcatProperties, LenProperties
<1>11. Len(y) \in Nat
  BY <1>1
<1>2. u = Walk(v, a)[m]
  BY DEF ValueAt
<1> HIDE DEF y, m, u
<1>3. \A k \in 1 .. m : y[k] = a[k]
  BY <1>0, <1>1
<1>4. \A j \in 1 .. Len(b) : y[m + j] = b[j]
  <2> SUFFICES ASSUME NEW j \in 1 .. Len(b)
               PROVE  y[m + j] = b[j]
    OBVIOUS
  <2>1. m + j \in 1 .. m + Len(b) /\ ~(m + j =< m) /\ (m + j) - m = j
    BY <1>1
  <2> QED BY <1>0, <2>1
<1>5. \A k \in 0 .. m : Walk(v, y)[k] = Walk(v, a)[k]
  <2>1. m =< Len(y) /\ m =< Len(a) /\ Len(a) \in Nat /\ Len(y) \in Nat
    BY <1>1 DEF m
  <2>2. \A k \in 1 .. m : y[k] = a[k]
    BY <1>3
  <2>3. \A k \in 0 .. m : Walk(v, y)[k] = Walk(v, a)[k]
    <3>1. m \in Nat
      BY <1>1
    <3> QED BY <2>1, <2>2, <3>1, WalkTogether
  <2> QED BY <2>3
<1>6. 0 \in T
  <2>1. Walk(u, b)[0] = u /\ m + 0 = m /\ m \in 0 .. m
    BY <1>1, WalkFacts
  <2> QED BY <1>2, <1>5, <2>1
<1>7. ASSUME NEW j \in Nat, j \in T
      PROVE  j + 1 \in T
  <2> SUFFICES ASSUME j + 1 =< Len(b)
               PROVE  Walk(v, y)[m + (j + 1)] = Walk(u, b)[j + 1]
    OBVIOUS
  <2>1. /\ j + 1 \in 1 .. Len(b) /\ (j + 1) - 1 = j /\ j =< Len(b)
        /\ m + (j + 1) \in 1 .. Len(y) /\ (m + (j + 1)) - 1 = m + j
    BY <1>1
  <2>2. Walk(v, y)[m + (j + 1)] = Child(Walk(v, y)[(m + (j + 1)) - 1], y[m + (j + 1)])
    <3>1. \A k \in 1 .. Len(y) : Walk(v, y)[k] = Child(Walk(v, y)[k - 1], y[k])
      BY <1>11, WalkFacts
    <3> QED BY <2>1, <3>1
  <2>3. Walk(u, b)[j + 1] = Child(Walk(u, b)[(j + 1) - 1], b[j + 1])
    <3>1. \A k \in 1 .. Len(b) : Walk(u, b)[k] = Child(Walk(u, b)[k - 1], b[k])
      BY <1>1, WalkFacts
    <3> QED BY <2>1, <3>1
  <2>4. y[m + (j + 1)] = b[j + 1] /\ Walk(v, y)[m + j] = Walk(u, b)[j]
    BY <1>4, <1>7, <2>1
  <2> QED BY <2>1, <2>2, <2>3, <2>4
<1>8. \A j \in Nat : j \in T
  <2> HIDE DEF T
  <2> QED BY <1>6, <1>7, NaturalInduction
<1>9. \A j \in 0 .. Len(b) : Walk(v, y)[m + j] = Walk(u, b)[j]
  BY <1>1, <1>8
<1> QED BY <1>1, <1>3, <1>4, <1>5, <1>9 DEF y, m, u

(* What there is beside the way to the text of an event that is made for it. *)
Blanks == {Object(<<>>), Null, Number(0)}

(***************************************************************************)
(* Nothing but blanks is beside the way of y in e; and where a zero is, it *)
(* is the number of the first item of an array.                            *)
(***************************************************************************)
BareWay(e, y) ==
  /\ y \in Seq(Segment)
  /\ \A k \in 0 .. Len(y) - 1 :
       LET u == Walk(e, y)[k]
       IN /\ Leads(u, y[k + 1])
          /\ \A s \in Segments(u) \ {y[k + 1]} :
               /\ Child(u, s) \in Blanks
               /\ Child(u, s) = Number(0) => k > 0 /\ y[k] = Index(0)

(* From segment n on nothing but empty objects is. *)
Hollow(e, y, n) ==
  \A k \in n .. Len(y) - 1 : \A s \in Segments(Walk(e, y)[k]) \ {y[k + 1]} :
    Child(Walk(e, y)[k], s) = Object(<<>>)

LEMMA EmptyObject == WellFormed(Object(<<>>)) /\ Segments(Object(<<>>)) = {}
<1>1. DOMAIN <<>> = {}
  OBVIOUS
<1>2. <<>> = [k \in DOMAIN <<>> |-> <<>>[k]]
  OBVIOUS
<1>3. Object(<<>>).kind = "object" /\ Object(<<>>).fields = <<>>
  BY DEF Object
<1>4. WellFormed(Object(<<>>))
  BY <1>1, <1>2, <1>3 DEF WellFormed
<1>5. Segments(Object(<<>>)) = {}
  BY <1>1, <1>3 DEF Segments
<1> QED BY <1>4, <1>5

LEMMA BlankFacts ==
  ASSUME NEW x \in Blanks
  PROVE  WellFormed(x) /\ Segments(x) = {} /\ x.kind # "string"
<1>1. CASE x = Object(<<>>)
  BY <1>1, EmptyObject DEF Object
<1>2. CASE x = Null \/ x = Number(0)
  BY <1>2 DEF Null, Number, WellFormed, Scalars, Segments
<1> QED BY <1>1, <1>2 DEF Blanks

(* Then there is one text at most. *)
LEMMA BareValues ==
  ASSUME NEW e, NEW y, BareWay(e, y), WellFormed(ValueAt(e, y)), Segments(ValueAt(e, y)) = {}
  PROVE  /\ Valid(e, y)
         /\ \A x : Valid(e, x) =>
              /\ WellFormed(ValueAt(e, x)) /\ Len(x) =< Len(y)
              /\ x # y => ValueAt(e, x).kind # "string"
<1>1. Valid(e, y) /\ y \in Seq(Segment) /\ Len(y) \in Nat
  BY LenProperties DEF BareWay, Valid
<1> SUFFICES ASSUME NEW x, Valid(e, x), x # y
             PROVE  /\ WellFormed(ValueAt(e, x)) /\ Len(x) =< Len(y)
                    /\ ValueAt(e, x).kind # "string"
  BY <1>1
<1>2. x \in Seq(Segment) /\ Len(x) \in Nat
  BY LenProperties DEF Valid
<1>3. CASE Along(x, y)
  <2>1. Len(x) < Len(y)
    BY <1>1, <1>2, <1>3, SamePath DEF Along
  <2>2. Walk(e, x)[Len(x)] = Walk(e, y)[Len(x)]
    BY <1>1, <1>2, <1>3, <2>1, WalkTogether DEF Along
  <2>3. Len(x) \in 0 .. Len(y) - 1
    BY <1>1, <1>2, <2>1
  <2>4. Leads(ValueAt(e, x), y[Len(x) + 1])
    BY <2>2, <2>3 DEF BareWay, ValueAt
  <2>5. WellFormed(ValueAt(e, x)) /\ Segments(ValueAt(e, x)) # {}
    BY <2>4 DEF Leads
  <2> QED BY <2>1, <2>5 DEF Segments
<1>4. CASE Along(y, x)
  BY <1>1, <1>4, NothingBelow
<1>5. CASE \E d : PartAt(x, y, d)
  <2>1. PICK d : PartAt(x, y, d)
    BY <1>5
  <2>2. /\ d \in 1 .. Len(x) /\ d \in 1 .. Len(y) /\ x[d] # y[d]
        /\ \A k \in 1 .. d - 1 : x[k] = y[k]
    BY <2>1 DEF PartAt
  <2>3. d - 1 \in Nat /\ d - 1 =< Len(x) /\ d - 1 =< Len(y) /\ (d - 1) + 1 = d
        /\ d - 1 \in 0 .. d - 1 /\ d - 1 \in 0 .. Len(x) - 1 /\ d - 1 \in 0 .. Len(y) - 1
        /\ d \in 0 .. Len(x)
    BY <1>1, <1>2, <2>2
  <2>4. Walk(e, x)[d - 1] = Walk(e, y)[d - 1]
    <3> DEFINE n == d - 1
    <3>1. n \in Nat /\ n =< Len(x) /\ n =< Len(y) /\ \A k \in 1 .. n : x[k] = y[k]
      BY <2>2, <2>3
    <3> HIDE DEF n
    <3>2. \A k \in 0 .. n : Walk(e, x)[k] = Walk(e, y)[k]
      BY <1>1, <1>2, <3>1, WalkTogether
    <3> QED BY <2>3, <3>2 DEF n
  <2>5. Leads(Walk(e, x)[d - 1], x[d])
    BY <2>3 DEF Valid
  <2>6. x[d] \in Segments(Walk(e, y)[d - 1]) \ {y[d]}
    BY <2>2, <2>4, <2>5 DEF Leads
  <2>7. Child(Walk(e, y)[d - 1], x[d]) \in Blanks
    BY <2>3, <2>6 DEF BareWay
  <2>8. Walk(e, x)[d] \in Blanks
    BY <1>2, <2>2, <2>4, <2>7, WalkFacts
  <2> DEFINE r == SubSeq(x, 1, d)
  <2>9. ValueAt(e, r) \in Blanks /\ r \in Seq(Segment) /\ Along(r, x) /\ Len(r) = d
    BY <1>2, <2>3, <2>8, WalkIsValueAt, Beginnings
  <2> HIDE DEF r
  <2>10. x = r
    BY <2>9, BlankFacts, NothingBelow
  <2> QED BY <1>1, <2>2, <2>9, <2>10, BlankFacts
<1> QED BY <1>1, <1>2, <1>3, <1>4, <1>5, PathCases

(* And the client takes it to be where it is. *)
LEMMA BareAddress ==
  ASSUME NEW e, NEW y, BareWay(e, y), ValueAt(e, y).kind # "number", Segments(ValueAt(e, y)) = {}
  PROVE  Address(e, y) = y
<1>1. y \in Seq(Segment) /\ Len(y) \in Nat /\ DOMAIN y = 1 .. Len(y)
  BY LenProperties DEF BareWay
<1> DEFINE at(k) ==
             LET number == ValueAt(e, Append(SubSeq(y, 1, k), Key("index")))
             IN IF ~IsKey(y[k]) /\ number.kind = "number" THEN Index(number.value) ELSE y[k]
<1>2. ASSUME NEW k \in DOMAIN y
      PROVE  at(k) = y[k]
  <2> DEFINE r == SubSeq(y, 1, k)
             number == Child(Walk(e, y)[k], Key("index"))
  <2>1. k \in 0 .. Len(y) /\ r \in Seq(Segment) /\ Walk(e, y)[k] = ValueAt(e, r)
    BY <1>1, Beginnings, WalkIsValueAt
  <2>2. ValueAt(e, Append(r, Key("index"))) = number
    BY <2>1, IndexKey, ValidAppend
  <2>3. ASSUME number.kind = "number"
        PROVE  number = Number(0) /\ y[k] = Index(0)
    <3>1. k # Len(y)
      <4> SUFFICES ASSUME k = Len(y) PROVE FALSE
        OBVIOUS
      <4>1. Walk(e, y)[k] = ValueAt(e, y)
        BY DEF ValueAt
      <4>2. number = Absent
        BY <4>1, IndexKey DEF Child, Segments
      <4> QED BY <2>3, <4>2 DEF Absent
    <3>2. k \in 0 .. Len(y) - 1 /\ k + 1 \in 1 .. Len(y) /\ (k + 1) - 1 = k
      BY <1>1, <2>1, <3>1
    <3>3. WellFormed(Walk(e, y)[k])
      BY <3>2 DEF BareWay, Leads
    <3>4. Key("index") \in Segments(Walk(e, y)[k])
      BY <2>3, <3>3, IndexKey, ChildIsThere DEF Leads
    <3>5. Key("index") # y[k + 1]
      <4> SUFFICES ASSUME Key("index") = y[k + 1] PROVE FALSE
        OBVIOUS
      <4>1. number = Walk(e, y)[k + 1]
        BY <1>1, <3>2, WalkFacts
      <4>2. CASE k + 1 = Len(y)
        BY <2>3, <4>1, <4>2 DEF ValueAt
      <4>3. CASE k + 1 # Len(y)
        <5>1. k + 1 \in 0 .. Len(y) - 1
          BY <3>2, <4>3
        <5>2. Segments(Walk(e, y)[k + 1]) # {}
          BY <5>1 DEF BareWay, Leads
        <5> QED BY <2>3, <4>1, <5>2 DEF Segments
      <4> QED BY <4>2, <4>3
    <3>6. number \in Blanks /\ (number = Number(0) => y[k] = Index(0))
      BY <3>2, <3>4, <3>5 DEF BareWay
    <3> QED BY <2>3, <3>6 DEF Blanks, Object, Null
  <2> HIDE DEF number
  <2>4. at(k) = IF ~IsKey(y[k]) /\ number.kind = "number" THEN Index(number.value) ELSE y[k]
    BY <2>2
  <2> QED BY <2>3, <2>4 DEF Number
<1>3. Address(e, y) = [k \in DOMAIN y |-> at(k)]
  BY DEF Address
<1>4. y = [k \in DOMAIN y |-> y[k]]
  BY <1>1, LenProperties
<1> HIDE DEF at
<1> QED BY <1>2, <1>3, <1>4

(* The text of such an event is what is read at its place, and nothing elsewhere. *)
LEMMA BareRead ==
  ASSUME NEW e, NEW y, BareWay(e, y), NEW s, ValueAt(e, y) = String(s), NEW p,
         p = y => Len(y) =< MaxDepth
  PROVE  ReadIn(e, p) = IF p = y THEN {s} ELSE {}
<1>1. WellFormed(String(s)) /\ Segments(String(s)) = {} /\ String(s).kind = "string" /\ String(s).text = s
  BY DEF String, WellFormed, Scalars, Segments
<1>2. /\ Valid(e, y)
      /\ \A x : Valid(e, x) => /\ WellFormed(ValueAt(e, x)) /\ Len(x) =< Len(y)
                               /\ x # y => ValueAt(e, x).kind # "string"
  BY <1>1, BareValues
<1>3. Address(e, y) = y
  BY <1>1, BareAddress
<1>4. StringPaths(e) \subseteq {y}
  <2> SUFFICES ASSUME NEW x \in StringPaths(e)
               PROVE  x = y
    OBVIOUS
  <2>1. x \in PathsIn(e) /\ ValueAt(e, x).kind = "string"
    BY DEF StringPaths, ScalarPaths
  <2>2. Valid(e, x)
    BY <1>2, <2>1, PathsAreValid
  <2> QED BY <1>2, <2>1, <2>2
<1>5. ASSUME p = y
      PROVE  y \in StringPaths(e)
  <2>1. y \in Seq(Segment) /\ Len(y) \in Nat /\ Len(y) =< MaxDepth
    BY <1>5, LenProperties DEF BareWay
  <2>2. Json(e)
    <3> SUFFICES ASSUME NEW x \in Seq(Segment), Valid(e, x)
                 PROVE  WellFormed(ValueAt(e, x)) /\ Len(x) =< MaxDepth
      BY DEF Json
    <3>1. Len(x) =< Len(y) /\ Len(x) \in Nat
      BY <1>2, LenProperties
    <3> QED BY <1>2, <2>1, <3>1, JsonTreeAssumption
  <2> QED BY <1>1, <1>2, <2>2, StringFacts
<1> QED BY <1>1, <1>3, <1>4, <1>5 DEF ReadIn

-----------------------------------------------------------------------------
(* A container that is made for one value. *)
LEMMA MadeFacts ==
  ASSUME NEW u, u = Object(<<>>) \/ u = Absent, NEW s \in Segment, NEW x
  PROVE  LET y == WithMade(u, s, x)
         IN /\ Leads(y, s) /\ Child(y, s) = x
            /\ \A r \in Segments(y) \ {s} : Child(y, r) = Object(<<>>)
<1> DEFINE y == WithMade(u, s, x)
<1>1. CASE IsKey(s)
  <2>1. FieldsOf(u) = <<>> /\ DOMAIN <<>> = {}
    BY DEF FieldsOf, Object, Absent
  <2> DEFINE f == [k \in {s.key} |-> x]
  <2>2. DOMAIN f = {s.key} /\ f[s.key] = x /\ f = [k \in DOMAIN f |-> f[k]]
    OBVIOUS
  <2>3. y = Object(f)
    <3>1. y = Object([k \in DOMAIN <<>> \cup {s.key} |-> IF k = s.key THEN x ELSE <<>>[k]])
      BY <1>1, <2>1 DEF WithMade
    <3>2. DOMAIN <<>> \cup {s.key} = {s.key}
      BY <2>1
    <3>3. [k \in DOMAIN <<>> \cup {s.key} |-> IF k = s.key THEN x ELSE <<>>[k]] = f
      BY <3>2
    <3> QED BY <3>1, <3>3
  <2> HIDE DEF f
  <2>4. y.kind = "object" /\ y.fields = f
    BY <2>3 DEF Object
  <2>5. s.key \in STRING /\ s = Key(s.key)
    BY <1>1, SegmentCases
  <2> HIDE DEF y
  <2>6. WellFormed(y)
    BY <2>2, <2>3, <2>4, <2>5 DEF WellFormed
  <2>7. Segments(y) = {s}
    BY <2>2, <2>4, <2>5 DEF Segments
  <2>8. Child(y, s) = x
    BY <1>1, <2>2, <2>4 DEF Child
  <2> QED BY <2>6, <2>7, <2>8 DEF Leads, y
<1>2. CASE ~IsKey(s)
  <2> DEFINE n == s.index + 1
             f == [i \in 1 .. n |-> IF i = n THEN x ELSE Object(<<>>)]
  <2>1. s.index \in Nat /\ s = Index(s.index) /\ n \in Nat /\ n \in 1 .. n
    BY <1>2, SegmentCases
  <2>2. ItemsOf(u) = <<>> /\ Len(<<>>) = 0
    BY DEF ItemsOf, Object, Absent
  <2>3. y = Array(f)
    <3> DEFINE size == IF n > Len(<<>>) THEN n ELSE Len(<<>>)
    <3>1. y = Array([i \in 1 .. size |->
                       IF i = n THEN x
                       ELSE IF i =< Len(<<>>) THEN <<>>[i] ELSE Object(<<>>)])
      BY <1>2, <2>2 DEF WithMade
    <3>2. size = n
      BY <2>1, <2>2
    <3> HIDE DEF size, n
    <3>3. \A i \in 1 .. n : ~(i =< Len(<<>>))
      BY <2>2
    <3>4. [i \in 1 .. size |-> IF i = n THEN x
                               ELSE IF i =< Len(<<>>) THEN <<>>[i] ELSE Object(<<>>)] = f
      BY <3>2, <3>3
    <3> QED BY <3>1, <3>4
  <2> HIDE DEF y
  <2>4. /\ DOMAIN f = 1 .. n /\ f[n] = x
        /\ \A i \in 1 .. n : i # n => f[i] = Object(<<>>)
        /\ f = [i \in 1 .. n |-> f[i]]
    BY <2>1
  <2>5. y.kind = "array" /\ y.items = f
    BY <2>3 DEF Array
  <2> HIDE DEF f, n
  <2>6. f \in Seq(ToSet(f)) /\ Len(f) = n
    <3>1. \A i \in 1 .. n : f[i] \in ToSet(f)
      BY <2>4 DEF ToSet
    <3>2. f \in [1 .. n -> ToSet(f)]
      BY <2>4, <3>1
    <3>3. f \in Seq(ToSet(f))
      BY <2>1, <3>2, SeqDef
    <3> QED BY <2>1, <2>4, <3>3, LenProperties
  <2>7. WellFormed(y)
    BY <2>3, <2>5, <2>6 DEF WellFormed
  <2>8. Segments(y) = {Index(i - 1) : i \in 1 .. n}
    BY <2>4, <2>5 DEF Segments
  <2>9. s \in Segments(y) /\ n - 1 = s.index
    BY <2>1, <2>8 DEF n
  <2>10. ASSUME NEW i \in 1 .. n
         PROVE  Child(y, Index(i - 1)) = f[i]
    <3>1. ~IsKey(Index(i - 1)) /\ Index(i - 1).index = i - 1
      BY DEF IsKey, Index
    <3>2. i - 1 < Len(f) /\ (i - 1) + 1 = i
      BY <2>1, <2>6
    <3> QED BY <2>5, <3>1, <3>2 DEF Child
  <2>11. Child(y, s) = x
    BY <2>1, <2>4, <2>9, <2>10
  <2>12. ASSUME NEW r \in Segments(y) \ {s}
         PROVE  Child(y, r) = Object(<<>>)
    <3>1. PICK i \in 1 .. n : r = Index(i - 1)
      BY <2>8
    <3>2. i # n
      BY <2>1, <2>9, <3>1
    <3> QED BY <2>4, <2>10, <3>1, <3>2
  <2> QED BY <2>7, <2>9, <2>11, <2>12 DEF Leads, y
<1> QED BY <1>1, <1>2

(* The values that are made from the end of the path to its beginning. *)
Sets(b, v, path, w) ==
  /\ b[0] = Set(v, path, w)
  /\ b[Len(path)] = w
  /\ \A k \in 0 .. Len(path) - 1 : b[k] = WithMade(Walk(v, path)[k], path[k + 1], b[k + 1])

LEMMA SetExists ==
  ASSUME NEW v, NEW path, Len(path) \in Nat, NEW w
  PROVE  \E b : Sets(b, v, path, w)
<1> DEFINE n == Len(path)
           at == Walk(v, path)
           Step(f, k) == IF k = n THEN w ELSE WithMade(at[k], path[k + 1], f[k + 1])
           Upto(m) == \E f : f = [k \in n - m .. n |-> Step(f, k)]
           T == {m \in Nat : m =< n => Upto(m)}
<1> HIDE DEF at
<1>1. Upto(0)
  <2> DEFINE f == [k \in n - 0 .. n |-> w]
  <2>1. f = [k \in n - 0 .. n |-> Step(f, k)]
    OBVIOUS
  <2> QED BY <2>1
<1>2. ASSUME NEW m \in Nat, Upto(m), m + 1 =< n
      PROVE  Upto(m + 1)
  <2>1. PICK f : f = [k \in n - m .. n |-> Step(f, k)]
    BY <1>2
  <2> DEFINE i == n - (m + 1)
             e == WithMade(at[i], path[i + 1], f[i + 1])
             g == [k \in i .. n |-> IF k = i THEN e ELSE f[k]]
  <2>0. i \in Nat /\ i + 1 = n - m /\ i # n /\ n \in Nat /\ i < n
    BY <1>2
  <2> HIDE DEF i, n
  <2>2. \A k \in i + 1 .. n : f[k] = Step(f, k)
    BY <2>0, <2>1
  <2>3. ASSUME NEW k \in i .. n
        PROVE  g[k] = Step(g, k)
    <3>1. CASE k = i
      <4>1. g[i] = e /\ g[i + 1] = f[i + 1]
        BY <2>0
      <4> HIDE DEF g
      <4> QED BY <2>0, <3>1, <4>1
    <3>2. CASE k \in i + 1 .. n
      <4>1. g[k] = f[k] /\ (k # n => g[k + 1] = f[k + 1])
        BY <2>0, <3>2
      <4> HIDE DEF g
      <4> QED BY <2>2, <3>2, <4>1
    <3> QED BY <2>0, <3>1, <3>2
  <2>4. g = [k \in i .. n |-> g[k]]
    OBVIOUS
  <2> HIDE DEF g
  <2>5. g = [k \in i .. n |-> Step(g, k)]
    BY <2>3, <2>4
  <2> QED BY <2>5 DEF i
<1>3. \A m \in Nat : m \in T
  <2> HIDE DEF Upto
  <2>1. 0 \in T
    BY <1>1
  <2>2. ASSUME NEW m \in Nat, m \in T
        PROVE  m + 1 \in T
    <3>1. m + 1 =< n => m =< n
      OBVIOUS
    <3> QED BY <1>2, <2>2, <3>1
  <2> HIDE DEF T
  <2> QED BY <2>1, <2>2, NaturalInduction
<1>4. \E f : f = [k \in 0 .. n |-> Step(f, k)]
  <2>1. n \in Nat /\ n - n = 0
    OBVIOUS
  <2>2. Upto(n)
    <3> HIDE DEF Upto
    <3> QED BY <1>3, <2>1
  <2> QED BY <2>1, <2>2
<1> DEFINE b == SetAlong(v, path, w)
<1>5. b = [k \in 0 .. n |-> Step(b, k)]
  BY <1>4 DEF SetAlong, at
<1>6. Set(v, path, w) = b[0]
  BY DEF Set
<1> HIDE DEF b
<1>7. \A k \in 0 .. n : b[k] = Step(b, k)
  BY <1>5
<1>8. b[n] = w /\ \A k \in 0 .. n - 1 : b[k] = WithMade(at[k], path[k + 1], b[k + 1])
  BY <1>7
<1> QED BY <1>6, <1>8 DEF Sets, at

(* What is made for a path holds nothing else. *)
LEMMA SetFacts ==
  ASSUME NEW b \in Seq(Segment), NEW w
  PROVE  /\ BareWay(Set(Object(<<>>), b, w), b) /\ Hollow(Set(Object(<<>>), b, w), b, 0)
         /\ ValueAt(Set(Object(<<>>), b, w), b) = w
<1> DEFINE v == Object(<<>>)
           S == Set(v, b, w)
           at == Walk(v, b)
<1>0. Len(b) \in Nat
  BY LenProperties
<1>1. PICK f : Sets(f, v, b, w)
  BY <1>0, SetExists
<1>2. \A k \in 0 .. Len(b) : at[k] = Object(<<>>) \/ at[k] = Absent
  <2> DEFINE T == {k \in Nat : k =< Len(b) => at[k] = Object(<<>>) \/ at[k] = Absent}
  <2>0. /\ at[0] = v
        /\ \A k \in 1 .. Len(b) : at[k] = Child(at[k - 1], b[k])
    BY <1>0, WalkFacts
  <2> HIDE DEF at
  <2>1. 0 \in T
    BY <2>0
  <2>2. ASSUME NEW k \in Nat, k \in T
        PROVE  k + 1 \in T
    <3> SUFFICES ASSUME k + 1 =< Len(b)
                 PROVE  at[k + 1] = Absent
      OBVIOUS
    <3>1. k + 1 \in 1 .. Len(b) /\ (k + 1) - 1 = k /\ k =< Len(b)
      BY <1>0
    <3>2. at[k + 1] = Child(at[k], b[k + 1])
      <4>1. at[k + 1] = Child(at[(k + 1) - 1], b[k + 1])
        BY <2>0, <3>1
      <4> QED BY <3>1, <4>1
    <3>3. at[k] = Object(<<>>) \/ at[k] = Absent
      BY <2>2, <3>1
    <3>4. DOMAIN <<>> = {} /\ Object(<<>>).kind = "object" /\ Object(<<>>).fields = <<>>
          /\ Absent.kind = "absent"
      BY DEF Object, Absent
    <3> QED BY <3>2, <3>3, <3>4 DEF Child
  <2>3. \A k \in Nat : k \in T
    <3> HIDE DEF T
    <3> QED BY <2>1, <2>2, NaturalInduction
  <2> QED BY <1>0, <2>3
<1>3. /\ f[0] = S /\ f[Len(b)] = w
      /\ \A k \in 0 .. Len(b) - 1 : f[k] = WithMade(at[k], b[k + 1], f[k + 1])
  BY <1>1 DEF Sets
<1> HIDE DEF at, v, S
<1>4. ASSUME NEW k \in 0 .. Len(b) - 1
      PROVE  /\ Leads(f[k], b[k + 1]) /\ Child(f[k], b[k + 1]) = f[k + 1]
             /\ \A r \in Segments(f[k]) \ {b[k + 1]} : Child(f[k], r) = Object(<<>>)
  <2>1. k \in 0 .. Len(b) /\ k + 1 \in 1 .. Len(b)
    BY <1>0
  <2>2. b[k + 1] \in Segment
    BY <2>1, ElementOfSeq
  <2>3. at[k] = Object(<<>>) \/ at[k] = Absent
    BY <1>2, <2>1
  <2>4. f[k] = WithMade(at[k], b[k + 1], f[k + 1])
    BY <1>3
  <2> QED BY <2>2, <2>3, <2>4, MadeFacts
<1>5. \A k \in 0 .. Len(b) : Walk(S, b)[k] = f[k]
  <2> DEFINE T == {k \in Nat : k =< Len(b) => Walk(S, b)[k] = f[k]}
  <2>0. /\ Walk(S, b)[0] = S
        /\ \A k \in 1 .. Len(b) : Walk(S, b)[k] = Child(Walk(S, b)[k - 1], b[k])
    BY <1>0, WalkFacts
  <2>1. 0 \in T
    BY <1>3, <2>0
  <2>2. ASSUME NEW k \in Nat, k \in T
        PROVE  k + 1 \in T
    <3> SUFFICES ASSUME k + 1 =< Len(b)
                 PROVE  Walk(S, b)[k + 1] = f[k + 1]
      OBVIOUS
    <3>1. k + 1 \in 1 .. Len(b) /\ (k + 1) - 1 = k /\ k =< Len(b) /\ k \in 0 .. Len(b) - 1
      BY <1>0
    <3>2. Walk(S, b)[k + 1] = Child(Walk(S, b)[(k + 1) - 1], b[k + 1])
      BY <2>0, <3>1
    <3> QED BY <1>4, <2>2, <3>1, <3>2
  <2>3. \A k \in Nat : k \in T
    <3> HIDE DEF T
    <3> QED BY <2>1, <2>2, NaturalInduction
  <2> QED BY <1>0, <2>3
<1>6. ValueAt(S, b) = w
  <2>1. Len(b) \in 0 .. Len(b)
    BY <1>0
  <2> QED BY <1>3, <1>5, <2>1 DEF ValueAt
<1>7. BareWay(S, b)
  <2> SUFFICES ASSUME NEW k \in 0 .. Len(b) - 1
               PROVE  /\ Leads(Walk(S, b)[k], b[k + 1])
                      /\ \A s \in Segments(Walk(S, b)[k]) \ {b[k + 1]} :
                           /\ Child(Walk(S, b)[k], s) \in Blanks
                           /\ Child(Walk(S, b)[k], s) = Number(0) => k > 0 /\ b[k] = Index(0)
    BY DEF BareWay
  <2>1. Walk(S, b)[k] = f[k]
    <3>1. k \in 0 .. Len(b)
      BY <1>0
    <3> QED BY <1>5, <3>1
  <2>2. Object(<<>>) # Number(0) /\ Object(<<>>) \in Blanks
    BY DEF Object, Number, Blanks
  <2> QED BY <1>4, <2>1, <2>2
<1>8. Hollow(S, b, 0)
  <2>1. \A k \in 0 .. Len(b) - 1 : k \in 0 .. Len(b)
    BY <1>0
  <2> QED BY <1>4, <1>5, <2>1 DEF Hollow
<1> QED BY <1>6, <1>7, <1>8 DEF S, v

-----------------------------------------------------------------------------
LEMMA ObjectWellFormed ==
  ASSUME NEW f, DOMAIN f \subseteq STRING, f = [k \in DOMAIN f |-> f[k]]
  PROVE  WellFormed(Object(f)) /\ Object(f).kind = "object" /\ Object(f).fields = f
         /\ Segments(Object(f)) = {Key(k) : k \in DOMAIN f}
<1>1. Object(f).kind = "object" /\ Object(f).fields = f
  BY DEF Object
<1> QED BY <1>1 DEF WellFormed, Segments

(* The event without a text. *)
LEMMA EmptyDeltaFacts ==
  /\ BareWay(EmptyDelta, FirstDelta) /\ ValueAt(EmptyDelta, FirstDelta) = Object(<<>>)
  /\ Child(Walk(EmptyDelta, FirstDelta)[2], Key("finish_reason")) = Null
<1> DEFINE f == [index |-> Number(0), delta |-> Object(<<>>), finish_reason |-> Null]
           C == Object(f)
           A == Array(<<C>>)
           g == [choices |-> A]
<1>1. /\ DOMAIN f = {"index", "delta", "finish_reason"} /\ f = [k \in DOMAIN f |-> f[k]]
      /\ f["index"] = Number(0) /\ f["delta"] = Object(<<>>) /\ f["finish_reason"] = Null
  OBVIOUS
<1>2. DOMAIN g = {"choices"} /\ g = [k \in DOMAIN g |-> g[k]] /\ g["choices"] = A
  OBVIOUS
<1>3. EmptyDelta = Object(g)
  BY DEF EmptyDelta
<1> HIDE DEF f, g
<1>4. /\ WellFormed(C) /\ C.kind = "object" /\ C.fields = f
      /\ Segments(C) = {Key("index"), Key("delta"), Key("finish_reason")}
  BY <1>1, KeyAssumption, ObjectWellFormed
<1> HIDE DEF C
<1>5. A.kind = "array" /\ A.items = <<C>> /\ Len(<<C>>) = 1 /\ DOMAIN <<C>> = {1} /\ <<C>>[1] = C
  BY DEF Array
<1>6. WellFormed(A) /\ Segments(A) = {Index(0)}
  <2>1. <<C>> \in Seq(ToSet(<<C>>))
    <3>1. C \in ToSet(<<C>>)
      BY <1>5 DEF ToSet
    <3> QED BY <3>1
  <2>2. 1 - 1 = 0
    OBVIOUS
  <2> QED BY <1>5, <2>1, <2>2 DEF WellFormed, Segments
<1> HIDE DEF A
<1>7. /\ WellFormed(EmptyDelta) /\ EmptyDelta.kind = "object" /\ EmptyDelta.fields = g
      /\ Segments(EmptyDelta) = {Key("choices")}
  BY <1>2, <1>3, KeyAssumption, ObjectWellFormed
<1>8. \A k : IsKey(Key(k)) /\ Key(k).key = k
  BY DEF IsKey, Key
<1>9. Child(EmptyDelta, Key("choices")) = A
  BY <1>2, <1>7, <1>8 DEF Child
<1>10. Child(A, Index(0)) = C
  <2>1. ~IsKey(Index(0)) /\ Index(0).index = 0 /\ 0 + 1 = 1 /\ 0 < 1
    BY DEF IsKey, Index
  <2> QED BY <1>5, <2>1 DEF Child
<1>11. /\ Child(C, Key("index")) = Number(0) /\ Child(C, Key("delta")) = Object(<<>>)
       /\ Child(C, Key("finish_reason")) = Null
  BY <1>1, <1>4, <1>8 DEF Child
<1> DEFINE at == Walk(EmptyDelta, FirstDelta)
<1>12. at[0] = EmptyDelta /\ at[1] = A /\ at[2] = C /\ at[3] = Object(<<>>)
  <2>1. /\ at[0] = EmptyDelta
        /\ \A k \in 1 .. 3 : at[k] = Child(at[k - 1], FirstDelta[k])
    <3>1. Len(FirstDelta) \in Nat
      BY FirstDeltaFacts
    <3>2. /\ at[0] = EmptyDelta
          /\ \A k \in 1 .. Len(FirstDelta) : at[k] = Child(at[k - 1], FirstDelta[k])
      BY <3>1, WalkFacts
    <3> QED BY <3>2, FirstDeltaFacts
  <2>2. /\ 1 \in 1 .. 3 /\ 2 \in 1 .. 3 /\ 3 \in 1 .. 3
        /\ 1 - 1 = 0 /\ 2 - 1 = 1 /\ 3 - 1 = 2
    OBVIOUS
  <2> HIDE DEF at
  <2>3. at[1] = Child(at[0], FirstDelta[1])
    BY <2>1, <2>2
  <2>4. at[2] = Child(at[1], FirstDelta[2])
    BY <2>1, <2>2
  <2>5. at[3] = Child(at[2], FirstDelta[3])
    BY <2>1, <2>2
  <2> QED BY <1>9, <1>10, <1>11, <2>1, <2>3, <2>4, <2>5, FirstDeltaFacts
<1>13. BareWay(EmptyDelta, FirstDelta)
  <2> SUFFICES ASSUME NEW k \in 0 .. 2
               PROVE  /\ Leads(at[k], FirstDelta[k + 1])
                      /\ \A s \in Segments(at[k]) \ {FirstDelta[k + 1]} :
                           /\ Child(at[k], s) \in Blanks
                           /\ Child(at[k], s) = Number(0) => k > 0 /\ FirstDelta[k] = Index(0)
    BY FirstDeltaFacts DEF BareWay
  <2> HIDE DEF at
  <2>1. CASE k = 0
    BY <1>7, <1>12, <2>1, FirstDeltaFacts DEF Leads
  <2>2. CASE k = 1
    BY <1>6, <1>12, <2>2, FirstDeltaFacts DEF Leads
  <2>3. CASE k = 2
    <3>1. Leads(C, Key("delta"))
      BY <1>4 DEF Leads
    <3>2. \A s \in Segments(C) \ {Key("delta")} : Child(C, s) \in Blanks
      BY <1>4, <1>11 DEF Blanks
    <3> QED BY <1>12, <2>3, <3>1, <3>2, FirstDeltaFacts
  <2> QED BY <2>1, <2>2, <2>3
<1>14. ValueAt(EmptyDelta, FirstDelta) = Object(<<>>)
  BY <1>12, FirstDeltaFacts DEF ValueAt
<1> QED BY <1>11, <1>12, <1>13, <1>14

(* What is below the first "delta" of a path. *)
LEMMA BelowDeltaFacts ==
  ASSUME NEW r \in Seq(Segment), \E k \in DOMAIN r : r[k] = Key("delta")
  PROVE  /\ BelowDelta(r) \in Seq(Segment)
         /\ IsPrefix(FirstDelta, r) => FirstDelta \o BelowDelta(r) = r
<1> DEFINE I == {i \in 1 .. Len(r) : r[i] = Key("delta")}
           m == Min(I)
<1>0. Len(r) \in Nat /\ DOMAIN r = 1 .. Len(r)
  BY LenProperties
<1>1. I # {} /\ I \in SUBSET Nat
  BY <1>0
<1>2. m \in I /\ \A i \in I : m =< i
  <2> HIDE DEF I
  <2> QED BY <1>1, MinOf
<1>3. SelectInSeq(r, LAMBDA s : s = Key("delta")) = m
  BY <1>1 DEF SelectInSeq
<1>4. BelowDelta(r) = SubSeq(r, m + 1, Len(r))
  BY <1>3 DEF BelowDelta
<1> HIDE DEF m
<1>5. m \in 0 .. Len(r) /\ Len(r) \in m .. Len(r)
  BY <1>0, <1>2
<1>6. BelowDelta(r) \in Seq(Segment)
  BY <1>4, <1>5, Slice
<1>7. ASSUME IsPrefix(FirstDelta, r)
      PROVE  FirstDelta \o BelowDelta(r) = r
  <2>1. Len(r) >= 3 /\ SubSeq(r, 1, 3) = FirstDelta
    BY <1>0, <1>7, FirstDeltaFacts, PrefixIsSlice
  <2>2. 3 \in 0 .. Len(r) /\ \A k \in 1 .. 3 : k \in 1 .. Len(r)
    BY <1>0, <2>1
  <2>3. \A k \in 1 .. 3 : r[k] = FirstDelta[k]
    BY <1>0, <2>1, <2>2, Beginnings
  <2>4. r[1] = Key("choices") /\ r[2] = Index(0) /\ r[3] = Key("delta")
    BY <2>3, FirstDeltaFacts
  <2>5. Key("choices") # Key("delta") /\ Index(0) # Key("delta")
    <3>1. Key("choices").key # Key("delta").key
      BY DEF Key
    <3>2. IsKey(Key("delta")) /\ ~IsKey(Index(0))
      BY DEF IsKey, Key, Index
    <3> QED BY <3>1, <3>2
  <2>6. m = 3
    <3>1. 3 \in I
      BY <2>2, <2>4
    <3>2. m =< 3 /\ m \in Nat /\ m # 0 /\ m # 1 /\ m # 2
      BY <1>0, <1>2, <2>4, <2>5, <3>1
    <3> QED BY <3>2
  <2>7. SubSeq(r, 1, 3) \o SubSeq(r, 3 + 1, Len(r)) = SubSeq(r, 1, Len(r))
    <3>1. 1 \in 1 .. Len(r) + 1 /\ 3 \in 1 - 1 .. Len(r) /\ Len(r) \in 3 .. Len(r)
      BY <1>0, <2>1
    <3> QED BY <3>1, ConcatAdjacentSubSeq
  <2>8. SubSeq(r, 1, Len(r)) = r
    BY SubSeqFull
  <2> QED BY <1>4, <2>1, <2>6, <2>7, <2>8
<1> QED BY <1>6, <1>7

(* The event that is made for the rest of a text holds that alone. *)
LEMMA DeltaEventFacts ==
  ASSUME NEW r \in Seq(Segment), \E k \in DOMAIN r : r[k] = Key("delta"), NEW s
  PROVE  /\ BareWay(DeltaEvent(r, s), FirstDelta \o BelowDelta(r))
         /\ Hollow(DeltaEvent(r, s), FirstDelta \o BelowDelta(r), 3)
         /\ Child(Walk(DeltaEvent(r, s), FirstDelta \o BelowDelta(r))[2], Key("finish_reason")) = Null
         /\ ValueAt(DeltaEvent(r, s), FirstDelta \o BelowDelta(r)) = String(s)
<1> DEFINE b == BelowDelta(r)
           S == Set(Object(<<>>), b, String(s))
           e == DeltaEvent(r, s)
           d == FirstDelta
           y == d \o b
<1>1. b \in Seq(Segment)
  BY BelowDeltaFacts
<1> HIDE DEF b
<1>2. BareWay(S, b) /\ Hollow(S, b, 0) /\ ValueAt(S, b) = String(s)
  BY <1>1, SetFacts
<1> HIDE DEF S
<1>3. e = Replaced(EmptyDelta, d, S)
  BY DEF DeltaEvent, S, b
<1>4. /\ BareWay(EmptyDelta, d) /\ d \in Seq(Segment) /\ Len(d) = 3
      /\ Valid(EmptyDelta, d)
  BY EmptyDeltaFacts, FirstDeltaFacts DEF BareWay, Valid
<1> HIDE DEF e, d
<1>5. ChangedAt(e, EmptyDelta, d) /\ Valid(e, d) /\ ValueAt(e, d) = S
  BY <1>3, <1>4, ReplacedIsChange
<1>6. ASSUME NEW k \in 0 .. 2
      PROVE  /\ Leads(Walk(e, d)[k], d[k + 1])
             /\ \A x \in Segments(Walk(e, d)[k]) \ {d[k + 1]} :
                  /\ Child(Walk(e, d)[k], x) \in Blanks
                  /\ Child(Walk(e, d)[k], x) = Number(0) => k > 0 /\ d[k] = Index(0)
  <2>1. k \in 0 .. Len(d) - 1
    BY <1>4
  <2>2. Leads(Walk(e, d)[k], d[k + 1])
    BY <1>5, <2>1 DEF Valid
  <2>3. Beside(Walk(e, d)[k], Walk(EmptyDelta, d)[k], d[k + 1])
    BY <1>5, <2>1 DEF ChangedAt
  <2>4. Segments(Walk(e, d)[k]) \subseteq Segment
    BY <2>3, SegmentsTyped DEF Beside
  <2>5. \A x \in Segments(Walk(EmptyDelta, d)[k]) \ {d[k + 1]} :
          /\ Child(Walk(EmptyDelta, d)[k], x) \in Blanks
          /\ Child(Walk(EmptyDelta, d)[k], x) = Number(0) => k > 0 /\ d[k] = Index(0)
    BY <1>4, <2>1 DEF BareWay
  <2>6. \A x \in Segments(Walk(e, d)[k]) \ {d[k + 1]} :
          /\ x \in Segments(Walk(EmptyDelta, d)[k])
          /\ Child(Walk(e, d)[k], x) = Child(Walk(EmptyDelta, d)[k], x)
    BY <2>3, <2>4 DEF Beside
  <2> QED BY <2>2, <2>5, <2>6
<1>7. /\ y \in Seq(Segment) /\ Len(b) \in Nat /\ Len(y) = 3 + Len(b)
      /\ \A k \in 1 .. 3 : y[k] = d[k]
      /\ \A j \in 1 .. Len(b) : y[3 + j] = b[j]
      /\ \A k \in 0 .. 3 : Walk(e, y)[k] = Walk(e, d)[k]
      /\ \A j \in 0 .. Len(b) : Walk(e, y)[3 + j] = Walk(S, b)[j]
  <2>1. d \in Seq(Segment) /\ Len(d) = 3 /\ ValueAt(e, d) = S
    BY <1>4, <1>5
  <2>2. d \in Seq(Segment)
    BY <1>4
  <2>3. /\ y \in Seq(Segment) /\ Len(b) \in Nat /\ Len(y) = Len(d) + Len(b)
        /\ \A k \in 1 .. Len(d) : y[k] = d[k]
        /\ \A j \in 1 .. Len(b) : y[Len(d) + j] = b[j]
        /\ \A k \in 0 .. Len(d) : Walk(e, y)[k] = Walk(e, d)[k]
        /\ \A j \in 0 .. Len(b) : Walk(e, y)[Len(d) + j] = Walk(ValueAt(e, d), b)[j]
    BY <1>1, <2>2, PathConcat
  <2> QED BY <2>1, <2>3
<1> HIDE DEF y
<1>8. BareWay(e, y)
  <2> SUFFICES ASSUME NEW k \in 0 .. Len(y) - 1
               PROVE  /\ Leads(Walk(e, y)[k], y[k + 1])
                      /\ \A x \in Segments(Walk(e, y)[k]) \ {y[k + 1]} :
                           /\ Child(Walk(e, y)[k], x) \in Blanks
                           /\ Child(Walk(e, y)[k], x) = Number(0) => k > 0 /\ y[k] = Index(0)
    BY <1>7 DEF BareWay
  <2>1. CASE k \in 0 .. 2
    <3>1. k \in 0 .. 3 /\ k + 1 \in 1 .. 3 /\ (k > 0 => k \in 1 .. 3)
      BY <2>1
    <3>2. Walk(e, y)[k] = Walk(e, d)[k] /\ y[k + 1] = d[k + 1] /\ (k > 0 => y[k] = d[k])
      BY <1>7, <3>1
    <3> QED BY <1>6, <2>1, <3>2
  <2>2. CASE k \in 3 .. Len(y) - 1
    <3> DEFINE j == k - 3
    <3>1. /\ j \in 0 .. Len(b) - 1 /\ j \in 0 .. Len(b) /\ j + 1 \in 1 .. Len(b)
          /\ 3 + j = k /\ 3 + (j + 1) = k + 1 /\ k > 0
          /\ j > 0 => j \in 1 .. Len(b)
      BY <1>7, <2>2
    <3> HIDE DEF j
    <3>2. Walk(e, y)[k] = Walk(S, b)[j] /\ y[k + 1] = b[j + 1] /\ (j > 0 => y[k] = b[j])
      BY <1>7, <3>1
    <3>3. /\ Leads(Walk(S, b)[j], b[j + 1])
          /\ \A x \in Segments(Walk(S, b)[j]) \ {b[j + 1]} :
               /\ Child(Walk(S, b)[j], x) \in Blanks
               /\ Child(Walk(S, b)[j], x) = Number(0) => j > 0 /\ b[j] = Index(0)
      BY <1>2, <3>1 DEF BareWay
    <3> QED BY <3>1, <3>2, <3>3
  <2> QED BY <1>7, <2>1, <2>2
<1>9. ValueAt(e, y) = String(s)
  <2>1. Len(b) \in 0 .. Len(b)
    BY <1>7
  <2> QED BY <1>2, <1>7, <2>1 DEF ValueAt
<1>10. Hollow(e, y, 3)
  <2> SUFFICES ASSUME NEW k \in 3 .. Len(y) - 1
               PROVE  \A x \in Segments(Walk(e, y)[k]) \ {y[k + 1]} :
                        Child(Walk(e, y)[k], x) = Object(<<>>)
    BY DEF Hollow
  <2> DEFINE j == k - 3
  <2>1. /\ j \in 0 .. Len(b) - 1 /\ j \in 0 .. Len(b) /\ j + 1 \in 1 .. Len(b)
        /\ 3 + j = k /\ 3 + (j + 1) = k + 1
    BY <1>7
  <2> HIDE DEF j
  <2>2. Walk(e, y)[k] = Walk(S, b)[j] /\ y[k + 1] = b[j + 1]
    BY <1>7, <2>1
  <2> QED BY <1>2, <2>1, <2>2 DEF Hollow
<1>11. Child(Walk(e, y)[2], Key("finish_reason")) = Null
  <2>1. 2 \in 0 .. Len(d) - 1 /\ 2 \in 0 .. 3 /\ 2 + 1 = 3
    BY <1>4
  <2>2. Beside(Walk(e, d)[2], Walk(EmptyDelta, d)[2], d[3])
    BY <1>5, <2>1 DEF ChangedAt
  <2>3. Key("finish_reason") \in Segment /\ Key("finish_reason") # Key("delta")
    <3>1. Key("finish_reason").key # Key("delta").key
      BY DEF Key
    <3> QED BY <3>1, KeyAssumption DEF Segment, Key
  <2>4. Child(Walk(e, d)[2], Key("finish_reason")) = Child(Walk(EmptyDelta, d)[2], Key("finish_reason"))
    BY <2>2, <2>3, FirstDeltaFacts DEF Beside, d
  <2> QED BY <1>7, <2>1, <2>4, EmptyDeltaFacts DEF d
<1> QED BY <1>8, <1>9, <1>10, <1>11 DEF e, d, y, b

-----------------------------------------------------------------------------
(* Where there is a value, the path leads to it. *)
LEMMA ValueIsThere ==
  ASSUME NEW v, Json(v), NEW p \in Seq(Segment), ValueAt(v, p).kind # "absent"
  PROVE  Valid(v, p)
<1> DEFINE T == {q \in Seq(Segment) : ValueAt(v, q).kind # "absent" => Valid(v, q)}
<1>1. <<>> \in T
  BY ValidRoot
<1>2. ASSUME NEW r \in Seq(Segment), r \in T, NEW s \in Segment
      PROVE  Append(r, s) \in T
  <2>0. Append(r, s) \in Seq(Segment) /\ ValueAt(v, Append(r, s)) = Child(ValueAt(v, r), s)
    BY AppendFacts, ValidAppend
  <2> SUFFICES ASSUME Child(ValueAt(v, r), s).kind # "absent"
               PROVE  Valid(v, Append(r, s))
    BY <2>0
  <2>1. ValueAt(v, r).kind # "absent"
    <3> SUFFICES ASSUME ValueAt(v, r).kind = "absent" PROVE FALSE
      OBVIOUS
    <3>1. Child(ValueAt(v, r), s) = Absent
      BY DEF Child
    <3> QED BY <3>1 DEF Absent
  <2>2. Valid(v, r) /\ WellFormed(ValueAt(v, r))
    BY <1>2, <2>1 DEF Json
  <2> QED BY <2>2, ChildIsThere, ValidAppend
<1> HIDE DEF T
<1>3. p \in T
  BY <1>1, <1>2, PathInduction
<1> QED BY <1>3 DEF T

(* Where items stand where their indexes say, a path is its own address. *)
LEMMA OwnAddress ==
  ASSUME NEW v, Json(v), InOrder(v), NEW p \in Seq(Segment)
  PROVE  Address(v, p) = p
<1> DEFINE at(q, k) ==
             LET number == ValueAt(v, Append(SubSeq(q, 1, k), Key("index")))
             IN IF ~IsKey(q[k]) /\ number.kind = "number" THEN Index(number.value) ELSE q[k]
<1>1. Len(p) \in Nat /\ DOMAIN p = 1 .. Len(p) /\ p = [k \in DOMAIN p |-> p[k]]
  BY LenProperties
<1>2. \A q : Address(v, q) = [k \in DOMAIN q |-> at(q, k)]
  BY DEF Address
<1>3. ASSUME NEW k \in DOMAIN p
      PROVE  at(p, k) = p[k]
  <2> DEFINE r == SubSeq(p, 1, k)
             number == ValueAt(v, Append(r, Key("index")))
  <2>1. /\ r \in Seq(Segment) /\ Len(r) = k /\ r[k] = p[k] /\ k \in DOMAIN r
        /\ SubSeq(r, 1, k) = r
    <3>1. k \in 0 .. Len(p) /\ k \in 1 .. k
      BY <1>1
    <3>2. r \in Seq(Segment) /\ Len(r) = k /\ r[k] = p[k]
      BY <3>1, Beginnings
    <3> HIDE DEF r
    <3>3. DOMAIN r = 1 .. k /\ SubSeq(r, 1, Len(r)) = r
      BY <3>2, LenProperties, SubSeqFull
    <3> QED BY <3>1, <3>2, <3>3
  <2> HIDE DEF r
  <2>2. at(p, k) = IF ~IsKey(p[k]) /\ number.kind = "number" THEN Index(number.value) ELSE p[k]
    BY DEF r
  <2>3. at(r, k) = IF ~IsKey(p[k]) /\ number.kind = "number" THEN Index(number.value) ELSE p[k]
    BY <2>1
  <2>4. ASSUME number.kind = "number"
        PROVE  at(r, k) = p[k]
    <3>1. Valid(v, Append(r, Key("index")))
      BY <2>1, <2>4, IndexKey, AppendFacts, ValueIsThere
    <3>2. r \in PathsIn(v)
      BY <2>1, <3>1, IndexKey, ValidAppend, JsonPaths
    <3>3. Address(v, r) = r
      BY <3>2 DEF InOrder
    <3> HIDE DEF at
    <3>4. r[k] = at(r, k)
      BY <1>2, <2>1, <3>3
    <3> QED BY <2>1, <3>4
  <2> HIDE DEF at, number
  <2> QED BY <2>2, <2>3, <2>4
<1> HIDE DEF at
<1> QED BY <1>1, <1>2, <1>3

LEMMA RestoredSlice ==
  ASSUME NEW g \in Seq(Char), NEW a \in 0 .. Len(g), NEW b \in a .. Len(g)
  PROVE  /\ Len(g) \in Nat /\ Restored(g) \in Seq(Char) /\ Len(Restored(g)) = Len(g)
         /\ SubSeq(Restored(g), a + 1, b) = Restored(SubSeq(g, a + 1, b))
<1> DEFINE R == Restored(g)
           s == SubSeq(g, a + 1, b)
           x == SubSeq(R, a + 1, b)
           y == Restored(s)
<1>1. \A h \in Seq(Char) : /\ Restored(h) \in Seq(Char) /\ Len(Restored(h)) = Len(h)
                           /\ \A k \in 1 .. Len(h) : Restored(h)[k] = Original[h[k]]
  <2> SUFFICES ASSUME NEW h \in Seq(Char)
               PROVE  /\ Restored(h) \in Seq(Char) /\ Len(Restored(h)) = Len(h)
                      /\ \A k \in 1 .. Len(h) : Restored(h)[k] = Original[h[k]]
    OBVIOUS
  <2>1. Len(h) \in Nat /\ DOMAIN h = 1 .. Len(h)
    BY LenProperties
  <2>2. Original \in [Char -> Char]
    BY StreamEventAssumption
  <2>3. \A k \in 1 .. Len(h) : Original[h[k]] \in Char
    BY <2>2, ElementOfSeq
  <2>4. Restored(h) = [k \in 1 .. Len(h) |-> Original[h[k]]]
    BY <2>1 DEF Restored
  <2>5. Restored(h) \in [1 .. Len(h) -> Char]
    BY <2>3, <2>4
  <2>6. Restored(h) \in Seq(Char)
    BY <2>1, <2>5, SeqDef
  <2>7. Len(Restored(h)) = Len(h)
    BY <2>1, <2>5, <2>6, LenProperties
  <2> QED BY <2>4, <2>6, <2>7
<1>2. Len(g) \in Nat /\ R \in Seq(Char) /\ Len(R) = Len(g)
  BY <1>1, LenProperties
<1>3. /\ s \in Seq(Char) /\ Len(s) = b - a
      /\ \A k \in 1 .. b - a : s[k] = g[a + k]
  BY Slice
<1>4. /\ x \in Seq(Char) /\ Len(x) = b - a
      /\ \A k \in 1 .. b - a : x[k] = R[a + k]
  <2>1. a \in 0 .. Len(R) /\ b \in a .. Len(R)
    BY <1>2
  <2> HIDE DEF R
  <2> QED BY <1>2, <2>1, Slice
<1> HIDE DEF s, x, R
<1>5. y \in Seq(Char) /\ Len(y) = b - a
  BY <1>1, <1>3
<1>6. ASSUME NEW k \in 1 .. b - a
      PROVE  x[k] = y[k]
  <2>1. a + k \in 1 .. Len(g) /\ k \in 1 .. Len(s)
    BY <1>2, <1>3
  <2>2. y[k] = Original[s[k]] /\ R[a + k] = Original[g[a + k]]
    BY <1>1, <1>3, <2>1 DEF R
  <2> QED BY <1>3, <1>4, <2>2
<1>7. x = y
  <2> HIDE DEF y
  <2> QED BY <1>4, <1>5, <1>6, SeqEqual
<1> QED BY <1>2, <1>7 DEF x, y, R, s

LEMMA RestoredEmpty ==
  ASSUME NEW g \in Seq(Char)
  PROVE  Restored(g) = <<>> <=> g = <<>>
<1>1. 0 \in 0 .. Len(g) /\ Len(g) \in 0 .. Len(g)
  BY LenProperties
<1>2. Restored(g) \in Seq(Char) /\ Len(Restored(g)) = Len(g)
  BY <1>1, RestoredSlice
<1> QED BY <1>2, EmptySeq

(* A text, or what is held of one, and how it is split. *)
LEMMA TextFacts ==
  ASSUME InputInv, NEW p \in DOMAIN before \cup Texts(event)
  PROVE  /\ p \in Seq(Segment) /\ Len(p) =< MaxDepth /\ Buffered(p)
         /\ p \in Texts(event) <=> Valid(event, p) /\ ValueAt(event, p).kind = "string"
         /\ Grown(p) \in Seq(Char) /\ Len(Grown(p)) \in Nat /\ Split(p) \in 0 .. Len(Grown(p))
         /\ p \notin Texts(event) => before[p] = Grown(p)
<1>1. IsJson(event) /\ Json(event) /\ AreHeld(before)
  BY InputFacts
<1>2. p \in Texts(event) => /\ Valid(event, p) /\ ValueAt(event, p).kind = "string"
                            /\ ValueAt(event, p).text \in Seq(Char) /\ Buffered(p)
  BY <1>1, StringFacts DEF Texts, IsJson
<1>3. p \in DOMAIN before => /\ p \in Seq(Segment) /\ Len(p) =< MaxDepth /\ Buffered(p)
                             /\ before[p] \in Seq(Char)
  BY <1>1 DEF AreHeld
<1>4. p \in Seq(Segment) /\ Len(p) =< MaxDepth /\ Buffered(p)
  BY <1>1, <1>2, <1>3 DEF Json, Valid
<1>5. p \in Texts(event) <=> Valid(event, p) /\ ValueAt(event, p).kind = "string"
  BY <1>1, <1>2, <1>4, StringFacts DEF Texts
<1> DEFINE x == IF p \in DOMAIN before THEN before[p] ELSE <<>>
           y == IF p \in Texts(event) THEN ValueAt(event, p).text ELSE <<>>
<1>6. x \in Seq(Char) /\ y \in Seq(Char)
  BY <1>2, <1>3
<1>7. Grown(p) = x \o y
  BY DEF Grown
<1> HIDE DEF x, y
<1>8. Grown(p) \in Seq(Char) /\ Len(Grown(p)) \in Nat
  BY <1>6, <1>7, ConcatProperties, LenProperties
<1>9. Split(p) \in 0 .. Len(Grown(p))
  BY <1>8, StreamEventAssumption DEF Split
<1>10. p \notin Texts(event) => before[p] = Grown(p)
  <2> SUFFICES ASSUME p \notin Texts(event)
               PROVE  before[p] = Grown(p)
    OBVIOUS
  <2>1. y = <<>> /\ x = before[p]
    BY DEF x, y
  <2> QED BY <1>6, <1>7, <2>1, ConcatEmptySeq
<1> QED BY <1>4, <1>5, <1>8, <1>9, <1>10

-----------------------------------------------------------------------------
(* A string that is read in the pruned event at a text's place is that text. *)
LEMMA ReadIsText ==
  ASSUME EventInv, pc = "ended", Regular(event), InOrder(event),
         NEW t, Becomes(t), Json(t), tree = Pruned(t),
         NEW p \in DOMAIN before \cup Texts(event), OfFirstDelta(p),
         NEW q \in StringPaths(tree), Address(tree, q) = p
  PROVE  p \in Texts(event) /\ ~Gone(p) /\ ValueAt(tree, q) = String(Restored(Safe(p)))
<1> DEFINE n == Len(p)
<1>1. /\ InputInv /\ todo = {} /\ Json(event)
      /\ p \in Seq(Segment) /\ n \in Nat /\ Buffered(p) /\ IsKey(Last(p))
  BY EndFacts, TextFacts, LenProperties DEF EventInv, OfFirstDelta
<1>2. n \in 1 .. n /\ IsKey(p[n])
  <2>1. n >= 3
    BY <1>1, FirstDeltaFacts, PrefixIsSlice DEF OfFirstDelta
  <2> QED BY <1>1, <2>1 DEF Last
<1> HIDE DEF n
<1>3. Valid(tree, q) /\ ValueAt(tree, q).kind = "string" /\ q \in Seq(Segment)
  BY PrunedIsJson, StringFacts DEF Valid
<1>4. PICK x : Stems(t, x, q)
  BY <1>3, PrunedHasOnly
<1>5. /\ Valid(t, x) /\ x \in Seq(Segment) /\ Len(q) = Len(x)
      /\ ValueAt(t, x) = ValueAt(tree, q)
  <2>1. Valid(t, x) /\ Len(q) = Len(x)
    BY <1>4 DEF Stems
  <2>2. x \in Seq(Segment) /\ ValueAt(tree, q).kind = ValueAt(t, x).kind
    BY <1>4, StemsFacts
  <2>3. ValueAt(t, x).kind \in Scalars
    BY <1>3, <2>2 DEF Scalars
  <2> QED BY <1>4, <2>1, <2>2, <2>3, StemsFacts
<1>6. Len(q) = n
  <2>1. DOMAIN q = 1 .. Len(q) /\ Len(q) \in Nat
    BY <1>3, LenProperties
  <2>2. DOMAIN p = 1 .. n /\ n \in Nat
    BY <1>1, LenProperties DEF n
  <2>3. DOMAIN Address(tree, q) = DOMAIN q
    BY DEF Address
  <2>4. 1 .. Len(q) = 1 .. n
    BY <2>1, <2>2, <2>3
  <2>5. n \in 1 .. Len(q)
    BY <1>2, <2>4
  <2>6. Len(q) \in 1 .. n
    <3>1. Len(q) \in 1 .. Len(q)
      BY <2>1, <2>5
    <3> QED BY <2>4, <3>1
  <2>7. Len(q) \in Nat /\ n \in Nat
    BY <2>1, <2>2
  <2> QED BY <2>5, <2>6, <2>7
<1>7. IsKey(q[n])
  <2> SUFFICES ASSUME ~IsKey(q[n]) PROVE FALSE
    OBVIOUS
  <2> DEFINE number == ValueAt(tree, Append(SubSeq(q, 1, n), Key("index")))
  <2>1. n \in DOMAIN q
    BY <1>2, <1>3, <1>6, LenProperties
  <2>2. Address(tree, q)[n] = IF number.kind = "number" THEN Index(number.value) ELSE q[n]
    BY <2>1 DEF Address
  <2>3. ~IsKey(Index(number.value))
    BY DEF IsKey, Index
  <2> HIDE DEF number
  <2> QED BY <1>2, <2>2, <2>3
<1>8. IsKey(Last(x))
  <2>1. Matches(t, SubSeq(x, 1, n - 1), x[n], q[n])
    BY <1>2, <1>4, <1>5, <1>6 DEF Stems
  <2>2. IsKey(x[n])
    BY <1>7, <2>1 DEF Matches
  <2> QED BY <1>5, <1>6, <2>2 DEF Last
<1>9. Valid(event, x) /\ Stands(ValueAt(t, x), x)
  BY <1>5 DEF Becomes, BecomesOf
<1>10. ValueAt(event, x).kind = "string"
  <2>1. WellFormed(ValueAt(event, x))
    BY <1>1, <1>5, <1>9 DEF Json
  <2>2. ValueAt(event, x).kind \in {"string", "number", "null", "array", "object"}
    BY <2>1 DEF WellFormed, Scalars
  <2> QED BY <1>3, <1>5, <1>9, <2>2 DEF Stands
<1>11. x \in StringPaths(event) /\ Steady(event, x)
  BY <1>1, <1>8, <1>9, <1>10, StringFacts DEF Regular
<1>12. p = x
  <2>1. Address(tree, q) = Address(t, x)
    BY <1>1, <1>4, <1>5, <1>11, SteadyHasPlaces, AddressKept
  <2>2. Address(t, x) = Address(event, x)
    BY <1>1, <1>5, SameAddress
  <2>3. Address(event, x) = x
    BY <1>1, <1>5, OwnAddress
  <2> QED BY <2>1, <2>2, <2>3
<1>13. p \in Texts(event)
  BY <1>1, <1>11, <1>12 DEF Texts
<1>14. ValueAt(t, p) = IF Gone(p) THEN Null ELSE String(Restored(Safe(p)))
  BY <1>1, <1>9, <1>10, <1>12 DEF Stands
<1> QED BY <1>3, <1>5, <1>12, <1>13, <1>14 DEF Null

(* A text of which something is safe stays, with that. *)
LEMMA TextStems ==
  ASSUME InputInv, Regular(event), todo = {}, NEW t, Becomes(t), Json(t),
         NEW p \in Texts(event), IsKey(Last(p)), ~Gone(p)
  PROVE  \E q : Stems(t, p, q) /\ ValueAt(Pruned(t), q) = String(Restored(Safe(p)))
<1>1. /\ Json(event) /\ p \in Seq(Segment) /\ Buffered(p)
      /\ Valid(event, p) /\ ValueAt(event, p).kind = "string"
  BY InputFacts, TextFacts
<1>2. Valid(t, p) /\ ValueAt(t, p) = String(Restored(Safe(p)))
  BY <1>1 DEF Becomes, BecomesOf, Taken, Stands
<1>3. ValueAt(t, p).kind = "string" /\ ValueAt(t, p).kind \in Scalars
  BY <1>2 DEF String, Scalars
<1>4. \A n \in 1 .. Len(p) : p[n] # Key("index")
  BY <1>1, NoIndexOn
<1>5. p # <<>>
  BY <1>1 DEF Buffered
<1>6. \A n \in 1 .. Len(p) : Stays(t, SubSeq(p, 1, n))
  BY <1>2, <1>3, <1>4, <1>5, SolidStays
<1>7. PICK q : Stems(t, p, q)
  BY <1>2, <1>6, PrunedHas
<1> QED BY <1>2, <1>3, <1>7, StemsFacts

(* What it is of keeps its address. *)
LEMMA StringAddress ==
  ASSUME Json(event), Regular(event), todo = {}, NEW t, Becomes(t), Json(t),
         NEW p \in StringPaths(event), IsKey(Last(p)), NEW q, Stems(t, p, q)
  PROVE  Address(Pruned(t), q) = Address(event, p)
<1>1. Steady(event, p) /\ Valid(t, p)
  BY DEF Regular, Stems
<1>2. Address(Pruned(t), q) = Address(t, p)
  BY <1>1, SteadyHasPlaces, AddressKept
<1> QED BY <1>1, <1>2, SameAddress

(* And a text of which something is safe is sent on, and is read there. *)
LEMMA TextIsRead ==
  ASSUME EventInv, pc = "ended", Regular(event), InOrder(event),
         NEW t, Becomes(t), Json(t), tree = Pruned(t),
         NEW p \in Texts(event), OfFirstDelta(p), ~Gone(p)
  PROVE  passed = <<tree>> /\ \E q \in StringPaths(tree) : Address(tree, q) = p
<1>1. /\ todo = {} /\ Json(event) /\ InputInv
      /\ passed = IF ShouldForward(tree, Texts(event) # {}) THEN <<tree>> ELSE <<>>
  BY EndFacts DEF EventInv
<1>2. p \in Seq(Segment) /\ p \in StringPaths(event)
  BY <1>1, TextFacts DEF Texts
<1>3. IsKey(Last(p)) /\ IsPrefix(FirstDelta, p)
  BY DEF OfFirstDelta
<1>4. PICK q : Stems(t, p, q) /\ ValueAt(tree, q) = String(Restored(Safe(p)))
  BY <1>1, <1>3, TextStems
<1>5. q \in StringPaths(tree)
  <2>1. Valid(tree, q)
    BY <1>4 DEF Stems
  <2>2. ValueAt(tree, q).kind = "string"
    BY <1>4 DEF String
  <2>3. Json(tree)
    BY PrunedIsJson
  <2> QED BY <2>1, <2>2, <2>3, StringFacts
<1>6. Address(tree, q) = p
  <2>1. Address(tree, q) = Address(event, p)
    BY <1>1, <1>2, <1>3, <1>4, StringAddress
  <2>2. Address(event, p) = p
    BY <1>1, <1>2, OwnAddress
  <2> QED BY <2>1, <2>2
<1>7. passed = <<tree>>
  <2>1. ValueAt(t, p).kind \in Scalars
    <3>1. ValueAt(tree, q).kind = ValueAt(t, p).kind
      BY <1>4, StemsFacts
    <3> QED BY <1>4, <3>1 DEF String, Scalars
  <2>2. DeltaHasFields(tree)
    BY <1>1, <1>3, <1>4, <2>1, DeltaIsSent
  <2> QED BY <1>1, <2>2 DEF ShouldForward
<1> QED BY <1>5, <1>6, <1>7

(* What is read of a text in the event that is sent on. *)
LEMMA PassedText ==
  ASSUME EventInv, pc = "ended", failing = {}, Regular(event), InOrder(event),
         NEW p \in DOMAIN before \cup Texts(event), OfFirstDelta(p)
  PROVE  Read({passed[k] : k \in DOMAIN passed}, p)
           = Once(IF p \in Texts(event) THEN Restored(Safe(p)) ELSE <<>>)
<1> DEFINE E == {passed[k] : k \in DOMAIN passed}
           At(e) == ReadIn(e, p)
<1>1. /\ InputInv /\ passed \in {<<tree>>, <<>>}
  BY EndFacts DEF EventInv
<1>2. PICK t : Becomes(t) /\ Json(t) /\ tree = Pruned(t)
  BY EndFacts
<1>3. (passed = <<tree>> => E = {tree}) /\ (passed = <<>> => E = {})
  <2>1. DOMAIN <<tree>> = {1} /\ <<tree>>[1] = tree /\ DOMAIN <<>> = {}
    OBVIOUS
  <2> QED BY <2>1
<1>4. Read(E, p) = UNION {At(e) : e \in E}
  BY DEF Read
<1>5. ASSUME NEW q \in StringPaths(tree), Address(tree, q) = p
      PROVE  /\ p \in Texts(event) /\ ~Gone(p)
             /\ ValueAt(tree, q).text = Restored(Safe(p))
  BY <1>2, <1>5, ReadIsText DEF String
<1>6. ASSUME p \in Texts(event), ~Gone(p)
      PROVE  passed = <<tree>> /\ \E q \in StringPaths(tree) : Address(tree, q) = p
  BY <1>2, <1>6, TextIsRead
<1>7. p \in Texts(event) => (Restored(Safe(p)) = <<>> <=> Gone(p))
  <2>1. Safe(p) \in Seq(Char)
    <3>1. Grown(p) \in Seq(Char) /\ Split(p) \in 0 .. Len(Grown(p)) /\ Len(Grown(p)) \in Nat
      BY <1>1, TextFacts
    <3>2. 0 \in 0 .. Len(Grown(p)) /\ Split(p) \in 0 .. Len(Grown(p)) /\ 0 + 1 = 1
      BY <3>1
    <3>3. SubSeq(Grown(p), 0 + 1, Split(p)) \in Seq(Char)
      BY <3>1, <3>2, Slice
    <3> QED BY <3>2, <3>3 DEF Safe
  <2> QED BY <2>1, RestoredEmpty DEF Gone
<1> HIDE DEF E
<1>8. CASE p \in Texts(event) /\ ~Gone(p)
  <2>1. E = {tree} /\ \E q \in StringPaths(tree) : Address(tree, q) = p
    BY <1>3, <1>6, <1>8
  <2>2. At(tree) = {Restored(Safe(p))}
    BY <1>5, <2>1 DEF ReadIn
  <2> HIDE DEF At
  <2>3. Read(E, p) = {Restored(Safe(p))}
    BY <1>4, <2>1, <2>2
  <2>4. Once(Restored(Safe(p))) = {Restored(Safe(p))}
    BY <1>7, <1>8 DEF Once
  <2> QED BY <1>8, <2>3, <2>4 DEF E
<1>9. CASE ~(p \in Texts(event) /\ ~Gone(p))
  <2>1. At(tree) = {}
    BY <1>5, <1>9 DEF ReadIn
  <2> HIDE DEF At
  <2>2. E \subseteq {tree}
    BY <1>1, <1>3
  <2>3. Read(E, p) = {}
    BY <1>4, <2>1, <2>2
  <2>4. Once(IF p \in Texts(event) THEN Restored(Safe(p)) ELSE <<>>) = {}
    BY <1>7, <1>9 DEF Once
  <2> QED BY <2>3, <2>4 DEF E
<1> QED BY <1>8, <1>9

(* What is read of it in the events that are made for what was held back. *)
LEMMA FlushedText ==
  ASSUME EventInv, pc = "ended", lost = {},
         NEW p \in DOMAIN before \cup Texts(event), OfFirstDelta(p), ~SharesFlush(p)
  PROVE  Read({f.event : f \in flushed}, p)
           = IF Buffers[p] = <<>> THEN {} ELSE {Restored(Buffers[p])}
<1> DEFINE D == DOMAIN before \cup Texts(event)
           e(r) == DeltaEvent(r, Restored(Buffers[r]))
           At(r) == ReadIn(e(r), p)
           E == {f.event : f \in flushed}
<1>1. InputInv /\ todo = {}
  BY EndFacts DEF EventInv
<1>2. DOMAIN Buffers = D
  BY <1>1 DEF Buffers
<1>3. flushed = {FlushOf(r) : r \in {q \in D : Buffers[q] # <<>>}}
  <2>1. /\ DOMAIN streams = {}
        /\ flushed = {FlushOf(r) : r \in {q \in DOMAIN Buffers \ (DOMAIN streams \cup lost) :
                                            Buffers[q] # <<>>}}
    BY DEF EventInv, FlushInv
  <2> QED BY <1>2, <2>1
<1>4. p \in Seq(Segment) /\ Len(p) =< MaxDepth /\ \E k \in DOMAIN p : p[k] = Key("delta")
  <2>1. p \in Seq(Segment) /\ Len(p) =< MaxDepth /\ IsPrefix(FirstDelta, p)
    BY <1>1, TextFacts DEF OfFirstDelta
  <2>2. Len(p) >= 3 /\ SubSeq(p, 1, 3) = FirstDelta /\ Len(p) \in Nat /\ DOMAIN p = 1 .. Len(p)
    BY <2>1, FirstDeltaFacts, PrefixIsSlice, LenProperties
  <2>3. 3 \in 0 .. Len(p) /\ 3 \in DOMAIN p /\ 3 \in 1 .. 3
    BY <2>2
  <2>4. p[3] = Key("delta")
    BY <2>1, <2>2, <2>3, Beginnings, FirstDeltaFacts
  <2> QED BY <2>1, <2>3, <2>4
<1>5. ASSUME NEW r \in D
      PROVE  At(r) = IF r = p THEN {Restored(Buffers[p])} ELSE {}
  <2>0. r \in Seq(Segment)
    BY <1>1, TextFacts
  <2>1. CASE \E k \in DOMAIN r : r[k] = Key("delta")
    <3> DEFINE y == FirstDelta \o BelowDelta(r)
    <3>1. BareWay(e(r), y) /\ ValueAt(e(r), y) = String(Restored(Buffers[r]))
      BY <2>0, <2>1, DeltaEventFacts
    <3>2. y = p <=> r = p
      <4>1. r = p => y = p
        BY <1>4, BelowDeltaFacts DEF OfFirstDelta
      <4>2. r # p => y # p
        BY <2>1 DEF SharesFlush
      <4> QED BY <4>1, <4>2
    <3>3. p = y => Len(y) =< MaxDepth
      BY <1>4
    <3> HIDE DEF y
    <3>4. At(r) = IF p = y THEN {Restored(Buffers[r])} ELSE {}
      BY <3>1, <3>3, BareRead
    <3> QED BY <3>2, <3>4
  <2>2. CASE ~\E k \in DOMAIN r : r[k] = Key("delta")
    <3>1. r # p
      BY <1>4, <2>2
    <3>2. e(r) = EmptyDelta
      BY <2>2 DEF DeltaEvent
    <3>3. Object(<<>>).kind # "string"
      BY DEF Object
    <3>4. \A x : Valid(EmptyDelta, x) => /\ WellFormed(ValueAt(EmptyDelta, x))
                                         /\ ValueAt(EmptyDelta, x).kind # "string"
      BY <3>3, EmptyDeltaFacts, EmptyObject, BareValues
    <3>5. StringPaths(EmptyDelta) = {}
      <4> SUFFICES ASSUME NEW x \in StringPaths(EmptyDelta)
                   PROVE  FALSE
        OBVIOUS
      <4>1. x \in PathsIn(EmptyDelta) /\ ValueAt(EmptyDelta, x).kind = "string"
        BY DEF StringPaths, ScalarPaths
      <4>2. Valid(EmptyDelta, x)
        BY <3>4, <4>1, PathsAreValid
      <4> QED BY <3>4, <4>1, <4>2
    <3> QED BY <3>1, <3>2, <3>5 DEF ReadIn
  <2> QED BY <2>1, <2>2
<1>6. E = {e(r) : r \in {q \in D : Buffers[q] # <<>>}}
  <2>1. \A r : FlushOf(r).event = e(r)
    BY DEF FlushOf
  <2> HIDE DEF e
  <2> QED BY <1>3, <2>1
<1>7. Read(E, p) = UNION {At(r) : r \in {q \in D : Buffers[q] # <<>>}}
  <2> HIDE DEF e, E
  <2>1. Read(E, p) = UNION {ReadIn(w, p) : w \in E}
    BY DEF Read
  <2> QED BY <1>6, <2>1
<1> HIDE DEF At, D, E
<1>8. p \in D
  BY DEF D
<1>9. Read(E, p) = IF Buffers[p] = <<>> THEN {} ELSE {Restored(Buffers[p])}
  <2>1. CASE Buffers[p] = <<>>
    <3>1. \A r \in {q \in D : Buffers[q] # <<>>} : At(r) = {}
      BY <1>5, <2>1
    <3> QED BY <1>7, <2>1, <3>1
  <2>2. CASE Buffers[p] # <<>>
    <3>1. p \in {q \in D : Buffers[q] # <<>>} /\ At(p) = {Restored(Buffers[p])}
      BY <1>5, <1>8, <2>2
    <3>2. \A r \in {q \in D : Buffers[q] # <<>>} : At(r) \subseteq {Restored(Buffers[p])}
      BY <1>5
    <3> QED BY <1>7, <2>2, <3>1, <3>2
  <2> QED BY <2>1, <2>2
<1> QED BY <1>9 DEF E

(***************************************************************************)
(* Where items stand where their indexes say, of each text of the first    *)
(* choice that has its place to itself nothing is lost, doubled or moved:  *)
(* what was held of it and what the event brings is read in the event that *)
(* is sent on, up to where it is split, and the rest in one that is made.  *)
(***************************************************************************)
THEOREM TextsAreConserved ==
  ASSUME \A i \in Inputs : Regular(i[1]) /\ InOrder(i[1])
  PROVE  Spec => []TextsConserved
<1>1. ASSUME EventInv
      PROVE  TextsConserved
  <2> SUFFICES ASSUME pc = "ended", failing = {}, lost = {},
                      NEW p \in DOMAIN before \cup Texts(event),
                      OfFirstDelta(p), ~SharesFlush(p)
               PROVE  LET address == Address(event, p)
                          said == Restored(Grown(p))
                      IN \E n \in 0 .. Len(said) :
                           /\ Read({passed[k] : k \in DOMAIN passed}, address)
                                = Once(SubSeq(said, 1, n))
                           /\ Read({f.event : f \in flushed}, address)
                                = Once(SubSeq(said, n + 1, Len(said)))
    BY DEF TextsConserved, Grown
  <2> DEFINE g == Grown(p)
             said == Restored(g)
             n == IF p \in Texts(event) THEN Split(p) ELSE 0
  <2>1. InputInv /\ todo = {} /\ Json(event) /\ Regular(event) /\ InOrder(event)
    BY <1>1, EndFacts DEF EventInv, InputInv
  <2>2. /\ p \in Seq(Segment) /\ g \in Seq(Char) /\ Len(g) \in Nat /\ Split(p) \in 0 .. Len(g)
        /\ p \notin Texts(event) => before[p] = g
    BY <2>1, TextFacts
  <2>3. Address(event, p) = p
    BY <2>1, <2>2, OwnAddress
  <2>4. n \in 0 .. Len(g) /\ 0 \in 0 .. Len(g) /\ Len(g) \in n .. Len(g) /\ 0 + 1 = 1
    BY <2>2
  <2>5. /\ Len(said) = Len(g)
        /\ SubSeq(said, 0 + 1, n) = Restored(SubSeq(g, 0 + 1, n))
        /\ SubSeq(said, n + 1, Len(g)) = Restored(SubSeq(g, n + 1, Len(g)))
    <3> HIDE DEF g, n
    <3>1. n \in 0 .. Len(g) /\ 0 \in 0 .. Len(g) /\ Len(g) \in n .. Len(g)
      BY <2>4
    <3> QED BY <2>2, <3>1, RestoredSlice
  <2>6. Restored(SubSeq(g, 1, n)) = IF p \in Texts(event) THEN Restored(Safe(p)) ELSE <<>>
    <3>1. CASE p \in Texts(event)
      BY <3>1 DEF Safe
    <3>2. CASE p \notin Texts(event)
      <4>1. SubSeq(g, 1, 0) = <<>>
        BY SubSeqEmpty
      <4>2. Restored(<<>>) = <<>>
        BY RestoredEmpty, EmptySeq
      <4> QED BY <3>2, <4>1, <4>2
    <3> QED BY <3>1, <3>2
  <2>7. Buffers[p] = SubSeq(g, n + 1, Len(g))
    <3>1. CASE p \in Texts(event)
      BY <2>1, <3>1 DEF Buffers, Held
    <3>2. CASE p \notin Texts(event)
      <4>1. Buffers[p] = g
        BY <2>1, <2>2, <3>2 DEF Buffers
      <4>2. SubSeq(g, 0 + 1, Len(g)) = g
        BY <2>2, <2>4, SubSeqFull
      <4> QED BY <3>2, <4>1, <4>2
    <3> QED BY <3>1, <3>2
  <2>8. SubSeq(g, n + 1, Len(g)) \in Seq(Char)
    <3> HIDE DEF g, n
    <3>1. n \in 0 .. Len(g) /\ Len(g) \in n .. Len(g)
      BY <2>4
    <3> QED BY <2>2, <3>1, Slice
  <2> HIDE DEF g, n
  <2>9. Read({passed[k] : k \in DOMAIN passed}, p) = Once(SubSeq(said, 1, n))
    <3>1. Read({passed[k] : k \in DOMAIN passed}, p)
            = Once(IF p \in Texts(event) THEN Restored(Safe(p)) ELSE <<>>)
      BY <1>1, <2>1, PassedText
    <3> QED BY <2>4, <2>5, <2>6, <3>1
  <2>10. Read({f.event : f \in flushed}, p) = Once(SubSeq(said, n + 1, Len(said)))
    <3>1. Read({f.event : f \in flushed}, p)
            = IF Buffers[p] = <<>> THEN {} ELSE {Restored(Buffers[p])}
      BY <1>1, FlushedText
    <3>2. Restored(Buffers[p]) = <<>> <=> Buffers[p] = <<>>
      BY <2>7, <2>8, RestoredEmpty
    <3> QED BY <2>5, <2>7, <3>1, <3>2 DEF Once
  <2> QED BY <2>3, <2>4, <2>5, <2>9, <2>10 DEF g
<1> QED BY <1>1, EventInvariant, PTL

-----------------------------------------------------------------------------
(* Pruning keeps the keys on the way. *)
LEMMA SameKeys ==
  ASSUME NEW v, NEW p, NEW q, Stems(v, p, q)
  PROVE  /\ p \in Seq(Segment) /\ q \in Seq(Segment) /\ Len(p) \in Nat /\ Len(q) = Len(p)
         /\ \A k \in 1 .. Len(p) : /\ IsKey(q[k]) <=> IsKey(p[k])
                                   /\ IsKey(p[k]) => q[k] = p[k]
         /\ p # <<>> => /\ IsKey(Last(q)) <=> IsKey(Last(p))
                        /\ IsKey(Last(p)) => Last(q) = Last(p)
         /\ Buffered(q) <=> Buffered(p)
<1>1. /\ p \in Seq(Segment) /\ q \in Seq(Segment) /\ Len(p) \in Nat /\ Len(q) = Len(p)
      /\ DOMAIN p = 1 .. Len(p) /\ DOMAIN q = 1 .. Len(p)
  BY LenProperties DEF Stems, Valid
<1>2. \A k \in 1 .. Len(p) : (IsKey(q[k]) <=> IsKey(p[k])) /\ (IsKey(p[k]) => q[k] = p[k])
  BY DEF Stems, Matches
<1>3. ASSUME p # <<>>
      PROVE  /\ IsKey(Last(q)) <=> IsKey(Last(p))
             /\ IsKey(Last(p)) => Last(q) = Last(p)
  <2>1. Len(p) # 0
    BY <1>1, <1>3, EmptySeq
  <2>2. Len(p) \in 1 .. Len(p)
    BY <1>1, <2>1
  <2>3. Last(p) = p[Len(p)] /\ Last(q) = q[Len(p)]
    BY <1>1 DEF Last
  <2> QED BY <1>2, <2>2, <2>3
<1>4. Buffered(q) <=> Buffered(p)
  <2>1. CASE p = <<>>
    <3>1. p = q
      BY <1>1, <2>1, EmptySeq
    <3> QED BY <3>1
  <2>2. CASE p # <<>>
    <3>1. /\ IsKey(Last(q)) /\ Last(q).key \in ProtocolKey <=> IsKey(Last(p)) /\ Last(p).key \in ProtocolKey
      BY <1>3, <2>2
    <3>2. (\E k \in DOMAIN q : IsKey(q[k]) /\ q[k].key \in TextKey)
            <=> (\E k \in DOMAIN p : IsKey(p[k]) /\ p[k].key \in TextKey)
      BY <1>1, <1>2
    <3> QED BY <3>1, <3>2 DEF Buffered
  <2> QED BY <2>1, <2>2
<1> QED BY <1>1, <1>2, <1>3, <1>4

(* What stands below where something went comes from below that. *)
LEMMA StemsFrom ==
  ASSUME NEW v, Json(v), NEW a, NEW b, Stems(v, a, b),
         NEW q, Valid(Pruned(v), q), Along(b, q)
  PROVE  \E p : Stems(v, p, q) /\ Along(a, p)
<1> DEFINE T == {r \in Seq(Segment) : Valid(Pruned(v), r) /\ Along(b, r) =>
                                        \E p : Stems(v, p, r) /\ Along(a, p)}
<1>0. /\ a \in Seq(Segment) /\ b \in Seq(Segment) /\ Len(a) \in Nat /\ Len(b) = Len(a)
      /\ Along(a, a)
  BY SameKeys DEF Along
<1>1. ASSUME NEW r \in Seq(Segment), Along(b, r), Len(r) =< Len(b)
      PROVE  r \in T
  <2>1. b = r
    BY <1>0, <1>1, SamePath
  <2> QED BY <1>0, <2>1
<1>2. <<>> \in T
  <2> HIDE DEF T
  <2>1. <<>> \in Seq(Segment) /\ Len(<<>>) =< Len(b)
    BY <1>0
  <2>2. Along(b, <<>>) => <<>> \in T
    BY <1>0, <1>1, <2>1
  <2>3. ~Along(b, <<>>) => <<>> \in T
    BY DEF T
  <2> QED BY <2>2, <2>3
<1>3. ASSUME NEW r \in Seq(Segment), r \in T, NEW t \in Segment
      PROVE  Append(r, t) \in T
  <2>0. /\ Append(r, t) \in Seq(Segment) /\ Len(r) \in Nat /\ Len(Append(r, t)) = Len(r) + 1
        /\ \A k \in 1 .. Len(r) : Append(r, t)[k] = r[k]
    BY AppendFacts
  <2>1. CASE ~Along(b, Append(r, t))
    BY <2>0, <2>1
  <2>2. CASE Along(b, Append(r, t)) /\ Len(b) > Len(r)
    <3>1. Len(Append(r, t)) =< Len(b)
      BY <1>0, <2>0, <2>2
    <3> HIDE DEF T
    <3> QED BY <1>1, <2>0, <2>2, <3>1
  <2>3. CASE Along(b, Append(r, t)) /\ Len(b) =< Len(r)
    <3> SUFFICES ASSUME Valid(Pruned(v), Append(r, t))
                 PROVE  \E p : Stems(v, p, Append(r, t)) /\ Along(a, p)
      BY <2>0
    <3>1. Valid(Pruned(v), r) /\ Leads(ValueAt(Pruned(v), r), t)
      BY ValidAppend
    <3>2. Along(b, r)
      <4>1. \A k \in 1 .. Len(b) : k \in 1 .. Len(r) /\ b[k] = Append(r, t)[k]
        BY <1>0, <2>0, <2>3 DEF Along
      <4> QED BY <2>0, <2>3, <4>1 DEF Along
    <3>3. PICK p : Stems(v, p, r) /\ Along(a, p)
      BY <1>3, <3>1, <3>2
    <3>4. Valid(v, p) /\ ValueAt(Pruned(v), r) = PrunedAll(v)[p] /\ p \in Seq(Segment) /\ Len(r) = Len(p)
      BY <3>3, StemsFacts DEF Stems
    <3>5. PICK s \in Segments(ValueAt(v, p)) :
             /\ Stays(v, Append(p, s)) /\ Child(PrunedAll(v)[p], t) = PrunedAll(v)[Append(p, s)]
             /\ Matches(v, p, s, t)
      BY <3>1, <3>4, PrunedFollows DEF Follows, Leads
    <3>6. Leads(ValueAt(v, p), s) /\ s \in Segment
      BY <3>4, SegmentsTyped DEF Json, Leads
    <3>7. Stems(v, Append(p, s), Append(r, t))
      BY <3>1, <3>3, <3>4, <3>5, <3>6, StemsOn
    <3>8. Along(a, Append(p, s))
      <4>1. /\ Len(Append(p, s)) = Len(p) + 1 /\ Len(p) \in Nat
            /\ \A k \in 1 .. Len(p) : Append(p, s)[k] = p[k]
        BY <3>4, <3>6, AppendFacts
      <4>2. Len(a) =< Len(p) /\ \A k \in 1 .. Len(a) : a[k] = p[k] /\ k \in 1 .. Len(p)
        BY <1>0, <3>3, <4>1 DEF Along
      <4>3. Len(a) =< Len(p) + 1
        BY <1>0, <4>1, <4>2
      <4> QED BY <4>1, <4>2, <4>3 DEF Along
    <3> QED BY <3>7, <3>8
  <2>4. Len(b) > Len(r) \/ Len(b) =< Len(r)
    BY <1>0, <2>0
  <2> QED BY <2>1, <2>2, <2>3, <2>4
<1>4. q \in T
  <2>1. q \in Seq(Segment)
    BY DEF Valid
  <2> HIDE DEF T
  <2> QED BY <1>2, <1>3, <2>1, PathInduction
<1> QED BY <1>4

-----------------------------------------------------------------------------
LEMMA PrefixIsAlong ==
  ASSUME NEW p \in Seq(Segment), NEW q \in Seq(Segment)
  PROVE  IsPrefix(p, q) <=> Along(p, q)
<1>0. Len(p) \in Nat /\ Len(q) \in Nat
  BY LenProperties
<1>1. IsPrefix(p, q) <=> Len(p) =< Len(q) /\ p = SubSeq(q, 1, Len(p))
  BY PrefixIsSlice
<1>2. CASE Len(p) =< Len(q)
  <2>1. Len(p) \in 0 .. Len(q)
    BY <1>0, <1>2
  <2>2. /\ SubSeq(q, 1, Len(p)) \in Seq(Segment) /\ Len(SubSeq(q, 1, Len(p))) = Len(p)
        /\ \A k \in 1 .. Len(p) : SubSeq(q, 1, Len(p))[k] = q[k]
    BY <2>1, Beginnings
  <2> DEFINE r == SubSeq(q, 1, Len(p))
  <2>3. p = r <=> \A k \in 1 .. Len(p) : p[k] = r[k]
    <3> HIDE DEF r
    <3>1. r \in Seq(Segment) /\ Len(r) = Len(p)
      BY <2>2 DEF r
    <3> QED BY <3>1, SeqEqual
  <2>4. (\A k \in 1 .. Len(p) : p[k] = r[k]) <=> \A k \in 1 .. Len(p) : p[k] = q[k]
    BY <2>2
  <2> HIDE DEF r
  <2>5. r = SubSeq(q, 1, Len(p))
    BY DEF r
  <2> QED BY <1>1, <1>2, <2>3, <2>4, <2>5 DEF Along
<1>3. CASE ~(Len(p) =< Len(q))
  BY <1>1, <1>3 DEF Along
<1> QED BY <1>2, <1>3

LEMMA AlongTrans ==
  ASSUME NEW p \in Seq(Segment), NEW q \in Seq(Segment), NEW r \in Seq(Segment),
         Along(p, q), Along(q, r)
  PROVE  Along(p, r)
<1>1. Len(p) \in Nat /\ Len(q) \in Nat /\ Len(r) \in Nat
  BY LenProperties
<1>2. \A k \in 1 .. Len(p) : k \in 1 .. Len(q) /\ p[k] = q[k]
  BY <1>1 DEF Along
<1>3. \A k \in 1 .. Len(q) : q[k] = r[k]
  BY DEF Along
<1>4. Len(p) =< Len(r)
  BY <1>1 DEF Along
<1> QED BY <1>2, <1>3, <1>4 DEF Along

LEMMA BeginningsOfBeginning ==
  ASSUME NEW p \in Seq(Segment), NEW n \in 0 .. Len(p), NEW m \in 0 .. n
  PROVE  SubSeq(SubSeq(p, 1, n), 1, m) = SubSeq(p, 1, m)
<1>1. 0 \in 0 .. Len(p) /\ n \in 0 .. Len(p) /\ 0 \in 0 .. n - 0 /\ m \in 0 .. n - 0
  BY LenProperties
<1>2. SubSeq(SubSeq(p, 0 + 1, n), 0 + 1, m) = SubSeq(p, 0 + 0 + 1, 0 + m)
  BY <1>1, SliceOfSlice
<1>3. 0 + 1 = 1 /\ 0 + 0 + 1 = 1 /\ 0 + m = m
  OBVIOUS
<1> QED BY <1>2, <1>3

(* A value that stays and is not the number of an item. *)
Solid(v, p) == Valid(v, p) /\ p # <<>> /\ Stays(v, p) /\ Last(p) # Key("index")

LEMMA SolidBelow ==
  ASSUME NEW v, Json(v), NEW p, Solid(v, p), ValueAt(v, p).kind \notin Scalars
  PROVE  \E s \in Segment : Solid(v, Append(p, s))
<1> DEFINE u == PrunedAll(v)[p]
<1>1. /\ p \in Seq(Segment) /\ Valid(v, p) /\ Follows(v, p) /\ WellFormed(ValueAt(v, p))
      /\ ~IsEmptyContainer(u)
  BY PrunedFollows DEF Solid, Valid, Json, Stays
<1>2. WellFormed(u) /\ u.kind = ValueAt(v, p).kind
  BY <1>1 DEF Follows
<1> HIDE DEF u
<1>3. PICK r \in Segments(u) : r # Key("index")
  <2>1. CASE u.kind = "object"
    <3>1. PICK k \in DOMAIN u.fields : k # "index"
      BY <1>1, <2>1 DEF IsEmptyContainer
    <3>2. Key(k).key # Key("index").key
      BY <3>1 DEF Key
    <3>3. Key(k) # Key("index") /\ Key(k) \in Segments(u)
      BY <2>1, <3>1, <3>2 DEF Segments
    <3> QED BY <3>3
  <2>2. CASE u.kind = "array"
    <3>1. u.items # <<>> /\ u.items \in Seq(ToSet(u.items))
      BY <1>1, <1>2, <2>2 DEF IsEmptyContainer, WellFormed, Scalars
    <3>2. 1 \in DOMAIN u.items
      <4>1. Len(u.items) # 0 /\ Len(u.items) \in Nat /\ DOMAIN u.items = 1 .. Len(u.items)
        BY <3>1, EmptySeq, LenProperties
      <4> QED BY <4>1
    <3>3. Index(1 - 1) \in Segments(u)
      BY <2>2, <3>2 DEF Segments
    <3>4. ~IsKey(Index(1 - 1)) /\ IsKey(Key("index"))
      BY DEF IsKey, Index, Key
    <3>5. Index(1 - 1) # Key("index")
      BY <3>4
    <3> QED BY <3>3, <3>5
  <2> QED BY <1>1, <1>2, <2>1, <2>2 DEF WellFormed
<1>4. PICK s \in Segments(ValueAt(v, p)) : Stays(v, Append(p, s)) /\ Matches(v, p, s, r)
  BY <1>1, <1>3 DEF Follows, u
<1>5. s \in Segment
  BY <1>1, <1>4, SegmentsTyped
<1>6. s # Key("index")
  BY <1>3, <1>4, IndexKey DEF Matches
<1>7. Valid(v, Append(p, s)) /\ Append(p, s) # <<>> /\ Last(Append(p, s)) = s
  <2>1. Leads(ValueAt(v, p), s)
    BY <1>1, <1>4 DEF Leads
  <2> QED BY <1>1, <1>5, <2>1, ValidAppend, AppendFacts
<1> QED BY <1>4, <1>5, <1>6, <1>7 DEF Solid

(* It is, or has in it, something that is no container. *)
LEMMA ScalarBelow ==
  ASSUME NEW v, Json(v), NEW p, Solid(v, p)
  PROVE  \E x : Solid(v, x) /\ Along(p, x) /\ ValueAt(v, x).kind \in Scalars
<1> DEFINE Found(r) == \E x : Solid(v, x) /\ Along(r, x) /\ ValueAt(v, x).kind \in Scalars
           T == {m \in Nat : \A r \in Seq(Segment) : Solid(v, r) /\ Len(r) + m >= MaxDepth => Found(r)}
<1>0. MaxDepth \in Nat
  BY JsonTreeAssumption
<1>1. ASSUME NEW r \in Seq(Segment), Solid(v, r),
             \A s \in Segment : Solid(v, Append(r, s)) => Found(Append(r, s))
      PROVE  Found(r)
  <2>1. CASE ValueAt(v, r).kind \in Scalars
    <3>1. Along(r, r)
      BY LenProperties DEF Along
    <3> QED BY <1>1, <2>1, <3>1
  <2>2. CASE ValueAt(v, r).kind \notin Scalars
    <3>1. PICK s \in Segment : Solid(v, Append(r, s))
      BY <1>1, <2>2, SolidBelow
    <3>2. PICK x : Solid(v, x) /\ Along(Append(r, s), x) /\ ValueAt(v, x).kind \in Scalars
      BY <1>1, <3>1
    <3>3. Along(r, Append(r, s)) /\ Append(r, s) \in Seq(Segment) /\ x \in Seq(Segment)
      BY <3>2, AppendFacts DEF Along, Solid, Valid
    <3>4. Along(r, x)
      BY <3>2, <3>3, AlongTrans
    <3> QED BY <3>2, <3>4
  <2> QED BY <2>1, <2>2
<1> HIDE DEF Found
<1>2. 0 \in T
  <2> SUFFICES ASSUME NEW r \in Seq(Segment), Solid(v, r), Len(r) + 0 >= MaxDepth
               PROVE  Found(r)
    OBVIOUS
  <2>1. ASSUME NEW s \in Segment, Solid(v, Append(r, s))
        PROVE  FALSE
    <3>1. Len(Append(r, s)) = Len(r) + 1 /\ Len(r) \in Nat /\ Append(r, s) \in Seq(Segment)
      BY AppendFacts
    <3>2. Len(Append(r, s)) =< MaxDepth
      BY <2>1, <3>1 DEF Solid, Json
    <3> QED BY <1>0, <3>1, <3>2
  <2> QED BY <1>1, <2>1
<1>3. ASSUME NEW m \in Nat, m \in T
      PROVE  m + 1 \in T
  <2> SUFFICES ASSUME NEW r \in Seq(Segment), Solid(v, r), Len(r) + (m + 1) >= MaxDepth
               PROVE  Found(r)
    OBVIOUS
  <2>1. ASSUME NEW s \in Segment, Solid(v, Append(r, s))
        PROVE  Found(Append(r, s))
    <3>1. Len(Append(r, s)) = Len(r) + 1 /\ Len(r) \in Nat /\ Append(r, s) \in Seq(Segment)
      BY AppendFacts
    <3>2. Len(Append(r, s)) + m >= MaxDepth
      BY <1>0, <3>1
    <3> QED BY <1>3, <2>1, <3>1, <3>2
  <2> QED BY <1>1, <2>1
<1>4. MaxDepth \in T
  <2> HIDE DEF T
  <2> QED BY <1>0, <1>2, <1>3, NaturalInduction
<1>5. p \in Seq(Segment) /\ Len(p) \in Nat
  BY LenProperties DEF Solid, Valid
<1>6. Len(p) + MaxDepth >= MaxDepth
  BY <1>0, <1>5
<1> QED BY <1>4, <1>5, <1>6 DEF Found

-----------------------------------------------------------------------------
LEMMA FirstFacts ==
  /\ FirstOfChoices \in Seq(Segment) /\ Len(FirstOfChoices) = 2
  /\ FirstOfChoices[1] = Key("choices") /\ FirstOfChoices[2] = Index(0)
  /\ <<Key("choices")>> \in Seq(Segment)
  /\ FirstOfChoices = Append(<<Key("choices")>>, Index(0))
  /\ <<Key("choices"), Index(1)>> = Append(<<Key("choices")>>, Index(1))
  /\ Index(0) \in Segment /\ Index(1) \in Segment /\ Key("choices") \in Segment
  /\ Key("delta") \in Segment /\ Key("finish_reason") \in Segment
  /\ \A n : ~IsKey(Index(n)) /\ Index(n).index = n
  /\ \A k : IsKey(Key(k)) /\ Key(k).key = k
<1>1. /\ Key("choices") \in Segment /\ Key("delta") \in Segment /\ Key("finish_reason") \in Segment
      /\ Index(0) \in Segment /\ Index(1) \in Segment
  BY KeyAssumption DEF Key, Index, Segment
<1>2. /\ \A n : ~IsKey(Index(n)) /\ Index(n).index = n
      /\ \A k : IsKey(Key(k)) /\ Key(k).key = k
  BY DEF IsKey, Key, Index
<1> QED BY <1>1, <1>2 DEF FirstOfChoices

(* The first choice is still the first. *)
LEMMA FirstStems ==
  ASSUME Json(event), Regular(event), FirstStays(event), todo = {},
         NEW t, Becomes(t), Json(t), NEW q, Valid(Pruned(t), q), Along(FirstOfChoices, q)
  PROVE  \E x : Stems(t, x, q) /\ Along(FirstOfChoices, x)
<1> DEFINE a == FirstOfChoices
<1>0. q \in Seq(Segment)
  BY DEF Valid
<1>1. CASE \E r \in Plain(event) : IsPrefix(a, r)
  <2>1. PICK r \in Plain(event) : IsPrefix(a, r)
    BY <1>1
  <2>2. Valid(t, r) /\ r \in Seq(Segment) /\ \A n \in 1 .. Len(r) : Stays(t, SubSeq(r, 1, n))
    BY PlainStays DEF Valid
  <2>3. Len(r) \in Nat /\ 2 =< Len(r) /\ a = SubSeq(r, 1, 2)
    BY <2>1, <2>2, FirstFacts, PrefixIsSlice, LenProperties
  <2>4. 2 \in 0 .. Len(r)
    BY <2>3
  <2>5. Valid(t, a)
    BY <2>2, <2>3, <2>4, WalkIsValueAt
  <2>6. ASSUME NEW n \in 1 .. Len(a)
        PROVE  Stays(t, SubSeq(a, 1, n))
    <3>1. n \in 0 .. 2 /\ n \in 1 .. Len(r)
      BY <2>3, FirstFacts
    <3>2. SubSeq(a, 1, n) = SubSeq(r, 1, n)
      BY <2>2, <2>3, <2>4, <3>1, BeginningsOfBeginning
    <3> QED BY <2>2, <3>1, <3>2
  <2>7. PICK b : Stems(t, a, b)
    BY <2>5, <2>6, PrunedHas
  <2>8. b = a
    <3>1. /\ b \in Seq(Segment) /\ Len(b) = 2
          /\ \A k \in 1 .. 2 : Matches(t, SubSeq(a, 1, k - 1), a[k], b[k])
      BY <2>7, SameKeys, FirstFacts DEF Stems
    <3>2. 1 \in 1 .. 2 /\ 2 \in 1 .. 2
      OBVIOUS
    <3>3. b[1] = a[1]
      BY <3>1, <3>2, FirstFacts DEF Matches
    <3>4. b[2] = a[2]
      <4>1. ~IsKey(a[2]) /\ ~\E j \in 0 .. a[2].index - 1 : TRUE
        BY FirstFacts
      <4> QED BY <3>1, <3>2, <4>1 DEF Matches
    <3>5. \A k \in 1 .. 2 : k = 1 \/ k = 2
      OBVIOUS
    <3>6. a \in Seq(Segment) /\ Len(a) = 2
      BY FirstFacts
    <3> HIDE DEF a
    <3> QED BY <3>1, <3>3, <3>4, <3>5, <3>6, SeqEqual
  <2> QED BY <2>7, <2>8, StemsFrom
<1>2. CASE ValueAt(event, <<Key("choices"), Index(1)>>) = Absent
  <2>1. PICK x : Stems(t, x, q)
    BY PrunedHasOnly
  <2>2. /\ x \in Seq(Segment) /\ Len(x) \in Nat /\ Len(q) = Len(x) /\ Valid(t, x)
        /\ \A k \in 1 .. Len(x) : (IsKey(q[k]) <=> IsKey(x[k])) /\ (IsKey(x[k]) => q[k] = x[k])
    BY <2>1, SameKeys DEF Stems
  <2>3. Len(x) >= 2 /\ q[1] = Key("choices") /\ q[2] = Index(0) /\ 1 \in 1 .. Len(x) /\ 2 \in 1 .. Len(x)
    <3>1. Len(q) >= 2 /\ \A k \in 1 .. 2 : a[k] = q[k]
      BY <2>2, FirstFacts DEF Along
    <3>2. a[1] = q[1] /\ a[2] = q[2]
      BY <3>1
    <3> QED BY <2>2, <3>1, <3>2, FirstFacts
  <2>4. x[1] = Key("choices")
    BY <2>2, <2>3, FirstFacts
  <2>5. ~IsKey(x[2]) /\ x[2] \in Segment
    BY <2>2, <2>3, FirstFacts, ElementOfSeq
  <2>6. x[2].index \in Nat /\ x[2] = Index(x[2].index)
    BY <2>5, SegmentCases
  <2>7. Valid(event, x)
    BY <2>2 DEF Becomes, BecomesOf
  <2> DEFINE A == ValueAt(event, <<Key("choices")>>)
  <2>8. Valid(event, <<Key("choices")>>) /\ Leads(A, x[2])
    <3>1. 2 \in 0 .. Len(x) /\ 0 \in 0 .. Len(x) - 1 /\ 1 \in 0 .. Len(x) - 1
      BY <2>2, <2>3
    <3>2. SubSeq(x, 1, 0) = <<>>
      BY SubSeqEmpty
    <3>3. SubSeq(x, 1, 0 + 1) = Append(SubSeq(x, 1, 0), x[0 + 1])
      BY <2>2, <3>1, BeginningsNext
    <3>4. SubSeq(x, 1, 1 + 1) = Append(SubSeq(x, 1, 1), x[1 + 1])
      BY <2>2, <3>1, BeginningsNext
    <3>5. 0 + 1 = 1 /\ 1 + 1 = 2
      OBVIOUS
    <3>6. SubSeq(x, 1, 1) = <<Key("choices")>>
      <4>1. SubSeq(x, 1, 1) = Append(<<>>, x[1])
        BY <3>2, <3>3, <3>5
      <4>2. \A e : Append(<<>>, e) = <<e>>
        OBVIOUS
      <4> QED BY <2>4, <4>1, <4>2
    <3>7. SubSeq(x, 1, 2) = Append(<<Key("choices")>>, x[2])
      BY <3>4, <3>5, <3>6
    <3>8. Valid(event, SubSeq(x, 1, 2))
      BY <2>2, <2>7, <3>1, WalkIsValueAt
    <3>9. <<Key("choices")>> \in Seq(Segment)
      BY FirstFacts
    <3> QED BY <2>5, <3>7, <3>8, <3>9, ValidAppend
  <2>9. x[2].index = 0
    <3> SUFFICES ASSUME x[2].index # 0 PROVE FALSE
      OBVIOUS
    <3>1. WellFormed(A) /\ x[2] \in Segments(A)
      BY <2>8 DEF Leads
    <3> HIDE DEF A
    <3>2. A.kind = "array"
      <4>1. A.kind = "object" => \E k \in DOMAIN A.fields : x[2] = Key(k)
        BY <3>1 DEF Segments
      <4>2. A.kind # "object"
        BY <2>5, <4>1, FirstFacts
      <4> QED BY <3>1, <4>2 DEF Segments
    <3>3. A.items \in Seq(ToSet(A.items))
      BY <3>1, <3>2 DEF WellFormed, Scalars
    <3>4. DOMAIN A.items = 1 .. Len(A.items) /\ Len(A.items) \in Nat
      BY <3>3, LenProperties
    <3>5. PICK k \in DOMAIN A.items : x[2] = Index(k - 1)
      BY <3>1, <3>2 DEF Segments
    <3>6. k - 1 # 0
      BY <3>5, FirstFacts
    <3>7. 2 \in DOMAIN A.items /\ 2 - 1 = 1
      BY <3>4, <3>5, <3>6
    <3>8. Index(1) \in Segments(A)
      BY <3>2, <3>7 DEF Segments
    <3>9. Leads(A, Index(1))
      BY <3>1, <3>8 DEF Leads
    <3>10. Valid(event, <<Key("choices"), Index(1)>>)
      <4>1. Valid(event, Append(<<Key("choices")>>, Index(1)))
        <5>1. <<Key("choices")>> \in Seq(Segment) /\ Index(1) \in Segment
          BY FirstFacts
        <5> QED BY <2>8, <3>9, <5>1, ValidAppend DEF A
      <4> QED BY <4>1, FirstFacts
    <3>11. WellFormed(ValueAt(event, <<Key("choices"), Index(1)>>))
      BY <3>10 DEF Json, Valid
    <3> QED BY <1>2, <3>11 DEF WellFormed, Scalars, Absent
  <2>10. Along(a, x)
    <3>1. \A k \in 1 .. 2 : k = 1 \/ k = 2
      OBVIOUS
    <3>2. a[1] = x[1] /\ a[2] = x[2]
      BY <2>4, <2>6, <2>9, FirstFacts
    <3>3. \A k \in 1 .. 2 : a[k] = x[k]
      BY <3>1, <3>2
    <3> QED BY <2>2, <2>3, <3>3, FirstFacts DEF Along
  <2> QED BY <2>1, <2>10
<1> QED BY <1>1, <1>2 DEF FirstStays

(* And what the first choice has under a key is what it had there. *)
LEMMA OfFirst ==
  ASSUME NEW k, Key(k) \in Segment
  PROVE  LET c == Append(FirstOfChoices, Key(k))
         IN  /\ c \in Seq(Segment) /\ Len(c) = 3 /\ Along(FirstOfChoices, c)
             /\ \A p \in Seq(Segment) :
                  Along(c, p) <=> Along(FirstOfChoices, p) /\ Len(p) >= 3 /\ p[3] = Key(k)
<1> DEFINE c == Append(FirstOfChoices, Key(k))
<1>1. /\ c \in Seq(Segment) /\ Len(c) = 3 /\ c[3] = Key(k) /\ Len(FirstOfChoices) = 2
      /\ \A n \in 1 .. 2 : c[n] = FirstOfChoices[n]
  <2>1. FirstOfChoices \in Seq(Segment) /\ Len(FirstOfChoices) = 2
    BY FirstFacts
  <2>2. /\ c \in Seq(Segment) /\ Len(c) = Len(FirstOfChoices) + 1
        /\ c[Len(FirstOfChoices) + 1] = Key(k)
        /\ \A n \in 1 .. Len(FirstOfChoices) : c[n] = FirstOfChoices[n]
    BY <2>1, AppendFacts
  <2> HIDE DEF c
  <2> QED BY <2>1, <2>2
<1> HIDE DEF c
<1>2. \A n : n \in 1 .. 3 <=> n \in 1 .. 2 \/ n = 3
  OBVIOUS
<1>3. Along(FirstOfChoices, c)
  BY <1>1 DEF Along
<1>4. ASSUME NEW p \in Seq(Segment)
      PROVE  Along(c, p) <=> Along(FirstOfChoices, p) /\ Len(p) >= 3 /\ p[3] = Key(k)
  <2>1. Len(p) \in Nat
    BY LenProperties
  <2>2. Along(c, p) <=> 3 =< Len(p) /\ \A n \in 1 .. 3 : c[n] = p[n]
    BY <1>1 DEF Along
  <2>3. Along(FirstOfChoices, p) <=> 2 =< Len(p) /\ \A n \in 1 .. 2 : c[n] = p[n]
    BY <1>1 DEF Along
  <2>4. (\A n \in 1 .. 3 : c[n] = p[n]) <=> (\A n \in 1 .. 2 : c[n] = p[n]) /\ c[3] = p[3]
    BY <1>2
  <2> QED BY <1>1, <2>1, <2>2, <2>3, <2>4
<1> QED BY <1>1, <1>3, <1>4 DEF c

LEMMA UnderFirst ==
  ASSUME Json(event), Regular(event), FirstStays(event), todo = {},
         NEW t, Becomes(t), Json(t), NEW q, Valid(Pruned(t), q),
         NEW k, Key(k) \in Segment, Along(Append(FirstOfChoices, Key(k)), q)
  PROVE  \E x : Stems(t, x, q) /\ Along(Append(FirstOfChoices, Key(k)), x)
<1>1. q \in Seq(Segment)
  BY DEF Valid
<1>2. Along(FirstOfChoices, q) /\ Len(q) >= 3 /\ q[3] = Key(k)
  BY <1>1, OfFirst
<1>3. PICK x : Stems(t, x, q) /\ Along(FirstOfChoices, x)
  BY <1>2, FirstStems
<1>4. /\ x \in Seq(Segment) /\ Len(x) \in Nat /\ Len(q) = Len(x)
      /\ \A n \in 1 .. Len(x) : (IsKey(q[n]) <=> IsKey(x[n])) /\ (IsKey(x[n]) => q[n] = x[n])
  BY <1>3, SameKeys
<1>5. 3 \in 1 .. Len(x)
  BY <1>2, <1>4
<1>6. x[3] = Key(k)
  BY <1>2, <1>4, <1>5, FirstFacts
<1> QED BY <1>2, <1>3, <1>4, <1>6, OfFirst

(* The other way round: it stays where it was. *)
LEMMA StaysUnderFirst ==
  ASSUME NEW v, NEW p, NEW q, Stems(v, p, q),
         NEW k, Key(k) \in Segment, Along(Append(FirstOfChoices, Key(k)), p)
  PROVE  Along(Append(FirstOfChoices, Key(k)), q)
<1>1. /\ p \in Seq(Segment) /\ q \in Seq(Segment) /\ Len(p) \in Nat /\ Len(q) = Len(p)
      /\ \A n \in 1 .. Len(p) : (IsKey(q[n]) <=> IsKey(p[n])) /\ (IsKey(p[n]) => q[n] = p[n])
  BY SameKeys
<1>2. Along(FirstOfChoices, p) /\ Len(p) >= 3 /\ p[3] = Key(k)
  BY <1>1, OfFirst
<1>3. 1 \in 1 .. Len(p) /\ 2 \in 1 .. Len(p) /\ 3 \in 1 .. Len(p)
  BY <1>1, <1>2
<1>4. p[1] = Key("choices") /\ p[2] = Index(0)
  <2>1. \A n \in 1 .. 2 : FirstOfChoices[n] = p[n]
    BY <1>2, FirstFacts DEF Along
  <2>2. FirstOfChoices[1] = p[1] /\ FirstOfChoices[2] = p[2]
    BY <2>1
  <2> QED BY <2>2, FirstFacts
<1>5. q[1] = p[1] /\ q[3] = p[3]
  BY <1>1, <1>2, <1>3, <1>4, FirstFacts
<1>6. q[2] = p[2]
  <2>1. Matches(v, SubSeq(p, 1, 2 - 1), p[2], q[2])
    BY <1>3 DEF Stems
  <2>2. ~IsKey(p[2]) /\ ~\E j \in 0 .. p[2].index - 1 : TRUE
    BY <1>4, FirstFacts
  <2> QED BY <2>1, <2>2 DEF Matches
<1>7. Along(FirstOfChoices, q)
  <2>1. \A n \in 1 .. 2 : n = 1 \/ n = 2
    OBVIOUS
  <2>2. \A n \in 1 .. 2 : FirstOfChoices[n] = q[n]
    BY <1>4, <1>5, <1>6, <2>1, FirstFacts
  <2> QED BY <1>1, <1>2, <2>2, FirstFacts DEF Along
<1> QED BY <1>1, <1>2, <1>5, <1>7, OfFirst

-----------------------------------------------------------------------------
(* What the event is, and has become when all its strings have been visited. *)
Settled(t) ==
  /\ InputInv /\ Json(event) /\ Regular(event) /\ FirstStays(event)
  /\ \A p \in Texts(event) : IsKey(Last(p))
  /\ todo = {}
  /\ Becomes(t) /\ Json(t) /\ tree = Pruned(t)

LEMMA TextOrPlain ==
  ASSUME NEW t, Settled(t), NEW x, Valid(t, x), ValueAt(t, x).kind \in Scalars
  PROVE  LET sent == ValueAt(event, x)
             here == ValueAt(t, x)
         IN  /\ x \in ScalarPaths(event)
             /\ x \in Texts(event) => ~Gone(x) /\ here = String(Restored(Safe(x)))
             /\ x \notin Texts(event) => /\ here.kind = sent.kind
                                         /\ here = Null <=> sent = Null
                                         /\ here.kind = "string" => ~Buffered(x)
<1> DEFINE sent == ValueAt(event, x)
           here == ValueAt(t, x)
<1>1. /\ Json(event) /\ todo = {} /\ x \in Seq(Segment)
      /\ x \in Texts(event) => IsKey(Last(x))
  BY DEF Settled, Valid
<1>2. Valid(event, x) /\ ~Taken(x) /\ Stands(here, x)
  BY <1>1 DEF Settled, Becomes, BecomesOf
<1>3. WellFormed(sent)
  BY <1>1, <1>2 DEF Json
<1>4. x \in Texts(event) <=> sent.kind = "string" /\ Buffered(x)
  BY <1>1, <1>2, StringFacts DEF Texts
<1> HIDE DEF sent, here
<1>5. sent.kind \in {"string", "number", "null", "array", "object"}
  BY <1>3 DEF WellFormed, Scalars
<1>6. sent.kind \notin {"array", "object"}
  BY <1>2 DEF Stands, Scalars, sent, here
<1>7. x \in ScalarPaths(event)
  <2>1. sent.kind \in Scalars
    BY <1>5, <1>6 DEF Scalars
  <2> QED BY <1>1, <1>2, <2>1, JsonPaths DEF ScalarPaths, sent
<1>8. ASSUME x \in Texts(event)
      PROVE  ~Gone(x) /\ here = String(Restored(Safe(x)))
  <2>1. ~Gone(x)
    BY <1>1, <1>2, <1>8 DEF Taken
  <2>2. sent.kind = "string" /\ Buffered(x)
    BY <1>4, <1>8
  <2> QED BY <1>1, <1>2, <2>1, <2>2 DEF Stands, sent
<1>9. ASSUME x \notin Texts(event)
      PROVE  /\ here.kind = sent.kind
             /\ here = Null <=> sent = Null
             /\ here.kind = "string" => ~Buffered(x)
  <2>1. CASE sent.kind = "string"
    <3>1. ~Buffered(x)
      BY <1>4, <1>9, <2>1
    <3>2. here = sent \/ here = String(Restored(sent.text))
      BY <1>1, <1>2, <2>1, <3>1 DEF Stands, sent
    <3>3. here.kind = "string"
      BY <2>1, <3>2 DEF String
    <3> QED BY <2>1, <3>1, <3>3 DEF Null
  <2>2. CASE sent.kind # "string"
    <3>1. here = sent
      BY <1>2, <1>5, <1>6, <2>2 DEF Stands, sent
    <3> QED BY <2>2, <3>1
  <2> QED BY <2>1, <2>2
<1> QED BY <1>7, <1>8, <1>9 DEF sent, here

LEMMA SettledFacts ==
  ASSUME NEW t, Settled(t)
  PROVE  /\ Json(event) /\ Regular(event) /\ FirstStays(event) /\ todo = {} /\ InputInv
         /\ Becomes(t) /\ Json(t) /\ tree = Pruned(t) /\ Json(tree)
         /\ \A p \in Texts(event) : p \in StringPaths(event) /\ IsKey(Last(p))
BY PrunedIsJson DEF Settled, Texts

(* A scalar of the tree is one of the event that has become it. *)
LEMMA ScalarStems ==
  ASSUME NEW t, Settled(t), NEW q \in ScalarPaths(tree), NEW x, Stems(t, x, q)
  PROVE  /\ Valid(t, x) /\ ValueAt(t, x).kind \in Scalars /\ ValueAt(tree, q) = ValueAt(t, x)
         /\ q # <<>> => x # <<>>
<1>1. Json(t) /\ tree = Pruned(t)
  BY SettledFacts
<1>2. ValueAt(tree, q).kind \in Scalars
  BY DEF ScalarPaths
<1>3. ValueAt(t, x).kind \in Scalars
  <2>1. ValueAt(tree, q).kind = ValueAt(t, x).kind
    BY <1>1, StemsFacts
  <2> QED BY <1>2, <2>1
<1>4. ValueAt(tree, q) = ValueAt(t, x)
  BY <1>1, <1>3, StemsFacts
<1>5. q # <<>> => x # <<>>
  <2>1. q \in Seq(Segment) /\ Len(q) = Len(x)
    BY SameKeys
  <2>2. x = <<>> => Len(q) = 0
    BY <2>1
  <2> QED BY <2>1, <2>2, EmptySeq
<1> QED BY <1>3, <1>4, <1>5 DEF Stems

LEMMA TextsFrom ==
  ASSUME NEW t, Settled(t), NEW q, NEW x, Stems(t, x, q)
  PROVE  q \in Texts(tree) <=> x \in Texts(event) /\ ValueAt(t, x).kind \in Scalars
<1>1. Json(t) /\ tree = Pruned(t) /\ Json(tree) /\ Valid(t, x) /\ Valid(tree, q)
  BY SettledFacts DEF Stems
<1>2. ValueAt(tree, q).kind = ValueAt(t, x).kind
  BY <1>1, StemsFacts
<1>3. Buffered(q) <=> Buffered(x)
  BY SameKeys
<1>4. q \in Texts(tree) <=> ValueAt(t, x).kind = "string" /\ Buffered(x)
  BY <1>1, <1>2, <1>3, StringFacts DEF Texts
<1>5. ASSUME ValueAt(t, x).kind = "string", Buffered(x)
      PROVE  x \in Texts(event)
  <2>1. ValueAt(t, x).kind \in Scalars
    BY <1>5 DEF Scalars
  <2> QED BY <1>1, <1>5, <2>1, TextOrPlain
<1>6. ASSUME x \in Texts(event), ValueAt(t, x).kind \in Scalars
      PROVE  ValueAt(t, x).kind = "string" /\ Buffered(x)
  <2>1. ValueAt(t, x) = String(Restored(Safe(x)))
    BY <1>1, <1>6, TextOrPlain
  <2> QED BY <1>6, <2>1 DEF String, Texts
<1> QED BY <1>4, <1>5, <1>6 DEF Scalars

(* What is plain in the tree was plain in the event, and the other way round. *)
LEMMA PlainFrom ==
  ASSUME NEW t, Settled(t), NEW q \in Plain(tree), NEW x, Stems(t, x, q)
  PROVE  x \in Plain(event)
<1>1. /\ q \in ScalarPaths(tree) /\ q \notin Texts(tree) /\ Last(q) # Key("index")
      /\ IsKey(Last(q)) \/ ValueAt(tree, q) # Null
  BY DEF Plain
<1>2. Valid(t, x) /\ ValueAt(t, x).kind \in Scalars /\ ValueAt(tree, q) = ValueAt(t, x)
  BY <1>1, ScalarStems
<1>3. x \notin Texts(event)
  BY <1>1, <1>2, TextsFrom
<1>4. x \in ScalarPaths(event) /\ (ValueAt(t, x) = Null <=> ValueAt(event, x) = Null)
  BY <1>2, <1>3, TextOrPlain
<1>5. CASE x = <<>>
  <2>1. x \in Seq(Segment) /\ q \in Seq(Segment) /\ Len(q) = Len(x)
    BY SameKeys
  <2>2. Len(x) = 0
    BY <1>5
  <2>3. q = x
    BY <1>5, <2>1, <2>2, EmptySeq
  <2> QED BY <1>1, <1>2, <1>3, <1>4, <2>3 DEF Plain
<1>6. CASE x # <<>>
  <2>1. (IsKey(Last(q)) <=> IsKey(Last(x))) /\ (IsKey(Last(x)) => Last(q) = Last(x))
    BY <1>6, SameKeys
  <2>2. Last(x) # Key("index")
    BY <1>1, <2>1, IndexKey
  <2> QED BY <1>1, <1>2, <1>3, <1>4, <2>1, <2>2 DEF Plain
<1> QED BY <1>5, <1>6

LEMMA PlainStems ==
  ASSUME NEW t, Settled(t), NEW p \in Plain(event)
  PROVE  \E q \in Plain(tree) : Stems(t, p, q)
<1>1. /\ Json(event) /\ Regular(event) /\ todo = {} /\ Becomes(t) /\ Json(t)
      /\ tree = Pruned(t) /\ Json(tree)
  BY SettledFacts
<1>2. /\ Valid(t, p) /\ ValueAt(t, p).kind \in Scalars
      /\ \A n \in 1 .. Len(p) : Stays(t, SubSeq(p, 1, n))
  BY <1>1, PlainStays
<1>3. PICK q : Stems(t, p, q)
  BY <1>1, <1>2, PrunedHas
<1>4. ValueAt(tree, q) = ValueAt(t, p) /\ Valid(tree, q)
  <2>1. Valid(tree, q)
    BY <1>1, <1>3 DEF Stems
  <2> QED BY <1>1, <1>2, <1>3, <2>1, StemsFacts
<1>5. q \in ScalarPaths(tree)
  BY <1>1, <1>2, <1>4, JsonPaths DEF ScalarPaths
<1>6. /\ p \notin Texts(event) /\ Last(p) # Key("index")
      /\ IsKey(Last(p)) \/ ValueAt(event, p) # Null
  BY DEF Plain
<1>7. q \notin Texts(tree)
  BY <1>3, <1>6, TextsFrom
<1>8. ValueAt(t, p) = Null <=> ValueAt(event, p) = Null
  BY <1>2, <1>6, TextOrPlain
<1>9. q \in Plain(tree)
  <2>1. CASE p = <<>>
    <3>1. p \in Seq(Segment) /\ q \in Seq(Segment) /\ Len(q) = Len(p)
      BY <1>3, SameKeys
    <3>2. Len(p) = 0
      BY <2>1
    <3>3. q = p
      BY <2>1, <3>1, <3>2, EmptySeq
    <3> QED BY <1>4, <1>5, <1>6, <1>7, <1>8, <3>3 DEF Plain
  <2>2. CASE p # <<>>
    <3>1. (IsKey(Last(q)) <=> IsKey(Last(p))) /\ (IsKey(Last(p)) => Last(q) = Last(p))
      BY <1>3, <2>2, SameKeys
    <3>2. Last(q) # Key("index")
      BY <1>6, <3>1, IndexKey
    <3> QED BY <1>4, <1>5, <1>6, <1>7, <1>8, <3>1, <3>2 DEF Plain
  <2> QED BY <2>1, <2>2
<1> QED BY <1>3, <1>9

-----------------------------------------------------------------------------
(* The texts in the tree, by their addresses, are those of which something is safe. *)
LEMMA PiecesAgree ==
  ASSUME NEW t, Settled(t)
  PROVE  {[owner |-> Address(tree, q), text |-> ValueAt(tree, q).text] : q \in Texts(tree)}
           = {[owner |-> Address(event, p), text |-> Restored(Safe(p))] :
                p \in {x \in Texts(event) : ~Gone(x)}}
<1>1. /\ Json(event) /\ Regular(event) /\ todo = {} /\ InputInv /\ Becomes(t) /\ Json(t)
      /\ tree = Pruned(t) /\ Json(tree)
      /\ \A p \in Texts(event) : p \in StringPaths(event) /\ IsKey(Last(p))
  BY SettledFacts
<1> DEFINE seen(q) == [owner |-> Address(tree, q), text |-> ValueAt(tree, q).text]
           sent(p) == [owner |-> Address(event, p), text |-> Restored(Safe(p))]
<1>2. ASSUME NEW p \in Texts(event), ~Gone(p), NEW q, Stems(t, p, q),
             ValueAt(tree, q) = String(Restored(Safe(p)))
      PROVE  seen(q) = sent(p)
  <2>1. Address(tree, q) = Address(event, p)
    BY <1>1, <1>2, StringAddress
  <2> QED BY <1>2, <2>1 DEF String
<1>3. ASSUME NEW q \in Texts(tree)
      PROVE  \E p \in Texts(event) : ~Gone(p) /\ seen(q) = sent(p)
  <2>1. Valid(tree, q) /\ q \in ScalarPaths(tree)
    BY <1>1, StringFacts DEF Texts, StringPaths
  <2>2. PICK x : Stems(t, x, q)
    BY <1>1, <2>1, PrunedHasOnly
  <2>3. /\ x \in Texts(event) /\ Valid(t, x) /\ ValueAt(t, x).kind \in Scalars
        /\ ValueAt(tree, q) = ValueAt(t, x)
    BY <2>1, <2>2, TextsFrom, ScalarStems
  <2>4. ~Gone(x) /\ ValueAt(t, x) = String(Restored(Safe(x)))
    BY <2>3, TextOrPlain
  <2> QED BY <1>2, <2>2, <2>3, <2>4
<1>4. ASSUME NEW p \in Texts(event), ~Gone(p)
      PROVE  \E q \in Texts(tree) : seen(q) = sent(p)
  <2>1. PICK q : Stems(t, p, q) /\ ValueAt(tree, q) = String(Restored(Safe(p)))
    BY <1>1, <1>4, TextStems
  <2>2. ValueAt(t, p).kind \in Scalars
    <3>1. ValueAt(tree, q).kind = ValueAt(t, p).kind
      BY <1>1, <2>1, StemsFacts
    <3> QED BY <2>1, <3>1 DEF String, Scalars
  <2>3. q \in Texts(tree)
    BY <2>1, <2>2, TextsFrom
  <2> QED BY <1>2, <1>4, <2>1, <2>3
<1> HIDE DEF seen, sent
<1>5. {seen(q) : q \in Texts(tree)} = {sent(p) : p \in {x \in Texts(event) : ~Gone(x)}}
  BY <1>3, <1>4
<1> QED BY <1>5 DEF seen, sent

LEMMA DeltaKey ==
  /\ Key("delta") \in Segment /\ FirstDelta = Append(FirstOfChoices, Key("delta"))
  /\ \A p \in Seq(Segment) : IsPrefix(FirstDelta, p) <=> Along(FirstDelta, p)
BY FirstFacts, FirstDeltaFacts, PrefixIsAlong DEF FirstDelta

(* Something else in the first delta, there and here. *)
LEMMA OtherAgrees ==
  ASSUME NEW t, Settled(t)
  PROVE  (\E q \in Plain(tree) : IsPrefix(FirstDelta, q))
           <=> \E p \in Plain(event) : IsPrefix(FirstDelta, p)
<1>1. /\ Json(event) /\ Regular(event) /\ FirstStays(event) /\ todo = {} /\ Becomes(t) /\ Json(t)
      /\ tree = Pruned(t) /\ Json(tree)
  BY SettledFacts
<1>2. ASSUME NEW q \in Plain(tree), IsPrefix(FirstDelta, q)
      PROVE  \E p \in Plain(event) : IsPrefix(FirstDelta, p)
  <2>1. Valid(tree, q) /\ q \in Seq(Segment)
    BY <1>1, JsonPaths DEF Plain, ScalarPaths, Valid
  <2>2. Along(Append(FirstOfChoices, Key("delta")), q)
    BY <1>2, <2>1, DeltaKey
  <2>3. PICK x : Stems(t, x, q) /\ Along(Append(FirstOfChoices, Key("delta")), x)
    BY <1>1, <2>1, <2>2, DeltaKey, UnderFirst
  <2>4. x \in Plain(event)
    BY <2>3, PlainFrom
  <2>5. x \in Seq(Segment)
    BY <2>3, SameKeys
  <2> QED BY <2>3, <2>4, <2>5, DeltaKey
<1>3. ASSUME NEW p \in Plain(event), IsPrefix(FirstDelta, p)
      PROVE  \E q \in Plain(tree) : IsPrefix(FirstDelta, q)
  <2>1. PICK q \in Plain(tree) : Stems(t, p, q)
    BY PlainStems
  <2>2. p \in Seq(Segment) /\ q \in Seq(Segment)
    BY <2>1, SameKeys
  <2>3. Along(Append(FirstOfChoices, Key("delta")), p)
    BY <1>3, <2>2, DeltaKey
  <2>4. Along(FirstDelta, q)
    BY <2>1, <2>3, DeltaKey, StaysUnderFirst
  <2> QED BY <2>2, <2>4, DeltaKey
<1> QED BY <1>2, <1>3

(* The first choice ends, there and here. *)
LEMMA FinishAgrees ==
  ASSUME NEW t, Settled(t)
  PROVE  HasFinishReason(tree) <=> HasFinishReason(event)
<1> DEFINE c == Append(FirstOfChoices, Key("finish_reason"))
<1>0. /\ Json(event) /\ Regular(event) /\ FirstStays(event) /\ todo = {} /\ Becomes(t) /\ Json(t)
      /\ tree = Pruned(t) /\ Json(tree)
  BY SettledFacts
<1>1. /\ Key("finish_reason") \in Segment /\ c \in Seq(Segment) /\ Len(c) = 3
      /\ \A p \in Seq(Segment) : Along(c, p) /\ Len(p) = 3 => p = c
  <2>1. Key("finish_reason") \in Segment
    BY FirstFacts
  <2>2. c \in Seq(Segment) /\ Len(c) = 3
    BY <2>1, OfFirst
  <2> HIDE DEF c
  <2>3. ASSUME NEW p \in Seq(Segment), Along(c, p), Len(p) = 3
        PROVE  p = c
    <3>1. Len(p) =< Len(c)
      BY <2>2, <2>3
    <3> QED BY <2>2, <2>3, <3>1, SamePath
  <2> QED BY <2>1, <2>2, <2>3
<1>2. c # <<>> /\ Last(c) = Key("finish_reason") /\ IsKey(Last(c)) /\ ~Buffered(c)
  <2>1. c # <<>> /\ Last(c) = Key("finish_reason")
    <3>1. FirstOfChoices \in Seq(Segment) /\ Key("finish_reason") \in Segment
      BY FirstFacts
    <3> QED BY <3>1, AppendFacts
  <2>2. IsKey(Last(c)) /\ Last(c).key = "finish_reason"
    BY <2>1, FirstFacts
  <2> QED BY <2>1, <2>2 DEF Buffered, ProtocolKey
<1>3. \A v : HasFinishReason(v) <=> ValueAt(v, c).kind \notin {"absent", "null"}
  BY DEF HasFinishReason
<1>4. Along(c, c)
  BY <1>1 DEF Along
<1> HIDE DEF c
<1>5. c \notin Texts(event)
  BY <1>2 DEF Texts
<1>6. ASSUME ValueAt(tree, c).kind \notin {"absent", "null"}
      PROVE  ValueAt(event, c).kind \notin {"absent", "null"}
  <2>1. Valid(tree, c)
    BY <1>0, <1>1, <1>6, ValueIsThere
  <2>2. PICK x : Stems(t, x, c) /\ Along(c, x)
    BY <1>0, <1>1, <1>4, <2>1, UnderFirst DEF c
  <2>3. x = c
    BY <1>1, <2>2, SameKeys
  <2>4. Valid(t, c) /\ ValueAt(tree, c).kind = ValueAt(t, c).kind
    <3>1. Stems(t, c, c)
      BY <2>2, <2>3
    <3>2. Valid(t, c)
      BY <3>1 DEF Stems
    <3> QED BY <1>0, <3>1, <3>2, StemsFacts
  <2>5. Valid(event, c) /\ Stands(ValueAt(t, c), c)
    BY <1>0, <1>1, <1>5, <2>4 DEF Becomes, BecomesOf
  <2>6. ValueAt(event, c).kind # "absent"
    BY <1>0, <1>1, <2>5 DEF Json, WellFormed, Scalars
  <2> QED BY <1>6, <2>4, <2>5, <2>6 DEF Stands
<1>7. ASSUME ValueAt(event, c).kind \notin {"absent", "null"}
      PROVE  ValueAt(tree, c).kind \notin {"absent", "null"}
  <2>1. ValueAt(event, c).kind \in Scalars
    BY <1>0, <1>7 DEF FirstStays, c
  <2>2. Valid(event, c)
    BY <1>0, <1>1, <1>7, ValueIsThere
  <2>3. c \in Plain(event)
    <3>1. c \in ScalarPaths(event)
      BY <1>0, <2>1, <2>2, JsonPaths DEF ScalarPaths
    <3>2. Last(c) # Key("index")
      <4>1. Key("finish_reason").key # Key("index").key
        BY FirstFacts
      <4> QED BY <1>2, <4>1
    <3> QED BY <1>2, <1>5, <3>1, <3>2 DEF Plain
  <2>4. PICK q \in Plain(tree) : Stems(t, c, q)
    BY <2>3, PlainStems
  <2>5. q = c
    <3>1. Along(c, q)
      BY <1>1, <1>4, <2>4, StaysUnderFirst DEF c
    <3>2. q \in Seq(Segment) /\ Len(q) = 3
      BY <1>1, <2>4, SameKeys
    <3> QED BY <1>1, <3>1, <3>2
  <2>6. Valid(t, c) /\ ValueAt(tree, c).kind = ValueAt(t, c).kind
    <3>1. Stems(t, c, c)
      BY <2>4, <2>5
    <3>2. Valid(t, c)
      BY <3>1 DEF Stems
    <3> QED BY <1>0, <3>1, <3>2, StemsFacts
  <2>7. ValueAt(t, c).kind \in Scalars
    BY <1>0, <2>3, PlainStays
  <2>8. ValueAt(t, c).kind = ValueAt(event, c).kind
    BY <1>5, <2>6, <2>7, TextOrPlain
  <2> QED BY <1>7, <2>6, <2>8
<1> QED BY <1>3, <1>6, <1>7

(* The first delta has fields, there and here. *)
LEMMA DeltaAgrees ==
  ASSUME NEW t, Settled(t)
  PROVE  DeltaHasFields(tree)
           <=> \/ \E p \in Plain(event) : IsPrefix(FirstDelta, p)
               \/ \E p \in Texts(event) : ~Gone(p) /\ IsPrefix(FirstDelta, p)
<1>0. /\ Json(event) /\ Regular(event) /\ FirstStays(event) /\ todo = {} /\ InputInv
      /\ Becomes(t) /\ Json(t) /\ tree = Pruned(t) /\ Json(tree)
      /\ \A p \in Texts(event) : IsKey(Last(p))
  BY SettledFacts
<1>1. ASSUME NEW p \in Plain(event), IsPrefix(FirstDelta, p)
      PROVE  DeltaHasFields(tree)
  <2>1. PICK q \in Plain(tree) : Stems(t, p, q)
    BY PlainStems
  <2>2. ValueAt(t, p).kind \in Scalars
    BY <1>0, PlainStays
  <2> QED BY <1>0, <1>1, <2>1, <2>2, DeltaIsSent
<1>2. ASSUME NEW p \in Texts(event), ~Gone(p), IsPrefix(FirstDelta, p)
      PROVE  DeltaHasFields(tree)
  <2>1. PICK q : Stems(t, p, q) /\ ValueAt(tree, q) = String(Restored(Safe(p)))
    BY <1>0, <1>2, TextStems
  <2>2. ValueAt(t, p).kind \in Scalars
    <3>1. ValueAt(tree, q).kind = ValueAt(t, p).kind
      BY <1>0, <2>1, StemsFacts
    <3> QED BY <2>1, <3>1 DEF String, Scalars
  <2> QED BY <1>0, <1>2, <2>1, <2>2, DeltaIsSent
<1>3. ASSUME DeltaHasFields(tree)
      PROVE  \/ \E p \in Plain(event) : IsPrefix(FirstDelta, p)
             \/ \E p \in Texts(event) : ~Gone(p) /\ IsPrefix(FirstDelta, p)
  <2> DEFINE d == FirstDelta
  <2>1. ValueAt(tree, d).kind = "object"
    BY <1>3 DEF DeltaHasFields
  <2>2. d \in Seq(Segment) /\ Len(d) = 3 /\ Along(d, d)
    BY FirstDeltaFacts DEF Along
  <2>3. Valid(tree, d)
    BY <1>0, <2>1, <2>2, ValueIsThere
  <2>4. PICK x : Stems(t, x, d) /\ Along(d, x)
    BY <1>0, <2>2, <2>3, DeltaKey, UnderFirst
  <2>5. x = d
    <3>1. x \in Seq(Segment) /\ Len(x) =< Len(d)
      BY <2>2, <2>4, SameKeys
    <3> QED BY <2>2, <2>4, <3>1, SamePath
  <2>6. Solid(t, d)
    <3>1. Valid(t, d) /\ Stays(t, SubSeq(d, 1, 3))
      BY <2>2, <2>4, <2>5 DEF Stems
    <3>2. SubSeq(d, 1, 3) = d
      BY <2>2, SubSeqFull
    <3>3. d # <<>> /\ Last(d) = Key("delta")
      <4>1. FirstOfChoices \in Seq(Segment) /\ Key("delta") \in Segment
        BY FirstFacts
      <4> QED BY <4>1, DeltaKey, AppendFacts
    <3>4. Key("delta").key # Key("index").key
      BY FirstFacts
    <3> QED BY <3>1, <3>2, <3>3, <3>4 DEF Solid
  <2> HIDE DEF d
  <2>7. PICK y : Solid(t, y) /\ Along(d, y) /\ ValueAt(t, y).kind \in Scalars
    BY <1>0, <2>6, ScalarBelow
  <2>8. Valid(t, y) /\ y \in Seq(Segment) /\ y # <<>> /\ Stays(t, y) /\ Last(y) # Key("index")
    BY <2>7 DEF Solid, Valid
  <2>9. IsPrefix(FirstDelta, y)
    BY <2>7, <2>8, DeltaKey DEF d
  <2>10. CASE y \in Texts(event)
    <3>1. ~Gone(y)
      BY <2>7, <2>8, <2>10, TextOrPlain
    <3> QED BY <2>9, <2>10, <3>1
  <2>11. CASE y \notin Texts(event)
    <3>1. PrunedAll(t)[y] = ValueAt(t, y)
      BY <1>0, <2>7, <2>8, PrunedFollows DEF Scalars
    <3>2. IsKey(Last(y)) \/ ValueAt(t, y) # Null
      BY <2>8, <3>1 DEF Stays
    <3>3. y \in ScalarPaths(event) /\ (ValueAt(t, y) = Null <=> ValueAt(event, y) = Null)
      BY <2>7, <2>8, <2>11, TextOrPlain
    <3>4. y \in Plain(event)
      BY <2>8, <2>11, <3>2, <3>3 DEF Plain
    <3> QED BY <2>9, <3>4
  <2> QED BY <2>10, <2>11
<1> QED BY <1>1, <1>2, <1>3

-----------------------------------------------------------------------------
(* SseStream's operators, of what SseStream has of the event. *)
LEMMA AbstractFacts ==
  ASSUME NEW v
  PROVE  /\ DOMAIN Abstract(v).pieces = Texts(v)
         /\ \A p \in Texts(v) : /\ Abstract(v).pieces[p].owner = Address(v, p)
                                /\ Abstract(v).pieces[p].text = ValueAt(v, p).text
         /\ {Abstract(v).pieces[p] : p \in Texts(v)}
              = {[owner |-> Address(v, p), text |-> ValueAt(v, p).text] : p \in Texts(v)}
         /\ Abstract(v).other = IF \E p \in Plain(v) : IsPrefix(FirstDelta, p) THEN TRUE ELSE FALSE
         /\ Abstract(v).finish = IF HasFinishReason(v) THEN TRUE ELSE FALSE
         /\ Abstract(v) = [pieces |-> Abstract(v).pieces, other |-> Abstract(v).other,
                           finish |-> Abstract(v).finish, done |-> FALSE]
<1> DEFINE f == [p \in Texts(v) |-> [owner |-> Address(v, p), text |-> ValueAt(v, p).text]]
           o == IF \E p \in Plain(v) : IsPrefix(FirstDelta, p) THEN TRUE ELSE FALSE
           g == IF HasFinishReason(v) THEN TRUE ELSE FALSE
<1>1. Abstract(v) = [pieces |-> f, other |-> o, finish |-> g, done |-> FALSE]
  <2>1. \A b \in BOOLEAN : b = IF b THEN TRUE ELSE FALSE
    OBVIOUS
  <2>2. HasFinishReason(v) = IF HasFinishReason(v) THEN TRUE ELSE FALSE
    BY <2>1 DEF HasFinishReason
  <2>3. (\E p \in Plain(v) : IsPrefix(FirstDelta, p)) = o
    BY <2>1
  <2> QED BY <2>2, <2>3 DEF Abstract
<1>2. /\ DOMAIN f = Texts(v)
      /\ \A p \in Texts(v) : f[p].owner = Address(v, p) /\ f[p].text = ValueAt(v, p).text
      /\ {f[p] : p \in Texts(v)}
           = {[owner |-> Address(v, p), text |-> ValueAt(v, p).text] : p \in Texts(v)}
  OBVIOUS
<1> HIDE DEF f, o, g
<1>3. Abstract(v).pieces = f /\ Abstract(v).other = o /\ Abstract(v).finish = g
  BY <1>1
<1> HIDE DEF Abstract
<1>4. Abstract(v) = [pieces |-> Abstract(v).pieces, other |-> Abstract(v).other,
                     finish |-> Abstract(v).finish, done |-> FALSE]
  BY <1>1, <1>3
<1> QED BY <1>2, <1>3, <1>4 DEF o, g

LEMMA OtherPieces ==
  ASSUME NEW e, NEW x,
         e = [pieces |-> e.pieces, other |-> e.other, finish |-> e.finish, done |-> FALSE]
  PROVE  [e EXCEPT !.pieces = x]
           = [pieces |-> x, other |-> e.other, finish |-> e.finish, done |-> FALSE]
<1> DEFINE F == {"pieces", "other", "finish", "done"}
           m == [pieces |-> x, other |-> e.other, finish |-> e.finish, done |-> FALSE]
<1>1. DOMAIN e = F /\ e["done"] = FALSE
  <2> DEFINE r == [pieces |-> e.pieces, other |-> e.other, finish |-> e.finish, done |-> FALSE]
  <2>1. DOMAIN r = F /\ r["done"] = FALSE
    OBVIOUS
  <2> HIDE DEF r
  <2>2. e = r
    BY DEF r
  <2> QED BY <2>1, <2>2
<1>2. [e EXCEPT !.pieces = x] = [k \in DOMAIN e |-> IF k = "pieces" THEN x ELSE e[k]]
  OBVIOUS
<1>3. /\ m = [k \in F |-> m[k]]
      /\ m["pieces"] = x /\ m["other"] = e["other"] /\ m["finish"] = e["finish"] /\ m["done"] = FALSE
  OBVIOUS
<1> HIDE DEF m
<1>4. \A k \in F : (IF k = "pieces" THEN x ELSE e[k]) = m[k]
  BY <1>1, <1>3
<1>5. [k \in F |-> IF k = "pieces" THEN x ELSE e[k]] = [k \in F |-> m[k]]
  BY <1>4
<1> QED BY <1>1, <1>2, <1>3, <1>5 DEF m

LEMMA ByOwnerIs ==
  ASSUME NEW e, e = [pieces |-> e.pieces, other |-> e.other, finish |-> e.finish, done |-> FALSE]
  PROVE  ByOwner(e) = [pieces |-> {e.pieces[p] : p \in DOMAIN e.pieces},
                       other |-> e.other, finish |-> e.finish, done |-> FALSE]
<1> DEFINE P == {e.pieces[p] : p \in DOMAIN e.pieces}
<1>1. ByOwner(e) = [e EXCEPT !.pieces = P]
  BY DEF ByOwner
<1> HIDE DEF P
<1>2. [e EXCEPT !.pieces = P] = [pieces |-> P, other |-> e.other, finish |-> e.finish, done |-> FALSE]
  BY OtherPieces
<1> QED BY <1>1, <1>2 DEF P

LEMMA GrownThere ==
  LET G == Sse!Grown(Abstract(event))
  IN  /\ DOMAIN G = DOMAIN before \cup Texts(event)
      /\ \A p \in DOMAIN G : G[p] = Grown(p) /\ Sse!SafeLen(G[p]) = Split(p) /\ Sse!Safe(G[p]) = Safe(p)
<1> DEFINE e == Abstract(event)
           D == DOMAIN before \cup Texts(event)
<1>1. DOMAIN e.pieces = Texts(event) /\ \A p \in Texts(event) : e.pieces[p].text = ValueAt(event, p).text
  BY AbstractFacts
<1> HIDE DEF e
<1>2. Sse!Grown(e) = [p \in D |-> (IF p \in DOMAIN before THEN before[p] ELSE <<>>)
                                    \o (IF p \in Texts(event) THEN e.pieces[p].text ELSE <<>>)]
  BY <1>1 DEF Sse!Grown
<1>3. ASSUME NEW p \in D
      PROVE  Sse!Grown(e)[p] = Grown(p)
  BY <1>1, <1>2 DEF Grown
<1>4. \A p \in D : Sse!SafeLen(Grown(p)) = Split(p)
  BY DEF Sse!SafeLen, Split
<1>5. \A p \in D : Sse!Safe(Grown(p)) = Safe(p)
  BY <1>4 DEF Sse!Safe, Safe
<1> QED BY <1>2, <1>3, <1>4, <1>5 DEF e

(* What is left in the buffers. *)
LEMMA RestAgrees ==
  ASSUME InputInv, todo = {}
  PROVE  Sse!Rest(Abstract(event)) = Buffers
<1> DEFINE e == Abstract(event)
           G == Sse!Grown(e)
           D == DOMAIN before \cup Texts(event)
<1>1. Sse!Rest(e) = [p \in DOMAIN G |-> SubSeq(G[p], Sse!SafeLen(G[p]) + 1, Len(G[p]))]
  BY DEF Sse!Rest
<1>2. DOMAIN G = D /\ \A p \in D : G[p] = Grown(p) /\ Sse!SafeLen(G[p]) = Split(p)
  BY GrownThere
<1> HIDE DEF G
<1>3. Sse!Rest(e) = [p \in D |-> Held(p)]
  BY <1>1, <1>2 DEF Held
<1>4. ASSUME NEW p \in D, p \notin Texts(event)
      PROVE  Held(p) = before[p]
  <2>1. before[p] = Grown(p) /\ Grown(p) \in Seq(Char) /\ Len(Grown(p)) \in Nat
    BY <1>4, TextFacts
  <2>2. Len(before[p]) =< Window /\ Window \in Nat
    BY <1>4, InputFacts, StreamEventAssumption DEF AreHeld
  <2>3. Split(p) = 0
    BY <2>1, <2>2 DEF Split
  <2>4. Held(p) = SubSeq(Grown(p), 1, Len(Grown(p)))
    BY <2>3 DEF Held
  <2> QED BY <2>1, <2>4, SubSeqFull
<1>5. Buffers = [p \in D |-> IF p \in Texts(event) THEN Held(p) ELSE before[p]]
  BY DEF Buffers
<1> HIDE DEF D
<1>6. \A p \in D : Held(p) = IF p \in Texts(event) THEN Held(p) ELSE before[p]
  BY <1>4
<1> QED BY <1>3, <1>5, <1>6

(* What is safe of each text, and the rest of the event. *)
LEMMA PassedThere ==
  LET e == Abstract(event)
  IN Sse!Passed(e, failing)
       = [pieces |-> [p \in {x \in Texts(event) : ~Gone(x)} |->
                        [owner |-> Address(event, p), text |-> Restored(Safe(p))]],
          other |-> e.other, finish |-> e.finish, done |-> FALSE]
<1> DEFINE e == Abstract(event)
           T == Texts(event)
           G == Sse!Grown(e)
           safe == [p \in DOMAIN e.pieces |-> Sse!Safe(G[p])]
           kept == {p \in DOMAIN e.pieces \ failing : safe[p] # <<>>}
           f == [p \in kept |-> [owner |-> e.pieces[p].owner, text |-> Sse!Restored(safe[p])]]
           g == [p \in {x \in T : ~Gone(x)} |->
                   [owner |-> Address(event, p), text |-> Restored(Safe(p))]]
<1>1. Sse!Passed(e, failing) = [e EXCEPT !.pieces = f]
  BY DEF Sse!Passed
<1>2. /\ DOMAIN e.pieces = T /\ \A p \in T : e.pieces[p].owner = Address(event, p)
      /\ e = [pieces |-> e.pieces, other |-> e.other, finish |-> e.finish, done |-> FALSE]
  BY AbstractFacts
<1>3. \A p \in T : Sse!Safe(G[p]) = Safe(p)
  BY GrownThere
<1>4. \A s : Sse!Restored(s) = Restored(s)
  BY DEF Sse!Restored, Restored
<1> HIDE DEF e, G, T
<1>5. \A p \in T : safe[p] = Safe(p)
  BY <1>2, <1>3
<1>6. kept = {x \in T : ~Gone(x)}
  <2> HIDE DEF safe
  <2> QED BY <1>2, <1>5 DEF Gone
<1>7. \A p \in kept : p \in T
  BY <1>2
<1>8. f = g
  <2> HIDE DEF safe, kept
  <2> QED BY <1>2, <1>4, <1>5, <1>6, <1>7
<1> HIDE DEF f
<1>9. [e EXCEPT !.pieces = f] = [pieces |-> f, other |-> e.other, finish |-> e.finish, done |-> FALSE]
  BY <1>2, OtherPieces
<1> QED BY <1>1, <1>8, <1>9 DEF e, T

-----------------------------------------------------------------------------
(* The event that is sent on, by the owners of its texts. *)
LEMMA OwnersAgree ==
  ASSUME NEW t, Settled(t)
  PROVE  ByOwner(Abstract(tree)) = ByOwner(Sse!Passed(Abstract(event), failing))
<1> DEFINE e == Abstract(event)
           a == Abstract(tree)
           x == Sse!Passed(e, failing)
           f == [p \in {r \in Texts(event) : ~Gone(r)} |->
                   [owner |-> Address(event, p), text |-> Restored(Safe(p))]]
           S == {[owner |-> Address(event, p), text |-> Restored(Safe(p))] :
                   p \in {r \in Texts(event) : ~Gone(r)}}
<1>1. ByOwner(a) = [pieces |-> {a.pieces[p] : p \in DOMAIN a.pieces},
                    other |-> a.other, finish |-> a.finish, done |-> FALSE]
  <2>1. a = [pieces |-> a.pieces, other |-> a.other, finish |-> a.finish, done |-> FALSE]
    BY AbstractFacts
  <2> HIDE DEF a
  <2> QED BY <2>1, ByOwnerIs
<1>2. {a.pieces[p] : p \in DOMAIN a.pieces} = S
  <2>1. {a.pieces[p] : p \in DOMAIN a.pieces}
          = {[owner |-> Address(tree, p), text |-> ValueAt(tree, p).text] : p \in Texts(tree)}
    BY AbstractFacts
  <2> QED BY <2>1, PiecesAgree
<1>3. a.other = e.other
  BY AbstractFacts, OtherAgrees
<1>4. a.finish = e.finish
  BY AbstractFacts, FinishAgrees
<1>5. x = [pieces |-> f, other |-> e.other, finish |-> e.finish, done |-> FALSE]
  BY PassedThere
<1>6. {f[p] : p \in DOMAIN f} = S
  <2>1. \A p \in DOMAIN f : f[p] = [owner |-> Address(event, p), text |-> Restored(Safe(p))]
    OBVIOUS
  <2>2. DOMAIN f = {r \in Texts(event) : ~Gone(r)}
    OBVIOUS
  <2> HIDE DEF f
  <2> QED BY <2>1, <2>2
<1> HIDE DEF a, e, x, f, S
<1>7. x.pieces = f /\ x.other = e.other /\ x.finish = e.finish
  BY <1>5
<1>8. ByOwner(x) = [pieces |-> S, other |-> e.other, finish |-> e.finish, done |-> FALSE]
  <2>1. x = [pieces |-> x.pieces, other |-> x.other, finish |-> x.finish, done |-> FALSE]
    BY <1>5, <1>7
  <2>2. ByOwner(x) = [pieces |-> {x.pieces[p] : p \in DOMAIN x.pieces},
                      other |-> x.other, finish |-> x.finish, done |-> FALSE]
    BY <2>1, ByOwnerIs
  <2> QED BY <1>6, <1>7, <2>2
<1> QED BY <1>1, <1>2, <1>3, <1>4, <1>8 DEF a, e, x

(* Whether it is. *)
LEMMA ForwardedAgrees ==
  ASSUME NEW t, Settled(t)
  PROVE  Sse!Forwarded(Abstract(event), failing)
           = IF ShouldForward(tree, Texts(event) # {}) THEN <<Sse!Passed(Abstract(event), failing)>>
             ELSE <<>>
<1> DEFINE e == Abstract(event)
           x == Sse!Passed(e, failing)
           C == {p \in Paths : IsPrefix(FirstDelta, p)}
<1>1. Sse!Forwarded(e, failing)
        = IF DOMAIN e.pieces = {} \/ e.finish \/ e.other \/ DOMAIN x.pieces \cap C # {}
            THEN <<x>> ELSE <<>>
  BY DEF Sse!Forwarded
<1>2. /\ DOMAIN e.pieces = Texts(event)
      /\ e.finish = IF HasFinishReason(event) THEN TRUE ELSE FALSE
      /\ e.other = IF \E p \in Plain(event) : IsPrefix(FirstDelta, p) THEN TRUE ELSE FALSE
  BY AbstractFacts
<1>3. DOMAIN x.pieces = {p \in Texts(event) : ~Gone(p)}
  BY PassedThere
<1>4. Texts(event) \subseteq Paths
  BY SettledFacts DEF InputInv, Paths
<1> HIDE DEF e, x
<1>5. DOMAIN x.pieces \cap C # {} <=> \E p \in Texts(event) : ~Gone(p) /\ IsPrefix(FirstDelta, p)
  BY <1>3, <1>4
<1> HIDE DEF C
<1>6. HasFinishReason(tree) <=> HasFinishReason(event)
  BY FinishAgrees
<1>7. DeltaHasFields(tree) <=> e.other \/ DOMAIN x.pieces \cap C # {}
  BY <1>2, <1>5, DeltaAgrees
<1>8. DOMAIN e.pieces = {} \/ e.finish \/ e.other \/ DOMAIN x.pieces \cap C # {}
        <=> ShouldForward(tree, Texts(event) # {})
  BY <1>2, <1>6, <1>7 DEF ShouldForward
<1> QED BY <1>1, <1>8 DEF e, x

-----------------------------------------------------------------------------
(* What is not a container, in the part that is hollow, is what is at the way's end. *)
LEMMA HollowScalar ==
  ASSUME NEW e, NEW y, BareWay(e, y), NEW n, n \in 0 .. Len(y), Hollow(e, y, n),
         WellFormed(ValueAt(e, y)), Segments(ValueAt(e, y)) = {},
         NEW x, Valid(e, x), ValueAt(e, x).kind \in Scalars, Along(SubSeq(y, 1, n), x)
  PROVE  x = y
<1>1. /\ Valid(e, y) /\ y \in Seq(Segment) /\ Len(y) \in Nat
      /\ x \in Seq(Segment) /\ Len(x) \in Nat /\ n \in Nat
  BY LenProperties DEF BareWay, Valid
<1>2. n =< Len(x) /\ \A k \in 1 .. n : x[k] = y[k]
  <2>1. Len(SubSeq(y, 1, n)) = n /\ \A k \in 1 .. n : SubSeq(y, 1, n)[k] = y[k]
    BY <1>1, Beginnings
  <2> QED BY <2>1 DEF Along
<1>3. CASE Along(x, y)
  <2> SUFFICES ASSUME x # y PROVE FALSE
    OBVIOUS
  <2>1. Len(x) < Len(y)
    BY <1>1, <1>3, SamePath DEF Along
  <2>2. Walk(e, x)[Len(x)] = Walk(e, y)[Len(x)]
    BY <1>1, <1>3, <2>1, WalkTogether DEF Along
  <2>3. Len(x) \in 0 .. Len(y) - 1
    BY <1>1, <2>1
  <2>4. Leads(ValueAt(e, x), y[Len(x) + 1])
    BY <2>2, <2>3 DEF BareWay, ValueAt
  <2>5. Segments(ValueAt(e, x)) # {}
    BY <2>4 DEF Leads
  <2> QED BY <2>5 DEF Segments, Scalars
<1>4. CASE Along(y, x)
  BY <1>1, <1>4, NothingBelow
<1>5. CASE \E d : PartAt(x, y, d)
  <2>1. PICK d : PartAt(x, y, d)
    BY <1>5
  <2>2. /\ d \in 1 .. Len(x) /\ d \in 1 .. Len(y) /\ x[d] # y[d]
        /\ \A k \in 1 .. d - 1 : x[k] = y[k]
    BY <2>1 DEF PartAt
  <2>3. d > n
    <3> SUFFICES ASSUME d =< n PROVE FALSE
      BY <1>1, <2>2
    <3>1. d \in 1 .. n
      BY <1>1, <2>2
    <3> QED BY <1>2, <2>2, <3>1
  <2>4. d - 1 \in Nat /\ d - 1 =< Len(x) /\ d - 1 =< Len(y) /\ (d - 1) + 1 = d
        /\ d - 1 \in 0 .. d - 1 /\ d - 1 \in 0 .. Len(x) - 1 /\ d - 1 \in n .. Len(y) - 1
        /\ d \in 0 .. Len(x)
    BY <1>1, <2>2, <2>3
  <2>5. Walk(e, x)[d - 1] = Walk(e, y)[d - 1]
    <3> DEFINE m == d - 1
    <3>1. m \in Nat /\ m =< Len(x) /\ m =< Len(y) /\ \A k \in 1 .. m : x[k] = y[k]
      BY <2>2, <2>4
    <3> HIDE DEF m
    <3>2. \A k \in 0 .. m : Walk(e, x)[k] = Walk(e, y)[k]
      BY <1>1, <3>1, WalkTogether
    <3> QED BY <2>4, <3>2 DEF m
  <2>6. Leads(Walk(e, x)[d - 1], x[d])
    BY <2>4 DEF Valid
  <2>7. x[d] \in Segments(Walk(e, y)[d - 1]) \ {y[d]}
    BY <2>2, <2>5, <2>6 DEF Leads
  <2>8. Child(Walk(e, y)[d - 1], x[d]) = Object(<<>>)
    BY <2>4, <2>7 DEF Hollow
  <2>9. Walk(e, x)[d] = Object(<<>>)
    BY <1>1, <2>2, <2>5, <2>8, WalkFacts
  <2> DEFINE r == SubSeq(x, 1, d)
  <2>10. ValueAt(e, r) = Object(<<>>) /\ r \in Seq(Segment) /\ Along(r, x)
    BY <1>1, <2>4, <2>9, WalkIsValueAt, Beginnings
  <2> HIDE DEF r
  <2>11. x = r
    <3>1. Segments(ValueAt(e, r)) = {}
      BY <2>10, EmptyObject
    <3> QED BY <1>1, <2>10, <3>1, NothingBelow
  <2>12. ValueAt(e, x).kind = "object"
    BY <2>10, <2>11 DEF Object
  <2> QED BY <2>12 DEF Scalars
<1> QED BY <1>1, <1>3, <1>4, <1>5, PathCases

(* A text that is made is one of those that are held back at the end. *)
LEMMA MadeBuffered ==
  ASSUME NEW p \in Seq(Segment), Buffered(p), \E k \in DOMAIN p : p[k] = Key("delta")
  PROVE  Buffered(FirstDelta \o BelowDelta(p))
<1> DEFINE b == BelowDelta(p)
           y == FirstDelta \o b
<1>1. b \in Seq(Segment) /\ FirstDelta \in Seq(Segment) /\ Len(FirstDelta) = 3
      /\ FirstDelta[3] = Key("delta")
  BY BelowDeltaFacts, FirstDeltaFacts
<1>2. b = <<>> \/ Last(b) = Last(p)
  <2> DEFINE m == SelectInSeq(p, LAMBDA s : s = Key("delta"))
  <2>1. b = SubSeq(p, m + 1, Len(p))
    BY DEF BelowDelta
  <2>2. m \in 1 .. Len(p)
    <3> DEFINE I == {i \in 1 .. Len(p) : p[i] = Key("delta")}
    <3>1. I # {} /\ I \in SUBSET Nat
      BY LenProperties
    <3>2. m = Min(I)
      BY <3>1 DEF SelectInSeq
    <3>3. Min(I) \in I
      <4> HIDE DEF I
      <4> QED BY <3>1, MinOf
    <3> HIDE DEF m
    <3> QED BY <3>2, <3>3
  <2> HIDE DEF m
  <2>3. Len(p) \in Nat /\ m \in 0 .. Len(p) /\ Len(p) \in m .. Len(p)
    BY <2>2, LenProperties
  <2>4. Len(b) = Len(p) - m /\ \A k \in 1 .. Len(p) - m : b[k] = p[m + k]
    BY <2>1, <2>3, Slice
  <2>5. CASE m = Len(p)
    <3>1. Len(b) = 0
      BY <2>3, <2>4, <2>5
    <3> QED BY <1>1, <3>1, EmptySeq
  <2>6. CASE m < Len(p)
    <3>1. Len(p) - m \in 1 .. Len(p) - m /\ m + (Len(p) - m) = Len(p)
      BY <2>3, <2>6
    <3>2. b[Len(b)] = p[Len(p)]
      BY <2>4, <3>1
    <3> QED BY <3>2 DEF Last
  <2> QED BY <2>3, <2>5, <2>6
<1> HIDE DEF b
<1>3. /\ y \in Seq(Segment) /\ Len(b) \in Nat /\ Len(y) = 3 + Len(b) /\ DOMAIN y = 1 .. Len(y)
      /\ \A k \in 1 .. 3 : y[k] = FirstDelta[k]
      /\ \A j \in 1 .. Len(b) : y[3 + j] = b[j]
  <2>1. /\ y \in Seq(Segment) /\ Len(b) \in Nat /\ Len(y) = Len(FirstDelta) + Len(b)
        /\ \A k \in 1 .. Len(FirstDelta) : y[k] = FirstDelta[k]
        /\ \A j \in 1 .. Len(b) : y[Len(FirstDelta) + j] = b[j]
    <3>1. b \in Seq(Segment) /\ FirstDelta \in Seq(Segment)
      BY <1>1
    <3> QED BY <3>1, PathConcat
  <2>2. DOMAIN y = 1 .. Len(y)
    BY <2>1, LenProperties
  <2> QED BY <1>1, <2>1, <2>2
<1> HIDE DEF y
<1>4. 3 \in DOMAIN y /\ y[3] = Key("delta")
  <2>1. 3 \in 1 .. 3 /\ 3 \in 1 .. Len(y)
    BY <1>3
  <2> QED BY <1>1, <1>3, <2>1
<1>5. IsKey(Key("delta")) /\ Key("delta").key = "delta" /\ "delta" \in TextKey /\ "delta" \notin ProtocolKey
  BY DEF IsKey, Key, TextKey, ProtocolKey
<1>6. ~(IsKey(Last(y)) /\ Last(y).key \in ProtocolKey)
  <2>1. CASE b = <<>>
    <3>1. Len(y) = 3
      BY <1>3, <2>1
    <3> QED BY <1>4, <1>5, <3>1 DEF Last
  <2>2. CASE b # <<>>
    <3>1. Len(b) \in 1 .. Len(b)
      <4>1. Len(b) # 0
        BY <1>1, <2>2, EmptySeq
      <4> QED BY <1>3, <4>1
    <3>2. Last(y) = Last(p)
      BY <1>2, <1>3, <2>2, <3>1 DEF Last
    <3> QED BY <3>2 DEF Buffered
  <2> QED BY <2>1, <2>2
<1>7. Buffered(y)
  <2> HIDE DEF b
  <2> QED BY <1>4, <1>5, <1>6 DEF Buffered
<1> QED BY <1>7 DEF y, b

-----------------------------------------------------------------------------
(* An event that is made has one text at most, and no more in its delta. *)
LEMMA MadeHas ==
  ASSUME NEW e, NEW y, BareWay(e, y), Hollow(e, y, 3), Len(y) >= 3, SubSeq(y, 1, 3) = FirstDelta,
         Child(Walk(e, y)[2], Key("finish_reason")) = Null,
         WellFormed(ValueAt(e, y)), Segments(ValueAt(e, y)) = {}
  PROVE  /\ Texts(e) \subseteq {y} /\ ~HasFinishReason(e)
         /\ \A q \in Plain(e) : IsPrefix(FirstDelta, q) => q = y
<1>1. \A x : Valid(e, x) => WellFormed(ValueAt(e, x)) /\ (x # y => ValueAt(e, x).kind # "string")
  BY BareValues
<1>2. \A q \in ScalarPaths(e) : Valid(e, q) /\ ValueAt(e, q).kind \in Scalars /\ q \in Seq(Segment)
  <2> SUFFICES ASSUME NEW q \in ScalarPaths(e)
               PROVE  Valid(e, q) /\ ValueAt(e, q).kind \in Scalars /\ q \in Seq(Segment)
    OBVIOUS
  <2>1. q \in PathsIn(e) /\ ValueAt(e, q).kind \in Scalars
    BY DEF ScalarPaths
  <2>2. Valid(e, q)
    BY <1>1, <2>1, PathsAreValid
  <2> QED BY <2>1, <2>2 DEF Valid
<1>3. Texts(e) \subseteq {y}
  BY <1>1, <1>2 DEF Texts, StringPaths
<1>4. y \in Seq(Segment) /\ 3 \in 0 .. Len(y) /\ 2 \in 0 .. Len(y)
  BY LenProperties DEF BareWay
<1>5. ASSUME NEW q \in Plain(e), IsPrefix(FirstDelta, q)
      PROVE  q = y
  <2>1. Valid(e, q) /\ ValueAt(e, q).kind \in Scalars /\ q \in Seq(Segment)
    BY <1>2 DEF Plain
  <2>2. Along(SubSeq(y, 1, 3), q)
    BY <1>5, <2>1, DeltaKey
  <2> QED BY <1>4, <2>1, <2>2, HollowScalar
<1>6. ~HasFinishReason(e)
  <2> DEFINE r == SubSeq(y, 1, 2)
  <2>1. /\ r \in Seq(Segment) /\ Len(r) = 2 /\ \A k \in 1 .. 2 : r[k] = y[k]
        /\ Walk(e, y)[2] = ValueAt(e, r)
    BY <1>4, Beginnings, WalkIsValueAt
  <2>2. \A k \in 1 .. 2 : y[k] = FirstDelta[k]
    <3>1. \A k \in 1 .. 3 : SubSeq(y, 1, 3)[k] = y[k]
      BY <1>4, Beginnings
    <3> QED BY <3>1
  <2> HIDE DEF r
  <2>3. r[1] = Key("choices") /\ r[2] = Index(0)
    <3>1. 1 \in 1 .. 2 /\ 2 \in 1 .. 2
      OBVIOUS
    <3>2. r[1] = FirstDelta[1] /\ r[2] = FirstDelta[2]
      BY <2>1, <2>2, <3>1
    <3> QED BY <3>2, FirstDeltaFacts
  <2>4. r = FirstOfChoices
    <3>1. \A k \in 1 .. 2 : k = 1 \/ k = 2
      OBVIOUS
    <3>2. \A k \in 1 .. 2 : r[k] = FirstOfChoices[k]
      BY <2>3, <3>1, FirstFacts
    <3> QED BY <2>1, <3>2, FirstFacts, SeqEqual
  <2>5. ValueAt(e, Append(FirstOfChoices, Key("finish_reason"))) = Null
    <3>1. Walk(e, y)[2] = ValueAt(e, FirstOfChoices)
      BY <2>1, <2>4
    <3>2. ValueAt(e, Append(FirstOfChoices, Key("finish_reason")))
            = Child(ValueAt(e, FirstOfChoices), Key("finish_reason"))
      BY FirstFacts, ValidAppend
    <3> QED BY <3>1, <3>2
  <2> QED BY <2>5 DEF HasFinishReason, Null
<1> QED BY <1>3, <1>5, <1>6

(* What SseStream has of one without a text, and with one. *)
LEMMA NoPieces ==
  ASSUME NEW e, Texts(e) = {}, ~HasFinishReason(e), ~\E q \in Plain(e) : IsPrefix(FirstDelta, q)
  PROVE  ByOwner(Abstract(e)) = [pieces |-> {}, other |-> FALSE, finish |-> FALSE, done |-> FALSE]
<1> DEFINE a == Abstract(e)
<1>1. /\ DOMAIN a.pieces = {} /\ a.other = FALSE /\ a.finish = FALSE
      /\ a = [pieces |-> a.pieces, other |-> a.other, finish |-> a.finish, done |-> FALSE]
  BY AbstractFacts
<1> HIDE DEF a
<1>2. ByOwner(a) = [pieces |-> {a.pieces[p] : p \in DOMAIN a.pieces},
                    other |-> a.other, finish |-> a.finish, done |-> FALSE]
  BY <1>1, ByOwnerIs
<1>3. {a.pieces[p] : p \in DOMAIN a.pieces} = {}
  BY <1>1
<1> QED BY <1>1, <1>2, <1>3 DEF a

LEMMA OnePiece ==
  ASSUME NEW e, NEW y, Texts(e) = {y}, ~HasFinishReason(e),
         ~\E q \in Plain(e) : IsPrefix(FirstDelta, q)
  PROVE  ByOwner(Abstract(e))
           = [pieces |-> {[owner |-> Address(e, y), text |-> ValueAt(e, y).text]},
              other |-> FALSE, finish |-> FALSE, done |-> FALSE]
<1> DEFINE a == Abstract(e)
           o(p) == [owner |-> Address(e, p), text |-> ValueAt(e, p).text]
<1>1. /\ DOMAIN a.pieces = {y} /\ a.other = FALSE /\ a.finish = FALSE
      /\ {a.pieces[p] : p \in {y}} = {o(p) : p \in {y}}
      /\ a = [pieces |-> a.pieces, other |-> a.other, finish |-> a.finish, done |-> FALSE]
  <2>1. /\ {Abstract(e).pieces[p] : p \in Texts(e)}
             = {[owner |-> Address(e, p), text |-> ValueAt(e, p).text] : p \in Texts(e)}
        /\ DOMAIN Abstract(e).pieces = Texts(e)
    BY AbstractFacts
  <2>2. {Abstract(e).pieces[p] : p \in {y}}
          = {[owner |-> Address(e, p), text |-> ValueAt(e, p).text] : p \in {y}}
    BY <2>1
  <2>3. a.other = FALSE /\ a.finish = FALSE
        /\ a = [pieces |-> a.pieces, other |-> a.other, finish |-> a.finish, done |-> FALSE]
    BY AbstractFacts
  <2> QED BY <2>1, <2>2, <2>3
<1> HIDE DEF a, o
<1>2. ByOwner(a) = [pieces |-> {a.pieces[p] : p \in DOMAIN a.pieces},
                    other |-> a.other, finish |-> a.finish, done |-> FALSE]
  BY <1>1, ByOwnerIs
<1>3. {a.pieces[p] : p \in DOMAIN a.pieces} = {o(y)}
  BY <1>1
<1> QED BY <1>1, <1>2, <1>3 DEF a, o

(* And of what SseStream makes. *)
LEMMA FlushThere ==
  ASSUME NEW p, NEW s
  PROVE  LET x == Sse!FlushEvent(p, s)
         IN  ByOwner(x) = [pieces |-> IF p \in DeltaPaths
                                        THEN {[owner |-> FirstDelta \o BelowDelta(p),
                                               text |-> Restored(s)]}
                                        ELSE {},
                           other |-> FALSE, finish |-> FALSE, done |-> FALSE]
<1> DEFINE x == Sse!FlushEvent(p, s)
           owners == [q \in DeltaPaths |-> FirstDelta \o BelowDelta(q)]
           f == [q \in {p} \cap DeltaPaths |-> [owner |-> owners[q], text |-> Sse!Restored(s)]]
           o == [owner |-> FirstDelta \o BelowDelta(p), text |-> Restored(s)]
<1>1. x = [pieces |-> f, other |-> FALSE, finish |-> FALSE, done |-> FALSE]
  BY DEF Sse!FlushEvent
<1>2. DOMAIN f = {p} \cap DeltaPaths
  OBVIOUS
<1>3. Sse!Restored(s) = Restored(s)
  BY DEF Sse!Restored, Restored
<1>4. p \in DeltaPaths => f[p] = o
  BY <1>3
<1> HIDE DEF x, f, o
<1>5. x.pieces = f /\ x.other = FALSE /\ x.finish = FALSE
  BY <1>1
<1>6. x = [pieces |-> x.pieces, other |-> x.other, finish |-> x.finish, done |-> FALSE]
  BY <1>1, <1>5
<1>7. ByOwner(x) = [pieces |-> {x.pieces[q] : q \in DOMAIN x.pieces},
                    other |-> x.other, finish |-> x.finish, done |-> FALSE]
  BY <1>6, ByOwnerIs
<1>8. {x.pieces[q] : q \in DOMAIN x.pieces} = IF p \in DeltaPaths THEN {o} ELSE {}
  BY <1>2, <1>4, <1>5
<1> QED BY <1>5, <1>7, <1>8 DEF x, o

LEMMA FlushAgrees ==
  ASSUME InputInv, FlushesFit, NEW p \in DOMAIN before \cup Texts(event), NEW s
  PROVE  ByOwner(Abstract(DeltaEvent(p, Restored(s)))) = ByOwner(Sse!FlushEvent(p, s))
<1> DEFINE e == DeltaEvent(p, Restored(s))
           y == FirstDelta \o BelowDelta(p)
           has == \E k \in DOMAIN p : p[k] = Key("delta")
<1>1. p \in Seq(Segment) /\ Buffered(p)
  BY TextFacts
<1>2. p \in DeltaPaths <=> has
  <2>1. p \in Paths
    BY DEF InputInv, Paths
  <2> QED BY <2>1 DEF DeltaPaths
<1>3. CASE has
  <2>1. /\ BareWay(e, y) /\ Hollow(e, y, 3) /\ Child(Walk(e, y)[2], Key("finish_reason")) = Null
        /\ ValueAt(e, y) = String(Restored(s))
    BY <1>1, <1>3, DeltaEventFacts
  <2>2. WellFormed(String(Restored(s))) /\ Segments(String(Restored(s))) = {}
        /\ String(Restored(s)).kind = "string" /\ String(Restored(s)).text = Restored(s)
    BY DEF String, WellFormed, Scalars, Segments
  <2>3. y \in Seq(Segment) /\ Len(y) \in Nat /\ Len(y) >= 3 /\ SubSeq(y, 1, 3) = FirstDelta
    <3>1. BelowDelta(p) \in Seq(Segment)
      BY <1>1, <1>3, BelowDeltaFacts
    <3>2. /\ y \in Seq(Segment) /\ Len(BelowDelta(p)) \in Nat
          /\ Len(y) = Len(FirstDelta) + Len(BelowDelta(p))
          /\ \A k \in 1 .. Len(FirstDelta) : y[k] = FirstDelta[k]
      BY <3>1, FirstDeltaFacts, PathConcat
    <3>3. Len(y) \in Nat /\ Len(y) >= 3 /\ 3 \in 0 .. Len(y) /\ \A k \in 1 .. 3 : y[k] = FirstDelta[k]
      BY <3>2, FirstDeltaFacts
    <3> HIDE DEF y
    <3>4. SubSeq(y, 1, 3) \in Seq(Segment) /\ Len(SubSeq(y, 1, 3)) = 3
          /\ \A k \in 1 .. 3 : SubSeq(y, 1, 3)[k] = FirstDelta[k]
      BY <3>2, <3>3, Beginnings
    <3>5. SubSeq(y, 1, 3) = FirstDelta
      BY <3>4, FirstDeltaFacts, SeqEqual
    <3> QED BY <3>2, <3>3, <3>5
  <2>4. Buffered(y)
    BY <1>1, <1>3, MadeBuffered
  <2>5. Len(y) =< MaxDepth
    BY <1>2, <1>3 DEF FlushesFit
  <2> HIDE DEF e, y
  <2>6. /\ Valid(e, y)
        /\ \A x : Valid(e, x) => WellFormed(ValueAt(e, x)) /\ Len(x) =< Len(y)
    BY <2>1, <2>2, BareValues
  <2>7. Json(e)
    <3> SUFFICES ASSUME NEW x \in Seq(Segment), Valid(e, x)
                 PROVE  WellFormed(ValueAt(e, x)) /\ Len(x) =< MaxDepth
      BY DEF Json
    <3>1. Len(x) =< Len(y) /\ Len(x) \in Nat
      BY <2>6, LenProperties
    <3> QED BY <2>3, <2>5, <2>6, <3>1, JsonTreeAssumption
  <2>8. y \in Texts(e)
    BY <2>1, <2>2, <2>4, <2>6, <2>7, StringFacts DEF Texts
  <2>9. /\ Texts(e) \subseteq {y} /\ ~HasFinishReason(e)
        /\ \A q \in Plain(e) : IsPrefix(FirstDelta, q) => q = y
    BY <2>1, <2>2, <2>3, MadeHas
  <2>10. Texts(e) = {y} /\ ~\E q \in Plain(e) : IsPrefix(FirstDelta, q)
    BY <2>8, <2>9 DEF Plain
  <2>11. Address(e, y) = y
    BY <2>1, <2>2, BareAddress
  <2>12. ByOwner(Abstract(e)) = [pieces |-> {[owner |-> y, text |-> Restored(s)]},
                                 other |-> FALSE, finish |-> FALSE, done |-> FALSE]
    BY <2>1, <2>2, <2>9, <2>10, <2>11, OnePiece
  <2> QED BY <1>2, <1>3, <2>12, FlushThere DEF e, y
<1>4. CASE ~has
  <2>1. e = EmptyDelta
    BY <1>4 DEF DeltaEvent
  <2> HIDE DEF e
  <2>2. /\ BareWay(e, FirstDelta) /\ ValueAt(e, FirstDelta) = Object(<<>>)
        /\ Child(Walk(e, FirstDelta)[2], Key("finish_reason")) = Null
    BY <2>1, EmptyDeltaFacts
  <2>3. FirstDelta \in Seq(Segment) /\ Len(FirstDelta) = 3 /\ SubSeq(FirstDelta, 1, 3) = FirstDelta
    BY FirstDeltaFacts, SubSeqFull
  <2>4. Hollow(e, FirstDelta, 3)
    BY <2>3 DEF Hollow
  <2>5. /\ Texts(e) \subseteq {FirstDelta} /\ ~HasFinishReason(e)
        /\ \A q \in Plain(e) : IsPrefix(FirstDelta, q) => q = FirstDelta
    BY <2>2, <2>3, <2>4, EmptyObject, MadeHas
  <2>6. FirstDelta \notin ScalarPaths(e)
    <3>1. ValueAt(e, FirstDelta).kind = "object"
      BY <2>2 DEF Object
    <3> QED BY <3>1 DEF ScalarPaths, Scalars
  <2>7. Texts(e) = {} /\ ~\E q \in Plain(e) : IsPrefix(FirstDelta, q)
    BY <2>5, <2>6 DEF Texts, StringPaths, Plain
  <2>8. ByOwner(Abstract(e)) = [pieces |-> {}, other |-> FALSE, finish |-> FALSE, done |-> FALSE]
    BY <2>5, <2>7, NoPieces
  <2> QED BY <1>2, <1>4, <2>8, FlushThere DEF e
<1> QED BY <1>3, <1>4

(***************************************************************************)
(* SseStream is right about events of JSON: of texts with a name, where    *)
(* the first choice stays the first and what is made for a tail is not too *)
(* deep, what is sent on, what is held and what is flushed are what its    *)
(* Forwarded, Rest and FlushEvent say, whatever is pruned.                 *)
(***************************************************************************)
THEOREM SseStreamAgrees ==
  ASSUME \A i \in Inputs : Regular(i[1]) /\ FirstStays(i[1]), FlushesFit
  PROVE  Spec => []AgreesWithSseStream
<1>1. ASSUME EventInv
      PROVE  AgreesWithSseStream
  <2> DEFINE e == Abstract(event)
             rest == Sse!Rest(e)
             forwarded == Sse!Forwarded(e, failing)
  <2> SUFFICES ASSUME \A p \in Texts(event) : IsKey(Last(p))
               PROVE  /\ pc = "deciding" => streams = rest
                      /\ pc = "ended" =>
                           /\ [k \in DOMAIN passed |-> ByOwner(Abstract(passed[k]))]
                                = [k \in DOMAIN forwarded |-> ByOwner(forwarded[k])]
                           /\ {<<f.path, ByOwner(Abstract(f.event))>> : f \in flushed}
                                = {<<p, ByOwner(Sse!FlushEvent(p, rest[p]))>> :
                                     p \in {q \in DOMAIN rest \ lost : rest[q] # <<>>}}
    BY DEF AgreesWithSseStream
  <2>1. InputInv /\ Json(event) /\ Regular(event) /\ FirstStays(event)
    BY <1>1, InputFacts DEF EventInv, InputInv
  <2>2. pc # "strings" => todo = {} /\ rest = Buffers
    BY <2>1, RestAgrees DEF InputInv
  <2>3. pc = "deciding" => streams = rest
    <3> SUFFICES ASSUME pc = "deciding"
                 PROVE  streams = Buffers
      BY <2>2
    <3>1. DOMAIN streams = DOMAIN Buffers /\ streams = [p \in DOMAIN streams |-> Buffers[p]]
      BY <1>1 DEF EventInv, FlushInv
    <3>2. Buffers = [p \in DOMAIN Buffers |-> Buffers[p]]
      BY DEF Buffers
    <3> QED BY <3>1, <3>2
  <2>4. ASSUME pc = "ended"
        PROVE  [k \in DOMAIN passed |-> ByOwner(Abstract(passed[k]))]
                 = [k \in DOMAIN forwarded |-> ByOwner(forwarded[k])]
    <3> DEFINE forwards == ShouldForward(tree, Texts(event) # {})
               x == Sse!Passed(e, failing)
    <3>1. PICK t : Settled(t)
      BY <1>1, <2>1, <2>4, EndFacts DEF Settled
    <3>2. passed = IF forwards THEN <<tree>> ELSE <<>>
      BY <1>1, <2>4, EndFacts
    <3>3. forwarded = IF forwards THEN <<x>> ELSE <<>>
      BY <3>1, ForwardedAgrees
    <3>4. ByOwner(Abstract(tree)) = ByOwner(x)
      BY <3>1, OwnersAgree
    <3> HIDE DEF forwards, x, forwarded
    <3>5. CASE forwards
      <4>1. passed = <<tree>> /\ DOMAIN passed = {1} /\ passed[1] = tree
        BY <3>2, <3>5
      <4>2. forwarded = <<x>> /\ DOMAIN forwarded = {1} /\ forwarded[1] = x
        BY <3>3, <3>5
      <4>3. \A k \in {1} : ByOwner(Abstract(passed[k])) = ByOwner(forwarded[k])
        BY <3>4, <4>1, <4>2
      <4> QED BY <4>1, <4>2, <4>3
    <3>6. CASE ~forwards
      <4>1. passed = <<>> /\ forwarded = <<>> /\ DOMAIN <<>> = {}
        BY <3>2, <3>3, <3>6
      <4> QED BY <4>1
    <3> QED BY <3>5, <3>6
  <2>5. ASSUME pc = "ended"
        PROVE  {<<f.path, ByOwner(Abstract(f.event))>> : f \in flushed}
                 = {<<p, ByOwner(Sse!FlushEvent(p, rest[p]))>> :
                      p \in {q \in DOMAIN rest \ lost : rest[q] # <<>>}}
    <3> DEFINE P == {q \in DOMAIN Buffers \ lost : Buffers[q] # <<>>}
               made(f) == <<f.path, ByOwner(Abstract(f.event))>>
               said(p) == <<p, ByOwner(Sse!FlushEvent(p, Buffers[p]))>>
    <3>1. rest = Buffers
      BY <2>2, <2>5
    <3>2. flushed = {FlushOf(p) : p \in P}
      BY <1>1, <2>5 DEF EventInv, FlushInv
    <3>3. DOMAIN Buffers \subseteq DOMAIN before \cup Texts(event)
      BY DEF Buffers
    <3>4. ASSUME NEW p \in P
          PROVE  made(FlushOf(p)) = said(p)
      <4>1. ByOwner(Abstract(DeltaEvent(p, Restored(Buffers[p]))))
              = ByOwner(Sse!FlushEvent(p, Buffers[p]))
        BY <2>1, <3>3, FlushAgrees
      <4> QED BY <4>1 DEF FlushOf
    <3> HIDE DEF made, said, P
    <3>5. {made(f) : f \in flushed} = {said(p) : p \in P}
      BY <3>2, <3>4
    <3> QED BY <3>1, <3>5 DEF made, said, P
  <2> QED BY <2>3, <2>4, <2>5
<1> QED BY <1>1, EventInvariant, PTL
=============================================================================
