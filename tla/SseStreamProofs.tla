--------------------------- MODULE SseStreamProofs ---------------------------
(***************************************************************************)
(* Proofs about SseStream, for all paths, texts, scripts, windows and      *)
(* capacities.                                                             *)
(*                                                                         *)
(* All of them look at what has been sent, wherever it is on its way       *)
(* (Sent): only the task's reader adds to it, and only at its end, since   *)
(* the outbox is then empty; sending and receiving move events along it.   *)
(* SignalsSent, EndingSent and Conserved say of Sent what the properties   *)
(* say of what the client has received; a client that has left receives no *)
(* more, so what it has is stated beside them.  Conserved has the buffers  *)
(* with it: without what they hold back it would not be inductive.         *)
(***************************************************************************)
EXTENDS SseStream, SequenceLemmas, FiniteSetTheorems

(* The events as a set: the provers take sets, TLC the predicate IsEvent. *)

Pieces == UNION {[P -> Piece] : P \in {Q \in SUBSET Path : IsFiniteSet(Q)}}

Event ==
  [pieces : Pieces, other : BOOLEAN, finish : BOOLEAN, done : {FALSE}] \cup {Sentinel}

LEMMA EventIsEvent == \A e : IsEvent(e) <=> e \in Event
<1> SUFFICES ASSUME NEW e
             PROVE  IsEvent(e) <=> e \in Event
  OBVIOUS
<1>1. (\E P \in SUBSET Path : IsFiniteSet(P) /\ e.pieces \in [P -> Piece]) <=> e.pieces \in Pieces
  BY DEF Pieces
<1>2. e \in [pieces : {e.pieces}, other : BOOLEAN, finish : BOOLEAN, done : {FALSE}] /\ e.pieces \in Pieces
        <=> e \in [pieces : Pieces, other : BOOLEAN, finish : BOOLEAN, done : {FALSE}]
  OBVIOUS
<1> QED BY <1>1, <1>2 DEF IsEvent, Event

LEMMA EventsTyped == \A s : AreEvents(s) <=> s \in Seq(Event)
<1> SUFFICES ASSUME NEW s
             PROVE  AreEvents(s) <=> s \in Seq(Event)
  OBVIOUS
<1>1. ASSUME AreEvents(s)
      PROVE  s \in Seq(Event)
  <2>1. s \in Seq(ToSet(s)) /\ ToSet(s) \subseteq Event
    BY <1>1, EventIsEvent DEF AreEvents
  <2> QED BY <2>1
<1>2. ASSUME s \in Seq(Event)
      PROVE  AreEvents(s)
  <2>1. ToSet(s) \subseteq Event
    BY <1>2 DEF ToSet
  <2>2. s \in Seq(ToSet(s))
    BY <1>2 DEF ToSet
  <2> QED BY <2>1, <2>2, EventIsEvent DEF AreEvents
<1> QED BY <1>1, <1>2

(* A function without arguments. *)
LEMMA NoneType ==
  /\ DOMAIN None = {}
  /\ \A S : None \in [{} -> S]
<1>1. ASSUME NEW S
      PROVE  None \in [{} -> S]
  <2>1. None \in Seq(S) /\ Len(None) = 0
    BY DEF None
  <2>2. None \in [1 .. 0 -> S]
    BY <2>1, LenProperties
  <2>3. 1 .. 0 = {}
    OBVIOUS
  <2> QED BY <2>2, <2>3
<1>2. DOMAIN None = {}
  BY <1>1
<1> QED BY <1>1, <1>2

LEMMA EventFields ==
  ASSUME NEW e \in Event
  PROVE  /\ DOMAIN e.pieces \in SUBSET Path
         /\ IsFiniteSet(DOMAIN e.pieces)
         /\ e.pieces \in [DOMAIN e.pieces -> Piece]
         /\ \A p \in DOMAIN e.pieces : e.pieces[p].owner \in Owner /\ e.pieces[p].text \in Seq(Char)
         /\ e.other \in BOOLEAN /\ e.finish \in BOOLEAN /\ e.done \in BOOLEAN
         /\ e.done => DOMAIN e.pieces = {} /\ ~e.other /\ ~e.finish
<1>1. CASE e = Sentinel
  <2>1. e.pieces = None /\ e.done /\ ~e.other /\ ~e.finish /\ e.other \in BOOLEAN
        /\ e.finish \in BOOLEAN /\ e.done \in BOOLEAN
    BY <1>1 DEF Sentinel, None
  <2>2. IsFiniteSet({})
    BY FS_EmptySet
  <2>3. DOMAIN e.pieces = {} /\ e.pieces \in [{} -> Piece]
    BY <2>1, NoneType
  <2> QED BY <2>1, <2>2, <2>3
<1>2. CASE e # Sentinel
  <2>1. e.pieces \in Pieces /\ e.other \in BOOLEAN /\ e.finish \in BOOLEAN /\ e.done = FALSE
    BY <1>2 DEF Event
  <2>2. PICK P \in SUBSET Path : IsFiniteSet(P) /\ e.pieces \in [P -> Piece]
    BY <2>1 DEF Pieces
  <2>3. DOMAIN e.pieces = P
    BY <2>2
  <2> QED BY <2>1, <2>2, <2>3 DEF Piece
<1> QED BY <1>1, <1>2

(* An event made of a finite set of pieces. *)
LEMMA EventOfPieces ==
  ASSUME NEW P \in SUBSET Path, IsFiniteSet(P), NEW f \in [P -> Piece],
         NEW other \in BOOLEAN, NEW finish \in BOOLEAN
  PROVE  [pieces |-> f, other |-> other, finish |-> finish, done |-> FALSE] \in Event
<1>1. f \in Pieces
  BY DEF Pieces
<1> QED BY <1>1 DEF Event

(* An event whose texts are for whom a flush of their paths is. *)
InPlace(e) == \A p \in DOMAIN e.pieces : e.pieces[p].owner = FlushOwner[p]

Fit == {e \in Event : InPlace(e)}

-----------------------------------------------------------------------------
LEMMA RestoredFacts ==
  ASSUME NEW s \in Seq(Char), NEW t \in Seq(Char)
  PROVE  /\ Restored(s) \in Seq(Char)
         /\ Restored(s \o t) = Restored(s) \o Restored(t)
         /\ Restored(s) = <<>> <=> s = <<>>
<1>1. ASSUME NEW u \in Seq(Char)
      PROVE  Restored(u) \in Seq(Char) /\ Len(Restored(u)) = Len(u)
             /\ \A k \in 1 .. Len(u) : Restored(u)[k] = Original[u[k]]
  <2>1. Len(u) \in Nat /\ \A k \in 1 .. Len(u) : u[k] \in Char
    BY LenProperties
  <2>2. \A k \in 1 .. Len(u) : Original[u[k]] \in Char
    BY <2>1, SseAssumption
  <2>3. Restored(u) = [k \in 1 .. Len(u) |-> Original[u[k]]]
    BY <2>1 DEF Restored
  <2> QED BY <2>1, <2>2, <2>3
<1> DEFINE u == s \o t
           v == Restored(s) \o Restored(t)
<1>2. u \in Seq(Char) /\ Len(u) = Len(s) + Len(t)
      /\ \A k \in 1 .. Len(s) + Len(t) : u[k] = IF k =< Len(s) THEN s[k] ELSE t[k - Len(s)]
  BY ConcatProperties
<1>3. /\ v \in Seq(Char)
      /\ Len(v) = Len(s) + Len(t)
      /\ \A k \in 1 .. Len(s) + Len(t) :
           v[k] = IF k =< Len(s) THEN Restored(s)[k] ELSE Restored(t)[k - Len(s)]
  <2>1. Restored(s) \in Seq(Char) /\ Len(Restored(s)) = Len(s)
        /\ Restored(t) \in Seq(Char) /\ Len(Restored(t)) = Len(t)
    BY <1>1
  <2> DEFINE a == Restored(s)
             b == Restored(t)
  <2> HIDE DEF a, b
  <2>2. /\ a \o b \in Seq(Char) /\ Len(a \o b) = Len(a) + Len(b)
        /\ \A k \in 1 .. Len(a) + Len(b) : (a \o b)[k] = IF k =< Len(a) THEN a[k] ELSE b[k - Len(a)]
    BY <2>1, ConcatProperties DEF a, b
  <2> QED BY <2>1, <2>2 DEF a, b
<1> HIDE DEF u, v
<1>4. ASSUME NEW k \in 1 .. Len(s) + Len(t)
      PROVE  Restored(u)[k] = v[k]
  <2>1. Len(s) \in Nat /\ Len(t) \in Nat
    BY LenProperties
  <2>2. Restored(u)[k] = Original[u[k]]
    BY <1>1, <1>2
  <2>3. CASE k =< Len(s)
    <3>1. k \in 1 .. Len(s)
      BY <2>1, <2>3
    <3>2. u[k] = s[k] /\ v[k] = Restored(s)[k]
      BY <2>3, <1>2, <1>3
    <3>3. Restored(s)[k] = Original[s[k]]
      BY <3>1, <1>1
    <3> QED BY <2>2, <3>2, <3>3
  <2>4. CASE k > Len(s)
    <3>1. k - Len(s) \in 1 .. Len(t) /\ ~(k =< Len(s))
      BY <2>1, <2>4
    <3> QED BY <3>1, <2>2, <1>1, <1>2, <1>3
  <2> QED BY <2>1, <2>3, <2>4
<1>5. Restored(s \o t) = Restored(s) \o Restored(t)
  <2>1. Restored(u) \in Seq(Char) /\ Len(Restored(u)) = Len(v)
    BY <1>1, <1>2, <1>3
  <2>2. Restored(u) = v
    BY <2>1, <1>1, <1>2, <1>3, <1>4, SeqEqual
  <2> QED BY <2>2 DEF u, v
<1>6. Restored(s) = <<>> <=> s = <<>>
  BY <1>1, EmptySeq
<1> QED BY <1>1, <1>5, <1>6

Kept(s) == SubSeq(s, SafeLen(s) + 1, Len(s))

(* The window divides a buffer in two. *)
LEMMA WindowDivides ==
  ASSUME NEW s \in Seq(Char)
  PROVE  /\ Safe(s) \in Seq(Char) /\ Kept(s) \in Seq(Char)
         /\ Safe(s) \o Kept(s) = s
         /\ Len(Kept(s)) =< Window
         /\ Len(s) =< Window => Safe(s) = <<>> /\ Kept(s) = s
<1>1. Len(s) \in Nat /\ Window \in Nat
  BY SseAssumption, LenProperties
<1>2. SafeLen(s) \in 0 .. Len(s) /\ Len(s) - SafeLen(s) =< Window
      /\ (Len(s) =< Window => SafeLen(s) = 0)
  BY <1>1 DEF SafeLen
<1>3. /\ SubSeq(s, 1, SafeLen(s)) \in Seq(Char)
      /\ SubSeq(s, SafeLen(s) + 1, Len(s)) \in Seq(Char)
      /\ Len(SubSeq(s, SafeLen(s) + 1, Len(s))) = Len(s) - SafeLen(s)
  BY <1>1, <1>2, Slice
<1>4. SubSeq(s, 1, SafeLen(s)) \o SubSeq(s, SafeLen(s) + 1, Len(s)) = SubSeq(s, 1, Len(s))
  <2>1. 1 \in 1 .. Len(s) + 1 /\ SafeLen(s) \in 1 - 1 .. Len(s) /\ Len(s) \in SafeLen(s) .. Len(s)
    BY <1>1, <1>2
  <2> QED BY <2>1, ConcatAdjacentSubSeq
<1>5. SubSeq(s, 1, Len(s)) = s
  BY SubSeqFull
<1>6. SafeLen(s) = 0 => SubSeq(s, 1, SafeLen(s)) = <<>>
  BY SubSeqEmpty
<1>7. SafeLen(s) = 0 => SubSeq(s, SafeLen(s) + 1, Len(s)) = s
  <2>1. SafeLen(s) = 0 => SafeLen(s) + 1 = 1
    OBVIOUS
  <2> QED BY <2>1, <1>5
<1>8. Safe(s) \o Kept(s) = s
  BY <1>4, <1>5 DEF Safe, Kept
<1> QED BY <1>2, <1>3, <1>6, <1>7, <1>8 DEF Safe, Kept

-----------------------------------------------------------------------------
(* The buffers, before and after an event. *)
Buffers(held) ==
  /\ \E P \in SUBSET Path : IsFiniteSet(P) /\ held \in [P -> Seq(Char)]
  /\ \A p \in DOMAIN held : Len(held[p]) =< Window

LEMMA BuffersType ==
  ASSUME NEW held, Buffers(held)
  PROVE  /\ DOMAIN held \in SUBSET Path
         /\ IsFiniteSet(DOMAIN held)
         /\ held \in [DOMAIN held -> Seq(Char)]
  BY DEF Buffers

LEMMA NoBuffers == Buffers(None)
<1>1. IsFiniteSet({})
  BY FS_EmptySet
<1> QED BY <1>1, NoneType DEF Buffers

LEMMA GrownType ==
  ASSUME Buffers(streams), NEW e \in Event
  PROVE  /\ Grown(e) \in [DOMAIN streams \cup DOMAIN e.pieces -> Seq(Char)]
         /\ \A p \in DOMAIN e.pieces : Grown(e)[p] =
              (IF p \in DOMAIN streams THEN streams[p] ELSE <<>>) \o e.pieces[p].text
         /\ \A p \in DOMAIN streams \ DOMAIN e.pieces : Grown(e)[p] = streams[p]
<1> DEFINE D == DOMAIN streams \cup DOMAIN e.pieces
           a(p) == IF p \in DOMAIN streams THEN streams[p] ELSE <<>>
           b(p) == IF p \in DOMAIN e.pieces THEN e.pieces[p].text ELSE <<>>
<1>1. Grown(e) = [p \in D |-> a(p) \o b(p)]
  BY DEF Grown
<1>2. ASSUME NEW p \in D
      PROVE  a(p) \in Seq(Char) /\ b(p) \in Seq(Char)
  BY BuffersType, EventFields
<1>3. \A p \in DOMAIN streams \ DOMAIN e.pieces : a(p) = streams[p] /\ b(p) = <<>>
  OBVIOUS
<1>4. \A p \in DOMAIN e.pieces : b(p) = e.pieces[p].text
  OBVIOUS
<1> HIDE DEF b
<1>5. \A p \in D : a(p) \o b(p) \in Seq(Char)
  BY <1>2, ConcatProperties
<1>6. \A p \in DOMAIN streams \ DOMAIN e.pieces : a(p) \o b(p) = streams[p]
  BY <1>2, <1>3, ConcatEmptySeq
<1> QED BY <1>1, <1>4, <1>5, <1>6

LEMMA RestType ==
  ASSUME Buffers(streams), NEW e \in Event
  PROVE  /\ Buffers(Rest(e))
         /\ DOMAIN Rest(e) = DOMAIN streams \cup DOMAIN e.pieces
         /\ \A p \in DOMAIN Rest(e) : Rest(e)[p] = Kept(Grown(e)[p])
<1> DEFINE D == DOMAIN streams \cup DOMAIN e.pieces
<1>1. DOMAIN Grown(e) = D /\ \A p \in D : Grown(e)[p] \in Seq(Char)
  BY GrownType
<1>2. Rest(e) = [p \in D |-> Kept(Grown(e)[p])]
  BY <1>1 DEF Rest, Kept
<1>3. \A p \in D : Kept(Grown(e)[p]) \in Seq(Char) /\ Len(Kept(Grown(e)[p])) =< Window
  BY <1>1, WindowDivides
<1>4. D \in SUBSET Path /\ IsFiniteSet(D)
  BY BuffersType, EventFields, FS_Union
<1>5. Rest(e) \in [D -> Seq(Char)]
  BY <1>2, <1>3
<1> QED BY <1>2, <1>3, <1>4, <1>5 DEF Buffers

(* What an event becomes. *)
LEMMA PassedType ==
  ASSUME Buffers(streams), NEW e \in Event, ~e.done, NEW failing
  PROVE  /\ Passed(e, failing) \in Event
         /\ Passed(e, failing).other = e.other
         /\ Passed(e, failing).finish = e.finish
         /\ Passed(e, failing).done = e.done
         /\ DOMAIN Passed(e, failing).pieces
              = {p \in DOMAIN e.pieces \ failing : Safe(Grown(e)[p]) # <<>>}
         /\ \A p \in DOMAIN Passed(e, failing).pieces :
              /\ Passed(e, failing).pieces[p].owner = e.pieces[p].owner
              /\ Passed(e, failing).pieces[p].text = Restored(Safe(Grown(e)[p]))
<1> DEFINE K == {p \in DOMAIN e.pieces \ failing : Safe(Grown(e)[p]) # <<>>}
           f == [p \in K |-> [owner |-> e.pieces[p].owner, text |-> Restored(Safe(Grown(e)[p]))]]
<1>1. Passed(e, failing) = [e EXCEPT !.pieces = f]
  <2> DEFINE safe == [p \in DOMAIN e.pieces |-> Safe(Grown(e)[p])]
             kept == {p \in DOMAIN e.pieces \ failing : safe[p] # <<>>}
             g == [p \in kept |-> [owner |-> e.pieces[p].owner, text |-> Restored(safe[p])]]
  <2>1. Passed(e, failing) = [e EXCEPT !.pieces = g]
    BY DEF Passed
  <2>2. kept = K
    OBVIOUS
  <2>3. \A p \in K : safe[p] = Safe(Grown(e)[p])
    OBVIOUS
  <2> HIDE DEF safe, kept, K
  <2>4. g = f
    BY <2>2, <2>3
  <2> HIDE DEF g, f
  <2> QED BY <2>1, <2>4
<1>2. \A p \in K : e.pieces[p].owner \in Owner /\ Restored(Safe(Grown(e)[p])) \in Seq(Char)
  BY GrownType, WindowDivides, RestoredFacts, EventFields
<1>3. K \in SUBSET Path /\ IsFiniteSet(K)
  <2>1. K \in SUBSET DOMAIN e.pieces
    OBVIOUS
  <2> HIDE DEF K
  <2> QED BY <2>1, EventFields, FS_Subset
<1> HIDE DEF K
<1>4. f \in [K -> Piece]
  BY <1>2 DEF Piece
<1>5. e \in [pieces : Pieces, other : BOOLEAN, finish : BOOLEAN, done : {FALSE}]
  <2>1. Sentinel.done
    BY DEF Sentinel
  <2> QED BY <2>1 DEF Event
<1>6. f \in Pieces
  BY <1>3, <1>4 DEF Pieces
<1>7. DOMAIN f = K /\ \A p \in K : f[p].owner = e.pieces[p].owner
                                   /\ f[p].text = Restored(Safe(Grown(e)[p]))
  OBVIOUS
<1> HIDE DEF f
<1>8. /\ [e EXCEPT !.pieces = f] \in [pieces : Pieces, other : BOOLEAN, finish : BOOLEAN, done : {FALSE}]
      /\ [e EXCEPT !.pieces = f].pieces = f
      /\ [e EXCEPT !.pieces = f].other = e.other
      /\ [e EXCEPT !.pieces = f].finish = e.finish
      /\ [e EXCEPT !.pieces = f].done = e.done
  BY <1>5, <1>6
<1> QED BY <1>1, <1>7, <1>8 DEF K, Event

LEMMA ForwardedType ==
  ASSUME Buffers(streams), NEW e \in Event, ~e.done, NEW failing
  PROVE  /\ Forwarded(e, failing) \in Seq(Event)
         /\ Forwarded(e, failing) \in {<<>>, <<Passed(e, failing)>>}
         /\ e.finish \/ e.other => Forwarded(e, failing) = <<Passed(e, failing)>>
<1>1. Passed(e, failing) \in Event
  BY PassedType
<1> QED BY <1>1 DEF Forwarded

(***************************************************************************)
(* The events of a flush: one for each buffer that holds something, at its *)
(* place in some order.                                                    *)
(***************************************************************************)
LEMMA OrderCovers ==
  ASSUME NEW S, IsFiniteSet(S), NEW order \in SetToSeqs(S)
  PROVE  /\ order \in [1 .. Cardinality(S) -> S]
         /\ Cardinality(S) \in Nat
         /\ \A i, j \in 1 .. Cardinality(S) : order[i] = order[j] => i = j
         /\ \A p \in S : \E i \in 1 .. Cardinality(S) : order[i] = p
<1> DEFINE n == Cardinality(S)
<1>1. n \in Nat
  BY FS_CardinalityType
<1>2. order \in [1 .. n -> S] /\ \A i, j \in 1 .. n : order[i] = order[j] => i = j
  BY <1>1 DEF SetToSeqs
<1>3. IsFiniteSet(1 .. n) /\ Cardinality(1 .. n) = n
  BY <1>1, FS_Interval
<1> HIDE DEF n
<1>4. order \in Injection(1 .. n, S)
  BY <1>2 DEF Injection, IsInjective
<1>5. order \in Surjection(1 .. n, S)
  BY <1>3, <1>4, FS_Injection DEF n
<1>6. \A p \in S : \E i \in 1 .. n : order[i] = p
  BY <1>5 DEF Surjection
<1> QED BY <1>1, <1>2, <1>6 DEF n

LEMMA FlushEventType ==
  ASSUME NEW p \in Path, NEW t \in Seq(Char)
  PROVE  /\ FlushEvent(p, t) \in Fit
         /\ ~FlushEvent(p, t).done /\ ~FlushEvent(p, t).finish
         /\ DOMAIN FlushEvent(p, t).pieces = {p} \cap InDelta
         /\ p \in InDelta => FlushEvent(p, t).pieces[p].text = Restored(t)
<1> DEFINE f == [q \in {p} \cap InDelta |-> [owner |-> FlushOwner[q], text |-> Restored(t)]]
<1>1. {p} \cap InDelta \in SUBSET Path /\ IsFiniteSet({p} \cap InDelta)
  BY FS_Singleton, FS_Intersection
<1>2. f \in [{p} \cap InDelta -> Piece]
  BY RestoredFacts, SseAssumption DEF Piece
<1>3. FlushEvent(p, t) = [pieces |-> f, other |-> FALSE, finish |-> FALSE, done |-> FALSE]
  BY DEF FlushEvent
<1>4. /\ DOMAIN f = {p} \cap InDelta
      /\ \A q \in DOMAIN f : f[q].owner = FlushOwner[q] /\ f[q].text = Restored(t)
  OBVIOUS
<1> HIDE DEF f
<1>5. FlushEvent(p, t) \in Event
  BY <1>1, <1>2, <1>3, EventOfPieces
<1> QED BY <1>3, <1>4, <1>5 DEF Fit, InPlace

FlushedIn(order, flushed, held, failing) ==
  /\ \A k \in DOMAIN flushed :
       /\ order[k] \in DOMAIN held
       /\ flushed[k] = FlushEvent(order[k], held[order[k]])
  /\ \A i, j \in DOMAIN flushed : order[i] = order[j] => i = j
  /\ \A p \in DOMAIN held \ failing :
       held[p] # <<>> => \E k \in DOMAIN flushed : order[k] = p

LEMMA FlushType ==
  ASSUME NEW held, Buffers(held), NEW failing, NEW flushed \in FlushEvents(held, failing)
  PROVE  /\ flushed \in Seq(Fit)
         /\ \A k \in DOMAIN flushed : ~flushed[k].done /\ ~flushed[k].finish
         /\ DOMAIN held = {} => flushed = <<>>
         /\ \E order : FlushedIn(order, flushed, held, failing)
<1> DEFINE S == {p \in DOMAIN held \ failing : held[p] # <<>>}
           n == Cardinality(S)
<1>1. PICK order \in SetToSeqs(S) :
        flushed = [k \in DOMAIN order |-> FlushEvent(order[k], held[order[k]])]
  BY DEF FlushEvents
<1>2. S \in SUBSET DOMAIN held /\ IsFiniteSet(S)
  <2>1. S \in SUBSET DOMAIN held
    OBVIOUS
  <2> HIDE DEF S
  <2> QED BY <2>1, BuffersType, FS_Subset
<1>3. /\ order \in [1 .. n -> S] /\ n \in Nat
      /\ \A i, j \in 1 .. n : order[i] = order[j] => i = j
      /\ \A p \in S : \E k \in 1 .. n : order[k] = p
  <2>1. order \in SetToSeqs(S) /\ IsFiniteSet(S)
    BY <1>1, <1>2
  <2> HIDE DEF S
  <2> QED BY <2>1, OrderCovers
<1>4. \A p \in DOMAIN held \ failing : held[p] # <<>> => p \in S
  OBVIOUS
<1> HIDE DEF S, n
<1>5. DOMAIN order = 1 .. n /\ \A k \in 1 .. n : order[k] \in S
  BY <1>3
<1>6. flushed = [k \in 1 .. n |-> FlushEvent(order[k], held[order[k]])]
  BY <1>1, <1>5
<1>7. ASSUME NEW k \in 1 .. n
      PROVE  /\ FlushEvent(order[k], held[order[k]]) \in Fit
             /\ ~FlushEvent(order[k], held[order[k]]).done
             /\ ~FlushEvent(order[k], held[order[k]]).finish
  <2>1. order[k] \in DOMAIN held /\ order[k] \in Path /\ held[order[k]] \in Seq(Char)
    BY <1>2, <1>5, BuffersType
  <2> QED BY <2>1, FlushEventType
<1>8. /\ DOMAIN flushed = 1 .. n
      /\ \A k \in 1 .. n : flushed[k] = FlushEvent(order[k], held[order[k]])
  BY <1>6
<1>9. flushed \in Seq(Fit)
  BY <1>3, <1>6, <1>7
<1>10. DOMAIN held = {} => flushed = <<>>
  <2> SUFFICES ASSUME DOMAIN held = {}
               PROVE  flushed = <<>>
    OBVIOUS
  <2>1. n = 0
    BY <1>2, <1>3, <1>5
  <2> QED BY <2>1, <1>8, <1>9, EmptySeq, LenProperties
<1>11. FlushedIn(order, flushed, held, failing)
  BY <1>2, <1>3, <1>4, <1>5, <1>8 DEF FlushedIn
<1> QED BY <1>7, <1>8, <1>9, <1>10, <1>11

-----------------------------------------------------------------------------
(* What events say, when texts have a path each. *)
LEMMA SaidToFit ==
  ASSUME OneChoice, NEW e \in Fit, NEW o \in Owner
  PROVE  /\ SaidTo(o, e) \in Seq(Char)
         /\ \A p \in DOMAIN e.pieces : FlushOwner[p] = o => SaidTo(o, e) = e.pieces[p].text
         /\ (\A p \in DOMAIN e.pieces : FlushOwner[p] # o) => SaidTo(o, e) = <<>>
<1> DEFINE own == {p \in DOMAIN e.pieces : e.pieces[p].owner = o}
<1>1. e \in Event /\ \A p \in DOMAIN e.pieces : e.pieces[p].owner = FlushOwner[p]
  BY DEF Fit, InPlace
<1>2. DOMAIN e.pieces \in SUBSET Path /\ \A p \in DOMAIN e.pieces : e.pieces[p].text \in Seq(Char)
  BY <1>1, EventFields
<1>3. SaidTo(o, e) = IF own = {} THEN <<>> ELSE e.pieces[CHOOSE p \in own : TRUE].text
  BY DEF SaidTo
<1>4. CASE own = {}
  BY <1>1, <1>3, <1>4
<1>5. CASE own # {}
  <2>1. PICK q \in own : q = CHOOSE p \in own : TRUE
    BY <1>5
  <2>2. SaidTo(o, e) = e.pieces[q].text /\ q \in DOMAIN e.pieces /\ FlushOwner[q] = o
    BY <1>1, <1>3, <1>5, <2>1
  <2>3. \A p \in DOMAIN e.pieces : FlushOwner[p] = o => p = q
    BY <1>2, <2>2 DEF OneChoice
  <2> QED BY <1>2, <2>2, <2>3
<1> QED BY <1>4, <1>5

Saying(o) == [e \in Fit |-> SaidTo(o, e)]

LEMMA SayingType ==
  ASSUME OneChoice, NEW o \in Owner
  PROVE  /\ Saying(o) \in Lists(Fit, Char)
         /\ \A s \in Seq(Fit) : TextFor(o, s) = FlattenSeq(Mapped(Saying(o), s))
<1>1. Saying(o) \in Lists(Fit, Char)
  BY SaidToFit DEF Saying, Lists
<1>2. ASSUME NEW s \in Seq(Fit)
      PROVE  TextFor(o, s) = FlattenSeq(Mapped(Saying(o), s))
  <2>1. \A k \in DOMAIN s : s[k] \in Fit
    OBVIOUS
  <2>2. [k \in DOMAIN s |-> SaidTo(o, s[k])] = Mapped(Saying(o), s)
    BY <2>1 DEF Mapped, Saying
  <2> QED BY <2>2 DEF TextFor
<1> QED BY <1>1, <1>2

LEMMA TextForConcat ==
  ASSUME OneChoice, NEW s \in Seq(Fit), NEW t \in Seq(Fit), NEW o \in Owner
  PROVE  /\ TextFor(o, s) \in Seq(Char)
         /\ TextFor(o, s \o t) = TextFor(o, s) \o TextFor(o, t)
<1>1. s \o t \in Seq(Fit)
  BY ConcatProperties
<1>2. /\ FlattenSeq(Mapped(Saying(o), s)) \in Seq(Char)
      /\ FlattenSeq(Mapped(Saying(o), s \o t)) = FlattenSeq(Mapped(Saying(o), s)) \o FlattenSeq(Mapped(Saying(o), t))
  BY SayingType, FlattenMapped
<1> QED BY <1>1, <1>2, SayingType

LEMMA TextForOne ==
  ASSUME OneChoice, NEW e \in Fit, NEW o \in Owner
  PROVE  TextFor(o, <<e>>) = SaidTo(o, e)
<1>1. <<e>> \in Seq(Fit)
  OBVIOUS
<1>2. FlattenSeq(Mapped(Saying(o), <<e>>)) = Saying(o)[e]
  BY SayingType, FlattenMappedOne
<1> QED BY <1>1, <1>2, SayingType DEF Saying

LEMMA TextForNone == OneChoice => \A o \in Owner : TextFor(o, <<>>) = <<>>
<1>1. <<>> \in Seq(Fit)
  OBVIOUS
<1> QED BY <1>1, SayingType, FlattenMappedNone

(* What the buffers hold back from o. *)
TailFor(o, held) ==
  LET own == {p \in DOMAIN held : FlushOwner[p] = o}
  IN IF own = {} THEN <<>> ELSE held[CHOOSE p \in own : TRUE]

LEMMA TailForFacts ==
  ASSUME OneChoice, NEW held, Buffers(held), NEW o \in Owner
  PROVE  /\ TailFor(o, held) \in Seq(Char)
         /\ \A p \in DOMAIN held : FlushOwner[p] = o => TailFor(o, held) = held[p]
         /\ (\A p \in DOMAIN held : FlushOwner[p] # o) => TailFor(o, held) = <<>>
<1> DEFINE own == {p \in DOMAIN held : FlushOwner[p] = o}
<1>1. DOMAIN held \in SUBSET Path /\ \A p \in DOMAIN held : held[p] \in Seq(Char)
  BY BuffersType
<1>2. TailFor(o, held) = IF own = {} THEN <<>> ELSE held[CHOOSE p \in own : TRUE]
  BY DEF TailFor
<1>3. CASE own = {}
  BY <1>2, <1>3
<1>4. CASE own # {}
  <2>1. PICK q \in own : q = CHOOSE p \in own : TRUE
    BY <1>4
  <2>2. TailFor(o, held) = held[q] /\ q \in DOMAIN held /\ FlushOwner[q] = o
    BY <1>2, <1>4, <2>1
  <2>3. \A p \in DOMAIN held : FlushOwner[p] = o => p = q
    BY <1>1, <2>2 DEF OneChoice
  <2> QED BY <1>1, <2>2, <2>3
<1> QED BY <1>3, <1>4

(* A flush without a failing lookup says to everyone what was held back. *)
LEMMA FlushSays ==
  ASSUME OneChoice, NEW held, Buffers(held), NEW flushed \in FlushEvents(held, {}), NEW o \in Owner
  PROVE  TextFor(o, flushed) = Restored(TailFor(o, held))
<1>1. flushed \in Seq(Fit)
  BY FlushType
<1>2. PICK order : FlushedIn(order, flushed, held, {})
  BY FlushType
<1> DEFINE x == Mapped(Saying(o), flushed)
<1>3. /\ x \in Seq(Seq(Char)) /\ DOMAIN flushed = 1 .. Len(x)
      /\ \A k \in 1 .. Len(x) : x[k] = SaidTo(o, flushed[k])
  <2>1. x \in Seq(Seq(Char))
    BY <1>1, SayingType, MappedType
  <2>2. DOMAIN x = 1 .. Len(flushed) /\ \A k \in 1 .. Len(flushed) : x[k] = Saying(o)[flushed[k]]
    BY <1>1, MappedElements
  <2>3. DOMAIN flushed = 1 .. Len(flushed) /\ \A k \in 1 .. Len(flushed) : flushed[k] \in Fit
    BY <1>1, LenProperties
  <2> HIDE DEF x
  <2> QED BY <2>1, <2>2, <2>3, LenProperties DEF Saying
<1>4. TextFor(o, flushed) = FlattenSeq(x)
  BY <1>1, SayingType
<1> HIDE DEF x
<1>5. ASSUME NEW k \in 1 .. Len(x)
      PROVE  /\ order[k] \in DOMAIN held
             /\ x[k] = IF FlushOwner[order[k]] = o THEN Restored(held[order[k]]) ELSE <<>>
  <2>1. order[k] \in DOMAIN held /\ flushed[k] = FlushEvent(order[k], held[order[k]])
    BY <1>2, <1>3 DEF FlushedIn
  <2>2. order[k] \in Path /\ order[k] \in InDelta /\ held[order[k]] \in Seq(Char)
    BY <2>1, BuffersType, SseAssumption DEF OneChoice
  <2>3. /\ flushed[k] \in Fit
        /\ DOMAIN flushed[k].pieces = {order[k]}
        /\ flushed[k].pieces[order[k]].text = Restored(held[order[k]])
    BY <2>1, <2>2, FlushEventType
  <2>4. SaidTo(o, flushed[k]) = IF FlushOwner[order[k]] = o THEN Restored(held[order[k]]) ELSE <<>>
    BY <2>3, SaidToFit
  <2> QED BY <2>1, <2>4, <1>3
<1>6. Restored(<<>>) = <<>>
  <2>1. <<>> \in Seq(Char)
    OBVIOUS
  <2> QED BY <2>1, RestoredFacts
<1>7. CASE \E p \in DOMAIN held : FlushOwner[p] = o /\ held[p] # <<>>
  <2>1. PICK p \in DOMAIN held : FlushOwner[p] = o /\ held[p] # <<>>
    BY <1>7
  <2>2. PICK j \in 1 .. Len(x) : order[j] = p
    BY <1>2, <1>3, <2>1 DEF FlushedIn
  <2>3. ASSUME NEW k \in 1 .. Len(x), k # j
        PROVE  x[k] = <<>>
    <3>1. order[k] # order[j] /\ order[k] \in DOMAIN held
      BY <1>2, <1>3, <1>5, <2>3 DEF FlushedIn
    <3>2. FlushOwner[order[k]] # o
      BY <3>1, <2>1, <2>2, BuffersType DEF OneChoice
    <3> QED BY <3>2, <1>5
  <2>4. FlattenSeq(x) = x[j]
    BY <1>3, <2>3, FlattenSingle
  <2>5. x[j] = Restored(held[p])
    BY <1>5, <2>1, <2>2
  <2> QED BY <1>4, <2>1, <2>4, <2>5, TailForFacts
<1>8. CASE \A p \in DOMAIN held : FlushOwner[p] = o => held[p] = <<>>
  <2>1. \A k \in 1 .. Len(x) : x[k] = <<>>
    BY <1>5, <1>6, <1>8
  <2>2. FlattenSeq(x) = <<>>
    BY <1>3, <2>1, FlattenBlank
  <2>3. TailFor(o, held) = <<>>
    BY <1>8, TailForFacts
  <2> QED BY <1>4, <1>6, <2>2, <2>3
<1> QED BY <1>7, <1>8

(* Without a failing lookup, an event and the buffers after it say what the *)
(* buffers held and the event said.                                        *)
LEMMA PassSays ==
  ASSUME OneChoice, Buffers(streams), NEW e \in Fit, ~e.done, NEW o \in Owner
  PROVE  /\ Forwarded(e, {}) \in Seq(Fit)
         /\ TextFor(o, Forwarded(e, {})) \o Restored(TailFor(o, Rest(e)))
              = Restored(TailFor(o, streams) \o SaidTo(o, e))
<1> DEFINE ps == Passed(e, {})
           fw == Forwarded(e, {})
<1>1. e \in Event /\ InPlace(e)
  BY DEF Fit
<1>2. /\ ps \in Fit
      /\ DOMAIN ps.pieces = {p \in DOMAIN e.pieces : Safe(Grown(e)[p]) # <<>>}
      /\ \A p \in DOMAIN ps.pieces : ps.pieces[p].text = Restored(Safe(Grown(e)[p]))
  <2>1. /\ ps \in Event
        /\ DOMAIN ps.pieces = {p \in DOMAIN e.pieces : Safe(Grown(e)[p]) # <<>>}
        /\ \A p \in DOMAIN ps.pieces : ps.pieces[p].text = Restored(Safe(Grown(e)[p]))
        /\ \A p \in DOMAIN ps.pieces : ps.pieces[p].owner = e.pieces[p].owner
    BY <1>1, PassedType
  <2> HIDE DEF ps
  <2>2. InPlace(ps)
    BY <2>1, <1>1 DEF InPlace
  <2> QED BY <2>1, <2>2 DEF Fit
<1>3. fw \in {<<>>, <<ps>>} /\ (DOMAIN ps.pieces # {} => fw = <<ps>>)
  <2>1. DOMAIN ps.pieces \subseteq FirstChoice
    BY <1>1, <1>2, EventFields DEF OneChoice
  <2> QED BY <2>1 DEF Forwarded
<1> HIDE DEF ps, fw
<1>4. fw \in Seq(Fit)
  <2>1. <<>> \in Seq(Fit) /\ <<ps>> \in Seq(Fit)
    BY <1>2
  <2> QED BY <2>1, <1>3
<1>5. TextFor(o, fw) = SaidTo(o, ps)
  <2>1. CASE fw = <<ps>>
    BY <2>1, <1>2, TextForOne
  <2>2. CASE fw = <<>> /\ DOMAIN ps.pieces = {}
    <3>1. SaidTo(o, ps) = <<>>
      BY <2>2, <1>2, SaidToFit
    <3> QED BY <3>1, <2>2, TextForNone
  <2> QED BY <1>3, <2>1, <2>2
<1>6. Restored(<<>>) = <<>> /\ <<>> \in Seq(Char)
  <2>1. <<>> \in Seq(Char)
    OBVIOUS
  <2> QED BY <2>1, RestoredFacts
<1>7. Buffers(Rest(e)) /\ DOMAIN Rest(e) = DOMAIN streams \cup DOMAIN e.pieces
      /\ \A p \in DOMAIN Rest(e) : Rest(e)[p] = Kept(Grown(e)[p])
  BY <1>1, RestType
<1>8. CASE \E p \in DOMAIN e.pieces : FlushOwner[p] = o
  <2>1. PICK p \in DOMAIN e.pieces : FlushOwner[p] = o
    BY <1>8
  <2> DEFINE g == Grown(e)[p]
  <2>2. TailFor(o, streams) = IF p \in DOMAIN streams THEN streams[p] ELSE <<>>
    <3>1. p \in Path /\ DOMAIN streams \in SUBSET Path
      BY <1>1, EventFields, BuffersType
    <3>2. p \notin DOMAIN streams => \A q \in DOMAIN streams : FlushOwner[q] # o
      BY <3>1, <2>1 DEF OneChoice
    <3> QED BY <2>1, <3>2, TailForFacts
  <2>3. g = TailFor(o, streams) \o SaidTo(o, e)
    BY <1>1, <2>1, <2>2, GrownType, SaidToFit
  <2>4. g \in Seq(Char)
    BY <1>1, <2>1, GrownType
  <2>5. TailFor(o, Rest(e)) = Kept(g)
    BY <1>7, <2>1, TailForFacts
  <2> HIDE DEF g
  <2>6. SaidTo(o, ps) = Restored(Safe(g))
    <3>1. CASE Safe(g) # <<>>
      <4>1. p \in DOMAIN ps.pieces /\ ps.pieces[p].text = Restored(Safe(g))
        BY <1>2, <2>1, <3>1 DEF g
      <4> QED BY <4>1, <1>2, <2>1, SaidToFit
    <3>2. CASE Safe(g) = <<>>
      <4>1. \A q \in DOMAIN ps.pieces : q # p /\ q \in Path /\ p \in Path
        BY <1>1, <1>2, <2>1, <3>2, EventFields DEF g
      <4>2. \A q \in DOMAIN ps.pieces : FlushOwner[q] # o
        BY <4>1, <2>1 DEF OneChoice
      <4> QED BY <4>2, <3>2, <1>2, <1>6, SaidToFit
    <3> QED BY <3>1, <3>2
  <2>7. Restored(g) = Restored(Safe(g)) \o Restored(Kept(g))
    <3>1. Safe(g) \in Seq(Char) /\ Kept(g) \in Seq(Char) /\ Safe(g) \o Kept(g) = g
      BY <2>4, WindowDivides
    <3>2. Restored(Safe(g) \o Kept(g)) = Restored(Safe(g)) \o Restored(Kept(g))
      BY <3>1, RestoredFacts
    <3> QED BY <3>1, <3>2
  <2> QED BY <1>4, <1>5, <2>3, <2>5, <2>6, <2>7 DEF fw
<1>9. CASE \A p \in DOMAIN e.pieces : FlushOwner[p] # o
  <2>1. SaidTo(o, ps) = <<>> /\ SaidTo(o, e) = <<>>
    BY <1>2, <1>9, SaidToFit
  <2>2. TailFor(o, Rest(e)) = TailFor(o, streams)
    <3>1. CASE \E q \in DOMAIN streams : FlushOwner[q] = o
      <4>1. PICK q \in DOMAIN streams : FlushOwner[q] = o
        BY <3>1
      <4>2. Grown(e)[q] = streams[q] /\ q \in DOMAIN Rest(e)
        BY <4>1, <1>1, <1>7, <1>9, GrownType
      <4>3. streams[q] \in Seq(Char) /\ Len(streams[q]) =< Window
        BY BuffersType DEF Buffers
      <4>4. Rest(e)[q] = streams[q]
        BY <4>2, <4>3, <1>7, WindowDivides
      <4> QED BY <4>1, <4>2, <4>4, <1>7, TailForFacts
    <3>2. CASE \A q \in DOMAIN streams : FlushOwner[q] # o
      <4>1. \A q \in DOMAIN Rest(e) : FlushOwner[q] # o
        BY <3>2, <1>7, <1>9
      <4> QED BY <4>1, <3>2, <1>7, TailForFacts
    <3> QED BY <3>1, <3>2
  <2>3. TailFor(o, streams) \in Seq(Char)
    BY TailForFacts
  <2>4. TailFor(o, streams) \o <<>> = TailFor(o, streams)
    BY <2>3, ConcatEmptySeq
  <2>5. <<>> \o Restored(TailFor(o, streams)) = Restored(TailFor(o, streams))
    BY <2>3, RestoredFacts, ConcatEmptySeq
  <2> QED BY <1>4, <1>5, <2>1, <2>2, <2>4, <2>5 DEF fw
<1> QED BY <1>8, <1>9

-----------------------------------------------------------------------------
(***************************************************************************)
(* TypeOK, and what else holds of each part of the state: a buffer is no   *)
(* longer than the window, and a task that reads no more has none; one     *)
(* that has ended has sent everything.                                     *)
(***************************************************************************)
Typed ==
  /\ script \in Scripts /\ script \in Seq(Event)
  /\ at \in 0 .. Len(script)
  /\ Buffers(streams)
  /\ outbox \in Seq(Event) /\ queue \in Seq(Event) /\ received \in Seq(Event)
  /\ pc \in {"reading", "leaving", "ended"}
  /\ gone \in BOOLEAN
  /\ skipped \subseteq 1 .. at
  /\ failed \in BOOLEAN
  /\ pc # "reading" => DOMAIN streams = {}
  /\ pc = "ended" => outbox = <<>>

LEMMA IncomingType == Typed /\ at < Len(script) => Incoming \in Event /\ at + 1 \in 1 .. Len(script)
<1> SUFFICES ASSUME Typed, at < Len(script)
             PROVE  Incoming \in Event /\ at + 1 \in 1 .. Len(script)
  OBVIOUS
<1>1. at \in 0 .. Len(script) /\ script \in Seq(Event)
  BY DEF Typed
<1>2. at + 1 \in 1 .. Len(script)
  BY <1>1, LenProperties
<1> QED BY <1>1, <1>2 DEF Incoming

LEMMA InitTyped == Init => Typed
<1> SUFFICES ASSUME Init
             PROVE  Typed
  OBVIOUS
<1>1. script \in Scripts /\ script \in Seq(Event)
  BY SseAssumption, EventsTyped DEF Init
<1>2. Buffers(streams) /\ DOMAIN streams = {}
  BY NoBuffers, NoneType DEF Init
<1>3. Len(script) \in Nat
  BY <1>1, LenProperties
<1>4. at = 0 /\ outbox = <<>> /\ queue = <<>> /\ received = <<>> /\ pc = "reading"
      /\ gone = FALSE /\ skipped = {} /\ failed = FALSE
  BY DEF Init
<1>5. <<>> \in Seq(Event)
  OBVIOUS
<1>6. at \in 0 .. Len(script) /\ skipped \subseteq 1 .. at
  BY <1>3, <1>4
<1> QED BY <1>1, <1>2, <1>4, <1>5, <1>6 DEF Typed

LEMMA FlushAndMore ==
  ASSUME NEW held, Buffers(held), NEW lost, NEW flushed \in FlushEvents(held, lost),
         NEW more \in Seq(Event)
  PROVE  flushed \in Seq(Event) /\ flushed \o more \in Seq(Event)
<1>1. flushed \in Seq(Fit)
  BY FlushType
<1>2. flushed \in Seq(Event)
  BY <1>1 DEF Fit
<1> QED BY <1>2, ConcatProperties

LEMMA TypedStep == Typed /\ [Next]_vars => Typed'
<1> SUFFICES ASSUME Typed, [Next]_vars
             PROVE  Typed'
  OBVIOUS
<1>0. None \in {None} /\ DOMAIN None = {} /\ Buffers(None) /\ Len(script) \in Nat
  BY NoBuffers, NoneType, LenProperties DEF Typed
<1>1. CASE Data
  <2>1. Incoming \in Event /\ ~Incoming.done
    BY <1>1, IncomingType DEF Data
  <2>2. PICK failing : outbox' = Forwarded(Incoming, failing) /\ failed' = (failed \/ failing # {})
    BY <1>1 DEF Data
  <2>3. outbox' \in Seq(Event)
    BY <2>1, <2>2, ForwardedType DEF Typed
  <2>4. Buffers(streams')
    BY <1>1, <2>1, RestType DEF Data, Typed
  <2> QED BY <1>0, <1>1, <2>2, <2>3, <2>4 DEF Typed, Data, Reading
<1>2. CASE Finish
  <2>1. Incoming \in Event /\ ~Incoming.done
    BY <1>2, IncomingType, EventFields DEF Finish
  <2>2. PICK failing, lost : \E flushed \in FlushEvents(Rest(Incoming), lost) :
          /\ outbox' = flushed \o Forwarded(Incoming, failing)
          /\ failed' = (failed \/ failing # {} \/ lost # {})
    BY <1>2 DEF Finish
  <2>3. outbox' \in Seq(Event)
    <3>1. Buffers(Rest(Incoming)) /\ Forwarded(Incoming, failing) \in Seq(Event)
      BY <2>1, RestType, ForwardedType DEF Typed
    <3> QED BY <2>2, <3>1, FlushAndMore
  <2> QED BY <1>0, <1>2, <2>2, <2>3 DEF Typed, Finish, Reading
<1>3. CASE Done
  <2>1. Incoming \in Event
    BY <1>3, IncomingType DEF Done
  <2>2. PICK lost : \E flushed \in FlushEvents(streams, lost) :
          outbox' = flushed \o <<Incoming>> /\ failed' = (failed \/ lost # {})
    BY <1>3 DEF Done
  <2>3. outbox' \in Seq(Event)
    <3>1. <<Incoming>> \in Seq(Event)
      BY <2>1
    <3> QED BY <2>2, <3>1, FlushAndMore DEF Typed
  <2> QED BY <1>0, <1>3, <2>2, <2>3 DEF Typed, Done, Reading
<1>4. CASE Close
  <2>1. PICK lost : outbox' \in FlushEvents(streams, lost) /\ failed' = (failed \/ lost # {})
    BY <1>4 DEF Close
  <2>2. <<>> \in Seq(Event)
    OBVIOUS
  <2>3. outbox' \in Seq(Event)
    BY <2>1, <2>2, FlushAndMore DEF Typed
  <2> QED BY <1>0, <1>4, <2>1, <2>3 DEF Typed, Close, Reading
<1>5. CASE Skip
  <2>1. at \in Nat /\ at < Len(script) /\ skipped \subseteq 1 .. at
    BY <1>0, <1>5 DEF Typed, Skip
  <2>2. at + 1 \in 0 .. Len(script) /\ skipped \cup {at + 1} \subseteq 1 .. at + 1
    BY <1>0, <2>1
  <2>3. at' \in 0 .. Len(script') /\ skipped' \subseteq 1 .. at'
    BY <1>5, <2>2 DEF Skip
  <2>4. UNCHANGED <<script, streams, outbox, queue, pc, received, gone, failed>> /\ pc = "reading"
    BY <1>5 DEF Skip, Reading
  <2> QED BY <2>3, <2>4 DEF Typed
<1>6. CASE Send
  <2>1. Head(outbox) \in Event /\ Tail(outbox) \in Seq(Event)
    BY <1>6, HeadTailProperties DEF Typed, Send
  <2>2. queue' \in Seq(Event)
    <3>1. queue \in Seq(Event) /\ queue' \in {queue, Append(queue, Head(outbox))}
      BY <1>6 DEF Typed, Send
    <3> QED BY <2>1, <3>1, AppendProperties
  <2> QED BY <1>6, <2>1, <2>2 DEF Typed, Send
<1>7. CASE Return
  BY <1>7 DEF Typed, Return
<1>8. CASE Read
  <2>1. Head(queue) \in Event /\ Tail(queue) \in Seq(Event)
    BY <1>8, HeadTailProperties DEF Typed, Read
  <2>2. received' \in Seq(Event)
    BY <1>8, <2>1, AppendProperties DEF Typed, Read
  <2> QED BY <1>8, <2>1, <2>2 DEF Typed, Read
<1>9. CASE Leave
  BY <1>9 DEF Typed, Leave
<1>10. CASE UNCHANGED vars
  BY <1>10 DEF Typed, vars, Buffers
<1> QED BY <1>1, <1>2, <1>3, <1>4, <1>5, <1>6, <1>7, <1>8, <1>9, <1>10 DEF Next, Task

(* Every variable has the values its declaration says. *)
THEOREM TypeCorrect == Spec => []TypeOK
<1>1. Typed => TypeOK
  <2> SUFFICES ASSUME Typed
               PROVE  TypeOK
    OBVIOUS
  <2>1. AreEvents(outbox) /\ AreEvents(queue) /\ AreEvents(received)
    BY EventsTyped DEF Typed
  <2>2. \E P \in SUBSET Path : streams \in [P -> Seq(Char)]
    BY DEF Typed, Buffers
  <2> QED BY <2>1, <2>2 DEF Typed, TypeOK
<1> QED BY <1>1, InitTyped, TypedStep, PTL DEF Spec

-----------------------------------------------------------------------------
(* What has been sent, wherever it is on its way. *)
Sent == received \o queue \o outbox

(* Only the upstream's reader adds to what has been sent. *)
LEMMA SentGrows ==
  Typed /\ outbox = <<>> /\ outbox' \in Seq(Event) /\ UNCHANGED <<queue, received>>
    => Sent \in Seq(Event) /\ Sent' = Sent \o outbox' /\ Sent = received \o queue
<1> SUFFICES ASSUME Typed, outbox = <<>>, outbox' \in Seq(Event), UNCHANGED <<queue, received>>
             PROVE  Sent \in Seq(Event) /\ Sent' = Sent \o outbox' /\ Sent = received \o queue
  OBVIOUS
<1>1. received \o queue \in Seq(Event)
  BY ConcatProperties DEF Typed
<1>2. (received \o queue) \o <<>> = received \o queue
  BY <1>1, ConcatEmptySeq
<1> QED BY <1>1, <1>2 DEF Sent

LEMMA SentMoves ==
  ASSUME Typed, Send \/ Read \/ Return \/ Skip \/ Leave \/ UNCHANGED vars, ~gone
  PROVE  Sent' = Sent
<1>1. received \in Seq(Event) /\ queue \in Seq(Event) /\ outbox \in Seq(Event)
  BY DEF Typed
<1>2. CASE Send
  <2> DEFINE h == Head(outbox)
             t == Tail(outbox)
  <2>1. h \in Event /\ t \in Seq(Event) /\ outbox = <<h>> \o t /\ <<h>> \in Seq(Event)
    <3>1. outbox # <<>>
      BY <1>2 DEF Send
    <3>2. h \in Event /\ t \in Seq(Event)
      BY <1>1, <3>1, HeadTailProperties
    <3>3. outbox = <<h>> \o t
      BY <1>1, <3>1, HeadTailProperties
    <3> QED BY <3>2, <3>3
  <2>2. queue' = Append(queue, h) /\ outbox' = t /\ received' = received
    BY <1>2 DEF Send
  <2> HIDE DEF h, t
  <2>3. queue' = queue \o <<h>>
    BY <1>1, <2>1, <2>2, AppendIsConcat
  <2>4. queue \o <<h>> \in Seq(Event) /\ received \o queue \in Seq(Event)
    BY <1>1, <2>1, ConcatProperties
  <2>5. received \o (queue \o <<h>>) = (received \o queue) \o <<h>>
    BY <1>1, <2>1, ConcatAssociative
  <2>6. ((received \o queue) \o <<h>>) \o t = (received \o queue) \o (<<h>> \o t)
    BY <2>1, <2>4, ConcatAssociative
  <2> QED BY <2>1, <2>2, <2>3, <2>5, <2>6 DEF Sent
<1>3. CASE Read
  <2> DEFINE h == Head(queue)
             t == Tail(queue)
  <2>1. h \in Event /\ t \in Seq(Event) /\ queue = <<h>> \o t /\ <<h>> \in Seq(Event)
    <3>1. queue # <<>>
      BY <1>3 DEF Read
    <3>2. h \in Event /\ t \in Seq(Event)
      BY <1>1, <3>1, HeadTailProperties
    <3>3. queue = <<h>> \o t
      BY <1>1, <3>1, HeadTailProperties
    <3> QED BY <3>2, <3>3
  <2>2. received' = Append(received, h) /\ queue' = t /\ outbox' = outbox
    BY <1>3 DEF Read
  <2> HIDE DEF h, t
  <2>3. received' = received \o <<h>>
    BY <1>1, <2>1, <2>2, AppendIsConcat
  <2>4. (received \o <<h>>) \o t = received \o (<<h>> \o t)
    BY <1>1, <2>1, ConcatAssociative
  <2> QED BY <2>1, <2>2, <2>3, <2>4 DEF Sent
<1>4. CASE Return \/ Skip \/ Leave \/ UNCHANGED vars
  BY <1>4 DEF Return, Skip, Leave, vars, Sent
<1> QED BY <1>2, <1>3, <1>4

-----------------------------------------------------------------------------
(* The events read so far, and how a step adds to them. *)
LEMMA LostType == Lost \in Event /\ DOMAIN Lost.pieces = {} /\ SignalIn(Lost) = <<>>
<1>1. IsFiniteSet({}) /\ {} \in SUBSET Path /\ None \in [{} -> Piece] /\ DOMAIN None = {}
  BY FS_EmptySet, NoneType
<1> QED BY <1>1, EventOfPieces DEF Lost, SignalIn

LEMMA HandledType ==
  ASSUME Typed
  PROVE  Handled \in Seq(Event) /\ Len(Handled) = at
<1>1. at \in Nat /\ 1 .. at \subseteq 1 .. Len(script) /\ script \in Seq(Event)
  BY LenProperties DEF Typed
<1>2. \A k \in 1 .. at : script[k] \in Event
  BY <1>1
<1> QED BY <1>1, <1>2, LostType DEF Handled

LEMMA HandledGrows ==
  ASSUME Typed, Typed', NEW x \in Event,
         at' = at + 1, script' = script, at < Len(script),
         \/ skipped' = skipped /\ x = Incoming
         \/ skipped' = skipped \cup {at + 1} /\ x = Lost
  PROVE  Handled' = Handled \o <<x>>
<1> DEFINE h == Handled
           g == Handled'
           y == <<x>>
           w == h \o y
<1>1. at \in Nat /\ skipped \subseteq 1 .. at
  BY LenProperties DEF Typed
<1>2. /\ \A k \in 1 .. at : g[k] = h[k]
      /\ g[at + 1] = x
  BY <1>1 DEF Handled, Incoming
<1>3. h \in Seq(Event) /\ Len(h) = at
  BY HandledType
<1>4. g \in Seq(Event) /\ Len(g) = at + 1
  <2>1. \A k \in 1 .. at : h[k] \in Event
    BY <1>3
  <2>2. \A k \in 1 .. at + 1 : g[k] \in Event
    <3> HIDE DEF g, h
    <3> QED BY <1>1, <1>2, <2>1
  <2>3. g = [k \in 1 .. at + 1 |-> g[k]]
    BY DEF Handled
  <2> HIDE DEF g
  <2> QED BY <1>1, <2>2, <2>3
<1>5. y \in Seq(Event) /\ Len(y) = 1 /\ y[1] = x
  OBVIOUS
<1> HIDE DEF g, h, y
<1>6. /\ w \in Seq(Event) /\ Len(w) = Len(h) + Len(y)
      /\ \A k \in 1 .. Len(h) + Len(y) : w[k] = IF k =< Len(h) THEN h[k] ELSE y[k - Len(h)]
  BY <1>3, <1>5, ConcatProperties
<1> HIDE DEF w
<1>7. ASSUME NEW k \in 1 .. at + 1
      PROVE  w[k] = g[k]
  <2>1. CASE k =< at
    BY <1>1, <1>2, <1>3, <1>5, <1>6, <2>1
  <2>2. CASE k = at + 1
    <3>1. ~(k =< at) /\ k - at = 1
      BY <1>1, <2>2
    <3> QED BY <1>2, <1>3, <1>5, <1>6, <2>2, <3>1
  <2> QED BY <1>1, <2>1, <2>2
<1>8. w = g
  BY <1>3, <1>4, <1>5, <1>6, <1>7, SeqEqual
<1> QED BY <1>8 DEF w, g, h, y

LEMMA HandledStep ==
  ASSUME Typed, Typed', [Next]_vars
  PROVE  /\ Data \/ Finish \/ Done => Handled' = Handled \o <<Incoming>>
         /\ Skip => Handled' = Handled \o <<Lost>>
         /\ Close \/ Send \/ Return \/ Read \/ Leave \/ UNCHANGED vars => Handled' = Handled
<1>1. CASE Data \/ Finish \/ Done
  <2>1. at < Len(script) /\ at' = at + 1 /\ script' = script /\ skipped' = skipped
    BY <1>1 DEF Data, Finish, Done
  <2>2. Incoming \in Event
    BY <2>1, IncomingType
  <2>3. Handled' = Handled \o <<Incoming>>
    BY <2>1, <2>2, HandledGrows
  <2>4. ~Skip /\ ~(Close \/ Send \/ Return \/ Read \/ Leave \/ UNCHANGED vars)
    <3>1. at' # at /\ at + 1 \notin skipped
      BY <2>1 DEF Typed
    <3> QED BY <2>1, <3>1 DEF Skip, Close, Send, Return, Read, Leave, vars
  <2> QED BY <2>3, <2>4
<1>2. CASE Skip
  <2>1. at < Len(script) /\ at' = at + 1 /\ script' = script /\ skipped' = skipped \cup {at + 1}
    BY <1>2 DEF Skip
  <2>2. Handled' = Handled \o <<Lost>>
    BY <2>1, LostType, HandledGrows
  <2>3. ~(Data \/ Finish \/ Done) /\ ~(Close \/ Send \/ Return \/ Read \/ Leave \/ UNCHANGED vars)
    <3>1. at' # at /\ at + 1 \notin skipped
      BY <2>1 DEF Typed
    <3> QED BY <2>1, <3>1 DEF Data, Finish, Done, Close, Send, Return, Read, Leave, vars
  <2> QED BY <2>2, <2>3
<1>3. CASE Close \/ Send \/ Return \/ Read \/ Leave \/ UNCHANGED vars
  <2>1. UNCHANGED <<script, at, skipped>>
    BY <1>3 DEF Close, Send, Return, Read, Leave, vars
  <2>2. ~(Data \/ Finish \/ Done) /\ ~Skip
    <3>1. at \in Nat
      BY DEF Typed
    <3> QED BY <2>1, <3>1 DEF Data, Finish, Done, Skip
  <2> QED BY <2>1, <2>2 DEF Handled
<1> QED BY <1>1, <1>2, <1>3 DEF Next, Task

-----------------------------------------------------------------------------
(* The signals of a sequence of events, event by event. *)
Flags == [other : BOOLEAN, finish : BOOLEAN, done : BOOLEAN]

Signal == [e \in Event |-> SignalIn(e)]

LEMMA SignalType ==
  /\ Signal \in Lists(Event, Flags)
  /\ \A s \in Seq(Event) : Signals(s) = FlattenSeq(Mapped(Signal, s))
<1>1. \A e \in Event : SignalIn(e) \in Seq(Flags)
  <2> SUFFICES ASSUME NEW e \in Event
               PROVE  SignalIn(e) \in Seq(Flags)
    OBVIOUS
  <2>1. [other |-> e.other, finish |-> e.finish, done |-> e.done] \in Flags
    BY EventFields DEF Flags
  <2> QED BY <2>1 DEF SignalIn
<1>2. ASSUME NEW s \in Seq(Event)
      PROVE  Signals(s) = FlattenSeq(Mapped(Signal, s))
  <2>1. \A k \in DOMAIN s : s[k] \in Event
    OBVIOUS
  <2>2. [k \in DOMAIN s |-> SignalIn(s[k])] = Mapped(Signal, s)
    BY <2>1 DEF Mapped, Signal
  <2> QED BY <2>2 DEF Signals
<1> QED BY <1>1, <1>2 DEF Signal, Lists

LEMMA SignalsConcat ==
  ASSUME NEW s \in Seq(Event), NEW t \in Seq(Event)
  PROVE  /\ Signals(s) \in Seq(Flags)
         /\ Signals(s \o t) = Signals(s) \o Signals(t)
<1>1. s \o t \in Seq(Event)
  BY ConcatProperties
<1>2. /\ FlattenSeq(Mapped(Signal, s)) \in Seq(Flags)
      /\ FlattenSeq(Mapped(Signal, s \o t))
           = FlattenSeq(Mapped(Signal, s)) \o FlattenSeq(Mapped(Signal, t))
  BY SignalType, FlattenMapped
<1> QED BY <1>1, <1>2, SignalType

LEMMA SignalsOne == \A e \in Event : Signals(<<e>>) = SignalIn(e)
<1> SUFFICES ASSUME NEW e \in Event
             PROVE  Signals(<<e>>) = SignalIn(e)
  OBVIOUS
<1>1. <<e>> \in Seq(Event)
  OBVIOUS
<1>2. FlattenSeq(Mapped(Signal, <<e>>)) = Signal[e]
  BY SignalType, FlattenMappedOne
<1> QED BY <1>1, <1>2, SignalType DEF Signal

LEMMA SignalsNone == Signals(<<>>) = <<>>
<1>1. <<>> \in Seq(Event)
  OBVIOUS
<1> QED BY <1>1, SignalType, FlattenMappedNone

(* A flush adds none, and an event that is dropped has none. *)
LEMMA SignalsFlushed ==
  ASSUME NEW held, Buffers(held), NEW lost, NEW flushed \in FlushEvents(held, lost),
         NEW more \in Seq(Event)
  PROVE  Signals(flushed \o more) = Signals(more)
<1>1. flushed \in Seq(Event)
  BY FlushAndMore
<1> DEFINE m == Mapped(Signal, flushed)
<1>2. m \in Seq(Seq(Flags))
  BY <1>1, SignalType, MappedType
<1>3. DOMAIN m = 1 .. Len(flushed) /\ \A k \in 1 .. Len(flushed) : m[k] = Signal[flushed[k]]
  BY <1>1, MappedElements
<1> HIDE DEF m
<1>4. ASSUME NEW k \in 1 .. Len(flushed)
      PROVE  m[k] = <<>>
  <2>1. flushed[k] \in Event /\ k \in DOMAIN flushed
    BY <1>1, LenProperties
  <2>2. ~flushed[k].done /\ ~flushed[k].finish /\ ~flushed[k].other
    <3>1. PICK order : FlushedIn(order, flushed, held, lost)
      BY FlushType
    <3>2. flushed[k] = FlushEvent(order[k], held[order[k]])
      BY <2>1, <3>1 DEF FlushedIn
    <3> QED BY <3>2 DEF FlushEvent
  <2> QED BY <1>3, <2>1, <2>2 DEF Signal, SignalIn
<1>5. FlattenSeq(m) = <<>>
  <2>1. Len(m) = Len(flushed)
    BY <1>1, <1>2, <1>3, LenProperties
  <2> QED BY <1>2, <1>4, <2>1, FlattenBlank
<1>6. Signals(flushed) = <<>>
  BY <1>1, <1>5, SignalType DEF m
<1>7. Signals(more) \in Seq(Flags) /\ Signals(flushed \o more) = <<>> \o Signals(more)
  BY <1>1, <1>6, SignalsConcat
<1> QED BY <1>7, ConcatEmptySeq

LEMMA SignalsPassed ==
  ASSUME Buffers(streams), NEW e \in Event, ~e.done, NEW failing
  PROVE  Signals(Forwarded(e, failing)) = SignalIn(e)
<1> DEFINE y == Passed(e, failing)
<1>1. /\ y \in Event /\ y.other = e.other /\ y.finish = e.finish /\ y.done = e.done
      /\ Forwarded(e, failing) \in {<<>>, <<y>>}
      /\ e.finish \/ e.other => Forwarded(e, failing) = <<y>>
  BY PassedType, ForwardedType
<1> HIDE DEF y
<1>2. SignalIn(y) = SignalIn(e)
  BY <1>1 DEF SignalIn
<1>3. CASE Forwarded(e, failing) = <<y>>
  BY <1>1, <1>2, <1>3, SignalsOne
<1>4. CASE Forwarded(e, failing) = <<>> /\ ~e.finish /\ ~e.other
  BY <1>4, SignalsNone DEF SignalIn
<1> QED BY <1>1, <1>3, <1>4

-----------------------------------------------------------------------------
(***************************************************************************)
(* To a client that stays, what has been sent tells just what was read;    *)
(* what a client has, whether it stays or not, is the beginning of it.     *)
(***************************************************************************)
SignalsSent ==
  /\ ~gone => Signals(Sent) = Signals(Handled)
  /\ IsPrefix(Signals(received), Signals(Handled))

(* What is first in a sequence tells the beginning of what it tells. *)
LEMMA SignalsOfFirst ==
  ASSUME NEW r \in Seq(Event), NEW q \in Seq(Event), NEW o \in Seq(Event)
  PROVE  IsPrefix(Signals(r), Signals(r \o q \o o))
<1>1. r \o q \in Seq(Event)
  BY ConcatProperties
<1> DEFINE a == Signals(r)
           b == Signals(q)
           c == Signals(o)
<1>2. a \in Seq(Flags) /\ b \in Seq(Flags) /\ c \in Seq(Flags)
  BY SignalsConcat
<1>3. Signals(r \o q \o o) = (a \o b) \o c
  BY <1>1, SignalsConcat
<1> HIDE DEF a, b, c
<1>4. a \o b \in Seq(Flags) /\ IsPrefix(a, a \o b)
  BY <1>2, ConcatProperties, PrefixIsConcat
<1> QED BY <1>2, <1>3, <1>4, PrefixOfMore DEF a

(* A step of the task that adds to what was read adds to what is sent. *)
LEMMA SignalsGrow ==
  ASSUME Typed, Typed', SignalsSent, outbox = <<>>, UNCHANGED <<queue, received, gone>>,
         NEW x \in Seq(Event), Handled' = Handled \o x, Signals(outbox') = Signals(x)
  PROVE  SignalsSent'
<1>1. Sent \in Seq(Event) /\ outbox' \in Seq(Event) /\ Sent' = Sent \o outbox'
  BY SentGrows DEF Typed
<1>2. Handled \in Seq(Event) /\ received \in Seq(Event)
  BY HandledType DEF Typed
<1>3. /\ Signals(Sent') = Signals(Sent) \o Signals(x)
      /\ Signals(Handled') = Signals(Handled) \o Signals(x)
      /\ Signals(received) \in Seq(Flags) /\ Signals(Handled) \in Seq(Flags)
      /\ Signals(x) \in Seq(Flags)
  BY <1>1, <1>2, SignalsConcat
<1>4. IsPrefix(Signals(received), Signals(Handled'))
  BY <1>3, PrefixOfMore DEF SignalsSent
<1> QED BY <1>3, <1>4 DEF SignalsSent

LEMMA SignalsStep == Typed /\ Typed' /\ SignalsSent /\ [Next]_vars => SignalsSent'
<1> SUFFICES ASSUME Typed, Typed', SignalsSent, [Next]_vars
             PROVE  SignalsSent'
  OBVIOUS
<1>1. CASE Data
  <2>1. Incoming \in Event /\ ~Incoming.done
    BY <1>1, IncomingType DEF Data
  <2>2. PICK failing : outbox' = Forwarded(Incoming, failing)
    BY <1>1 DEF Data
  <2>3. Signals(outbox') = Signals(<<Incoming>>)
    BY <2>1, <2>2, SignalsPassed, SignalsOne DEF Typed
  <2>4. Handled' = Handled \o <<Incoming>> /\ <<Incoming>> \in Seq(Event)
    BY <1>1, <2>1, HandledStep
  <2> QED BY <1>1, <2>3, <2>4, SignalsGrow DEF Data, Reading
<1>2. CASE Finish
  <2>1. Incoming \in Event /\ ~Incoming.done
    BY <1>2, IncomingType, EventFields DEF Finish
  <2>2. PICK failing, lost : \E flushed \in FlushEvents(Rest(Incoming), lost) :
          outbox' = flushed \o Forwarded(Incoming, failing)
    BY <1>2 DEF Finish
  <2>3. PICK flushed \in FlushEvents(Rest(Incoming), lost) :
          outbox' = flushed \o Forwarded(Incoming, failing)
    BY <2>2
  <2>4. Buffers(Rest(Incoming)) /\ Forwarded(Incoming, failing) \in Seq(Event)
    BY <2>1, RestType, ForwardedType DEF Typed
  <2>5. Signals(outbox') = Signals(<<Incoming>>)
    BY <2>1, <2>3, <2>4, SignalsFlushed, SignalsPassed, SignalsOne DEF Typed
  <2>6. Handled' = Handled \o <<Incoming>> /\ <<Incoming>> \in Seq(Event)
    BY <1>2, <2>1, HandledStep
  <2> QED BY <1>2, <2>5, <2>6, SignalsGrow DEF Finish, Reading
<1>3. CASE Done
  <2>1. Incoming \in Event
    BY <1>3, IncomingType DEF Done
  <2>2. PICK lost : \E flushed \in FlushEvents(streams, lost) : outbox' = flushed \o <<Incoming>>
    BY <1>3 DEF Done
  <2>3. PICK flushed \in FlushEvents(streams, lost) : outbox' = flushed \o <<Incoming>>
    BY <2>2
  <2>4. <<Incoming>> \in Seq(Event)
    BY <2>1
  <2>5. Signals(outbox') = Signals(<<Incoming>>)
    <3>1. Buffers(streams)
      BY DEF Typed
    <3> QED BY <2>3, <2>4, <3>1, SignalsFlushed
  <2>6. Handled' = Handled \o <<Incoming>>
    BY <1>3, HandledStep
  <2> QED BY <1>3, <2>4, <2>5, <2>6, SignalsGrow DEF Done, Reading
<1>4. CASE Close
  <2>1. PICK lost : outbox' \in FlushEvents(streams, lost)
    BY <1>4 DEF Close
  <2>2. <<>> \in Seq(Event) /\ outbox' \in Seq(Event) /\ Handled \in Seq(Event)
    BY HandledType DEF Typed
  <2>3. outbox' \o <<>> = outbox' /\ Handled \o <<>> = Handled
    BY <2>2, ConcatEmptySeq
  <2>4. Signals(outbox' \o <<>>) = Signals(<<>>)
    <3>1. Buffers(streams)
      BY DEF Typed
    <3> QED BY <2>1, <2>2, <3>1, SignalsFlushed
  <2>5. Handled' = Handled \o <<>>
    BY <1>4, <2>3, HandledStep
  <2> QED BY <1>4, <2>2, <2>3, <2>4, <2>5, SignalsGrow DEF Close, Reading
<1>5. CASE Skip
  <2>1. Handled' = Handled \o <<Lost>> /\ <<Lost>> \in Seq(Event) /\ Signals(<<Lost>>) = <<>>
    BY <1>5, HandledStep, LostType, SignalsOne
  <2>2. outbox = <<>> /\ outbox' = <<>> /\ UNCHANGED <<queue, received, gone>>
    BY <1>5 DEF Skip, Reading
  <2> QED BY <2>1, <2>2, SignalsNone, SignalsGrow
<1>6. CASE Send \/ Read \/ Return \/ Leave \/ UNCHANGED vars
  <2>1. Handled' = Handled
    BY <1>6, HandledStep
  <2>2. ~gone => Sent' = Sent
    BY <1>6, SentMoves
  <2>3. ~gone' => ~gone
    BY <1>6 DEF Send, Read, Return, Leave, vars
  <2>4. ~gone' => Signals(Sent') = Signals(Handled')
    BY <2>1, <2>2, <2>3 DEF SignalsSent
  <2>5. CASE received' = received
    BY <2>1, <2>4, <2>5 DEF SignalsSent
  <2>6. CASE Read
    <3>1. ~gone /\ ~gone'
      BY <2>6 DEF Read
    <3>2. IsPrefix(Signals(received'), Signals(Sent'))
      BY SignalsOfFirst DEF Typed, Sent
    <3> QED BY <2>4, <3>1, <3>2 DEF SignalsSent
  <2> QED BY <1>6, <2>5, <2>6 DEF Send, Return, Leave, vars
<1> QED BY <1>1, <1>2, <1>3, <1>4, <1>5, <1>6 DEF Next, Task

LEMMA EndedIsSent ==
  Typed /\ pc = "ended" /\ queue = <<>> => Sent = received
<1> SUFFICES ASSUME Typed, pc = "ended", queue = <<>>
             PROVE  Sent = received
  OBVIOUS
<1>1. outbox = <<>> /\ received \in Seq(Event)
  BY DEF Typed
<1>2. received \o <<>> = received
  BY <1>1, ConcatEmptySeq
<1> QED BY <1>1, <1>2 DEF Sent

(***************************************************************************)
(* Roles, finish reasons and the sentinel reach the client one for one and *)
(* in their order, all of them if it stays, whatever is held back and      *)
(* whatever lookups fail (should_forward).                                 *)
(***************************************************************************)
THEOREM SignalsReachTheClient == Spec => []SignalsForwarded
<1>1. Init => SignalsSent
  <2> SUFFICES ASSUME Init
               PROVE  SignalsSent
    OBVIOUS
  <2>1. Handled = <<>>
    BY InitTyped, HandledType, EmptySeq DEF Init
  <2>2. Sent = <<>> /\ received = <<>>
    BY DEF Init, Sent
  <2>3. IsPrefix(<<>>, <<>>)
    <3>1. <<>> \in Seq(Flags) /\ <<>> \o <<>> = <<>>
      OBVIOUS
    <3> QED BY <3>1, PrefixIsConcat
  <2> QED BY <2>1, <2>2, <2>3, SignalsNone DEF SignalsSent
<1>2. Typed /\ SignalsSent => SignalsForwarded
  BY EndedIsSent DEF SignalsSent, SignalsForwarded
<1> QED BY <1>1, <1>2, InitTyped, TypedStep, SignalsStep, PTL DEF Spec

-----------------------------------------------------------------------------
(***************************************************************************)
(* To a client that stays, what has been sent ends as EndsLast says, and   *)
(* when a finish reason is among it, no buffer holds anything any more and *)
(* the upstream has said all it has to say.  A client that has left has    *)
(* what it had.                                                            *)
(***************************************************************************)
Ends(s) ==
  \A k, l \in DOMAIN s : k < l =>
    /\ ~s[k].done
    /\ s[k].finish => DOMAIN s[l].pieces = {}

SaidAll == DOMAIN streams = {} /\ \E l \in 1 .. at : script[l].finish

EndingSent ==
  ~gone =>
    /\ Ends(Sent)
    /\ \A k \in DOMAIN Sent :
         /\ Sent[k].done => pc # "reading"
         /\ Sent[k].finish => SaidAll

EndingInv == EndingSent /\ Ends(received)

LEMMA EndsConcat ==
  ASSUME NEW s \in Seq(Event), NEW t \in Seq(Event)
  PROVE  /\ Ends(s \o t) => Ends(s)
         /\ /\ Ends(s) /\ Ends(t)
            /\ \A k \in DOMAIN s, l \in DOMAIN t :
                 ~s[k].done /\ (s[k].finish => DOMAIN t[l].pieces = {})
            => Ends(s \o t)
<1>1. /\ s \o t \in Seq(Event) /\ Len(s) \in Nat /\ Len(t) \in Nat
      /\ DOMAIN s = 1 .. Len(s) /\ DOMAIN t = 1 .. Len(t) /\ DOMAIN (s \o t) = 1 .. Len(s) + Len(t)
      /\ \A k \in 1 .. Len(s) + Len(t) : (s \o t)[k] = IF k =< Len(s) THEN s[k] ELSE t[k - Len(s)]
  BY ConcatProperties, LenProperties
<1> DEFINE u == s \o t
<1> HIDE DEF u
<1>2. ASSUME Ends(u)
      PROVE  Ends(s)
  BY <1>1, <1>2 DEF Ends, u
<1>3. ASSUME Ends(s), Ends(t),
             \A k \in DOMAIN s, l \in DOMAIN t :
               ~s[k].done /\ (s[k].finish => DOMAIN t[l].pieces = {}),
             NEW k \in DOMAIN u, NEW l \in DOMAIN u, k < l
      PROVE  ~u[k].done /\ (u[k].finish => DOMAIN u[l].pieces = {})
  <2>1. CASE l =< Len(s)
    <3>1. k \in DOMAIN s /\ l \in DOMAIN s /\ u[k] = s[k] /\ u[l] = s[l]
      BY <1>1, <1>3, <2>1 DEF u
    <3> QED BY <3>1, <1>3 DEF Ends
  <2>2. CASE k =< Len(s) /\ l > Len(s)
    <3>1. k \in DOMAIN s /\ l - Len(s) \in DOMAIN t /\ u[k] = s[k] /\ u[l] = t[l - Len(s)]
      BY <1>1, <1>3, <2>2 DEF u
    <3> QED BY <3>1, <1>3
  <2>3. CASE k > Len(s)
    <3>1. /\ k - Len(s) \in DOMAIN t /\ l - Len(s) \in DOMAIN t /\ k - Len(s) < l - Len(s)
          /\ u[k] = t[k - Len(s)] /\ u[l] = t[l - Len(s)]
      BY <1>1, <1>3, <2>3 DEF u
    <3> QED BY <3>1, <1>3 DEF Ends
  <2> QED BY <1>1, <1>3, <2>1, <2>2, <2>3 DEF u
<1>4. (Ends(u) => Ends(s)) /\
      (/\ Ends(s) /\ Ends(t)
       /\ \A k \in DOMAIN s, l \in DOMAIN t :
            ~s[k].done /\ (s[k].finish => DOMAIN t[l].pieces = {})
       => Ends(u))
  <2>1. SUFFICES ASSUME Ends(s), Ends(t),
                        \A k \in DOMAIN s, l \in DOMAIN t :
                          ~s[k].done /\ (s[k].finish => DOMAIN t[l].pieces = {})
                 PROVE  Ends(u)
    BY <1>2
  <2> QED BY <2>1, <1>3 DEF Ends
<1> QED BY <1>4 DEF u

(* What the upstream's reader sends keeps an ending. *)
LEMMA EndingGrows ==
  ASSUME Typed, Typed', EndingInv, outbox = <<>>, pc = "reading",
         UNCHANGED <<queue, received, gone>>, Ends(outbox'),
         SaidAll => SaidAll' /\ \A l \in DOMAIN outbox' : DOMAIN outbox'[l].pieces = {},
         \A l \in DOMAIN outbox' : /\ outbox'[l].done => pc' # "reading"
                                   /\ outbox'[l].finish => SaidAll'
  PROVE  EndingInv'
<1>1. Ends(received')
  BY DEF EndingInv
<1> SUFFICES ASSUME ~gone
             PROVE  EndingSent'
  BY <1>1 DEF EndingInv, EndingSent
<1>2. Sent \in Seq(Event) /\ outbox' \in Seq(Event) /\ Sent' = Sent \o outbox'
  BY SentGrows DEF Typed
<1>3. /\ Ends(Sent)
      /\ \A k \in DOMAIN Sent : ~Sent[k].done /\ (Sent[k].finish => SaidAll)
  BY DEF EndingInv, EndingSent
<1>4. Ends(Sent \o outbox')
  BY <1>2, <1>3, EndsConcat
<1>5. ASSUME NEW k \in DOMAIN (Sent \o outbox')
      PROVE  /\ (Sent \o outbox')[k].done => pc' # "reading"
             /\ (Sent \o outbox')[k].finish => SaidAll'
  <2>1. /\ Len(Sent) \in Nat /\ Len(outbox') \in Nat
        /\ DOMAIN Sent = 1 .. Len(Sent) /\ DOMAIN outbox' = 1 .. Len(outbox')
        /\ k \in 1 .. Len(Sent) + Len(outbox')
        /\ (Sent \o outbox')[k] = IF k =< Len(Sent) THEN Sent[k] ELSE outbox'[k - Len(Sent)]
    BY <1>2, ConcatProperties, LenProperties
  <2>2. CASE k =< Len(Sent)
    BY <2>1, <2>2, <1>3
  <2>3. CASE k > Len(Sent)
    <3>1. k - Len(Sent) \in DOMAIN outbox'
      BY <2>1, <2>3
    <3> QED BY <2>1, <2>3, <3>1
  <2> QED BY <2>1, <2>2, <2>3
<1> QED BY <1>2, <1>4, <1>5 DEF EndingSent


LEMMA ForwardedEnds ==
  ASSUME Buffers(streams), NEW e \in Event, ~e.done, NEW failing
  PROVE  /\ Ends(Forwarded(e, failing))
         /\ \A l \in DOMAIN Forwarded(e, failing) :
              /\ ~Forwarded(e, failing)[l].done
              /\ Forwarded(e, failing)[l].finish = e.finish
              /\ DOMAIN Forwarded(e, failing)[l].pieces \subseteq DOMAIN e.pieces
<1> DEFINE y == Passed(e, failing)
<1>1. ~y.done /\ y.finish = e.finish /\ DOMAIN y.pieces \subseteq DOMAIN e.pieces
  BY PassedType
<1>2. Forwarded(e, failing) \in {<<>>, <<y>>}
  BY ForwardedType
<1> HIDE DEF y
<1>3. /\ \A l \in DOMAIN <<y>> : l = 1 /\ <<y>>[l] = y
      /\ DOMAIN <<>> = {}
  OBVIOUS
<1>4. Ends(<<y>>) /\ Ends(<<>>)
  BY <1>3 DEF Ends
<1> QED BY <1>1, <1>2, <1>3, <1>4

LEMMA FlushEnds ==
  ASSUME NEW held, Buffers(held), NEW lost, NEW flushed \in FlushEvents(held, lost)
  PROVE  /\ flushed \in Seq(Event)
         /\ Ends(flushed)
         /\ \A k \in DOMAIN flushed : ~flushed[k].done /\ ~flushed[k].finish
         /\ DOMAIN held = {} => DOMAIN flushed = {}
<1>1. /\ flushed \in Seq(Fit)
      /\ \A k \in DOMAIN flushed : ~flushed[k].done /\ ~flushed[k].finish
      /\ DOMAIN held = {} => flushed = <<>>
  BY FlushType
<1>2. flushed \in Seq(Event)
  BY <1>1 DEF Fit
<1>3. DOMAIN <<>> = {}
  OBVIOUS
<1> QED BY <1>1, <1>2, <1>3 DEF Ends

(* The end of what the upstream says. *)
LEMMA IncomingEnds ==
  ASSUME FinishAfterText, Typed, at < Len(script)
  PROVE  /\ SaidAll \/ Incoming.finish => DOMAIN Incoming.pieces = {}
         /\ Incoming.finish => \E l \in 1 .. at + 1 : script[l].finish
         /\ SaidAll => \E l \in 1 .. at + 1 : script[l].finish
<1>1. at \in Nat /\ at + 1 \in DOMAIN script /\ 1 .. at + 1 \subseteq DOMAIN script /\ script \in Scripts
  BY LenProperties DEF Typed
<1>2. \A l \in 1 .. at + 1 : script[l].finish => DOMAIN Incoming.pieces = {}
  BY <1>1 DEF FinishAfterText, Incoming
<1>3. 1 .. at \subseteq 1 .. at + 1 /\ at + 1 \in 1 .. at + 1
  BY <1>1
<1> QED BY <1>2, <1>3 DEF SaidAll, Incoming

LEMMA EndingStep ==
  FinishAfterText /\ Typed /\ Typed' /\ EndingInv /\ [Next]_vars => EndingInv'
<1> SUFFICES ASSUME FinishAfterText, Typed, Typed', EndingInv, [Next]_vars
             PROVE  EndingInv'
  OBVIOUS
<1>0. Buffers(streams) /\ DOMAIN None = {}
  BY NoneType DEF Typed
<1>1. CASE Data
  <2>1. Incoming \in Event /\ ~Incoming.done /\ ~Incoming.finish /\ at < Len(script)
    BY <1>1, IncomingType DEF Data
  <2>2. PICK failing : outbox' = Forwarded(Incoming, failing)
    BY <1>1 DEF Data
  <2>3. /\ Ends(outbox')
        /\ \A l \in DOMAIN outbox' : /\ ~outbox'[l].done /\ ~outbox'[l].finish
                                     /\ DOMAIN outbox'[l].pieces \subseteq DOMAIN Incoming.pieces
    BY <1>0, <2>1, <2>2, ForwardedEnds
  <2>4. streams' = Rest(Incoming) /\ DOMAIN streams' = DOMAIN streams \cup DOMAIN Incoming.pieces
        /\ at' = at + 1 /\ script' = script
    BY <1>0, <1>1, <2>1, RestType DEF Data
  <2>5. SaidAll => SaidAll' /\ DOMAIN Incoming.pieces = {}
    BY <2>1, <2>4, IncomingEnds DEF SaidAll
  <2> QED BY <1>1, <2>3, <2>5, EndingGrows DEF Data, Reading
<1>2. CASE Finish
  <2>1. Incoming \in Event /\ ~Incoming.done /\ Incoming.finish /\ at < Len(script)
    BY <1>2, IncomingType, EventFields DEF Finish
  <2>2. PICK failing, lost : \E flushed \in FlushEvents(Rest(Incoming), lost) :
          outbox' = flushed \o Forwarded(Incoming, failing)
    BY <1>2 DEF Finish
  <2>3. PICK flushed \in FlushEvents(Rest(Incoming), lost) :
          outbox' = flushed \o Forwarded(Incoming, failing)
    BY <2>2
  <2> DEFINE fw == Forwarded(Incoming, failing)
  <2>4. Buffers(Rest(Incoming)) /\ DOMAIN Rest(Incoming) = DOMAIN streams \cup DOMAIN Incoming.pieces
        /\ fw \in Seq(Event)
    BY <1>0, <2>1, RestType, ForwardedType
  <2>5. DOMAIN Incoming.pieces = {} /\ SaidAll'
    BY <1>0, <1>2, <2>1, IncomingEnds DEF Finish, SaidAll
  <2>6. /\ Ends(fw)
        /\ \A l \in DOMAIN fw : ~fw[l].done /\ DOMAIN fw[l].pieces = {}
    BY <1>0, <2>1, <2>5, ForwardedEnds
  <2>7. /\ flushed \in Seq(Event) /\ Ends(flushed)
        /\ \A k \in DOMAIN flushed : ~flushed[k].done /\ ~flushed[k].finish
        /\ SaidAll => DOMAIN flushed = {}
    BY <2>4, <2>5, FlushEnds DEF SaidAll
  <2> HIDE DEF fw
  <2>8. outbox' = flushed \o fw
    BY <2>3 DEF fw
  <2>9. Ends(outbox')
    BY <2>4, <2>6, <2>7, <2>8, EndsConcat DEF fw
  <2>10. ASSUME NEW l \in DOMAIN outbox'
         PROVE  ~outbox'[l].done /\ (SaidAll => DOMAIN outbox'[l].pieces = {})
    <3>1. fw \in Seq(Event)
      BY <2>4 DEF fw
    <3>2. \/ l \in DOMAIN flushed /\ outbox'[l] = flushed[l]
          \/ l - Len(flushed) \in DOMAIN fw /\ outbox'[l] = fw[l - Len(flushed)]
      BY <2>7, <2>8, <3>1, ConcatProperties, LenProperties
    <3> QED BY <2>6, <2>7, <3>2
  <2> QED BY <1>2, <2>5, <2>9, <2>10, EndingGrows DEF Finish, Reading
<1>3. CASE Done
  <2>1. Incoming \in Event /\ Incoming.done /\ at < Len(script)
    BY <1>3, IncomingType DEF Done
  <2>2. PICK lost : \E flushed \in FlushEvents(streams, lost) : outbox' = flushed \o <<Incoming>>
    BY <1>3 DEF Done
  <2>3. PICK flushed \in FlushEvents(streams, lost) : outbox' = flushed \o <<Incoming>>
    BY <2>2
  <2>4. /\ flushed \in Seq(Event) /\ Ends(flushed)
        /\ \A k \in DOMAIN flushed : ~flushed[k].done /\ ~flushed[k].finish
        /\ SaidAll => DOMAIN flushed = {}
    BY <1>0, FlushEnds DEF SaidAll
  <2>5. Incoming = Sentinel /\ DOMAIN Incoming.pieces = {} /\ ~Incoming.finish
    BY <2>1, <1>0, EventFields DEF Sentinel, None, Event
  <2> DEFINE y == Incoming
             t == <<y>>
  <2> HIDE DEF y
  <2>6. t \in Seq(Event) /\ DOMAIN t = {1} /\ t[1] = y
    BY <2>1 DEF y
  <2> HIDE DEF t
  <2>7. Ends(t)
    BY <2>6 DEF Ends
  <2>8. outbox' = flushed \o t
    BY <2>3 DEF t, y
  <2>9. ~y.finish /\ DOMAIN y.pieces = {}
    BY <2>5 DEF y
  <2>10. Ends(outbox')
    BY <2>4, <2>6, <2>7, <2>8, EndsConcat
  <2>11. ASSUME NEW l \in DOMAIN outbox'
         PROVE  ~outbox'[l].finish /\ (SaidAll => DOMAIN outbox'[l].pieces = {})
    <3>1. \/ l \in DOMAIN flushed /\ outbox'[l] = flushed[l]
          \/ l - Len(flushed) \in DOMAIN t /\ outbox'[l] = t[l - Len(flushed)]
      BY <2>4, <2>6, <2>8, ConcatProperties, LenProperties
    <3> QED BY <2>4, <2>6, <2>9, <3>1
  <2>12. SaidAll => SaidAll'
    BY <1>0, <1>3, <2>1, IncomingEnds DEF Done, SaidAll
  <2> QED BY <1>3, <2>10, <2>11, <2>12, EndingGrows DEF Done, Reading
<1>4. CASE Close
  <2>1. PICK lost : outbox' \in FlushEvents(streams, lost)
    BY <1>4 DEF Close
  <2>2. /\ Ends(outbox')
        /\ \A k \in DOMAIN outbox' : ~outbox'[k].done /\ ~outbox'[k].finish
        /\ SaidAll => DOMAIN outbox' = {}
    BY <1>0, <2>1, FlushEnds DEF SaidAll
  <2>3. SaidAll => SaidAll'
    BY <1>0, <1>4 DEF Close, SaidAll
  <2> QED BY <1>4, <2>2, <2>3, EndingGrows DEF Close, Reading
<1>5. CASE Send \/ Read \/ Return \/ Skip \/ Leave \/ UNCHANGED vars
  <2>1. SaidAll => SaidAll'
    <3>1. at < Len(script) => 1 .. at \subseteq 1 .. at + 1
      BY DEF Typed
    <3> QED BY <1>5, <3>1 DEF Send, Read, Return, Skip, Leave, vars, SaidAll
  <2>2. pc # "reading" => pc' # "reading"
    BY <1>5 DEF Send, Read, Return, Skip, Leave, vars
  <2>3. ~gone => Sent' = Sent
    BY <1>5, SentMoves
  <2>4. gone => gone'
    BY <1>5 DEF Send, Read, Return, Skip, Leave, vars
  <2>5. EndingSent'
    BY <2>1, <2>2, <2>3, <2>4 DEF EndingInv, EndingSent
  <2>6. Ends(received')
    <3>1. CASE ~gone
      <4>1. Ends(Sent')
        BY <2>3, <3>1 DEF EndingInv, EndingSent
      <4>2. Sent' = received' \o queue' \o outbox' /\ received' \in Seq(Event)
            /\ queue' \in Seq(Event) /\ outbox' \in Seq(Event)
        BY DEF Sent, Typed
      <4>3. received' \o queue' \in Seq(Event)
        BY <4>2, ConcatProperties
      <4>4. Ends(received' \o queue')
        BY <4>1, <4>2, <4>3, EndsConcat
      <4> QED BY <4>2, <4>4, EndsConcat
    <3>2. CASE gone
      BY <1>5, <3>2 DEF EndingInv, Send, Read, Return, Skip, Leave, vars
    <3> QED BY <3>1, <3>2
  <2> QED BY <2>5, <2>6 DEF EndingInv
<1> QED BY <1>1, <1>2, <1>3, <1>4, <1>5 DEF Next, Task

LEMMA InitEnds == Init => EndingInv
<1> SUFFICES ASSUME Init
             PROVE  EndingInv
  OBVIOUS
<1>1. received = <<>> /\ queue = <<>> /\ outbox = <<>>
  BY DEF Init
<1>2. received \o queue \o outbox = <<>> /\ DOMAIN <<>> = {}
  BY <1>1
<1> QED BY <1>1, <1>2 DEF EndingInv, EndingSent, Ends, Sent

(***************************************************************************)
(* When an upstream says nothing after a finish reason, then to the client *)
(* it is the last with text, and [DONE] the last of all: the tails the     *)
(* flushes send come before, whatever is lost and however the stream ends. *)
(***************************************************************************)
THEOREM EndingsComeLast == FinishAfterText => (Spec => []EndsLast)
<1> SUFFICES ASSUME FinishAfterText
             PROVE  Spec => []EndsLast
  OBVIOUS
<1>1. Typed /\ Typed' /\ EndingInv /\ [Next]_vars => EndingInv'
  BY EndingStep
<1>2. EndingInv => EndsLast
  BY DEF EndingInv, Ends, EndsLast
<1> QED BY <1>1, <1>2, InitTyped, TypedStep, InitEnds, PTL DEF Spec


-----------------------------------------------------------------------------
(***************************************************************************)
(* Texts with a path each: every event is Fit, wherever it is.             *)
(***************************************************************************)
FitInv == received \in Seq(Fit) /\ queue \in Seq(Fit) /\ outbox \in Seq(Fit)

LEMMA ScriptFits ==
  ASSUME OneChoice, Typed
  PROVE  Lost \in Fit /\ \A k \in 1 .. Len(script) : script[k] \in Fit
<1>1. script \in Seq(Event) /\ DOMAIN script = 1 .. Len(script) /\ script \in Scripts
  BY LenProperties DEF Typed
<1>2. \A k \in 1 .. Len(script) : script[k] \in Event /\ InPlace(script[k])
  BY <1>1 DEF InPlace, OneChoice
<1> QED BY <1>2, LostType DEF Fit, InPlace

LEMMA IncomingFits ==
  ASSUME OneChoice, Typed, at < Len(script)
  PROVE  Incoming \in Fit
<1>1. at + 1 \in 1 .. Len(script)
  BY IncomingType
<1> QED BY <1>1, ScriptFits DEF Incoming

LEMMA ForwardedFits ==
  ASSUME Buffers(streams), NEW e \in Fit, ~e.done, NEW failing
  PROVE  Forwarded(e, failing) \in Seq(Fit)
<1> DEFINE y == Passed(e, failing)
<1>1. e \in Event /\ InPlace(e)
  BY DEF Fit
<1>2. /\ y \in Event /\ DOMAIN y.pieces \subseteq DOMAIN e.pieces
      /\ \A p \in DOMAIN y.pieces : y.pieces[p].owner = e.pieces[p].owner
  BY <1>1, PassedType
<1>3. Forwarded(e, failing) \in {<<>>, <<y>>}
  BY <1>1, ForwardedType
<1> HIDE DEF y
<1>4. y \in Fit
  BY <1>1, <1>2 DEF Fit, InPlace
<1>5. <<y>> \in Seq(Fit) /\ <<>> \in Seq(Fit)
  BY <1>4
<1> QED BY <1>3, <1>5

LEMMA FitStep == OneChoice /\ Typed /\ FitInv /\ [Next]_vars => FitInv'
<1> SUFFICES ASSUME OneChoice, Typed, FitInv, [Next]_vars
             PROVE  FitInv'
  OBVIOUS
<1>0. Buffers(streams)
  BY DEF Typed
<1>1. CASE Data
  <2>1. Incoming \in Fit /\ ~Incoming.done
    BY <1>1, IncomingFits DEF Data
  <2>2. PICK failing : outbox' = Forwarded(Incoming, failing)
    BY <1>1 DEF Data
  <2>3. outbox' \in Seq(Fit)
    BY <1>0, <2>1, <2>2, ForwardedFits
  <2> QED BY <1>1, <2>3 DEF FitInv, Data
<1>2. CASE Finish
  <2>1. Incoming \in Fit /\ Incoming \in Event /\ ~Incoming.done
    BY <1>2, IncomingFits, IncomingType, EventFields DEF Finish
  <2>2. PICK failing, lost : \E flushed \in FlushEvents(Rest(Incoming), lost) :
          outbox' = flushed \o Forwarded(Incoming, failing)
    BY <1>2 DEF Finish
  <2>3. PICK flushed \in FlushEvents(Rest(Incoming), lost) :
          outbox' = flushed \o Forwarded(Incoming, failing)
    BY <2>2
  <2>4. Buffers(Rest(Incoming)) /\ Forwarded(Incoming, failing) \in Seq(Fit)
    BY <1>0, <2>1, RestType, ForwardedFits
  <2>5. flushed \in Seq(Fit)
    BY <2>4, FlushType
  <2>6. outbox' \in Seq(Fit)
    BY <2>3, <2>4, <2>5, ConcatProperties
  <2> QED BY <1>2, <2>6 DEF FitInv, Finish
<1>3. CASE Done
  <2>1. <<Incoming>> \in Seq(Fit)
    BY <1>3, IncomingFits DEF Done
  <2>2. PICK lost : \E flushed \in FlushEvents(streams, lost) : outbox' = flushed \o <<Incoming>>
    BY <1>3 DEF Done
  <2>3. PICK flushed \in FlushEvents(streams, lost) : outbox' = flushed \o <<Incoming>>
    BY <2>2
  <2>4. flushed \in Seq(Fit)
    BY <1>0, FlushType
  <2>5. outbox' \in Seq(Fit)
    BY <2>1, <2>3, <2>4, ConcatProperties
  <2> QED BY <1>3, <2>5 DEF FitInv, Done
<1>4. CASE Close
  <2>1. PICK lost : outbox' \in FlushEvents(streams, lost)
    BY <1>4 DEF Close
  <2>2. outbox' \in Seq(Fit)
    BY <1>0, <2>1, FlushType
  <2> QED BY <1>4, <2>2 DEF FitInv, Close
<1>5. CASE Send
  <2>1. Head(outbox) \in Fit /\ Tail(outbox) \in Seq(Fit)
    BY <1>5, HeadTailProperties DEF FitInv, Send
  <2>2. queue' \in Seq(Fit)
    <3>1. queue \in Seq(Fit) /\ queue' \in {queue, Append(queue, Head(outbox))}
      BY <1>5 DEF FitInv, Send
    <3> QED BY <2>1, <3>1, AppendProperties
  <2> QED BY <1>5, <2>1, <2>2 DEF FitInv, Send
<1>6. CASE Read
  <2>1. Head(queue) \in Fit /\ Tail(queue) \in Seq(Fit)
    BY <1>6, HeadTailProperties DEF FitInv, Read
  <2>2. received' \in Seq(Fit)
    BY <1>6, <2>1, AppendProperties DEF FitInv, Read
  <2> QED BY <1>6, <2>1, <2>2 DEF FitInv, Read
<1>7. CASE Skip \/ Return \/ Leave \/ UNCHANGED vars
  BY <1>7 DEF FitInv, Skip, Return, Leave, vars
<1> QED BY <1>1, <1>2, <1>3, <1>4, <1>5, <1>6, <1>7 DEF Next, Task

-----------------------------------------------------------------------------
(***************************************************************************)
(* What the upstream has said to o, with the originals for the tokens, and *)
(* how a step adds to it.                                                  *)
(***************************************************************************)
Said(o) == Restored(TextFor(o, Handled))

LEMMA SaidType ==
  ASSUME OneChoice, Typed, NEW o \in Owner
  PROVE  /\ Handled \in Seq(Fit)
         /\ TextFor(o, Handled) \in Seq(Char)
         /\ Said(o) \in Seq(Char)
<1>1. Handled \in Seq(Event) /\ Len(Handled) = at /\ \A k \in 1 .. at : Handled[k] \in Fit
  <2>1. at \in Nat /\ 1 .. at \subseteq 1 .. Len(script)
    BY LenProperties DEF Typed
  <2> QED BY <2>1, HandledType, ScriptFits DEF Handled
<1> DEFINE h == Handled
<1> HIDE DEF h
<1>2. h \in Seq(Fit)
  BY <1>1 DEF h
<1>3. TextFor(o, h) \in Seq(Char)
  BY <1>2, TextForConcat
<1>4. Restored(TextFor(o, h)) \in Seq(Char)
  BY <1>3, RestoredFacts
<1> QED BY <1>2, <1>3, <1>4 DEF h, Said

LEMMA SaidGrows ==
  ASSUME OneChoice, Typed, NEW o \in Owner, NEW x \in Fit, Handled' = Handled \o <<x>>
  PROVE  Said(o)' = Said(o) \o Restored(SaidTo(o, x))
<1>1. <<x>> \in Seq(Fit) /\ Handled \in Seq(Fit)
  BY SaidType
<1>2. TextFor(o, Handled \o <<x>>) = TextFor(o, Handled) \o SaidTo(o, x)
  BY <1>1, TextForConcat, TextForOne
<1>3. TextFor(o, Handled) \in Seq(Char) /\ SaidTo(o, x) \in Seq(Char)
  BY SaidType, SaidToFit
<1>4. Restored(TextFor(o, Handled) \o SaidTo(o, x)) = Said(o) \o Restored(SaidTo(o, x))
  BY <1>3, RestoredFacts DEF Said
<1>5. Said(o)' = Restored(TextFor(o, Handled'))
  BY DEF Said, TextFor, SaidTo, Restored
<1> QED BY <1>2, <1>4, <1>5

LEMMA SaidStep ==
  ASSUME OneChoice, Typed, Typed', [Next]_vars, NEW o \in Owner
  PROVE  /\ \E u \in Seq(Char) : Said(o)' = Said(o) \o u
         /\ Data \/ Finish \/ Done => Said(o)' = Said(o) \o Restored(SaidTo(o, Incoming))
         /\ ~(Data \/ Finish \/ Done) => Said(o)' = Said(o)
<1>1. <<>> \in Seq(Char) /\ Said(o) \in Seq(Char)
  BY SaidType
<1>2. Said(o) \o <<>> = Said(o)
  BY <1>1, ConcatEmptySeq
<1>3. CASE Data \/ Finish \/ Done
  <2>1. at < Len(script) /\ Handled' = Handled \o <<Incoming>>
    BY <1>3, HandledStep DEF Data, Finish, Done
  <2>2. Incoming \in Fit
    BY <2>1, IncomingFits
  <2>3. Said(o)' = Said(o) \o Restored(SaidTo(o, Incoming))
    BY <2>1, <2>2, SaidGrows
  <2>4. Restored(SaidTo(o, Incoming)) \in Seq(Char)
    BY <2>2, SaidToFit, RestoredFacts
  <2> QED BY <1>3, <2>3, <2>4
<1>4. CASE Skip
  <2>1. Handled' = Handled \o <<Lost>> /\ Lost \in Fit
    BY <1>4, HandledStep, ScriptFits
  <2>2. SaidTo(o, Lost) = <<>>
    BY <2>1, LostType, SaidToFit
  <2>3. Said(o)' = Said(o) \o Restored(SaidTo(o, Lost))
    BY <2>1, SaidGrows
  <2>4. Restored(<<>>) = <<>>
    BY <1>1, RestoredFacts
  <2>5. Said(o)' = Said(o)
    BY <2>2, <2>3, <2>4, <1>2
  <2>6. ~(Data \/ Finish \/ Done)
    <3>1. at + 1 \in skipped' /\ at + 1 \notin skipped
      BY <1>4 DEF Skip, Typed
    <3> QED BY <3>1 DEF Data, Finish, Done
  <2> QED BY <1>1, <1>2, <2>5, <2>6
<1>5. CASE Close \/ Send \/ Return \/ Read \/ Leave \/ UNCHANGED vars
  <2>1. UNCHANGED <<script, at, skipped>>
    BY <1>5 DEF Close, Send, Return, Read, Leave, vars
  <2>2. Said(o)' = Said(o)
    <3>1. Handled' = Handled
      BY <2>1 DEF Handled
    <3> QED BY <3>1 DEF Said, TextFor, SaidTo, Restored
  <2>3. ~(Data \/ Finish \/ Done)
    <3>1. at \in Nat
      BY DEF Typed
    <3> QED BY <2>1, <3>1 DEF Data, Finish, Done
  <2> QED BY <1>1, <1>2, <2>2, <2>3
<1> QED BY <1>3, <1>4, <1>5 DEF Next, Task


-----------------------------------------------------------------------------
(***************************************************************************)
(* To a client that stays, and unless a lookup failed, what has been sent  *)
(* of a text and what its buffer holds back are together what the upstream *)
(* has said of it.                                                         *)
(***************************************************************************)
Conserved ==
  ~gone /\ ~failed => \A o \in Owner : TextFor(o, Sent) \o Restored(TailFor(o, streams)) = Said(o)

LEMMA SentFits == FitInv => Sent \in Seq(Fit)
<1> SUFFICES ASSUME FitInv
             PROVE  Sent \in Seq(Fit)
  OBVIOUS
<1>1. received \o queue \in Seq(Fit) /\ outbox \in Seq(Fit)
  BY ConcatProperties DEF FitInv
<1> QED BY <1>1, ConcatProperties DEF Sent

LEMMA ConservedGrows ==
  ASSUME OneChoice, Typed, Typed', FitInv, outbox' \in Seq(Fit), Conserved, ~gone, ~failed,
         outbox = <<>>, UNCHANGED <<queue, received>>, NEW o \in Owner, NEW x \in Seq(Char),
         TextFor(o, outbox') \o Restored(TailFor(o, streams')) = Restored(TailFor(o, streams) \o x),
         Said(o)' = Said(o) \o Restored(x)
  PROVE  TextFor(o, Sent') \o Restored(TailFor(o, streams')) = Said(o)'
<1> DEFINE a == TextFor(o, Sent)
           b == TextFor(o, outbox')
           t == Restored(TailFor(o, streams))
           u == Restored(TailFor(o, streams'))
           y == Restored(x)
<1>1. TailFor(o, streams) \in Seq(Char) /\ TailFor(o, streams') \in Seq(Char)
  BY TailForFacts DEF Typed
<1>2. t \in Seq(Char) /\ u \in Seq(Char) /\ y \in Seq(Char)
  BY <1>1, RestoredFacts
<1>3. Restored(TailFor(o, streams) \o x) = t \o y
  BY <1>1, RestoredFacts
<1>4. Sent' = Sent \o outbox'
  BY SentGrows DEF Typed
<1>5. Sent \in Seq(Fit)
  BY SentFits
<1>6. a \in Seq(Char) /\ b \in Seq(Char) /\ TextFor(o, Sent \o outbox') = a \o b
  BY <1>5, TextForConcat
<1>7. a \o t = Said(o)
  BY DEF Conserved
<1>8. b \o u = t \o y
  BY <1>3
<1>9. TextFor(o, Sent') = a \o b
  BY <1>4, <1>6
<1>10. a \in Seq(Char) /\ b \in Seq(Char)
  BY <1>6
<1> HIDE DEF a, b, t, u, y
<1>11. (a \o b) \o u = (a \o t) \o y
  <2>1. Cat(b, u) = Cat(t, y)
    BY <1>8 DEF Cat
  <2>2. Cat(Cat(a, b), u) = Cat(Cat(a, t), y)
    BY <2>1, <1>2, <1>10, Exchange
  <2> QED BY <2>2 DEF Cat
<1>12. (a \o b) \o u = Said(o) \o y
  BY <1>7, <1>11
<1> QED BY <1>9, <1>12 DEF u, y

LEMMA NothingSaid ==
  ASSUME OneChoice, NEW e \in Fit, DOMAIN e.pieces = {}, NEW o \in Owner
  PROVE  SaidTo(o, e) = <<>> /\ TextFor(o, <<e>>) = <<>>
  BY SaidToFit, TextForOne

LEMMA TailForNone ==
  ASSUME OneChoice, NEW o \in Owner
  PROVE  TailFor(o, None) = <<>> /\ Restored(<<>>) = <<>> /\ <<>> \in Seq(Char)
<1>1. <<>> \in Seq(Char)
  OBVIOUS
<1>2. Restored(<<>>) = <<>>
  BY <1>1, RestoredFacts
<1>3. TailFor(o, None) = <<>>
  BY NoBuffers, NoneType, TailForFacts
<1> QED BY <1>1, <1>2, <1>3

(* After a flush and an event without strings the buffers are empty. *)
LEMMA FlushAllSays ==
  ASSUME OneChoice, NEW held, Buffers(held), NEW flushed \in FlushEvents(held, {}),
         NEW more \in Seq(Fit), NEW o \in Owner, TextFor(o, more) = <<>>
  PROVE  /\ flushed \o more \in Seq(Fit)
         /\ TextFor(o, flushed \o more) \o Restored(TailFor(o, None))
              = Restored(TailFor(o, held) \o <<>>)
<1>1. flushed \in Seq(Fit)
  BY FlushType
<1>2. TextFor(o, flushed) = Restored(TailFor(o, held))
  BY FlushSays
<1>3. TextFor(o, flushed \o more) = TextFor(o, flushed) \o TextFor(o, more)
      /\ TextFor(o, flushed) \in Seq(Char)
  BY <1>1, TextForConcat
<1>4. TailFor(o, held) \in Seq(Char)
  BY TailForFacts
<1>5. TailFor(o, held) \o <<>> = TailFor(o, held)
  BY <1>4, ConcatEmptySeq
<1> DEFINE a == TextFor(o, flushed)
<1> HIDE DEF a
<1>6. a \in Seq(Char)
  BY <1>3 DEF a
<1>7. a \o <<>> = a
  BY <1>6, ConcatEmptySeq
<1>8. TextFor(o, flushed \o more) \o Restored(TailFor(o, None)) = a
  BY <1>3, <1>7, TailForNone DEF a
<1>9. flushed \o more \in Seq(Fit)
  BY <1>1, ConcatProperties
<1> QED BY <1>2, <1>5, <1>8, <1>9 DEF a

LEMMA ConservedStep ==
  OneChoice /\ FinishAfterText /\ Typed /\ Typed' /\ FitInv /\ FitInv' /\ Conserved /\ [Next]_vars
    => Conserved'
<1> SUFFICES ASSUME OneChoice, FinishAfterText, Typed, Typed', FitInv, FitInv', Conserved,
                    [Next]_vars, ~gone', ~failed', NEW o \in Owner
             PROVE  TextFor(o, Sent') \o Restored(TailFor(o, streams')) = Said(o)'
  BY DEF Conserved
<1>0. ~gone /\ ~failed /\ Buffers(streams) /\ outbox' \in Seq(Fit)
  <2>1. gone => gone'
    BY DEF Next, Task, Data, Finish, Done, Close, Skip, Send, Return, Read, Leave, vars
  <2>2. failed => failed'
    BY DEF Next, Task, Data, Finish, Done, Close, Skip, Send, Return, Read, Leave, vars
  <2> QED BY <2>1, <2>2 DEF Typed, FitInv
<1>1. CASE Data
  <2>1. Incoming \in Fit /\ ~Incoming.done
    BY <1>1, IncomingFits DEF Data
  <2>2. PICK failing : outbox' = Forwarded(Incoming, failing) /\ failed' = (failed \/ failing # {})
    BY <1>1 DEF Data
  <2>3. outbox' = Forwarded(Incoming, {})
    BY <2>2
  <2> DEFINE x == SaidTo(o, Incoming)
  <2>4. x \in Seq(Char)
    BY <2>1, SaidToFit
  <2>5. streams' = Rest(Incoming) /\ outbox = <<>> /\ UNCHANGED <<queue, received>>
    BY <1>1 DEF Data, Reading
  <2>6. TextFor(o, outbox') \o Restored(TailFor(o, streams')) = Restored(TailFor(o, streams) \o x)
    BY <1>0, <2>1, <2>3, <2>5, PassSays
  <2>7. Said(o)' = Said(o) \o Restored(x)
    BY <1>1, SaidStep
  <2> HIDE DEF x
  <2> QED BY <1>0, <2>4, <2>5, <2>6, <2>7, ConservedGrows
<1>2. CASE Finish
  <2>1. /\ Incoming \in Fit /\ Incoming \in Event /\ ~Incoming.done /\ Incoming.finish
        /\ at < Len(script)
    BY <1>2, IncomingFits, IncomingType, EventFields DEF Finish
  <2>2. PICK failing, lost : \E flushed \in FlushEvents(Rest(Incoming), lost) :
          /\ outbox' = flushed \o Forwarded(Incoming, failing)
          /\ failed' = (failed \/ failing # {} \/ lost # {})
    BY <1>2 DEF Finish
  <2>3. failing = {} /\ lost = {}
    BY <2>2
  <2>4. PICK flushed \in FlushEvents(Rest(Incoming), {}) :
          outbox' = flushed \o Forwarded(Incoming, {})
    BY <2>2, <2>3
  <2>5. DOMAIN Incoming.pieces = {}
    BY <2>1, IncomingEnds
  <2>6. /\ Buffers(Rest(Incoming)) /\ DOMAIN Rest(Incoming) = DOMAIN streams
        /\ \A p \in DOMAIN streams : Rest(Incoming)[p] = streams[p]
    <3>1. /\ Buffers(Rest(Incoming)) /\ DOMAIN Rest(Incoming) = DOMAIN streams
          /\ \A p \in DOMAIN Rest(Incoming) : Rest(Incoming)[p] = Kept(Grown(Incoming)[p])
      BY <1>0, <2>1, <2>5, RestType
    <3>2. \A p \in DOMAIN streams : Grown(Incoming)[p] = streams[p]
      BY <1>0, <2>1, <2>5, GrownType
    <3>3. \A p \in DOMAIN streams : streams[p] \in Seq(Char) /\ Len(streams[p]) =< Window
      BY <1>0, BuffersType DEF Buffers
    <3> QED BY <3>1, <3>2, <3>3, WindowDivides
  <2>7. TailFor(o, Rest(Incoming)) = TailFor(o, streams)
    <3>1. CASE \E p \in DOMAIN streams : FlushOwner[p] = o
      BY <3>1, <1>0, <2>6, TailForFacts
    <3>2. CASE \A p \in DOMAIN streams : FlushOwner[p] # o
      BY <3>2, <1>0, <2>6, TailForFacts
    <3> QED BY <3>1, <3>2
  <2> DEFINE fw == Forwarded(Incoming, {})
  <2>8. fw \in Seq(Fit) /\ TextFor(o, fw) = <<>>
    <3> DEFINE y == Passed(Incoming, {})
    <3>1. y \in Event /\ DOMAIN y.pieces = {}
      BY <1>0, <2>1, <2>5, PassedType
    <3>2. fw \in {<<>>, <<y>>}
      BY <1>0, <2>1, ForwardedType
    <3> HIDE DEF y
    <3>3. y \in Fit
      BY <3>1 DEF Fit, InPlace
    <3>4. fw \in Seq(Fit)
      BY <1>0, <2>1, ForwardedFits
    <3>5. TextFor(o, <<>>) = <<>> /\ TextFor(o, <<y>>) = <<>>
      BY <3>1, <3>3, NothingSaid, TextForNone
    <3> QED BY <3>2, <3>4, <3>5
  <2> HIDE DEF fw
  <2>9. outbox' = flushed \o fw
    BY <2>4 DEF fw
  <2> DEFINE held == Rest(Incoming)
  <2>10. Buffers(held) /\ flushed \in FlushEvents(held, {}) /\ TailFor(o, held) = TailFor(o, streams)
    BY <2>6, <2>7
  <2> HIDE DEF held
  <2>11. TextFor(o, flushed \o fw) \o Restored(TailFor(o, None)) = Restored(TailFor(o, held) \o <<>>)
    BY <2>8, <2>10, FlushAllSays
  <2>12. streams' = None /\ outbox = <<>> /\ UNCHANGED <<queue, received>>
    BY <1>2 DEF Finish, Reading
  <2>13. Said(o)' = Said(o) \o Restored(<<>>)
    <3>1. SaidTo(o, Incoming) = <<>>
      BY <2>1, <2>5, NothingSaid
    <3> QED BY <3>1, <1>2, SaidStep
  <2>14. TextFor(o, outbox') \o Restored(TailFor(o, streams')) = Restored(TailFor(o, streams) \o <<>>)
    BY <2>9, <2>10, <2>11, <2>12
  <2> DEFINE x == <<>>
  <2>15. x \in Seq(Char)
    OBVIOUS
  <2> HIDE DEF x
  <2> QED BY <1>0, <2>12, <2>13, <2>14, <2>15, ConservedGrows DEF x
<1>3. CASE Done
  <2>1. /\ Incoming \in Fit /\ Incoming \in Event /\ Incoming.done
    BY <1>3, IncomingFits, IncomingType DEF Done
  <2>2. PICK lost : \E flushed \in FlushEvents(streams, lost) :
          outbox' = flushed \o <<Incoming>> /\ failed' = (failed \/ lost # {})
    BY <1>3 DEF Done
  <2>3. lost = {}
    BY <2>2
  <2>4. PICK flushed \in FlushEvents(streams, {}) : outbox' = flushed \o <<Incoming>>
    BY <2>2, <2>3
  <2>5. SaidTo(o, Incoming) = <<>> /\ TextFor(o, <<Incoming>>) = <<>>
    BY <2>1, EventFields, NothingSaid
  <2> DEFINE more == <<Incoming>>
  <2>6. more \in Seq(Fit) /\ TextFor(o, more) = <<>> /\ outbox' = flushed \o more
    BY <2>1, <2>4, <2>5
  <2> HIDE DEF more
  <2>7. TextFor(o, flushed \o more) \o Restored(TailFor(o, None))
          = Restored(TailFor(o, streams) \o <<>>)
    BY <1>0, <2>6, FlushAllSays
  <2>8. streams' = None /\ outbox = <<>> /\ UNCHANGED <<queue, received>>
    BY <1>3 DEF Done, Reading
  <2>9. Said(o)' = Said(o) \o Restored(<<>>)
    BY <2>5, <1>3, SaidStep
  <2>10. TextFor(o, outbox') \o Restored(TailFor(o, streams')) = Restored(TailFor(o, streams) \o <<>>)
    BY <2>6, <2>7, <2>8
  <2> DEFINE x == <<>>
  <2>11. x \in Seq(Char)
    OBVIOUS
  <2> HIDE DEF x
  <2> QED BY <1>0, <2>8, <2>9, <2>10, <2>11, ConservedGrows DEF x
<1>4. CASE Close
  <2>1. PICK lost : outbox' \in FlushEvents(streams, lost) /\ failed' = (failed \/ lost # {})
    BY <1>4 DEF Close
  <2>2. outbox' \in FlushEvents(streams, {})
    BY <2>1
  <2> DEFINE more == <<>>
  <2>3. more \in Seq(Fit) /\ TextFor(o, more) = <<>> /\ outbox' = outbox' \o more
    BY <1>0, TextForNone, ConcatEmptySeq
  <2> HIDE DEF more
  <2>4. TextFor(o, outbox' \o more) \o Restored(TailFor(o, None))
          = Restored(TailFor(o, streams) \o <<>>)
    BY <1>0, <2>2, <2>3, FlushAllSays
  <2>5. streams' = None /\ outbox = <<>> /\ UNCHANGED <<queue, received, script, at, skipped>>
    BY <1>4 DEF Close, Reading
  <2>6. Said(o)' = Said(o) \o Restored(<<>>)
    <3>1. ~(Data \/ Finish \/ Done)
      <4>1. at' = at /\ at \in Nat
        BY <2>5 DEF Typed
      <4> QED BY <4>1 DEF Data, Finish, Done
    <3>2. Said(o)' = Said(o) /\ Said(o) \in Seq(Char)
      BY <3>1, SaidStep, SaidType
    <3>3. Said(o) \o <<>> = Said(o)
      BY <3>2, ConcatEmptySeq
    <3> QED BY <3>2, <3>3, TailForNone
  <2>7. TextFor(o, outbox') \o Restored(TailFor(o, streams')) = Restored(TailFor(o, streams) \o <<>>)
    BY <2>3, <2>4, <2>5
  <2> DEFINE x == <<>>
  <2>8. x \in Seq(Char)
    OBVIOUS
  <2> HIDE DEF x
  <2> QED BY <1>0, <2>5, <2>6, <2>7, <2>8, ConservedGrows DEF x
<1>5. CASE Send \/ Read \/ Return \/ Skip \/ Leave \/ UNCHANGED vars
  <2>1. Sent' = Sent
    BY <1>0, <1>5, SentMoves
  <2>2. streams' = streams
    BY <1>5 DEF Send, Read, Return, Skip, Leave, vars
  <2>3. ~(Data \/ Finish \/ Done)
    <3>1. at \in Nat /\ skipped \subseteq 1 .. at
      BY DEF Typed
    <3>2. CASE Skip
      <4>1. at + 1 \in skipped' /\ at + 1 \notin skipped
        BY <3>1, <3>2 DEF Skip
      <4> QED BY <4>1 DEF Data, Finish, Done
    <3>3. CASE Send \/ Read \/ Return \/ Leave \/ UNCHANGED vars
      <4>1. at' = at
        BY <3>3 DEF Send, Read, Return, Leave, vars
      <4> QED BY <3>1, <4>1 DEF Data, Finish, Done
    <3> QED BY <1>5, <3>2, <3>3
  <2>4. Said(o)' = Said(o)
    BY <2>3, SaidStep
  <2> QED BY <1>0, <2>1, <2>2, <2>4 DEF Conserved
<1> QED BY <1>1, <1>2, <1>3, <1>4, <1>5 DEF Next, Task


-----------------------------------------------------------------------------
(***************************************************************************)
(* What a client has received of a text begins what the upstream has said  *)
(* of it: with a client that stays because it is part of what was sent;    *)
(* one that has left keeps what it had.                                    *)
(***************************************************************************)
HeardInv == gone /\ ~failed => \A o \in Owner : IsPrefix(TextFor(o, received), Said(o))

TextInv == Typed /\ FitInv /\ Conserved /\ HeardInv

LEMMA HeardOfSaid ==
  ASSUME OneChoice, TextInv, ~failed, NEW o \in Owner
  PROVE  IsPrefix(TextFor(o, received), Said(o))
<1>1. CASE gone
  BY <1>1 DEF TextInv, HeardInv
<1>2. CASE ~gone
  <2> DEFINE a == TextFor(o, received)
             b == TextFor(o, queue)
             c == TextFor(o, outbox)
             t == Restored(TailFor(o, streams))
  <2>1. received \in Seq(Fit) /\ queue \in Seq(Fit) /\ outbox \in Seq(Fit)
    BY DEF TextInv, FitInv
  <2>2. received \o queue \in Seq(Fit)
    BY <2>1, ConcatProperties
  <2>3. a \in Seq(Char) /\ b \in Seq(Char) /\ c \in Seq(Char)
    BY <2>1, TextForConcat
  <2>4. TextFor(o, received \o queue) = a \o b
    BY <2>1, TextForConcat
  <2>5. TextFor(o, (received \o queue) \o outbox) = TextFor(o, received \o queue) \o c
    BY <2>1, <2>2, TextForConcat
  <2>6. TailFor(o, streams) \in Seq(Char)
    BY TailForFacts DEF TextInv, Typed
  <2>7. t \in Seq(Char)
    BY <2>6, RestoredFacts
  <2>8. TextFor(o, Sent) \o t = Said(o)
    BY <1>2 DEF TextInv, Conserved
  <2>9. Said(o) = ((a \o b) \o c) \o t
    BY <2>4, <2>5, <2>8 DEF Sent
  <2> HIDE DEF a, b, c, t
  <2>10. IsPrefix(a, ((a \o b) \o c) \o t)
    <3>1. a \o b \in Seq(Char) /\ IsPrefix(a, a \o b)
      BY <2>3, ConcatProperties, PrefixIsConcat
    <3>2. (a \o b) \o c \in Seq(Char) /\ IsPrefix(a, (a \o b) \o c)
      BY <2>3, <3>1, ConcatProperties, PrefixOfMore
    <3> QED BY <2>3, <2>7, <3>2, PrefixOfMore
  <2> QED BY <2>9, <2>10 DEF a
<1> QED BY <1>1, <1>2

LEMMA HeardStep ==
  OneChoice /\ TextInv /\ Typed' /\ [Next]_vars => HeardInv'
<1> SUFFICES ASSUME OneChoice, TextInv, Typed', [Next]_vars, gone', ~failed', NEW o \in Owner
             PROVE  IsPrefix(TextFor(o, received'), Said(o)')
  BY DEF HeardInv
<1>1. ~failed
  BY DEF Next, Task, Data, Finish, Done, Close, Skip, Send, Return, Read, Leave, vars, TextInv, Typed
<1>2. received' = received
  <2>1. gone \/ Leave
    BY DEF Next, Task, Data, Finish, Done, Close, Skip, Send, Return, Read, Leave, vars
  <2> QED BY <2>1 DEF Next, Task, Data, Finish, Done, Close, Skip, Send, Return, Read, Leave, vars
<1>3. IsPrefix(TextFor(o, received), Said(o))
  BY <1>1, HeardOfSaid
<1>4. PICK u \in Seq(Char) : Said(o)' = Said(o) \o u
  BY SaidStep DEF TextInv
<1>5. TextFor(o, received) \in Seq(Char) /\ Said(o) \in Seq(Char)
  BY TextForConcat, SaidType DEF TextInv, FitInv
<1>6. IsPrefix(TextFor(o, received), Said(o) \o u)
  BY <1>3, <1>5, PrefixOfMore
<1> QED BY <1>2, <1>4, <1>6

LEMMA NothingHandled ==
  ASSUME OneChoice, Init, NEW o \in Owner
  PROVE  /\ TextFor(o, received) = <<>> /\ Said(o) = <<>>
         /\ TextFor(o, Sent) = <<>> /\ TailFor(o, streams) = <<>>
<1>1. Typed
  BY InitTyped
<1>2. Handled \in Seq(Event) /\ Len(Handled) = 0
  BY <1>1, HandledType DEF Init
<1>3. Handled = <<>>
  BY <1>2, EmptySeq
<1>4. TextFor(o, <<>>) = <<>>
  BY TextForNone
<1>5. Said(o) = <<>>
  BY <1>3, <1>4, TailForNone DEF Said
<1>6. received = <<>> /\ received \o queue \o outbox = <<>> /\ streams = None
  BY DEF Init
<1> QED BY <1>4, <1>5, <1>6, TailForNone DEF Sent

LEMMA InitText == OneChoice /\ Init => TextInv
<1> SUFFICES ASSUME OneChoice, Init
             PROVE  TextInv
  OBVIOUS
<1>1. FitInv
  BY DEF FitInv, Init
<1>2. ASSUME NEW o \in Owner
      PROVE  TextFor(o, Sent) \o Restored(TailFor(o, streams)) = Said(o)
  <2>1. <<>> \o <<>> = <<>>
    OBVIOUS
  <2> QED BY <2>1, NothingHandled, TailForNone
<1>3. Conserved /\ HeardInv
  BY <1>2 DEF Conserved, HeardInv, Init
<1> QED BY <1>1, <1>3, InitTyped DEF TextInv

LEMMA TextStep == OneChoice /\ FinishAfterText /\ TextInv /\ [Next]_vars => TextInv'
<1> SUFFICES ASSUME OneChoice, FinishAfterText, TextInv, [Next]_vars
             PROVE  TextInv'
  OBVIOUS
<1>1. Typed'
  BY TypedStep DEF TextInv
<1>2. FitInv'
  BY FitStep DEF TextInv
<1>3. Conserved'
  BY <1>1, <1>2, ConservedStep DEF TextInv
<1>4. HeardInv'
  BY <1>1, HeardStep
<1> QED BY <1>1, <1>2, <1>3, <1>4 DEF TextInv

LEMMA TextInOrder == OneChoice /\ TextInv => InOrder
  BY HeardOfSaid DEF InOrder, Said

(***************************************************************************)
(* In the streams of one choice, whose texts have a path each and end with *)
(* the finish reason, what a client has of each text is at any time a      *)
(* beginning of what the upstream said of it, unless a lookup failed:      *)
(* whatever the window, the capacity of the channel, the number of paths,  *)
(* the chunks that are skipped, and when the client leaves.                *)
(***************************************************************************)
THEOREM TextsComeInOrder == OneChoice /\ FinishAfterText => (Spec => []InOrder)
<1> SUFFICES ASSUME OneChoice, FinishAfterText
             PROVE  Spec => []InOrder
  OBVIOUS
<1>1. Init => TextInv
  BY InitText
<1>2. TextInv /\ [Next]_vars => TextInv'
  BY TextStep
<1>3. TextInv => InOrder
  BY TextInOrder
<1> QED BY <1>1, <1>2, <1>3, PTL DEF Spec

(***************************************************************************)
(* When such a stream has ended, however it did, a client that stayed has  *)
(* all of what was read: no buffer, queue or outbox keeps a tail.          *)
(***************************************************************************)
THEOREM NoTextIsKept == OneChoice /\ FinishAfterText => (Spec => []NothingKept)
<1> SUFFICES ASSUME OneChoice, FinishAfterText
             PROVE  Spec => []NothingKept
  OBVIOUS
<1>1. Init => TextInv
  BY InitText
<1>2. TextInv /\ [Next]_vars => TextInv'
  BY TextStep
<1>3. TextInv => NothingKept
  <2> SUFFICES ASSUME TextInv, pc = "ended", queue = <<>>, ~gone, ~failed, NEW o \in Owner
               PROVE  TextFor(o, received) = Said(o)
    BY DEF NothingKept, Said
  <2>1. Sent = received
    BY EndedIsSent DEF TextInv
  <2>2. Buffers(streams) /\ DOMAIN streams = {}
    BY DEF TextInv, Typed
  <2>3. TailFor(o, streams) = <<>>
    BY <2>2, TailForFacts
  <2>4. TextFor(o, Sent) \o <<>> = Said(o)
    BY <2>3, TailForNone DEF TextInv, Conserved
  <2>5. TextFor(o, received) \in Seq(Char)
    BY TextForConcat DEF TextInv, FitInv
  <2> QED BY <2>1, <2>4, <2>5, ConcatEmptySeq
<1> QED BY <1>1, <1>2, <1>3, PTL DEF Spec


-----------------------------------------------------------------------------
(***************************************************************************)
(* Subscription, of which this is the safety part; that a client that      *)
(* stays hears everything before long is left to TLC (KeepsSubscription).  *)
(***************************************************************************)
SubscriptionSafe == Subscribed!Init /\ [][Subscribed!Next]_Subscribed!vars

SaidTexts == [o \in Owner |-> Said(o)]

HeardTexts == [o \in Owner |-> TextFor(o, received)]

LEMMA BeginsIsPrefix == \A s, t \in Seq(Char) : Subscribed!Begins(s, t) <=> IsPrefix(s, t)
  BY PrefixIsSlice DEF Subscribed!Begins

LEMMA SubscribedInit == OneChoice /\ Init => Subscribed!Init
<1> SUFFICES ASSUME OneChoice, Init
             PROVE  Subscribed!Init
  OBVIOUS
<1>1. \A o \in Owner : Said(o) = <<>> /\ TextFor(o, received) = <<>>
  BY NothingHandled
<1>2. SaidTexts = [o \in Owner |-> <<>>] /\ HeardTexts = [o \in Owner |-> <<>>]
  BY <1>1 DEF SaidTexts, HeardTexts
<1>3. pc # "ended" /\ ~gone /\ ~failed
  BY DEF Init
<1> QED BY <1>2, <1>3 DEF Subscribed!Init, SaidTexts, HeardTexts, Said

(* A step in which the upstream speaks or is heard. *)
LEMMA SubscribedStep ==
  OneChoice /\ TextInv /\ TextInv' /\ InOrder' /\ [Next]_vars
    => [Subscribed!Next]_Subscribed!vars
<1> SUFFICES ASSUME OneChoice, TextInv, TextInv', InOrder', [Next]_vars
             PROVE  Subscribed!Next \/ UNCHANGED Subscribed!vars
  OBVIOUS
<1>1. Typed /\ Typed' /\ failed \in BOOLEAN /\ failed' \in BOOLEAN
  BY DEF TextInv, Typed
<1>2. ASSUME NEW o \in Owner
      PROVE  /\ Said(o) \in Seq(Char) /\ TextFor(o, received) \in Seq(Char)
             /\ Said(o)' \in Seq(Char) /\ IsPrefix(Said(o), Said(o)')
  <2>1. Said(o) \in Seq(Char) /\ TextFor(o, received) \in Seq(Char)
    BY SaidType, TextForConcat DEF TextInv, FitInv
  <2>2. PICK u \in Seq(Char) : Said(o)' = Said(o) \o u
    BY <1>1, SaidStep
  <2>3. Said(o)' \in Seq(Char)
    BY <2>1, <2>2, ConcatProperties
  <2> QED BY <2>1, <2>2, <2>3, PrefixIsConcat
<1>3. \A o \in Owner : Subscribed!Begins(SaidTexts[o], SaidTexts'[o])
  BY <1>2, BeginsIsPrefix DEF SaidTexts
<1>4. CASE Data \/ Finish \/ Done \/ Close \/ Skip
  <2>1. received' = received /\ pc # "ended" /\ pc' # "ended" /\ gone' = gone
    BY <1>4 DEF Data, Finish, Done, Close, Skip, Reading
  <2>2. HeardTexts' = HeardTexts
    BY <2>1 DEF HeardTexts
  <2>3. failed' = failed \/ failed' = TRUE
    BY <1>1, <1>4 DEF Data, Finish, Done, Close, Skip
  <2>4. CASE failed' = failed
    <3>1. Subscribed!Say
      BY <1>3, <2>1, <2>2, <2>4 DEF Subscribed!Say, SaidTexts, HeardTexts, Said
    <3> QED BY <3>1 DEF Subscribed!Next
  <2>5. CASE failed' = TRUE
    <3>1. Subscribed!Break
      BY <1>3, <2>1, <2>2, <2>5 DEF Subscribed!Break, SaidTexts, HeardTexts, Said
    <3> QED BY <3>1 DEF Subscribed!Next
  <2> QED BY <2>3, <2>4, <2>5
<1>5. CASE Send \/ Return \/ Read \/ Leave \/ UNCHANGED vars
  <2>1. UNCHANGED <<script, at, skipped, failed>>
    BY <1>5 DEF Send, Return, Read, Leave, vars
  <2>2. SaidTexts' = SaidTexts
    BY <2>1 DEF SaidTexts, Said, TextFor, SaidTo, Restored, Handled
  <2>3. CASE Send \/ UNCHANGED vars
    <3>1. UNCHANGED <<received, pc, gone>>
      BY <2>3 DEF Send, vars
    <3>2. HeardTexts' = HeardTexts /\ (pc = "ended")' = (pc = "ended")
      BY <3>1 DEF HeardTexts
    <3> QED BY <2>1, <2>2, <3>1, <3>2 DEF Subscribed!vars, SaidTexts, HeardTexts, Said
  <2>4. CASE Return
    <3>1. UNCHANGED <<received, gone>> /\ pc # "ended" /\ pc' = "ended"
      BY <2>4 DEF Return
    <3>2. HeardTexts' = HeardTexts
      BY <3>1 DEF HeardTexts
    <3>3. Subscribed!End
      BY <2>1, <2>2, <3>1, <3>2 DEF Subscribed!End, SaidTexts, HeardTexts, Said
    <3> QED BY <3>3 DEF Subscribed!Next
  <2>5. CASE Leave
    <3>1. UNCHANGED <<received, pc>> /\ ~gone /\ gone' = TRUE
      BY <2>5 DEF Leave
    <3>2. HeardTexts' = HeardTexts
      BY <3>1 DEF HeardTexts
    <3>3. Subscribed!GoAway
      BY <2>1, <2>2, <3>1, <3>2 DEF Subscribed!GoAway, SaidTexts, HeardTexts, Said
    <3> QED BY <3>3 DEF Subscribed!Next
  <2>6. CASE Read
    <3>1. UNCHANGED <<pc, gone>> /\ ~gone /\ queue # <<>> /\ received' = Append(received, Head(queue))
      BY <2>6 DEF Read
    <3>2. ASSUME NEW o \in Owner
          PROVE  /\ Subscribed!Begins(HeardTexts[o], HeardTexts'[o])
                 /\ failed \/ Subscribed!Begins(HeardTexts'[o], SaidTexts[o])
      <4> DEFINE h == Head(queue)
                 y == <<h>>
      <4>1. received \in Seq(Fit) /\ h \in Fit
        BY <3>1, HeadTailProperties DEF TextInv, FitInv
      <4>2. received' = received \o y /\ y \in Seq(Fit)
        BY <3>1, <4>1, AppendIsConcat
      <4> HIDE DEF h, y
      <4>3. /\ TextFor(o, received') = TextFor(o, received) \o TextFor(o, y)
            /\ TextFor(o, received) \in Seq(Char) /\ TextFor(o, y) \in Seq(Char)
        BY <4>1, <4>2, TextForConcat
      <4>4. TextFor(o, received') \in Seq(Char) /\ IsPrefix(TextFor(o, received), TextFor(o, received'))
        BY <4>3, ConcatProperties, PrefixIsConcat
      <4>5. ~failed => IsPrefix(TextFor(o, received'), Said(o)')
        BY <2>1 DEF InOrder, Said
      <4>6. Said(o)' = Said(o)
        BY <2>1 DEF Said, TextFor, SaidTo, Restored, Handled
      <4>7. /\ HeardTexts[o] = TextFor(o, received) /\ HeardTexts'[o] = TextFor(o, received')
            /\ SaidTexts[o] = Said(o)
        BY DEF HeardTexts, SaidTexts
      <4> QED BY <1>2, <4>3, <4>4, <4>5, <4>6, <4>7, BeginsIsPrefix
    <3>3. Subscribed!Hear
      BY <2>1, <2>2, <3>1, <3>2 DEF Subscribed!Hear, SaidTexts, HeardTexts, Said
    <3> QED BY <3>3 DEF Subscribed!Next
  <2> QED BY <1>5, <2>3, <2>4, <2>5, <2>6
<1> QED BY <1>4, <1>5 DEF Next, Task

(***************************************************************************)
(* To the client such a stream is a subscription: every step of the task,  *)
(* of the connection and of the client is one of Subscription or none, so  *)
(* the texts are heard from their beginnings, without gaps, and no further *)
(* than they were said.                                                    *)
(***************************************************************************)
THEOREM KeepsSubscriptionSafely == OneChoice /\ FinishAfterText => (Spec => SubscriptionSafe)
<1> SUFFICES ASSUME OneChoice, FinishAfterText
             PROVE  Spec => SubscriptionSafe
  OBVIOUS
<1>1. Init => TextInv /\ Subscribed!Init
  BY InitText, SubscribedInit
<1>2. TextInv /\ [Next]_vars => TextInv'
  BY TextStep
<1>3. TextInv => InOrder
  BY TextInOrder
<1>4. TextInv /\ TextInv' /\ InOrder' /\ [Next]_vars => [Subscribed!Next]_Subscribed!vars
  BY SubscribedStep
<1> QED BY <1>1, <1>2, <1>3, <1>4, PTL DEF Spec, SubscriptionSafe
=============================================================================
