------------------------- MODULE StreamDetokProofs --------------------------
(***************************************************************************)
(* Proofs about StreamDetok, for every set of texts, window and chunking.  *)
(*                                                                         *)
(* The invariant says where the three sequences lie in the text: what was  *)
(* released is its first Len(released) bytes, the buffer the bytes from    *)
(* there to given, and both ends are character boundaries.  Boundaries     *)
(* belong into it because they are why rounding the split down stays       *)
(* within one character, on which the bound on the buffer rests.           *)
(***************************************************************************)
EXTENDS StreamDetok, SequenceLemmas

Taken == Len(released)

Placed ==
  /\ text \in Texts
  /\ given \in 0 .. Len(text)
  /\ Taken \in 0 .. given
  /\ released = SubSeq(text, 1, Taken)
  /\ buffer = SubSeq(text, Taken + 1, given)

Bounded ==
  /\ IsCharBoundary(text, Taken)
  /\ IsCharBoundary(text, given)
  /\ given - Taken =< Slack
  /\ ~closed => Taken = 0 \/ given - Taken >= Window
  /\ closed \in BOOLEAN

StreamInv == Placed /\ Bounded

-----------------------------------------------------------------------------
LEMMA TextFacts == text \in Texts => text \in Seq(Byte) /\ Len(text) \in Nat /\ WholeCharacters(text)
BY StreamAssumption, LenProperties

(* Before a later byte of a character comes the byte before it. *)
LEMMA ByteBefore ==
  ASSUME text \in Texts, NEW p \in 1 .. Len(text), ~IsCharBoundary(text, p)
  PROVE  /\ text[p + 1].byte \in 2 .. 4
         /\ text[p].byte = text[p + 1].byte - 1
         /\ text[p].glyph = text[p + 1].glyph
<1>1. p + 1 \in 1 .. Len(text) /\ Continuation(text[p + 1])
  BY TextFacts DEF IsCharBoundary
<1>2. text[p + 1] \in Byte /\ text[p + 1].glyph \in Word \cup Other
  <2>1. text \in Seq(Byte) /\ Len(text) \in Nat
    BY TextFacts
  <2>2. text[p + 1] \in Byte
    BY <1>1, <2>1, ElementOfSeq
  <2> QED BY <1>1, <2>2 DEF Byte, Glyph, Continuation
<1>3. Size[text[p + 1].glyph] \in 1 .. 4
  BY <1>2, StreamAssumption DEF Widest
<1>4. /\ text[p + 1].byte \in 1 .. Size[text[p + 1].glyph]
      /\ text[(p + 1) - 1] = [text[p + 1] EXCEPT !.byte = @ - 1]
  BY <1>1, TextFacts DEF WholeCharacters, Continuation
<1>5. (p + 1) - 1 = p
  BY <1>1
<1> QED BY <1>1, <1>2, <1>3, <1>4, <1>5 DEF Continuation, Byte

(***************************************************************************)
(* floor_char_boundary, on a slice of a text that begins at a boundary:    *)
(* the result is one, and at most three bytes before pos.                  *)
(***************************************************************************)
LEMMA FloorOfSlice ==
  ASSUME text \in Texts, NEW a \in 0 .. Len(text), NEW b \in a .. Len(text),
         IsCharBoundary(text, a), NEW pos \in 0 .. b - a
  PROVE  LET k == FloorCharBoundary(SubSeq(text, a + 1, b), pos)
         IN k \in 0 .. pos /\ k >= pos - 3 /\ (k < b - a => IsCharBoundary(text, a + k))
<1> DEFINE s == SubSeq(text, a + 1, b)
           Ok(k) == /\ IsCharBoundary(s, k) \/ k = 0
                    /\ \A j \in k + 1 .. pos : ~IsCharBoundary(s, j)
<1>1. /\ Len(s) = b - a
      /\ \A k \in 1 .. b - a : s[k] = text[a + k]
  BY TextFacts, Slice
<1>2. \A k \in 0 .. b - a : k < b - a => (IsCharBoundary(s, k) <=> IsCharBoundary(text, a + k))
  <2> SUFFICES ASSUME NEW k \in 0 .. b - a, k < b - a
               PROVE  IsCharBoundary(s, k) <=> IsCharBoundary(text, a + k)
    OBVIOUS
  <2>1. k + 1 \in 1 .. b - a /\ a + (k + 1) = (a + k) + 1 /\ a + k < Len(text)
    BY TextFacts
  <2>2. s[k + 1] = text[(a + k) + 1]
    BY <1>1, <2>1
  <2> QED BY <1>1, <2>1, <2>2 DEF IsCharBoundary
<1> DEFINE Stop(k) == k = 0 \/ IsCharBoundary(s, k)
<1>3. ASSUME NEW k \in 0 .. pos, ~Stop(k)
      PROVE  /\ k > 0 /\ text[a + k + 1].byte \in 2 .. 4
             /\ text[a + (k - 1) + 1].byte = text[a + k + 1].byte - 1
  <2>1. k > 0 /\ ~IsCharBoundary(s, k)
    BY <1>3
  <2>2. k < b - a
    BY <1>1, <2>1 DEF IsCharBoundary
  <2> HIDE DEF s, Stop, Ok
  <2>3. ~IsCharBoundary(text, a + k)
    BY <1>2, <2>1, <2>2
  <2>4. a + k \in 1 .. Len(text) /\ a + (k - 1) + 1 = a + k /\ (a + k) + 1 = a + k + 1
    BY <2>1, <2>2, TextFacts
  <2> QED BY <2>1, <2>3, <2>4, ByteBefore
<1>4. \E k \in 0 .. pos : Ok(k) /\ k >= pos - 3
  <2>1. CASE Stop(pos)
    BY <2>1
  <2>2. CASE ~Stop(pos) /\ Stop(pos - 1)
    <3>1. pos > 0 /\ Ok(pos - 1)
      BY <1>3, <2>2
    <3> QED BY <3>1
  <2>3. CASE ~Stop(pos) /\ ~Stop(pos - 1) /\ Stop(pos - 2)
    <3>1. pos > 0 /\ pos - 1 \in 0 .. pos /\ pos - 1 > 0
      BY <1>3, <2>3
    <3>2. Ok(pos - 2)
      BY <2>3, <3>1
    <3> QED BY <3>1, <3>2
  <2>4. CASE ~Stop(pos) /\ ~Stop(pos - 1) /\ ~Stop(pos - 2)
    <3>1. pos > 0 /\ pos - 1 \in 0 .. pos
      BY <1>3, <2>4
    <3>2. pos - 1 > 0 /\ pos - 2 \in 0 .. pos
      BY <1>3, <2>4, <3>1
    <3>3. pos - 2 > 0 /\ pos - 3 \in 0 .. pos
      BY <1>3, <2>4, <3>2
    <3>4. Stop(pos - 3)
      <4> SUFFICES ASSUME ~Stop(pos - 3) PROVE FALSE
        OBVIOUS
      <4> HIDE DEF Stop
      <4>1. /\ text[a + pos + 1].byte \in 2 .. 4
            /\ text[a + (pos - 1) + 1].byte = text[a + pos + 1].byte - 1
        BY <1>3, <2>4
      <4>2. text[a + ((pos - 1) - 1) + 1].byte = text[a + (pos - 1) + 1].byte - 1
        BY <1>3, <2>4, <3>1
      <4>3. /\ text[a + (pos - 2) + 1].byte \in 2 .. 4
            /\ text[a + ((pos - 2) - 1) + 1].byte = text[a + (pos - 2) + 1].byte - 1
        BY <1>3, <2>4, <3>2
      <4>4. (pos - 1) - 1 = pos - 2 /\ (pos - 2) - 1 = pos - 3
        BY <3>1
      <4>5. text[a + (pos - 3) + 1].byte = text[a + pos + 1].byte - 3
        BY <4>1, <4>2, <4>3, <4>4
      <4>6. PICK j \in 2 .. 4 : text[a + pos + 1].byte = j
        BY <4>1
      <4>7. text[a + (pos - 3) + 1].byte = j - 3 /\ j - 3 \notin 2 .. 4
        BY <4>5, <4>6
      <4> QED BY <1>3, <3>3, <4>7
    <3>5. Ok(pos - 3)
      BY <2>4, <3>3, <3>4
    <3> QED BY <3>3, <3>5
  <2> QED BY <2>1, <2>2, <2>3, <2>4
<1> DEFINE k == FloorCharBoundary(s, pos)
<1>5. k \in 0 .. pos /\ Ok(k)
  BY <1>4 DEF FloorCharBoundary
<1>6. k >= pos - 3
  <2>1. PICK l \in 0 .. pos : Ok(l) /\ l >= pos - 3
    BY <1>4
  <2>2. CASE k < l
    <3>1. l \in k + 1 .. pos
      BY <1>5, <2>2
    <3>2. ~IsCharBoundary(s, l)
      BY <1>5, <3>1
    <3>3. l = 0
      BY <2>1, <3>2
    <3> QED BY <1>5, <2>2, <3>3
  <2> QED BY <1>5, <2>1, <2>2
<1>7. ASSUME k < b - a PROVE IsCharBoundary(text, a + k)
  <2>1. CASE k = 0
    BY <2>1
  <2>2. CASE k # 0
    <3>1. IsCharBoundary(s, k) /\ k \in 0 .. b - a
      BY <1>5, <2>2
    <3> HIDE DEF k
    <3> QED BY <1>2, <1>7, <3>1
  <2> QED BY <2>1, <2>2
<1> QED BY <1>5, <1>6, <1>7

-----------------------------------------------------------------------------
LEMMA InitStreamInv == Init => StreamInv
<1> SUFFICES ASSUME Init PROVE StreamInv
  OBVIOUS
<1>1. text \in Texts /\ Len(text) \in Nat /\ WholeCharacters(text)
  BY TextFacts DEF Init
<1>2. Taken = 0
  BY DEF Init, Taken
<1>3. SubSeq(text, 1, 0) = <<>> /\ SubSeq(text, 0 + 1, 0) = <<>>
  BY SubSeqEmpty
<1>4. IsCharBoundary(text, 0)
  <2> SUFFICES ASSUME 0 < Len(text), Continuation(text[1]) PROVE FALSE
    BY DEF IsCharBoundary
  <2>1. 1 \in 1 .. Len(text)
    BY <1>1
  <2>2. 1 > 1
    BY <1>1, <2>1 DEF WholeCharacters, Continuation
  <2> QED BY <2>2
<1>5. Placed
  BY <1>1, <1>2, <1>3 DEF Placed, Init
<1>6. Bounded
  <2>1. given = 0 /\ Window \in Nat /\ closed = FALSE
    BY StreamAssumption DEF Init
  <2>2. IsCharBoundary(text, Taken) /\ IsCharBoundary(text, given)
    BY <1>2, <1>4, <2>1
  <2>3. given - Taken =< Slack
    BY <1>2, <2>1 DEF Slack, Widest
  <2> QED BY <1>2, <2>1, <2>2, <2>3 DEF Bounded
<1> QED BY <1>5, <1>6 DEF StreamInv

(* The buffer with the next chunk is still a slice of the text. *)
LEMMA GrownSlice ==
  ASSUME StreamInv, NEW n \in 0 .. MaxChunk, Chunked(n)
  PROVE  /\ given + n \in 0 .. Len(text)
         /\ buffer \o Chunk(n) = SubSeq(text, Taken + 1, given + n)
         /\ Len(buffer \o Chunk(n)) = (given + n) - Taken
<1>1. n \in Nat /\ given + n \in 0 .. Len(text) /\ Len(text) \in Nat /\ Taken \in Nat
  BY StreamAssumption, TextFacts DEF StreamInv, Placed, Chunked
<1>2. /\ Taken + 1 \in 1 .. Len(text) + 1
      /\ given \in (Taken + 1) - 1 .. Len(text)
      /\ given + n \in given .. Len(text)
  BY <1>1 DEF StreamInv, Placed
<1>3. SubSeq(text, Taken + 1, given) \o SubSeq(text, given + 1, given + n)
        = SubSeq(text, Taken + 1, given + n)
  BY <1>2, TextFacts, ConcatAdjacentSubSeq DEF StreamInv, Placed
<1>4. Taken \in 0 .. Len(text) /\ given + n \in Taken .. Len(text)
  BY <1>1, <1>2
<1>5. Len(SubSeq(text, Taken + 1, given + n)) = (given + n) - Taken
  BY <1>4, TextFacts, Slice DEF StreamInv, Placed
<1> QED BY <1>1, <1>3, <1>5 DEF StreamInv, Placed, Chunk

LEMMA HoldStep == ASSUME StreamInv, NEW n \in 0 .. MaxChunk, Hold(n) PROVE StreamInv'
<1>1. Chunked(n) /\ Len(buffer \o Chunk(n)) =< Window
  BY DEF Hold
<1>2. /\ given + n \in 0 .. Len(text)
      /\ buffer \o Chunk(n) = SubSeq(text, Taken + 1, given + n)
      /\ (given + n) - Taken =< Window
  BY <1>1, GrownSlice
<1>3. n \in Nat /\ Window \in Nat /\ Len(text) \in Nat
  BY StreamAssumption, TextFacts DEF StreamInv, Placed
<1>4. Taken' = Taken /\ given' = given + n /\ text' = text
  BY DEF Hold, Taken
<1>5. Placed'
  <2>1. released' = released /\ buffer' = buffer \o Chunk(n)
    BY DEF Hold
  <2>2. Taken \in 0 .. given + n
    BY <1>2, <1>3 DEF StreamInv, Placed
  <2> QED BY <1>2, <1>4, <2>1, <2>2 DEF Placed, StreamInv
<1>6. IsCharBoundary(text, given + n)
  BY <1>1 DEF Chunked
<1>7. Taken = 0 \/ (given + n) - Taken >= Window
  BY <1>1, <1>3 DEF StreamInv, Bounded, Placed, Chunked
<1>8. Bounded'
  BY <1>2, <1>3, <1>4, <1>6, <1>7 DEF Bounded, StreamInv, Placed, Hold, IsCharBoundary, Slack, Widest
<1> QED BY <1>5, <1>8 DEF StreamInv

(***************************************************************************)
(* What Take moves from a slice to released continues it.                  *)
(***************************************************************************)
LEMMA TakeStep ==
  ASSUME StreamInv, NEW e \in given .. Len(text), NEW split \in 0 .. e - Taken,
         Take(SubSeq(text, Taken + 1, e), split)
  PROVE  /\ released' = SubSeq(text, 1, Taken + split)
         /\ Taken' = Taken + split
<1>1. text \in Seq(Byte) /\ Len(text) \in Nat /\ given \in Nat /\ Taken \in 0 .. given
  BY TextFacts DEF StreamInv, Placed
<1>2. SubSeq(SubSeq(text, Taken + 1, e), 1, split) = SubSeq(text, Taken + 1, Taken + split)
  <2>1. /\ Taken \in 0 .. Len(text) /\ e \in Taken .. Len(text)
        /\ 0 \in 0 .. e - Taken /\ split \in 0 .. e - Taken
    BY <1>1
  <2>2. SubSeq(SubSeq(text, Taken + 1, e), 0 + 1, split)
          = SubSeq(text, Taken + 0 + 1, Taken + split)
    BY <1>1, <2>1, SliceOfSlice
  <2>3. 0 + 1 = 1 /\ Taken + 0 + 1 = Taken + 1
    BY <1>1
  <2> QED BY <2>2, <2>3
<1>3. SubSeq(text, 1, Taken) \o SubSeq(text, Taken + 1, Taken + split)
        = SubSeq(text, 1, Taken + split)
  <2>1. /\ 1 \in 1 .. Len(text) + 1 /\ Taken \in 1 - 1 .. Len(text)
        /\ Taken + split \in Taken .. Len(text)
    BY <1>1
  <2> QED BY <1>1, <2>1, ConcatAdjacentSubSeq
<1>4. released' = released \o SubSeq(SubSeq(text, Taken + 1, e), 1, split)
  BY DEF Take
<1>5. released' = SubSeq(text, 1, Taken + split)
  <2>1. released = SubSeq(text, 1, Taken)
    BY DEF StreamInv, Placed
  <2> QED BY <1>2, <1>3, <1>4, <2>1
<1>6. Len(SubSeq(text, 0 + 1, Taken + split)) = Taken + split
  <2>1. 0 \in 0 .. Len(text) /\ Taken + split \in 0 .. Len(text) /\ Taken + split - 0 = Taken + split
    BY <1>1
  <2> QED BY <1>1, <2>1, Slice
<1> QED BY <1>5, <1>6 DEF Taken

LEMMA ReleaseStep ==
  ASSUME StreamInv, NEW n \in 0 .. MaxChunk, Release(n)
  PROVE  StreamInv' /\ Taken =< Taken'
<1>0. /\ given + n \in 0 .. Len(text)
      /\ buffer \o Chunk(n) = SubSeq(text, Taken + 1, given + n)
      /\ Len(buffer \o Chunk(n)) = (given + n) - Taken
  BY GrownSlice DEF Release
<1> DEFINE e == given + n
           grown == SubSeq(text, Taken + 1, e)
           split == FloorCharBoundary(grown, (e - Taken) - Window)
<1>1. Chunked(n)
  BY DEF Release
<1>2. e \in 0 .. Len(text) /\ buffer \o Chunk(n) = grown /\ Len(grown) = e - Taken
  <2>1. Len(SubSeq(text, Taken + 1, given + n)) = (given + n) - Taken
    BY <1>0
  <2> QED BY <1>0, <2>1
<1>3. /\ n \in Nat /\ Window \in Nat /\ text \in Seq(Byte) /\ Len(text) \in Nat /\ text \in Texts
      /\ given \in Nat /\ Taken \in 0 .. given /\ IsCharBoundary(text, Taken)
  BY StreamAssumption, TextFacts DEF StreamInv, Placed, Bounded
<1>4. /\ e - Taken > Window
      /\ Take(grown, split)
      /\ buffer' = SubSeq(grown, split + 1, e - Taken)
      /\ given' = e /\ text' = text /\ closed' = closed
  BY <1>2 DEF Release, Split
<1>5. /\ split \in 0 .. (e - Taken) - Window
      /\ split >= (e - Taken) - Window - 3
      /\ split < e - Taken => IsCharBoundary(text, Taken + split)
  <2>1. /\ Taken \in 0 .. Len(text) /\ e \in Taken .. Len(text)
        /\ (e - Taken) - Window \in 0 .. e - Taken
    BY <1>2, <1>3, <1>4
  <2> QED BY <1>3, <2>1, FloorOfSlice
<1> HIDE DEF split
<1>6. IsCharBoundary(text, e)
  BY <1>1 DEF Chunked
<1>7. IsCharBoundary(text, Taken + split)
  <2>1. CASE split < e - Taken
    BY <1>5, <2>1
  <2>2. CASE split = e - Taken
    BY <1>3, <1>6, <2>2
  <2> QED BY <1>2, <1>3, <1>5, <2>1, <2>2
<1>8. e \in given .. Len(text) /\ split \in 0 .. e - Taken
  BY <1>2, <1>3, <1>5
<1>9. released' = SubSeq(text, 1, Taken + split) /\ Taken' = Taken + split
  BY <1>4, <1>8, TakeStep
<1>10. buffer' = SubSeq(text, Taken + split + 1, e)
  <2>1. /\ Taken \in 0 .. Len(text) /\ e \in Taken .. Len(text)
        /\ e - Taken \in split .. e - Taken /\ Taken + (e - Taken) = e
    BY <1>3, <1>8
  <2> QED BY <1>3, <1>4, <1>8, <2>1, SliceOfSlice
<1>11. Placed'
  BY <1>2, <1>3, <1>4, <1>8, <1>9, <1>10 DEF Placed
<1>12. Bounded'
  <2>2. IsCharBoundary(text, Taken)' /\ IsCharBoundary(text, given)'
    BY <1>4, <1>6, <1>7, <1>9 DEF IsCharBoundary
  <2>3. given' - Taken' =< Slack /\ given' - Taken' >= Window
    BY <1>2, <1>3, <1>4, <1>5, <1>9 DEF Slack, Widest
  <2> QED BY <1>4, <2>2, <2>3 DEF Bounded, StreamInv
<1>13. Taken =< Taken'
  BY <1>3, <1>5, <1>9
<1> QED BY <1>11, <1>12, <1>13 DEF StreamInv

LEMMA FlushStep == ASSUME StreamInv, Flush PROVE StreamInv' /\ released' = SubSeq(text, 1, given)
<1>1. /\ text \in Seq(Byte) /\ Len(text) \in Nat /\ text \in Texts /\ Window \in Nat
      /\ given \in 0 .. Len(text) /\ Taken \in 0 .. given /\ IsCharBoundary(text, given)
  BY StreamAssumption, TextFacts DEF StreamInv, Placed, Bounded
<1>2. buffer = SubSeq(text, Taken + 1, given) /\ Len(buffer) = given - Taken
  <2>1. Taken \in 0 .. Len(text) /\ given \in Taken .. Len(text)
    BY <1>1
  <2> QED BY <1>1, <2>1, Slice DEF StreamInv, Placed
<1>3. Take(SubSeq(text, Taken + 1, given), given - Taken)
  BY <1>2 DEF Flush
<1>4. released' = SubSeq(text, 1, given) /\ Taken' = given
  <2>1. given \in given .. Len(text) /\ given - Taken \in 0 .. given - Taken
        /\ Taken + (given - Taken) = given
    BY <1>1
  <2> QED BY <1>3, <2>1, TakeStep
<1>5. text' = text /\ given' = given /\ buffer' = <<>> /\ closed' = TRUE
  BY DEF Flush
<1>6. SubSeq(text, given + 1, given) = <<>>
  BY <1>1, SubSeqEmpty
<1>7. Placed'
  BY <1>1, <1>4, <1>5, <1>6 DEF Placed
<1>8. Bounded'
  BY <1>1, <1>4, <1>5 DEF Bounded, IsCharBoundary, Slack, Widest
<1> QED BY <1>4, <1>7, <1>8 DEF StreamInv

LEMMA StreamInvStep == StreamInv /\ [Next]_vars => StreamInv'
<1> SUFFICES ASSUME StreamInv, [Next]_vars PROVE StreamInv'
  OBVIOUS
<1>1. CASE \E n \in 0 .. MaxChunk : Hold(n)
  BY <1>1, HoldStep
<1>2. CASE \E n \in 0 .. MaxChunk : Release(n)
  BY <1>2, ReleaseStep
<1>3. CASE Flush
  BY <1>3, FlushStep
<1>4. CASE UNCHANGED vars
  BY <1>4 DEF vars, StreamInv, Placed, Bounded, Taken, IsCharBoundary
<1> QED BY <1>1, <1>2, <1>3, <1>4 DEF Next

THEOREM StreamInvariant == Spec => []StreamInv
BY InitStreamInv, StreamInvStep, PTL DEF Spec

-----------------------------------------------------------------------------
(***************************************************************************)
(* What was taken from the buffer and what is in it are what was pushed,   *)
(* in its order.                                                           *)
(***************************************************************************)
THEOREM OrderKept == Spec => []NothingOvertaken
<1>1. StreamInv => NothingOvertaken
  <2> SUFFICES ASSUME StreamInv PROVE NothingOvertaken
    OBVIOUS
  <2>1. /\ text \in Seq(Byte)
        /\ 1 \in 1 .. Len(text) + 1 /\ Taken \in 1 - 1 .. Len(text)
        /\ given \in Taken .. Len(text)
    BY TextFacts DEF StreamInv, Placed
  <2> QED BY <2>1, ConcatAdjacentSubSeq DEF StreamInv, Placed, NothingOvertaken, Given
<1> QED BY <1>1, StreamInvariant, PTL

(* The length of the buffer. *)
LEMMA BufferLength == StreamInv => Len(buffer) = given - Taken
<1> SUFFICES ASSUME StreamInv PROVE Len(buffer) = given - Taken
  OBVIOUS
<1>1. text \in Seq(Byte) /\ Taken \in 0 .. Len(text) /\ given \in Taken .. Len(text)
  BY TextFacts DEF StreamInv, Placed
<1> QED BY <1>1, Slice DEF StreamInv, Placed

(***************************************************************************)
(* Before the end of the stream the buffer holds a window at least, once   *)
(* anything has been released.                                             *)
(***************************************************************************)
THEOREM WindowHeld == Spec => []WindowKept
<1>1. StreamInv => WindowKept
  <2> SUFFICES ASSUME StreamInv, Taken = 0 PROVE released = <<>>
    BY BufferLength DEF WindowKept, StreamInv, Bounded
  <2>1. SubSeq(text, 1, 0) = <<>>
    BY SubSeqEmpty
  <2> QED BY <2>1 DEF StreamInv, Placed
<1> QED BY <1>1, StreamInvariant, PTL

(* And a window and three bytes at most. *)
THEOREM BufferStaysBounded == Spec => []BufferBounded
<1>1. StreamInv => BufferBounded
  BY BufferLength DEF BufferBounded, StreamInv, Bounded
<1> QED BY <1>1, StreamInvariant, PTL

(* It begins with a whole character. *)
THEOREM CharactersStayWhole == Spec => []CharactersWhole
<1>1. StreamInv => CharactersWhole
  <2> SUFFICES ASSUME StreamInv, 0 < Len(buffer) PROVE IsCharBoundary(buffer, 0)
    BY DEF CharactersWhole, IsCharBoundary
  <2>1. /\ text \in Seq(Byte) /\ Len(text) \in Nat
        /\ Taken \in 0 .. Len(text) /\ given \in Taken .. Len(text)
    BY TextFacts DEF StreamInv, Placed
  <2>2. Taken < given /\ 1 \in 1 .. given - Taken
    BY <2>1, BufferLength
  <2>3. buffer[1] = text[Taken + 1]
    BY <2>1, <2>2, Slice DEF StreamInv, Placed
  <2>4. ~Continuation(text[Taken + 1])
    BY <2>1, <2>2 DEF StreamInv, Bounded, IsCharBoundary
  <2> QED BY <2>3, <2>4 DEF IsCharBoundary
<1> QED BY <1>1, StreamInvariant, PTL

-----------------------------------------------------------------------------
(***************************************************************************)
(* The refinement.  StreamInv places both sequences of the delay line in   *)
(* the text, so each step is a statement about two pairs of offsets.       *)
(***************************************************************************)
LEMMA SliceBegins ==
  ASSUME NEW S, NEW s \in Seq(S), NEW b \in 0 .. Len(s), NEW a \in 0 .. b
  PROVE  Delayed!Begins(SubSeq(s, 1, a), SubSeq(s, 1, b))
<1>1. Len(s) \in Nat /\ 0 \in 0 .. Len(s) /\ a \in 0 .. Len(s) /\ b \in 0 .. Len(s)
  BY LenProperties
<1>2. Len(SubSeq(s, 0 + 1, a)) = a - 0 /\ Len(SubSeq(s, 0 + 1, b)) = b - 0
  BY <1>1, Slice
<1>3. SubSeq(SubSeq(s, 0 + 1, b), 0 + 1, a) = SubSeq(s, 0 + 0 + 1, 0 + a)
  <2>1. 0 \in 0 .. b - 0 /\ a \in 0 .. b - 0
    BY <1>1
  <2> QED BY <1>1, <2>1, SliceOfSlice
<1>4. 0 + 1 = 1 /\ 0 + 0 + 1 = 1 /\ 0 + a = a /\ a - 0 = a /\ b - 0 = b
  BY <1>1
<1>5. /\ Len(SubSeq(s, 1, a)) = a /\ Len(SubSeq(s, 1, b)) = b
      /\ SubSeq(SubSeq(s, 1, b), 1, a) = SubSeq(s, 1, a)
  BY <1>2, <1>3, <1>4
<1> QED BY <1>5 DEF Delayed!Begins

(* The two sequences of the delay line, and how far apart they are. *)
LinePlaces ==
  /\ text \in Seq(Byte) /\ Len(text) \in Nat /\ given \in 0 .. Len(text)
  /\ Taken \in 0 .. given
  /\ Given = SubSeq(text, 1, given) /\ released = SubSeq(text, 1, Taken)
  /\ Len(Given) = given /\ Len(released) = Taken

LEMMA LinePlaced == StreamInv => LinePlaces
<1> SUFFICES ASSUME StreamInv PROVE LinePlaces
  OBVIOUS
<1>1. text \in Seq(Byte) /\ Len(text) \in Nat /\ given \in 0 .. Len(text) /\ Taken \in 0 .. given
  BY TextFacts DEF StreamInv, Placed
<1>2. Len(SubSeq(text, 0 + 1, given)) = given - 0
  <2>1. 0 \in 0 .. Len(text) /\ given \in 0 .. Len(text)
    BY <1>1
  <2> QED BY <1>1, <2>1, Slice
<1>3. 0 + 1 = 1 /\ given - 0 = given
  BY <1>1
<1> QED BY <1>1, <1>2, <1>3 DEF LinePlaces, StreamInv, Placed, Given, Taken

LEMMA DelayedInit == Init /\ StreamInv => Delayed!Init
<1> SUFFICES ASSUME Init, StreamInv PROVE Delayed!Init
  OBVIOUS
<1>1. given = 0 /\ released = <<>> /\ closed = FALSE
  BY DEF Init
<1>2. Given = <<>>
  BY <1>1, SubSeqEmpty DEF Given
<1> QED BY <1>1, <1>2 DEF Delayed!Init

(* A push: two pairs of offsets that grow. *)
LEMMA DelayedPush ==
  ASSUME StreamInv, StreamInv', ~closed, closed' = closed, text' = text,
         given =< given', Taken =< Taken'
  PROVE  Delayed!Push
<1>1. LinePlaces
  BY LinePlaced
<1>2. LinePlaces' /\ text' = text
  BY LinePlaced, PTL
<1>3. Delayed!Begins(Given, Given')
  <2>1. given \in 0 .. given'
    BY <1>1, <1>2 DEF LinePlaces
  <2> QED BY <1>1, <1>2, <2>1, SliceBegins DEF LinePlaces
<1>4. Delayed!Begins(released, released')
  <2>1. Taken \in 0 .. Taken' /\ Taken' \in 0 .. Len(text)
    BY <1>1, <1>2 DEF LinePlaces
  <2> QED BY <1>1, <1>2, <2>1, SliceBegins DEF LinePlaces
<1>5. Delayed!Begins(released', Given')
  BY <1>1, <1>2, SliceBegins DEF LinePlaces
<1>6. given' - Taken' =< Slack /\ (Taken' = 0 \/ given' - Taken' >= Window)
  BY DEF StreamInv, Bounded
<1>7. released' # released => given' - Taken' >= Window
  <2> SUFFICES ASSUME Taken' = 0 PROVE released' = released
    BY <1>6
  <2>1. Taken = 0
    BY <1>1, <1>2 DEF LinePlaces
  <2> QED BY <1>1, <1>2, <2>1 DEF LinePlaces
<1>8. Delayed!Behind' = given' - Taken'
  BY <1>2 DEF Delayed!Behind, LinePlaces
<1> QED BY <1>3, <1>4, <1>5, <1>6, <1>7, <1>8 DEF Delayed!Push

LEMMA DelayedStep == StreamInv /\ StreamInv' /\ [Next]_vars => [Delayed!Next]_Delayed!vars
<1> SUFFICES ASSUME StreamInv, StreamInv', [Next]_vars
             PROVE  [Delayed!Next]_Delayed!vars
  OBVIOUS
<1>1. given \in Nat /\ Taken \in Nat /\ MaxChunk \in Nat
  BY LinePlaced, StreamAssumption DEF LinePlaces
<1>2. ASSUME NEW n \in 0 .. MaxChunk, Hold(n) PROVE Delayed!Push
  <2>1. /\ ~closed /\ closed' = closed /\ text' = text /\ given' = given + n
        /\ Taken' = Taken
    BY <1>2 DEF Hold, Chunked, Taken
  <2>2. given =< given' /\ Taken =< Taken'
    BY <1>1, <2>1
  <2> QED BY <2>1, <2>2, DelayedPush
<1>3. ASSUME NEW n \in 0 .. MaxChunk, Release(n) PROVE Delayed!Push
  <2>1. ~closed /\ closed' = closed /\ text' = text /\ given' = given + n
    BY <1>3 DEF Release, Chunked
  <2>2. given =< given' /\ Taken =< Taken'
    BY <1>1, <1>3, <2>1, ReleaseStep
  <2> QED BY <2>1, <2>2, DelayedPush
<1>4. CASE Flush
  <2>1. ~closed /\ closed' = TRUE /\ text' = text /\ given' = given
    BY <1>4 DEF Flush
  <2>2. Given' = Given /\ released' = Given
    BY <1>4, <2>1, FlushStep DEF Given
  <2> QED BY <2>1, <2>2 DEF Delayed!Next, Delayed!Close
<1>5. CASE UNCHANGED vars
  BY <1>5 DEF vars, Delayed!vars, Given
<1> QED BY <1>2, <1>3, <1>4, <1>5 DEF Next, Delayed!Next

(***************************************************************************)
(* The streaming detokenizer is a delay line, for every window, text and   *)
(* chunking.                                                               *)
(***************************************************************************)
THEOREM StreamImplementsDelayLine == Spec => DelaysOnly
<1>1. Spec => Delayed!Init /\ [][Delayed!Next]_Delayed!vars
  BY InitStreamInv, DelayedInit, DelayedStep, StreamInvariant, PTL DEF Spec
<1> QED BY <1>1 DEF DelaysOnly, Delayed!Spec


-----------------------------------------------------------------------------
(***************************************************************************)
(* Detokenizing piece by piece.  A match lies within a word, so it lies on *)
(* one side of every place that is not inside one, and whether it is one   *)
(* depends on that side alone.                                             *)
(***************************************************************************)
Joined(s, t) == s # <<>> /\ t # <<>> /\ InWord(s[Len(s)]) /\ InWord(t[1])

Hits(s) == {k \in Matches(s) : s[k].glyph \in Known}

Piece(s, k) ==
  IF k \in Hits(s)
    THEN <<[glyph |-> s[k].glyph, byte |-> 0]>>
  ELSE IF \E h \in Hits(s) : h < k /\ k < h + TokenLen
    THEN <<>>
  ELSE <<s[k]>>

Pieces(s) == [k \in 1 .. Len(s) |-> Piece(s, k)]

LEMMA DetokenizePieces == \A s : Detokenize(s) = FlattenSeq(Pieces(s))
  BY DEF Detokenize, Pieces, Piece, Hits

LEMMA PiecesType ==
  ASSUME NEW s \in Seq(Byte)
  PROVE  Pieces(s) \in Seq(Seq(Byte)) /\ Len(Pieces(s)) = Len(s)
<1>1. Len(s) \in Nat
  BY LenProperties
<1>2. ASSUME NEW k \in 1 .. Len(s)
      PROVE  Piece(s, k) \in Seq(Byte)
  <2>1. s[k] \in Byte
    OBVIOUS
  <2>2. [glyph |-> s[k].glyph, byte |-> 0] \in Byte
    BY <2>1 DEF Byte
  <2> DEFINE r == [glyph |-> s[k].glyph, byte |-> 0]
  <2> HIDE DEF r
  <2>3. <<r>> \in Seq(Byte) /\ <<s[k]>> \in Seq(Byte) /\ <<>> \in Seq(Byte)
    BY <2>1, <2>2 DEF r
  <2> QED BY <2>3 DEF Piece, r
<1> QED BY <1>1, <1>2 DEF Pieces

(* All bytes of a match are in its word. *)
LEMMA MatchInWord ==
  ASSUME NEW s \in Seq(Byte), NEW k \in Matches(s)
  PROVE  /\ k \in 1 .. Len(s)
         /\ k + TokenLen - 1 =< Len(s)
         /\ \A j \in k .. k + TokenLen - 1 : s[j].glyph \in Token /\ InWord(s[j])
<1>1. /\ k \in 1 .. Len(s) /\ s[k].glyph \in Token /\ TokenLen \in Nat \ {0} /\ Len(s) \in Nat
      /\ \A i \in 1 .. TokenLen :
           k + i - 1 =< Len(s) /\ s[k + i - 1] = [glyph |-> s[k].glyph, byte |-> i]
  BY StreamAssumption, LenProperties DEF Matches
<1>2. k + TokenLen - 1 =< Len(s)
  <2>1. TokenLen \in 1 .. TokenLen
    BY <1>1
  <2> QED BY <1>1, <2>1
<1>3. ASSUME NEW j \in k .. k + TokenLen - 1
      PROVE  s[j].glyph \in Token
  <2>1. j - k + 1 \in 1 .. TokenLen /\ k + (j - k + 1) - 1 = j
    BY <1>1
  <2>2. s[j] = [glyph |-> s[k].glyph, byte |-> j - k + 1]
    BY <1>1, <2>1
  <2> QED BY <1>1, <2>2
<1> QED BY <1>1, <1>2, <1>3 DEF InWord

LEMMA MatchesConcat ==
  ASSUME NEW s \in Seq(Byte), NEW t \in Seq(Byte), ~Joined(s, t)
  PROVE  /\ \A k \in 1 .. Len(s) : k \in Matches(s \o t) <=> k \in Matches(s)
         /\ \A k \in 1 .. Len(t) : Len(s) + k \in Matches(s \o t) <=> k \in Matches(t)
<1> DEFINE u == s \o t
           m == Len(s)
           n == Len(t)
<1>1. /\ u \in Seq(Byte) /\ Len(u) = m + n /\ m \in Nat /\ n \in Nat
      /\ \A k \in 1 .. m + n : u[k] = IF k =< m THEN s[k] ELSE t[k - m]
  BY ConcatProperties, LenProperties
<1>2. /\ \A k \in 1 .. m : u[k] = s[k]
      /\ \A k \in 1 .. n : u[m + k] = t[k]
  <2>1. \A k \in 1 .. m : k \in 1 .. m + n /\ k =< m
    BY <1>1
  <2>2. \A k \in 1 .. n : m + k \in 1 .. m + n /\ ~(m + k =< m) /\ (m + k) - m = k
    BY <1>1
  <2> HIDE DEF u, m, n
  <2> QED BY <1>1, <2>1, <2>2
<1>3. m > 0 /\ n > 0 => ~(InWord(s[m]) /\ InWord(t[1]))
  BY <1>1, EmptySeq DEF Joined
<1>4. TokenLen \in Nat \ {0}
  BY StreamAssumption
<1> DEFINE At(v, l, k) ==
             /\ v[k].glyph \in Token
             /\ \A i \in 1 .. TokenLen :
                  k + i - 1 =< l /\ v[k + i - 1] = [glyph |-> v[k].glyph, byte |-> i]
             /\ k > 1 => ~InWord(v[k - 1])
             /\ k + TokenLen =< l => ~InWord(v[k + TokenLen])
<1>5. /\ \A k \in 1 .. m : k \in Matches(s) <=> At(s, m, k)
      /\ \A k \in 1 .. n : k \in Matches(t) <=> At(t, n, k)
      /\ \A k \in 1 .. m + n : k \in Matches(u) <=> At(u, m + n, k)
  BY <1>1 DEF Matches
<1>6. /\ \A k \in Matches(s) : k + TokenLen - 1 =< m
           /\ \A j \in k .. k + TokenLen - 1 : InWord(s[j])
      /\ \A k \in Matches(t) : \A j \in k .. k + TokenLen - 1 : InWord(t[j])
      /\ \A k \in Matches(u) : k + TokenLen - 1 =< m + n
           /\ \A j \in k .. k + TokenLen - 1 : InWord(u[j])
  <2> HIDE DEF u
  <2> QED BY <1>1, MatchInWord
<1> HIDE DEF u, m, n
<1>7. ASSUME NEW k \in 1 .. m, k \in Matches(u)
      PROVE  k \in Matches(s)
  <2>1. k \in 1 .. m + n /\ At(u, m + n, k)
    BY <1>1, <1>5, <1>7
  <2>2. k + TokenLen - 1 =< m
    <3> SUFFICES ASSUME k + TokenLen - 1 > m
                 PROVE  FALSE
      BY <1>1, <1>4
    <3>1. m \in k .. k + TokenLen - 1 /\ m + 1 \in k .. k + TokenLen - 1 /\ m \in 1 .. m /\ m > 0
      BY <1>1, <1>4
    <3>2. InWord(u[m]) /\ InWord(u[m + 1]) /\ n > 0 /\ 1 \in 1 .. n
      BY <1>1, <1>4, <1>6, <1>7, <3>1
    <3> QED BY <1>2, <1>3, <3>1, <3>2
  <2>3. ASSUME NEW i \in 1 .. TokenLen
        PROVE  k + i - 1 =< m /\ s[k + i - 1] = [glyph |-> s[k].glyph, byte |-> i]
    <3>1. k + i - 1 \in 1 .. m
      BY <1>1, <1>4, <2>2
    <3>2. u[k + i - 1] = [glyph |-> u[k].glyph, byte |-> i]
      BY <2>1
    <3> QED BY <1>2, <3>1, <3>2
  <2>4. k > 1 => ~InWord(s[k - 1])
    <3>1. k > 1 => k - 1 \in 1 .. m
      BY <1>1
    <3> QED BY <1>2, <2>1, <3>1
  <2>5. k + TokenLen =< m => ~InWord(s[k + TokenLen])
    <3>1. k + TokenLen =< m => k + TokenLen \in 1 .. m /\ k + TokenLen =< m + n
      BY <1>1, <1>4
    <3> QED BY <1>2, <2>1, <3>1
  <2>6. s[k].glyph \in Token
    BY <1>2, <2>1
  <2> QED BY <1>5, <2>3, <2>4, <2>5, <2>6
<1>8. ASSUME NEW k \in 1 .. m, k \in Matches(s)
      PROVE  k \in Matches(u)
  <2>1. At(s, m, k) /\ k \in 1 .. m + n /\ k + TokenLen - 1 =< m
    BY <1>1, <1>5, <1>6, <1>8
  <2>2. ASSUME NEW i \in 1 .. TokenLen
        PROVE  k + i - 1 =< m + n /\ u[k + i - 1] = [glyph |-> u[k].glyph, byte |-> i]
    <3>1. k + i - 1 \in 1 .. m /\ k + i - 1 =< m + n
      BY <1>1, <1>4, <2>1
    <3>2. s[k + i - 1] = [glyph |-> s[k].glyph, byte |-> i]
      BY <2>1
    <3> QED BY <1>2, <3>1, <3>2
  <2>3. k > 1 => ~InWord(u[k - 1])
    <3>1. k > 1 => k - 1 \in 1 .. m
      BY <1>1
    <3> QED BY <1>2, <2>1, <3>1
  <2>4. k + TokenLen =< m + n => ~InWord(u[k + TokenLen])
    <3>1. CASE k + TokenLen =< m
      <4>1. k + TokenLen \in 1 .. m
        BY <1>1, <1>4, <3>1
      <4> QED BY <1>2, <2>1, <3>1, <4>1
    <3>2. CASE ~(k + TokenLen =< m)
      <4> SUFFICES ASSUME k + TokenLen =< m + n
                   PROVE  ~InWord(u[k + TokenLen])
        OBVIOUS
      <4>1. k + TokenLen = m + 1 /\ m > 0 /\ n > 0 /\ 1 \in 1 .. n /\ m \in k .. k + TokenLen - 1
        BY <1>1, <1>4, <2>1, <3>2
      <4>2. InWord(s[m])
        BY <1>6, <1>8, <4>1
      <4> QED BY <1>2, <1>3, <4>1, <4>2
    <3> QED BY <3>1, <3>2
  <2>5. u[k].glyph \in Token
    BY <1>2, <2>1
  <2> QED BY <1>5, <2>1, <2>2, <2>3, <2>4, <2>5
<1>9. ASSUME NEW k \in 1 .. n
      PROVE  m + k \in Matches(u) <=> k \in Matches(t)
  <2>1. /\ m + k \in 1 .. m + n /\ u[m + k] = t[k]
        /\ m + k \in Matches(u) <=> At(u, m + n, m + k)
        /\ k \in Matches(t) <=> At(t, n, k)
    <3>1. m + k \in 1 .. m + n
      BY <1>1
    <3> HIDE DEF At
    <3> QED BY <1>2, <1>5, <3>1
  <2>2. ASSUME NEW i \in 1 .. TokenLen
        PROVE  /\ (m + k) + i - 1 =< m + n <=> k + i - 1 =< n
               /\ k + i - 1 =< n => u[(m + k) + i - 1] = t[k + i - 1]
    <3>1. (m + k) + i - 1 = m + (k + i - 1) /\ k + i - 1 >= 1 /\ k + i - 1 \in Nat
      BY <1>1, <1>4
    <3> QED BY <1>1, <1>2, <3>1
  <2>3. k > 1 => m + k > 1 /\ u[(m + k) - 1] = t[k - 1]
    <3>1. k > 1 => k - 1 \in 1 .. n /\ (m + k) - 1 = m + (k - 1)
      BY <1>1
    <3> QED BY <1>1, <1>2, <3>1
  <2>4. /\ (m + k) + TokenLen =< m + n <=> k + TokenLen =< n
        /\ k + TokenLen =< n => u[(m + k) + TokenLen] = t[k + TokenLen]
    <3>1. (m + k) + TokenLen = m + (k + TokenLen) /\ k + TokenLen >= 1 /\ k + TokenLen \in Nat
      BY <1>1, <1>4
    <3> QED BY <1>1, <1>2, <3>1
  <2>5. ASSUME k \in Matches(t), k = 1, m + k > 1
        PROVE  ~InWord(u[(m + k) - 1])
    <3>1. m > 0 /\ (m + k) - 1 = m /\ m \in 1 .. m /\ n > 0 /\ 1 \in k .. k + TokenLen - 1
      BY <1>1, <1>4, <2>5
    <3>2. InWord(t[1])
      BY <1>6, <2>5, <3>1
    <3> QED BY <1>2, <1>3, <3>1, <3>2
  <2>6. At(u, m + n, m + k) => At(t, n, k)
    BY <2>1, <2>2, <2>3, <2>4
  <2>7. At(t, n, k) => At(u, m + n, m + k)
    <3>1. k = 1 \/ k > 1
      BY <1>1
    <3> QED BY <2>1, <2>2, <2>3, <2>4, <2>5, <3>1
  <2> QED BY <2>1, <2>6, <2>7
<1> QED BY <1>7, <1>8, <1>9 DEF u, m, n


(* What is detokenized apart, if not cut inside a word, is what is         *)
(* detokenized together.                                                   *)
LEMMA DetokenizeConcat ==
  ASSUME NEW s \in Seq(Byte), NEW t \in Seq(Byte), ~Joined(s, t)
  PROVE  Detokenize(s \o t) = Detokenize(s) \o Detokenize(t)
<1> DEFINE u == s \o t
           m == Len(s)
           n == Len(t)
<1>1. /\ u \in Seq(Byte) /\ Len(u) = m + n /\ m \in Nat /\ n \in Nat
      /\ \A k \in 1 .. m + n : u[k] = IF k =< m THEN s[k] ELSE t[k - m]
  BY ConcatProperties, LenProperties
<1>2. /\ \A k \in 1 .. m : k \in 1 .. m + n /\ u[k] = s[k]
      /\ \A k \in 1 .. n : m + k \in 1 .. m + n /\ u[m + k] = t[k]
  <2>1. \A k \in 1 .. m : k \in 1 .. m + n /\ k =< m
    BY <1>1
  <2>2. \A k \in 1 .. n : m + k \in 1 .. m + n /\ ~(m + k =< m) /\ (m + k) - m = k
    BY <1>1
  <2> HIDE DEF u, m, n
  <2> QED BY <1>1, <2>1, <2>2
<1>3. /\ \A k \in 1 .. m : k \in Matches(u) <=> k \in Matches(s)
      /\ \A k \in 1 .. n : m + k \in Matches(u) <=> k \in Matches(t)
  BY MatchesConcat
<1>4. TokenLen \in Nat \ {0}
  BY StreamAssumption
<1>5. /\ \A h \in Hits(s) : h \in 1 .. m /\ h + TokenLen - 1 =< m
      /\ \A h \in Hits(t) : h \in 1 .. n
      /\ \A h \in Hits(u) : h \in 1 .. m + n
  <2> HIDE DEF u
  <2> QED BY <1>1, MatchInWord DEF Hits
<1> HIDE DEF u, m, n
<1>6. /\ \A k \in 1 .. m : k \in Hits(u) <=> k \in Hits(s)
      /\ \A k \in 1 .. n : m + k \in Hits(u) <=> k \in Hits(t)
  BY <1>2, <1>3 DEF Hits
<1>7. ASSUME NEW k \in 1 .. m
      PROVE  Piece(u, k) = Piece(s, k)
  <2>1. (\E h \in Hits(u) : h < k /\ k < h + TokenLen)
          <=> (\E h \in Hits(s) : h < k /\ k < h + TokenLen)
    <3>1. ASSUME NEW h \in Hits(u), h < k
          PROVE  h \in Hits(s)
      <4>1. h \in 1 .. m
        BY <1>1, <1>5, <3>1
      <4> QED BY <4>1, <1>6
    <3>2. ASSUME NEW h \in Hits(s)
          PROVE  h \in Hits(u)
      BY <1>5, <1>6
    <3> QED BY <3>1, <3>2
  <2> QED BY <1>2, <1>6, <2>1 DEF Piece
<1>8. ASSUME NEW k \in 1 .. n
      PROVE  Piece(u, m + k) = Piece(t, k)
  <2>1. (\E h \in Hits(u) : h < m + k /\ m + k < h + TokenLen)
          <=> (\E h \in Hits(t) : h < k /\ k < h + TokenLen)
    <3>1. ASSUME NEW h \in Hits(u), h < m + k, m + k < h + TokenLen
          PROVE  h - m \in Hits(t) /\ h - m < k /\ k < (h - m) + TokenLen
      <4>1. h > m
        <5> SUFFICES ASSUME h =< m
                     PROVE  FALSE
          BY <1>1, <1>5
        <5>1. h \in 1 .. m
          BY <1>1, <1>5
        <5>2. h + TokenLen - 1 =< m
          BY <5>1, <1>5, <1>6
        <5> QED BY <5>1, <5>2, <3>1, <1>1, <1>4
      <4>2. h - m \in 1 .. n /\ h = m + (h - m)
        BY <4>1, <1>1, <1>5
      <4>3. h - m \in Hits(t)
        BY <4>2, <1>6
      <4> QED BY <4>2, <4>3, <3>1, <1>1, <1>4
    <3>2. ASSUME NEW h \in Hits(t), h < k, k < h + TokenLen
          PROVE  m + h \in Hits(u) /\ m + h < m + k /\ m + k < (m + h) + TokenLen
      <4>1. h \in 1 .. n
        BY <1>5
      <4> QED BY <4>1, <1>1, <1>4, <1>6, <3>2
    <3> QED BY <3>1, <3>2
  <2> QED BY <1>2, <1>6, <2>1 DEF Piece
<1> DEFINE a == Pieces(s)
           b == Pieces(t)
           c == Pieces(u)
<1>9. /\ a \in Seq(Seq(Byte)) /\ Len(a) = m /\ b \in Seq(Seq(Byte)) /\ Len(b) = n
      /\ c \in Seq(Seq(Byte)) /\ Len(c) = m + n
  BY <1>1, PiecesType DEF m, n
<1>10. /\ \A k \in 1 .. m : a[k] = Piece(s, k)
       /\ \A k \in 1 .. n : b[k] = Piece(t, k)
       /\ \A k \in 1 .. m + n : c[k] = Piece(u, k)
  BY <1>1 DEF Pieces, m, n
<1> HIDE DEF a, b, c
<1>11. c = a \o b
  <2> DEFINE w == a \o b
  <2>1. /\ w \in Seq(Seq(Byte)) /\ Len(w) = m + n
        /\ \A k \in 1 .. m + n : w[k] = IF k =< m THEN a[k] ELSE b[k - m]
    <3>1. /\ w \in Seq(Seq(Byte)) /\ Len(w) = Len(a) + Len(b)
          /\ \A k \in 1 .. Len(a) + Len(b) : w[k] = IF k =< Len(a) THEN a[k] ELSE b[k - Len(a)]
      BY <1>9, ConcatProperties
    <3> HIDE DEF w
    <3> QED BY <1>9, <3>1
  <2> HIDE DEF w
  <2>2. ASSUME NEW k \in 1 .. m + n
        PROVE  c[k] = w[k]
    <3>1. CASE k =< m
      <4>1. k \in 1 .. m
        BY <1>1, <3>1
      <4> QED BY <1>7, <1>10, <2>1, <3>1, <4>1
    <3>2. CASE ~(k =< m)
      <4>1. k - m \in 1 .. n /\ k = m + (k - m)
        BY <1>1, <3>2
      <4>2. Piece(u, m + (k - m)) = Piece(t, k - m)
        BY <1>8, <4>1
      <4>3. w[k] = b[k - m] /\ b[k - m] = Piece(t, k - m) /\ c[k] = Piece(u, k)
        BY <1>10, <2>1, <3>2, <4>1
      <4> QED BY <4>1, <4>2, <4>3
    <3> QED BY <3>1, <3>2
  <2>3. c = w
    BY <1>9, <2>1, <2>2, SeqEqual
  <2> QED BY <2>3 DEF w
<1>12. FlattenSeq(c) = FlattenSeq(a) \o FlattenSeq(b)
  BY <1>9, <1>11, FlattenConcat
<1> QED BY <1>12, DetokenizePieces DEF a, b, c, u

LEMMA DetokenizeNothing == Detokenize(<<>>) = <<>>
<1>1. <<>> \in Seq(Byte) /\ Len(<<>>) = 0
  OBVIOUS
<1>2. Pieces(<<>>) \in Seq(Seq(Byte)) /\ Len(Pieces(<<>>)) = 0
  BY <1>1, PiecesType
<1>3. Pieces(<<>>) = <<>>
  BY <1>2, EmptySeq
<1> QED BY <1>3, DetokenizePieces, FlattenEmpty


-----------------------------------------------------------------------------
(***************************************************************************)
(* Unless a lookup failed or a release ended inside a word, what came out  *)
(* is what was taken, detokenized together, and the next piece does not    *)
(* begin inside the word the last one ended with.                          *)
(***************************************************************************)
DetokInv ==
  /\ StreamInv
  /\ ~lost /\ ~cut => out = Detokenize(released)
  /\ ~cut => ~Joined(released, buffer)
  /\ closed => buffer = <<>>

LEMMA BuffersAreBytes ==
  StreamInv => /\ released \in Seq(Byte) /\ buffer \in Seq(Byte)
               /\ ~closed => released = <<>> \/ Len(buffer) >= Window
<1> SUFFICES ASSUME StreamInv
             PROVE  /\ released \in Seq(Byte) /\ buffer \in Seq(Byte)
                    /\ ~closed => released = <<>> \/ Len(buffer) >= Window
  OBVIOUS
<1>1. /\ text \in Seq(Byte) /\ Len(text) \in Nat /\ given \in 0 .. Len(text) /\ Taken \in 0 .. given
      /\ released = SubSeq(text, 1, Taken) /\ buffer = SubSeq(text, Taken + 1, given)
  BY TextFacts DEF StreamInv, Placed
<1>2. 0 \in 0 .. Len(text) /\ Taken \in 0 .. Len(text) /\ given \in Taken .. Len(text) /\ 0 + 1 = 1
  BY <1>1
<1>3. SubSeq(text, 0 + 1, Taken) \in Seq(Byte) /\ buffer \in Seq(Byte) /\ Len(buffer) = given - Taken
  BY <1>1, <1>2, Slice
<1>4. released \in Seq(Byte)
  BY <1>1, <1>3
<1>5. ~closed => released = <<>> \/ Len(buffer) >= Window
  BY <1>3, <1>4, EmptySeq DEF StreamInv, Bounded, Taken
<1> QED BY <1>3, <1>4, <1>5

LEMMA TakeDetokenized ==
  ASSUME DetokInv, NEW s \in Seq(Byte), NEW split \in 0 .. Len(s), Take(s, split),
         cut => cut', ~cut => ~Joined(released, s)
  PROVE  ~lost' /\ ~cut' => out' = Detokenize(released')
<1> SUFFICES ASSUME ~lost', ~cut'
             PROVE  out' = Detokenize(released')
  OBVIOUS
<1> DEFINE safe == SubSeq(s, 1, split)
<1>1. /\ safe \in Seq(Byte) /\ Len(safe) = split
      /\ \A k \in 1 .. split : safe[k] = s[k]
  <2>1. 0 \in 0 .. Len(s) /\ split \in 0 .. Len(s) /\ 0 + 1 = 1 /\ split - 0 = split
        /\ \A k \in 1 .. split : 0 + k = k
    BY LenProperties
  <2>2. /\ SubSeq(s, 0 + 1, split) \in Seq(Byte) /\ Len(SubSeq(s, 0 + 1, split)) = split - 0
        /\ \A k \in 1 .. split - 0 : SubSeq(s, 0 + 1, split)[k] = s[0 + k]
    BY <2>1, Slice
  <2> QED BY <2>1, <2>2
<1>2. released' = released \o safe /\ out' = out \o Detokenize(safe) /\ ~lost
  BY DEF Take
<1> HIDE DEF safe
<1>3. out = Detokenize(released) /\ released \in Seq(Byte)
  BY <1>2, BuffersAreBytes DEF DetokInv
<1>4. ~Joined(released, safe)
  <2>1. safe # <<>> => s # <<>> /\ safe[1] = s[1]
    <3>1. safe # <<>> => split > 0
      BY <1>1, EmptySeq
    <3>2. split > 0 => 1 \in 1 .. split /\ Len(s) > 0
      BY LenProperties
    <3> QED BY <1>1, <3>1, <3>2, EmptySeq
  <2> QED BY <2>1 DEF Joined
<1> QED BY <1>1, <1>2, <1>3, <1>4, DetokenizeConcat

(* The buffer begins as it did when a chunk is added to it, and one is     *)
(* not empty after a release.                                              *)
LEMMA GrownBegins ==
  ASSUME DetokInv, Window > 0, ~closed, NEW n \in 0 .. MaxChunk, Chunked(n)
  PROVE  /\ buffer \o Chunk(n) \in Seq(Byte)
         /\ ~cut => ~Joined(released, buffer \o Chunk(n))
<1>1. /\ released \in Seq(Byte) /\ buffer \in Seq(Byte)
      /\ released = <<>> \/ Len(buffer) >= Window
  BY BuffersAreBytes DEF DetokInv
<1>2. Chunk(n) \in Seq(Byte)
  <2>1. /\ text \in Seq(Byte) /\ Len(text) \in Nat /\ given \in 0 .. Len(text) /\ n \in Nat
        /\ given + n =< Len(text)
    BY TextFacts, StreamAssumption DEF DetokInv, StreamInv, Placed, Chunked
  <2>2. given + n \in given .. Len(text)
    BY <2>1
  <2> QED BY <2>1, <2>2, Slice DEF Chunk
<1> DEFINE c == Chunk(n)
           g == buffer \o c
<1> HIDE DEF c
<1>3. /\ g \in Seq(Byte)
      /\ Len(g) = Len(buffer) + Len(c) /\ Len(buffer) \in Nat /\ Len(c) \in Nat
      /\ \A k \in 1 .. Len(buffer) + Len(c) :
           g[k] = IF k =< Len(buffer) THEN buffer[k] ELSE c[k - Len(buffer)]
  BY <1>1, <1>2, ConcatProperties, LenProperties DEF c
<1>4. released # <<>> => buffer # <<>> /\ g[1] = buffer[1]
  <2>1. released # <<>> => Len(buffer) > 0
    BY <1>1, <1>3, StreamAssumption
  <2>2. Len(buffer) > 0 => 1 \in 1 .. Len(buffer) + Len(c) /\ 1 =< Len(buffer)
    BY <1>3
  <2> QED BY <1>3, <2>1, <2>2
<1> HIDE DEF g
<1>5. ~cut => ~Joined(released, g)
  BY <1>4 DEF DetokInv, Joined
<1> QED BY <1>3, <1>5 DEF c, g

LEMMA DetokStep == Window > 0 /\ DetokInv /\ [Next]_vars => DetokInv'
<1> SUFFICES ASSUME Window > 0, DetokInv, [Next]_vars
             PROVE  DetokInv'
  OBVIOUS
<1>0. StreamInv /\ StreamInv' /\ Window \in Nat
  BY StreamInvStep, StreamAssumption DEF DetokInv
<1>1. ASSUME NEW n \in 0 .. MaxChunk, Hold(n)
      PROVE  DetokInv'
  <2>1. ~closed /\ Chunked(n) /\ buffer' = buffer \o Chunk(n)
        /\ UNCHANGED <<out, closed, released, lost, cut>>
    BY <1>1 DEF Hold, Chunked
  <2>2. ~cut => ~Joined(released, buffer \o Chunk(n))
    BY <2>1, GrownBegins
  <2> QED BY <1>0, <2>1, <2>2 DEF DetokInv, Joined
<1>2. ASSUME NEW n \in 0 .. MaxChunk, Release(n)
      PROVE  DetokInv'
  <2> DEFINE g == buffer \o Chunk(n)
             split == Split(g)
  <2>1. ~closed /\ Chunked(n) /\ closed' = closed /\ Len(g) > Window
        /\ Take(g, split) /\ buffer' = SubSeq(g, split + 1, Len(g))
        /\ cut' = (cut \/ (split > 0 /\ split < Len(g) /\ InWord(g[split]) /\ InWord(g[split + 1])))
    BY <1>2 DEF Release, Chunked
  <2>2. g \in Seq(Byte) /\ (~cut => ~Joined(released, g))
    BY <2>1, GrownBegins
  <2>3. split \in 0 .. Len(g) - Window /\ Len(g) \in Nat
    <3>1. /\ given + n \in 0 .. Len(text)
          /\ g = SubSeq(text, Taken + 1, given + n)
          /\ Len(g) = (given + n) - Taken
      BY <1>0, <2>1, GrownSlice
    <3>2. /\ text \in Texts /\ Taken \in 0 .. Len(text) /\ given + n \in Taken .. Len(text)
          /\ IsCharBoundary(text, Taken) /\ (given + n) - Taken \in Nat
      <4>1. /\ text \in Texts /\ Len(text) \in Nat /\ given \in 0 .. Len(text)
            /\ Taken \in 0 .. given /\ IsCharBoundary(text, Taken) /\ n \in Nat
        BY <1>0, TextFacts, StreamAssumption DEF StreamInv, Placed, Bounded
      <4> QED BY <4>1, <3>1
    <3> DEFINE pos == Len(g) - Window
    <3>3. pos \in 0 .. (given + n) - Taken
      <4> DEFINE d == (given + n) - Taken
      <4>1. d \in Nat /\ Len(g) = d /\ d > Window
        BY <2>1, <3>1, <3>2
      <4> HIDE DEF d, g
      <4>2. d - Window \in 0 .. d
        BY <1>0, <4>1
      <4> QED BY <4>1, <4>2 DEF d
    <3>4. FloorCharBoundary(SubSeq(text, Taken + 1, given + n), pos) \in 0 .. pos
      <4> HIDE DEF pos
      <4> QED BY <3>2, <3>3, FloorOfSlice
    <3> QED BY <3>1, <3>2, <3>4 DEF Split
  <2> HIDE DEF g, split
  <2>4. split \in 0 .. Len(g) /\ split < Len(g) /\ Len(g) \in Nat
    BY <1>0, <2>3
  <2>5. ~lost' /\ ~cut' => out' = Detokenize(released')
    BY <2>1, <2>2, <2>4, TakeDetokenized
  <2>6. ASSUME ~cut'
        PROVE  ~Joined(released', buffer')
    <3>1. ~cut /\ ~(split > 0 /\ InWord(g[split]) /\ InWord(g[split + 1]))
      BY <2>1, <2>4, <2>6
    <3> DEFINE safe == SubSeq(g, 1, split)
               rest == SubSeq(g, split + 1, Len(g))
    <3>2. /\ safe \in Seq(Byte) /\ Len(safe) = split
          /\ \A k \in 1 .. split : safe[k] = g[k]
      <4>1. 0 \in 0 .. Len(g) /\ split \in 0 .. Len(g) /\ 0 + 1 = 1 /\ split - 0 = split
            /\ \A k \in 1 .. split : 0 + k = k
        BY <2>4
      <4>2. /\ SubSeq(g, 0 + 1, split) \in Seq(Byte) /\ Len(SubSeq(g, 0 + 1, split)) = split - 0
            /\ \A k \in 1 .. split - 0 : SubSeq(g, 0 + 1, split)[k] = g[0 + k]
        BY <2>2, <4>1, Slice
      <4> QED BY <4>1, <4>2
    <3>3. rest \in Seq(Byte) /\ rest[1] = g[split + 1]
      <4>1. Len(g) \in split .. Len(g) /\ 1 \in 1 .. Len(g) - split
        BY <2>4
      <4> QED BY <2>2, <2>4, <4>1, Slice
    <3>4. released' = released \o safe /\ buffer' = rest
      BY <2>1 DEF Take
    <3>5. released \in Seq(Byte)
      BY <1>0, BuffersAreBytes
    <3>6. CASE split > 0
      <4> DEFINE r == released \o safe
      <4> HIDE DEF safe, rest
      <4>1. /\ r \in Seq(Byte) /\ Len(r) = Len(released) + split /\ Len(released) \in Nat
            /\ \A k \in 1 .. Len(released) + split :
                 r[k] = IF k =< Len(released) THEN released[k] ELSE safe[k - Len(released)]
        <5>1. /\ r \in Seq(Byte) /\ Len(r) = Len(released) + Len(safe)
              /\ \A k \in 1 .. Len(released) + Len(safe) :
                   r[k] = IF k =< Len(released) THEN released[k] ELSE safe[k - Len(released)]
          BY <3>2, <3>5, ConcatProperties
        <5> HIDE DEF r
        <5> QED BY <3>2, <3>5, <5>1, LenProperties
      <4>2. r[Len(r)] = g[split]
        <5>1. /\ Len(released) + split \in 1 .. Len(released) + split
              /\ ~(Len(released) + split =< Len(released))
              /\ (Len(released) + split) - Len(released) = split /\ split \in 1 .. split
          BY <4>1, <3>6, <2>4
        <5> HIDE DEF r
        <5> QED BY <4>1, <5>1, <3>2
      <4> QED BY <3>1, <3>3, <3>4, <3>6, <4>2 DEF Joined
    <3>7. CASE split = 0
      <4>1. safe = <<>>
        BY <3>2, <3>7, EmptySeq
      <4>2. released' = released
        BY <3>4, <3>5, <4>1, ConcatEmptySeq
      <4>3. rest[1] = g[1] /\ g # <<>>
        BY <2>4, <3>3, <3>7
      <4> QED BY <2>2, <3>1, <3>4, <4>2, <4>3 DEF Joined
    <3> QED BY <2>4, <3>6, <3>7
  <2> QED BY <1>0, <2>1, <2>5, <2>6 DEF DetokInv
<1>3. CASE Flush
  <2>1. Take(buffer, Len(buffer)) /\ buffer' = <<>> /\ closed' = TRUE /\ cut' = cut
    BY <1>3 DEF Flush
  <2>2. buffer \in Seq(Byte) /\ Len(buffer) \in 0 .. Len(buffer)
    BY <1>0, BuffersAreBytes, LenProperties
  <2>3. ~lost' /\ ~cut' => out' = Detokenize(released')
    BY <2>1, <2>2, TakeDetokenized DEF DetokInv
  <2> QED BY <1>0, <2>1, <2>3 DEF DetokInv, Joined
<1>4. CASE UNCHANGED vars
  BY <1>0, <1>4 DEF DetokInv, Joined, vars
<1> QED BY <1>1, <1>2, <1>3, <1>4 DEF Next

(***************************************************************************)
(* If the window is not empty, then whatever the text and however it comes *)
(* in chunks, what a stream gives is what detokenizing the whole text at   *)
(* once gives, unless a lookup failed or a release ended inside a word.    *)
(* (With an empty window a release may take all there is, and whether that *)
(* was the end of a word only the next chunk says.  The code has 512.)     *)
(***************************************************************************)
THEOREM ChunksLeaveNoTrace == Window > 0 => (Spec => []ChunkingInvisible)
<1> SUFFICES ASSUME Window > 0
             PROVE  Spec => []ChunkingInvisible
  OBVIOUS
<1>1. Init => DetokInv
  <2> SUFFICES ASSUME Init
               PROVE  DetokInv
    OBVIOUS
  <2>1. released = <<>> /\ buffer = <<>> /\ out = <<>> /\ closed = FALSE
    BY DEF Init
  <2> QED BY <2>1, InitStreamInv, DetokenizeNothing DEF DetokInv, Joined
<1>2. DetokInv /\ [Next]_vars => DetokInv'
  BY DetokStep
<1>3. DetokInv /\ NothingOvertaken => ChunkingInvisible
  <2> SUFFICES ASSUME DetokInv, NothingOvertaken, closed, ~lost, ~cut
               PROVE  out = Detokenize(Given)
    BY DEF ChunkingInvisible
  <2>1. released \in Seq(Byte) /\ released \o <<>> = Given
    BY BuffersAreBytes DEF DetokInv, NothingOvertaken
  <2>2. released = Given
    BY <2>1, ConcatEmptySeq
  <2> QED BY <2>2 DEF DetokInv
<1> QED BY <1>1, <1>2, <1>3, OrderKept, PTL DEF Spec
=============================================================================
