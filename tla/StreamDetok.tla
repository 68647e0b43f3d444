---------------------------- MODULE StreamDetok -----------------------------
(***************************************************************************)
(* One StreamingDetokenizer of src/detokenizer.rs: the text of one JSON    *)
(* path of an SSE stream is pushed in chunks, all but its last Window      *)
(* bytes are detokenized and released, and the rest when the stream ends.  *)
(*                                                                         *)
(* Text is a sequence of bytes, each the i-th byte of a glyph: a token of  *)
(* TokenLen ASCII characters, or one character, which takes one to four    *)
(* bytes in UTF-8 and belongs to a word or not.  A token may be cut after  *)
(* any of its bytes, a character must not be.                              *)
(***************************************************************************)
EXTENDS Integers, SequencesExt

CONSTANTS
  Token,     \* glyphs that are tokens of the vault's
  Known,     \* the tokens the vault has an unexpired row for
  Word,      \* characters \b counts as part of a word: letters of any script
  Other,     \* characters it does not
  Size,      \* how many bytes a character takes
  TokenLen,  \* bytes of a token; 10 to 27 in the code
  Window,    \* WINDOW: 512 in the code
  MaxChunk,  \* bound: the bytes of a chunk
  Texts      \* what upstreams may stream

Glyph == Token \cup Word \cup Other

(* The bytes of the longest characters of UTF-8. *)
Widest == 4

(* Byte 0 stands for the original value of a token, in the output only. *)
Byte == [glyph : Glyph, byte : Nat]

(* A later byte of a character, before which a string cannot be cut. *)
Continuation(b) == b.glyph \notin Token /\ b.byte > 1

(* A string of the code is UTF-8: the bytes of a character are together. *)
WholeCharacters(s) ==
  \A k \in 1 .. Len(s) : s[k].glyph \notin Token =>
    /\ s[k].byte \in 1 .. Size[s[k].glyph]
    /\ s[k].byte > 1 =>
         k > 1 /\ s[k - 1] = [s[k] EXCEPT !.byte = @ - 1]
    /\ s[k].byte < Size[s[k].glyph] =>
         k < Len(s) /\ s[k + 1] = [s[k] EXCEPT !.byte = @ + 1]

ASSUME StreamAssumption ==
  /\ Known \subseteq Token
  /\ Token \cap (Word \cup Other) = {}
  /\ Size \in [Word \cup Other -> 1 .. Widest]
  /\ TokenLen \in Nat \ {0}
  /\ Window \in Nat
  /\ MaxChunk \in Nat
  /\ Texts \subseteq Seq(Byte)
  /\ \A s \in Texts : WholeCharacters(s)

VARIABLES
  text,      \* what the upstream streams
  given,     \* how many bytes of it have been pushed
  buffer,    \* StreamingDetokenizer.buffer
  out,       \* what push_chunk and flush have returned, put together
  closed,    \* flush has been called
  released,  \* history: the bytes taken from the buffer
  lost,      \* history: a lookup failed, and what was taken was dropped
  cut        \* history: bytes were taken up to the middle of a word

vars == <<text, given, buffer, out, closed, released, lost, cut>>

-----------------------------------------------------------------------------
InWord(b) == b.glyph \in Token \cup Word

(***************************************************************************)
(* Where \b[A-Z_]+_[0-9a-f]{6}\b matches: all bytes of a token, and no     *)
(* word character on either side.                                          *)
(***************************************************************************)
Matches(s) ==
  {k \in 1 .. Len(s) :
     /\ s[k].glyph \in Token
     /\ \A i \in 1 .. TokenLen :
          /\ k + i - 1 =< Len(s)
          /\ s[k + i - 1] = [glyph |-> s[k].glyph, byte |-> i]
     /\ k > 1 => ~InWord(s[k - 1])
     /\ k + TokenLen =< Len(s) => ~InWord(s[k + TokenLen])}

(* Mutant: find instead of find_iter. *)
DetokenizeFirst(s) ==
  LET hits == {k \in Matches(s) : s[k].glyph \in Known /\ \A j \in Matches(s) : k =< j}
      piece(k) == IF k \in hits
                    THEN <<[glyph |-> s[k].glyph, byte |-> 0]>>
                  ELSE IF \E h \in hits : h < k /\ k < h + TokenLen
                    THEN <<>>
                  ELSE <<s[k]>>
  IN FlattenSeq([k \in 1 .. Len(s) |-> piece(k)])

(* detokenize_text: a token without a row stays as it is. *)
Detokenize(s) ==
  LET hits == {k \in Matches(s) : s[k].glyph \in Known}
      piece(k) == IF k \in hits
                    THEN <<[glyph |-> s[k].glyph, byte |-> 0]>>
                  ELSE IF \E h \in hits : h < k /\ k < h + TokenLen
                    THEN <<>>
                  ELSE <<s[k]>>
  IN FlattenSeq([k \in 1 .. Len(s) |-> piece(k)])

IsCharBoundary(s, pos) ==
  pos < Len(s) => ~Continuation(s[pos + 1])

(* Mutant: rounds up, into the window. *)
CeilCharBoundary(s, pos) ==
  CHOOSE k \in pos .. Len(s) :
    /\ IsCharBoundary(s, k)
    /\ \A j \in pos .. k - 1 : ~IsCharBoundary(s, j)

(* Mutant: gives up after one byte. *)
FloorOnce(s, pos) == IF IsCharBoundary(s, pos) THEN pos ELSE pos - 1

FloorCharBoundary(s, pos) ==
  CHOOSE k \in 0 .. pos :
    /\ IsCharBoundary(s, k) \/ k = 0
    /\ \A j \in k + 1 .. pos : ~IsCharBoundary(s, j)

(* Mutant: releases one byte at a time. *)
SplitSlowly(s) == FloorCharBoundary(s, 1)

Split(s) == FloorCharBoundary(s, Len(s) - Window)

-----------------------------------------------------------------------------
Init ==
  /\ text \in Texts
  /\ given = 0
  /\ buffer = <<>>
  /\ out = <<>>
  /\ closed = FALSE
  /\ released = <<>>
  /\ lost = FALSE
  /\ cut = FALSE

(* The next chunk of n bytes; it is a string, so it ends between characters. *)
Chunk(n) == SubSeq(text, given + 1, given + n)

Chunked(n) ==
  /\ ~closed
  /\ given + n =< Len(text)
  /\ IsCharBoundary(text, given + n)

(* push_chunk with not enough in the buffer to release anything. *)
Hold(n) ==
  /\ Chunked(n)
  /\ Len(buffer \o Chunk(n)) =< Window
  /\ buffer' = buffer \o Chunk(n)
  /\ given' = given + n
  /\ UNCHANGED <<text, out, closed, released, lost, cut>>

(* Takes a prefix from s: detokenized if the vault answers, else dropped. *)
Take(s, split) ==
  LET safe == SubSeq(s, 1, split)
  IN /\ released' = released \o safe
     /\ \/ out' = out \o Detokenize(safe) /\ UNCHANGED lost
        \/ Matches(safe) # {} /\ lost' = TRUE /\ UNCHANGED out

(* push_chunk with more than a window in the buffer. *)
Release(n) ==
  LET grown == buffer \o Chunk(n)
      split == Split(grown)
  IN /\ Chunked(n)
     /\ Len(grown) > Window
     /\ Take(grown, split)
     /\ buffer' = SubSeq(grown, split + 1, Len(grown))
     /\ given' = given + n
     /\ cut' = (cut \/ (split > 0 /\ split < Len(grown)
                         /\ InWord(grown[split]) /\ InWord(grown[split + 1])))
     /\ UNCHANGED <<text, closed>>

(* Mutant: the buffer is not emptied. *)
FlushKeeping ==
  /\ ~closed
  /\ Take(buffer, Len(buffer))
  /\ closed' = TRUE
  /\ UNCHANGED <<text, given, buffer, cut>>

(* The stream ended, whether or not the upstream had said everything. *)
Flush ==
  /\ ~closed
  /\ Take(buffer, Len(buffer))
  /\ buffer' = <<>>
  /\ closed' = TRUE
  /\ UNCHANGED <<text, given, cut>>

Next ==
  \/ \E n \in 0 .. MaxChunk : Hold(n) \/ Release(n)
  \/ Flush

Spec == Init /\ [][Next]_vars

-----------------------------------------------------------------------------
TypeOK ==
  /\ text \in Seq(Byte)
  /\ given \in 0 .. Len(text)
  /\ buffer \in Seq(Byte)
  /\ out \in Seq(Byte)
  /\ closed \in BOOLEAN
  /\ released \in Seq(Byte)
  /\ lost \in BOOLEAN
  /\ cut \in BOOLEAN

Given == SubSeq(text, 1, given)

(* The window, and all bytes of a character but one. *)
Slack == Window + Widest - 1

(***************************************************************************)
(* What has been taken from the buffer and what is in it are, in this      *)
(* order, what was pushed: no byte is dropped, doubled or overtaken on the *)
(* way through the window.                                                 *)
(***************************************************************************)
NothingOvertaken == released \o buffer = Given

(***************************************************************************)
(* Until the end of the stream the last Window bytes pushed are kept.      *)
(***************************************************************************)
WindowKept == ~closed => Len(buffer) >= Window \/ released = <<>>

(***************************************************************************)
(* No more is held back than the window and what is left of a character:   *)
(* streaming does not turn into buffering.                                 *)
(***************************************************************************)
BufferBounded == Len(buffer) =< Slack

(***************************************************************************)
(* The buffer is never cut inside a character, where slicing a string      *)
(* panics and the stream would die.                                        *)
(***************************************************************************)
CharactersWhole == buffer # <<>> => IsCharBoundary(buffer, 0)

(***************************************************************************)
(* Unless a lookup failed or a release ended inside a word, what comes out *)
(* of any chunking is what detokenizing the whole text at once gives.  In  *)
(* particular so does every stream that fits the window.                   *)
(***************************************************************************)
ChunkingInvisible ==
  closed /\ ~lost /\ ~cut => out = Detokenize(Given)

(***************************************************************************)
(* To who pushes and who reads, a streaming detokenizer is a delay line:   *)
(* every push keeps its order and its bounds, flush lets out the rest, and *)
(* nothing comes out after it.  See DelayLine.                             *)
(***************************************************************************)
Delayed ==
  INSTANCE DelayLine WITH
    Least <- Window, Most <- Slack,
    input <- Given, passed <- released, closed <- closed

DelaysOnly == Delayed!Spec

(***************************************************************************)
(* The same without the proviso on words ("far enough from the current     *)
(* tail that no token can be split at the boundary").                      *)
(***************************************************************************)
TokensReassembled ==
  closed /\ ~lost => out = Detokenize(Given)
=============================================================================
