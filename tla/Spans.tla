------------------------------- MODULE Spans --------------------------------
(***************************************************************************)
(* From what the detectors find in a text to the text with tokens in it:   *)
(* merge_spans of src/detector/mod.rs, then Tokenizer::tokenize of         *)
(* src/tokenizer.rs.  Both go through a sorted list of spans one at a time *)
(* and drop those that overlap one they took before, by different orders   *)
(* and different rules.                                                    *)
(*                                                                         *)
(* Where the code's unstable sort leaves the order open, the model does.   *)
(* Two detections that agree in everything are one: the second is always   *)
(* discarded.                                                              *)
(***************************************************************************)
EXTENDS Integers, SequencesExt

CONSTANTS
  Length,     \* bytes of the text
  Type,       \* entity types
  Priority,   \* the detectors, by DetectorPriority
  Detections  \* the sets of spans the pipeline may find

Span == {s \in [start : Nat, end : Nat, type : Type, priority : Priority] :
           s.start < s.end /\ s.end =< Length}

ASSUME SpansAssumption ==
  /\ Length \in Nat
  /\ Priority \subseteq Nat
  /\ Detections \subseteq SUBSET Span

VARIABLES
  detected,   \* what the detectors found
  tagged,     \* the part of it merge_spans has not come to
  kept,       \* its result
  todo,       \* the part of that the tokenizer has not come to
  replaced,   \* the spans the tokenizer has stored a token for
  left,       \* those of them not substituted yet
  sanitized,  \* the text being put together
  failed      \* a vault write failed, and the request with it

spansVars == <<detected, tagged, kept, todo, replaced, left, sanitized, failed>>

(***************************************************************************)
(* The text, byte by byte; a token is one item, whatever it stands for.    *)
(***************************************************************************)
Clear(k) == [start |-> k, end |-> k + 1, token |-> FALSE]
TokenFor(s) == [start |-> s.start, end |-> s.end, token |-> TRUE]
Text == [k \in 1 .. Length |-> Clear(k - 1)]

SpansInit ==
  /\ detected \in Detections
  /\ tagged = detected
  /\ kept = {}
  /\ todo = {}
  /\ replaced = {}
  /\ left = {}
  /\ sanitized = Text
  /\ failed = FALSE

-----------------------------------------------------------------------------
Size(s) == s.end - s.start

(* Mutant: spans that only touch overlap. *)
OverlapOrTouch(s, t) == s.start =< t.end /\ s.end >= t.start

SpansOverlap(s, t) == s.start < t.end /\ s.end > t.start

(* Mutant: the detectors are forgotten. *)
PrecedesByPlace(s, t) ==
  \/ s.start < t.start
  \/ s.start = t.start /\ Size(s) > Size(t)

(* The order of merge_spans: by start, longest first, highest priority first. *)
Precedes(s, t) ==
  \/ s.start < t.start
  \/ s.start = t.start /\ Size(s) > Size(t)
  \/ s.start = t.start /\ Size(s) = Size(t) /\ s.priority > t.priority

FirstOf(c, S) == c \in S /\ \A d \in S : ~Precedes(d, c)

(* The candidate is dropped for the sake of a span already kept. *)
Covers(s, c) ==
  /\ SpansOverlap(c, s)
  /\ \/ c.start = s.start /\ c.end = s.end /\ c.type = s.type
     \/ s.priority >= c.priority

Discard(c) ==
  /\ FirstOf(c, tagged)
  /\ \E s \in kept : Covers(s, c)
  /\ tagged' = tagged \ {c}
  /\ UNCHANGED <<detected, kept, todo, replaced, left, sanitized, failed>>

Keep(c) ==
  /\ FirstOf(c, tagged)
  /\ \A s \in kept : ~Covers(s, c)
  /\ tagged' = tagged \ {c}
  /\ kept' = kept \cup {c}
  /\ todo' = todo \cup {c}
  /\ UNCHANGED <<detected, replaced, left, sanitized, failed>>

-----------------------------------------------------------------------------
(* Mutant: takes the spans as they come. *)
LeftFirst(s, t) == s.start < t.start

(* The order of the tokenizer: longest first, then by start. *)
LongerFirst(s, t) ==
  \/ Size(s) > Size(t)
  \/ Size(s) = Size(t) /\ s.start < t.start

(* merge_spans has returned, and s is next. *)
Tokenizing(s) ==
  /\ tagged = {}
  /\ ~failed
  /\ s \in todo
  /\ \A t \in todo : ~LongerFirst(t, s)

Skip(s) ==
  /\ Tokenizing(s)
  /\ \E t \in replaced : SpansOverlap(s, t)
  /\ todo' = todo \ {s}
  /\ UNCHANGED <<detected, tagged, kept, replaced, left, sanitized, failed>>

(* Its token is generated and stored. *)
Replace(s) ==
  /\ Tokenizing(s)
  /\ \A t \in replaced : ~SpansOverlap(s, t)
  /\ todo' = todo \ {s}
  /\ replaced' = replaced \cup {s}
  /\ left' = left \cup {s}
  /\ UNCHANGED <<detected, tagged, kept, sanitized, failed>>

(* The write fails: the tokens stored before stay in the vault. *)
StoreFails(s) ==
  /\ Tokenizing(s)
  /\ \A t \in replaced : ~SpansOverlap(s, t)
  /\ failed' = TRUE
  /\ UNCHANGED <<detected, tagged, kept, todo, replaced, left, sanitized>>

(* replace_range on what is there by now, by offsets in the original text. *)
ReplaceRange(s) ==
  SubSeq(sanitized, 1, s.start) \o <<TokenFor(s)>>
    \o SubSeq(sanitized, s.end + 1, Len(sanitized))

(* Mutant: from front to back. *)
SubstituteFromFront(s) ==
  /\ tagged = {} /\ todo = {}
  /\ s \in left
  /\ \A t \in left : s.start =< t.start
  /\ sanitized' = ReplaceRange(s)
  /\ left' = left \ {s}
  /\ UNCHANGED <<detected, tagged, kept, todo, replaced, failed>>

(* Back to front, so that the offsets of the others stay right. *)
Substitute(s) ==
  /\ tagged = {} /\ todo = {}
  /\ s \in left
  /\ \A t \in left : t.start =< s.start
  /\ sanitized' = ReplaceRange(s)
  /\ left' = left \ {s}
  /\ UNCHANGED <<detected, tagged, kept, todo, replaced, failed>>

SpansNext ==
  \/ \E c \in tagged : Discard(c) \/ Keep(c)
  \/ \E s \in todo : Skip(s) \/ Replace(s) \/ StoreFails(s)
  \/ \E s \in left : Substitute(s)

SpansSpec == SpansInit /\ [][SpansNext]_spansVars

-----------------------------------------------------------------------------
SpansTypeOK ==
  /\ detected \subseteq Span
  /\ tagged \subseteq detected
  /\ kept \subseteq detected
  /\ todo \subseteq kept
  /\ replaced \subseteq kept
  /\ left \subseteq replaced
  /\ sanitized \in Seq([start : Nat, end : Nat, token : BOOLEAN])
  /\ failed \in BOOLEAN

Merged == tagged = {}

(* The text goes upstream. *)
Finished == Merged /\ todo = {} /\ left = {} /\ ~failed

Bytes(s) == s.start .. (s.end - 1)

Meet(s, t) == Bytes(s) \cap Bytes(t) # {}

(***************************************************************************)
(* merge_spans drops a detection only for one that shares a byte with it   *)
(* and comes from a detector of at least its priority.                     *)
(***************************************************************************)
DroppedForBetter ==
  Merged => \A d \in detected : \E s \in kept :
              Meet(s, d) /\ s.priority >= d.priority

(***************************************************************************)
(* The tokenizer leaves a span alone only for one that shares a byte with  *)
(* it and is no shorter.                                                   *)
(***************************************************************************)
SkippedForLonger ==
  Finished => \A s \in kept : \E t \in replaced : Meet(s, t) /\ Size(t) >= Size(s)

(***************************************************************************)
(* When all detections are one detector's, as in the default               *)
(* configuration, none goes upstream untouched: of each a byte at least is *)
(* behind a token.                                                         *)
(***************************************************************************)
OneDetectorTouchesAll ==
  (\A d, e \in detected : d.priority = e.priority) =>
    (Finished => \A d \in detected : \E s \in replaced : Meet(s, d))

(* What is left of byte k of the text when tokens stand for the spans in R. *)
ItemsAt(k, R) ==
  LET inside == {s \in R : k - 1 \in Bytes(s)}
  IN IF inside = {} THEN <<Clear(k - 1)>>
     ELSE IF \E s \in inside : s.start = k - 1
       THEN <<TokenFor(CHOOSE s \in inside : s.start = k - 1)>>
     ELSE <<>>

Exchanged(R) == FlattenSeq([k \in 1 .. Length |-> ItemsAt(k, R)])

(***************************************************************************)
(* The sanitized text is the original with each replaced span, and nothing *)
(* else, exchanged for its own token, at its place.                        *)
(***************************************************************************)
SubstitutedInPlace == Finished => sanitized = Exchanged(replaced)
=============================================================================
