------------------------------- MODULE Cards --------------------------------
(***************************************************************************)
(* How src/detector/regex.rs finds credit card numbers: the pattern        *)
(* \b(?:\d[ \-]?){12,18}\d\b, tried from left to right, and the Luhn check *)
(* on the digits of what it matches.  A text is a sequence of characters,  *)
(* the places in it are counted from 0 as the code counts bytes.           *)
(***************************************************************************)
EXTENDS Integers, SequencesExt

CONSTANTS
  Char,       \* the characters of texts
  Digit,      \* the ten digits of ASCII in their order
  OtherDigit, \* the decimal digits of other scripts
  Separator,  \* a space or a hyphen
  WordChar,   \* the other characters \b counts as part of a word
  MinDigits,  \* of a card number: 13 in the code
  MaxDigits   \* 19 in the code

ASSUME CardsAssumption ==
  /\ Digit \in Seq(Char) /\ Len(Digit) = 10
  /\ ToSet(Digit) \cap (OtherDigit \cup Separator \cup WordChar) = {}
  /\ OtherDigit \cap (Separator \cup WordChar) = {}
  /\ MinDigits \in Nat \ {0}
  /\ MaxDigits \in Nat
  /\ MinDigits =< MaxDigits

Digits == ToSet(Digit)

(* \d of a pattern: Unicode's decimal digits. *)
DecimalDigits == Digits \cup OtherDigit

ToDigit(c) == CHOOSE d \in 0 .. 9 : Digit[d + 1] = c

(* Mutant: twice the digit, without the sum of its digits. *)
DoubledPlain(d) == 2 * d

Doubled(d) == IF 2 * d > 9 THEN 2 * d - 9 ELSE 2 * d

(* Every second digit counts double, beginning next to the last. *)
Weight(ds, k) ==
  IF (Len(ds) - k) % 2 = 1 THEN Doubled(ToDigit(ds[k])) ELSE ToDigit(ds[k])

LuhnValid(ds) ==
  LET sum[k \in 0 .. Len(ds)] == IF k = 0 THEN 0 ELSE sum[k - 1] + Weight(ds, k)
  IN sum[Len(ds)] % 10 = 0

(* Digits of other scripts go as the separators do. *)
StripSeparators(s) ==
  FlattenSeq([k \in 1 .. Len(s) |-> IF s[k] \in Digits THEN <<s[k]>> ELSE <<>>])

(***************************************************************************)
(* \b between the places before and after offset i.                        *)
(***************************************************************************)
InWordAt(t, k) == k \in 1 .. Len(t) /\ t[k] \in DecimalDigits \cup WordChar
WordBoundary(t, i) == InWordAt(t, i) # InWordAt(t, i + 1)

(* The pattern matches the text between the offsets i and j. *)
CardLike(t, i, j) ==
  LET s == SubSeq(t, i + 1, j)
  IN /\ i < j
     /\ ToSet(s) \subseteq DecimalDigits \cup Separator
     /\ s[1] \in DecimalDigits /\ s[Len(s)] \in DecimalDigits
     /\ \A k \in 2 .. Len(s) : s[k] \in DecimalDigits \/ s[k - 1] \in DecimalDigits
     /\ Cardinality({k \in 1 .. Len(s) : s[k] \in DecimalDigits}) \in MinDigits .. MaxDigits
     /\ WordBoundary(t, i) /\ WordBoundary(t, j)

CardEnds(t, i) == {j \in 0 .. Len(t) : CardLike(t, i, j)}
CardStarts(t, from) == {i \in from .. Len(t) : CardEnds(t, i) # {}}

(* Mutant: as few repetitions as will do. *)
LazyMatch(t, from) ==
  LET i == Min(CardStarts(t, from)) IN [start |-> i, end |-> Min(CardEnds(t, i))]

(* The next match of find_iter: the leftmost, with as many digits as it can. *)
NextMatch(t, from) ==
  LET i == Min(CardStarts(t, from)) IN [start |-> i, end |-> Max(CardEnds(t, i))]

(***************************************************************************)
(* The length is asked again after the pattern: of a match with digits of  *)
(* other scripts only those of ASCII count, which may be too few.          *)
(***************************************************************************)
IsCard(t, m) ==
  LET ds == StripSeparators(SubSeq(t, m.start + 1, m.end))
  IN Len(ds) \in MinDigits .. MaxDigits /\ LuhnValid(ds)
=============================================================================
