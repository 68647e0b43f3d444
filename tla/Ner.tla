-------------------------------- MODULE Ner ---------------------------------
(***************************************************************************)
(* How src/detector/ner.rs reads the answer of the NER model: where the    *)
(* JSON array lies in it, and which of its items are of a known type.      *)
(*                                                                         *)
(* An answer is a sequence of characters, of which only brackets, quotes   *)
(* and backslashes are told apart.  That a piece of text is a JSON array,  *)
(* and of which items, is serde_json's to say.                             *)
(***************************************************************************)
EXTENDS Integers, SequencesExt

CONSTANTS
  ItemsOf  \* serde_json::from_str: the items of each text that is an array,
           \* from its first bracket on

(* map_ner_type *)
NerType == {"PERSON", "ORG", "LOCATION", "DATE_OF_BIRTH", "ACCOUNT_NUMBER"}

(* What a scan knows, first and after one more character. *)
Outside == [depth |-> 0, quoted |-> FALSE, escaped |-> FALSE]

After(st, c) ==
  IF st.escaped THEN [st EXCEPT !.escaped = FALSE]
  ELSE IF c = "\\" /\ st.quoted THEN [st EXCEPT !.escaped = TRUE]
  ELSE IF c = "\"" THEN [st EXCEPT !.quoted = ~@]
  ELSE IF c = "[" /\ ~st.quoted THEN [st EXCEPT !.depth = @ + 1]
  ELSE IF c = "]" /\ ~st.quoted THEN [st EXCEPT !.depth = @ - 1]
  ELSE st

(* The same, of each number of characters of s. *)
Scanned(s) ==
  LET scan[k \in 0 .. Len(s)] == IF k = 0 THEN Outside ELSE After(scan[k - 1], s[k])
  IN scan

(* Where the outermost array that begins s may end. *)
ArrayEnds(s) ==
  LET scan == Scanned(s)
  IN {k \in 1 .. Len(s) : scan[k - 1].depth = 1 /\ scan[k].depth = 0}

(* Mutant: the first closing bracket. *)
FirstBracket(s) ==
  LET ends == {k \in 1 .. Len(s) : s[k] = "]"}
  IN IF ends = {} THEN Len(s) ELSE Min(ends)

(* Where it ends, or the end of s. *)
FindArrayEnd(s) == IF ArrayEnds(s) = {} THEN Len(s) ELSE Min(ArrayEnds(s))

(***************************************************************************)
(* What a JSON parser takes for an array ends with it, but for blanks      *)
(* behind it, which mean nothing.                                          *)
(***************************************************************************)
ASSUME NerAssumption ==
  \A a \in DOMAIN ItemsOf :
    LET array == SubSeq(a, 1, Min(ArrayEnds(a)))
    IN /\ a # <<>> /\ a[1] = "["
       /\ ArrayEnds(a) # {}
       /\ array \in DOMAIN ItemsOf /\ ItemsOf[array] = ItemsOf[a]

(***************************************************************************)
(* The items of an answer: what follows the first bracket, if all of it is *)
(* an array, or else if what FindArrayEnd leaves of it is; or none.        *)
(***************************************************************************)
ParseItems(response) ==
  LET starts == {k \in 1 .. Len(response) : response[k] = "["}
      slice == SubSeq(response, Min(starts), Len(response))
      trimmed == SubSeq(slice, 1, FindArrayEnd(slice))
  IN IF starts = {} THEN <<>>
     ELSE IF slice \in DOMAIN ItemsOf THEN ItemsOf[slice]
     ELSE IF trimmed \in DOMAIN ItemsOf THEN ItemsOf[trimmed]
     ELSE <<>>

(* str::find, from offset from: where x next stands in t. *)
Occurrences(t, x) ==
  {p \in 0 .. Len(t) - Len(x) : SubSeq(t, p + 1, p + Len(x)) = x}
=============================================================================
