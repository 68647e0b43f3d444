----------------------------- MODULE Detection ------------------------------
(***************************************************************************)
(* DetectorPipeline::detect on one text: the regex detector, of whose      *)
(* patterns the one for credit cards is here, and then the NER detector,   *)
(* which asks a language model for names and looks for them in the text.   *)
(* What the two find is merged by merge_spans: see Spans.                  *)
(***************************************************************************)
EXTENDS Cards, Ner

CONSTANTS
  Inputs,    \* pairs of a leaf of a body and what comes of the NER call for it:
             \* an answer of the model, or one of the following
  Off,           \* the NER backend is not enabled
  Unreachable,   \* send fails to connect, or times out
  SendError,     \* send fails otherwise
  Garbled        \* the body breaks off, or is not the JSON Ollama sends

(* NerItem *)
Item == [text : Seq(Char), type : STRING]

NoAnswer == {Off, Unreachable, SendError, Garbled}

ASSUME DetectionAssumption ==
  /\ \A a \in DOMAIN ItemsOf : a \in Seq(Char) /\ ItemsOf[a] \in Seq(Item)
  /\ Inputs \subseteq Seq(Char) \X (NoAnswer \cup Seq(Char))

VARIABLES
  text,     \* what the pipeline is given
  outcome,  \* what will come of the NER call
  pc,       \* "cards", "ner", "search", "done" or "failed"
  cards,    \* the credit cards found
  items,    \* what the model has named
  item,     \* which of them is being looked for
  from,     \* where the search goes on: in cards or search_from
  named     \* the entities NER found

vars == <<text, outcome, pc, cards, items, item, from, named>>

Init ==
  /\ \E i \in Inputs : text = i[1] /\ outcome = i[2]
  /\ pc = "cards"
  /\ cards = {}
  /\ items = <<>>
  /\ item = 1
  /\ from = 0
  /\ named = {}

-----------------------------------------------------------------------------
(* One turn of find_iter in detect_sync. *)
ScanCard ==
  /\ pc = "cards"
  /\ CardStarts(text, from) # {}
  /\ LET m == NextMatch(text, from)
     IN /\ cards' = IF IsCard(text, m) THEN cards \cup {m} ELSE cards
        /\ from' = m.end
  /\ UNCHANGED <<text, outcome, pc, items, item, named>>

EndOfCards ==
  /\ pc = "cards"
  /\ CardStarts(text, from) = {}
  /\ pc' = "ner"
  /\ from' = 0
  /\ UNCHANGED <<text, outcome, cards, items, item, named>>

(* NER is not asked, or finds nothing for want of an answer. *)
Degrade ==
  /\ pc = "ner"
  /\ text = <<>> \/ outcome \in {Off, Unreachable, Garbled}
  /\ pc' = "done"
  /\ UNCHANGED <<text, outcome, cards, items, item, from, named>>

(* The error goes through the pipeline, and the request is answered 500. *)
Fail ==
  /\ pc = "ner"
  /\ text # <<>> /\ outcome = SendError
  /\ pc' = "failed"
  /\ UNCHANGED <<text, outcome, cards, items, item, from, named>>

Parse ==
  /\ pc = "ner"
  /\ text # <<>> /\ outcome \notin NoAnswer
  /\ items' = ParseItems(outcome)
  /\ pc' = "search"
  /\ UNCHANGED <<text, outcome, cards, item, from, named>>

(* Where the current item stands next. *)
Ahead == {p \in Occurrences(text, items[item].text) : p >= from}

(* Mutant: the search goes on after the next character, if there is one or not. *)
SearchPastEnd ==
  /\ pc = "search"
  /\ item =< Len(items)
  /\ items[item].type \in NerType
  /\ Ahead # {}
  /\ named' = named \cup {[start |-> Min(Ahead), end |-> Min(Ahead) + Len(items[item].text),
                           type |-> items[item].type]}
  /\ from' = Min(Ahead) + Len(items[item].text) + 1
  /\ UNCHANGED <<text, outcome, pc, cards, items, item>>

(* Mutant: the search goes on where the item was found. *)
SearchAgain ==
  /\ pc = "search"
  /\ item =< Len(items)
  /\ items[item].type \in NerType
  /\ Ahead # {}
  /\ named' = named \cup {[start |-> Min(Ahead), end |-> Min(Ahead) + Len(items[item].text),
                           type |-> items[item].type]}
  /\ from' = Min(Ahead)
  /\ UNCHANGED <<text, outcome, pc, cards, items, item>>

(***************************************************************************)
(* One turn of the search.  The code pushes to a vector, so the turn of an *)
(* item without text, which changes nothing here, costs memory there.      *)
(***************************************************************************)
Search ==
  /\ pc = "search"
  /\ item =< Len(items)
  /\ items[item].type \in NerType
  /\ Ahead # {}
  /\ LET end == Min(Ahead) + Len(items[item].text)
     IN /\ named' = named \cup {[start |-> Min(Ahead), end |-> end, type |-> items[item].type]}
        /\ from' = end
  /\ UNCHANGED <<text, outcome, pc, cards, items, item>>

(* Mutant: search_from is not set back. *)
NextItemFromHere ==
  /\ pc = "search"
  /\ item =< Len(items)
  /\ items[item].type \in NerType => Ahead = {}
  /\ item' = item + 1
  /\ UNCHANGED <<text, outcome, pc, cards, items, from, named>>

(* The item stands nowhere else, or is of no type the proxy knows. *)
NextItem ==
  /\ pc = "search"
  /\ item =< Len(items)
  /\ items[item].type \in NerType => Ahead = {}
  /\ item' = item + 1
  /\ from' = 0
  /\ UNCHANGED <<text, outcome, pc, cards, items, named>>

EndOfSearch ==
  /\ pc = "search"
  /\ item > Len(items)
  /\ pc' = "done"
  /\ UNCHANGED <<text, outcome, cards, items, item, from, named>>

Next ==
  \/ ScanCard \/ EndOfCards
  \/ Degrade \/ Fail \/ Parse
  \/ Search \/ NextItem \/ EndOfSearch

Spec == Init /\ [][Next]_vars

(* The loop over the items holds no lock and awaits nothing: it goes on.     *)
FairSpec == Spec /\ WF_vars(Search \/ NextItem \/ EndOfSearch)

-----------------------------------------------------------------------------
TypeOK ==
  /\ <<text, outcome>> \in Inputs
  /\ pc \in {"cards", "ner", "search", "done", "failed"}
  /\ cards \subseteq [start : 0 .. Len(text), end : 0 .. Len(text)]
  /\ item \in 1 .. Len(items) + 1
  /\ from \in 0 .. Len(text)
  /\ named \subseteq [start : 0 .. Len(text), end : 0 .. Len(text), type : NerType]

CardsScanned == pc # "cards"

(* Between i and j a number stands by itself: no digit of any script is     *)
(* next to it, nor one separator away.                                      *)
Isolated(i, j) ==
  /\ \A k \in {i - 1, i} : k \in 1 .. Len(text) => text[k] \notin DecimalDigits
  /\ \A k \in {j + 1, j + 2} : k \in 1 .. Len(text) => text[k] \notin DecimalDigits

(***************************************************************************)
(* A valid card number that stands by itself is found as it stands,        *)
(* whatever the scan has met and skipped before it.                        *)
(***************************************************************************)
IsolatedCardFound ==
  CardsScanned =>
    \A i, j \in 0 .. Len(text) :
      CardLike(text, i, j) /\ IsCard(text, [start |-> i, end |-> j]) /\ Isolated(i, j) =>
        [start |-> i, end |-> j] \in cards

(***************************************************************************)
(* What counts as a card is no card any more with one digit mistyped (the  *)
(* promise of ISO/IEC 7812): the check catches every slip.                 *)
(***************************************************************************)
SlipCaught ==
  \A m \in cards :
    LET ds == StripSeparators(SubSeq(text, m.start + 1, m.end))
    IN \A k \in DOMAIN ds : \A d \in Digits \ {ds[k]} : ~LuhnValid([ds EXCEPT ![k] = d])

(***************************************************************************)
(* Whatever the model says around its array, as long as no bracket comes   *)
(* before it, the items are those of the array: brackets and quotes in the *)
(* strings of the array or in the prose after it do not matter.            *)
(***************************************************************************)
ProseIgnored ==
  pc = "search" =>
    \A a \in DOMAIN ItemsOf, b \in 0 .. Len(outcome) :
      /\ \A k \in 1 .. b : outcome[k] # "["
      /\ IsPrefix(a, SubSeq(outcome, b + 1, Len(outcome)))
      => items = ItemsOf[a]

(* The entities named for an item of text x and type y. *)
NamedFor(x, y) ==
  {e \in named : e.type = y /\ SubSeq(text, e.start + 1, e.end) = x}

(***************************************************************************)
(* Wherever a text the model named stands, it is found, or overlaps where  *)
(* it was found before; what is found of one item does not overlap itself. *)
(***************************************************************************)
EveryOccurrenceTouched ==
  pc = "done" =>
    \A k \in DOMAIN items : items[k].type \in NerType =>
      LET x == items[k].text
          own == NamedFor(x, items[k].type)
      IN /\ \A p \in Occurrences(text, x) :
              \E e \in own : e.start < p + Len(x) /\ p < e.end
         /\ \A e, f \in own : e # f => e.end =< f.start \/ f.end =< e.start

(***************************************************************************)
(* The search for what the model named comes to an end, whatever it named, *)
(* as long as each item it named has a text.                               *)
(***************************************************************************)
SearchEnds == pc = "search" ~> pc = "done"
=============================================================================
