--------------------------- MODULE PipelineProofs ---------------------------
(***************************************************************************)
(* Proofs about Detection and Spans, which come one after the other, for   *)
(* texts and answers of any length, any items, any lengths of card         *)
(* numbers, any detectors and any sets of detections.                      *)
(*                                                                         *)
(* Detection.  The scan for cards: a valid number that stands by itself is *)
(* found, or lies wholly ahead; no match reaches into it from the left or  *)
(* beyond it to the right, because the pattern allows one separator        *)
(* between digits.  The array: the scan of an answer agrees with that of   *)
(* the array it begins with, up to the bracket that ends it.  The search:  *)
(* of the current item every occurrence before search_from lies in an      *)
(* entity that begins no later, and its entities do not overlap; for an    *)
(* item that was named before, the search finds the same entities again.   *)
(*                                                                         *)
(* Spans, from SetsOK on.  MergeInv: what merge_spans has come to is kept  *)
(* or overlaps a kept span of no lower priority; that identical spans are  *)
(* dropped whatever their priority does no harm, because what comes later  *)
(* in the order never precedes what is kept.  SkipInv: the same of the     *)
(* tokenizer, with lengths.  DisjointInv: two kept spans that overlap      *)
(* differ in priority.  PlaceInv: the replaced spans are disjoint, those   *)
(* not substituted yet lie before those that are, and so what comes before *)
(* them still has the length it had in the original.                       *)
(***************************************************************************)
EXTENDS Detection, Spans, SequenceLemmas

DetectionInv ==
  /\ TypeOK
  /\ text \in Seq(Char)
  /\ outcome \in NoAnswer \/ outcome \in Seq(Char)
  /\ items \in Seq(Item)
  /\ pc \in {"cards", "ner"} => items = <<>> /\ item = 1 /\ named = {}
  /\ pc = "ner" => from = 0
  /\ pc = "search" => outcome \notin NoAnswer /\ items = ParseItems(outcome)

-----------------------------------------------------------------------------
LEMMA MatchFacts ==
  ASSUME NEW t \in Seq(Char), NEW f \in 0 .. Len(t), CardStarts(t, f) # {}
  PROVE  \E i \in f .. Len(t), j \in 0 .. Len(t) :
           /\ NextMatch(t, f) = [start |-> i, end |-> j]
           /\ CardLike(t, i, j)
           /\ \A h \in CardStarts(t, f) : i =< h
           /\ \A h \in CardEnds(t, i) : h =< j
<1> DEFINE S == CardStarts(t, f)
           i == Min(S)
           E == CardEnds(t, i)
           j == Max(E)
<1>0. Len(t) \in Nat
  BY LenProperties
<1>1. S \in SUBSET Nat /\ S # {} /\ \A h \in S : h \in f .. Len(t) /\ CardEnds(t, h) # {}
  BY <1>0 DEF CardStarts
<1>2. i \in S /\ \A h \in S : i =< h
  <2> HIDE DEF S
  <2> QED BY <1>1, MinOf
<1>3. E \in SUBSET (0 .. Len(t)) /\ E # {} /\ \A h \in E : CardLike(t, i, h)
  <2> HIDE DEF i
  <2> QED BY <1>1, <1>2 DEF CardEnds
<1>4. j \in E /\ \A h \in E : h =< j
  <2> HIDE DEF E
  <2> QED BY <1>0, <1>3, MaxOf
<1>5. NextMatch(t, f) = [start |-> i, end |-> j]
  BY DEF NextMatch
<1>6. i \in f .. Len(t) /\ j \in 0 .. Len(t) /\ CardLike(t, i, j)
  <2> HIDE DEF S, i, E, j
  <2> QED BY <1>1, <1>2, <1>3, <1>4
<1> HIDE DEF i, j
<1> QED BY <1>2, <1>4, <1>5, <1>6 DEF S, E

(* An occurrence lies in the text. *)
LEMMA OccurrenceFacts ==
  ASSUME NEW t \in Seq(Char), NEW x \in Seq(Char), NEW p \in Occurrences(t, x)
  PROVE  /\ p \in 0 .. Len(t) /\ p + Len(x) \in p .. Len(t) /\ Len(x) \in Nat
         /\ SubSeq(t, p + 1, p + Len(x)) = x
<1>1. Len(t) \in Nat /\ Len(x) \in Nat
  BY LenProperties
<1> QED BY <1>1 DEF Occurrences

LEMMA SearchType ==
  ASSUME DetectionInv, item =< Len(items), Ahead # {}
  PROVE  /\ items[item].text \in Seq(Char)
         /\ Min(Ahead) \in Ahead /\ \A p \in Ahead : Min(Ahead) =< p
         /\ Min(Ahead) \in Occurrences(text, items[item].text)
         /\ Min(Ahead) \in from .. Len(text)
         /\ Min(Ahead) + Len(items[item].text) \in Min(Ahead) .. Len(text)
<1>1. text \in Seq(Char) /\ items \in Seq(Item) /\ item \in 1 .. Len(items)
      /\ from \in 0 .. Len(text) /\ Len(text) \in Nat
  <2>1. /\ text \in Seq(Char) /\ items \in Seq(Item) /\ item \in 1 .. Len(items) + 1
        /\ from \in 0 .. Len(text)
    BY DEF DetectionInv, TypeOK
  <2>2. Len(items) \in Nat /\ Len(text) \in Nat
    BY <2>1, LenProperties
  <2> QED BY <2>1, <2>2
<1>2. items[item].text \in Seq(Char)
  <2>1. items[item] \in Item
    BY <1>1, ElementOfSeq
  <2> QED BY <2>1 DEF Item
<1> DEFINE x == items[item].text
           m == Min(Ahead)
<1>3. Ahead \in SUBSET Nat /\ \A p \in Ahead : p \in Occurrences(text, x) /\ p >= from
  BY <1>1, <1>2, OccurrenceFacts DEF Ahead
<1>4. m \in Ahead /\ \A p \in Ahead : m =< p
  BY <1>3, MinOf
<1>5. m \in Occurrences(text, x) /\ m >= from /\ m \in Nat
  BY <1>3, <1>4
<1>6. m \in 0 .. Len(text) /\ m + Len(x) \in m .. Len(text)
  <2> HIDE DEF m, x
  <2> QED BY <1>1, <1>2, <1>5, OccurrenceFacts DEF x
<1> HIDE DEF m
<1>7. m \in from .. Len(text)
  BY <1>1, <1>5, <1>6
<1> QED BY <1>2, <1>4, <1>5, <1>6, <1>7 DEF m

(* What a model answers is typed, array or not. *)
LEMMA ParseType ==
  ASSUME NEW r
  PROVE  ParseItems(r) \in Seq(Item)
<1>1. <<>> \in Seq(Item)
  OBVIOUS
<1>2. \A a \in DOMAIN ItemsOf : ItemsOf[a] \in Seq(Item)
  BY DetectionAssumption
<1> QED BY <1>1, <1>2 DEF ParseItems

LEMMA InitDetectionInv == Init => DetectionInv
<1> SUFFICES ASSUME Init
             PROVE  DetectionInv
  OBVIOUS
<1>1. PICK i \in Inputs : text = i[1] /\ outcome = i[2]
  BY DEF Init
<1>2. /\ text \in Seq(Char) /\ outcome \in NoAnswer \cup Seq(Char)
      /\ <<text, outcome>> \in Inputs
  BY <1>1, DetectionAssumption
<1>3. Len(text) \in Nat /\ <<>> \in Seq(Item) /\ Len(<<>>) = 0
  BY <1>2, LenProperties
<1>4. TypeOK
  BY <1>2, <1>3 DEF Init, TypeOK
<1> QED BY <1>2, <1>3, <1>4 DEF Init, DetectionInv

LEMMA DetectionInvStep == DetectionInv /\ [Next]_vars => DetectionInv'
<1> SUFFICES ASSUME DetectionInv, [Next]_vars
             PROVE  DetectionInv'
  OBVIOUS
<1>0. /\ text \in Seq(Char) /\ Len(text) \in Nat /\ from \in 0 .. Len(text)
      /\ items \in Seq(Item) /\ Len(items) \in Nat /\ item \in 1 .. Len(items) + 1
      /\ cards \subseteq [start : 0 .. Len(text), end : 0 .. Len(text)]
      /\ named \subseteq [start : 0 .. Len(text), end : 0 .. Len(text), type : NerType]
  <2>1. text \in Seq(Char) /\ items \in Seq(Item)
    BY DEF DetectionInv
  <2> QED BY <2>1, LenProperties DEF DetectionInv, TypeOK
<1>1. CASE ScanCard
  <2>1. PICK i \in from .. Len(text), j \in 0 .. Len(text) :
          NextMatch(text, from) = [start |-> i, end |-> j]
    BY <1>0, <1>1, MatchFacts DEF ScanCard
  <2>2. from' = j /\ cards' \subseteq cards \cup {[start |-> i, end |-> j]}
        /\ UNCHANGED <<text, outcome, pc, items, item, named>> /\ pc = "cards"
    BY <1>1, <2>1 DEF ScanCard
  <2>3. i \in 0 .. Len(text)
    BY <1>0, <2>1
  <2> QED BY <1>0, <2>2, <2>3 DEF DetectionInv, TypeOK
<1>2. CASE EndOfCards \/ Degrade \/ Fail
  <2>1. /\ pc' \in {"ner", "done", "failed"} /\ from' \in {0, from}
        /\ pc \in {"cards", "ner"} /\ (pc' = "ner" => from' = 0)
        /\ UNCHANGED <<text, outcome, cards, items, item, named>>
    BY <1>2 DEF EndOfCards, Degrade, Fail
  <2>2. from' \in 0 .. Len(text)
    BY <1>0, <2>1
  <2> QED BY <1>0, <2>1, <2>2 DEF DetectionInv, TypeOK
<1>3. CASE Parse
  <2>1. /\ items' = ParseItems(outcome) /\ pc' = "search" /\ outcome \notin NoAnswer
        /\ UNCHANGED <<text, outcome, cards, item, from, named>> /\ item = 1
    BY <1>3 DEF Parse, DetectionInv
  <2>2. items' \in Seq(Item) /\ item \in 1 .. Len(items') + 1
    <3>1. items' \in Seq(Item)
      BY <2>1, ParseType
    <3>2. Len(items') \in Nat
      BY <3>1, LenProperties
    <3> QED BY <2>1, <3>1, <3>2
  <2> QED BY <1>0, <2>1, <2>2 DEF DetectionInv, TypeOK
<1>4. CASE Search
  <2> DEFINE m == Min(Ahead)
             end == m + Len(items[item].text)
             e == [start |-> m, end |-> end, type |-> items[item].type]
  <2>1. /\ item =< Len(items) /\ Ahead # {} /\ items[item].type \in NerType
        /\ named' = named \cup {e} /\ from' = end
        /\ UNCHANGED <<text, outcome, pc, cards, items, item>>
    BY <1>4 DEF Search
  <2>2. m \in 0 .. Len(text) /\ end \in 0 .. Len(text)
    <3>1. m \in from .. Len(text) /\ end \in m .. Len(text)
      BY <2>1, SearchType
    <3> HIDE DEF m, end
    <3> QED BY <1>0, <3>1
  <2>3. e \in [start : 0 .. Len(text), end : 0 .. Len(text), type : NerType]
    <3> HIDE DEF m, end
    <3> QED BY <2>1, <2>2
  <2> HIDE DEF m, end, e
  <2> QED BY <1>0, <2>1, <2>2, <2>3 DEF DetectionInv, TypeOK
<1>5. CASE NextItem \/ EndOfSearch
  <2>1. /\ pc = "search" /\ pc' \in {"search", "done"} /\ from' \in {0, from}
        /\ (item' = item \/ (item' = item + 1 /\ item =< Len(items)))
        /\ UNCHANGED <<text, outcome, cards, items, named>>
    BY <1>5 DEF NextItem, EndOfSearch
  <2>2. from' \in 0 .. Len(text) /\ item' \in 1 .. Len(items) + 1
    BY <1>0, <2>1
  <2> QED BY <1>0, <2>1, <2>2 DEF DetectionInv, TypeOK
<1>6. CASE UNCHANGED vars
  BY <1>6 DEF DetectionInv, TypeOK, vars
<1> QED BY <1>1, <1>2, <1>3, <1>4, <1>5, <1>6 DEF Next

THEOREM DetectionInvariant == Spec => []DetectionInv
  BY InitDetectionInv, DetectionInvStep, PTL DEF Spec

(***************************************************************************)
(* Offsets stay in the text, whatever is found and wherever the search     *)
(* goes on: of slices &text[search_from..] none can be out of range.       *)
(***************************************************************************)
THEOREM DetectionTyped == Spec => []TypeOK
  BY DetectionInvariant, PTL DEF DetectionInv


-----------------------------------------------------------------------------
(* What the pattern says of the characters between i and j. *)
LEMMA CardChars ==
  ASSUME NEW t \in Seq(Char), NEW i \in 0 .. Len(t), NEW j \in 0 .. Len(t), CardLike(t, i, j)
  PROVE  /\ i < j /\ Len(t) \in Nat
         /\ t[i + 1] \in DecimalDigits /\ t[j] \in DecimalDigits
         /\ \A k \in i + 2 .. j : t[k] \in DecimalDigits \/ t[k - 1] \in DecimalDigits
<1> DEFINE s == SubSeq(t, i + 1, j)
<1>1. i < j /\ Len(t) \in Nat
  BY LenProperties DEF CardLike
<1>2. /\ Len(s) = j - i
      /\ \A k \in 1 .. j - i : s[k] = t[i + k]
  <2>1. j \in i .. Len(t)
    BY <1>1
  <2> QED BY <2>1, Slice
<1>3. /\ s[1] \in DecimalDigits /\ s[Len(s)] \in DecimalDigits
      /\ \A k \in 2 .. Len(s) : s[k] \in DecimalDigits \/ s[k - 1] \in DecimalDigits
  BY DEF CardLike
<1> HIDE DEF s
<1>4. t[i + 1] \in DecimalDigits
  <2>1. 1 \in 1 .. j - i
    BY <1>1
  <2> QED BY <1>2, <1>3, <2>1
<1>5. t[j] \in DecimalDigits
  <2>1. j - i \in 1 .. j - i /\ i + (j - i) = j
    BY <1>1
  <2>2. s[j - i] = t[i + (j - i)]
    BY <1>2, <2>1
  <2> QED BY <1>2, <1>3, <2>1, <2>2
<1>6. ASSUME NEW k \in i + 2 .. j
      PROVE  t[k] \in DecimalDigits \/ t[k - 1] \in DecimalDigits
  <2>1. /\ k - i \in 2 .. j - i /\ k - i \in 1 .. j - i /\ (k - i) - 1 \in 1 .. j - i
        /\ i + (k - i) = k /\ i + ((k - i) - 1) = k - 1
    BY <1>1
  <2>2. s[k - i] = t[i + (k - i)] /\ s[(k - i) - 1] = t[i + ((k - i) - 1)]
    BY <1>2, <2>1
  <2>3. s[k - i] \in DecimalDigits \/ s[(k - i) - 1] \in DecimalDigits
    BY <1>2, <1>3, <2>1
  <2> QED BY <2>1, <2>2, <2>3
<1> QED BY <1>1, <1>4, <1>5, <1>6

(***************************************************************************)
(* No match reaches beyond a number that stands by itself, or into it.     *)
(***************************************************************************)
LEMMA NoOverreach ==
  ASSUME NEW i \in 0 .. Len(text), NEW j \in 0 .. Len(text), text \in Seq(Char),
         CardLike(text, i, j), Isolated(i, j),
         NEW g \in 0 .. Len(text), NEW h \in 0 .. Len(text), CardLike(text, g, h)
  PROVE  /\ g = i => h =< j
         /\ g < i => h =< i
<1>1. i < j /\ g < h /\ Len(text) \in Nat
  BY CardChars
<1>2. /\ \A k \in g + 2 .. h : text[k] \in DecimalDigits \/ text[k - 1] \in DecimalDigits
      /\ text[g + 1] \in DecimalDigits /\ text[h] \in DecimalDigits
  BY CardChars
<1>3. /\ i - 1 \in 1 .. Len(text) => text[i - 1] \notin DecimalDigits
      /\ i \in 1 .. Len(text) => text[i] \notin DecimalDigits
      /\ j + 1 \in 1 .. Len(text) => text[j + 1] \notin DecimalDigits
      /\ j + 2 \in 1 .. Len(text) => text[j + 2] \notin DecimalDigits
  BY DEF Isolated
<1>4. ASSUME g = i, h > j
      PROVE  FALSE
  <2>1. j + 1 \in 1 .. Len(text) /\ j + 1 # h
    BY <1>1, <1>2, <1>3, <1>4
  <2>2. j + 2 \in g + 2 .. h /\ j + 2 \in 1 .. Len(text) /\ (j + 2) - 1 = j + 1
    BY <1>1, <1>4, <2>1
  <2>3. text[j + 2] \in DecimalDigits \/ text[(j + 2) - 1] \in DecimalDigits
    BY <1>2, <2>2
  <2> QED BY <1>3, <2>1, <2>2, <2>3
<1>5. ASSUME g < i, h > i
      PROVE  FALSE
  <2>1. i \in 1 .. Len(text) /\ text[i] \notin DecimalDigits
    BY <1>1, <1>3, <1>5
  <2>2. i # g + 1
    BY <1>2, <2>1
  <2>3. i \in g + 2 .. h /\ i - 1 \in 1 .. Len(text)
    BY <1>1, <1>5, <2>1, <2>2
  <2>4. text[i] \in DecimalDigits \/ text[i - 1] \in DecimalDigits
    BY <1>2, <2>3
  <2> QED BY <1>3, <2>1, <2>3, <2>4
<1> QED BY <1>1, <1>4, <1>5

Alone(i, j) ==
  CardLike(text, i, j) /\ IsCard(text, [start |-> i, end |-> j]) /\ Isolated(i, j)

CardsInv ==
  /\ \A m \in cards : IsCard(text, m)
  /\ \A i, j \in 0 .. Len(text) : Alone(i, j) =>
       [start |-> i, end |-> j] \in cards \/ (pc = "cards" /\ from =< i)

LEMMA CardsInvStep == DetectionInv /\ CardsInv /\ [Next]_vars => CardsInv'
<1> SUFFICES ASSUME DetectionInv, CardsInv, [Next]_vars
             PROVE  CardsInv'
  OBVIOUS
<1>0. text \in Seq(Char) /\ Len(text) \in Nat /\ from \in 0 .. Len(text)
  <2>1. text \in Seq(Char)
    BY DEF DetectionInv
  <2> QED BY <2>1, LenProperties DEF DetectionInv, TypeOK
<1>1. CASE ScanCard
  <2>1. CardStarts(text, from) # {}
    BY <1>1 DEF ScanCard
  <2>2. PICK g \in from .. Len(text), h \in 0 .. Len(text) :
          /\ NextMatch(text, from) = [start |-> g, end |-> h]
          /\ CardLike(text, g, h)
          /\ \A i \in CardStarts(text, from) : g =< i
          /\ \A j \in CardEnds(text, g) : j =< h
    BY <1>0, <2>1, MatchFacts
  <2> DEFINE m == [start |-> g, end |-> h]
  <2>3. /\ cards' = IF IsCard(text, m) THEN cards \cup {m} ELSE cards
        /\ from' = h /\ pc = "cards" /\ pc' = "cards" /\ text' = text
    <3>1. m.end = h
      OBVIOUS
    <3> HIDE DEF m
    <3> QED BY <1>1, <2>2, <3>1 DEF ScanCard, m
  <2>4. \A c \in cards' : IsCard(text, c)
    <3> HIDE DEF m
    <3> QED BY <2>3 DEF CardsInv
  <2>5. ASSUME NEW i \in 0 .. Len(text), NEW j \in 0 .. Len(text), Alone(i, j),
               [start |-> i, end |-> j] \notin cards
        PROVE  [start |-> i, end |-> j] \in cards' \/ h =< i
    <3>1. from =< i /\ CardLike(text, i, j) /\ Isolated(i, j)
          /\ IsCard(text, [start |-> i, end |-> j])
      BY <2>5 DEF CardsInv, Alone
    <3>2. i \in CardStarts(text, from) /\ j \in CardEnds(text, i)
      BY <1>0, <3>1 DEF CardStarts, CardEnds
    <3>3. g =< i /\ g \in 0 .. Len(text)
      BY <1>0, <2>2, <3>2
    <3>4. (g = i => h =< j) /\ (g < i => h =< i)
      BY <1>0, <2>2, <3>1, <3>3, NoOverreach
    <3>5. CASE g = i
      <4>1. h = j
        BY <2>2, <3>2, <3>4, <3>5
      <4> QED BY <2>3, <3>1, <3>5, <4>1
    <3>6. CASE g < i
      BY <3>4, <3>6
    <3> QED BY <1>0, <3>3, <3>5, <3>6
  <2>6. cards \subseteq cards'
    <3> HIDE DEF m
    <3> QED BY <2>3
  <2> QED BY <2>3, <2>4, <2>5, <2>6 DEF CardsInv, Alone, Isolated
<1>2. CASE EndOfCards
  <2>1. ASSUME NEW i \in 0 .. Len(text), NEW j \in 0 .. Len(text), Alone(i, j)
        PROVE  ~(from =< i)
    <3>1. CardStarts(text, from) = {} /\ j \in CardEnds(text, i)
      BY <1>2, <2>1 DEF EndOfCards, Alone, CardEnds
    <3> QED BY <1>0, <3>1 DEF CardStarts
  <2> QED BY <1>2, <2>1 DEF EndOfCards, CardsInv, Alone, Isolated
<1>3. CASE \/ Degrade \/ Fail \/ Parse \/ Search \/ NextItem \/ EndOfSearch
  <2>1. text' = text /\ cards' = cards /\ pc # "cards"
    BY <1>3 DEF Degrade, Fail, Parse, Search, NextItem, EndOfSearch
  <2> QED BY <2>1 DEF CardsInv, Alone, Isolated
<1>4. CASE UNCHANGED vars
  BY <1>4 DEF CardsInv, Alone, Isolated, vars
<1> QED BY <1>1, <1>2, <1>3, <1>4 DEF Next

THEOREM CardsInvariant == Spec => []CardsInv
<1>1. Init => CardsInv
  <2> SUFFICES ASSUME Init
               PROVE  CardsInv
    OBVIOUS
  <2>1. \A i \in 0 .. Len(text) : 0 =< i
    OBVIOUS
  <2> QED BY <2>1 DEF Init, CardsInv
<1> QED BY <1>1, CardsInvStep, DetectionInvariant, PTL DEF Spec

(***************************************************************************)
(* For texts of any length: a valid card number with no digit of any       *)
(* script next to it, nor one separator away, is found as it stands,       *)
(* whatever find_iter met and the Luhn check refused before it.            *)
(***************************************************************************)
THEOREM IsolatedCardsFound == Spec => []IsolatedCardFound
<1>1. CardsInv => IsolatedCardFound
  BY DEF CardsInv, IsolatedCardFound, CardsScanned, Alone
<1> QED BY <1>1, CardsInvariant, PTL


-----------------------------------------------------------------------------
LEMMA DigitFacts ==
  ASSUME NEW c \in Digits
  PROVE  ToDigit(c) \in 0 .. 9 /\ Digit[ToDigit(c) + 1] = c
<1>1. PICK k \in DOMAIN Digit : Digit[k] = c
  BY DEF Digits, ToSet
<1>2. DOMAIN Digit = 1 .. 10
  BY CardsAssumption, LenProperties
<1>3. k - 1 \in 0 .. 9 /\ Digit[(k - 1) + 1] = c
  BY <1>1, <1>2
<1> QED BY <1>3 DEF ToDigit

LEMMA DoubledFacts ==
  /\ \A d \in 0 .. 9 : Doubled(d) \in 0 .. 9
  /\ \A d, e \in 0 .. 9 : Doubled(d) = Doubled(e) => d = e
  BY DEF Doubled

LEMMA WeightFacts ==
  ASSUME NEW ds \in Seq(Digits), NEW k \in 1 .. Len(ds)
  PROVE  Weight(ds, k) \in 0 .. 9
<1>1. ToDigit(ds[k]) \in 0 .. 9
  BY ElementOfSeq, DigitFacts
<1> QED BY <1>1, DoubledFacts DEF Weight

SumOf(f, ds) ==
  /\ f \in [0 .. Len(ds) -> Nat]
  /\ f[0] = 0
  /\ \A k \in 1 .. Len(ds) : f[k] = f[k - 1] + Weight(ds, k)

(* The check is by the sum of the weights. *)
LEMMA LuhnBySum ==
  ASSUME NEW ds \in Seq(Digits)
  PROVE  \E f : SumOf(f, ds) /\ (LuhnValid(ds) <=> f[Len(ds)] % 10 = 0)
<1> DEFINE n == Len(ds)
           w == [k \in 1 .. n |-> Weight(ds, k)]
           plus == [p \in Nat \X Nat |-> p[1] + p[2]]
           Def(g) == [k \in 0 .. n |-> IF k = 0 THEN 0 ELSE g[k - 1] + Weight(ds, k)]
           h == CHOOSE g : g = Def(g)
<1>0. n \in Nat
  BY LenProperties
<1>1. w \in Seq(Nat) /\ Len(w) = n /\ \A k \in 1 .. n : w[k] = Weight(ds, k)
  <2>1. \A k \in 1 .. n : Weight(ds, k) \in Nat
    BY WeightFacts
  <2> HIDE DEF n
  <2> QED BY <1>0, <2>1
<1>2. plus \in Steps(Nat, Nat) /\ \A a, b \in Nat : plus[<<a, b>>] = a + b
  BY DEF Steps
<1> HIDE DEF w, plus
<1>3. PICK f \in [0 .. n -> Nat] : Folds(f, 0, plus, w)
  BY <1>1, <1>2, FoldExists
<1>4. SumOf(f, ds)
  <2>1. ASSUME NEW k \in 1 .. n
        PROVE  f[k] = f[k - 1] + Weight(ds, k)
    <3>1. f[k - 1] \in Nat /\ w[k] \in Nat
      <4>1. k - 1 \in 0 .. n
        BY <1>0
      <4>2. w[k] \in Nat
        BY <1>1, ElementOfSeq
      <4> QED BY <1>3, <4>1, <4>2
    <3> QED BY <1>1, <1>2, <1>3, <3>1 DEF Folds
  <2> QED BY <1>3, <2>1 DEF SumOf, Folds
<1>5. f = Def(f)
  <2>1. ASSUME NEW k \in 0 .. n
        PROVE  f[k] = Def(f)[k]
    BY <1>0, <1>4 DEF SumOf
  <2> QED BY <1>3, <2>1
<1>6. h = Def(h)
  <2> HIDE DEF Def
  <2> QED BY <1>5
<1>7. LuhnValid(ds) <=> h[n] % 10 = 0
  BY DEF LuhnValid
<1> HIDE DEF h
<1> DEFINE T == {k \in Nat : k =< n => h[k] = f[k]}
<1>8. \A k \in Nat : k \in T
  <2>1. 0 \in T
    <3>1. h[0] = 0
      BY <1>0, <1>6
    <3> QED BY <1>4, <3>1 DEF SumOf
  <2>2. ASSUME NEW k \in Nat, k \in T
        PROVE  k + 1 \in T
    <3>1. CASE k + 1 =< n
      <4>1. h[k] = f[k] /\ k + 1 \in 0 .. n /\ k + 1 \in 1 .. n /\ k + 1 # 0 /\ (k + 1) - 1 = k
        BY <1>0, <2>2, <3>1
      <4>2. h[k + 1] = h[(k + 1) - 1] + Weight(ds, k + 1)
        BY <1>6, <4>1
      <4>3. f[k + 1] = f[(k + 1) - 1] + Weight(ds, k + 1)
        BY <1>4, <4>1 DEF SumOf
      <4> QED BY <4>1, <4>2, <4>3
    <3>2. CASE ~(k + 1 =< n)
      BY <3>2
    <3> QED BY <3>1, <3>2
  <2> HIDE DEF T
  <2> QED BY <2>1, <2>2, NaturalInduction
<1>9. h[n] = f[n]
  BY <1>0, <1>8
<1> QED BY <1>4, <1>7, <1>9

LEMMA NotBothByTen ==
  ASSUME NEW u \in Nat, NEW v \in Nat, NEW x \in 0 .. 9, NEW y \in 0 .. 9, x # y,
         v = u + (y - x), u % 10 = 0
  PROVE  v % 10 # 0
OBVIOUS

(* One digit exchanged for another. *)
LEMMA LuhnSlip ==
  ASSUME NEW ds \in Seq(Digits), NEW i \in 1 .. Len(ds), NEW d \in Digits, d # ds[i],
         LuhnValid(ds)
  PROVE  ~LuhnValid([ds EXCEPT ![i] = d])
<1> DEFINE es == [ds EXCEPT ![i] = d]
           n == Len(ds)
           x == Weight(ds, i)
           y == Weight(es, i)
<1>0. n \in Nat
  BY LenProperties
<1>1. /\ es \in Seq(Digits) /\ Len(es) = n /\ es[i] = d
      /\ \A k \in 1 .. n : k # i => es[k] = ds[k]
  BY ExceptSeq
<1> HIDE DEF es
<1>2. x \in 0 .. 9 /\ y \in 0 .. 9 /\ x # y
  <2>1. x \in 0 .. 9 /\ y \in 0 .. 9
    BY <1>1, WeightFacts
  <2>2. ToDigit(d) # ToDigit(ds[i]) /\ ToDigit(d) \in 0 .. 9 /\ ToDigit(ds[i]) \in 0 .. 9
    <3>1. ds[i] \in Digits
      BY ElementOfSeq
    <3> QED BY <3>1, DigitFacts
  <2>3. Doubled(ToDigit(d)) # Doubled(ToDigit(ds[i]))
    BY <2>2, DoubledFacts
  <2>4. x # y
    BY <1>1, <2>2, <2>3 DEF Weight
  <2> QED BY <2>1, <2>4
<1>3. \A k \in 1 .. n : k # i => Weight(es, k) = Weight(ds, k)
  BY <1>1 DEF Weight
<1> HIDE DEF x, y
<1>4. PICK f : SumOf(f, ds) /\ (LuhnValid(ds) <=> f[n] % 10 = 0)
  BY LuhnBySum
<1>5. PICK g : SumOf(g, es) /\ (LuhnValid(es) <=> g[n] % 10 = 0)
  BY <1>1, LuhnBySum
<1>6. /\ f \in [0 .. n -> Nat] /\ f[0] = 0
      /\ \A k \in 1 .. n : f[k] = f[k - 1] + Weight(ds, k)
      /\ g \in [0 .. n -> Nat] /\ g[0] = 0
      /\ \A k \in 1 .. n : g[k] = g[k - 1] + Weight(es, k)
  BY <1>1, <1>4, <1>5 DEF SumOf
<1> DEFINE Differ(k) == IF k < i THEN g[k] = f[k] ELSE g[k] = f[k] + (y - x)
           T == {k \in Nat : k =< n => Differ(k)}
<1>7. \A k \in Nat : k \in T
  <2>1. 0 \in T
    BY <1>6
  <2>2. ASSUME NEW k \in Nat, k \in T, k + 1 =< n
        PROVE  Differ(k + 1)
    <3>1. /\ k + 1 \in 1 .. n /\ (k + 1) - 1 = k /\ k \in 0 .. n /\ Differ(k)
          /\ f[k] \in Nat /\ g[k] \in Nat
      <4>1. k + 1 \in 1 .. n /\ (k + 1) - 1 = k /\ k \in 0 .. n /\ k =< n
        BY <1>0, <2>2
      <4>2. Differ(k)
        BY <2>2, <4>1
      <4> HIDE DEF Differ, n
      <4> QED BY <1>6, <4>1, <4>2
    <3>2. f[k + 1] = f[k] + Weight(ds, k + 1) /\ g[k + 1] = g[k] + Weight(es, k + 1)
      BY <1>6, <3>1
    <3>3. CASE k + 1 = i
      <4>1. g[k] = f[k] /\ Weight(ds, k + 1) = x /\ Weight(es, k + 1) = y
        BY <3>1, <3>3 DEF x, y
      <4>2. f[k + 1] = f[k] + x /\ g[k + 1] = f[k] + y /\ ~(k + 1 < i)
        BY <3>2, <3>3, <4>1
      <4> QED BY <1>2, <3>1, <4>2
    <3>4. CASE k + 1 # i
      <4> DEFINE v == Weight(ds, k + 1)
      <4>1. Weight(es, k + 1) = v /\ v \in 0 .. 9
        BY <1>3, <3>1, <3>4, WeightFacts
      <4>2. k + 1 < i <=> k < i
        BY <3>4
      <4>3. f[k + 1] = f[k] + v /\ g[k + 1] = g[k] + v
        BY <3>2, <4>1
      <4> HIDE DEF v
      <4>4. Differ(k)
        BY <3>1
      <4>5. CASE k < i
        BY <3>1, <4>1, <4>2, <4>3, <4>4, <4>5
      <4>6. CASE ~(k < i)
        BY <1>2, <3>1, <4>1, <4>2, <4>3, <4>4, <4>6
      <4> QED BY <4>5, <4>6
    <3> QED BY <3>3, <3>4
  <2> HIDE DEF Differ
  <2>3. ASSUME NEW k \in Nat, k \in T
        PROVE  k + 1 \in T
    BY <2>2, <2>3
  <2> HIDE DEF T
  <2> QED BY <2>1, <2>3, NaturalInduction
<1>8. g[n] = f[n] + (y - x) /\ f[n] \in Nat /\ g[n] \in Nat
  <2>1. n \in T /\ ~(n < i) /\ n \in 0 .. n
    BY <1>0, <1>7
  <2> QED BY <1>6, <2>1
<1>9. f[n] % 10 = 0 => g[n] % 10 # 0
  BY <1>2, <1>8, NotBothByTen
<1> QED BY <1>4, <1>5, <1>9 DEF es

LEMMA StripType ==
  ASSUME NEW s \in Seq(Char)
  PROVE  StripSeparators(s) \in Seq(Digits)
<1> DEFINE each == [k \in 1 .. Len(s) |-> IF s[k] \in Digits THEN <<s[k]>> ELSE <<>>]
<1>1. Len(s) \in Nat
  BY LenProperties
<1>2. \A k \in 1 .. Len(s) : (IF s[k] \in Digits THEN <<s[k]>> ELSE <<>>) \in Seq(Digits)
  OBVIOUS
<1>3. each \in Seq(Seq(Digits))
  BY <1>1, <1>2
<1> HIDE DEF each
<1>4. FlattenSeq(each) \in Seq(Digits)
  BY <1>3, FlattenType
<1> QED BY <1>4 DEF each, StripSeparators

(***************************************************************************)
(* For card numbers of any length, with separators anywhere: none of those *)
(* found passes the check with one of its digits exchanged for another.    *)
(***************************************************************************)
THEOREM SlipsCaught == Spec => []SlipCaught
<1>1. DetectionInv /\ CardsInv => SlipCaught
  <2> SUFFICES ASSUME DetectionInv, CardsInv, NEW m \in cards
               PROVE  LET ds == StripSeparators(SubSeq(text, m.start + 1, m.end))
                      IN \A k \in DOMAIN ds : \A d \in Digits \ {ds[k]} :
                           ~LuhnValid([ds EXCEPT ![k] = d])
    BY DEF SlipCaught
  <2> DEFINE s == SubSeq(text, m.start + 1, m.end)
             ds == StripSeparators(s)
  <2>1. s \in Seq(Char)
    <3>1. text \in Seq(Char) /\ m.start \in 0 .. Len(text) /\ m.end \in 0 .. Len(text)
      BY DEF DetectionInv, TypeOK
    <3>2. /\ m.start + 1 \in Int /\ m.end \in Int
          /\ \A k \in m.start + 1 .. m.end : text[k] \in Char
      BY <3>1, LenProperties
    <3> QED BY <3>2, SubSeqProperties
  <2>2. LuhnValid(ds)
    BY DEF CardsInv, IsCard
  <2> HIDE DEF s
  <2>3. ds \in Seq(Digits) /\ DOMAIN ds = 1 .. Len(ds)
    BY <2>1, StripType, LenProperties
  <2> HIDE DEF ds
  <2>4. \A k \in DOMAIN ds : \A d \in Digits \ {ds[k]} : ~LuhnValid([ds EXCEPT ![k] = d])
    BY <2>2, <2>3, LuhnSlip
  <2> QED BY <2>4 DEF ds, s
<1> QED BY <1>1, DetectionInvariant, CardsInvariant, PTL


-----------------------------------------------------------------------------
ScanState == [depth : Int, quoted : BOOLEAN, escaped : BOOLEAN]

LEMMA AfterType ==
  ASSUME NEW st \in ScanState, NEW c
  PROVE  After(st, c) \in ScanState
<1>1. /\ st.depth \in Int /\ st.quoted \in BOOLEAN
      /\ st = [depth |-> st.depth, quoted |-> st.quoted, escaped |-> st.escaped]
  BY DEF ScanState
<1>2. /\ [st EXCEPT !.escaped = FALSE] \in ScanState
      /\ [st EXCEPT !.escaped = TRUE] \in ScanState
      /\ [st EXCEPT !.quoted = ~@] \in ScanState
      /\ [st EXCEPT !.depth = @ + 1] \in ScanState
      /\ [st EXCEPT !.depth = @ - 1] \in ScanState
  <2>1. [st EXCEPT !.escaped = FALSE] \in ScanState /\ [st EXCEPT !.escaped = TRUE] \in ScanState
    BY <1>1 DEF ScanState
  <2>2. [st EXCEPT !.quoted = ~@] \in ScanState
    BY <1>1, Zenon DEF ScanState
  <2>3. [st EXCEPT !.depth = @ + 1] \in ScanState /\ [st EXCEPT !.depth = @ - 1] \in ScanState
    <3>1. st.depth + 1 \in Int /\ st.depth - 1 \in Int
      BY <1>1
    <3> QED BY <1>1, <3>1 DEF ScanState
  <2> QED BY <2>1, <2>2, <2>3
<1> QED BY <1>2 DEF After

(* The scan is what its definition says. *)
LEMMA ScannedFacts ==
  ASSUME NEW s \in Seq(Char)
  PROVE  /\ Scanned(s)[0] = Outside
         /\ \A k \in 1 .. Len(s) : Scanned(s)[k] = After(Scanned(s)[k - 1], s[k])
<1> DEFINE n == Len(s)
           Def(g) == [k \in 0 .. n |-> IF k = 0 THEN Outside ELSE After(g[k - 1], s[k])]
           h == CHOOSE g : g = Def(g)
           step == [p \in ScanState \X Char |-> After(p[1], p[2])]
<1>0. n \in Nat
  BY LenProperties
<1>1. Outside \in ScanState
  BY DEF Outside, ScanState
<1>2. step \in Steps(ScanState, Char)
      /\ \A st \in ScanState, c \in Char : step[<<st, c>>] = After(st, c)
  BY AfterType DEF Steps
<1> HIDE DEF step
<1>3. PICK f \in [0 .. n -> ScanState] : Folds(f, Outside, step, s)
  BY <1>1, <1>2, FoldExists
<1>4. f = Def(f)
  <2>1. ASSUME NEW k \in 0 .. n
        PROVE  f[k] = Def(f)[k]
    <3>1. CASE k = 0
      BY <1>3, <3>1 DEF Folds
    <3>2. CASE k # 0
      <4>1. k \in 1 .. n /\ k - 1 \in 0 .. n
        BY <1>0, <3>2
      <4>2. f[k - 1] \in ScanState /\ s[k] \in Char
        BY <1>3, <4>1, ElementOfSeq
      <4>3. f[k] = step[<<f[k - 1], s[k]>>]
        BY <1>3, <4>1 DEF Folds
      <4> QED BY <1>2, <3>2, <4>2, <4>3
    <3> QED BY <3>1, <3>2
  <2> HIDE DEF n
  <2> QED BY <1>3, <2>1
<1>5. h = Def(h)
  <2> HIDE DEF Def
  <2> QED BY <1>4
<1>6. Scanned(s) = h
  BY DEF Scanned
<1> HIDE DEF h
<1> QED BY <1>0, <1>5, <1>6

(* It knows nothing of what comes after. *)
LEMMA ScanOfPrefix ==
  ASSUME NEW a \in Seq(Char), NEW s \in Seq(Char), Len(a) =< Len(s),
         \A k \in 1 .. Len(a) : a[k] = s[k]
  PROVE  \A k \in 0 .. Len(a) : Scanned(a)[k] = Scanned(s)[k]
<1> DEFINE T == {k \in Nat : k =< Len(a) => Scanned(a)[k] = Scanned(s)[k]}
<1>0. Len(a) \in Nat /\ Len(s) \in Nat
  BY LenProperties
<1>1. 0 \in T
  BY ScannedFacts
<1>2. ASSUME NEW k \in Nat, k \in T
      PROVE  k + 1 \in T
  <2>1. CASE k + 1 =< Len(a)
    <3>1. k + 1 \in 1 .. Len(a) /\ k + 1 \in 1 .. Len(s) /\ (k + 1) - 1 = k /\ k =< Len(a)
      BY <1>0, <2>1
    <3>2. /\ Scanned(a)[k + 1] = After(Scanned(a)[(k + 1) - 1], a[k + 1])
          /\ Scanned(s)[k + 1] = After(Scanned(s)[(k + 1) - 1], s[k + 1])
      BY <3>1, ScannedFacts
    <3> QED BY <1>2, <3>1, <3>2
  <2>2. CASE ~(k + 1 =< Len(a))
    BY <2>2
  <2> QED BY <2>1, <2>2
<1>3. \A k \in Nat : k \in T
  <2> HIDE DEF T
  <2> QED BY <1>1, <1>2, NaturalInduction
<1> QED BY <1>0, <1>3

(***************************************************************************)
(* An array ends where it ends, whatever follows it.                       *)
(***************************************************************************)
LEMMA ArrayEnd ==
  ASSUME NEW a \in DOMAIN ItemsOf, NEW s \in Seq(Char), IsPrefix(a, s)
  PROVE  LET array == SubSeq(s, 1, FindArrayEnd(s))
         IN /\ a[1] = "[" /\ a \in Seq(Char) /\ Len(a) \in 1 .. Len(s)
            /\ array \in DOMAIN ItemsOf /\ ItemsOf[array] = ItemsOf[a]
<1> DEFINE end == FindArrayEnd(a)
<1>1. a \in Seq(Char) /\ Len(a) \in Nat /\ Len(s) \in Nat
  <2>1. a \in Seq(Char)
    BY DetectionAssumption
  <2> QED BY <2>1, LenProperties
<1>2. /\ a # <<>> /\ a[1] = "["
      /\ ArrayEnds(a) # {} /\ end = Min(ArrayEnds(a))
      /\ SubSeq(a, 1, end) \in DOMAIN ItemsOf /\ ItemsOf[SubSeq(a, 1, end)] = ItemsOf[a]
  <2>1. ArrayEnds(a) # {}
    BY NerAssumption
  <2>2. end = Min(ArrayEnds(a))
    BY <2>1 DEF FindArrayEnd
  <2> HIDE DEF end
  <2> QED BY <2>1, <2>2, NerAssumption
<1>3. Len(a) \in 1 .. Len(s) /\ a = SubSeq(s, 1, Len(a))
  <2>1. Len(a) =< Len(s) /\ a = SubSeq(s, 1, Len(a))
    BY <1>1, PrefixIsSlice
  <2>2. Len(a) # 0
    BY <1>1, <1>2, EmptySeq
  <2> QED BY <1>1, <2>1, <2>2
<1>4. \A k \in 1 .. Len(a) : a[k] = s[k]
  <2>1. 0 \in 0 .. Len(s) /\ Len(a) \in 0 .. Len(s)
    BY <1>1, <1>3
  <2>2. \A k \in 1 .. Len(a) - 0 : SubSeq(s, 0 + 1, Len(a))[k] = s[0 + k]
    BY <2>1, Slice
  <2> QED BY <1>1, <1>3, <2>2
<1>5. FindArrayEnd(s) = (IF ArrayEnds(s) = {} THEN Len(s) ELSE Min(ArrayEnds(s)))
  BY DEF FindArrayEnd
<1>6. end \in ArrayEnds(a) /\ \A k \in ArrayEnds(a) : end =< k
  <2>1. ArrayEnds(a) \in SUBSET Nat
    BY <1>1 DEF ArrayEnds
  <2> QED BY <1>2, <2>1, MinOf
<1> HIDE DEF end
<1>7. end \in 1 .. Len(a)
  BY <1>6 DEF ArrayEnds
<1>8. \A k \in 1 .. Len(a) : k \in ArrayEnds(a) <=> k \in ArrayEnds(s)
  <2> SUFFICES ASSUME NEW k \in 1 .. Len(a)
               PROVE  k \in ArrayEnds(a) <=> k \in ArrayEnds(s)
    OBVIOUS
  <2>1. k \in 0 .. Len(a) /\ k - 1 \in 0 .. Len(a) /\ k \in 1 .. Len(s) /\ Len(a) =< Len(s)
    BY <1>1, <1>3
  <2>2. Scanned(a)[k] = Scanned(s)[k] /\ Scanned(a)[k - 1] = Scanned(s)[k - 1]
    BY <1>1, <1>4, <2>1, ScanOfPrefix
  <2> QED BY <2>1, <2>2 DEF ArrayEnds
<1>9. FindArrayEnd(s) = end
  <2>1. end \in ArrayEnds(s) /\ ArrayEnds(s) \in SUBSET Nat
    <3>1. ArrayEnds(s) \in SUBSET Nat
      BY <1>1 DEF ArrayEnds
    <3> QED BY <1>6, <1>7, <1>8, <3>1
  <2> DEFINE m == Min(ArrayEnds(s))
  <2>2. m \in ArrayEnds(s) /\ \A k \in ArrayEnds(s) : m =< k
    BY <2>1, MinOf
  <2> HIDE DEF m
  <2>3. m =< end /\ m \in 1 .. Len(s)
    BY <2>1, <2>2 DEF ArrayEnds
  <2>4. m \in ArrayEnds(a)
    BY <1>1, <1>7, <1>8, <2>2, <2>3
  <2>5. m = end
    BY <1>1, <1>6, <1>7, <2>3, <2>4
  <2> QED BY <1>5, <2>1, <2>5 DEF m
<1>10. SubSeq(s, 1, end) = SubSeq(a, 1, end)
  <2>1. end \in 0 .. Len(a) /\ 0 \in 0 .. Len(a) /\ end \in 0 .. Len(s) /\ 0 \in 0 .. Len(s)
        /\ end - 0 = end /\ 0 + 1 = 1
    BY <1>1, <1>3, <1>7
  <2>2. /\ SubSeq(a, 0 + 1, end) \in Seq(Char) /\ Len(SubSeq(a, 0 + 1, end)) = end - 0
        /\ \A k \in 1 .. end - 0 : SubSeq(a, 0 + 1, end)[k] = a[0 + k]
    BY <1>1, <2>1, Slice
  <2>3. /\ SubSeq(s, 0 + 1, end) \in Seq(Char) /\ Len(SubSeq(s, 0 + 1, end)) = end - 0
        /\ \A k \in 1 .. end - 0 : SubSeq(s, 0 + 1, end)[k] = s[0 + k]
    BY <2>1, Slice
  <2>4. \A k \in 1 .. end : a[0 + k] = s[0 + k]
    BY <1>1, <1>4, <1>7
  <2> QED BY <2>1, <2>2, <2>3, <2>4, SeqEqual
<1> QED BY <1>1, <1>2, <1>3, <1>9, <1>10 DEF end

(* What ParseItems makes of an answer with an array behind some prose. *)
LEMMA ParsedBehindProse ==
  ASSUME NEW r \in Seq(Char), NEW a \in DOMAIN ItemsOf, NEW b \in 0 .. Len(r),
         \A k \in 1 .. b : r[k] # "[", IsPrefix(a, SubSeq(r, b + 1, Len(r)))
  PROVE  ParseItems(r) = ItemsOf[a]
<1> DEFINE slice == SubSeq(r, b + 1, Len(r))
           starts == {k \in 1 .. Len(r) : r[k] = "["}
<1>0. Len(r) \in Nat
  BY LenProperties
<1>1. /\ slice \in Seq(Char) /\ Len(slice) = Len(r) - b
      /\ \A k \in 1 .. Len(r) - b : slice[k] = r[b + k]
  <2>1. Len(r) \in b .. Len(r)
    BY <1>0
  <2> QED BY <2>1, Slice
<1>2. IsPrefix(a, slice)
  OBVIOUS
<1> HIDE DEF slice
<1> DEFINE array == SubSeq(slice, 1, FindArrayEnd(slice))
<1>3. /\ a[1] = "[" /\ a \in Seq(Char) /\ Len(a) \in 1 .. Len(slice)
      /\ array \in DOMAIN ItemsOf /\ ItemsOf[array] = ItemsOf[a]
  BY <1>1, <1>2, ArrayEnd
<1>4. slice[1] = a[1]
  <2>1. a = SubSeq(slice, 1, Len(a))
    BY <1>1, <1>2, <1>3, PrefixIsSlice
  <2>2. 1 \in 1 .. Len(slice) /\ Len(a) \in 1 .. Len(slice) /\ 1 \in 1 .. Len(a)
    BY <1>0, <1>1, <1>3
  <2>3. 0 \in 0 .. Len(slice) /\ Len(a) \in 0 .. Len(slice) /\ Len(a) - 0 = Len(a)
    BY <1>1, <1>3, <2>2
  <2>4. \A k \in 1 .. Len(a) - 0 : SubSeq(slice, 0 + 1, Len(a))[k] = slice[0 + k]
    BY <1>1, <2>3, Slice
  <2> QED BY <2>1, <2>2, <2>3, <2>4
<1>5. b + 1 \in starts /\ \A k \in starts : b + 1 =< k
  <2>1. 1 \in 1 .. Len(r) - b
    BY <1>1, <1>3, <1>0
  <2>2. r[b + 1] = "["
    BY <1>1, <1>3, <1>4, <2>1
  <2>3. b + 1 \in 1 .. Len(r)
    BY <1>0, <2>1
  <2>4. \A k \in 1 .. Len(r) : r[k] = "[" => b + 1 =< k
    BY <1>0
  <2> QED BY <2>2, <2>3, <2>4
<1>6. Min(starts) = b + 1 /\ starts # {}
  <2>1. starts \in SUBSET Nat /\ starts # {}
    BY <1>5
  <2> HIDE DEF starts
  <2>2. Min(starts) \in starts /\ \A m \in starts : Min(starts) =< m
    BY <2>1, MinOf
  <2>3. Min(starts) =< b + 1 /\ b + 1 =< Min(starts) /\ Min(starts) \in Nat
    BY <1>5, <2>1, <2>2
  <2> QED BY <2>1, <2>3
<1>7. ParseItems(r) = IF slice \in DOMAIN ItemsOf THEN ItemsOf[slice]
                      ELSE IF array \in DOMAIN ItemsOf THEN ItemsOf[array] ELSE <<>>
  <2>1. ParseItems(r) =
          LET sl == SubSeq(r, Min(starts), Len(r))
              tr == SubSeq(sl, 1, FindArrayEnd(sl))
          IN IF starts = {} THEN <<>>
             ELSE IF sl \in DOMAIN ItemsOf THEN ItemsOf[sl]
             ELSE IF tr \in DOMAIN ItemsOf THEN ItemsOf[tr] ELSE <<>>
    BY DEF ParseItems
  <2> HIDE DEF starts
  <2> QED BY <1>6, <2>1 DEF slice
<1>8. CASE slice \in DOMAIN ItemsOf
  <2>1. ItemsOf[array] = ItemsOf[slice]
    <3>1. ArrayEnds(slice) # {}
      BY <1>8, NerAssumption
    <3>2. FindArrayEnd(slice) = Min(ArrayEnds(slice))
      BY <3>1 DEF FindArrayEnd
    <3> QED BY <1>8, <3>2, NerAssumption
  <2> QED BY <1>3, <1>7, <1>8, <2>1
<1>9. CASE slice \notin DOMAIN ItemsOf
  BY <1>3, <1>7, <1>9
<1> QED BY <1>8, <1>9

(***************************************************************************)
(* For answers of any length and any arrays: behind prose without a        *)
(* bracket, and whatever comes after it, the array alone decides what the  *)
(* items are; brackets and quotes in its strings do not end it.            *)
(***************************************************************************)
THEOREM ProseIsIgnored == Spec => []ProseIgnored
<1>1. DetectionInv => ProseIgnored
  <2> SUFFICES ASSUME DetectionInv, pc = "search",
                      NEW a \in DOMAIN ItemsOf, NEW b \in 0 .. Len(outcome),
                      \A k \in 1 .. b : outcome[k] # "[",
                      IsPrefix(a, SubSeq(outcome, b + 1, Len(outcome)))
               PROVE  items = ItemsOf[a]
    BY DEF ProseIgnored
  <2>1. outcome \in Seq(Char) /\ items = ParseItems(outcome)
    BY DEF DetectionInv
  <2> QED BY <2>1, ParsedBehindProse
<1> QED BY <1>1, DetectionInvariant, PTL


-----------------------------------------------------------------------------
(* e holds place p and begins no later. *)
Reaches(e, p) == e.start =< p /\ p < e.end

Complete(x, y) == \A p \in Occurrences(text, x) : \E e \in NamedFor(x, y) : Reaches(e, p)

Apart(x, y) ==
  \A e, f \in NamedFor(x, y) : e # f => e.end =< f.start \/ f.end =< e.start

Known(k) == k \in DOMAIN items /\ items[k].type \in NerType

(* The item looked for is behind from, or was found before. *)
Progress(x, y) ==
  /\ \A p \in Occurrences(text, x) : p < from => \E e \in NamedFor(x, y) : Reaches(e, p)
  /\ from = 0 \/ \E e \in NamedFor(x, y) : e.end = from
  /\ (\A e \in NamedFor(x, y) : e.end =< from) \/ Complete(x, y)

SearchInv ==
  pc \in {"search", "done"} =>
    /\ \A e \in named : e.start =< e.end /\
         \E k \in 1 .. item : Known(k) /\ e \in NamedFor(items[k].text, items[k].type)
    /\ \A k \in 1 .. item : Known(k) => Apart(items[k].text, items[k].type)
    /\ \A k \in 1 .. item - 1 : Known(k) => Complete(items[k].text, items[k].type)
    /\ pc = "search" /\ Known(item) => Progress(items[item].text, items[item].type)
    /\ pc = "done" => \A k \in DOMAIN items : k < item

(* What is named for an item stands at an occurrence of its text. *)
LEMMA NamedFacts ==
  ASSUME DetectionInv, SearchInv, pc \in {"search", "done"},
         NEW x \in Seq(Char), NEW y, NEW e \in NamedFor(x, y)
  PROVE  /\ e.start \in Occurrences(text, x) /\ e.end = e.start + Len(x)
         /\ e.start \in Nat /\ e.end \in Nat /\ Len(x) \in Nat
         /\ e = [start |-> e.start, end |-> e.end, type |-> y]
<1>1. /\ text \in Seq(Char) /\ e \in named /\ e.start =< e.end
      /\ e \in [start : 0 .. Len(text), end : 0 .. Len(text), type : NerType]
      /\ e.type = y /\ SubSeq(text, e.start + 1, e.end) = x
  BY DEF DetectionInv, TypeOK, SearchInv, NamedFor
<1>2. e.start \in 0 .. Len(text) /\ e.end \in 0 .. Len(text) /\ Len(text) \in Nat
      /\ e = [start |-> e.start, end |-> e.end, type |-> e.type]
  BY <1>1, LenProperties
<1>3. Len(x) = e.end - e.start
  <2>1. e.end \in e.start .. Len(text)
    BY <1>1, <1>2
  <2> QED BY <1>1, <1>2, <2>1, Slice
<1> DEFINE p == e.start
           q == e.end
<1>4. p + Len(x) = q /\ p \in 0 .. Len(text) - Len(x) /\ Len(x) \in Nat
  <2> HIDE DEF p, q
  <2> QED BY <1>1, <1>2, <1>3 DEF p, q
<1>5. p \in Occurrences(text, x)
  <2>1. SubSeq(text, p + 1, p + Len(x)) = x
    BY <1>1, <1>4
  <2> HIDE DEF p, q
  <2> QED BY <1>4, <2>1 DEF Occurrences
<1> QED BY <1>1, <1>2, <1>4, <1>5

(* One turn of the search. *)
LEMMA SearchStep ==
  ASSUME DetectionInv, SearchInv, Search
  PROVE  SearchInv'
<1> DEFINE x == items[item].text
           y == items[item].type
           m == Min(Ahead)
           end == m + Len(x)
           e == [start |-> m, end |-> end, type |-> y]
           own == NamedFor(x, y)
<1>0. /\ pc = "search" /\ item =< Len(items) /\ y \in NerType /\ Ahead # {}
      /\ named' = named \cup {e} /\ from' = end
      /\ UNCHANGED <<text, outcome, pc, cards, items, item>>
  BY DEF Search
<1>1. /\ x \in Seq(Char) /\ m \in Ahead /\ (\A p \in Ahead : m =< p)
      /\ m \in Occurrences(text, x) /\ m \in from .. Len(text) /\ end \in m .. Len(text)
  BY <1>0, SearchType
<1>2. /\ text \in Seq(Char) /\ items \in Seq(Item) /\ Len(items) \in Nat /\ Len(text) \in Nat
      /\ item \in 1 .. Len(items) /\ from \in 0 .. Len(text) /\ DOMAIN items = 1 .. Len(items)
      /\ Known(item)
  <2>1. /\ text \in Seq(Char) /\ items \in Seq(Item) /\ item \in 1 .. Len(items) + 1
        /\ from \in 0 .. Len(text)
    BY DEF DetectionInv, TypeOK
  <2>2. Len(items) \in Nat /\ Len(text) \in Nat /\ DOMAIN items = 1 .. Len(items)
    BY <2>1, LenProperties
  <2> QED BY <1>0, <2>1, <2>2 DEF Known
<1>3. m \in Nat /\ end \in Nat /\ Len(x) \in Nat /\ m >= from /\ end = m + Len(x)
      /\ SubSeq(text, m + 1, end) = x /\ m =< end
  <2>1. SubSeq(text, m + 1, m + Len(x)) = x /\ Len(x) \in Nat
    BY <1>1, <1>2, OccurrenceFacts
  <2>2. m \in Nat /\ m >= from
    <3> HIDE DEF m, end
    <3> QED BY <1>1, <1>2
  <2> HIDE DEF x, m
  <2> QED BY <2>1, <2>2
<1>4. e.start = m /\ e.end = end /\ e.type = y
  OBVIOUS
<1>5. \A p \in Occurrences(text, x) : p < from \/ m =< p
  <2> SUFFICES ASSUME NEW p \in Occurrences(text, x), ~(p < from)
               PROVE  m =< p
    OBVIOUS
  <2>1. p \in Nat
    BY <1>1, <1>2, OccurrenceFacts
  <2>2. p >= from
    BY <1>2, <2>1
  <2>3. p \in Ahead
    BY <2>2 DEF Ahead
  <2> QED BY <1>1, <2>3
<1>6. Progress(x, y) /\ Apart(x, y)
  <2>1. item \in 1 .. item
    BY <1>2
  <2> QED BY <1>0, <1>2, <2>1 DEF SearchInv
<1>7. \A f \in own : /\ f.start \in Occurrences(text, x) /\ f.end = f.start + Len(x)
                     /\ f.start \in Nat /\ f.end \in Nat
                     /\ f = [start |-> f.start, end |-> f.end, type |-> y]
  BY <1>0, <1>1, NamedFacts
<1> HIDE DEF m, end, e, x, y
<1>8. \A z, t : NamedFor(z, t)' = IF z = x /\ t = y THEN NamedFor(z, t) \cup {e} ELSE NamedFor(z, t)
  <2> SUFFICES ASSUME NEW z, NEW t
               PROVE  NamedFor(z, t)' = IF z = x /\ t = y THEN NamedFor(z, t) \cup {e}
                                        ELSE NamedFor(z, t)
    OBVIOUS
  <2>1. NamedFor(z, t)' =
          {f \in named \cup {e} : f.type = t /\ SubSeq(text, f.start + 1, f.end) = z}
    BY <1>0 DEF NamedFor
  <2>2. (e.type = t /\ SubSeq(text, e.start + 1, e.end) = z) <=> (z = x /\ t = y)
    BY <1>3, <1>4
  <2> QED BY <2>1, <2>2 DEF NamedFor
<1>9. \A z, t : Complete(z, t) => Complete(z, t)'
  BY <1>0, <1>8 DEF Complete, Reaches
(* If all of it was found before, e was. *)
<1>10. ASSUME Complete(x, y)
       PROVE  e \in own
  <2>1. PICK f \in own : Reaches(f, m)
    BY <1>1, <1>10 DEF Complete
  <2>2. /\ f.start \in Occurrences(text, x) /\ f.end = f.start + Len(x)
        /\ f.start \in Nat /\ f.end \in Nat /\ f = [start |-> f.start, end |-> f.end, type |-> y]
        /\ f.start =< m /\ m < f.end
    BY <1>7, <2>1 DEF Reaches
  <2>3. ~(f.start < from)
    <3> SUFFICES ASSUME f.start < from
                 PROVE  FALSE
      OBVIOUS
    <3>1. PICK g \in own : g.end = from
      BY <1>2, <1>6, <2>2 DEF Progress
    <3>2. g.start \in Nat /\ g.end \in Nat /\ g.end = g.start + Len(x)
      BY <1>7, <3>1
    <3>3. g # f
      BY <1>3, <2>2, <3>1
    <3>4. f.end =< g.start \/ g.end =< f.start
      BY <1>6, <2>1, <3>1, <3>3 DEF Apart
    <3>5. m < f.end /\ from =< m /\ f.start < from /\ g.start =< from
          /\ (f.end =< g.start \/ from =< f.start)
      <4>1. g.start =< g.end
        BY <1>3, <3>2
      <4> QED BY <1>3, <2>2, <3>1, <3>4, <4>1
    <3>6. f.end \in Nat /\ f.start \in Nat /\ g.start \in Nat /\ from \in Nat /\ m \in Nat
      BY <1>2, <1>3, <2>2, <3>2
    <3> QED BY <3>5, <3>6
  <2>4. f.start = m
    BY <1>3, <1>5, <2>2, <2>3
  <2>5. f = e
    <3>1. f.end = end
      BY <1>3, <2>2, <2>4
    <3> QED BY <2>2, <2>4, <3>1 DEF e
  <2> QED BY <2>5
<1>11. Apart(x, y)'
  <2>1. own' = own \cup {e}
    BY <1>0, <1>8 DEF x, y
  <2>2. CASE Complete(x, y)
    <3>1. own' = own
      BY <1>10, <2>1, <2>2
    <3> QED BY <1>0, <1>6, <3>1 DEF Apart, x, y
  <2>3. CASE \A f \in own : f.end =< from
    <3>1. ASSUME NEW f \in own
          PROVE  f.end =< e.start
      <4>1. f.end \in Nat /\ f.end =< from /\ from =< m /\ from \in Nat /\ m \in Nat
        BY <1>2, <1>3, <1>7, <2>3
      <4> QED BY <1>4, <4>1
    <3>2. x' = x /\ y' = y
      BY <1>0 DEF x, y
    <3> QED BY <1>6, <2>1, <3>1, <3>2 DEF Apart
  <2> QED BY <1>6, <2>2, <2>3 DEF Progress
<1>12. x' = x /\ y' = y /\ own' = own \cup {e}
  BY <1>0, <1>8 DEF x, y
<1>13. Progress(x, y)'
  <2>1. ASSUME NEW p \in Occurrences(text, x), p < end
        PROVE  \E f \in own \cup {e} : Reaches(f, p)
    <3>1. CASE p < from
      BY <1>6, <3>1 DEF Progress
    <3>2. CASE m =< p
      BY <1>4, <2>1, <3>2 DEF Reaches
    <3> QED BY <1>5, <3>1, <3>2
  <2>2. \E f \in own \cup {e} : f.end = end
    BY <1>4
  <2>3. (\A f \in own \cup {e} : f.end =< end) \/ Complete(x, y)'
    <3>1. CASE Complete(x, y)
      BY <1>9, <1>12, <3>1 DEF Complete
    <3>2. CASE \A f \in own : f.end =< from
      BY <1>2, <1>3, <1>4, <1>7, <3>2
    <3> QED BY <1>6, <3>1, <3>2 DEF Progress
  <2>4. text' = text /\ from' = end
    BY <1>0
  <2> QED BY <1>12, <2>1, <2>2, <2>3, <2>4 DEF Progress, Reaches
<1>14. \A f \in named' : f.start =< f.end /\
          \E k \in 1 .. item : Known(k) /\ f \in NamedFor(items[k].text, items[k].type)'
  <2> SUFFICES ASSUME NEW f \in named'
               PROVE  f.start =< f.end /\
                        \E k \in 1 .. item : Known(k) /\ f \in NamedFor(items[k].text, items[k].type)'
    OBVIOUS
  <2>1. CASE f = e
    <3>1. item \in 1 .. item /\ e \in own'
      BY <1>2, <1>12
    <3>2. own' = NamedFor(items[item].text, items[item].type)'
      BY DEF x, y
    <3>3. f.start =< f.end
      BY <1>3, <1>4, <2>1
    <3>4. Known(item) /\ f \in NamedFor(items[item].text, items[item].type)'
      BY <1>2, <2>1, <3>1, <3>2
    <3>5. NamedFor(items[item].text, items[item].type)'
            = {g \in named' : g.type = items[item].type
                              /\ SubSeq(text', g.start + 1, g.end) = items[item].text}
      BY <1>0 DEF NamedFor
    <3>6. \A k : NamedFor(items[k].text, items[k].type)'
            = {g \in named' : g.type = items[k].type
                              /\ SubSeq(text', g.start + 1, g.end) = items[k].text}
      BY <1>0 DEF NamedFor
    <3> QED BY <3>1, <3>3, <3>4, <3>5, <3>6
  <2>2. CASE f \in named
    <3>1. PICK k \in 1 .. item : Known(k) /\ f \in NamedFor(items[k].text, items[k].type)
      BY <1>0, <2>2 DEF SearchInv
    <3>2. f \in NamedFor(items[k].text, items[k].type)'
      BY <1>0, <1>8, <3>1
    <3>3. f.start =< f.end
      BY <1>0, <2>2 DEF SearchInv
    <3> QED BY <3>1, <3>2, <3>3
  <2> QED BY <1>0, <2>1, <2>2
<1>15. ASSUME NEW k \in 1 .. item, Known(k)
       PROVE  Apart(items[k].text, items[k].type)'
  <2>1. CASE items[k].text = x /\ items[k].type = y
    BY <1>0, <1>11, <2>1 DEF Apart, x, y
  <2>2. CASE ~(items[k].text = x /\ items[k].type = y)
    <3>1. NamedFor(items[k].text, items[k].type)' = NamedFor(items[k].text, items[k].type)
      BY <1>0, <1>8, <2>2
    <3>2. Apart(items[k].text, items[k].type)
      BY <1>0, <1>15 DEF SearchInv
    <3> QED BY <1>0, <3>1, <3>2 DEF Apart
  <2> QED BY <2>1, <2>2
<1>16. ASSUME NEW k \in 1 .. item - 1, Known(k)
       PROVE  Complete(items[k].text, items[k].type)'
  <2>1. Complete(items[k].text, items[k].type)
    BY <1>0, <1>16 DEF SearchInv
  <2> QED BY <1>0, <1>9, <2>1 DEF Complete
<1> QED BY <1>0, <1>13, <1>14, <1>15, <1>16 DEF SearchInv, Known, x, y


(* Two items that share an entity have the same text and type. *)
LEMMA SharedEntity ==
  ASSUME DetectionInv, SearchInv, pc = "search",
         NEW k \in DOMAIN items, NEW e \in NamedFor(items[k].text, items[k].type)
  PROVE  \E j \in 1 .. item : /\ Known(j)
                              /\ items[j].text = items[k].text /\ items[j].type = items[k].type
<1>1. PICK j \in 1 .. item : Known(j) /\ e \in NamedFor(items[j].text, items[j].type)
  BY DEF SearchInv, NamedFor
<1>2. items[j].text = items[k].text /\ items[j].type = items[k].type
  BY <1>1 DEF NamedFor
<1> QED BY <1>1, <1>2

(* The search goes on with the next item. *)
LEMMA NextItemStep ==
  ASSUME DetectionInv, SearchInv, NextItem
  PROVE  SearchInv'
<1>0. /\ pc = "search" /\ item \in 1 .. Len(items) /\ item' = item + 1 /\ from' = 0
      /\ Known(item) => Ahead = {}
      /\ UNCHANGED <<text, outcome, pc, cards, items, named>>
  <2>1. item \in 1 .. Len(items) + 1 /\ items \in Seq(Item)
    BY DEF DetectionInv, TypeOK
  <2>2. Len(items) \in Nat
    BY <2>1, LenProperties
  <2> QED BY <2>1, <2>2 DEF NextItem, Known
<1>1. \A x, y : /\ NamedFor(x, y)' = NamedFor(x, y)
                /\ Complete(x, y)' = Complete(x, y) /\ Apart(x, y)' = Apart(x, y)
  BY <1>0 DEF NamedFor, Complete, Apart, Reaches
<1>2. ASSUME NEW k \in 1 .. item, Known(k)
      PROVE  Complete(items[k].text, items[k].type)
  <2>1. CASE k < item
    <3>1. k \in 1 .. item - 1
      BY <1>0, <2>1
    <3> QED BY <1>0, <1>2, <3>1 DEF SearchInv
  <2>2. CASE k = item
    <3>1. Progress(items[item].text, items[item].type) /\ Ahead = {}
      BY <1>0, <1>2, <2>2 DEF SearchInv
    <3>2. ASSUME NEW p \in Occurrences(text, items[item].text)
          PROVE  p < from
      <4>1. text \in Seq(Char) /\ items[item] \in Item /\ from \in 0 .. Len(text)
        <5>1. items \in Seq(Item) /\ text \in Seq(Char) /\ from \in 0 .. Len(text)
          BY DEF DetectionInv, TypeOK
        <5> QED BY <1>0, <5>1, ElementOfSeq
      <4>2. p \in Nat /\ from \in Nat
        <5>1. items[item].text \in Seq(Char)
          BY <4>1 DEF Item
        <5> QED BY <4>1, <5>1, OccurrenceFacts
      <4>3. ~(p >= from)
        BY <3>1 DEF Ahead
      <4> QED BY <4>2, <4>3
    <3> QED BY <2>2, <3>1, <3>2 DEF Progress, Complete
  <2> QED BY <1>0, <2>1, <2>2
<1>3. ASSUME Known(item + 1)
      PROVE  /\ Apart(items[item + 1].text, items[item + 1].type)
             /\ \/ NamedFor(items[item + 1].text, items[item + 1].type) = {}
                \/ Complete(items[item + 1].text, items[item + 1].type)
  <2> DEFINE x == items[item + 1].text
             y == items[item + 1].type
  <2>1. CASE NamedFor(x, y) = {}
    BY <2>1 DEF Apart
  <2>2. CASE NamedFor(x, y) # {}
    <3>1. PICK j \in 1 .. item : Known(j) /\ items[j].text = x /\ items[j].type = y
      BY <1>0, <1>3, <2>2, SharedEntity DEF Known
    <3>2. Apart(x, y)
      BY <1>0, <3>1 DEF SearchInv
    <3>3. Complete(x, y)
      BY <1>2, <3>1
    <3> QED BY <3>2, <3>3
  <2> QED BY <2>1, <2>2
<1>4. \A e \in named : e.start =< e.end /\
        \E k \in 1 .. item + 1 : Known(k) /\ e \in NamedFor(items[k].text, items[k].type)
  <2>1. \A k \in 1 .. item : k \in 1 .. item + 1
    BY <1>0
  <2> QED BY <1>0, <2>1 DEF SearchInv
<1>5. \A k \in 1 .. item + 1 : Known(k) => Apart(items[k].text, items[k].type)
  <2> SUFFICES ASSUME NEW k \in 1 .. item + 1, Known(k)
               PROVE  Apart(items[k].text, items[k].type)
    OBVIOUS
  <2>1. k \in 1 .. item \/ k = item + 1
    BY <1>0
  <2>2. CASE k \in 1 .. item
    BY <1>0, <2>2 DEF SearchInv
  <2>3. CASE k = item + 1
    BY <1>3, <2>3
  <2> QED BY <2>1, <2>2, <2>3
<1>6. ASSUME Known(item + 1)
      PROVE  \A p \in Occurrences(text, items[item + 1].text) : ~(p < 0)
  <2>1. text \in Seq(Char) /\ items \in Seq(Item) /\ item + 1 \in 1 .. Len(items)
    <3>1. text \in Seq(Char) /\ items \in Seq(Item)
      BY DEF DetectionInv
    <3>2. DOMAIN items = 1 .. Len(items)
      BY <3>1, LenProperties
    <3> QED BY <1>6, <3>1, <3>2 DEF Known
  <2>2. items[item + 1].text \in Seq(Char)
    <3>1. items[item + 1] \in Item
      BY <2>1, ElementOfSeq
    <3> QED BY <3>1 DEF Item
  <2>3. \A p \in Occurrences(text, items[item + 1].text) : p \in 0 .. Len(text)
    BY <2>1, <2>2, OccurrenceFacts
  <2> QED BY <2>3
<1>7. \A k : Known(k)' = Known(k)
  BY <1>0 DEF Known
<1>8. (item + 1) - 1 = item
  BY <1>0
<1>9. ASSUME NEW k
      PROVE  /\ NamedFor(items[k].text, items[k].type)' = NamedFor(items[k].text, items[k].type)
             /\ Complete(items[k].text, items[k].type)' = Complete(items[k].text, items[k].type)
             /\ Apart(items[k].text, items[k].type)' = Apart(items[k].text, items[k].type)
  <2>1. NamedFor(items[k].text, items[k].type)' = NamedFor(items[k].text, items[k].type)
    BY <1>0 DEF NamedFor
  <2> QED BY <1>0, <2>1 DEF Complete, Apart, Reaches
<1>10. \A e \in named' : e.start =< e.end /\
        \E k \in 1 .. item' : Known(k)' /\ e \in NamedFor(items[k].text, items[k].type)'
  BY <1>0, <1>4, <1>7, <1>9
<1>11. \A k \in 1 .. item' : Known(k)' => Apart(items[k].text, items[k].type)'
  BY <1>0, <1>5, <1>7, <1>9
<1>12. \A k \in 1 .. item' - 1 : Known(k)' => Complete(items[k].text, items[k].type)'
  BY <1>0, <1>2, <1>7, <1>8, <1>9
<1>13. ASSUME Known(item)'
       PROVE  Progress(items[item].text, items[item].type)'
  <2>1. Known(item + 1)
    BY <1>0, <1>13 DEF Known
  <2>2. NamedFor(items[item].text, items[item].type)'
          = NamedFor(items[item + 1].text, items[item + 1].type)
    BY <1>0 DEF NamedFor
  <2>3. Complete(items[item].text, items[item].type)'
          <=> Complete(items[item + 1].text, items[item + 1].type)
    BY <1>0, <2>2 DEF Complete, Reaches
  <2>4. \A p \in Occurrences(text', items'[item'].text) : ~(p < from')
    BY <1>0, <1>6, <2>1
  <2>5. \/ NamedFor(items[item].text, items[item].type)' = {}
        \/ Complete(items[item].text, items[item].type)'
    BY <1>3, <2>1, <2>2, <2>3
  <2> QED BY <1>0, <2>4, <2>5 DEF Progress
<1> QED BY <1>0, <1>10, <1>11, <1>12, <1>13 DEF SearchInv

(* SearchInv is about these variables and, but for Progress, no others. *)
LEMMA SearchFrame ==
  ASSUME SearchInv, pc \in {"search", "done"}, UNCHANGED <<text, items, item, named>>
  PROVE  /\ \A e \in named' : e.start =< e.end /\
              \E k \in 1 .. item' : Known(k)' /\ e \in NamedFor(items[k].text, items[k].type)'
         /\ \A k \in 1 .. item' : Known(k)' => Apart(items[k].text, items[k].type)'
         /\ \A k \in 1 .. item' - 1 : Known(k)' => Complete(items[k].text, items[k].type)'
<1>1. \A k : Known(k)' = Known(k)
  BY DEF Known
<1>2. ASSUME NEW k
      PROVE  /\ NamedFor(items[k].text, items[k].type)' = NamedFor(items[k].text, items[k].type)
             /\ Complete(items[k].text, items[k].type)' = Complete(items[k].text, items[k].type)
             /\ Apart(items[k].text, items[k].type)' = Apart(items[k].text, items[k].type)
  <2>1. NamedFor(items[k].text, items[k].type)' = NamedFor(items[k].text, items[k].type)
    BY DEF NamedFor
  <2>2. Complete(items[k].text, items[k].type)' = Complete(items[k].text, items[k].type)
    BY <2>1 DEF Complete, Reaches
  <2>3. Apart(items[k].text, items[k].type)' = Apart(items[k].text, items[k].type)
    BY <2>1 DEF Apart
  <2> QED BY <2>1, <2>2, <2>3
<1>3. \A e \in named' : e.start =< e.end /\
        \E k \in 1 .. item' : Known(k)' /\ e \in NamedFor(items[k].text, items[k].type)'
  BY <1>1, <1>2 DEF SearchInv
<1>4. \A k \in 1 .. item' : Known(k)' => Apart(items[k].text, items[k].type)'
  BY <1>1, <1>2 DEF SearchInv
<1>5. \A k \in 1 .. item' - 1 : Known(k)' => Complete(items[k].text, items[k].type)'
  BY <1>1, <1>2 DEF SearchInv
<1> QED BY <1>3, <1>4, <1>5

LEMMA InitSearchInv == Init => SearchInv
  BY DEF Init, SearchInv

LEMMA SearchInvStep == DetectionInv /\ SearchInv /\ [Next]_vars => SearchInv'
<1> SUFFICES ASSUME DetectionInv, SearchInv, [Next]_vars
             PROVE  SearchInv'
  OBVIOUS
<1>1. CASE ScanCard \/ EndOfCards \/ Fail
  <2>1. pc' \notin {"search", "done"}
    BY <1>1 DEF ScanCard, EndOfCards, Fail
  <2> QED BY <2>1 DEF SearchInv
<1>2. CASE Degrade
  <2>1. pc' = "done" /\ named' = {} /\ items' = <<>> /\ item' = 1
    BY <1>2 DEF Degrade, DetectionInv
  <2>2. DOMAIN items' = {} /\ \A k : ~Known(k)'
    BY <2>1 DEF Known
  <2> QED BY <2>1, <2>2 DEF SearchInv
<1>3. CASE Parse
  <2>1. pc' = "search" /\ named' = {} /\ item' = 1 /\ from' = 0 /\ text' = text
    BY <1>3 DEF Parse, DetectionInv
  <2>2. \A x, y : NamedFor(x, y)' = {}
    BY <2>1 DEF NamedFor
  <2>4. 1 .. item' - 1 = {}
    BY <2>1
  <2>5. Known(1)' => Progress(items[1].text, items[1].type)'
    <3> SUFFICES ASSUME Known(1)'
                 PROVE  Progress(items[1].text, items[1].type)'
      OBVIOUS
    <3>1. text \in Seq(Char) /\ items' \in Seq(Item)
      BY DetectionInvStep DEF DetectionInv
    <3>2. items'[1].text \in Seq(Char)
      <4>1. DOMAIN items' = 1 .. Len(items')
        BY <3>1, LenProperties
      <4>2. 1 \in 1 .. Len(items')
        BY <4>1 DEF Known
      <4>3. items'[1] \in Item
        BY <3>1, <4>2, ElementOfSeq
      <4> QED BY <4>3 DEF Item
    <3>3. \A p \in Occurrences(text, items'[1].text) : ~(p < 0)
      <4>1. \A p \in Occurrences(text, items'[1].text) : p \in 0 .. Len(text)
        BY <3>1, <3>2, OccurrenceFacts
      <4> QED BY <4>1
    <3> QED BY <2>1, <2>2, <3>3 DEF Progress, NamedFor
  <2>6. \A e \in named' : FALSE
    BY <2>1
  <2>7. \A k \in 1 .. item' : Apart(items[k].text, items[k].type)'
    BY <2>1 DEF Apart, NamedFor
  <2> QED BY <2>1, <2>4, <2>5, <2>6, <2>7 DEF SearchInv
<1>4. CASE Search
  BY <1>4, SearchStep
<1>5. CASE NextItem
  BY <1>5, NextItemStep
<1>6. CASE EndOfSearch
  <2>1. /\ pc = "search" /\ pc' = "done" /\ item > Len(items)
        /\ UNCHANGED <<text, items, item, named>>
    BY <1>6 DEF EndOfSearch
  <2>2. \A k \in DOMAIN items : k < item
    <3>1. items \in Seq(Item) /\ item \in 1 .. Len(items) + 1
      BY DEF DetectionInv, TypeOK
    <3>2. DOMAIN items = 1 .. Len(items) /\ Len(items) \in Nat
      BY <3>1, LenProperties
    <3> QED BY <2>1, <3>1, <3>2
  <2>3. \A k \in DOMAIN items' : k < item'
    BY <2>1, <2>2
  <2> QED BY <2>1, <2>3, SearchFrame DEF SearchInv
<1>7. CASE UNCHANGED vars
  <2> SUFFICES ASSUME pc \in {"search", "done"}
               PROVE  SearchInv'
    BY <1>7 DEF SearchInv, vars
  <2>1. UNCHANGED <<pc, text, items, item, from, named>>
    BY <1>7 DEF vars
  <2>2. ASSUME Known(item)', pc = "search"
        PROVE  Progress(items[item].text, items[item].type)'
    <3>1. Progress(items[item].text, items[item].type)
      BY <2>1, <2>2 DEF SearchInv, Known
    <3> QED BY <2>1, <3>1 DEF Progress, Complete, NamedFor, Reaches
  <2>3. pc = "done" => \A k \in DOMAIN items' : k < item'
    BY <2>1 DEF SearchInv
  <2> QED BY <2>1, <2>2, <2>3, SearchFrame DEF SearchInv
<1> QED BY <1>1, <1>2, <1>3, <1>4, <1>5, <1>6, <1>7 DEF Next

THEOREM SearchInvariant == Spec => []SearchInv
  BY InitSearchInv, SearchInvStep, DetectionInvariant, PTL DEF Spec

(***************************************************************************)
(* For texts of any length and whatever the model names, repeated items    *)
(* included: when the search is done, every occurrence of every item of a  *)
(* known type lies in or overlaps an entity of that item, and the entities *)
(* of an item are disjoint.  An item without text never lets it be done.   *)
(***************************************************************************)
THEOREM EveryOccurrenceIsTouched == Spec => []EveryOccurrenceTouched
<1>1. DetectionInv /\ SearchInv => EveryOccurrenceTouched
  <2> SUFFICES ASSUME DetectionInv, SearchInv, pc = "done",
                      NEW k \in DOMAIN items, items[k].type \in NerType
               PROVE  LET x == items[k].text
                          own == NamedFor(x, items[k].type)
                      IN /\ \A p \in Occurrences(text, x) :
                              \E e \in own : e.start < p + Len(x) /\ p < e.end
                         /\ \A e, f \in own : e # f => e.end =< f.start \/ f.end =< e.start
    BY DEF EveryOccurrenceTouched
  <2> DEFINE x == items[k].text
             y == items[k].type
  <2>1. /\ k \in 1 .. item - 1 /\ k \in 1 .. item /\ Known(k) /\ x \in Seq(Char)
        /\ text \in Seq(Char)
    <3>1. items \in Seq(Item) /\ text \in Seq(Char) /\ item \in 1 .. Len(items) + 1
      BY DEF DetectionInv, TypeOK
    <3>2. k \in 1 .. Len(items) /\ Len(items) \in Nat
      BY <3>1, LenProperties
    <3>3. items[k] \in Item
      BY <3>1, <3>2, ElementOfSeq
    <3>4. k < item
      BY DEF SearchInv
    <3>5. x \in Seq(Char)
      BY <3>3 DEF Item
    <3> QED BY <3>1, <3>2, <3>4, <3>5 DEF Known
  <2>2. Complete(x, y) /\ Apart(x, y)
    BY <2>1 DEF SearchInv
  <2> HIDE DEF x, y
  <2>3. ASSUME NEW p \in Occurrences(text, x)
        PROVE  \E e \in NamedFor(x, y) : e.start < p + Len(x) /\ p < e.end
    <3>1. PICK e \in NamedFor(x, y) : e.start =< p /\ p < e.end
      BY <2>2, <2>3 DEF Complete, Reaches
    <3>2. /\ e.end = e.start + Len(x)
          /\ e.start \in Nat /\ e.end \in Nat /\ Len(x) \in Nat
      BY <2>1, <3>1, NamedFacts
    <3>3. p \in Nat
      BY <2>1, OccurrenceFacts
    <3>4. e.start < p + Len(x)
      BY <3>1, <3>2, <3>3
    <3> QED BY <3>1, <3>4
  <2> QED BY <2>2, <2>3 DEF Apart, x, y
<1> QED BY <1>1, SearchInvariant, DetectionInvariant, PTL

-----------------------------------------------------------------------------
SetsOK ==
  /\ detected \subseteq Span
  /\ tagged \subseteq detected
  /\ kept \subseteq detected
  /\ todo \subseteq kept
  /\ replaced \subseteq kept

MergeInv ==
  /\ \A c \in tagged, s \in kept : ~Precedes(c, s)
  /\ \A d \in detected \ tagged : \E s \in kept :
       SpansOverlap(s, d) /\ s.priority >= d.priority

SkipInv ==
  /\ tagged # {} => replaced = {} /\ todo = kept
  /\ \A s \in todo, t \in replaced : ~LongerFirst(s, t)
  /\ \A s \in kept \ todo : \E t \in replaced : SpansOverlap(t, s) /\ Size(t) >= Size(s)

DisjointInv ==
  \A s, t \in kept : s # t /\ SpansOverlap(s, t) => s.priority # t.priority

SpansInv == SetsOK /\ MergeInv /\ SkipInv /\ DisjointInv

-----------------------------------------------------------------------------
(* A span overlaps itself, overlapping is symmetric, and two spans that    *)
(* overlap share a byte.                                                   *)
LEMMA SpanFacts ==
  /\ \A s \in Span : /\ s.start \in Nat /\ s.end \in Nat /\ s.priority \in Nat
                     /\ Size(s) \in Nat /\ SpansOverlap(s, s)
  /\ \A s, t \in Span : SpansOverlap(s, t) <=> SpansOverlap(t, s)
  /\ \A s, t \in Span : SpansOverlap(s, t) => Meet(s, t)
<1>1. \A s \in Span : /\ s.start \in Nat /\ s.end \in Nat /\ s.priority \in Nat
                      /\ s.start < s.end
  BY SpansAssumption DEF Span
<1>2. \A s \in Span : Size(s) \in Nat /\ SpansOverlap(s, s)
  BY <1>1 DEF Size, SpansOverlap
<1>3. \A s, t \in Span : SpansOverlap(s, t) <=> SpansOverlap(t, s)
  BY <1>1 DEF SpansOverlap
<1>4. ASSUME NEW s \in Span, NEW t \in Span, SpansOverlap(s, t)
      PROVE  Meet(s, t)
  <2>1. CASE s.start =< t.start
    <3>1. t.start \in Bytes(s) /\ t.start \in Bytes(t)
      BY <1>1, <1>4, <2>1 DEF Bytes, SpansOverlap
    <3> QED BY <3>1 DEF Meet
  <2>2. CASE t.start =< s.start
    <3>1. s.start \in Bytes(s) /\ s.start \in Bytes(t)
      BY <1>1, <1>4, <2>2 DEF Bytes, SpansOverlap
    <3> QED BY <3>1 DEF Meet
  <2> QED BY <1>1, <2>1, <2>2
<1> QED BY <1>1, <1>2, <1>3, <1>4

LEMMA InitSpansInv == SpansInit => SpansInv
<1> SUFFICES ASSUME SpansInit PROVE SpansInv
  OBVIOUS
<1>1. SetsOK
  BY SpansAssumption DEF SpansInit, SetsOK
<1>2. MergeInv /\ SkipInv /\ DisjointInv
  BY DEF SpansInit, MergeInv, SkipInv, DisjointInv
<1> QED BY <1>1, <1>2 DEF SpansInv

(* Dropping a candidate. *)
LEMMA DiscardStep == ASSUME SpansInv, NEW c \in tagged, Discard(c) PROVE SpansInv'
<1> USE DEF SpansInv
<1>1. SetsOK'
  BY DEF SetsOK, Discard
<1>2. MergeInv'
  <2>1. PICK s \in kept : Covers(s, c)
    BY DEF Discard
  <2>2. SpansOverlap(s, c) /\ s.priority >= c.priority
    <3>1. s \in Span /\ c \in Span
      BY DEF SetsOK
    <3>2. ~Precedes(c, s)
      BY DEF MergeInv
    <3> QED BY <2>1, <3>1, <3>2, SpanFacts DEF Covers, Precedes, Size
  <2> QED BY <2>2 DEF MergeInv, Discard
<1>3. SkipInv' /\ DisjointInv'
  BY DEF SkipInv, DisjointInv, Discard
<1> QED BY <1>1, <1>2, <1>3

(* Keeping one. *)
LEMMA KeepStep == ASSUME SpansInv, NEW c \in tagged, Keep(c) PROVE SpansInv'
<1> USE DEF SpansInv
<1>0. c \in Span /\ kept \subseteq Span
  BY DEF SetsOK
<1>1. SetsOK'
  BY DEF SetsOK, Keep
<1>2. MergeInv'
  <2>1. \A d \in tagged', s \in kept' : ~Precedes(d, s)
    BY DEF MergeInv, Keep, FirstOf
  <2>2. SpansOverlap(c, c) /\ c.priority >= c.priority
    BY <1>0, SpanFacts
  <2> QED BY <2>1, <2>2 DEF MergeInv, Keep
<1>3. SkipInv'
  BY DEF SkipInv, Keep
<1>4. DisjointInv'
  <2>1. \A s \in kept : SpansOverlap(s, c) => s.priority # c.priority
    BY <1>0, SpanFacts DEF Keep, Covers
  <2>2. \A s \in kept : SpansOverlap(c, s) => SpansOverlap(s, c)
    BY <1>0, SpanFacts
  <2> QED BY <2>1, <2>2 DEF DisjointInv, Keep
<1> QED BY <1>1, <1>2, <1>3, <1>4

(* The tokenizer leaves a span alone. *)
LEMMA SkipStep == ASSUME SpansInv, NEW s \in todo, Skip(s) PROVE SpansInv'
<1> USE DEF SpansInv
<1>0. s \in Span /\ replaced \subseteq Span /\ kept \subseteq Span
  BY DEF SetsOK
<1>1. SetsOK'
  BY DEF SetsOK, Skip
<1>2. MergeInv' /\ DisjointInv'
  BY DEF MergeInv, DisjointInv, Skip
<1>3. SkipInv'
  <2>1. PICK t \in replaced : SpansOverlap(s, t)
    BY DEF Skip
  <2>2. SpansOverlap(t, s) /\ Size(t) >= Size(s)
    <3>1. ~LongerFirst(s, t)
      BY DEF SkipInv
    <3> QED BY <1>0, <2>1, <3>1, SpanFacts DEF LongerFirst
  <2> QED BY <2>2 DEF SkipInv, Skip, Tokenizing
<1> QED BY <1>1, <1>2, <1>3

(* It replaces one. *)
LEMMA ReplaceStep == ASSUME SpansInv, NEW s \in todo, Replace(s) PROVE SpansInv'
<1> USE DEF SpansInv
<1>0. s \in Span
  BY DEF SetsOK
<1>1. SetsOK'
  BY DEF SetsOK, Replace
<1>2. MergeInv' /\ DisjointInv'
  BY DEF MergeInv, DisjointInv, Replace
<1>3. SkipInv'
  <2>1. SpansOverlap(s, s) /\ Size(s) >= Size(s)
    BY <1>0, SpanFacts
  <2> QED BY <2>1 DEF SkipInv, Replace, Tokenizing
<1> QED BY <1>1, <1>2, <1>3

LEMMA SpansInvStep == SpansInv /\ [SpansNext]_spansVars => SpansInv'
<1> SUFFICES ASSUME SpansInv, [SpansNext]_spansVars PROVE SpansInv'
  OBVIOUS
<1>1. CASE \E c \in tagged : Discard(c) \/ Keep(c)
  BY <1>1, DiscardStep, KeepStep
<1>2. CASE \E s \in todo : Skip(s) \/ Replace(s)
  BY <1>2, SkipStep, ReplaceStep
<1>3. CASE \/ \E s \in todo : StoreFails(s)
           \/ \E s \in left : Substitute(s)
           \/ UNCHANGED spansVars
  BY <1>3 DEF StoreFails, Substitute, spansVars, SpansInv, SetsOK, MergeInv, SkipInv, DisjointInv
<1> QED BY <1>1, <1>2, <1>3 DEF SpansNext

THEOREM SpansInvariant == SpansSpec => []SpansInv
BY InitSpansInv, SpansInvStep, PTL DEF SpansSpec

-----------------------------------------------------------------------------
(***************************************************************************)
(* merge_spans drops a detection only for one it overlaps and that comes   *)
(* from a detector of at least its priority.                               *)
(***************************************************************************)
THEOREM DropsForBetter == SpansSpec => []DroppedForBetter
<1>1. SpansInv => DroppedForBetter
  BY SpanFacts DEF SpansInv, SetsOK, MergeInv, DroppedForBetter, Merged
<1> QED BY <1>1, SpansInvariant, PTL

(***************************************************************************)
(* The tokenizer leaves a kept span alone only for one it overlaps and     *)
(* that is no shorter.                                                     *)
(***************************************************************************)
THEOREM SkipsForLonger == SpansSpec => []SkippedForLonger
<1>1. SpansInv => SkippedForLonger
  BY SpanFacts DEF SpansInv, SetsOK, SkipInv, SkippedForLonger, Finished, Merged
<1> QED BY <1>1, SpansInvariant, PTL

(***************************************************************************)
(* With one detector every detection is, in part at least, behind a token: *)
(* the kept spans are then disjoint, so the tokenizer skips none.          *)
(***************************************************************************)
THEOREM OneDetectorSuffices == SpansSpec => []OneDetectorTouchesAll
<1>1. SpansInv => OneDetectorTouchesAll
  <2> SUFFICES ASSUME SpansInv, Finished,
                      \A d, e \in detected : d.priority = e.priority,
                      NEW d \in detected
               PROVE  \E s \in replaced : Meet(s, d)
    BY DEF OneDetectorTouchesAll
  <2>1. PICK s \in kept : SpansOverlap(s, d)
    BY DEF SpansInv, MergeInv, Finished, Merged
  <2>2. PICK t \in replaced : SpansOverlap(t, s)
    BY DEF SpansInv, SkipInv, Finished
  <2>3. t = s
    BY <2>2 DEF SpansInv, SetsOK, DisjointInv
  <2> QED BY <2>1, <2>2, <2>3, SpanFacts DEF SpansInv, SetsOK
<1> QED BY <1>1, SpansInvariant, PTL

-----------------------------------------------------------------------------
(* What is left of a byte. *)
Piece == [start : Nat, end : Nat, token : BOOLEAN]

(* The first n bytes as they were. *)
ClearTo(n) == [k \in 1 .. n |-> Clear(k - 1)]

Before(R) == [k \in 1 .. Length |-> ItemsAt(k, R)]

LEMMA ItemsType ==
  ASSUME NEW R \in SUBSET Span
  PROVE  /\ \A k \in 1 .. Length : ItemsAt(k, R) \in Seq(Piece)
         /\ Before(R) \in Seq(Seq(Piece)) /\ Len(Before(R)) = Length
<1>1. ASSUME NEW k \in 1 .. Length
      PROVE  ItemsAt(k, R) \in Seq(Piece)
  <2> DEFINE inside == {s \in R : k - 1 \in Bytes(s)}
             first == CHOOSE s \in inside : s.start = k - 1
  <2>1. Clear(k - 1) \in Piece
    BY SpansAssumption DEF Clear, Piece
  <2>2. ASSUME \E s \in inside : s.start = k - 1
        PROVE  TokenFor(first) \in Piece
    <3>1. first \in R
      BY <2>2
    <3>2. first.start \in Nat /\ first.end \in Nat
      BY <3>1, SpanFacts
    <3> HIDE DEF first
    <3> QED BY <3>2 DEF TokenFor, Piece
  <2>3. <<>> \in Seq(Piece)
    OBVIOUS
  <2> QED BY <2>1, <2>2, <2>3 DEF ItemsAt
<1>2. Length \in Nat
  BY SpansAssumption
<1> QED BY <1>1, <1>2 DEF Before

LEMMA ClearType ==
  ASSUME NEW n \in Nat
  PROVE  ClearTo(n) \in Seq(Piece) /\ Len(ClearTo(n)) = n
<1>1. \A k \in 1 .. n : Clear(k - 1) \in Piece
  BY DEF Clear, Piece
<1> QED BY <1>1 DEF ClearTo

LEMMA ClearSlice ==
  ASSUME NEW n \in Nat, NEW m \in 0 .. n
  PROVE  SubSeq(ClearTo(n), 1, m) = ClearTo(m)
<1>1. /\ ClearTo(n) \in Seq(Piece) /\ Len(ClearTo(n)) = n /\ 0 \in 0 .. n /\ m \in 0 .. n
      /\ ClearTo(m) \in Seq(Piece) /\ Len(ClearTo(m)) = m /\ m - 0 = m /\ m \in Nat
  BY ClearType
<1>2. /\ SubSeq(ClearTo(n), 0 + 1, m) \in Seq(Piece)
      /\ Len(SubSeq(ClearTo(n), 0 + 1, m)) = m - 0
      /\ \A k \in 1 .. m - 0 : SubSeq(ClearTo(n), 0 + 1, m)[k] = ClearTo(n)[0 + k]
  BY <1>1, Slice
<1>3. \A k \in 1 .. m : ClearTo(n)[0 + k] = ClearTo(m)[k]
  BY <1>1 DEF ClearTo
<1> QED BY <1>1, <1>2, <1>3, SeqEqual

(***************************************************************************)
(* If all tokens so far stand behind s, replace_range puts its token in    *)
(* its place: what is before s is still as long as it was.                 *)
(***************************************************************************)
LEMMA ReplaceRangeInPlace ==
  ASSUME NEW R \in SUBSET Span, NEW s \in Span, \A t \in R : s.end =< t.start,
         sanitized = Exchanged(R)
  PROVE  ReplaceRange(s) = Exchanged(R \cup {s})
<1> DEFINE a == s.start
           b == s.end
           Q == R \cup {s}
           p == Before(R)
           q == Before(Q)
           token == <<TokenFor(s)>>
<1>0. a \in Nat /\ b \in 1 .. Length /\ a < b /\ Length \in Nat /\ Q \in SUBSET Span
  BY SpansAssumption DEF Span
<1>1. /\ p \in Seq(Seq(Piece)) /\ Len(p) = Length /\ q \in Seq(Seq(Piece)) /\ Len(q) = Length
      /\ token \in Seq(Piece) /\ Len(token) = 1 /\ token[1] = TokenFor(s)
  <2>1. TokenFor(s) \in Piece
    BY SpanFacts DEF TokenFor, Piece
  <2> QED BY <1>0, <2>1, ItemsType
<1>2. \A k \in 1 .. Length : p[k] = ItemsAt(k, R) /\ q[k] = ItemsAt(k, Q)
  BY DEF Before
<1>3. Exchanged(R) = FlattenSeq(p) /\ Exchanged(Q) = FlattenSeq(q)
  BY DEF Exchanged, Before
<1> HIDE DEF p, q, token
<1>4. \A t \in R : \A k \in 1 .. b : ~(k - 1 \in Bytes(t))
  <2>1. \A t \in R : t.start \in Nat /\ t.end \in Nat
    BY SpanFacts
  <2> QED BY <1>0, <2>1 DEF Bytes
<1>5. \A k \in 1 .. Length : k - 1 \in Bytes(s) <=> k \in a + 1 .. b
  BY <1>0 DEF Bytes
<1>6. \A k \in 1 .. b : p[k] = <<Clear(k - 1)>>
  <2> SUFFICES ASSUME NEW k \in 1 .. b
               PROVE  p[k] = <<Clear(k - 1)>>
    OBVIOUS
  <2>1. k \in 1 .. Length
    BY <1>0
  <2>2. {t \in R : k - 1 \in Bytes(t)} = {}
    BY <1>4
  <2> QED BY <1>2, <2>1, <2>2 DEF ItemsAt
<1>7. \A k \in 1 .. a : q[k] = <<Clear(k - 1)>>
  <2> SUFFICES ASSUME NEW k \in 1 .. a
               PROVE  q[k] = <<Clear(k - 1)>>
    OBVIOUS
  <2>1. k \in 1 .. Length /\ k \in 1 .. b /\ k \notin a + 1 .. b
    BY <1>0
  <2>2. {t \in Q : k - 1 \in Bytes(t)} = {}
    BY <1>4, <1>5, <2>1
  <2> QED BY <1>2, <2>1, <2>2 DEF ItemsAt
<1>8. ASSUME NEW k \in a + 1 .. b
      PROVE  q[k] = IF k = a + 1 THEN token ELSE <<>>
  <2>1. k \in 1 .. Length /\ k \in 1 .. b
    BY <1>0
  <2>2. {t \in Q : k - 1 \in Bytes(t)} = {s}
    BY <1>4, <1>5, <2>1
  <2>3. (CHOOSE t \in {s} : t.start = k - 1) = s \/ s.start # k - 1
    OBVIOUS
  <2>4. s.start = k - 1 <=> k = a + 1
    BY <1>0, <2>1
  <2>5. ItemsAt(k, Q) = IF s.start = k - 1 THEN token ELSE <<>>
    BY <2>2, <2>3 DEF ItemsAt, token
  <2> QED BY <1>2, <2>1, <2>4, <2>5
<1>9. \A k \in b + 1 .. Length : p[k] = q[k]
  <2> SUFFICES ASSUME NEW k \in b + 1 .. Length
               PROVE  p[k] = q[k]
    OBVIOUS
  <2>1. k \in 1 .. Length /\ k \notin a + 1 .. b
    BY <1>0
  <2>2. {t \in Q : k - 1 \in Bytes(t)} = {t \in R : k - 1 \in Bytes(t)}
    BY <1>5, <2>1
  <2> QED BY <1>2, <2>1, <2>2 DEF ItemsAt
<1> DEFINE rest == SubSeq(p, b + 1, Length)
<1>10. /\ a \in 0 .. Length /\ b \in 0 .. Length /\ b \in a .. Length /\ Length \in b .. Length
       /\ 0 \in 0 .. Length /\ a \in 0 .. b /\ b \in Nat /\ 0 + 1 = 1
       /\ a - 0 = a /\ b - 0 = b
  BY <1>0
<1>11. /\ a \in 0 .. Len(p) /\ b \in 0 .. Len(p) /\ b \in a .. Len(p) /\ Length \in b .. Len(p)
       /\ a \in 0 .. Len(q) /\ b \in 0 .. Len(q) /\ b \in a .. Len(q) /\ Length \in b .. Len(q)
       /\ 0 \in 0 .. Len(p) /\ 0 \in 0 .. Len(q)
  BY <1>1, <1>10
<1>12. ASSUME NEW r \in {p, q}, NEW i \in 0 .. Length, NEW j \in i .. Length
       PROVE  /\ SubSeq(r, i + 1, j) \in Seq(Seq(Piece)) /\ Len(SubSeq(r, i + 1, j)) = j - i
              /\ \A k \in 1 .. j - i : SubSeq(r, i + 1, j)[k] = r[i + k]
  <2>1. r \in Seq(Seq(Piece)) /\ i \in 0 .. Len(r) /\ j \in i .. Len(r)
    BY <1>1
  <2> QED BY <2>1, Slice
<1>13. rest = SubSeq(q, b + 1, Length) /\ rest \in Seq(Seq(Piece))
  <2>1. /\ rest \in Seq(Seq(Piece)) /\ Len(rest) = Length - b
        /\ \A k \in 1 .. Length - b : rest[k] = p[b + k]
    BY <1>10, <1>12
  <2>2. /\ SubSeq(q, b + 1, Length) \in Seq(Seq(Piece)) /\ Len(SubSeq(q, b + 1, Length)) = Length - b
        /\ \A k \in 1 .. Length - b : SubSeq(q, b + 1, Length)[k] = q[b + k]
    BY <1>10, <1>12
  <2>3. \A k \in 1 .. Length - b : p[b + k] = q[b + k]
    BY <1>0, <1>9
  <2> HIDE DEF rest
  <2> QED BY <2>1, <2>2, <2>3, SeqEqual
<1>14. FlattenSeq(SubSeq(p, 1, b)) = ClearTo(b) /\ FlattenSeq(SubSeq(q, 1, a)) = ClearTo(a)
  <2>1. /\ ClearTo(a) \in Seq(Piece) /\ Len(ClearTo(a)) = a
        /\ ClearTo(b) \in Seq(Piece) /\ Len(ClearTo(b)) = b
    BY <1>10, <1>0, ClearType
  <2>2. (\A k \in 1 .. a : ClearTo(a)[k] = Clear(k - 1)) /\ (\A k \in 1 .. b : ClearTo(b)[k] = Clear(k - 1))
    BY DEF ClearTo
  <2>3. /\ SubSeq(p, 0 + 1, b) \in Seq(Seq(Piece)) /\ Len(SubSeq(p, 0 + 1, b)) = b - 0
        /\ \A k \in 1 .. b - 0 : SubSeq(p, 0 + 1, b)[k] = p[0 + k]
    BY <1>10, <1>12
  <2>4. /\ SubSeq(q, 0 + 1, a) \in Seq(Seq(Piece)) /\ Len(SubSeq(q, 0 + 1, a)) = a - 0
        /\ \A k \in 1 .. a - 0 : SubSeq(q, 0 + 1, a)[k] = q[0 + k]
    BY <1>10, <1>12
  <2>5. (\A k \in 1 .. b : SubSeq(p, 1, b)[k] = p[k]) /\ (\A k \in 1 .. a : SubSeq(q, 1, a)[k] = q[k])
    BY <1>10, <2>3, <2>4
  <2>6. FlattenSeq(SubSeq(p, 1, b)) = ClearTo(b)
    <3>1. SubSeq(p, 1, b) \in Seq(Seq(Piece)) /\ Len(SubSeq(p, 1, b)) = b
      BY <1>10, <2>3
    <3>2. \A k \in 1 .. b : SubSeq(p, 1, b)[k] = <<ClearTo(b)[k]>>
      BY <1>6, <2>2, <2>5
    <3> QED BY <2>1, <3>1, <3>2, FlattenSingletons
  <2>7. FlattenSeq(SubSeq(q, 1, a)) = ClearTo(a)
    <3>1. SubSeq(q, 1, a) \in Seq(Seq(Piece)) /\ Len(SubSeq(q, 1, a)) = a
      BY <1>10, <2>4
    <3>2. \A k \in 1 .. a : SubSeq(q, 1, a)[k] = <<ClearTo(a)[k]>>
      BY <1>7, <2>2, <2>5
    <3> QED BY <2>1, <3>1, <3>2, FlattenSingletons
  <2> QED BY <2>6, <2>7
<1>15. FlattenSeq(SubSeq(q, a + 1, b)) = token
  <2> DEFINE r == SubSeq(q, a + 1, b)
  <2>1. /\ r \in Seq(Seq(Piece)) /\ Len(r) = b - a
        /\ \A k \in 1 .. b - a : r[k] = q[a + k]
    BY <1>10, <1>12
  <2> HIDE DEF r
  <2>2. 1 \in 1 .. Len(r) /\ a + 1 \in a + 1 .. b
    BY <1>0, <2>1
  <2>3. r[1] = token
    BY <1>8, <2>1, <2>2
  <2>4. \A k \in 1 .. Len(r) : k # 1 => r[k] = <<>>
    <3> SUFFICES ASSUME NEW k \in 1 .. Len(r), k # 1
                 PROVE  r[k] = <<>>
      OBVIOUS
    <3>1. a + k \in a + 1 .. b /\ a + k # a + 1 /\ k \in 1 .. b - a
      BY <1>0, <2>1
    <3> QED BY <1>8, <2>1, <3>1
  <2>5. FlattenSeq(r) = r[1]
    BY <2>1, <2>2, <2>4, FlattenSingle
  <2> QED BY <2>3, <2>5 DEF r
<1> DEFINE tail == FlattenSeq(rest)
<1>16. tail \in Seq(Piece)
  BY <1>13, FlattenType
<1>17. sanitized = ClearTo(b) \o tail
  <2>1. SubSeq(p, 1, Length) = p
    BY <1>1, SubSeqFull
  <2>2. FlattenSeq(SubSeq(p, 1, Length)) = FlattenSeq(SubSeq(p, 1, b)) \o FlattenSeq(SubSeq(p, b + 1, Length))
    BY <1>1, <1>11, FlattenAdjacent
  <2> QED BY <1>3, <1>14, <2>1, <2>2
<1>18. Exchanged(Q) = (ClearTo(a) \o token) \o tail
  <2>1. SubSeq(q, 1, Length) = q
    BY <1>1, SubSeqFull
  <2>2. FlattenSeq(SubSeq(q, 1, Length)) = FlattenSeq(SubSeq(q, 1, b)) \o FlattenSeq(SubSeq(q, b + 1, Length))
    BY <1>1, <1>11, FlattenAdjacent
  <2>3. FlattenSeq(SubSeq(q, 1, b)) = FlattenSeq(SubSeq(q, 1, a)) \o FlattenSeq(SubSeq(q, a + 1, b))
    BY <1>1, <1>11, FlattenAdjacent
  <2> QED BY <1>3, <1>13, <1>14, <1>15, <2>1, <2>2, <2>3
<1>19. /\ SubSeq(sanitized, 1, a) = ClearTo(a)
       /\ SubSeq(sanitized, b + 1, Len(sanitized)) = tail
  <2> HIDE DEF tail
  <2>1. ClearTo(b) \in Seq(Piece) /\ Len(ClearTo(b)) = b /\ SubSeq(ClearTo(b), 1, a) = ClearTo(a)
    BY <1>10, ClearType, ClearSlice
  <2>2. /\ SubSeq(ClearTo(b) \o tail, 1, a) = SubSeq(ClearTo(b), 1, a)
        /\ SubSeq(ClearTo(b) \o tail, Len(ClearTo(b)) + 1, Len(ClearTo(b) \o tail)) = tail
    BY <1>10, <1>16, <2>1, ConcatParts
  <2> QED BY <1>17, <2>1, <2>2
<1> HIDE DEF tail
<1> QED BY <1>18, <1>19 DEF ReplaceRange, token

-----------------------------------------------------------------------------
PlaceInv ==
  /\ left \subseteq replaced
  /\ tagged # {} \/ todo # {} => left = replaced
  /\ \A s, t \in replaced : s # t => ~SpansOverlap(s, t)
  /\ \A s \in left, t \in replaced \ left : s.end =< t.start
  /\ sanitized = Exchanged(replaced \ left)

LEMMA InitPlaceInv == SpansInit => PlaceInv
<1> SUFFICES ASSUME SpansInit
             PROVE  PlaceInv
  OBVIOUS
<1>1. left = {} /\ replaced = {} /\ sanitized = Text
  BY DEF SpansInit
<1>2. Text = Exchanged({})
  <2> DEFINE p == Before({})
  <2>1. p \in Seq(Seq(Piece)) /\ Len(p) = Length
    BY ItemsType
  <2>2. Text = ClearTo(Length) /\ Text \in Seq(Piece) /\ Len(Text) = Length
    BY ClearType, SpansAssumption DEF Text, ClearTo
  <2>3. \A k \in 1 .. Length : p[k] = <<Text[k]>>
    BY DEF Before, ItemsAt, Text
  <2> HIDE DEF p
  <2>4. FlattenSeq(p) = Text
    BY <2>1, <2>2, <2>3, FlattenSingletons
  <2> QED BY <2>4 DEF p, Before, Exchanged
<1>3. replaced \ left = {}
  BY <1>1
<1> QED BY <1>1, <1>2, <1>3 DEF PlaceInv

LEMMA SubstituteStep ==
  ASSUME SpansInv, PlaceInv, NEW s \in left, Substitute(s)
  PROVE  PlaceInv'
<1> DEFINE R == replaced \ left
<1>1. /\ tagged' = {} /\ todo' = {} /\ replaced' = replaced /\ left' = left \ {s}
      /\ sanitized' = ReplaceRange(s) /\ \A t \in left : t.start =< s.start
  BY DEF Substitute
<1>2. replaced \subseteq Span /\ R \in SUBSET Span /\ s \in Span /\ s \in replaced
  BY DEF SpansInv, SetsOK, PlaceInv
<1>3. \A t \in R : s.end =< t.start
  BY DEF PlaceInv
<1>4. replaced' \ left' = R \cup {s}
  BY <1>1, <1>2
<1>5. ReplaceRange(s) = Exchanged(R \cup {s})
  <2>1. sanitized = Exchanged(R)
    BY DEF PlaceInv
  <2> HIDE DEF R
  <2> QED BY <1>2, <1>3, <2>1, ReplaceRangeInPlace
<1>6. sanitized' = Exchanged(replaced' \ left')
  BY <1>1, <1>4, <1>5
<1>7. \A t \in left' : t.end =< s.start
  <2> SUFFICES ASSUME NEW t \in left, t # s
               PROVE  t.end =< s.start
    BY <1>1
  <2>1. t \in Span /\ ~SpansOverlap(t, s) /\ t.start =< s.start
    BY <1>1, <1>2 DEF PlaceInv
  <2>2. /\ t.start \in Nat /\ t.end \in Nat /\ s.start \in Nat /\ s.end \in Nat
        /\ s.start < s.end
    BY <1>2, <2>1 DEF Span
  <2> QED BY <2>1, <2>2 DEF SpansOverlap
<1>8. \A t \in left', u \in replaced' \ left' : t.end =< u.start
  BY <1>1, <1>4, <1>7 DEF PlaceInv
<1> QED BY <1>1, <1>6, <1>8 DEF PlaceInv

LEMMA PlaceInvStep == SpansInv /\ PlaceInv /\ [SpansNext]_spansVars => PlaceInv'
<1> SUFFICES ASSUME SpansInv, PlaceInv, [SpansNext]_spansVars
             PROVE  PlaceInv'
  OBVIOUS
<1>1. ASSUME NEW c \in tagged, Discard(c) \/ Keep(c)
      PROVE  PlaceInv'
  <2>1. /\ UNCHANGED <<replaced, left, sanitized>> /\ left = replaced
    BY <1>1 DEF Discard, Keep, PlaceInv
  <2> QED BY <2>1 DEF PlaceInv
<1>2. ASSUME NEW s \in todo, Skip(s) \/ StoreFails(s)
      PROVE  PlaceInv'
  <2>1. /\ UNCHANGED <<replaced, left, sanitized>> /\ left = replaced
    BY <1>2 DEF Skip, StoreFails, PlaceInv
  <2> QED BY <2>1 DEF PlaceInv
<1>3. ASSUME NEW s \in todo, Replace(s)
      PROVE  PlaceInv'
  <2>1. /\ replaced' = replaced \cup {s} /\ left' = left \cup {s} /\ sanitized' = sanitized
        /\ \A t \in replaced : ~SpansOverlap(s, t)
    BY <1>3 DEF Replace
  <2>2. left = replaced /\ left' = replaced' /\ replaced' \ left' = {} /\ replaced \ left = {}
    BY <1>3, <2>1 DEF PlaceInv
  <2>3. \A t \in replaced : ~SpansOverlap(t, s)
    <3>1. s \in Span /\ replaced \subseteq Span
      BY DEF SpansInv, SetsOK
    <3> QED BY <2>1, <3>1, SpanFacts
  <2> QED BY <2>1, <2>2, <2>3 DEF PlaceInv
<1>4. ASSUME NEW s \in left, Substitute(s)
      PROVE  PlaceInv'
  BY <1>4, SubstituteStep
<1>5. CASE UNCHANGED spansVars
  BY <1>5 DEF PlaceInv, spansVars
<1> QED BY <1>1, <1>2, <1>3, <1>4, <1>5 DEF SpansNext

(***************************************************************************)
(* For texts of any length and any detections, the offsets into the        *)
(* original text stay right until the last replacement: each token stands  *)
(* where its value stood, and the rest of the text is as it was.           *)
(***************************************************************************)
THEOREM TokensStandInPlace == SpansSpec => []SubstitutedInPlace
<1>1. PlaceInv => SubstitutedInPlace
  <2> SUFFICES ASSUME PlaceInv, Finished
               PROVE  sanitized = Exchanged(replaced)
    BY DEF SubstitutedInPlace
  <2>1. replaced \ left = replaced
    BY DEF Finished
  <2> QED BY <2>1 DEF PlaceInv
<1>2. SpansSpec => []PlaceInv
  BY SpansInvariant, InitPlaceInv, PlaceInvStep, PTL DEF SpansSpec
<1> QED BY <1>1, <1>2, PTL
=============================================================================
