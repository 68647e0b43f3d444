---------------------------- MODULE MCDetection -----------------------------
(***************************************************************************)
(* Detection with card numbers of two or three digits: the scan on every   *)
(* text of up to CardText characters, where "o" stands for a digit of      *)
(* another script (and with a letter, "w", in texts of one less), and the  *)
(* search, on every text of up to NerText, for what a model names that     *)
(* answers with an array between prose: empty, of one item, with brackets  *)
(* and escaped quotes in strings, with an array inside, and with prose     *)
(* that looks like JSON.                                                   *)
(***************************************************************************)
EXTENDS Detection

CONSTANTS CardText, NerText

MCChar == {"0", "1", "2", "3", "4", "5", "6", "7", "8", "9",
           "o", "-", "w", ".", "x", " ", "[", "]", "\"", "\\"}

MCDigit == <<"0", "1", "2", "3", "4", "5", "6", "7", "8", "9">>

TextsOf(chars, max) == UNION {[1 .. n -> chars] : n \in 0 .. max}

Said(x, y) == [text |-> x, type |-> y]
Once == Said(<<"w", "w">>, "PERSON")
Twice == Said(<<"1">>, "ACCOUNT_NUMBER")
Place == Said(<<"-">>, "LOCATION")
Odd == Said(<<"w">>, "MOOD")
Blank == Said(<<>>, "PERSON")

(* What stands between the brackets is a stand-in for the items' own text. *)
MCItemsOf ==
  (<<"[", "]">> :> <<>>)
  @@ (<<"[", "x", "]">> :> <<Once, Odd, Twice>>)
  @@ (<<"[", "\"", "]", "\"", "]">> :> <<Place>>)
  @@ (<<"[", "\"", "\\", "\"", "]", "\"", "]">> :> <<Twice, Place>>)
  @@ (<<"[", "[", "]", "]">> :> <<Twice, Once>>)
  @@ (<<"[", "[", "]", "]", " ">> :> <<Twice, Once>>)

MCBlankItemsOf == <<"[", "x", "]">> :> <<Twice, Blank>>

Answers ==
  {before \o array \o after : before \in {<<>>, <<"x">>, <<"\"">>, <<"[", "x">>},
                              array \in DOMAIN ItemsOf,
                              after \in {<<>>, <<"x">>, <<"]">>, <<"\"", "[">>}}

MCInputs ==
  (TextsOf({"2", "4", "o", "-", "."}, CardText) \X {Off})
  \cup (TextsOf({"2", "4", "o", "-", "w", "."}, CardText - 1) \X {Off})
  \cup (TextsOf({"1", "-", "w", "."}, NerText)
          \X (Answers \cup {Unreachable, SendError, Garbled, <<"x">>}))
=============================================================================
