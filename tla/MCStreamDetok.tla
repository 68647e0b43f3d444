--------------------------- MODULE MCStreamDetok ----------------------------
(***************************************************************************)
(* StreamDetok with a token of three bytes and a window of four, on every  *)
(* text of up to MaxGlyphs glyphs: a letter and a space of one byte each,  *)
(* a letter of three bytes and a picture of four.                          *)
(***************************************************************************)
EXTENDS StreamDetok

CONSTANTS email, gone, letter, kanji, space, emoji, MaxGlyphs

MCToken == {email, gone}
MCKnown == {email}
MCWord == {letter, kanji}
MCOther == {space, emoji}
MCSize == letter :> 1 @@ kanji :> 3 @@ space :> 1 @@ emoji :> 4

Width(g) == IF g \in Token THEN TokenLen ELSE Size[g]
Bytes(g) == [i \in 1 .. Width(g) |-> [glyph |-> g, byte |-> i]]
Encode(gs) == FlattenSeq([i \in DOMAIN gs |-> Bytes(gs[i])])

MCTexts ==
  {Encode(gs) : gs \in UNION {[1 .. n -> Glyph] : n \in 0 .. MaxGlyphs}}
=============================================================================
