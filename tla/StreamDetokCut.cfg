SPECIFICATION Spec
CONSTANTS
  email = email
  gone = gone
  letter = letter
  kanji = kanji
  space = space
  emoji = emoji
  Token <- MCToken
  Known <- MCKnown
  Word <- MCWord
  Other <- MCOther
  Size <- MCSize
  Texts <- MCTexts
  TokenLen = 3
  Window = 4
  MaxChunk = 4
  MaxGlyphs = 4
INVARIANT TokensReassembled
CHECK_DEADLOCK FALSE
