SPECIFICATION FairSpec
CONSTANTS
  Char <- MCChar
  Digit <- MCDigit
  OtherDigit = {"o"}
  Separator = {"-"}
  WordChar = {"w"}
  MinDigits = 2
  MaxDigits = 3
  ItemsOf <- MCItemsOf
  Inputs <- MCInputs
  Off = Off
  Unreachable = Unreachable
  SendError = SendError
  Garbled = Garbled
  CardText = 6
  NerText = 3
INVARIANTS TypeOK IsolatedCardFound SlipCaught ProseIgnored EveryOccurrenceTouched
PROPERTY SearchEnds
CHECK_DEADLOCK FALSE
