SPECIFICATION FairSpec
CONSTANTS
  Char <- MCChar
  Digit <- MCDigit
  OtherDigit = {"o"}
  Separator = {"-"}
  WordChar = {"w"}
  MinDigits = 2
  MaxDigits = 3
  ItemsOf <- MCBlankItemsOf
  Inputs <- MCInputs
  Off = Off
  Unreachable = Unreachable
  SendError = SendError
  Garbled = Garbled
  CardText = 2
  NerText = 2
PROPERTY SearchEnds
CHECK_DEADLOCK FALSE
