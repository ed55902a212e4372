CONSTANTS
  Half <- MCHalf
  Texts <- MCTexts
  Letters <- MCLetters
  Digits <- MCDigits
  Spaces <- MCSpaces
  DigitValue <- MCDigitValue
SPECIFICATION UnderscoreSpec
INVARIANT
  ScansUnderscores
CHECK_DEADLOCK FALSE
