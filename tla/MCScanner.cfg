CONSTANTS
  Half <- MCHalf
  Texts <- MCTexts
  Letters <- MCLetters
  Digits <- MCDigits
  Spaces <- MCSpaces
  DigitValue <- MCDigitValue
SPECIFICATION ScannersSpec
INVARIANTS
  TypeOK
  ScansLongestMatch
PROPERTIES
  ScannerEnds
CHECK_DEADLOCK FALSE
