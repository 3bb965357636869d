SPECIFICATION Spec
CONSTANTS
  MorseTable <- CodeTable
  Texts <- MCTexts
INVARIANTS
  ReadBack
  WordsApart
