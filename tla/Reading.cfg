SPECIFICATION Spec
CONSTANTS
  Letters <- MCLetters
  Digit <- MCDigit
  Keywords <- MCKeywords
  Escaped <- MCEscaped
  Lenient = TRUE
  Texts <- MCTexts
  Programs <- MCPrograms
INVARIANTS
  Munch
  Verdict
  Complete
  Binds
  TreeWellFormed
PROPERTY
  Reads
