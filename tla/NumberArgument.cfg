SPECIFICATION ParseSpec
CONSTANTS
  MaxNumber = 299
  MaxDigits = 3
  NotADigit = 99
INVARIANTS
  ExactOrRefused
PROPERTIES
  NeverWraps
