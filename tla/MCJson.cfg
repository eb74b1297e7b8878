\* Texts of up to four characters after each beginning, read twice, with one
\* allocation that fails.
SPECIFICATION FairSpec
CONSTANTS
  Chars <- MCChars
  Beginnings <- MCBeginnings
  MaxMore = 4
  MaxDigits = 2
  MaxAllocFailures = 1
INVARIANTS
  ParsesTheGrammar
  SecondPassFits
  PassesAgree
  AllFreed
PROPERTY Terminates
CHECK_DEADLOCK FALSE
