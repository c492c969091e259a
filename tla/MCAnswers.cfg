\* The bounds are defined, and explained, in MCAnswers.
CONSTANTS
  commonNames <- MCNames
  Codes <- MCCodes
  Constants <- MCConstants
  Texts <- MCTexts
  Passwords <- MCPasswords
SPECIFICATION Spec
INVARIANTS
  PrintedProblemGivesCode
  MatchIsSameReading
  BirthdayIsCalled
  EveryPasswordAnswered
