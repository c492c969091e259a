\* One handler at a time, two images and two problems.
CONSTANTS
  Reqs = {r1}
  Calls = {"Start", "Result", "Generate", "VerifyClick", "Send", "VerifyAnswer", "Submit"}
  Images = {i1, i2}
  Problems = {p1, p2}
  Zero = Zero
  MaxWrong = 4
  MaxCount = 4
SPECIFICATION Spec
SYMMETRY Symmetry
INVARIANTS
  WrongClicksCounted
  WrongAnswersCounted
PROPERTY
  OnlySolvedSkips
