\* Two handlers at a time; an image is there or not, and so is a problem.
CONSTANTS
  Reqs = {r1, r2}
  Calls = {"VerifyClick", "Send", "VerifyAnswer", "Submit"}
  Images = {i1}
  Problems = {p1}
  Zero = Zero
  MaxWrong = 0
  MaxCount = 3
SPECIFICATION FairSpec
INVARIANTS
  LimitIsHandled
  StaleOnlyIfCrossed
PROPERTY LimitIsLeft
