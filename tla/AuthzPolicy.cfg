SPECIFICATION FairSpec
CONSTANTS
  Callers = {c1, c2}
  read = read
  Tools = {read}
  Policies <- SomePolicies
  Broken = Broken
  Missing = Missing
  MtimeSteps = {1}
  EditsDuringStart = FALSE
  MaxEdits = 3
  MaxRestarts = 1
INVARIANTS TypeOK LastGoodPolicy DecisionsFollowTheFile
PROPERTY EditsTakeEffect
