SPECIFICATION FairSpec
CONSTANTS
  Callers = {c1}
  read = read
  Tools = {read}
  Policies <- SomePolicies
  Broken = Broken
  Missing = Missing
  MtimeSteps = {1}
  EditsDuringStart = FALSE
  MaxEdits = 1
  MaxRestarts = 0
PROPERTY CorrectionsTakeEffect
