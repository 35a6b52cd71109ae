SPECIFICATION Spec
CONSTANTS
  NoPolicy = NoPolicy
  NoCaller = NoCaller
  Deployments <- FewOrMost
  Documents <- AllDocuments
  Callers <- AllCallers
  MaxEdits = 1
INVARIANT ReadOnlyHolds
