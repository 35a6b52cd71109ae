SPECIFICATION FairSpec
CONSTANTS
  r1 = r1
  r2 = r2
  Runs = {r1, r2}
  Tools = {generate_pdf, query}
  PdfTool = generate_pdf
  Iterations = 3
  MaxUses <- UsesPerRun
  MaxReloads = 1
INVARIANTS TypeOK RequestsWellFormed InFlightCountsRuns RevocationsHold
PROPERTIES OfferMatchesDispatch RunsEnd
CHECK_DEADLOCK FALSE
