SPECIFICATION Spec
CONSTANTS
  PerPage = 2
  EndPage = 4
  MaxErrs = 1
  MaxAsked = 5
  MaxBad = 3
  MaxUnits = 2
  MaxSegments = 3
INVARIANTS NoneMissed DamagedByFaults DollarFindsFormulas
PROPERTY CrawlEnds
