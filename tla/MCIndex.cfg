SPECIFICATION Spec
CONSTANTS
  r1 = r1
  r2 = r2
  r3 = r3
  a = a
  b = b
  Runs = {r1, r2, r3}
  Searches = {s1}
  Dirs = {a, b}
  PathsOf <- MCPathsOf
  UrlOf <- MCUrlOf
  NONE = NONE
  MaxFaults = 1
INVARIANTS PostingsSorted FaultFreeIndex RecordOfOneRun RefsResolve
PROPERTY SearchReadsStable
PROPERTY RunsEnd
