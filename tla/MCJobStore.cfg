CONSTANTS
  Store = {s1, s2}
  Job = {j1, j2}
  MaxFindings = 2
  MaxRuns = 3
SPECIFICATION Spec
SYMMETRY Symmetry
INVARIANTS
  TypeOK
  FindingsHaveVerdict
  MetadataMeansComplete
  OneCompletionIsExact
