CONSTANTS
  NumAssets = 3
  NumRules = 2
  Stem <- StemsCollide
  FailOn = "error"
  RuleAnswers <- UpToTwoFindings
SPECIFICATION Spec
INVARIANTS
  ExitCodeIsHonest
  PanicNeverPasses
  VerdictIsExplained
  StopsOnlyWhenItMust
