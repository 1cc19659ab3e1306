SPECIFICATION Spec
CONSTANTS
  Flows = {w1}
  Resuming = {w1}
  Steps = 2
  Calls = 1
  MaxCheckpoints = 2
  MaxDepth = 2
INVARIANTS
  TypeOK
  RolledBackLeavesNothing
  StepsOnceUnlessInDoubt
  RunningIsTrue
