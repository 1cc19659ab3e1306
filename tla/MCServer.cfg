SPECIFICATION MCSpec
CONSTANTS
  Calls = {c1, c2, c3}
  Keys = {k1, k2}
  NoKey = NoKey
  Servers = {s1, s2}
  Tasks = {t1, t2}
INVARIANTS
  OneInstallationPerProposal
  TasksTellTheTruth
CHECK_DEADLOCK FALSE
