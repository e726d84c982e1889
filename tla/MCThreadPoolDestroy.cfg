SPECIFICATION Spec
CONSTANTS
  Workers = {w1, w2}
  Adders = {a1}
  Jobs = {j1, j2, j3}
  NoThread = NoThread
  NoJob = NoJob
INVARIANTS
  ActiveJobsFinish
