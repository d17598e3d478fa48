\* Every request that begins goes on, and the worker runs: what becomes of a
\* published activity?
SPECIFICATION FairSpec
CONSTANTS
  h1 = h1  h2 = h2
  Handlers = {h1, h2}
  Worker = worker
  Ops <- AllButPauseForce
  Configs <- BothModes
  Rosters = {"fits", "clashes", "depends"}
  Slack = 1
  MaxTime = 2
  MaxVersion = 4
  Faults = {}
PROPERTIES SeenToEnd
CHECK_DEADLOCK FALSE
