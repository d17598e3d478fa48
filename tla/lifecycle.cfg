\* One request of any kind and one that publishes beside the worker, with every
\* kind of failure.
SPECIFICATION Spec
CONSTANTS
  h1 = h1  h2 = h2
  Handlers = {h1, h2}
  Worker = worker
  Ops <- AnyBesidePublish
  Configs <- TwoWindows
  Rosters = {"depends"}
  Slack = 1
  MaxTime = 2
  MaxVersion = 3
  Faults = {"crash", "db", "redis", "expire"}
INVARIANTS TypeOK DrawnOnce OnTime JobsMatch
PROPERTIES FrozenByPublish
CHECK_DEADLOCK FALSE
