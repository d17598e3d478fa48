\* Two requests of any kind while the activity is edited, published and drawn.
SPECIFICATION Spec
CONSTANTS
  Handlers = {h1, h2}
  Inputs <- MCInputs
  Configs = {c1}
  MaxWins = 2
  MaxVersion = 3
INVARIANTS DetailTrue
PROPERTIES PublishesWhatItChecked
CHECK_DEADLOCK FALSE
