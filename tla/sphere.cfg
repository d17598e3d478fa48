\* Two cards, three people of whom two share a name, two winners a draw, two
\* polls under way.
SPECIFICATION Spec
CONSTANTS
    li = li  wang = wang
    Names = {li, wang}
    Crowd <- MCCrowd
    Cards = 2
    PerDraw = 2
    Pulls = {q1, q2}
    Blank = Blank
    MaxTweens = 1
    MaxFaults = 1
CHECK_DEADLOCK FALSE
INVARIANTS
    WinnersShown
PROPERTIES
    StaysPut
    CatchesUp
