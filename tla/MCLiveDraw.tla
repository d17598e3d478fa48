---------------------------- MODULE MCLiveDraw ----------------------------
(* Instances of LiveDraw for TLC.  Each cfg picks its prizes below.        *)
EXTENDS LiveDraw, TLC

CONSTANTS p1, p2, p3, z1, z2, k1, k2, d1, d2

StockOne     == [z \in Prizes |-> 1]
StockTwo     == [z \in Prizes |-> 2]
StockMixed   == [z \in Prizes |-> IF z = z1 THEN 2 ELSE 1]
NoneRepeats  == [z \in Prizes |-> FALSE]
MixedRepeats == [z \in Prizes |-> z = z1]

\* The rows of k2 match the pattern of k1 as well, as with k1 = room_001 and
\* k2 = room1001, or with k2 = k1:again.
KeysOverlap  == [k \in Keys |-> IF k = k1 THEN Keys ELSE {k}]
KeysApart    == [k \in Keys |-> {k}]

\* Handlers are interchangeable, and so are participants that no constant tells
\* apart; keys are not, where one covers the other.
RaceSymmetry == Permutations(Drawers) \cup Permutations(Participants)
PairSymmetry == Permutations({p1, p2})
=============================================================================
