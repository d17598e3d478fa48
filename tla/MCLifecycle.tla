---------------------------- MODULE MCLifecycle ----------------------------
(* Instances of Lifecycle for TLC.  Each cfg picks its windows below.      *)
EXTENDS Lifecycle, TLC

CONSTANTS h1, h2

\* h2 is a second operator who publishes beside h1.
AnyBesidePublish == h1 :> OpKinds @@ h2 :> {"publish"}
AllButPauseForce == [h \in Handlers |-> {"publish", "update", "cancel", "visit"}]

Window(m, s, e) == [mode |-> m, start |-> s, end |-> e]
BothModes  == {Window("live", 1, 2), Window("scheduled", 1, 2)}
TwoWindows == {Window("scheduled", 1, 2), Window("scheduled", 0, 1)}
=============================================================================
