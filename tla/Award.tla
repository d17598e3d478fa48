------------------------------- MODULE Award -------------------------------
(***************************************************************************)
(* What handing out prizes promises (docs/production-edges.md, section 9):  *)
(* a prize that was won is open until somebody settles it, is settled once, *)
(* and is handed to its winner at most once, when it is settled.  Settling  *)
(* without handing out is a settlement whose answer was lost.               *)
(***************************************************************************)
EXTENDS Naturals

CONSTANT Tokens     \* prize tokens

VARIABLES
    claim,          \* "none", "open" or "settled", by token
    handed          \* how often the prize was handed out, by token

Init == /\ claim = [t \in Tokens |-> "none"]
        /\ handed = [t \in Tokens |-> 0]

Open(t) == /\ claim[t] = "none"
           /\ claim' = [claim EXCEPT ![t] = "open"]
           /\ UNCHANGED handed

Settle(t) == /\ claim[t] = "open"
             /\ claim' = [claim EXCEPT ![t] = "settled"]
             /\ \/ handed' = [handed EXCEPT ![t] = @ + 1]
                \/ UNCHANGED handed

Next == \E t \in Tokens : Open(t) \/ Settle(t)

Spec == Init /\ [][Next]_<<claim, handed>>
=============================================================================
