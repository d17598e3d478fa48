----------------------------- MODULE PrizeBook -----------------------------
(***************************************************************************)
(* What a live draw promises, without pools, versions or two stores: a     *)
(* book of who holds which prize by which batch.  A batch is entered once, *)
(* for people who do not hold that prize yet and within the prize's stock; *)
(* afterwards it can only shrink, alone when winners are lost, and with    *)
(* the batches that its key covers when it is undone.                      *)
(***************************************************************************)
EXTENDS Integers, FiniteSets

CONSTANTS Participants, Prizes, Keys, Stock, PerRound,
          Covers   \* the keys that the undo of a key takes with it

VARIABLES
  book,    \* entries [key, part, prize]
  spent,   \* keys that have drawn
  void     \* keys whose undo has been ordered

Holders(z) == {r \in book : r.prize = z}

Init == book = {} /\ spent = {} /\ void = {}

\* A batch of at most PerRound new holders of prize z.
Grant(k, z, W) ==
  /\ k \notin spent
  /\ W # {} /\ Cardinality(W) <= PerRound[z]
  /\ Cardinality(Holders(z)) + Cardinality(W) <= Stock[z]
  /\ \A r \in Holders(z) : r.part \notin W
  /\ book' = book \cup {[key |-> k, part |-> p, prize |-> z] : p \in W}
  /\ spent' = spent \cup {k}
  /\ void' = void

\* Entries of the batches of K leave the book.
Shrink(K) ==
  /\ book' \subseteq book
  /\ book' # book
  /\ \A r \in book \ book' : r.key \in K
  /\ UNCHANGED <<spent, void>>

\* The undo of a batch is ordered, and does its work later, if at all.
Order(k) ==
  /\ k \in spent \ void
  /\ void' = void \cup {k}
  /\ UNCHANGED <<book, spent>>

Undo(k) == k \in void /\ Shrink(Covers[k])

\* Winners of a batch are lost with the request that held them.
Lose(k) == k \in spent /\ Shrink({k})

Next == \E k \in Keys : \/ \E z \in Prizes, W \in SUBSET Participants : Grant(k, z, W)
                        \/ Order(k) \/ Undo(k) \/ Lose(k)

Spec == Init /\ [][Next]_<<book, spent, void>>
=============================================================================
