---------------------------- MODULE MCScheduled ----------------------------
(* Values for checking Scheduled: two prizes of one place each and a roster    *)
(* of at most two.  The assignment itself is also checked on its own, for      *)
(* every list of up to three prizes of up to two places and up to five ids, so *)
(* that places stay empty and ids go without.                                  *)
EXTENDS Scheduled, TLC

CONSTANTS u1, x1, z1, z2, h1, d1, d2

MCPrizes == <<[id |-> z1, stock |-> 1], [id |-> z2, stock |-> 1]>>

ASSUME AssignmentFills ==
    \A n \in 1 .. 3 : \A stocks \in [1 .. n -> 1 .. 2], heads \in 0 .. 5 :
       LET prizes == [i \in 1 .. n |-> [id |-> i, stock |-> stocks[i]]]
           order == [i \in 1 .. heads |-> heads + 1 - i]
       IN Fills(AssignScheduled(order, prizes), 1 .. heads, prizes)

Symmetry == Permutations({d1, d2})

\* The histories of Roster are checked there; no action reads them.
WithoutHistory == <<tables, enr, clock, status, drawVars>>
=============================================================================
