------------------------------ MODULE MCRedeem ------------------------------
(* Values for checking Redeem: two tenants, three accounts, two prizes of which *)
(* one has a code without a letter.                                           *)
EXTENDS Redeem, TLC

CONSTANTS t1, t2, a1, a2, a3, r1, r2

Symmetry == Permutations({t1, t2}) \cup Permutations({a1, a2, a3}) \cup Permutations({r1, r2})
=============================================================================
