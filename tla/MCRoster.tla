------------------------------ MODULE MCRoster ------------------------------
(* Values for checking Roster: three users, two of whom may enroll at once    *)
(* for one place.                                                             *)
EXTENDS Roster, TLC

CONSTANTS u1, u2, u3, h1, h2

Symmetry == Permutations({u1, u2, u3}) \cup Permutations({h1, h2})
=============================================================================
