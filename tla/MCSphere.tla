------------------------------ MODULE MCSphere ------------------------------
(* Values for checking Sphere: three people, two of one name, for two cards.  *)
EXTENDS Sphere

CONSTANTS li, wang

MCCrowd == [n \in Names |-> IF n = li THEN 2 ELSE 1]
=============================================================================
