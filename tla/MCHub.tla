------------------------------- MODULE MCHub -------------------------------
(* Values for checking Hub: two users, whom /seed-mock joins one after the   *)
(* other, and handlers that may join either of them.                         *)
EXTENDS Hub

MCUsers == {1, 2}
MCMocks == <<1, 2>>
=============================================================================
