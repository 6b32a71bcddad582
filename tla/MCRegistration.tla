-------------------------- MODULE MCRegistration --------------------------
(* Requests are alike, and so are phones. *)
EXTENDS Registration, TLC

Alike == Permutations(Requests) \cup Permutations(Phones)
=============================================================================
