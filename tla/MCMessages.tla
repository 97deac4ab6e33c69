----------------------------- MODULE MCMessages -----------------------------
(* Instances of Messages for TLC.                                           *)
EXTENDS Messages, TLC

MessageSymmetry == Permutations(Requests) \cup Permutations(Admins)
=============================================================================
