---------------------------- MODULE MCCredentials ----------------------------
(* Instances of Credentials for TLC.                                        *)
EXTENDS Credentials, TLC

CONSTANTS u1, u2, u3

RequestSymmetry == Permutations(Requests)
=============================================================================
