--------------------------- MODULE MCAuthSessions ---------------------------
(* Instances of AuthSessions for TLC: the sets the configurations choose   *)
(* from, and the symmetry of the requests and devices, which the           *)
(* specification treats alike.                                             *)
EXTENDS AuthInvariants, TLC

RequestSymmetry == Permutations(Requests)
DeviceSymmetry  == Permutations(Requests) \cup Permutations(Devices)
UserSymmetry    == Permutations(Requests) \cup Permutations(Users)
=============================================================================
