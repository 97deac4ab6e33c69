--------------------------- MODULE MCSecurityAbuse ---------------------------
(* Instances of SecurityAbuse for TLC.                                     *)
EXTENDS SecurityAbuse, TLC

\* The windows and blocks are in the ratios of the defaults: a login's block
\* is two windows long, a registration's half a window.
MCLimit     == [LOGIN |-> 1, REGISTER |-> 3, PASSWORD_RESET |-> 1]
MCWindow    == [LOGIN |-> 1, REGISTER |-> 2, PASSWORD_RESET |-> 2]
MCBlockTime == [LOGIN |-> 2, REGISTER |-> 1]

AttemptSymmetry == Permutations(Attempts)
Symmetry == AttemptSymmetry \cup Permutations(Emails) \cup Permutations(Addresses)
=============================================================================
