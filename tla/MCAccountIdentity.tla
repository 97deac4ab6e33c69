-------------------------- MODULE MCAccountIdentity --------------------------
(* Instances of AccountIdentity for TLC.                                   *)
EXTENDS AccountIdentity, TLC

CONSTANT google

\* Two profiles of one provider.
MCProviderOf == [p \in Profiles |-> google]

NameSymmetry == Permutations(Requests) \cup Permutations(Emails)
                    \cup Permutations(Profiles)
=============================================================================
