--------------------------- MODULE MCUserRegistry ---------------------------
(* Instances of UserRegistry for TLC: which login and which network is which *)
(* makes no difference to any definition.                                    *)
EXTENDS UserRegistry

CONSTANTS ann, bob, ef, dal

Symmetry == Permutations(Logins) \cup Permutations(Nets)
=============================================================================
