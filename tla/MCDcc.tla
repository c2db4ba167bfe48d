--------------------------------- MODULE MCDcc ---------------------------------
EXTENDS Dcc

(* A file of exactly two blocks, and one that ends inside its only block.      *)
WholeAndBroken == ("n" :> 4) @@ ("m" :> 1)

(* Bot connections differ by name only.                                        *)
BotSymmetry == Permutations(Bots)
================================================================================
