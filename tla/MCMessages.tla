------------------------------- MODULE MCMessages ------------------------------
EXTENDS Messages

(* The salts of salt.h: "ndkandroidsalt" and "psybncportable".                 *)
Salt1 == <<110, 100, 107, 97, 110, 100, 114, 111, 105, 100, 115, 97, 108, 116>>
Salt2 == <<112, 115, 121, 98, 110, 99, 112, 111, 114, 116, 97, 98, 108, 101>>

(* Two long passwords, of which one still fits into an entry: offsets and      *)
(* salts wrap in both. (The first offset begins at 23, not at 73, so that 30   *)
(* characters are enough.)                                                     *)
Long(n) == [i \in 1 .. n |-> 60 + ((7 * i) % 66)]
FitsAndNot == {Long(30), Long(33)}

(* The lists and the logs; encrypted conversations; translated ones.           *)
Cases == {[kinds |-> {"OP", "IGN", "LGI"}, bodies |-> {}, entries |-> 2, messages |-> 2, texts |-> 0],
          [kinds |-> {"ENC", "TRA"}, bodies |-> Bodies \cup Unchecked, entries |-> 2,
           messages |-> 0, texts |-> 1],
          [kinds |-> {"TRA"}, bodies |-> {"text"}, entries |-> 1, messages |-> 1, texts |-> 3]}

(* Correspondents differ by name only.                                         *)
HostSymmetry == Permutations(Hosts)
================================================================================
