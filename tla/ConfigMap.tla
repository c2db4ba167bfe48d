------------------------------ MODULE ConfigMap ------------------------------
(***************************************************************************)
(* What the configuration cache of p_inifunc.c promises its callers: a map  *)
(* from keys to values, in which entries are written and deleted one at a   *)
(* time and whole groups of keys are erased at once.  Erasing a group may   *)
(* leave one of its keys behind: clearsectionconfig() does not look at the  *)
(* line that follows an erased first line of the file.                      *)
(***************************************************************************)
CONSTANTS Keys, Values, NoValue, Groups

VARIABLE map

Init == map \in [Keys -> Values \cup {NoValue}]

Write(k, v) == map' = [map EXCEPT ![k] = v]

Erase(G) ==
    \E left \in SUBSET G :
       /\ \A k, l \in left : k = l
       /\ map' = [k \in Keys |-> IF k \in G \ left THEN NoValue ELSE map[k]]

Next ==
    \/ \E k \in Keys, v \in Values \cup {NoValue} : Write(k, v)
    \/ \E G \in Groups : Erase(G)

Spec == Init /\ [][Next]_map
=============================================================================
