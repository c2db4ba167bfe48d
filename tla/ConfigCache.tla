---------------------------- MODULE ConfigCache ----------------------------
(***************************************************************************)
(* The configuration cache of p_inifunc.c: the list `conf` of lines of the   *)
(* form FILE.SECTION.PARAM=value, read and changed by getini, writeini and   *)
(* clearsectionconfig.  A key is a record [file, section, param]; an entry   *)
(* is a key with a value.                                                    *)
(***************************************************************************)
EXTENDS Integers, Sequences, SequencesExt

CONSTANTS
    Keys,         \* the keys the program uses
    Fixed,        \* keys it never deletes, like ME of the system section
    Values,       \* values of entries
    InitialConfs  \* contents of the configuration file at start

NoValue == "none"

Entry == [key : Keys, val : Values]

(* The patterns given to clearsectionconfig: "USER1." stands for a whole     *)
(* file, "USER1.BANS." for one section.                                      *)
Groups ==
    {{k \in Keys : k.file = j.file} : j \in Keys}
      \cup {{k \in Keys : k.file = j.file /\ k.section = j.section} : j \in Keys}

ASSUME ConfigCacheAssumption ==
    /\ NoValue \notin Values
    /\ Fixed \subseteq Keys
    /\ InitialConfs \subseteq Seq(Entry) \ {<<>>}
    /\ \A c \in InitialConfs : \A i, j \in DOMAIN c : c[i].key = c[j].key => i = j

VARIABLE conf

(* Type invariant. *)
TypeOK == conf \in Seq(Entry)

-----------------------------------------------------------------------------
At(k) == {i \in DOMAIN conf : conf[i].key = k}

InSection(k) ==
    {i \in DOMAIN conf : conf[i].key.file = k.file /\ conf[i].key.section = k.section}

(* getini: the value of the first entry with the key. *)
getini(k) == IF At(k) = {} THEN NoValue ELSE conf[Min(At(k))].val

(* Mutant: a new entry does not look for an old one. *)
Written_Appends(k, v) ==
    IF v = NoValue THEN SelectSeq(conf, LAMBDA e : e.key # k)
    ELSE Append(conf, [key |-> k, val |-> v])

(* writeini: an entry is replaced where it is; a new one goes before the     *)
(* last entry of its section (behind it if that is the head of the list), or *)
(* to the end if the section is new.  Without a value the entry is deleted.  *)
Written(k, v) ==
    LET new == [key |-> k, val |-> v]
        last == Max(InSection(k))
    IN  IF At(k) # {}
        THEN IF v = NoValue THEN RemoveAt(conf, Min(At(k)))
             ELSE [conf EXCEPT ![Min(At(k))] = new]
        ELSE IF v = NoValue THEN conf
        ELSE IF InSection(k) = {} THEN Append(conf, new)
        ELSE InsertAt(conf, IF last = 1 THEN 2 ELSE last, new)

(* Writing into an empty list dereferences NULL, as does deleting the only   *)
(* entry with clearsectionconfig; the fixed keys keep the list longer.       *)
writeini(k, v) ==
    /\ conf # <<>>
    /\ v = NoValue => k \notin Fixed
    /\ conf' = Written(k, v)

(* Mutant: the section name is looked for anywhere in the line. *)
Erased_Anywhere(G) ==
    SelectSeq(conf, LAMBDA e : \A k \in G : k.section # e.key.section)

(* The lines of a list that are not in the group, in their order.             *)
Kept(c, G) ==
    LET upto[i \in 0 .. Len(c)] ==
          IF i = 0 THEN <<>>
          ELSE IF c[i].key \in G THEN upto[i - 1] ELSE Append(upto[i - 1], c[i])
    IN  upto[Len(c)]

(* clearsectionconfig: the entry behind an erased head becomes the new head  *)
(* and is not looked at.                                                     *)
Erased(G) ==
    IF conf # <<>> /\ Head(conf).key \in G
    THEN SubSeq(conf, 2, 2) \o Kept(SubSeq(conf, 3, Len(conf)), G)
    ELSE Kept(conf, G)

clearsectionconfig(G) ==
    /\ Len(conf) > 1
    /\ G \cap Fixed = {}
    /\ conf' = Erased(G)

Init == conf \in InitialConfs

Next ==
    \/ \E k \in Keys, v \in Values \cup {NoValue} : writeini(k, v)
    \/ \E G \in Groups : clearsectionconfig(G)

Spec == Init /\ [][Next]_conf

-----------------------------------------------------------------------------
(* Properties *)

(* No key is ever in the list twice, whatever was inserted, replaced, deleted *)
(* or erased before: a second entry would come back when the first is deleted. *)
KeysUnique == \A i, j \in DOMAIN conf : conf[i].key = conf[j].key => i = j

(* Seen through getini, the list is a map: a write changes one key, erasing a *)
(* section removes its keys (all but at most one) and no other, and entries   *)
(* of other sections survive every change of the list.                       *)
Map == INSTANCE ConfigMap WITH map <- [k \in Keys |-> getini(k)]

ImplementsMap == Map!Spec

(* The list: it holds entries, and none of its keys twice.                    *)
Consistent == TypeOK /\ KeysUnique
=============================================================================
