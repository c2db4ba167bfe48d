---------------------------- MODULE Daemon_proof ----------------------------
(***************************************************************************)
(* Proofs about Daemon and the ConfigFile it contains, for any number of    *)
(* lines, versions, listener entries and signals.                           *)
(***************************************************************************)
EXTENDS Daemon, FiniteSetsExt, WellFoundedInduction, FiniteSetTheorems, TLAPS

-----------------------------------------------------------------------------
(* Numbers *)

(* A nonempty set of naturals has a least element. *)
LEMMA LeastNatural ==
    ASSUME NEW T, T \subseteq Nat, T # {}
    PROVE  \E x \in T : \A y \in T : x <= y
<1>1. PICK R : R = OpToRel(<, Nat)
  BY Zenon
<1>2. IsWellFoundedOn(R, Nat)
  BY <1>1, NatLessThanWellFounded, Zenon
<1>3. \A x, y \in Nat : x < y => <<x, y>> \in R
  BY <1>1 DEF OpToRel
<1>4. PICK x \in T : \A y \in T : ~ (<<y, x>> \in R)
  BY <1>2, WFMin, Zenon
<1>5. \A y \in T : x <= y
  <2> TAKE y \in T
  <2>1. x \in Nat /\ y \in Nat
    BY <1>4
  <2>2. ~ (y < x)
    BY <1>3, <1>4, <2>1
  <2> QED
    BY <2>1, <2>2
<1> QED
  BY <1>4, <1>5

-----------------------------------------------------------------------------
(* A process that has ended is saving nothing; a save that is not under way  *)
(* has no file open, and one that writes has.                                *)
SavesWellFormed ==
    /\ ~up => \A x \in Procs : flush[x] = Idle
    /\ \A x \in Procs : /\ flush[x].pc = "idle" => flush[x] = Idle
                        /\ flush[x].pc = "write" => flush[x].ino \in Inodes

(* The two names never stand for one file: writing a save cannot touch .old. *)
NamesDiffer == dir["conf"] # 0 => dir["conf"] # dir["old"]

(* The handler's save is never disturbed: the main program waits for it.     *)
TermOwnsConf ==
    /\ flush["term"].pc = "open" => dir["conf"] = 0
    /\ flush["term"].pc = "write" => /\ dir["conf"] = flush["term"].ino
                                     /\ data[dir["conf"]].ver = cache.ver

OldComplete == dir["old"] # 0 /\ data[dir["old"]].n = Lines

(* The main program, while it writes, writes the file of that name, with the *)
(* old copy or the file itself complete; or the handler came between, and    *)
(* the file of that name is the whole cache already.                         *)
MainWrites ==
    (flush["main"].pc = "write" /\ flush["term"].pc = "idle") =>
       \/ /\ dir["conf"] = flush["main"].ino
          /\ data[dir["conf"]].ver = cache.ver
          /\ cache.n = Lines => OldComplete \/ data[dir["conf"]].n = Lines
       \/ dir["conf"] # 0 /\ data[dir["conf"]] = cache

(* Until a save renames it, the file has as many lines as the cache.         *)
ConfAsLong ==
    (up /\ flush["term"].pc \in {"idle", "rename"}) =>
       /\ flush["main"].pc \in {"idle", "rename"} =>
             dir["conf"] # 0 /\ data[dir["conf"]].n = cache.n
       /\ flush["main"].pc = "open" /\ dir["conf"] # 0 => data[dir["conf"]].n = cache.n

(* Once it is renamed, the old copy is complete, unless the main program was *)
(* interrupted while it wrote.                                               *)
OldKept ==
    \/ flush["main"].pc = "open"
    \/ flush["main"].pc # "write" /\ flush["term"].pc \in {"open", "write"}
    => (cache.n = Lines => OldComplete)

(* The inductive invariant of the files.  SavedWhole and CompleteCopy speak   *)
(* of states in which at most one save is under way; what happens when the   *)
(* handler's save falls into one of the main program needs the rest.         *)
FilesInv ==
    /\ TypeOK
    /\ SavesWellFormed
    /\ NamesDiffer
    /\ TermOwnsConf
    /\ MainWrites
    /\ ConfAsLong
    /\ OldKept
    /\ SavedWhole

DaemonInv == FilesInv /\ DaemonTypeOK /\ BoundOnce

-----------------------------------------------------------------------------
(* Helpers *)

(* There is a file that no name stands for and no save has open: four        *)
(* places can hold one, and fopen() needs a new one only while the name of   *)
(* the configuration file is free.                                           *)
LEMMA NewInodeFree ==
    ASSUME TypeOK, dir["conf"] = 0
    PROVE  NewInode \in Inodes /\ NewInode \notin InUse
<1> DEFINE used == {dir["old"], flush["main"].ino, flush["term"].ino}
<1>1. IsFiniteSet(used) /\ Cardinality(used) <= 3
  <2>1. IsFiniteSet({dir["old"]}) /\ Cardinality({dir["old"]}) = 1
    BY FS_Singleton, Zenon
  <2>2. ASSUME NEW S, NEW e, NEW n \in Nat, IsFiniteSet(S), Cardinality(S) <= n
        PROVE  IsFiniteSet(S \cup {e}) /\ Cardinality(S \cup {e}) <= n + 1
    <3>1. IsFiniteSet(S \cup {e}) /\ Cardinality(S) \in Nat
      BY <2>2, FS_AddElement, FS_CardinalityType, Zenon
    <3>2. Cardinality(S \cup {e}) = Cardinality(S) \/ Cardinality(S \cup {e}) = Cardinality(S) + 1
      BY <2>2, FS_AddElement, Zenon
    <3> QED
      BY <2>2, <3>1, <3>2
  <2>3. PICK A : A = {dir["old"]} \cup {flush["main"].ino}
    OBVIOUS
  <2>4. IsFiniteSet(A) /\ Cardinality(A) <= 2
    <3>1. Cardinality({dir["old"]}) <= 1
      BY <2>1
    <3>2. IsFiniteSet(A) /\ Cardinality(A) <= 1 + 1
      BY <2>1, <2>2, <2>3, <3>1, 1 \in Nat, Zenon
    <3> QED
      BY <3>2
  <2>5. IsFiniteSet(A \cup {flush["term"].ino}) /\ Cardinality(A \cup {flush["term"].ino}) <= 2 + 1
    BY <2>2, <2>4, 2 \in Nat, Zenon
  <2>6. used = A \cup {flush["term"].ino}
    BY <2>3
  <2> QED
    BY <2>5, <2>6
<1>2. ~(Inodes \subseteq used)
  <2>1. Cardinality(Inodes) \in Nat
    BY ConfigFileAssumption, FS_CardinalityType
  <2>2. Inodes \subseteq used => Cardinality(Inodes) <= Cardinality(used)
    BY <1>1, FS_Subset
  <2>3. Cardinality(used) \in Nat
    BY <1>1, FS_CardinalityType
  <2> QED
    BY <1>1, <2>1, <2>2, <2>3, ConfigFileAssumption
<1>3. \E i \in Inodes : i \notin InUse
  BY <1>2, ConfigFileAssumption DEF InUse
<1> QED
  BY <1>3 DEF NewInode

-----------------------------------------------------------------------------
(* The files: every step of the process keeps FilesInv. *)

(* A command changes an entry of the cache. *)
LEMMA ChangeFiles == FilesInv /\ Change => FilesInv'
BY ConfigFileAssumption DEF FilesInv, Change, TypeOK, SavesWellFormed, NamesDiffer, TermOwnsConf, MainWrites, ConfAsLong,
     OldKept, OldComplete, SavedWhole, Procs, Idle, Contents, Runs, vars

(* A command begins to save. *)
LEMMA flushconfigFiles == FilesInv /\ flushconfig => FilesInv'
BY ConfigFileAssumption DEF FilesInv, flushconfig, TypeOK, SavesWellFormed, NamesDiffer, TermOwnsConf, MainWrites, ConfAsLong,
     OldKept, OldComplete, SavedWhole, Procs, Idle, Contents, Runs, vars

(* SIGTERM begins to save, in the middle of a save of the main program too. *)
LEMMA term_errorFiles == FilesInv /\ term_error => FilesInv'
BY ConfigFileAssumption DEF FilesInv, term_error, TypeOK, SavesWellFormed, NamesDiffer, TermOwnsConf, MainWrites, ConfAsLong,
     OldKept, OldComplete, SavedWhole, Procs, Idle, Contents, Runs, vars

(* The process dies with all its saves. *)
LEMMA CrashFiles == FilesInv /\ Crash => FilesInv'
<1> SUFFICES ASSUME FilesInv, Crash
             PROVE  FilesInv'
  OBVIOUS
<1>1. flush' \in [Procs -> [pc : {"idle", "rename", "open", "write"}, ino : Inodes \cup {0}]]
  BY DEF Crash, Idle
<1>2. flush'["main"] = Idle /\ flush'["term"] = Idle /\ ~up'
  BY DEF Crash, Procs
<1>3. TypeOK'
  BY <1>1 DEF FilesInv, Crash, TypeOK
<1>4. SavesWellFormed'
  BY <1>2 DEF SavesWellFormed, Procs, Idle
<1> QED
  BY <1>2, <1>3, <1>4 DEF FilesInv, Crash, NamesDiffer, TermOwnsConf, MainWrites,
     ConfAsLong, OldKept, OldComplete, SavedWhole, Idle

(* The process starts again from the file. *)
LEMMA readconfigFiles == FilesInv /\ readconfig => FilesInv'
BY ConfigFileAssumption DEF FilesInv, readconfig, TypeOK, SavesWellFormed, NamesDiffer, TermOwnsConf, MainWrites, ConfAsLong,
     OldKept, OldComplete, SavedWhole, Procs, Idle, Contents, Runs, vars

(* A save renames the file: what was the file is the old copy now, and the   *)
(* name is free.                                                             *)
LEMMA oldfileFiles ==
    ASSUME FilesInv, NEW x \in Procs, oldfile(x)
    PROVE  FilesInv'
<1> USE DEF FilesInv, oldfile, Procs, Idle, Runs
<1>1. TypeOK' /\ SavesWellFormed'
  BY DEF TypeOK, SavesWellFormed
<1>2. NamesDiffer' /\ dir'["conf"] = 0
  BY DEF NamesDiffer, TypeOK
<1>3. TermOwnsConf'
  BY <1>2 DEF TermOwnsConf, TypeOK
<1>4. MainWrites' /\ ConfAsLong' /\ SavedWhole'
  BY <1>2 DEF MainWrites, ConfAsLong, SavedWhole, TypeOK, SavesWellFormed
<1>5. OldKept'
  BY ConfigFileAssumption DEF OldKept, OldComplete, ConfAsLong, TypeOK, SavesWellFormed
<1> QED
  BY <1>1, <1>2, <1>3, <1>4, <1>5

(* A save opens the file: a new one, or the one the handler has written in   *)
(* between, which is emptied; the old copy is another.                       *)
LEMMA fopenFiles ==
    ASSUME FilesInv, NEW x \in Procs, fopen(x)
    PROVE  FilesInv'
<1> DEFINE i == IF dir["conf"] # 0 THEN dir["conf"] ELSE NewInode
<1>1. i \in Inodes /\ i # 0 /\ i # dir["old"]
  BY NewInodeFree, ConfigFileAssumption DEF FilesInv, TypeOK, InUse, NamesDiffer
<1>2. /\ dir'["conf"] = i /\ dir'["old"] = dir["old"]
      /\ data'[i] = [ver |-> cache.ver, n |-> 0]
      /\ \A k \in Inodes : k # i => data'[k] = data[k]
      /\ flush'[x] = [pc |-> "write", ino |-> i]
      /\ \A y \in Procs : y # x => flush'[y] = flush[y]
      /\ UNCHANGED <<up, cache, saved>> /\ up
  BY <1>1 DEF FilesInv, TypeOK, fopen, Runs
<1>3. TypeOK'
  BY <1>1, ConfigFileAssumption DEF FilesInv, TypeOK, fopen, Contents
<1> HIDE DEF i
<1>4. SavesWellFormed'
  BY <1>1, <1>2 DEF FilesInv, SavesWellFormed, Idle
<1>5. NamesDiffer'
  BY <1>1, <1>2 DEF NamesDiffer
<1>6. (x = "main" => flush["term"] = Idle) /\ flush[x].pc = "open"
  BY DEF fopen, Runs
<1>7. TermOwnsConf'
  BY <1>1, <1>2, <1>6 DEF FilesInv, TermOwnsConf, Procs, Idle, TypeOK
<1>8. OldComplete => OldComplete'
  BY <1>1, <1>2 DEF FilesInv, OldComplete, TypeOK
<1>9. MainWrites'
  BY <1>1, <1>2, <1>6, <1>8 DEF FilesInv, MainWrites, OldKept, Procs, Idle
<1>10. OldKept'
  BY <1>2, <1>6, <1>8 DEF FilesInv, OldKept, Procs, Idle
<1>11. ConfAsLong' /\ SavedWhole'
  BY <1>2, <1>6 DEF ConfAsLong, SavedWhole, Procs, Idle
<1> QED
  BY <1>3, <1>4, <1>5, <1>7, <1>9, <1>10, <1>11 DEF FilesInv

(* A save writes a line.  The old copy is not touched: the file is the one   *)
(* of the name, or, if the handler came between, the name is complete.       *)
LEMMA fprintfFiles ==
    ASSUME FilesInv, NEW x \in Procs, fprintf(x)
    PROVE  FilesInv'
<1> DEFINE i == flush[x].ino
<1>1. i \in Inodes /\ flush[x].pc = "write" /\ (x = "main" => flush["term"] = Idle) /\ up
  BY DEF FilesInv, SavesWellFormed, fprintf, Runs
<1>2. /\ data'[i] = [data[i] EXCEPT !.n = @ + 1] /\ data[i].n < cache.n
      /\ \A k \in Inodes : k # i => data'[k] = data[k]
      /\ UNCHANGED <<up, cache, dir, flush, saved>>
  BY <1>1 DEF FilesInv, TypeOK, fprintf
<1>3. TypeOK'
  BY <1>1, <1>2, ConfigFileAssumption DEF FilesInv, TypeOK, fprintf, Contents
<1>4. SavesWellFormed' /\ NamesDiffer'
  BY <1>2 DEF FilesInv, SavesWellFormed, NamesDiffer
<1>5. TermOwnsConf'
  BY <1>1, <1>2 DEF FilesInv, TermOwnsConf, TypeOK, Contents, Procs, Idle
<1>6. MainWrites'
  BY <1>1, <1>2, ConfigFileAssumption
     DEF FilesInv, MainWrites, OldComplete, NamesDiffer, TypeOK, Contents, Procs, Idle
<1>7. OldKept'
  BY <1>1, <1>2, ConfigFileAssumption
     DEF FilesInv, OldKept, OldComplete, TermOwnsConf, NamesDiffer, TypeOK, Procs, Idle
<1>8. ConfAsLong' /\ SavedWhole'
  BY <1>1, <1>2 DEF FilesInv, ConfAsLong, SavedWhole, Procs, Idle
<1> QED
  BY <1>3, <1>4, <1>5, <1>6, <1>7, <1>8 DEF FilesInv

(* A save closes the file: that of the name is the whole cache, whichever of *)
(* the two saves wrote it.                                                   *)
LEMMA fcloseFiles ==
    ASSUME FilesInv, NEW x \in Procs, fclose(x)
    PROVE  FilesInv'
<1>1. /\ flush[x].ino \in Inodes /\ flush[x].pc = "write"
      /\ (x = "main" => flush["term"] = Idle) /\ up
      /\ data[flush[x].ino].n = cache.n
  BY DEF FilesInv, SavesWellFormed, fclose, Runs
<1>2. /\ flush'[x] = Idle
      /\ \A y \in Procs : y # x => flush'[y] = flush[y]
      /\ saved' = cache /\ UNCHANGED <<up, cache, dir, data>>
  BY DEF FilesInv, TypeOK, fclose
<1>3. dir["conf"] # 0 /\ data[dir["conf"]] = cache
  <2>1. ASSUME NEW i \in Inodes, data[i].ver = cache.ver, data[i].n = cache.n
        PROVE  data[i] = cache
    BY <2>1 DEF FilesInv, TypeOK, Contents
  <2>2. CASE x = "term"
    BY <1>1, <2>1, <2>2, ConfigFileAssumption DEF FilesInv, TermOwnsConf
  <2>3. CASE x = "main"
    BY <1>1, <2>1, <2>3, ConfigFileAssumption DEF FilesInv, MainWrites, Idle
  <2> QED
    BY <2>2, <2>3 DEF Procs
<1>4. TypeOK'
  BY DEF FilesInv, TypeOK, fclose, Idle
<1>5. SavesWellFormed' /\ NamesDiffer'
  BY <1>1, <1>2 DEF FilesInv, SavesWellFormed, NamesDiffer, Idle
<1>6. TermOwnsConf' /\ MainWrites' /\ ConfAsLong' /\ SavedWhole'
  BY <1>1, <1>2, <1>3
     DEF FilesInv, TermOwnsConf, MainWrites, ConfAsLong, SavedWhole, Procs, Idle
<1>7. OldKept'
  BY <1>1, <1>2 DEF FilesInv, OldKept, OldComplete, Procs, Idle
<1> QED
  BY <1>4, <1>5, <1>6, <1>7 DEF FilesInv

(* SIGUSR2 reads the file again, in the middle of a save of the main program *)
(* too: the lines of it that are there are those of the cache from then on.  *)
LEMMA usr2Files ==
    ASSUME FilesInv, usr2_error
    PROVE  FilesInv'
<1>1. CASE Crash
  BY <1>1, CrashFiles
<1>2. CASE ~Crash
  <2>1. /\ up /\ flush["term"] = Idle
        /\ cache' = IF dir["conf"] = 0 THEN [cache EXCEPT !.n = 0] ELSE data[dir["conf"]]
        /\ UNCHANGED <<up, dir, data, flush, saved>>
    BY <1>2 DEF usr2_error, Dies, Delivered, dvars
  <2>2. TypeOK'
    BY <2>1, ConfigFileAssumption DEF FilesInv, TypeOK, Contents
  <2>3. SavesWellFormed' /\ NamesDiffer' /\ TermOwnsConf' /\ SavedWhole'
    BY <2>1 DEF FilesInv, SavesWellFormed, NamesDiffer, TermOwnsConf, SavedWhole, Idle
  <2>4. MainWrites'
    BY <2>1, ConfigFileAssumption
       DEF FilesInv, MainWrites, SavesWellFormed, TypeOK, Procs, Idle, OldComplete
  <2>5. ConfAsLong'
    BY <2>1 DEF FilesInv, ConfAsLong, Idle
  <2>6. OldKept'
    BY <2>1, ConfigFileAssumption
       DEF FilesInv, OldKept, OldComplete, ConfAsLong, TypeOK, Contents, Idle
  <2> QED
    BY <2>2, <2>3, <2>4, <2>5, <2>6 DEF FilesInv
<1> QED
  BY <1>1, <1>2

(* The files of the first start. *)
LEMMA InitFiles == Init => FilesInv
<1> SUFFICES ASSUME Init
             PROVE  FilesInv
  OBVIOUS
<1>1. Inodes # {}
  BY ConfigFileAssumption, FS_EmptySet
<1>2. dir["conf"] \in Inodes /\ dir["old"] = 0
  BY <1>1 DEF Init
<1>3. TypeOK
  BY <1>1, ConfigFileAssumption DEF Init, TypeOK, Contents, Idle
<1>4. flush["main"] = Idle /\ flush["term"] = Idle
  BY DEF Init, Procs
<1> QED
  BY <1>2, <1>3, <1>4, ConfigFileAssumption
     DEF Init, FilesInv, SavesWellFormed, NamesDiffer, TermOwnsConf, MainWrites,
         ConfAsLong, OldKept, OldComplete, SavedWhole, Procs, Idle

(* Every step of the daemon. *)
LEMMA NextFiles == FilesInv /\ [DaemonNext]_<<vars, dvars>> => FilesInv'
<1> SUFFICES ASSUME FilesInv, [DaemonNext]_<<vars, dvars>>
             PROVE  FilesInv'
  OBVIOUS
<1>1. CASE UNCHANGED vars
  BY <1>1 DEF vars, FilesInv, TypeOK, SavesWellFormed, NamesDiffer, TermOwnsConf,
     MainWrites, ConfAsLong, OldKept, OldComplete, SavedWhole
<1>2. CASE Change \/ flushconfig \/ term_error \/ Crash \/ readconfig
  BY <1>2, ChangeFiles, flushconfigFiles, term_errorFiles, CrashFiles, readconfigFiles
<1>3. ASSUME NEW x \in Procs, Saving(x) PROVE FilesInv'
  BY <1>3, oldfileFiles, fopenFiles, fprintfFiles, fcloseFiles DEF Saving
<1>4. CASE usr2_error
  BY <1>4, usr2Files
<1> QED
  BY <1>1, <1>2, <1>3, <1>4 DEF DaemonNext, SaveSignal, ExitSignal, PassSignal, Dies,
     main, cmdfixlistener, p_acceptFailed, p_accept, Foreign

-----------------------------------------------------------------------------
(* The listeners *)

(* The listeners o are entries, no address has two of them and none is busy. *)
Bound(o, busy) ==
    /\ o \subseteq Entries
    /\ \A e, f \in o : Address[e] = Address[f] => e = f
    /\ \A e \in o : Address[e] \notin busy

(* What createlisteners() makes of the listeners there are: it takes none    *)
(* away, no address has two, none is another process's, and every address    *)
(* that nobody else has is listened on.                                      *)
LEMMA Listeners ==
    ASSUME NEW held, NEW busy, Bound(held, busy)
    PROVE  /\ Bound(createlisteners(held, busy).open, busy)
           /\ createlisteners(held, busy).failed \in Nat
           /\ held \subseteq createlisteners(held, busy).open
           /\ Addresses \subseteq
                busy \cup {Address[e] : e \in createlisteners(held, busy).open}
<1> DEFINE Later(e) == \/ Address[e] \in {Address[f] : f \in held}
                       \/ \E f \in Entries : f < e /\ Address[f] = Address[e]
           new == {e \in Entries : Address[e] \notin busy /\ ~Later(e)}
           made == createlisteners(held, busy)
<1> USE DEF Bound
<1>1. made.open = held \cup new /\ made.failed = Cardinality(Entries \ new)
  BY DEF createlisteners
<1>2. made.failed \in Nat
  <2>1. IsFiniteSet(Entries \ new)
    BY DaemonAssumption, FS_Subset
  <2> QED
    BY <1>1, <2>1, FS_CardinalityType
<1>3. ASSUME NEW e \in made.open, NEW f \in made.open, Address[e] = Address[f]
      PROVE  e = f
  <2>1. CASE e \in held /\ f \in held
    BY <1>3, <2>1
  <2>2. CASE e \in new /\ f \in new
    BY <1>3, <2>2, DaemonAssumption
  <2> QED
    BY <1>1, <1>3, <2>1, <2>2
<1>4. \A e \in made.open : Address[e] \notin busy
  BY <1>1
<1>5. ASSUME NEW e \in Entries, Address[e] \notin busy
      PROVE  \E f \in made.open : Address[f] = Address[e]
  <2> DEFINE same == {f \in Entries : Address[f] = Address[e]}
  <2>1. PICK f \in same : \A g \in same : f <= g
    <3>1. same \subseteq Nat /\ same # {}
      BY DaemonAssumption
    <3> QED
      BY <3>1, LeastNatural
  <2>2. ~ \E g \in Entries : g < f /\ Address[g] = Address[f]
    BY <2>1, DaemonAssumption
  <2>3. CASE Address[f] \in {Address[g] : g \in held}
    BY <1>1, <2>1, <2>3
  <2>4. CASE Address[f] \notin {Address[g] : g \in held}
    BY <1>1, <1>5, <2>1, <2>2, <2>4
  <2> QED
    BY <2>3, <2>4
<1>6. Addresses \subseteq busy \cup {Address[e] : e \in made.open}
  BY <1>5 DEF Addresses
<1> HIDE DEF made
<1>7. held \subseteq made.open /\ made.open \subseteq Entries
  BY <1>1
<1> QED
  BY <1>2, <1>3, <1>4, <1>6, <1>7 DEF made, Bound

(* Both sets of handlers are handlers. *)
LEMMA HandlersType ==
    /\ errorhandling \in [Signals -> [name : Handlers, reset : BOOLEAN]]
    /\ handler \in [Signals -> [name : Handlers, reset : BOOLEAN]] =>
         \A v, x \in BOOLEAN :
            StartHandlers(v, x) \in [Signals -> [name : Handlers, reset : BOOLEAN]]
<1>1. \A name \in Handlers, v \in BOOLEAN : Handler(name, v) \in [name : Handlers, reset : BOOLEAN]
  BY DEF Handler
<1>2. ASSUME NEW s \in Signals
      PROVE  errorhandling[s] \in [name : Handlers, reset : BOOLEAN]
  BY DaemonAssumption DEF errorhandling, Handlers, Handler
<1>3. ASSUME handler \in [Signals -> [name : Handlers, reset : BOOLEAN]],
             NEW v \in BOOLEAN, NEW x \in BOOLEAN, NEW s \in Signals
      PROVE  StartHandlers(v, x)[s] \in [name : Handlers, reset : BOOLEAN]
  BY <1>1, <1>3 DEF StartHandlers, Handlers
<1> QED
  BY <1>2, <1>3 DEF errorhandling, StartHandlers

(* FIXLISTENER and the start of the process. *)
LEMMA FixListeners ==
    ASSUME DaemonInv, cmdfixlistener, TypeOK'
    PROVE  DaemonTypeOK' /\ BoundOnce'
<1>1. Bound(open, taken) /\ failed \in Nat
  BY DEF DaemonInv, DaemonTypeOK, BoundOnce, Bound
<1>2. /\ open' = createlisteners(open, taken).open
      /\ failed' = failed + createlisteners(open, taken).failed
      /\ failed' <= MaxFailed /\ taken' = taken
      /\ \E v, x \in BOOLEAN : handler' = StartHandlers(v, x)
  BY DEF cmdfixlistener
<1>3. handler' \in [Signals -> [name : Handlers, reset : BOOLEAN]]
  BY <1>2, HandlersType DEF DaemonInv, DaemonTypeOK
<1>4. Bound(open', taken') /\ createlisteners(open, taken).failed \in Nat
  BY <1>1, <1>2, Listeners, Zenon
<1>5. DaemonTypeOK'
  BY <1>1, <1>2, <1>3, <1>4, DaemonAssumption DEF DaemonInv, DaemonTypeOK, Bound
<1> QED
  BY <1>4, <1>5 DEF BoundOnce, Bound

LEMMA mainListeners ==
    ASSUME DaemonInv, main, TypeOK'
    PROVE  DaemonTypeOK' /\ BoundOnce'
<1>1. /\ open' = createlisteners({}, taken).open
      /\ failed' = createlisteners({}, taken).failed
      /\ failed' <= MaxFailed /\ taken' = taken
      /\ handler' = errorhandling
  BY DEF main
<1>2. Bound(open', taken') /\ failed' \in Nat
  <2>1. Bound({}, taken)
    BY DEF Bound
  <2> QED
    BY <1>1, <2>1, Listeners, Zenon
<1>3. DaemonTypeOK'
  BY <1>1, <1>2, HandlersType, DaemonAssumption DEF DaemonInv, DaemonTypeOK, Bound
<1> QED
  BY <1>2, <1>3 DEF BoundOnce, Bound

LEMMA InitListeners ==
    ASSUME DaemonInit, TypeOK
    PROVE  DaemonTypeOK /\ BoundOnce
<1>1. /\ open = createlisteners({}, taken).open
      /\ failed = createlisteners({}, taken).failed
      /\ failed <= MaxFailed /\ taken \subseteq Addresses
      /\ handler = errorhandling
  BY DEF DaemonInit
<1>2. Bound(open, taken) /\ failed \in Nat
  <2>1. Bound({}, taken)
    BY DEF Bound
  <2> QED
    BY <1>1, <2>1, Listeners, Zenon
<1>3. DaemonTypeOK
  BY <1>1, <1>2, HandlersType, DaemonAssumption DEF DaemonTypeOK, Bound
<1> QED
  BY <1>2, <1>3 DEF BoundOnce, Bound

(* Every step of the daemon. *)
LEMMA NextListeners ==
    ASSUME DaemonInv, [DaemonNext]_<<vars, dvars>>, TypeOK'
    PROVE  DaemonTypeOK' /\ BoundOnce'
<1> USE DEF DaemonInv, DaemonTypeOK, BoundOnce
<1>1. CASE UNCHANGED dvars
  BY <1>1 DEF dvars
<1>2. CASE Released
  BY <1>2, DaemonAssumption DEF Released
<1>3. CASE cmdfixlistener \/ main
  BY <1>3, FixListeners, mainListeners
<1>4. CASE p_acceptFailed
  BY <1>4, DaemonAssumption DEF p_acceptFailed
<1>5. ASSUME NEW e \in Entries, p_accept(e) PROVE DaemonTypeOK' /\ BoundOnce'
  BY <1>5 DEF p_accept
<1>6. ASSUME NEW a \in Addresses, Foreign(a) PROVE DaemonTypeOK' /\ BoundOnce'
  BY <1>6 DEF Foreign
<1>7. ASSUME NEW s \in Signals, PassSignal(s) PROVE DaemonTypeOK' /\ BoundOnce'
  <2>1. handler' \in [Signals -> [name : Handlers, reset : BOOLEAN]]
    BY <1>7 DEF PassSignal, Handler, Handlers
  <2> QED
    BY <1>7, <2>1 DEF PassSignal
<1> HIDE DEF DaemonInv, DaemonTypeOK, BoundOnce
<1> QED
  BY <1>1, <1>2, <1>3, <1>4, <1>5, <1>6, <1>7
     DEF DaemonNext, SaveSignal, ExitSignal, usr2_error, Dies, dvars

-----------------------------------------------------------------------------
(* Theorems *)

(* The inductive invariant holds throughout. *)
THEOREM Invariance == DaemonSpec => []DaemonInv
<1>1. DaemonInit => DaemonInv
  BY InitFiles, InitListeners DEF DaemonInit, DaemonInv, FilesInv
<1>2. DaemonInv /\ [DaemonNext]_<<vars, dvars>> => DaemonInv'
  BY NextFiles, NextListeners DEF DaemonInv, FilesInv
<1> QED
  BY <1>1, <1>2, PTL DEF DaemonSpec

(* No address is listened on twice, by the bouncer or by it and another      *)
(* process, through any mix of FIXLISTENER, failed accept()s and restarts.   *)
THEOREM ListenersConsistent == DaemonSpec => []Consistent
<1>1. DaemonInv => Consistent
  BY DEF DaemonInv, Consistent
<1> QED
  BY <1>1, Invariance, PTL

(* flushconfig(): what was saved is in the file once no save is under way,   *)
(* and while at most one is, a complete copy survives a crash at any point:  *)
(* with SIGTERM saving inside a save, SIGUSR2 reading half a file, crashes   *)
(* and restarts.                                                             *)
THEOREM FilesAreSafe == DaemonSpec => []FilesSafe
<1>1. DaemonInv => SavedWhole
  BY DEF DaemonInv, FilesInv
<1>2. DaemonInv => CompleteCopy
  <2> SUFFICES ASSUME FilesInv, up, cache.n = Lines,
                      flush["main"] = Idle \/ flush["term"] = Idle
               PROVE  \E f \in {"conf", "old"} : dir[f] # 0 /\ data[dir[f]].n = Lines
    BY DEF DaemonInv, CompleteCopy
  <2>1. CASE flush["main"] = Idle
    BY <2>1 DEF FilesInv, ConfAsLong, OldKept, OldComplete, TypeOK, Procs, Idle
  <2>2. CASE flush["main"] # Idle /\ flush["term"] = Idle
    <3>1. flush["main"].pc \in {"rename", "open", "write"}
      BY <2>2 DEF FilesInv, SavesWellFormed, TypeOK, Procs
    <3>2. CASE flush["main"].pc = "write"
      BY <2>2, <3>2, ConfigFileAssumption
         DEF FilesInv, MainWrites, SavesWellFormed, OldComplete, Procs, Idle
    <3> QED
      BY <2>2, <3>1, <3>2 DEF FilesInv, ConfAsLong, OldKept, OldComplete, Idle
  <2> QED
    BY <2>1, <2>2
<1> QED
  BY <1>1, <1>2, Invariance, PTL DEF FilesSafe

(* FIXLISTENER gives back every listener that was lost and takes none away.  *)
THEOREM ListenersRestored == DaemonSpec => FixRestores
<1> DEFINE Restores == cmdfixlistener =>
                         /\ open \subseteq open'
                         /\ Addresses \subseteq taken \cup {Address[e] : e \in open'}
<1>1. DaemonInv => Restores
  <2>1. DaemonInv => Bound(open, taken)
    BY DEF DaemonInv, DaemonTypeOK, BoundOnce, Bound
  <2> QED
    BY <2>1, Listeners DEF cmdfixlistener
<1> QED
  BY <1>1, Invariance, PTL DEF FixRestores
=============================================================================
