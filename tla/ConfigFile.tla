----------------------------- MODULE ConfigFile -----------------------------
(***************************************************************************)
(* Saving the configuration: flushconfig() renames the file to .old, opens  *)
(* a new one and writes the cache line by line.  SIGTERM makes the handler  *)
(* term_error() call flushconfig() too, in the middle of whatever the main   *)
(* program is doing; the process may die at any point and be started again. *)
(*                                                                         *)
(* The contents of the cache are [ver, n]: a version number, and how many    *)
(* of the Lines lines of that version are there.                            *)
(***************************************************************************)
EXTENDS Integers, FiniteSets

CONSTANTS
    Lines,       \* lines of a complete configuration
    MaxVersion,  \* bound: changes of the cache
    Inodes       \* bound: files that are named or open at a time, at least 4

ASSUME ConfigFileAssumption ==
    /\ Lines \in Nat \ {0}
    /\ MaxVersion \in Nat
    /\ IsFiniteSet(Inodes) /\ Cardinality(Inodes) >= 4
    /\ 0 \notin Inodes

VARIABLES
    up,       \* the process is running
    cache,    \* the contents of the list conf
    dir,      \* the files "conf" and "old": their inodes, 0 if there is none
    data,     \* contents of the inodes
    flush,    \* flushconfig() of the main program and of the signal handler
    saved     \* history: what the last completed flushconfig() was to save

vars == <<up, cache, dir, data, flush, saved>>

-----------------------------------------------------------------------------
Procs == {"main", "term"}
Contents == [ver : 0 .. MaxVersion, n : 0 .. Lines]
Idle == [pc |-> "idle", ino |-> 0]

(* Type invariant. *)
TypeOK ==
    /\ up \in BOOLEAN
    /\ cache \in Contents
    /\ dir \in [{"conf", "old"} -> Inodes \cup {0}]
    /\ data \in [Inodes -> Contents]
    /\ flush \in [Procs -> [pc : {"idle", "rename", "open", "write"}, ino : Inodes \cup {0}]]
    /\ saved \in Contents

-----------------------------------------------------------------------------
(* The handler runs to its end before the main program goes on. *)
Runs(x) == up /\ (x = "main" => flush["term"] = Idle)

InUse == {dir["conf"], dir["old"], flush["main"].ino, flush["term"].ino}
NewInode == CHOOSE i \in Inodes : i \notin InUse

(* The main program changes an entry of the cache: writeini. *)
Change ==
    /\ Runs("main") /\ flush["main"] = Idle
    /\ cache.ver < MaxVersion
    /\ cache' = [cache EXCEPT !.ver = @ + 1]
    /\ UNCHANGED <<up, dir, data, flush, saved>>

(* flushconfig is called by a command. *)
flushconfig ==
    /\ Runs("main") /\ flush["main"] = Idle
    /\ flush' = [flush EXCEPT !["main"] = [pc |-> "rename", ino |-> 0]]
    /\ UNCHANGED <<up, cache, dir, data, saved>>

(* SIGTERM; nosignals keeps a second one out. *)
term_error ==
    /\ up /\ flush["term"] = Idle
    /\ flush' = [flush EXCEPT !["term"] = [pc |-> "rename", ino |-> 0]]
    /\ UNCHANGED <<up, cache, dir, data, saved>>

(* Mutant: the file is kept under its name and truncated. *)
oldfile_Keeps(x) ==
    /\ Runs(x) /\ flush[x].pc = "rename"
    /\ flush' = [flush EXCEPT ![x].pc = "open"]
    /\ UNCHANGED <<up, cache, dir, data, saved>>

(* oldfile: rename() fails without effect if there is no such file. *)
oldfile(x) ==
    /\ Runs(x) /\ flush[x].pc = "rename"
    /\ dir' = IF dir["conf"] = 0 THEN dir
              ELSE [dir EXCEPT !["old"] = dir["conf"], !["conf"] = 0]
    /\ flush' = [flush EXCEPT ![x].pc = "open"]
    /\ UNCHANGED <<up, cache, data, saved>>

(* fopen(configfile, "w"): an existing file is truncated. *)
fopen(x) ==
    LET i == IF dir["conf"] # 0 THEN dir["conf"] ELSE NewInode
    IN  /\ Runs(x) /\ flush[x].pc = "open"
        /\ dir' = [dir EXCEPT !["conf"] = i]
        /\ data' = [data EXCEPT ![i] = [ver |-> cache.ver, n |-> 0]]
        /\ flush' = [flush EXCEPT ![x] = [pc |-> "write", ino |-> i]]
        /\ UNCHANGED <<up, cache, saved>>

(* One line reaches the disk. *)
fprintf(x) ==
    /\ Runs(x) /\ flush[x].pc = "write"
    /\ data[flush[x].ino].n < cache.n
    /\ data' = [data EXCEPT ![flush[x].ino].n = @ + 1]
    /\ UNCHANGED <<up, cache, dir, flush, saved>>

fclose(x) ==
    /\ Runs(x) /\ flush[x].pc = "write"
    /\ data[flush[x].ino].n = cache.n
    /\ flush' = [flush EXCEPT ![x] = Idle]
    /\ saved' = cache
    /\ UNCHANGED <<up, cache, dir, data>>

(* The process dies. *)
Crash ==
    /\ up
    /\ up' = FALSE
    /\ flush' = [x \in Procs |-> Idle]
    /\ UNCHANGED <<cache, dir, data, saved>>

(* main(): without a configuration file, or with one that lacks the port,    *)
(* the program does not start; otherwise readconfig() loads what is there.   *)
readconfig ==
    /\ ~up
    /\ dir["conf"] # 0
    /\ data[dir["conf"]].n > 0
    /\ up' = TRUE
    /\ cache' = data[dir["conf"]]
    /\ saved' = data[dir["conf"]]
    /\ UNCHANGED <<dir, data, flush>>

Init ==
    /\ up = TRUE
    /\ cache = [ver |-> 0, n |-> Lines]
    /\ dir = [f \in {"conf", "old"} |-> IF f = "conf" THEN CHOOSE i \in Inodes : TRUE ELSE 0]
    /\ data = [i \in Inodes |-> [ver |-> 0, n |-> Lines]]
    /\ flush = [x \in Procs |-> Idle]
    /\ saved = cache

Next ==
    \/ Change \/ flushconfig \/ term_error \/ Crash \/ readconfig
    \/ \E x \in Procs : oldfile(x) \/ fopen(x) \/ fprintf(x) \/ fclose(x)

Spec == Init /\ [][Next]_vars

-----------------------------------------------------------------------------
(* Properties *)

(* Once no flushconfig() is under way, the configuration file is exactly the *)
(* cache as it was saved last, even if a SIGTERM saved in the middle of a     *)
(* command's flushconfig() and renamed the file that was being written.       *)
SavedWhole ==
    (up /\ flush["main"] = Idle /\ flush["term"] = Idle) =>
       dir["conf"] # 0 /\ data[dir["conf"]] = saved

(* A crash never costs the whole configuration: while at most one of the main *)
(* program and the signal handler is saving, the file or its .old copy is     *)
(* complete, unless the process itself was started from an incomplete file.   *)
CompleteCopy ==
    (up /\ cache.n = Lines /\ (flush["main"] = Idle \/ flush["term"] = Idle)) =>
       \E f \in {"conf", "old"} : dir[f] # 0 /\ data[dir[f]].n = Lines

(* The files: what was saved is there once the saving is over, and one        *)
(* complete copy survives a crash at any point of it.                        *)
FilesSafe == SavedWhole /\ CompleteCopy
=============================================================================
