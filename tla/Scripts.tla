-------------------------------- MODULE Scripts --------------------------------
(* The scripting of psyBNC (p_script.c): a script entry of a user starts a     *)
(* child process, the task, with three sockets on its streams. A global list   *)
(* of tasks and a counter of forks are kept beside the process number in the   *)
(* script entry and in the pending DCC the task was started for.               *)
(*                                                                             *)
(* Dialogues run from login to logout; aliases, server events and CTCP events  *)
(* start a task each time; a DCC request starts one and remembers it. Process  *)
(* numbers are reused once their task has left the list.                       *)
EXTENDS Integers, Sequences, FiniteSets, FiniteSetsExt, SequencesExt

CONSTANTS
    Users,      \* user records: main users and networks
    Parent,     \* Parent[u]: the main user of a network, of a main user itself
    Files,      \* contents a script file may have: sequences of functions
    MAXFORKS,   \* p_script.c:32
    Pids        \* process numbers of the kernel

ASSUME ScriptsAssumption ==
    /\ Pids \subseteq Nat \ {0} /\ Cardinality(Pids) > MAXFORKS + 1
    /\ MAXFORKS \in Nat
    /\ Parent \in [Users -> Users]
    /\ \A u \in Users : Parent[Parent[u]] = Parent[u]

VARIABLES
    sys,        \* [tasks, forks, socks, script]: what p_script.c keeps
    clients,    \* clients attached to a main user
    chat        \* the pid a pending DCC of the user remembers, NoChat if none

vars == <<sys, clients, chat>>

Functions == {"dialogue", "server", "alias", "dccchat", "dccsend", "ctcp"}
Streams == {"in", "out", "err"}
NoChat == -2
MaxClients == 2         \* bound: clients of one user

(* struct scriptt as loaded at its "age": a struct that was freed has another  *)
(* age than the script of its user.                                            *)
Entry == [fn : Functions, pid : Pids \cup {0, -1}]
Task == [uid : Users, pid : Pids, idx : Nat, age : {0, 1}]

Pid(t) == t.pid
InGroup(r) == {u \in Users : Parent[u] = r}
Mains == {u \in Users : Parent[u] = u}

(* getsubtaskbypid(): the position in the list, 0 if there is none.            *)
getsubtaskbypid(s, pid) == SelectInSeq(s.tasks, LAMBDA t : t.pid = pid)

(* Mutant: the error stream stays open. *)
terminatetask_KeepsErr(s, pid) ==
    LET i == getsubtaskbypid(s, pid)
        t == s.tasks[i]
        d == [s EXCEPT !.forks = Max({0, @ - 1})]
    IN  CASE pid <= 0 -> s
          [] pid > 0 /\ i = 0 -> d
          [] OTHER -> [d EXCEPT !.tasks = RemoveAt(@, i),
                                !.socks = @ \ {<<pid, "in">>, <<pid, "out">>},
                                !.script[t.uid].list[t.idx].pid = 0]

(* Mutant: the process number stays in the entry. *)
terminatetask_KeepsPid(s, pid) ==
    LET i == getsubtaskbypid(s, pid)
        d == [s EXCEPT !.forks = Max({0, @ - 1})]
    IN  CASE pid <= 0 -> s
          [] pid > 0 /\ i = 0 -> d
          [] OTHER -> [d EXCEPT !.tasks = RemoveAt(@, i), !.socks = @ \ ({pid} \X Streams)]

(* terminatetask(): the counter goes down before the task is looked up; the    *)
(* task leaves the list with its sockets, its script entry is set to 0, and    *)
(* the program waits for the process.                                          *)
terminatetask(s, pid) ==
    LET i == getsubtaskbypid(s, pid)
        t == s.tasks[i]
        d == [s EXCEPT !.forks = Max({0, @ - 1})]
        Here == s.script[t.uid].age = t.age /\ t.idx \in DOMAIN s.script[t.uid].list
        Ended == [d EXCEPT !.tasks = RemoveAt(@, i), !.socks = @ \ ({pid} \X Streams)]
    IN  CASE pid <= 0 -> s
          [] pid > 0 /\ i = 0 -> d
          [] pid > 0 /\ i # 0 /\ ~Here -> Ended
          [] OTHER -> [Ended EXCEPT !.script[t.uid].list[t.idx].pid = 0]

(* startpipe(): refused above the limit, or failed by socketpair() or fork(),  *)
(* it returns -1; else the process, its sockets and its task exist. The caller *)
(* stores the result in the entry, over a pid that may be there.               *)
startpipe(s, u, idx, works) ==
    LET pid == Min(Pids \ {Pid(t) : t \in ToSet(s.tasks)}) IN
    IF s.forks > MAXFORKS \/ ~works
    THEN [s EXCEPT !.script[u].list[idx].pid = -1]
    ELSE [s EXCEPT !.forks = @ + 1,
                   !.socks = @ \cup ({pid} \X Streams),
                   !.tasks = Append(@, [uid |-> u, pid |-> pid, idx |-> idx,
                                        age |-> s.script[u].age]),
                   !.script[u].list[idx].pid = pid]

(* The entries of u's script that have a function, in order.                   *)
Of(s, u, fn) == {i \in DOMAIN s.script[u].list : s.script[u].list[i].fn = fn}
InOrder(S) == SetToSortSeq(S, <)

startdialogues(s, u, works) ==
    FoldLeft(LAMBDA r, i : startpipe(r, u, i, works), s, InOrder(Of(s, u, "dialogue")))

stopdialogues(s, u) ==
    FoldLeft(LAMBDA r, i : terminatetask(r, r.script[u].list[i].pid), s,
             InOrder(Of(s, u, "dialogue")))

(* clearuserscript(): the tasks bound to an entry end before it is freed.      *)
clearuserscript(s, u) ==
    LET bound == SelectSeq(s.tasks, LAMBDA t : t.uid = u)
        ended == FoldLeft(LAMBDA r, t : terminatetask(r, t.pid), s, bound)
    IN  [ended EXCEPT !.script[u].list = <<>>]

(* processscriptline() for each line of the file that names a function.        *)
Loaded(file) == [i \in DOMAIN file |-> [fn |-> file[i], pid |-> 0]]

(* loadscript(): the script of the user is cleared and read from its file, or  *)
(* from DEFAULT.SCRIPT; it stays empty if there is neither.                    *)
loadscript(s, u, file) ==
    LET c == IF s.script[u].list # <<>> THEN clearuserscript(s, u) ELSE s IN
    [c EXCEPT !.script[u] = [list |-> Loaded(file), age |-> 1 - @.age]]

--------------------------------------------------------------------------------
(* linkpeer() starts the dialogues of a main user and of its networks, at      *)
(* every login.                                                                *)
linkpeer(r) ==
    /\ clients[r] < MaxClients
    /\ clients' = [clients EXCEPT ![r] = @ + 1]
    /\ \E works \in BOOLEAN :
         sys' = FoldSet(LAMBDA u, s : startdialogues(s, u, works), sys, InGroup(r))
    /\ UNCHANGED chat

(* A client goes; quitclient() is for the last one. It stops the dialogues of  *)
(* the main user, once for each of its records.                                *)
quitclient(r) ==
    /\ clients[r] > 0
    /\ clients' = [clients EXCEPT ![r] = @ - 1]
    /\ sys' = IF clients[r] > 1 THEN sys
              ELSE FoldSet(LAMBDA u, s : stopdialogues(s, r), sys, InGroup(r))
    /\ UNCHANGED chat

(* executealias(), and ctcpscript(): the first entry that matches.             *)
First(u, fn) ==
    /\ Of(sys, u, fn) # {}
    /\ \E works \in BOOLEAN : sys' = startpipe(sys, u, Min(Of(sys, u, fn)), works)
    /\ UNCHANGED <<clients, chat>>

executealias(u) == First(u, "alias")
ctcpscript(u) == First(u, "ctcp")

(* serverevent(): every entry whose masks match the message.                   *)
serverevent(u) ==
    /\ Of(sys, u, "server") # {}
    /\ \E works \in BOOLEAN, S \in SUBSET Of(sys, u, "server") :
         sys' = FoldLeft(LAMBDA s, i : startpipe(s, u, i, works), sys, InOrder(S))
    /\ UNCHANGED <<clients, chat>>

(* addpendingdcc() with dccchatscript() or dccfilescript(): the request        *)
(* remembers the task of the first entry that matches, 0 if none does.         *)
GotRequest(u, fn) ==
    /\ chat[u] = NoChat
    /\ \/ /\ chat' = [chat EXCEPT ![u] = 0]
          /\ UNCHANGED sys
       \/ \E i \in Of(sys, u, fn), works \in BOOLEAN :
            /\ sys' = startpipe(sys, u, i, works)
            /\ chat' = [chat EXCEPT ![u] = sys'.script[u].list[i].pid]
    /\ UNCHANGED clients

(* removepdcc(): the task of the request ends if it is still in the list.      *)
removepdcc(u) ==
    /\ chat[u] # NoChat
    /\ chat' = [chat EXCEPT ![u] = NoChat]
    /\ sys' = IF chat[u] # 0 /\ getsubtaskbypid(sys, chat[u]) # 0
              THEN terminatetask(sys, chat[u]) ELSE sys
    /\ UNCHANGED clients

(* A task closes a stream, or ends: the handler of that socket is called with  *)
(* the process number.                                                         *)
StreamClosed(k) ==
    /\ k \in sys.socks
    /\ sys' = terminatetask(sys, k[1])
    /\ UNCHANGED <<clients, chat>>

(* RELOADSCRIPT, from a client or from the output of a task, for the main user *)
(* and its networks.                                                           *)
cmdreloadscript(r) ==
    /\ \E file \in Files, works \in BOOLEAN :
         sys' = FoldSet(LAMBDA u, s :
                   startdialogues(loadscript(clearuserscript(stopdialogues(s, u), u),
                                             u, file), u, works),
                   sys, InGroup(r))
    /\ UNCHANGED <<clients, chat>>

(* clearuser(): the record is given up or loaded anew.                         *)
clearuser(u) ==
    /\ sys.script[u].list # <<>>
    /\ sys' = clearuserscript(sys, u)
    /\ UNCHANGED <<clients, chat>>

Init ==
    /\ clients = [r \in Mains |-> 0]
    /\ chat = [u \in Users |-> NoChat]
    /\ \E file \in Files :
         sys = [tasks |-> <<>>, forks |-> 0, socks |-> {},
                script |-> [u \in Users |-> [list |-> Loaded(file), age |-> 0]]]

Next ==
    \/ \E r \in Mains : linkpeer(r) \/ quitclient(r) \/ cmdreloadscript(r)
    \/ \E u \in Users :
         \/ executealias(u) \/ ctcpscript(u) \/ serverevent(u)
         \/ GotRequest(u, "dccchat") \/ GotRequest(u, "dccsend")
         \/ removepdcc(u) \/ clearuser(u)
    \/ \E k \in Pids \X Streams : StreamClosed(k)

Spec == Init /\ [][Next]_vars

--------------------------------------------------------------------------------
(* The tables of p_script.c hold users, tasks, streams and script entries.     *)
TypeOK ==
    /\ sys.tasks \in Seq(Task)
    /\ sys.forks \in 0 .. MAXFORKS + 1
    /\ sys.socks \subseteq Pids \X Streams
    /\ \A u \in Users : /\ sys.script[u].list \in Seq(Entry)
                        /\ sys.script[u].age \in {0, 1}
    /\ clients \in [Mains -> 0 .. MaxClients]
    /\ chat \in [Users -> Pids \cup {NoChat, 0, -1}]

(* The counter of forks is the number of tasks, although terminatetask()       *)
(* lowers it before it knows the task: nobody ends a task that has ended.      *)
ForksExact == sys.forks = Len(sys.tasks)

(* Every task has its three sockets and every script socket has a task, so     *)
(* the end of a stream never ends a later task of the same number.             *)
SocketsOfTasks == sys.socks = {Pid(t) : t \in ToSet(sys.tasks)} \X Streams

(* The script entry a task points to has not been freed, whatever reloads and  *)
(* deletions happen while it runs.                                             *)
TaskEntryExists ==
    \A t \in ToSet(sys.tasks) :
      /\ sys.script[t.uid].age = t.age
      /\ t.idx \in DOMAIN sys.script[t.uid].list

(* A process number in a script entry is that of a running task of the entry:  *)
(* stopdialogues() never ends somebody else's task.                            *)
EntryNamesOwnTask ==
    \A u \in Users : \A i \in DOMAIN sys.script[u].list :
      LET pid == sys.script[u].list[i].pid IN
      pid > 0 => \E t \in ToSet(sys.tasks) : t.pid = pid /\ t.uid = u /\ t.idx = i

(* The tables: forks, tasks and script sockets agree when the three streams of *)
(* a task end in any order and process numbers are used again.                 *)
Consistent == TypeOK /\ ForksExact /\ SocketsOfTasks

(* Script entries and tasks point at each other, through reloads, log-offs and *)
(* deleted networks.                                                           *)
EntriesOwnTasks == TaskEntryExists /\ EntryNamesOwnTask
=============================================================================
