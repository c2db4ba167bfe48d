---------------------------------- MODULE Dcc ----------------------------------
(* The DCC sessions of one user: the bot connections of ADDDCC, which psyBNC   *)
(* keeps open by itself (p_dcc.c 50-514), and the pending DCCs, the chats and  *)
(* file transfers offered to or by other users (p_dcc.c 520-1745), over the    *)
(* sockets they are made of (createsocket(), connectto(), the listeners and    *)
(* killsocket() of p_socket.c).                                                *)
(*                                                                             *)
(* Files are counted in half blocks: fread() of a block returns BLOCK units.   *)
(* The network, the peers and the descriptor numbers are nondeterministic;     *)
(* names are resolved inside connectto() (getaddrinfo() blocks), so an attempt *)
(* either fails before connectto() returns or goes on in the socket driver.    *)
EXTENDS Integers, Sequences, SequencesExt, FiniteSets, FiniteSetsExt

CONSTANTS
    Fds,        \* the descriptors a DCC may get, positive numbers
    Bots,       \* names of bot connections
    Nicks,      \* the peers of chats and transfers; each offers a file, all
                \* under the same name
    DELAY,      \* ticks a request is kept (50 in addpendingdcc())
    LOADED,     \* bot connections loaddccs() reads back (20)
    Size,       \* the length of the file sent to or by a nick, in units
    MaxDccs     \* bound: bot connections and pending DCCs at a time

ASSUME FdsPositive == Fds \subseteq Nat \ {0}
ASSUME DelayPositive == DELAY \in Nat \ {0}
ASSUME LoadedPositive == LOADED \in Nat \ {0}
ASSUME SizeNatural == Size \in [Nicks -> Nat]
ASSUME BoundNatural == MaxDccs \in Nat

VARIABLES
    sock,       \* the open sockets: descriptor -> [kind, flag]
    dccs,       \* user->dcc, the chain of bot connections
    lastdh,     \* the static of checkdccs(): the place in the chain of the
                \* connection tried last, or None, or Freed
    saved,      \* the names in the entries of USERn.DCC in the configuration
    pdcc,       \* user->pdcc, the chain of pending DCCs
    remote,     \* what is under way to and from the peer of a transfer
    files,      \* the open or named files: set of <<file, offset, nick>>
    disk,       \* the file the common name in downloads/ stands for, 0 none
    missing     \* what the transfers reported as complete lacked, at most

vars == <<sock, dccs, lastdh, saved, pdcc, remote, files, disk, missing>>
linkVars == <<dccs, lastdh, saved>>
pendingVars == <<pdcc, remote, files, disk, missing>>

None == 0
Freed == -1     \* a connection that was erased since
BLOCK == 2      \* units of fread(stdcc,1,2048,...)

(* The types of struct dcct: requests wait for an answer, the others are open. *)
Requests == {"CHATTORQ", "CHATFROMRQ", "SENDTORQ", "RECVFROMRQ"}
Types == Requests \cup {"CHATTO", "CHATFROM", "SENDTO", "RECVFROM"}

(* The handlers a socket was created with: those of a bot connection, of a     *)
(* chat (listening or not), of an outgoing and of an incoming file.            *)
Kinds == {"link", "chatlisten", "chat", "sendlisten", "send", "recv"}

(* The kind of socket a pending DCC holds; 0 while the other side's request    *)
(* has not been answered.                                                      *)
Holds == [CHATTORQ |-> {"chatlisten"}, CHATTO |-> {"chat"},
          CHATFROMRQ |-> {}, CHATFROM |-> {"chat"},
          SENDTORQ |-> {"sendlisten"}, SENDTO |-> {"send"},
          RECVFROMRQ |-> {}, RECVFROM |-> {"recv"}]

Room == Len(dccs) + Len(pdcc) < MaxDccs
Free == Fds \ DOMAIN sock
Is(fd, kind, flag) == /\ fd \in DOMAIN sock
                      /\ sock[fd].kind = kind
                      /\ sock[fd].flag = flag

(* createsocket(): "who" is the bot or the nick the socket was opened for.     *)
Open(kind, flag, who) == [kind |-> kind, flag |-> flag, who |-> who]
With(f, x, v) == [y \in DOMAIN f \cup {x} |-> IF y = x THEN v ELSE f[y]]
Connected(fd) == [sock EXCEPT ![fd].flag = "conn"]

(* What killsocket() leaves of the table, and of what was under way.           *)
Closed(fds) == [fd \in DOMAIN sock \ fds |-> sock[fd]]
Quiet(fd) == [other \in DOMAIN remote \ {fd} |-> remote[other]]

(* ------------------------- bot connections --------------------------------- *)
(* The entry of the chain whose outsock is the current socket: the first one.  *)
LinkOf(fd) == SelectInSeq(dccs, LAMBDA d : d.outsock = fd)

(* adddcc(): a new entry at the end of the chain, not connected and delayed,   *)
(* and its line in the first free entry of the configuration. Names need not   *)
(* differ; the new entry may get the memory of the one that was tried last.    *)
NewLink(b) == [name |-> b, outstate |-> "off", outsock |-> 0, delayed |-> 1]

cmdadddcc(b) ==
    /\ Room
    /\ dccs' = Append(dccs, NewLink(b))
    /\ saved' = Append(saved, b)
    /\ lastdh' \in IF lastdh = Freed THEN {Freed, Len(dccs) + 1} ELSE {lastdh}
    /\ UNCHANGED <<sock, pendingVars>>

(* erasedcc(): the numbered connection leaves the chain, its socket is killed  *)
(* if it was connected (an attempt under way goes on), and the entries behind  *)
(* it move up in the configuration.                                            *)
cmddeldcc(n) ==
    /\ n \in DOMAIN dccs
    /\ dccs' = RemoveAt(dccs, n)
    /\ saved' = IF n \in DOMAIN saved THEN RemoveAt(saved, n) ELSE saved
    /\ sock' = IF dccs[n].outstate = "conn" THEN Closed({dccs[n].outsock}) ELSE sock
    /\ lastdh' = IF lastdh = n THEN Freed ELSE IF lastdh > n THEN lastdh - 1 ELSE lastdh
    /\ UNCHANGED pendingVars

(* checkdccs() walks the chain: a connection that is off counts its delay down *)
(* or, when it is due, is tried; the walk ends with the first attempt, and the *)
(* next walk leaves the connection that was tried out.                         *)
Waiting(i) == /\ i # lastdh
              /\ dccs[i].outstate = "off"
              /\ dccs[i].delayed > 0
Due == {i \in DOMAIN dccs : /\ i # lastdh
                            /\ dccs[i].outstate = "off"
                            /\ dccs[i].delayed = 0}

Counted(last) == [i \in DOMAIN dccs |->
                    IF i <= last /\ Waiting(i)
                      THEN [dccs[i] EXCEPT !.delayed = @ - 1]
                      ELSE dccs[i]]

(* checkdcclink(): whatever connectto() met, the connection is left as         *)
(* connecting: with a socket, with one already killed by a failed lookup, bind *)
(* or connect, or, when no socket could be created, with none (then the walk   *)
(* goes on to the next one).                                                   *)
Tried(d, fd) == [d EXCEPT !.outstate = "new", !.outsock = fd,
                          !.delayed = IF fd = 0 THEN 1 ELSE @]

checkdccs(expired) ==
    \/ /\ Due = {}
       /\ dccs' = Counted(Len(dccs))
       /\ lastdh' = None
       /\ sock' = Closed(expired)
    \/ /\ Due # {} /\ Free = {}
       /\ dccs' = [i \in DOMAIN dccs |-> IF i \in Due THEN Tried(dccs[i], 0)
                                                    ELSE Counted(Len(dccs))[i]]
       /\ lastdh' = None
       /\ sock' = Closed(expired)
    \/ /\ Due # {}
       /\ \E fd \in Free, fails \in BOOLEAN :
            LET i == Min(Due) IN
            /\ dccs' = [Counted(i) EXCEPT ![i] = Tried(@, fd)]
            /\ lastdh' = i
            /\ sock' = IF fails THEN Closed(expired)
                       ELSE With(Closed(expired), fd, Open("link", "syn", dccs[i].name))

(* connecteddcc(): the login is written, and the connection is up.             *)
connecteddcc(fd) ==
    /\ Is(fd, "link", "syn")
    /\ sock' = Connected(fd)
    /\ dccs' = IF LinkOf(fd) = 0 THEN dccs
               ELSE [dccs EXCEPT ![LinkOf(fd)].outstate = "conn",
                                 ![LinkOf(fd)].delayed = 1]
    /\ UNCHANGED <<lastdh, saved, pendingVars>>

(* errordcc() and killeddcc(): the attempt failed, or the connection ended.    *)
LinkDown(fd) == IF LinkOf(fd) = 0 THEN dccs
                ELSE [dccs EXCEPT ![LinkOf(fd)].outstate = "off",
                                  ![LinkOf(fd)].delayed = 1]

killeddcc(fd) ==
    /\ fd \in DOMAIN sock /\ sock[fd].kind = "link"
    /\ sock' = Closed({fd})
    /\ dccs' = LinkDown(fd)
    /\ UNCHANGED <<lastdh, saved, pendingVars>>

(* ------------------------- pending DCCs ------------------------------------ *)
(* getpsocketpdcc(): the pending DCC of a socket.                              *)
PdccOf(fd) == SelectInSeq(pdcc, LAMBDA p : p.sock = fd)

NewPdcc(type, n, fd, size) ==
    [type |-> type, nick |-> n, sock |-> fd, delay |-> DELAY, filesize |-> size,
     transferred |-> 0, eof |-> FALSE, fhandle |-> 0]

(* The files that are still open or still have the name.                       *)
Kept(chain, named) ==
    {w \in files : w[1] = named \/ \E i \in DOMAIN chain : chain[i].fhandle = w[1]}

(* removepdcc(): the entry of the socket leaves the chain, the socket is closed. *)
Removed(fd) == IF PdccOf(fd) = 0 THEN pdcc ELSE RemoveAt(pdcc, PdccOf(fd))
Gone(fd) ==
    /\ pdcc' = Removed(fd)
    /\ sock' = Closed({fd})
    /\ remote' = Quiet(fd)
    /\ files' = Kept(Removed(fd), disk')

(* DCCCHAT and DCCSEND: a listener (for a file only if it can be opened), and  *)
(* the request; without a descriptor nothing happens.                          *)
Offer(type, kind, n, size) ==
    /\ Room
    /\ \E fd \in Free :
         /\ sock' = With(sock, fd, Open(kind, "syn", n))
         /\ pdcc' = Append(pdcc, NewPdcc(type, n, fd, size))
    /\ UNCHANGED <<linkVars, remote, files, disk, missing>>

cmddccchat(n) == Offer("CHATTORQ", "chatlisten", n, 0)
cmddccsend(n) == Offer("SENDTORQ", "sendlisten", n, Size[n])

(* Mutant: the entry stays with the listener. *)
acceptpdccchat_Listener(fd) ==
    /\ Is(fd, "chatlisten", "syn")
    /\ PdccOf(fd) # 0
    /\ \E new \in Free :
         /\ sock' = With(Closed({fd}), new, Open("chat", "conn", sock[fd].who))
         /\ pdcc' = [pdcc EXCEPT ![PdccOf(fd)].delay = 0, ![PdccOf(fd)].type = "CHATTO"]
    /\ UNCHANGED <<linkVars, remote, files, disk, missing>>

(* acceptpdccchat(): the chat moves to the accepted socket, the listener is    *)
(* killed after the entry has left it.                                         *)
acceptpdccchat(fd) ==
    /\ Is(fd, "chatlisten", "syn")
    /\ PdccOf(fd) # 0
    /\ \E new \in Free :
         /\ sock' = With(Closed({fd}), new, Open("chat", "conn", sock[fd].who))
         /\ pdcc' = [pdcc EXCEPT ![PdccOf(fd)].sock = new, ![PdccOf(fd)].delay = 0,
                                 ![PdccOf(fd)].type = "CHATTO"]
    /\ UNCHANGED <<linkVars, remote, files, disk, missing>>

(* "File ... completed" or "received" is said of a file of the given size.     *)
Report(size, arrived) == missing' = Max({missing, size - arrived})

(* One fread() of the transfer: the end of the file is seen by a short read.   *)
Read(p) == LET rc == Min({BLOCK, p.filesize - p.transferred}) IN
           [p EXCEPT !.transferred = @ + rc, !.eof = rc < BLOCK]

(* acceptpdccfile(): the first block is written; a file that cannot be opened  *)
(* any more closes the accepted socket only.                                   *)
acceptpdccfile(fd) ==
    /\ Is(fd, "sendlisten", "syn")
    /\ PdccOf(fd) # 0
    /\ \/ UNCHANGED <<sock, pdcc, remote>>
       \/ \E new \in Free :
            LET p == Read(pdcc[PdccOf(fd)]) IN
            /\ sock' = With(Closed({fd}), new, Open("send", "conn", sock[fd].who))
            /\ pdcc' = [pdcc EXCEPT ![PdccOf(fd)] =
                          [p EXCEPT !.sock = new, !.delay = 0, !.type = "SENDTO"]]
            /\ remote' = With(remote, new,
                              [wire |-> p.transferred, has |-> 0, acks |-> <<>>])
    /\ UNCHANGED <<linkVars, files, disk, missing>>

(* The peer of an outgoing file takes some of what is on the wire and          *)
(* acknowledges the total it has (not part of psyBNC).                         *)
PeerTakes(fd, k) ==
    /\ Is(fd, "send", "conn")
    /\ k \in 1 .. remote[fd].wire
    /\ remote' = [remote EXCEPT ![fd] =
                    [wire |-> @.wire - k, has |-> @.has + k,
                     acks |-> Append(@.acks, @.has + k)]]
    /\ UNCHANGED <<sock, linkVars, pdcc, files, disk, missing>>

(* An acknowledgement counts if it is of everything written so far.            *)
Covers(ack, p) == p.transferred = ack

(* pdccfilesendack(): a read returns the acknowledgements that have arrived,   *)
(* the handler looks at the first. If it covers all that was written, the      *)
(* transfer is over at the end of the file, else the next block follows.       *)
pdccfilesendack(fd, n) ==
    /\ Is(fd, "send", "conn")
    /\ n \in 1 .. Len(remote[fd].acks)
    /\ UNCHANGED disk
    /\ LET p == pdcc[PdccOf(fd)]
           ack == Head(remote[fd].acks)
           rest == SubSeq(remote[fd].acks, n + 1, Len(remote[fd].acks))
       IN
          \/ /\ ~Covers(ack, p)
             /\ remote' = [remote EXCEPT ![fd].acks = rest]
             /\ UNCHANGED <<sock, pdcc, files, missing>>
          \/ /\ Covers(ack, p) /\ p.eof
             /\ Report(p.filesize, remote[fd].has)
             /\ Gone(fd)
          \/ /\ Covers(ack, p) /\ ~p.eof
             /\ pdcc' = [pdcc EXCEPT ![PdccOf(fd)] = Read(p)]
             /\ remote' = [remote EXCEPT
                             ![fd].acks = rest,
                             ![fd].wire = @ + Read(p).transferred - p.transferred]
             /\ UNCHANGED <<sock, files, missing>>
    /\ UNCHANGED linkVars

(* The first request of the nick in a chain gets a connecting socket. If       *)
(* connectto() fails it has killed the socket, and with it the entry; without  *)
(* a descriptor the request stays.                                             *)
Answer(chain, rq, type, kind, n) ==
    LET i == SelectInSeq(chain, LAMBDA p : p.type = rq /\ p.nick = n) IN
    \/ /\ Free = {}
       /\ pdcc' = chain
       /\ UNCHANGED <<sock, remote>>
    \/ /\ Free # {} /\ i # 0
       /\ pdcc' = RemoveAt(chain, i)
       /\ UNCHANGED <<sock, remote>>
    \/ /\ i # 0
       /\ \E fd \in Free :
            /\ sock' = With(sock, fd, Open(kind, "syn", n))
            /\ pdcc' = [chain EXCEPT ![i].sock = fd, ![i].delay = 0, ![i].type = type]
            /\ remote' = IF kind = "recv"
                         THEN With(remote, fd, [wire |-> 0, has |-> 0, acks |-> <<>>])
                         ELSE remote

(* DCCANSWER and DCCGET.                                                       *)
cmddccanswer(n) == /\ Answer(pdcc, "CHATFROMRQ", "CHATFROM", "chat", n)
                   /\ UNCHANGED <<linkVars, files, disk, missing>>
cmddccget(n) == /\ Answer(pdcc, "RECVFROMRQ", "RECVFROM", "recv", n)
                /\ UNCHANGED <<linkVars, files, disk, missing>>

(* parsectcps(): a request of a peer, kept until it is answered or expires;    *)
(* with the setting AUTOGETDCC, which the user may change at any time, a file's *)
(* is answered at once.                                                        *)
Requested(type, n, size) == Append(pdcc, NewPdcc(type, n, 0, size))

GotChatRequest(n) ==
    /\ Room
    /\ pdcc' = Requested("CHATFROMRQ", n, 0)
    /\ UNCHANGED <<sock, linkVars, remote, files, disk, missing>>

GotFileRequest(n) ==
    LET chain == Requested("RECVFROMRQ", n, Size[n]) IN
    /\ Room
    /\ \/ Answer(chain, "RECVFROMRQ", "RECVFROM", "recv", n)
       \/ /\ pdcc' = chain
          /\ UNCHANGED <<sock, remote>>
    /\ UNCHANGED <<linkVars, files, disk, missing>>

pdccconnected(fd) ==
    /\ Is(fd, "chat", "syn")
    /\ sock' = Connected(fd)
    /\ UNCHANGED <<linkVars, pendingVars>>

(* A file nothing names and nobody has open.                                   *)
NewFile == CHOOSE f \in 1 .. MaxDccs + 1 :
             f # disk /\ \A i \in DOMAIN pdcc : pdcc[i].fhandle # f

(* pdccfconnected(): whatever has the name is unlinked and a new file is       *)
(* created and opened; if that fails the socket is killed, and the entry goes. *)
Create == [f |-> NewFile, kept |-> {w \in files : w[1] # NewFile}]

pdccfconnected(fd) ==
    /\ Is(fd, "recv", "syn")
    /\ \/ /\ disk' = 0
          /\ Gone(fd)
       \/ /\ sock' = Connected(fd)
          /\ disk' = Create.f
          /\ files' = Create.kept
          /\ pdcc' = [pdcc EXCEPT ![PdccOf(fd)].fhandle = Create.f]
          /\ UNCHANGED remote
    /\ UNCHANGED <<linkVars, missing>>

(* The peer of an incoming file sends more of it (not part of psyBNC).         *)
PeerSends(fd) ==
    /\ Is(fd, "recv", "conn")
    /\ pdcc[PdccOf(fd)].transferred + remote[fd].wire < pdcc[PdccOf(fd)].filesize
    /\ remote' = [remote EXCEPT ![fd].wire = @ + 1]
    /\ UNCHANGED <<sock, linkVars, pdcc, files, disk, missing>>

(* What writing k units at the handle's position makes of the files.           *)
Written(p, k) ==
    LET at == p.transferred + 1 .. p.transferred + k IN
    {w \in files : w[1] # p.fhandle \/ w[2] \notin at}
      \cup {<<p.fhandle, o, p.nick>> : o \in at}

(* Mutant: the last bytes read are acknowledged, not their total. *)
Acked_Last(old, p, k) == IF old.wire = k THEN k ELSE old.has

(* pdccfget(): what was read is stored, and acknowledged unless more waits on  *)
(* the socket; if it cannot be written the transfer is given up.               *)
Acked(old, p, k) == IF old.wire = k THEN p.transferred + k ELSE old.has

pdccfget(fd, k) ==
    /\ Is(fd, "recv", "conn")
    /\ k \in 1 .. remote[fd].wire
    /\ LET p == pdcc[PdccOf(fd)] IN
       \/ /\ UNCHANGED disk
          /\ Gone(fd)
       \/ /\ files' = Written(p, k)
          /\ UNCHANGED disk
          /\ pdcc' = [pdcc EXCEPT ![PdccOf(fd)].transferred = @ + k]
          /\ remote' = [remote EXCEPT ![fd].wire = @ - k,
                                      ![fd].has = Acked(remote[fd], p, k)]
          /\ UNCHANGED sock
    /\ UNCHANGED <<linkVars, missing>>

(* Mutant: the size is not looked at. *)
pdccfclosed_Always(fd) ==
    /\ fd \in DOMAIN sock /\ sock[fd].kind = "recv"
    /\ LET p == pdcc[PdccOf(fd)] IN
       Report(p.filesize,
              Cardinality({w \in files : w[1] = p.fhandle /\ w[3] = p.nick}))
    /\ UNCHANGED <<linkVars, disk>>
    /\ Gone(fd)

(* pdccfclosed(): the size tells a complete file from a broken off one.        *)
pdccfclosed(fd) ==
    /\ fd \in DOMAIN sock /\ sock[fd].kind = "recv"
    /\ LET p == pdcc[PdccOf(fd)] IN
       IF p.filesize = p.transferred
       THEN Report(p.filesize,
                   Cardinality({w \in files : w[1] = p.fhandle /\ w[3] = p.nick}))
       ELSE UNCHANGED missing
    /\ UNCHANGED <<linkVars, disk>>
    /\ Gone(fd)

(* pdccclosed(), pdccerror(), pdccfileclosed(), pdccfileerror(), pdccferror(): *)
(* the chat or the outgoing file is over, or is cancelled (DCCCANCEL finds     *)
(* open ones only).                                                            *)
SessionOver(fd) ==
    /\ fd \in DOMAIN sock /\ sock[fd].kind \in {"chat", "send"}
    /\ UNCHANGED <<linkVars, disk, missing>>
    /\ Gone(fd)

canceldcc(n, file) ==
    LET open == IF file THEN {"RECVFROM", "SENDTO"} ELSE {"CHATTO", "CHATFROM"}
        i == SelectInSeq(pdcc, LAMBDA p : p.type \in open /\ p.nick = n)
    IN /\ i # 0
       /\ UNCHANGED <<linkVars, disk, missing>>
       /\ Gone(pdcc[i].sock)

(* checkdcctimeouts(): the requests count down, the expired ones go.           *)
Expired == {i \in DOMAIN pdcc : pdcc[i].type \in Requests /\ pdcc[i].delay = 1}
Ticked(p) == IF p.type \in Requests /\ p.delay > 0
             THEN [p EXCEPT !.delay = @ - 1] ELSE p
TickedPdcc ==
    LET upto[i \in 0 .. Len(pdcc)] ==
          IF i = 0 THEN <<>>
          ELSE IF i \in Expired THEN upto[i - 1]
               ELSE Append(upto[i - 1], Ticked(pdcc[i]))
    IN upto[Len(pdcc)]

(* bncalarm(): the third slice checks the bot connections and the timeouts.    *)
bncalarm ==
    /\ checkdccs({pdcc[i].sock : i \in Expired})
    /\ pdcc' = TickedPdcc
    /\ UNCHANGED <<saved, remote, files, disk, missing>>

(* The process starts: loaddccs() reads the first LOADED entries.              *)
Restart ==
    /\ sock' = <<>> /\ lastdh' = None
    /\ dccs' = [i \in 1 .. Min({LOADED, Len(saved)}) |-> NewLink(saved[i])]
    /\ pdcc' = <<>> /\ remote' = <<>> /\ missing' = missing
    /\ files' = Kept(<<>>, disk)
    /\ UNCHANGED <<saved, disk>>

(* accept() fails and p_accept() kills the listener: an offered chat goes; for *)
(* an offered file pdccfileclosed() closes a file that was never opened, which *)
(* ends the process.                                                           *)
AcceptFails(fd) ==
    /\ fd \in DOMAIN sock
    /\ \/ /\ sock[fd].kind = "chatlisten"
          /\ UNCHANGED <<linkVars, disk, missing>>
          /\ Gone(fd)
       \/ /\ sock[fd].kind = "sendlisten"
          /\ Restart

Init ==
    /\ sock = <<>> /\ dccs = <<>> /\ lastdh = None
    /\ saved = <<>>
    /\ pdcc = <<>> /\ remote = <<>> /\ files = {} /\ disk = 0
    /\ missing = 0

Links ==
    \/ \E b \in Bots : cmdadddcc(b)
    \/ \E n \in 1 .. MaxDccs : cmddeldcc(n)
    \/ \E fd \in Fds : connecteddcc(fd) \/ killeddcc(fd)

Chats ==
    \/ \E n \in Nicks : cmddccchat(n) \/ GotChatRequest(n) \/ cmddccanswer(n)
    \/ \E fd \in Fds : acceptpdccchat(fd) \/ pdccconnected(fd)

Transfers ==
    \/ \E n \in Nicks : cmddccsend(n) \/ GotFileRequest(n) \/ cmddccget(n)
    \/ \E fd \in Fds :
         \/ acceptpdccfile(fd) \/ pdccfconnected(fd) \/ PeerSends(fd) \/ pdccfclosed(fd)
         \/ \E k \in 1 .. Max(Range(Size)) :
              PeerTakes(fd, k) \/ pdccfilesendack(fd, k) \/ pdccfget(fd, k)

Next ==
    \/ Links \/ Chats \/ Transfers
    \/ \E fd \in Fds : SessionOver(fd) \/ AcceptFails(fd)
    \/ \E n \in Nicks, file \in BOOLEAN : canceldcc(n, file)
    \/ bncalarm \/ Restart

Spec == Init /\ [][Next]_vars

--------------------------------------------------------------------------------
TypeOK ==
    /\ DOMAIN sock \subseteq Fds
    /\ \A fd \in DOMAIN sock : /\ sock[fd].kind \in Kinds
                               /\ sock[fd].flag \in {"syn", "conn"}
    /\ \A i \in DOMAIN dccs : /\ dccs[i].outstate \in {"off", "new", "conn"}
                              /\ dccs[i].outsock \in Fds \cup {0}
                              /\ dccs[i].delayed \in 0 .. 1
    /\ \A i \in DOMAIN pdcc : /\ pdcc[i].type \in Types
                              /\ pdcc[i].sock \in Fds \cup {0}
                              /\ pdcc[i].delay \in 0 .. DELAY
                              /\ pdcc[i].transferred \in 0 .. pdcc[i].filesize
    /\ DOMAIN remote = {fd \in DOMAIN sock : sock[fd].kind \in {"send", "recv"}}

(* The connection LISTDCC numbers n is the one in entry n of the configuration, *)
(* which DELDCC removes, and after a restart it is so again.                   *)
DccSaved == [i \in DOMAIN dccs |-> dccs[i].name] = saved

(* A bot connection LISTDCC shows as connected has an open socket: what is     *)
(* typed to the bot, and the away message, is written somewhere.               *)
ConnectedIsOpen ==
    \A i \in DOMAIN dccs :
      dccs[i].outstate = "conn" => Is(dccs[i].outsock, "link", "conn")

(* A pending DCC holds an open socket with the handlers of its type, and no    *)
(* two hold the same, through accepts, answers, failures, timeouts, cancels    *)
(* and the reuse of descriptors.                                               *)
PendingHoldsSocket ==
    \A i \in DOMAIN pdcc :
      /\ IF Holds[pdcc[i].type] = {} THEN pdcc[i].sock = 0
         ELSE /\ pdcc[i].sock \in DOMAIN sock
              /\ sock[pdcc[i].sock].kind \in Holds[pdcc[i].type]
      /\ pdcc[i].sock # 0 => PdccOf(pdcc[i].sock) = i

(* At most one block is under way to the receiver of a file, and what it has   *)
(* and what is under way is what was read: nothing is skipped or sent twice.   *)
StopAndWait ==
    \A i \in DOMAIN pdcc : pdcc[i].type = "SENDTO" =>
      LET r == remote[pdcc[i].sock] IN
      /\ r.wire <= BLOCK
      /\ r.has + r.wire = pdcc[i].transferred

(* Once psyBNC has read all its peer sent of a file, it has acknowledged all   *)
(* of it: a sender that waits for the acknowledgement of a block gets it.      *)
AckCovers ==
    \A i \in DOMAIN pdcc : pdcc[i].type = "RECVFROM" =>
      LET r == remote[pdcc[i].sock] IN
      r.wire = 0 => r.has = pdcc[i].transferred

(* "File sent completed" and "File received" are said of whole files.          *)
CompleteIsWhole == missing = 0

(* Two transfers of the same name never write into one file.                   *)
NoMixture == \A v, w \in files : v[1] = w[1] => v[3] = w[3]

(* The tables: bot connections are saved as they are listed, and what counts   *)
(* as connected or pending holds an open socket of its own, when descriptors   *)
(* are reused, too.                                                            *)
Consistent == TypeOK /\ DccSaved /\ ConnectedIsOpen /\ PendingHoldsSocket

(* The blocks of a transfer: each is sent once, after the one before it was    *)
(* acknowledged, and acknowledged once it was read.                            *)
BlocksAcknowledged == StopAndWait /\ AckCovers

(* The files: one that is reported is complete and comes from one sender.      *)
FilesWhole == CompleteIsWhole /\ NoMixture
=============================================================================
