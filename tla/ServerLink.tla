----------------------------- MODULE ServerLink -----------------------------
(***************************************************************************)
(* The outgoing connection of every bouncer user to its IRC server: the     *)
(* main loop's checkclients() and connectuser(), the socket callbacks       *)
(* userconnected / usererror / userclosed, the server messages that change  *)
(* the connection (001, ERROR, PONG), the stone check, and the commands     *)
(* BQUIT, BCONNECT, JUMP, ADDSERVER, DELSERVER, SETCONNECTDELAY, BREHASH.   *)
(*                                                                         *)
(* Clock readings are kept as ages that saturate at the largest value any   *)
(* test of the code can tell apart, so behaviours are unbounded in time.    *)
(***************************************************************************)
EXTENDS Integers, FiniteSetsExt

CONSTANTS
    NUsers,        \* users 1 .. NUsers, in usernode list order
    Fds,           \* file descriptors the process may have open, positive
    MaxServer,     \* 20: server slots of a user that JUMP and getnextserver reach
    RetryDelay,    \* 30: value of `delayed` after no usable server was found
    Delays,        \* values SETCONNECTDELAY accepts; 0 switches connecting off
    SocTimeout,    \* SOC_TIMEOUT
    StoneCheck,    \* STONECHECKDELAY
    StoneTime,     \* STONETIME
    SyncFailures   \* TRUE: resolving, bind() or connect() may fail at once

ASSUME ServerLinkAssumption ==
    /\ NUsers \in Nat \ {0}
    /\ Fds \subseteq Nat \ {0} /\ IsFiniteSet(Fds)
    /\ MaxServer \in Nat \ {0}
    /\ RetryDelay \in Nat
    /\ Delays \subseteq Nat /\ \E n \in Delays : \A d \in Delays : d <= n
    /\ SocTimeout \in Nat /\ StoneCheck \in Nat /\ StoneTime \in Nat
    /\ SyncFailures \in BOOLEAN

Users == 1 .. NUsers
Slots == 1 .. MaxServer

VARIABLES
    user,          \* the fields of usert that concern the server connection
    sock,          \* the outgoing sockets by descriptor; NoSock when free
    servers,       \* the SERVERS section of the configuration, per user
    connectdelay,  \* CONNECTDELAY of the configuration
    lastusern,     \* static of checkclients
    lastconnect,   \* age of connectuser's static lastconnect
    quiet          \* history: age of the last createsocket for any user

vars == <<user, sock, servers, connectdelay, lastusern, lastconnect, quiet>>

-----------------------------------------------------------------------------
(* Types *)

NoSock == [owner |-> 0, flag |-> "NOUSE", delay |-> 0]

Never == -1       \* a pingtime of 0

MaxAge == Max(Delays)

MaxPing == IF StoneCheck > StoneTime THEN StoneCheck ELSE StoneTime

User == [outstate : {"NOCON", "CONN"}, outsock : Fds \cup {0},
         quitted : BOOLEAN, delayed : Nat, welcome : BOOLEAN,
         currentserver : 0 .. MaxServer,
         pinged : BOOLEAN, pingtime : Int]

Sock == [owner : Users, flag : {"SYN", "CONN"}, delay : Nat]

(* Type invariant. *)
TypeOK ==
    /\ user \in [Users -> User]
    /\ sock \in [Fds -> Sock \cup {NoSock}]
    /\ servers \in [Users -> [Slots -> {"none", "ok", "port0"}]]
    /\ connectdelay \in Delays
    /\ lastusern \in Users \cup {-1, 0}
    /\ lastconnect \in Nat
    /\ quiet \in Nat

-----------------------------------------------------------------------------
(* Socket table helpers *)

Live(f) == f \in Fds /\ sock[f] # NoSock

FreeFds == {f \in Fds : sock[f] = NoSock}

(* The kernel hands out the lowest free descriptor. *)
NewFd == Min(FreeFds)

Closed(F) == [f \in Fds |-> IF f \in F THEN NoSock ELSE sock[f]]

(* What usererror() and userclosed() leave of the user record. *)
Disconnected(u) == [u EXCEPT !.outstate = "NOCON", !.pinged = FALSE, !.pingtime = Never]

(* killsocket(f): the destructor userclosed() runs for the owner and itself *)
(* kills the owner's outsock with the destructor cleared.  `us` is the user  *)
(* table at the time of the call.                                            *)
SockAfterKill(f) == IF Live(f) THEN Closed({f, user[sock[f].owner].outsock}) ELSE sock

UserAfterKill(us, f) ==
    IF Live(f) THEN [us EXCEPT ![sock[f].owner] = Disconnected(@)] ELSE us

-----------------------------------------------------------------------------
(* checkclients and connectuser *)

Configured(u) == {n \in Slots : servers[u][n] # "none"}

(* Mutant: the search starts at the current server, not after it. *)
getnextserver_Sticky(u) ==
    LET S == Configured(u)
        later == {n \in S : n >= user[u].currentserver}
        pool == IF later # {} THEN later ELSE S
    IN  Min(pool)

(* getnextserver: the next configured slot after currentserver, cyclically, *)
(* the current one last.                                                    *)
getnextserver(u) ==
    LET S == Configured(u)
        later == {n \in S : n > user[u].currentserver}
        pool == IF later # {} THEN later ELSE S
    IN  Min(pool)

(* Mutant: only the attempts of one loop are spaced. *)
Throttled_Off == connectdelay = 0

Throttled == connectdelay = 0 \/ lastconnect < connectdelay

(* Mutant: a quitted user is connected again. *)
Due_Quitted(u) == ~Throttled /\ user[u].outstate = "NOCON"

(* connectuser passes its throttle and finds the user waiting. *)
Due(u) ==
    /\ ~Throttled
    /\ user[u].outstate = "NOCON"
    /\ ~user[u].quitted

(* ... and picks a server for it. *)
Picks(u) == Due(u) /\ user[u].delayed = 0 /\ Configured(u) # {}

(* connectuser(u) returns 1. *)
Connects(u) == Picks(u) /\ servers[u][getnextserver(u)] = "ok" /\ FreeFds # {}

(* The record of u after a connectuser(u) that returned 0: a delay counts   *)
(* down by delayinc; no server, or one without a port, sets a delay; failed *)
(* socket() leaves outsock 0.                                               *)
Skipped(u, inc) ==
    LET r == user[u]
    IN  IF ~Due(u) THEN r
        ELSE IF r.delayed > 0 THEN [r EXCEPT !.delayed = @ - inc]
        ELSE IF Configured(u) = {} THEN [r EXCEPT !.delayed = RetryDelay]
        ELSE IF servers[u][getnextserver(u)] = "port0"
        THEN [r EXCEPT !.currentserver = getnextserver(u), !.delayed = RetryDelay]
        ELSE [r EXCEPT !.currentserver = getnextserver(u), !.outsock = 0]

(* The record of u after a connectuser(u) that returned 1.  connectto()     *)
(* returns the descriptor also when the attempt already failed and          *)
(* killsocket() has run, and outstate is set in either case.                *)
Attempted(u) ==
    [user[u] EXCEPT !.currentserver = getnextserver(u), !.outsock = NewFd,
                    !.outstate = "CONN", !.welcome = FALSE]

LoopUntil(u, r, inc) ==
    [v \in Users |-> IF v = u THEN r
                     ELSE IF v < u /\ v # lastusern THEN Skipped(v, inc)
                     ELSE user[v]]

AttemptPending(u, inc) ==
    /\ user' = LoopUntil(u, Attempted(u), inc)
    /\ sock' = [sock EXCEPT ![NewFd] = [owner |-> u, flag |-> "SYN", delay |-> 0]]

AttemptFailed(u, inc) ==
    /\ SyncFailures
    /\ user' = LoopUntil(u, [Attempted(u) EXCEPT !.pinged = FALSE, !.pingtime = Never], inc)
    /\ UNCHANGED sock

(* connectuser(u) was the first of the loop to return 1. *)
checkclientsConnects(u, inc) ==
    /\ u # lastusern
    /\ Connects(u)
    /\ \A v \in 1 .. u - 1 : v # lastusern => ~Connects(v)
    /\ AttemptPending(u, inc) \/ AttemptFailed(u, inc)
    /\ lastusern' = u
    /\ lastconnect' = 0
    /\ quiet' = 0
    /\ UNCHANGED <<servers, connectdelay>>

(* No connectuser() of the loop returned 1. *)
checkclientsIdle(inc) ==
    /\ \A v \in Users : v # lastusern => ~Connects(v)
    /\ user' = [v \in Users |-> IF v = lastusern THEN user[v] ELSE Skipped(v, inc)]
    /\ lastusern' = -1
    /\ UNCHANGED <<sock, servers, connectdelay, lastconnect, quiet>>

checkclients(inc) ==
    \/ \E u \in Users : checkclientsConnects(u, inc)
    \/ checkclientsIdle(inc)

-----------------------------------------------------------------------------
(* Events on a server socket *)

Rest == <<servers, connectdelay, lastusern, lastconnect, quiet>>

(* socketdriver: the connection is established; userconnected resets the    *)
(* stone check.                                                             *)
userconnected(f) ==
    /\ Live(f) /\ sock[f].flag = "SYN"
    /\ sock' = [sock EXCEPT ![f].flag = "CONN"]
    /\ user' = [user EXCEPT ![sock[f].owner].pinged = FALSE,
                            ![sock[f].owner].pingtime = Never]
    /\ UNCHANGED Rest

(* usererror() for the owner of f, and the killsocket() of socketdriver if  *)
(* f is still in the table.                                                 *)
usererror(f) ==
    LET o == sock[f].owner
    IN  /\ sock' = Closed({f, user[o].outsock})
        /\ user' = [user EXCEPT ![o] = Disconnected(@)]
        /\ UNCHANGED Rest

Refused(f) == Live(f) /\ sock[f].flag = "SYN" /\ usererror(f)

Timeout(f) ==
    /\ Live(f) /\ sock[f].flag = "SYN" /\ sock[f].delay > SocTimeout
    /\ usererror(f)

(* The server closes the connection: receivesock fails, killsocket. *)
RemoteClose(f) ==
    /\ Live(f) /\ sock[f].flag = "CONN"
    /\ sock' = SockAfterKill(f)
    /\ user' = UserAfterKill(user, f)
    /\ UNCHANGED Rest

(* 001: serverinit(u, 1) *)
msg001(f) ==
    /\ Live(f) /\ sock[f].flag = "CONN"
    /\ user' = [user EXCEPT ![sock[f].owner].welcome = TRUE]
    /\ UNCHANGED <<sock, Rest>>

(* ERROR from the server: the destructor is cleared, outsock is killed. *)
msgERROR(f) ==
    /\ Live(f) /\ sock[f].flag = "CONN"
    /\ LET o == sock[f].owner
       IN  /\ sock' = Closed({user[o].outsock})
           /\ user' = [user EXCEPT ![o].outstate = "NOCON", ![o].outsock = 0]
    /\ UNCHANGED Rest

(* PONG on a socket that is not stoned (receivesock). *)
msgPONG(f) ==
    /\ Live(f) /\ sock[f].flag = "CONN"
    /\ user' = [user EXCEPT ![sock[f].owner].pinged = FALSE,
                            ![sock[f].owner].pingtime = 0]
    /\ UNCHANGED <<sock, Rest>>

(* One iteration of checkstonednick. *)
checkstonednick(u) ==
    /\ user[u].outstate = "CONN" /\ user[u].welcome
    /\ IF user[u].pinged
       THEN /\ user[u].pingtime >= StoneTime
            /\ sock' = SockAfterKill(user[u].outsock)
            /\ user' = UserAfterKill([user EXCEPT ![u].pinged = FALSE, ![u].pingtime = Never],
                                     user[u].outsock)
       ELSE /\ user[u].pingtime = Never \/ user[u].pingtime >= StoneCheck
            /\ user' = [user EXCEPT ![u].pinged = TRUE, ![u].pingtime = 0]
            /\ UNCHANGED sock
    /\ UNCHANGED Rest

(* One second passes. *)
Older(age, max) == IF age < max THEN age + 1 ELSE age

Tick ==
    /\ lastconnect' = Older(lastconnect, MaxAge)
    /\ quiet' = Older(quiet, MaxAge)
    /\ sock' = [f \in Fds |-> IF sock[f].flag = "SYN"
                              THEN [sock[f] EXCEPT !.delay = Older(@, SocTimeout + 1)]
                              ELSE sock[f]]
    /\ user' = [u \in Users |-> IF user[u].pingtime = Never THEN user[u]
                                ELSE [user[u] EXCEPT !.pingtime = Older(@, MaxPing)]]
    /\ UNCHANGED <<servers, connectdelay, lastusern>>

-----------------------------------------------------------------------------
(* Commands *)

(* Mutant: outsock is forgotten before it is closed. *)
cmdbquit_Forgets(u) ==
    /\ ~user[u].quitted
    /\ user' = [user EXCEPT ![u].quitted = TRUE, ![u].outstate = "NOCON", ![u].outsock = 0]
    /\ UNCHANGED <<sock, Rest>>

(* BQUIT: also what BQUITN and an admin's BQUIT do to the target. *)
cmdbquit(u) ==
    LET quit == [user EXCEPT ![u].quitted = TRUE]
    IN  /\ ~user[u].quitted
        /\ IF user[u].outstate = "CONN"
           THEN /\ sock' = SockAfterKill(user[u].outsock)
                /\ user' = [UserAfterKill(quit, user[u].outsock) EXCEPT
                              ![u].outstate = "NOCON", ![u].outsock = 0]
           ELSE /\ user' = quit
                /\ UNCHANGED sock
        /\ UNCHANGED Rest

(* BCONNECT, BCONNECTN *)
cmdbconnect(u) ==
    /\ user[u].quitted
    /\ user' = [user EXCEPT ![u].quitted = FALSE, ![u].delayed = 0]
    /\ UNCHANGED <<sock, Rest>>

(* JUMP with a server number n, or without one (n = 0). *)
cmdjump(u, n) ==
    LET f == user[u].outsock
        jumped == [user EXCEPT ![u].currentserver = IF n = 0 THEN @ ELSE n - 1]
    IN  /\ user[u].outstate = "CONN"
        /\ sock' = SockAfterKill(f)
        /\ user' = UserAfterKill(jumped, f)
        /\ UNCHANGED Rest

(* ADDSERVER takes the first of the slots 1 .. 9 that is free. *)
cmdaddserver(u, kind) ==
    LET free == {n \in Slots : n < 10 /\ servers[u][n] = "none"}
    IN  /\ free # {}
        /\ servers' = [servers EXCEPT ![u][Min(free)] = kind]
        /\ user' = [user EXCEPT ![u].delayed = 0]
        /\ UNCHANGED <<sock, connectdelay, lastusern, lastconnect, quiet>>

cmddelserver(u, n) ==
    /\ servers' = [servers EXCEPT ![u][n] = "none"]
    /\ UNCHANGED <<user, sock, connectdelay, lastusern, lastconnect, quiet>>

cmdsetconnectdelay(d) ==
    /\ connectdelay' = d
    /\ UNCHANGED <<user, sock, servers, lastusern, lastconnect, quiet>>

(* BREHASH kills every outgoing socket and reloads the users. *)
cmdrehash ==
    /\ sock' = [f \in Fds |-> NoSock]
    /\ user' = [u \in Users |-> IF \E f \in Fds : Live(f) /\ sock[f].owner = u
                                THEN Disconnected(user[u]) ELSE user[u]]
    /\ UNCHANGED Rest

-----------------------------------------------------------------------------
Init ==
    /\ \E q \in [Users -> BOOLEAN] :
          user = [u \in Users |->
                    [outstate |-> "NOCON", outsock |-> 0, quitted |-> q[u],
                     delayed |-> 0, welcome |-> FALSE, currentserver |-> 0,
                     pinged |-> FALSE, pingtime |-> Never]]
    /\ sock = [f \in Fds |-> NoSock]
    /\ servers \in [Users -> [Slots -> {"none", "ok", "port0"}]]
    /\ connectdelay \in Delays
    /\ lastusern = 0
    /\ lastconnect = MaxAge
    /\ quiet = MaxAge

SocketEvent(f) ==
    \/ userconnected(f) \/ Refused(f) \/ Timeout(f) \/ RemoteClose(f)
    \/ msg001(f) \/ msgERROR(f) \/ msgPONG(f)

Command(u) ==
    \/ cmdbquit(u) \/ cmdbconnect(u)
    \/ \E n \in 0 .. MaxServer : cmdjump(u, n)
    \/ \E kind \in {"ok", "port0"} : cmdaddserver(u, kind)
    \/ \E n \in Slots : cmddelserver(u, n)

Next ==
    \/ \E inc \in {0, 1} : checkclients(inc)
    \/ Tick
    \/ \E f \in Fds : SocketEvent(f)
    \/ \E u \in Users : checkstonednick(u)
    \/ \E u \in Users : Command(u)
    \/ \E d \in Delays : cmdsetconnectdelay(d)
    \/ cmdrehash

(* The main loop runs checkclients again and again, once a second with      *)
(* delayinc = 1; time passes; a socket in connection set-up is looked at in *)
(* every pass.                                                              *)
Fairness ==
    /\ WF_vars(checkclients(1))
    /\ WF_vars(Tick)
    /\ \A f \in Fds : WF_vars(Timeout(f))

Spec == Init /\ [][Next]_vars /\ Fairness

-----------------------------------------------------------------------------
(* Properties *)

HasSocket(u) == \E f \in Fds : sock[f].owner = u

(* Every outgoing socket in the table is the outsock of the user it was     *)
(* created for, and that user counts as connected: no path through a failed *)
(* attempt, a kill inside a callback, JUMP, BQUIT or the stone check leaves  *)
(* an orphan connection or gives a user two connections.                    *)
SocketOwned ==
    \A f \in Fds : sock[f] # NoSock =>
       /\ user[sock[f].owner].outsock = f
       /\ user[sock[f].owner].outstate = "CONN"

(* BQUIT.TXT: "quits the server connection until you restart it with        *)
(* BCONNECT": a user with quitted set is not connected and owns no socket,   *)
(* whatever was under way when it quit.                                      *)
QuitStaysOff ==
    \A u \in Users : user[u].quitted => user[u].outstate = "NOCON" /\ ~HasSocket(u)

(* The fix "psyBNC might be connecting clients too fast causing throttling": *)
(* a new outgoing socket is created only when connecting is switched on and *)
(* no other was created within the connect delay, whichever user it was for. *)
AttemptsSpaced ==
    [][\A f \in Fds : (sock[f] = NoSock /\ sock'[f] # NoSock) =>
          connectdelay > 0 /\ quiet >= connectdelay]_vars

(* After an attempt that failed within connectto() the user counts as         *)
(* connected without a socket, and nothing tries again.                      *)
Stuck(u) == user[u].outstate = "CONN" /\ ~HasSocket(u)

(* The next server need not be tried: by choice of the user or of the         *)
(* administrator, for want of another server, after such a failure, or while *)
(* another user may use every slot between two attempts.                     *)
Excused(u) ==
    \/ user[u].quitted
    \/ connectdelay = 0
    \/ Configured(u) \ {user[u].currentserver} = {}
    \/ Stuck(u)
    \/ \E v \in Users \ {u} : ~user[v].quitted

(* ADDSERVER.TXT: "If the bouncer can't connect to a server it will try next *)
(* one in list": a user without a connection goes on to another server of    *)
(* its list or gets a connection.                                            *)
NextServerTried ==
    \A u \in Users, c \in 0 .. MaxServer :
       (~HasSocket(u) /\ user[u].currentserver = c)
         ~> (user[u].currentserver # c \/ HasSocket(u) \/ Excused(u))

(* The tables: every outgoing socket is the outsock of one connected user,    *)
(* through nested kills and the reuse of descriptors.                        *)
Consistent == TypeOK /\ SocketOwned
=============================================================================
