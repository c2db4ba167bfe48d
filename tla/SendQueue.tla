----------------------------- MODULE SendQueue -----------------------------
(***************************************************************************)
(* The per-socket output queues of p_socket.c: writesock, addq, flushsendq, *)
(* the passes of socketdriver that drive them, and the flood protection of  *)
(* server sockets (serverbytes / serverstoned).                             *)
(*                                                                         *)
(* A message is a record [id, len, api, delay]: id numbers the messages in  *)
(* the order in which the program writes them, len is strlen(data), api     *)
(* says which entry point it came through ("writesock", "URGENT", "DELAY",  *)
(* or "connect" for the empty line socketdriver queues on every new         *)
(* outgoing connection).  What a socket has put on the network is wire[s].  *)
(***************************************************************************)
EXTENDS Integers, Sequences, SequencesExt

CONSTANTS
    Sockets,        \* the sockets of the table
    OutgoingSockets,\* those made with createsocket(ST_CONNECT) and a constructed
                    \* callback: servers, bots, chats, files, links, translations
    ServerSockets,  \* those of them connectuser() marked serversocket
    GroupOf,        \* sockgroup of every socket; 0 is SGR_NONE
    GroupOrder,     \* the sockets in socketnode list order
    Lengths,        \* lengths of the messages the program writes
    Limit,          \* 700: bytes a server may receive before it must answer
    StoneTime,      \* 20: seconds a socket stays stoned without an answer
    ConnectDelay,   \* 5: delay of the empty line queued on connect
    MaxSendQ,       \* MAX_SENDQ
    MaxMessages     \* bound: messages written in a behaviour

ASSUME SendQueueAssumption ==
    /\ ServerSockets \subseteq OutgoingSockets /\ OutgoingSockets \subseteq Sockets
    /\ GroupOf \in [Sockets -> Nat]
    /\ GroupOrder \in Seq(Sockets) /\ IsInjective(GroupOrder)
    /\ \A s \in OutgoingSockets : GroupOf[s] = 0
    /\ Lengths \subseteq Nat /\ Lengths # {}
    /\ Limit \in Nat /\ StoneTime \in Nat \ {0} /\ ConnectDelay \in Nat
    /\ MaxSendQ \in Nat /\ MaxMessages \in Nat

VARIABLES
    sock,    \* the psockett of every socket: flag, sendq, entrys, ...
    urgent,  \* the global flag `urgent`
    pass,    \* delayinc and the write set of the current socketdriver pass
    nextid,  \* id of the next message
    wire,    \* what every socket has written: a sequence of messages
    sent,    \* bytes of writesock() messages written since serverbytes was 0
    leaks    \* how often `urgent` was left set since then, or was set already

vars == <<sock, urgent, pass, nextid, wire, sent, leaks>>

-----------------------------------------------------------------------------
(* Types *)

Apis == {"writesock", "URGENT", "DELAY", "connect"}

Message == [id : Nat, len : Nat, api : Apis, delay : Nat]

Socket == [flag : {"SYN", "CONN", "DEAD"}, sendq : Seq(Message),
           entrys : Int, serversocket : BOOLEAN,
           stoned : Nat, bytes : Nat]

(* Type invariant. *)
TypeOK ==
    /\ sock \in [Sockets -> Socket]
    /\ urgent \in {0, 1}
    /\ pass \in [inc : {0, 1}, wfds : SUBSET Sockets]
    /\ nextid \in Nat
    /\ wire \in [Sockets -> Seq(Message)]
    /\ sent \in [Sockets -> Nat]
    /\ leaks \in [ServerSockets -> Nat]

-----------------------------------------------------------------------------
(* The state the write functions change is threaded through them as the    *)
(* record [sock, urgent, wire, sent].                                      *)

Current == [sock |-> sock, urgent |-> urgent, wire |-> wire, sent |-> sent]

(* `urgent` is clear between two calls unless a call has left it set.       *)
CountLeak ==
    leaks' = [s \in ServerSockets |-> leaks[s] + (IF urgent' > urgent THEN 1 ELSE 0)]

(* What counts from the last answer of a server starts again for those of S. *)
Restart(S) == leaks' = [s \in ServerSockets |-> IF s \in S THEN urgent ELSE leaks[s]]

Become(st) ==
    /\ sock' = st.sock
    /\ urgent' = st.urgent
    /\ wire' = st.wire
    /\ sent' = st.sent
    /\ CountLeak

(* Only what came through writesock() is subject to the flood protection. *)
Counted(m) == IF m.api = "writesock" THEN m.len ELSE 0

(* writesock() once the message is not (or no longer) queued: an empty     *)
(* line returns early and leaves `urgent` as it is.                         *)
WriteNow(st, s, m) ==
    IF m.len = 0
    THEN st
    ELSE [st EXCEPT !.urgent = 0,
                    !.wire[s] = IF st.sock[s].flag = "CONN" THEN Append(@, m) ELSE @,
                    !.sent[s] = IF st.sock[s].flag = "CONN" THEN @ + Counted(m) ELSE @]

(* Take the first message off the queue and write it. *)
PopAndWrite(st, s) ==
    LET m == Head(st.sock[s].sendq)
        popped == [st.sock[s] EXCEPT
                     !.sendq = Tail(@),
                     !.entrys = @ - 1,
                     !.bytes = IF st.sock[s].serversocket THEN @ + m.len ELSE @]
    IN  WriteNow([st EXCEPT !.sock[s] = popped, !.urgent = 1], s, m)

(* Mutant: the line about to be sent is not counted.                         *)
flushsendq_Late(st, s, forced) ==
    LET k == st.sock[s]
    IN  IF k.flag # "CONN" \/ k.sendq = <<>> \/ (~forced /\ Head(k.sendq).delay > 0)
              \/ (k.serversocket /\ k.stoned > 0)
        THEN st
        ELSE IF k.serversocket /\ k.bytes > Limit
        THEN [st EXCEPT !.sock[s].stoned = StoneTime]
        ELSE PopAndWrite(st, s)

(* flushsendq(s, Q_NEXT or Q_FORCED).  The PING that asks a server for an   *)
(* answer is written directly and is not a message of the queue.            *)
flushsendq(st, s, forced) ==
    LET k == st.sock[s]
        m == Head(k.sendq)
    IN  IF k.flag # "CONN" \/ k.sendq = <<>>
        THEN st
        ELSE IF ~forced /\ m.delay > 0
        THEN [st EXCEPT !.sock[s].sendq[1].delay = @ - pass.inc]
        ELSE IF k.serversocket /\ k.stoned > 0
        THEN st
        ELSE IF k.serversocket /\ k.bytes + m.len > Limit /\ m.len < Limit
        THEN [st EXCEPT !.sock[s].stoned = StoneTime]
        ELSE PopAndWrite(st, s)

(* Mutant: the entry is counted on the socket addq() was called for. *)
Enqueue_CountsCaller(st, s, t, m) ==
    [st EXCEPT !.sock[s].entrys = @ + 1, !.sock[t].sendq = Append(@, m)]

(* Append one message to the queue of t; `s` is the socket addq() was       *)
(* called for, and it is the queue of s that is flushed when t has too many *)
(* entries.                                                                 *)
Enqueue(st, s, t, m) ==
    LET counted == [st EXCEPT !.sock[t].entrys = @ + 1]
        flushed == IF counted.sock[t].entrys > MaxSendQ /\ counted.sock[t].stoned = 0
                   THEN flushsendq(counted, s, TRUE)
                   ELSE counted
    IN  [flushed EXCEPT !.sock[t].sendq = Append(@, m)]

(* getpsocketbygroup: t is a live socket of the group of s. *)
InGroup(st, s, t) == GroupOf[t] = GroupOf[s] /\ st.sock[t].flag # "DEAD"

(* addq: a socket with a group queues the message on every live member, in  *)
(* list order.                                                              *)
addq(st, s, m) ==
    LET upto[i \in 0 .. Len(GroupOrder)] ==
          IF i = 0 THEN st
          ELSE IF InGroup(st, s, GroupOrder[i]) THEN Enqueue(upto[i - 1], s, GroupOrder[i], m)
          ELSE upto[i - 1]
    IN  IF GroupOf[s] = 0 THEN Enqueue(st, s, s, m) ELSE upto[Len(GroupOrder)]

(* writesock / ssnprintf *)
writesock(st, s, m) ==
    LET u == IF st.sock[s].flag = "SYN" THEN 0 ELSE st.urgent
        seen == [st EXCEPT !.urgent = u]
    IN  IF u = 0 THEN addq(seen, s, m) ELSE WriteNow(seen, s, m)

-----------------------------------------------------------------------------
(* Actions *)

NewSocket(flag, server) ==
    [flag |-> flag, sendq |-> <<>>, entrys |-> 0, serversocket |-> server,
     stoned |-> 0, bytes |-> 0]

(* Clients are connected; the outgoing sockets have not been made yet.      *)
Init ==
    /\ sock = [s \in Sockets |->
                 NewSocket(IF s \in OutgoingSockets THEN "DEAD" ELSE "CONN", FALSE)]
    /\ urgent = 0
    /\ pass = [inc |-> 0, wfds |-> {}]
    /\ nextid = 1
    /\ wire = [s \in Sockets |-> <<>>]
    /\ sent = [s \in Sockets |-> 0]
    /\ leaks = [s \in ServerSockets |-> 0]

NewMessage(len, api, delay) ==
    [id |-> nextid, len |-> len, api |-> api, delay |-> delay]

MayWrite(s) == nextid <= MaxMessages /\ sock[s].flag # "DEAD"

(* A handler writes a line with writesock() or ssnprintf(). *)
Write(s, len) ==
    /\ MayWrite(s)
    /\ Become(writesock(Current, s, NewMessage(len, "writesock", 0)))
    /\ nextid' = nextid + 1
    /\ UNCHANGED pass

(* writesock_URGENT: PONG replies and the keep-alive of an idle socket. *)
WriteUrgent(s, len) ==
    /\ MayWrite(s)
    /\ Become(writesock([Current EXCEPT !.urgent = 1], s, NewMessage(len, "URGENT", 0)))
    /\ nextid' = nextid + 1
    /\ UNCHANGED pass

(* writesock_DELAY *)
WriteDelay(s, len, delay) ==
    /\ MayWrite(s)
    /\ Become(addq(Current, s, NewMessage(len, "DELAY", delay)))
    /\ nextid' = nextid + 1
    /\ UNCHANGED pass

(* writesock_URGENT or writesock_DELAY on a socket that is gone: `urgent` is *)
(* set, by the former or by addq(), and writesock() returns before it clears *)
(* it.                                                                       *)
WriteToNone(s) ==
    /\ sock[s].flag = "DEAD"
    /\ nextid <= MaxMessages
    /\ urgent' = 1
    /\ CountLeak
    /\ nextid' = nextid + 1
    /\ UNCHANGED <<sock, pass, wire, sent>>

(* createsocket(): a new connection on a descriptor that is free. *)
createsocket(s) ==
    /\ s \in OutgoingSockets
    /\ sock[s].flag = "DEAD"
    /\ sock' = [sock EXCEPT ![s] = NewSocket("SYN", s \in ServerSockets)]
    /\ sent' = [sent EXCEPT ![s] = 0]
    /\ Restart({s})
    /\ UNCHANGED <<urgent, pass, nextid, wire>>

(* socketdriver: a connection is established; an empty line is queued with  *)
(* a delay before the constructed callback writes the first lines.          *)
Connected(s) ==
    /\ sock[s].flag = "SYN"
    /\ nextid <= MaxMessages
    /\ Become(addq([Current EXCEPT !.sock[s].flag = "CONN"], s,
                   NewMessage(0, "connect", ConnectDelay)))
    /\ nextid' = nextid + 1
    /\ UNCHANGED pass

(* The first loop of socketdriver: stones and delays count down by delayinc *)
(* and the write set for select() is built.                                 *)
StonePass(k, inc) ==
    LET left == k.stoned - inc
    IN  IF k.serversocket /\ k.stoned > 0
        THEN [k EXCEPT !.stoned = left, !.bytes = IF left = 0 THEN 0 ELSE @]
        ELSE k

(* Mutant: delays never run out. *)
DelayPass_Forever(k, inc) == k

DelayPass(k, inc) ==
    IF k.flag # "DEAD" /\ k.sendq # <<>> /\ Head(k.sendq).delay > 0
    THEN [k EXCEPT !.sendq[1].delay = @ - inc]
    ELSE k

(* The test is made on the head's delay before this pass lowers it. *)
WantsWrite(k) ==
    /\ k.flag = "CONN"
    /\ k.sendq # <<>>
    /\ Head(k.sendq).delay = 0
    /\ k.stoned = 0

Released(k, inc) == k.flag # "DEAD" /\ k.serversocket /\ k.stoned > 0 /\ k.stoned - inc = 0

Pass(inc) ==
    /\ pass' = [inc |-> inc,
                wfds |-> {s \in Sockets : WantsWrite(StonePass(sock[s], inc))}]
    /\ sock' = [s \in Sockets |->
                  IF sock[s].flag = "DEAD" THEN sock[s]
                  ELSE DelayPass(StonePass(sock[s], inc), inc)]
    /\ sent' = [s \in Sockets |-> IF Released(sock[s], inc) THEN 0 ELSE sent[s]]
    /\ Restart({s \in ServerSockets : Released(sock[s], inc)})
    /\ UNCHANGED <<urgent, nextid, wire>>

(* The second loop: the kernel reports s writable. *)
Flush(s) ==
    /\ s \in pass.wfds
    /\ sock[s].flag = "CONN"
    /\ sock[s].stoned = 0
    /\ Become(flushsendq(Current, s, FALSE))
    /\ pass' = [pass EXCEPT !.wfds = @ \ {s}]
    /\ UNCHANGED nextid

(* receivesock: the server answers the PING with PONG. *)
Pong(s) ==
    /\ sock[s].flag = "CONN"
    /\ sock[s].serversocket
    /\ sock[s].stoned # 0
    /\ sock' = [sock EXCEPT ![s].stoned = 0, ![s].bytes = 0]
    /\ sent' = [sent EXCEPT ![s] = 0]
    /\ Restart({s})
    /\ UNCHANGED <<urgent, pass, nextid, wire>>

(* killsocket, once the destructor has run: the flood protection is switched *)
(* off, so the forced flushes all succeed on a connected socket; flushsendq  *)
(* is called entrys + 1 times, then the socket is freed and closed.          *)
Nonempty(q) ==
    LET upto[i \in 0 .. Len(q)] ==
          IF i = 0 THEN <<>>
          ELSE IF q[i].len > 0 THEN Append(upto[i - 1], q[i]) ELSE upto[i - 1]
    IN  upto[Len(q)]

Bytes(q) ==
    LET upto[i \in 0 .. Len(q)] == IF i = 0 THEN 0 ELSE upto[i - 1] + Counted(q[i])
    IN  upto[Len(q)]

(* Mutant: a stoned socket is closed without flushing its queue. *)
FlushedByKill_Stoned(k) == IF k.flag = "CONN" /\ k.stoned = 0 THEN k.sendq ELSE <<>>

FlushedByKill(k) ==
    IF k.flag = "CONN"
    THEN SubSeq(k.sendq, 1, IF k.entrys < Len(k.sendq) THEN k.entrys + 1 ELSE Len(k.sendq))
    ELSE <<>>

killsocket(s) ==
    LET out == FlushedByKill(sock[s])
    IN  /\ sock[s].flag # "DEAD"
        /\ wire' = [wire EXCEPT ![s] = @ \o Nonempty(out)]
        /\ sent' = [sent EXCEPT ![s] = @ + Bytes(out)]
        /\ urgent' = IF out = <<>> THEN urgent
                     ELSE IF Last(out).len = 0 THEN 1 ELSE 0
        /\ CountLeak
        /\ sock' = [sock EXCEPT ![s].flag = "DEAD", ![s].sendq = <<>>, ![s].entrys = 0,
                                ![s].stoned = 0, ![s].serversocket = FALSE]
        /\ pass' = [pass EXCEPT !.wfds = @ \ {s}]
        /\ UNCHANGED nextid

Next ==
    \/ \E s \in Sockets, len \in Lengths :
          \/ Write(s, len)
          \/ WriteUrgent(s, len)
    \/ \E s \in Sockets, len \in Lengths : WriteDelay(s, len, ConnectDelay)
    \/ \E s \in Sockets : WriteToNone(s)
    \/ \E s \in Sockets : createsocket(s)
    \/ \E s \in Sockets : Connected(s)
    \/ \E inc \in {0, 1} : Pass(inc)
    \/ \E s \in Sockets : Flush(s)
    \/ \E s \in Sockets : Pong(s)
    \/ \E s \in Sockets : killsocket(s)

(* Time advances (select() waits at most one second) and a peer that is     *)
(* still connected keeps reading, so its socket is writable again and again. *)
Fairness ==
    /\ WF_vars(Pass(1))
    /\ \A s \in Sockets : SF_vars(Flush(s))

Spec == Init /\ [][Next]_vars /\ Fairness

-----------------------------------------------------------------------------
(* Properties *)

Ids(q) == [i \in DOMAIN q |-> q[i].id]

(* The counter `entrys`, which addq compares with MAX_SENDQ and killsocket   *)
(* uses as the number of flushes, is the length of the list sendq after any  *)
(* mix of writes, forced flushes of another group member and kills.          *)
EntrysExact == \A s \in Sockets : sock[s].entrys = Len(sock[s].sendq)

(* Every message is written at most once per socket, and a message that is   *)
(* on the wire is no longer in the queue.                                    *)
WrittenOnce ==
    \A s \in Sockets :
       LET all == Ids(wire[s]) \o Ids(Nonempty(sock[s].sendq))
       IN  IsInjective(all)

(* What one socket does in a step: the first n messages of its queue are on   *)
(* the wire, without the empty ones, and the others are still queued.        *)
Serves(s) ==
    \E n \in 0 .. Len(sock[s].sendq) :
       LET q == sock[s].sendq
           new == SubSeq(wire'[s], Len(wire[s]) + 1, Len(wire'[s]))
       IN  /\ n > 0 => IsPrefix(Ids(Nonempty(SubSeq(q, 1, n))), Ids(new))
           /\ IsPrefix(Ids(SubSeq(q, n + 1, Len(q))), Ids(sock'[s].sendq))

(* A step that takes messages off the queue of a connected socket writes     *)
(* them, in queue order, and leaves the rest queued; killsocket writes the   *)
(* whole queue before the socket is closed, stoned or not.                   *)
ServedInOrder == [][\A s \in Sockets : sock[s].flag = "CONN" => Serves(s)]_vars

(* The flood protection stops a server socket only while it has a backlog    *)
(* whose first line would exceed the limit: a stoned socket is always        *)
(* released into sending something.                                          *)
StonedBacklog ==
    \A s \in ServerSockets : sock[s].stoned > 0 =>
       /\ sock[s].flag = "CONN"
       /\ sock[s].sendq # <<>>
       /\ sock[s].bytes + Head(sock[s].sendq).len > Limit

(* When every line is shorter than the limit, what flushsendq counts as sent *)
(* to a server since its last answer never exceeds the limit, whichever of   *)
(* Q_NEXT, a full queue or a reconnect triggered the flush.                  *)
FloodBudget ==
    (\A len \in Lengths : len < Limit) =>
       \A s \in ServerSockets : sock[s].bytes <= Limit

(* CHANGES: "The serverside socket will wait for a server reply before       *)
(* sending additional strings to the server [...] The maximum same total     *)
(* number of bytes is set to 700".  The bytes of ordinary lines put on the    *)
(* wire of a server since its last answer stay within the limit, but for one *)
(* line for each time the global `urgent` was left set, by whatever socket:  *)
(* the next writesock() on a connected socket bypasses the queue.            *)
OrdinaryTrafficLimited ==
    (\A len \in Lengths : len \in 1 .. Limit - 1) =>
       \A s \in ServerSockets : sock[s].flag = "CONN" =>
          sent[s] <= Limit + Max(Lengths) * leaks[s]

(* Every message put into the queue of a connected socket leaves it: delays  *)
(* run out, a stoned server socket is released by PONG or by time.           *)
QueueDrains ==
    \A s \in Sockets, id \in 1 .. MaxMessages :
       (sock[s].flag = "CONN" /\ \E i \in DOMAIN sock[s].sendq : sock[s].sendq[i].id = id)
         ~> (\A i \in DOMAIN sock[s].sendq : sock[s].sendq[i].id # id)

(* The queues: however writes, forced flushes and kills mix, every counter    *)
(* is the length of its queue, and no message is written twice.              *)
Consistent == TypeOK /\ EntrysExact /\ WrittenOnce

(* The flood protection: between two answers a server gets no more than the  *)
(* limit and one line per leak of `urgent`, and it is made to wait only while *)
(* there is something to hold back.                                          *)
FloodLimited == FloodBudget /\ OrdinaryTrafficLimited /\ StonedBacklog
=============================================================================
