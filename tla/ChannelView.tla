----------------------------- MODULE ChannelView -----------------------------
(***************************************************************************)
(* The channels of one user (p_uchannel.c and the handlers of p_server.c):  *)
(* the list of channels with their nicks, kept from the lines of the IRC    *)
(* server, shown to a client that attaches later, and saved so that they    *)
(* are joined again.  The IRC server and the client are external: the       *)
(* server keeps the true members and sends lines, which arrive in order;    *)
(* the client keeps what it is told.                                        *)
(***************************************************************************)
EXTENDS Integers, Sequences, SequencesExt, FiniteSetsExt

CONSTANTS
    Nicks, Chans,
    Wantnick,        \* the nick the client logs in with
    Othernick,       \* what nickused() tries next: "_" and the nick wanted
    Askops,          \* nicks the list of operators to be asked matches
    Banned,          \* nicks the ban list of the user matches
    Friends,         \* nicks the auto-op list of the user matches
    StoredChans,     \* configurations at the start: entry number -> channel
    ModeLines,       \* the mode changes, with parameters, that a server may
                     \* send in one line
    MaxWire,         \* lines in transit
    MaxEvents        \* events of clients, network and server in a behaviour

NoChan == "none"
NoNick == "*"                       \* on the server: not registered
Topics == {"", "topic"}
Entries == 0 .. 39                  \* loadchannels() reads these
Prefix == {"o", "v"}              \* prefixmodes, from 001 and 005
Out == {"out"}
Status == {Out} \cup SUBSET Prefix
NickList == [Nicks -> Status]
Nobody == [n \in Nicks |-> Out]

ASSUME ChannelViewAssumption ==
    /\ {Wantnick, Othernick} \subseteq Nicks
    /\ Askops \subseteq Nicks
    /\ Banned \subseteq Nicks /\ Friends \subseteq Nicks
    /\ MaxWire \in Nat /\ MaxEvents \in Nat
    /\ StoredChans \subseteq [Entries -> Chans \cup {NoChan}]

VARIABLES
    link,    \* "down", "reg" before the 001 is read, "up"
    nick,    \* user->nick
    wantnick,   \* user->wantnick
    firstnick,  \* user->firstnick
    motd,    \* the nick of the 001 kept in motd/USERn.MOTD
    triggered,  \* user->triggered: WHO requests of the client under way
    chan,    \* user->channels
    stored,  \* the section CHANNELS of the configuration
    names,   \* user->innames and inchan
    leavequit, \* the setting LEAVEQUIT
    client,  \* instate: TRUE if a client is attached
    snick,   \* the server: nick of the connection
    srv,     \* the server: members of the channels
    stopic,  \* the server: topics of the channels
    wire,    \* lines on the way from the server
    asked,   \* requests on the way to the server
    cview,   \* the client: nick lists, topics and its nick as it was told
    shifted, \* history: channels with a MODE line whose parameters the
             \* bouncer has taken for those of other modes since the user
             \* has joined
    events   \* bound: events so far

nicks == <<wantnick, firstnick, motd>>
bouncer == <<nick, nicks, triggered, chan, stored, names>>
server == <<snick, srv, stopic>>
vars == <<link, bouncer, leavequit, client, server, wire, asked, cview, shifted, events>>

(* hosts: the nicks whose host is known. *)
Channel == [entry : Entries, ison : BOOLEAN, users : NickList, hosts : SUBSET Nicks,
            topic : Topics, tracked : SUBSET {"o", "v", "k"}]
View == [nick : Nicks, users : [Chans -> NickList], topic : [Chans -> Topics]]
Absent == [entry |-> 0 - 1]
NoNames == [state |-> 0, chan |-> NoChan]

(* Type invariant. *)
TypeOK ==
    /\ link \in {"down", "reg", "up"}
    /\ {nick, wantnick, motd} \subseteq Nicks
    /\ {firstnick, snick} \subseteq Nicks \cup {NoNick}
    /\ triggered \in Nat
    /\ chan \in [Chans -> Channel \cup {Absent}]
    /\ stored \in [Entries -> Chans \cup {NoChan}]
    /\ names \in [state : 0 .. 2, chan : Chans \cup {NoChan}]
    /\ client \in BOOLEAN /\ leavequit \in BOOLEAN
    /\ srv \in [Chans -> NickList]
    /\ stopic \in [Chans -> Topics]
    /\ cview \in View
    /\ shifted \subseteq Chans
    /\ events \in 0 .. MaxEvents

-----------------------------------------------------------------------------
(* Lines and requests *)
Line(cmd, n, ch, arg) == [cmd |-> cmd, nick |-> n, chan |-> ch, arg |-> arg]
Request(cmd, n, ch) == [cmd |-> cmd, nick |-> n, chan |-> ch]

Member(list, n) == list[n] # Out
Listed(ch) == chan[ch] # Absent
On(ch) == Listed(ch) /\ chan[ch].ison

(* 353 shows one prefix of a nick, the highest. *)
Top(s) == IF "o" \in s THEN {"o"} ELSE s
Shown(list) == [n \in Nicks |-> Top(list[n])]

(* A nick list after a line, by the rules of IRC: for server and client.     *)
ByTheRules(list, m) ==
    CASE m.cmd = "JOIN" -> [list EXCEPT ![m.nick] = {}]
      [] m.cmd \in {"PART", "KICK", "QUIT"} -> [list EXCEPT ![m.nick] = Out]
      [] m.cmd = "NICK" -> [list EXCEPT ![m.arg] = list[m.nick], ![m.nick] = Out]
      [] m.cmd = "353" -> [n \in Nicks |-> IF m.arg[n] = Out THEN list[n] ELSE m.arg[n]]
      [] m.cmd = "MODE" ->
           FoldLeft(LAMBDA l, c :
                      IF c.mode \in Prefix /\ c.nick \in Nicks /\ Member(l, c.nick)
                      THEN [l EXCEPT ![c.nick] = IF c.add THEN @ \cup {c.mode} ELSE @ \ {c.mode}]
                      ELSE l, list, m.arg)
      [] OTHER -> list

(* The topic of a channel after a line. *)
TopicAfter(topic, m, ch) == IF m.cmd \in {"TOPIC", "332"} /\ m.chan = ch THEN m.arg ELSE topic

(* What the client makes of a line: its own JOIN starts a new list, and with *)
(* its own PART or KICK the list ends; 001 names its nick.                   *)
UsersSeen(view, m, ch) ==
    LET list == view.users[ch]
    IN  IF m.cmd \in {"NICK", "QUIT"} THEN IF Member(list, m.nick) THEN ByTheRules(list, m) ELSE list
        ELSE IF ch # m.chan THEN list
        ELSE IF m.cmd = "JOIN" /\ m.nick = view.nick THEN [Nobody EXCEPT ![m.nick] = {}]
        ELSE IF m.cmd \in {"PART", "KICK"} /\ m.nick = view.nick THEN Nobody
        ELSE ByTheRules(list, m)

ClientSees(view, m) ==
    [nick |-> IF m.cmd = "001" THEN m.nick
              ELSE IF m.cmd = "NICK" /\ m.nick = view.nick THEN m.arg ELSE view.nick,
     users |-> [ch \in Chans |-> UsersSeen(view, m, ch)],
     topic |-> [ch \in Chans |->
                  IF m.chan = ch /\ m.cmd = "JOIN" /\ m.nick = view.nick THEN ""
                  ELSE TopicAfter(view.topic[ch], m, ch)]]

NoView == [nick |-> Wantnick, users |-> [ch \in Chans |-> Nobody], topic |-> [ch \in Chans |-> ""]]

-----------------------------------------------------------------------------
(* The list of channels *)

(* countconfentries and writeini for the section CHANNELS. *)
FreeEntry(st) == Min({e \in Entries : st[e] = NoChan})

(* Mutant: the channel is saved behind its entry. *)
addchanneltouser_Entry(ch) ==
    /\ chan' = [chan EXCEPT ![ch] = [entry |-> FreeEntry(stored), ison |-> TRUE,
                                     users |-> [Nobody EXCEPT ![nick] = {}],
                                     hosts |-> {nick}, topic |-> "", tracked |-> Prefix]]
    /\ stored' = [stored EXCEPT ![FreeEntry(stored) + 1] = ch]

(* addchanneltouser from gotjoin: the new channel is saved under the first   *)
(* free entry.  gotjoin() then copies prefixmodes into the channel's         *)
(* chanmodes, so that modes with a parameter are not known any more.         *)
addchanneltouser(ch) ==
    /\ chan' = [chan EXCEPT ![ch] = [entry |-> FreeEntry(stored), ison |-> TRUE,
                                     users |-> [Nobody EXCEPT ![nick] = {}],
                                     hosts |-> {nick}, topic |-> "", tracked |-> Prefix]]
    /\ stored' = [stored EXCEPT ![FreeEntry(stored)] = ch]

(* clearsectionconfig("USERn.CHANNELS.ENTRYe") erases by prefix: with e from *)
(* 1 to 9 the entries e0 to e9 too.                                          *)
SamePrefix(e) == {f \in Entries : f = e \/ (e # 0 /\ f \div 10 = e)}

(* removechannelfromuser for the channels C. *)
Removed(C) ==
    LET gone == UNION {SamePrefix(chan[ch].entry) : ch \in C}
    IN  [e \in Entries |-> IF e \in gone THEN NoChan ELSE stored[e]]

removechannelfromuser(C) ==
    /\ chan' = [ch \in Chans |-> IF ch \in C THEN Absent ELSE chan[ch]]
    /\ stored' = Removed(C)

(* removenickfromchannel *)
removenickfromchannel(c, n) == [c EXCEPT !.users[n] = Out, !.hosts = @ \ {n}]

(* removenickfromallchannels: a channel that has no nicks then is removed    *)
(* from the list, one the user is not on yet too.                            *)
removenickfromallchannels(n) ==
    LET Empty == {ch \in Chans : Listed(ch) /\ removenickfromchannel(chan[ch], n).users = Nobody}
    IN  /\ chan' = [ch \in Chans |-> IF ~Listed(ch) \/ ch \in Empty THEN Absent
                                     ELSE removenickfromchannel(chan[ch], n)]
        /\ stored' = Removed(Empty)

(* nickchange *)
nickchange(old, new) ==
    chan' = [ch \in Chans |->
               IF Listed(ch) /\ Member(chan[ch].users, old)
               THEN [chan[ch] EXCEPT !.users[new] = chan[ch].users[old], !.users[old] = Out,
                                     !.hosts = IF old \in @ THEN (@ \ {old}) \cup {new} ELSE @ \ {new}]
               ELSE chan[ch]]

(* removeallusersfromchannel, ison and topic cleared. *)
Left(c) == [c EXCEPT !.ison = FALSE, !.users = Nobody, !.hosts = {}, !.topic = ""]

resetallchannels == [ch \in Chans |-> IF Listed(ch) THEN Left(chan[ch]) ELSE Absent]

(* loadchannels: a channel with two entries is taken from the last one.      *)
loadchannels(st) ==
    [ch \in Chans |->
       LET es == {e \in Entries : st[e] = ch}
       IN  IF es = {} THEN Absent
           ELSE [entry |-> Max(es), ison |-> FALSE, users |-> Nobody, hosts |-> {},
                 topic |-> "", tracked |-> {}]]

(* rejoinchannels: a JOIN for every channel the user is not on. *)
rejoinchannels(cs) == {Request("JOIN", nick, ch) : ch \in {c \in Chans : cs[c] # Absent /\ ~cs[c].ison}}

(* One change of a MODE line in addchannelmode.  Modes that are in neither   *)
(* list are skipped, and so is not their parameter: st.par is the rest of    *)
(* the parameters.                                                           *)
ModeStep(c, st, change) ==
    IF change.mode \notin c.tracked THEN st
    ELSE LET who == Head(st.par)
         IN  [par |-> Tail(st.par),
              users |-> IF change.mode \in Prefix /\ who \in Nicks /\ Member(st.users, who)
                        THEN [st.users EXCEPT ![who] = IF change.add THEN @ \cup {change.mode}
                                                       ELSE @ \ {change.mode}]
                        ELSE st.users]

addchannelmode(c, changes) ==
    [c EXCEPT !.users =
       FoldLeft(LAMBDA st, change : ModeStep(c, st, change),
                [par |-> [i \in DOMAIN changes |-> changes[i].nick], users |-> c.users],
                changes).users]

-----------------------------------------------------------------------------
(* Lines read by the bouncer.  Each one is relayed to an attached client     *)
(* after its handler (useroutbound).                                         *)

Got(cmd) == wire # <<>> /\ Head(wire).cmd = cmd /\ wire' = Tail(wire)
Relay(view) == IF client THEN ClientSees(view, Head(wire)) ELSE view

(* serverinit: the server's nick is taken over, all channels are joined      *)
(* again, the line is kept in the MOTD file.                                 *)
serverinit ==
    /\ nick' = Head(wire).nick /\ firstnick' = nick' /\ motd' = nick'
    /\ chan' = resetallchannels
    /\ asked' = IF leavequit THEN asked
                ELSE asked \cup {Request("JOIN", nick', ch) : ch \in {c \in Chans : Listed(c)}}

msg001 ==
    /\ Got("001")
    /\ link' = "up"
    /\ serverinit
    /\ cview' = Relay(cview)
    /\ UNCHANGED <<stored, names, wantnick, triggered, client, server>>

(* numnick: the nick wanted with a random number. *)
numnick == Nicks \ {wantnick, Othernick}

(* msg432to437, nickused: before the welcome another nick is tried, first    *)
(* "_" with the nick wanted, then random ones.                               *)
msg432to437 ==
    LET m == Head(wire)
    IN  /\ Got("433")
        /\ \/ link = "up" /\ UNCHANGED asked
           \/ /\ link # "up" /\ m.nick = wantnick
              /\ asked' = asked \cup {Request("NICK", Othernick, NoChan)}
           \/ /\ link # "up" /\ m.nick # wantnick
              /\ \E n \in numnick : asked' = asked \cup {Request("NICK", n, NoChan)}
        /\ UNCHANGED <<link, bouncer, client, server, cview>>

(* getops: an operator the list matches, whose host is known. *)
getops(c) == {n \in Nicks : "o" \in Top(c.users[n]) /\ n \in c.hosts /\ n \in Askops}

(* askforop: on a channel where the user is no operator, one operator is     *)
(* asked, the first of the list that matches.                                *)
askforop(ch) ==
    LET c == chan[ch]
    IN  IF On(ch) /\ Member(c.users, nick) /\ "o" \notin c.users[nick] /\ getops(c) # {}
        THEN {{Request("ASK", n, ch)} : n \in getops(c)} ELSE {{}}

(* hasmode of the user's own nick. *)
hasmode(ch) == Listed(ch) /\ "o" \in chan[ch].users[nick]

(* checkbans and checkautoop: only where the user is known to be operator.   *)
checkbans(m) ==
    {Request("KICK", n, m.chan) : n \in IF hasmode(m.chan) THEN Banned \cap {m.nick} ELSE {}}

checkautoop(m) ==
    {Request("OP", n, m.chan) : n \in IF hasmode(m.chan) THEN Friends \cap {m.nick} ELSE {}}

(* addnicktochannel: a nick that is listed keeps its modes; its host is the  *)
(* one given.                                                                *)
addnicktochannel(c, n) == [c EXCEPT !.users[n] = IF @ = Out THEN {} ELSE @, !.hosts = @ \cup {n}]

(* gotjoin *)
gotjoin ==
    LET m == Head(wire)
        c == chan[m.chan]
        Added == addnicktochannel(c, m.nick)
    IN  /\ Got("JOIN")
        /\ \/ /\ m.nick = nick /\ ~Listed(m.chan)
              /\ addchanneltouser(m.chan)
              /\ UNCHANGED asked
           \/ /\ m.nick = nick /\ Listed(m.chan)
              /\ chan' = [chan EXCEPT ![m.chan] = [Added EXCEPT !.ison = TRUE, !.tracked = Prefix]]
              /\ UNCHANGED <<stored, asked>>
           \/ /\ m.nick # nick
              /\ chan' = IF Listed(m.chan) THEN [chan EXCEPT ![m.chan] = Added] ELSE chan
              /\ asked' = asked \cup checkbans(m) \cup checkautoop(m)
              /\ UNCHANGED stored
        /\ cview' = Relay(cview)
        /\ UNCHANGED <<link, nick, nicks, triggered, names, client, server>>

(* gotpart: the user's own PART removes the channel if a client is attached; *)
(* without one it was LEAVEQUIT, and the channel is kept.                    *)
gotpart ==
    LET m == Head(wire)
    IN  /\ Got("PART")
        /\ \/ /\ m.nick = nick /\ client /\ Listed(m.chan)
              /\ removechannelfromuser({m.chan})
           \/ /\ Listed(m.chan) /\ ~(m.nick = nick /\ client)
              /\ chan' = [chan EXCEPT ![m.chan] =
                            IF m.nick = nick THEN Left(@) ELSE removenickfromchannel(@, m.nick)]
              /\ UNCHANGED stored
           \/ ~Listed(m.chan) /\ UNCHANGED <<chan, stored>>
        /\ cview' = Relay(cview)
        /\ UNCHANGED <<link, nick, nicks, triggered, names, client, server, asked>>

(* Mutant: the user is taken for one of the others. *)
gotkick_Stays ==
    LET m == Head(wire)
    IN  /\ Got("KICK")
        /\ chan' = IF Listed(m.chan)
                   THEN [chan EXCEPT ![m.chan] = removenickfromchannel(@, m.nick)] ELSE chan
        /\ cview' = Relay(cview)
        /\ UNCHANGED <<link, stored, nick, nicks, triggered, names, client, server, asked>>

(* gotkick *)
gotkick ==
    LET m == Head(wire)
    IN  /\ Got("KICK")
        /\ chan' = IF Listed(m.chan)
                   THEN [chan EXCEPT ![m.chan] =
                           IF m.nick = nick THEN Left(@) ELSE removenickfromchannel(@, m.nick)]
                   ELSE chan
        /\ cview' = Relay(cview)
        /\ UNCHANGED <<link, stored, nick, nicks, triggered, names, client, server, asked>>

(* gotquit *)
gotquit ==
    LET m == Head(wire)
    IN  /\ Got("QUIT")
        /\ IF m.nick = nick THEN chan' = resetallchannels /\ UNCHANGED stored
           ELSE removenickfromallchannels(m.nick)
        /\ cview' = Relay(cview)
        /\ UNCHANGED <<link, nick, nicks, triggered, names, client, server, asked>>

(* gotnick *)
gotnick ==
    LET m == Head(wire)
    IN  /\ Got("NICK")
        /\ nick' = IF m.nick = nick THEN m.arg ELSE nick
        /\ nickchange(m.nick, m.arg)
        /\ cview' = Relay(cview)
        /\ UNCHANGED <<link, stored, nicks, triggered, names, client, server, asked>>

(* gotmode *)
gotmode ==
    LET m == Head(wire)
    IN  /\ Got("MODE")
        /\ chan' = IF Listed(m.chan) THEN [chan EXCEPT ![m.chan] = addchannelmode(@, m.arg)]
                   ELSE chan
        /\ cview' = Relay(cview)
        /\ UNCHANGED <<link, stored, nick, nicks, triggered, names, client, server, asked>>

(* A channel with the nicks of a names line: their prefix replaces the modes *)
(* known, and their host is forgotten.                                       *)
WithNames(c, list) ==
    [c EXCEPT !.users = [n \in Nicks |-> IF list[n] = Out THEN @[n] ELSE list[n]],
              !.hosts = {n \in @ : list[n] = Out}]

(* msg353 *)
msg353 ==
    LET m == Head(wire)
    IN  /\ Got("353")
        /\ names' = IF names.state = 0 THEN [state |-> 1, chan |-> m.chan] ELSE names
        /\ chan' = IF Listed(m.chan)
                   THEN [chan EXCEPT ![m.chan] = WithNames(@, m.arg)] ELSE chan
        /\ cview' = Relay(cview)
        /\ UNCHANGED <<link, stored, nick, nicks, triggered, client, server, asked>>

(* gottopic, msg332: setchanneltopic *)
gottopic ==
    LET m == Head(wire)
    IN  /\ Got("TOPIC") \/ Got("332")
        /\ chan' = IF Listed(m.chan) THEN [chan EXCEPT ![m.chan].topic = m.arg] ELSE chan
        /\ cview' = Relay(cview)
        /\ UNCHANGED <<link, stored, nick, nicks, triggered, names, client, server, asked>>

(* performwho: a line of a WHO reply names a nick with its host. *)
performwho(m) ==
    IF Listed(m.chan) THEN [chan EXCEPT ![m.chan] = addnicktochannel(@, m.nick)] ELSE chan

(* msg352: the lines of a reply the client waits for are only relayed. *)
msg352 ==
    /\ Got("352")
    /\ chan' = IF triggered = 0 THEN performwho(Head(wire)) ELSE chan
    /\ UNCHANGED <<link, stored, nick, nicks, triggered, names, client, server, asked, cview>>

(* msg315: the end of the reply. *)
msg315 ==
    LET ch == Head(wire).chan
    IN  /\ Got("315")
        /\ \/ /\ triggered = 0
              /\ \E R \in askforop(ch) : asked' = asked \cup R
              /\ UNCHANGED triggered
           \/ /\ triggered > 0
              /\ triggered' = triggered - 1
              /\ UNCHANGED asked
        /\ UNCHANGED <<link, stored, nick, nicks, chan, names, client, server, cview>>

(* sendnames: the list of the channel ch as the client gets it; while names   *)
(* of ch are coming in, it is sent after their end.                          *)
sendnames(view, ch) == [view EXCEPT !.users[ch] = Shown(chan[ch].users)]
Deferred(ch) == names.state = 1 /\ names.chan = ch

(* msg366 *)
msg366 ==
    /\ Got("366")
    /\ names' = NoNames
    /\ cview' = IF names.state = 2 /\ client /\ Listed(names.chan)
                THEN sendnames(cview, names.chan) ELSE cview
    /\ \E R \in IF names.state = 0 THEN {{}} ELSE askforop(names.chan) : asked' = asked \cup R
    /\ UNCHANGED <<link, chan, stored, nick, nicks, triggered, client, server>>

(* pong: without a client (and with AUTOREJOIN), channels are joined again,  *)
(* the nick is tried again and operators are asked.                          *)
pong ==
    /\ Got("PING")
    /\ \/ client /\ UNCHANGED asked
       \/ /\ ~client
          /\ \E R \in [Chans -> UNION {askforop(ch) : ch \in Chans}] :
                /\ \A ch \in Chans : R[ch] \in askforop(ch)
                /\ asked' = asked \cup (IF leavequit THEN {} ELSE rejoinchannels(chan))
                                 \cup {Request("NICK", wantnick, NoChan)}
                                 \cup UNION {R[ch] : ch \in Chans}
    /\ UNCHANGED <<link, bouncer, client, server, cview>>

(* userconnected: the nick wanted is asked for. *)
userconnected ==
    /\ link = "down" /\ link' = "reg"
    /\ triggered' = 0
    /\ asked' = {Request("NICK", wantnick, NoChan)}
    /\ UNCHANGED <<nick, nicks, chan, stored, names, client, server, wire, cview>>

(* The connection is gone; the server may take the nick for another user's   *)
(* until it finds out (a ghost).                                             *)
Unregistered ==
    /\ snick' = NoNick
    /\ wire' = <<>> /\ asked' = {}
    /\ \E ghost \in BOOLEAN :
          IF ghost \/ snick = NoNick THEN UNCHANGED <<srv, stopic>>
          ELSE /\ srv' = [ch \in Chans |-> [srv[ch] EXCEPT ![snick] = Out]]
               /\ stopic' = [ch \in Chans |-> IF srv'[ch] = Nobody THEN "" ELSE stopic[ch]]

(* userclosed, usererror, msgERROR: the connection is lost. *)
Disconnected ==
    /\ link # "down"
    /\ link' = "down"
    /\ chan' = resetallchannels
    /\ Unregistered
    /\ UNCHANGED <<nick, nicks, triggered, stored, names, client, cview>>

(* A restart of the bouncer; the nick is the one last saved. *)
Restart ==
    /\ link' = "down" /\ client' = FALSE
    /\ wantnick' = nick /\ firstnick' = NoNick /\ triggered' = 0
    /\ chan' = loadchannels(stored)
    /\ names' = NoNames
    /\ Unregistered
    /\ cview' = NoView
    /\ UNCHANGED <<nick, motd, stored>>

-----------------------------------------------------------------------------
(* Clients *)

(* Mutant: a client is not given the names, only its own join. *)
rejoinclient_Bare(view) ==
    [view EXCEPT !.users = [ch \in Chans |-> IF On(ch) THEN [Nobody EXCEPT ![nick] = {}] ELSE Nobody]]

(* rejoinclient: a JOIN, the topic and the names or, while they are coming   *)
(* in, later.                                                                *)
rejoinclient(view) ==
    [view EXCEPT
       !.topic = [ch \in Chans |-> IF On(ch) THEN chan[ch].topic ELSE ""],
       !.users = [ch \in Chans |->
                    IF ~On(ch) THEN Nobody
                    ELSE IF Deferred(ch) THEN [Nobody EXCEPT ![nick] = {}]
                    ELSE Shown(chan[ch].users)]]

(* repeatserverinit: the welcome of the MOTD file, and the change of the     *)
(* nick since then.                                                          *)
repeatserverinit == [NoView EXCEPT !.nick = IF firstnick = motd THEN nick ELSE motd]

(* linkpeer, for a user who has no client. *)
Attach ==
    /\ ~client /\ client' = TRUE
    /\ wantnick' = Wantnick
    /\ nick' = IF link = "down" THEN Wantnick ELSE nick
    /\ \/ /\ link = "up" /\ ~leavequit
          /\ cview' = rejoinclient(repeatserverinit)
          /\ names' = IF \E ch \in Chans : On(ch) /\ Deferred(ch)
                      THEN [names EXCEPT !.state = 2] ELSE names
          /\ asked' = asked \cup {Request("NICK", Wantnick, NoChan)}
       \/ /\ link = "up" /\ leavequit
          /\ asked' = asked \cup rejoinchannels(chan) \cup {Request("NICK", Wantnick, NoChan)}
          /\ cview' = repeatserverinit
          /\ UNCHANGED names
       \/ /\ link = "reg"
          /\ asked' = asked \cup {Request("NICK", Wantnick, NoChan)}
          /\ cview' = repeatserverinit
          /\ UNCHANGED names
       \/ /\ link = "down"
          /\ cview' = NoView
          /\ UNCHANGED <<asked, names>>
    /\ UNCHANGED <<link, firstnick, motd, triggered, chan, stored, server, wire>>

(* quitclient, partleavemsg *)
Detach ==
    /\ client /\ client' = FALSE
    /\ triggered' = 0
    /\ asked' = IF link = "down" THEN asked
                ELSE asked \cup {Request("NICK", wantnick, NoChan)}
                           \cup (IF leavequit THEN {Request("PART", nick, ch) : ch \in {c \in Chans : On(c)}}
                                 ELSE {})
    /\ cview' = NoView
    /\ UNCHANGED <<link, nick, nicks, chan, stored, names, server, wire>>

(* JOIN, PART, NICK and WHO of the client go to the server as they are.      *)
(* cmdnick keeps the nick wanted, cmdwho counts.                             *)
ClientAsks(cmd, n, ch) ==
    /\ client /\ link = "up"
    /\ asked' = asked \cup {Request(cmd, n, ch)}
    /\ wantnick' = IF cmd = "NICK" THEN n ELSE wantnick
    /\ triggered' = IF cmd = "WHO" THEN triggered + 1 ELSE triggered
    /\ UNCHANGED <<link, nick, firstnick, motd, chan, stored, names, client, server, wire, cview>>

ClientCommand ==
    \/ \E cmd \in {"JOIN", "PART", "WHO"}, ch \in Chans : ClientAsks(cmd, nick, ch)
    \/ \E n \in Nicks : ClientAsks("NICK", n, NoChan)

-----------------------------------------------------------------------------
(* The IRC server *)

Send(lines) == Len(wire) + Len(lines) <= MaxWire /\ wire' = wire \o lines
FreeNick(n) == n # snick /\ \A ch \in Chans : ~Member(srv[ch], n)
OnSrv(ch) == snick # NoNick /\ Member(srv[ch], snick)
SeenBy(n) == \E ch \in Chans : Member(srv[ch], n) /\ OnSrv(ch)
Unmoved == UNCHANGED <<bouncer, client, cview>>

(* NICK, before the connection is registered and after.                      *)
SrvNicked(r) ==
    \/ /\ r.cmd = "NICK" /\ ~FreeNick(r.nick) /\ r.nick # snick
       /\ Send(<<Line("433", r.nick, NoChan, <<>>)>>)
       /\ UNCHANGED server
    \/ /\ r.cmd = "NICK" /\ FreeNick(r.nick) /\ snick = NoNick
       /\ Send(<<Line("001", r.nick, NoChan, <<>>)>>)
       /\ snick' = r.nick
       /\ UNCHANGED <<srv, stopic>>
    \/ /\ r.cmd = "NICK" /\ FreeNick(r.nick) /\ snick # NoNick
       /\ Send(<<Line("NICK", snick, NoChan, r.nick)>>)
       /\ snick' = r.nick
       /\ srv' = [ch \in Chans |-> IF Member(srv[ch], snick)
                     THEN ByTheRules(srv[ch], Line("NICK", snick, ch, r.nick)) ELSE srv[ch]]
       /\ UNCHANGED stopic

(* The user's own JOIN is answered with the topic, if there is one, and the  *)
(* names, which may take two lines.                                          *)
SrvJoin(r) ==
    LET first == srv[r.chan] = Nobody
        list == [srv[r.chan] EXCEPT ![snick] = IF first THEN {"o"} ELSE {}]
        Part(S) == Line("353", snick, r.chan, [n \in Nicks |-> IF n \in S THEN Top(list[n]) ELSE Out])
        Topic == IF stopic[r.chan] = "" THEN <<>> ELSE <<Line("332", snick, r.chan, stopic[r.chan])>>
    IN  /\ r.cmd = "JOIN" /\ ~Member(srv[r.chan], snick)
        /\ srv' = [srv EXCEPT ![r.chan] = list]
        /\ \E split \in {Nicks, {snick}} :
              Send(<<Line("JOIN", snick, r.chan, <<>>)>> \o Topic \o <<Part(split)>>
                     \o (IF split = Nicks THEN <<>> ELSE <<Part(Nicks \ split)>>)
                     \o <<Line("366", snick, r.chan, <<>>)>>)
        /\ UNCHANGED <<snick, stopic>>

(* WHO is answered with a line for every member. *)
SrvWho(r) ==
    /\ r.cmd = "WHO"
    /\ LET Here == IF OnSrv(r.chan) THEN {n \in Nicks : Member(srv[r.chan], n)} ELSE {}
           Lines == [i \in 1 .. Cardinality(Here) |-> Line("352", SetToSeq(Here)[i], r.chan, <<>>)]
       IN  Send(Lines \o <<Line("315", snick, r.chan, <<>>)>>)
    /\ UNCHANGED server

(* PART, and KICK and OP by an operator; an operator who is asked may obey.  *)
SrvObeys(r) ==
    LET by == IF r.cmd = "ASK" THEN r.nick ELSE snick
        Op(n) == <<[mode |-> "o", add |-> TRUE, nick |-> n]>>
        m == CASE r.cmd = "PART" -> Line("PART", snick, r.chan, <<>>)
               [] r.cmd = "KICK" -> Line("KICK", r.nick, r.chan, <<>>)
               [] r.cmd = "ASK" -> Line("MODE", by, r.chan, Op(snick))
               [] OTHER -> Line("MODE", by, r.chan, Op(r.nick))
    IN  /\ r.cmd \in {"PART", "KICK", "OP", "ASK"}
        /\ r.cmd = "PART" \/ ("o" \in srv[r.chan][by] /\ Member(srv[r.chan], r.nick))
        /\ OnSrv(r.chan)
        /\ srv' = [srv EXCEPT ![r.chan] = ByTheRules(@, m)]
        /\ stopic' = [stopic EXCEPT ![r.chan] = IF srv'[r.chan] = Nobody THEN "" ELSE @]
        /\ Send(<<m>>)
        /\ UNCHANGED snick

(* A request is obeyed or refused, a PART only where there is nothing to     *)
(* leave.                                                                    *)
SrvRefuses(r) ==
    /\ r.cmd \notin {"NICK", "WHO"}
    /\ r.cmd = "PART" => ~OnSrv(r.chan)
    /\ UNCHANGED <<server, wire>>

SrvRequest(r) ==
    /\ link # "down" /\ r \in asked
    /\ asked' = asked \ {r}
    /\ \/ SrvNicked(r)
       \/ snick # NoNick /\ (SrvJoin(r) \/ SrvWho(r) \/ SrvObeys(r) \/ SrvRefuses(r))
       \/ r.cmd = "NICK" /\ r.nick = snick /\ UNCHANGED <<server, wire>>
    /\ UNCHANGED link /\ Unmoved

(* A line about a channel is sent if the user is on it. *)
SrvChannelLine(m) ==
    /\ srv' = [srv EXCEPT ![m.chan] = ByTheRules(@, m)]
    /\ stopic' = [stopic EXCEPT ![m.chan] = IF srv'[m.chan] = Nobody THEN "" ELSE TopicAfter(@, m, m.chan)]
    /\ IF OnSrv(m.chan) THEN Send(<<m>>) ELSE UNCHANGED wire
    /\ UNCHANGED <<link, snick, asked>> /\ Unmoved

SrvOthers(n, ch) ==
    \/ /\ ~Member(srv[ch], n) /\ n # snick
       /\ SrvChannelLine(Line("JOIN", n, ch, <<>>))
    \/ /\ Member(srv[ch], n) /\ n # snick
       /\ SrvChannelLine(Line("PART", n, ch, <<>>))
    \/ /\ Member(srv[ch], n)
       /\ SrvChannelLine(Line("KICK", n, ch, <<>>))
    \/ /\ Member(srv[ch], n)
       /\ SrvChannelLine(Line("TOPIC", n, ch, "topic"))
    \/ \E changes \in ModeLines :
          /\ Member(srv[ch], n)
          /\ SrvChannelLine(Line("MODE", n, ch, [i \in DOMAIN changes |->
                IF changes[i].mode \in Prefix THEN [changes[i] EXCEPT !.nick = n] ELSE changes[i]]))

(* QUIT and NICK are sent if the user shares a channel with the nick.        *)
SrvQuit(n) ==
    /\ n # snick /\ ~FreeNick(n)
    /\ srv' = [ch \in Chans |-> [srv[ch] EXCEPT ![n] = Out]]
    /\ stopic' = [ch \in Chans |-> IF srv'[ch] = Nobody THEN "" ELSE stopic[ch]]
    /\ IF SeenBy(n) THEN Send(<<Line("QUIT", n, NoChan, <<>>)>>) ELSE UNCHANGED wire
    /\ UNCHANGED <<link, snick, asked>> /\ Unmoved

SrvNick(n, new) ==
    /\ n # new /\ n # snick /\ FreeNick(new) /\ ~FreeNick(n)
    /\ srv' = [ch \in Chans |-> IF Member(srv[ch], n)
                                THEN ByTheRules(srv[ch], Line("NICK", n, ch, new)) ELSE srv[ch]]
    /\ IF SeenBy(n) THEN Send(<<Line("NICK", n, NoChan, new)>>) ELSE UNCHANGED wire
    /\ UNCHANGED <<link, snick, stopic, asked>> /\ Unmoved

SrvPing ==
    /\ link = "up" /\ Send(<<Line("PING", snick, NoChan, <<>>)>>)
    /\ UNCHANGED <<link, server, asked>> /\ Unmoved

-----------------------------------------------------------------------------
Init ==
    /\ link = "down" /\ client = FALSE /\ leavequit \in BOOLEAN
    /\ nick = Wantnick /\ wantnick = nick /\ motd = nick /\ firstnick = NoNick
    /\ snick = NoNick /\ triggered = 0
    /\ stored \in StoredChans
    /\ chan = loadchannels(stored)
    /\ names = NoNames
    /\ srv = [ch \in Chans |-> Nobody]
    /\ wire = <<>> /\ asked = {}
    /\ stopic = [ch \in Chans |-> ""]
    /\ cview = NoView
    /\ shifted = {}
    /\ events = 0

(* A mode of a nick behind one that addchannelmode() skips, as in             *)
(* "+bo mask nick".                                                          *)
Shifts(changes) ==
    \E i, j \in DOMAIN changes : i < j /\ changes[i].mode \notin Prefix /\ changes[j].mode \in Prefix

Receive ==
    LET ch == Head(wire).chan
    IN  \/ gotmode /\ shifted' = IF Shifts(Head(wire).arg) THEN shifted \cup {ch} ELSE shifted
        \/ gotjoin /\ shifted' = IF Head(wire).nick = nick THEN shifted \ {ch} ELSE shifted
        \/ /\ \/ msg001 \/ gotpart \/ gotkick \/ gotquit \/ gotnick \/ gottopic
              \/ msg315 \/ msg352 \/ msg353 \/ msg366 \/ msg432to437 \/ pong
           /\ UNCHANGED shifted

Event ==
    \/ Disconnected \/ Restart \/ Attach \/ Detach \/ ClientCommand \/ SrvPing
    \/ \E n \in Nicks : SrvQuit(n)
    \/ \E n \in Nicks, ch \in Chans : SrvOthers(n, ch)
    \/ \E n, new \in Nicks : SrvNick(n, new)

Next ==
    /\ \/ Receive /\ UNCHANGED events
       \/ (userconnected \/ \E r \in asked : SrvRequest(r)) /\ UNCHANGED <<shifted, events>>
       \/ /\ Event /\ events < MaxEvents /\ events' = events + 1
          /\ shifted' = IF link' = "down" THEN {} ELSE shifted
    /\ UNCHANGED leavequit

Spec == Init /\ [][Next]_vars

-----------------------------------------------------------------------------
(* Properties *)

Quiet == link = "up" /\ wire = <<>>

(* The same nicks and, where no MODE line was misread, the same operators.   *)
SameNicks(ch, a, b) ==
    \A n \in Nicks :
       /\ Member(a, n) = Member(b, n)
       /\ ch \in shifted \/ ("o" \in a[n]) = ("o" \in b[n])

(* README: "every names-list [...] of users and channels will be kept": once  *)
(* all lines are read, the bouncer knows its nick, the channels it is on,    *)
(* their nicks and which of them are operators, whatever was joined, left,   *)
(* kicked or renamed in between and however often the connection was lost.   *)
(* (A MODE line in which a nick's mode comes after a ban, a key or a limit is *)
(* misread, since gotjoin() overwrites chanmodes: who is operator is then     *)
(* unknown until the user joins the channel again.)                          *)
ViewMatches ==
    Quiet =>
      /\ nick = snick
      /\ \A ch \in Chans :
           /\ On(ch) = Member(srv[ch], snick)
           /\ On(ch) => SameNicks(ch, chan[ch].users, srv[ch]) /\ chan[ch].topic = stopic[ch]

(* The client knows its nick, and, without LEAVEQUIT, it has the nicks and  *)
(* the topic of every channel the user is on - whenever it attached, in the  *)
(* middle of a names reply too.  (With LEAVEQUIT a client that is back       *)
(* before the answer to the PART or to an earlier JOIN is not told of the    *)
(* channel.)                                                                 *)
ClientMatches ==
    Quiet /\ client =>
      /\ cview.nick = snick
      /\ leavequit \/ \A ch \in Chans : Member(srv[ch], snick) =>
            SameNicks(ch, cview.users[ch], srv[ch]) /\ cview.topic[ch] = stopic[ch]

(* A restart finds the channels of the list: each is saved under its entry,  *)
(* no two share one, and nothing else is saved, as long as no entry has two  *)
(* digits (removing entry 1 removes what is saved under 10 to 19, too).      *)
ChannelsSaved ==
    (\A ch \in Chans : Listed(ch) => chan[ch].entry < 10) =>
    /\ \A ch \in Chans : Listed(ch) => stored[chan[ch].entry] = ch
    /\ \A e \in Entries : stored[e] # NoChan => Listed(stored[e]) /\ chan[stored[e]].entry = e

(* The list: the channels that are saved are those of the list, each under    *)
(* its own entry.                                                            *)
Consistent == TypeOK /\ ChannelsSaved
=============================================================================
