---------------------------- MODULE NetworkToken ----------------------------
(***************************************************************************)
(* Network tokens.  A user has one main connection and further networks; a  *)
(* line from the server of a network is rewritten so that nicks and channels*)
(* of that network carry its token (net~nick, #net~#chan) and the user's own*)
(* nick there becomes the nick of the main connection (addtoken and the     *)
(* handlers of thash); a line from the client is sent to the network whose  *)
(* token it carries, with the tokens removed (checknetwork).                *)
(*                                                                         *)
(* A name the client is shown is [net, nm]: nm with the token net, or       *)
(* without one.  A line from a server is a command, its source and its      *)
(* parameters.  A line from the client is a sequence of symbols: blanks, the*)
(* characters checknetwork() looks at, and words.                           *)
(***************************************************************************)
EXTENDS Naturals, Sequences, SequencesExt

CONSTANTS
    Nicks, Chans,   \* nicks and channels
    Server          \* the name of a server, a source without '@'

NoNet == "nonet"
Plain(n) == [net |-> NoNet, nm |-> n]
Token(net, n) == [net |-> net, nm |-> n]

(* A server line: the source, the command, and the parameters in order.      *)
Line(cmd, from, params) == [cmd |-> cmd, from |-> from, params |-> params]
Nothing == [cmd |-> "", from |-> Plain(Server), params |-> <<>>]

-----------------------------------------------------------------------------
(* From a server to the client.  c is the connection: the token net, the    *)
(* user's nick there and the nick of the main connection, my and main.      *)

(* parentnick: the own nick, as the source or as a parameter of its own.     *)
parentnick(c, n) == IF n = c.my THEN c.main ELSE n

Own(c, n) == n \in {c.my, c.main}

(* A nick that is the user's stays without a token, any other gets it.       *)
Nick(c, n) == IF Own(c, n) THEN Plain(c.main) ELSE Token(c.net, n)

(* The source: only nick!user@host is given a token, and not the nick the    *)
(* user has on the main connection.                                          *)
Source(c, from) == IF from = Server THEN Plain(Server) ELSE Nick(c, from)

Tokened(c, names) == [i \in DOMAIN names |-> Token(c.net, names[i])]
Shown(c, names) == [i \in DOMAIN names |-> Nick(c, names[i])]

(* netnick: the own nick change is not shown, nor one to the main nick.      *)
netnick(c, m) ==
    IF Own(c, m.params[1]) THEN Nothing
    ELSE Line(m.cmd, Source(c, m.from), Tokened(c, m.params))

(* netquit *)
netquit(c, m) ==
    IF m.from = c.my THEN Nothing ELSE Line(m.cmd, Source(c, m.from), <<>>)

(* netjoin, netpart, nettopic, netinvite: the channel gets the token.        *)
netchannel(c, m) ==
    Line(m.cmd, Source(c, m.from), Tokened(c, m.params))

(* netprivmsg: a channel gets the token; the own nick is the main nick.      *)
netprivmsg(c, m) ==
    Line(m.cmd, Source(c, m.from),
         IF m.params[1] \in Chans THEN Tokened(c, m.params)
         ELSE <<Plain(parentnick(c, m.params[1]))>>)

(* netkick: the nick is compared after parentnick() has replaced the own one *)
(* by the main one, so that the own one is found only where both are equal.  *)
netkick(c, m) ==
    LET nick == parentnick(c, m.params[2])
    IN  Line(m.cmd, Source(c, m.from),
             <<Token(c.net, m.params[1]),
               IF nick = c.my THEN Plain(nick) ELSE Token(c.net, nick)>>)

(* netmode: params are the channel and the parameters of the modes.  ept     *)
(* points to the first mode of chanmodes when it is compared with 'l' and    *)
(* 'k', so that a key or a limit is treated like a nick or a mask.           *)
netmode(c, m) ==
    Line(m.cmd, Source(c, m.from),
         <<Token(c.net, Head(m.params))>> \o Shown(c, Tail(m.params)))

(* netnames (353): params are the channel and the nicks.  The nick before    *)
(* the end of the line, where no blank follows, is copied as it is.          *)
netnames(c, m) ==
    LET last == Len(m.params)
        Name(i) == IF m.params[i] = c.my THEN Plain(c.main)
                   ELSE IF i = last /\ ~m.blank THEN Plain(m.params[i])
                   ELSE Token(c.net, m.params[i])
    IN  Line(m.cmd, Source(c, m.from),
             [i \in DOMAIN m.params |-> IF i = 1 THEN Token(c.net, m.params[1]) ELSE Name(i)])

(* netwho (352): like netkick, after parentnick().                           *)
netwho(c, m) ==
    LET nick == parentnick(c, m.params[2])
    IN  Line(m.cmd, Source(c, m.from),
             <<Token(c.net, m.params[1]),
               IF nick = c.my THEN Plain(c.main) ELSE Token(c.net, nick)>>)

(* netwhoischannels (319), the nick by way of netdefault().                  *)
netwhoischannels(c, m) ==
    Line(m.cmd, Source(c, m.from),
         <<Nick(c, m.params[1])>> \o Tokened(c, Tail(m.params)))

(* netisonuserhost (302, 303): the token is put before the text, that is    *)
(* before the first entry only, whose nick is recognised as the own one by   *)
(* the '=' behind it, which only a 302 has.                                  *)
netisonuserhost(c, m) ==
    LET first == m.params[1]
    IN  Line(m.cmd, Source(c, m.from),
             <<IF m.cmd = "302" /\ first = c.my THEN Plain(first) ELSE Token(c.net, first)>>
             \o [i \in 1 .. Len(m.params) - 1 |-> Plain(m.params[i + 1])])

(* netdefault: the first parameter of any other numeric; those after it are  *)
(* copied.                                                                   *)
netdefault(c, m) ==
    Line(m.cmd, Source(c, m.from),
         [i \in DOMAIN m.params |->
            IF i > 1 THEN Plain(parentnick(c, m.params[i]))
            ELSE IF m.params[1] \in Chans THEN Token(c.net, m.params[1])
            ELSE Nick(c, m.params[1])])

addtoken(c, m) ==
    CASE m.cmd = "MODE" -> netmode(c, m)
      [] m.cmd = "KICK" -> netkick(c, m)
      [] m.cmd \in {"PRIVMSG", "NOTICE"} -> netprivmsg(c, m)
      [] m.cmd = "NICK" -> netnick(c, m)
      [] m.cmd \in {"JOIN", "PART", "TOPIC", "INVITE"} -> netchannel(c, m)
      [] m.cmd = "QUIT" -> netquit(c, m)
      [] m.cmd = "353" -> netnames(c, m)
      [] m.cmd = "319" -> netwhoischannels(c, m)
      [] m.cmd = "352" -> netwho(c, m)
      [] m.cmd \in {"302", "303"} -> netisonuserhost(c, m)
      [] OTHER -> netdefault(c, m)

-----------------------------------------------------------------------------
(* From the client to a server. *)

(* strchr(): the first x of the line from symbol i on; 0 if there is none.   *)
Find(line, x, i) ==
    LET at == {j \in i .. Len(line) : line[j] = x}
    IN  IF at = {} THEN 0 ELSE Min(at)

(* Mutant: the '~' of an ident in a hostmask is taken for a token's. *)
Mark_First(line) == Find(line, "~", 1)

(* The '~' behind the token: not one that follows '*' or '!', as the ident of *)
(* a hostmask does.  The one after that is taken as it is.                   *)
Mark(line) ==
    LET first == Find(line, "~", 1)
    IN  IF first > 1 /\ line[first - 1] \in {"*", "!"} THEN Find(line, "~", first + 1) ELSE first

(* The text of a line, but for NICK. *)
InText(line, at) ==
    LET colon == Find(line, ":", 2)
    IN  colon # 0 /\ at > colon /\ line[1] # "NICK"

(* The blank or ':' before the token; 1, the start of the line, if none is.   *)
Before(line, at) == Max({1} \cup {i \in 2 .. at : line[i] \in {" ", ":"}})

(* checknetwork: nets are the networks of the user.  The network the line is *)
(* for, NoNet for the main connection, and what is left of the line: all of  *)
(* it without a token, and nothing with the token of an unknown network.     *)
(* (Tokens that begin the name of the internal network are left out.)        *)
checknetwork(nets, line) ==
    LET at == Mark(line)
        start == Before(line, at)
        word == SubSeq(line, start + 1, at - 1)
        token == IF word # <<>> /\ Head(word) = "#" THEN Tail(word) ELSE word
        Main(rest) == [net |-> NoNet, line |-> rest]
    IN  IF at = 0 \/ InText(line, at) \/ start = 1 THEN Main(line)
        ELSE IF \E net \in nets : token = <<net>>
        THEN [net |-> token[1],
              line |-> SubSeq(line, 1, start - 1) \o <<" ">> \o SubSeq(line, at + 1, Len(line))]
        ELSE Main(<<>>)

(* userinbound: the first token chooses the network, and checknetwork() is   *)
(* called until it finds no other one.                                       *)
Routed(nets, line) ==
    LET first == checknetwork(nets, line)
        left[k \in 0 .. Len(line)] ==
            IF k = 0 THEN first.line ELSE checknetwork(nets, left[k - 1]).line
    IN  [net |-> first.net, line |-> left[Len(line)]]

-----------------------------------------------------------------------------
(* The lines a server of a network may send to the connection c. *)
Others(c) == Nicks \ {c.my, c.main}

ServerLines(c) ==
    LET Lines(cmds, srcs, ps) ==
            {[cmd |-> k, from |-> n, params |-> p, blank |-> TRUE] : k \in cmds, n \in srcs, p \in ps}
        Sources == {Server} \cup Nicks
        One(S) == {<<x>> : x \in S}
    IN  Lines({"JOIN", "PART", "TOPIC", "PRIVMSG", "INVITE"}, Sources, One(Chans))
        \cup Lines({"NICK", "NOTICE"}, Sources, One(Nicks))
        \cup Lines({"KICK", "MODE"}, Sources, Chans \X Nicks)
        \cup Lines({"QUIT"}, Nicks, {<<>>})
        \cup Lines({"302", "303", "401"}, {Server}, One(Nicks))
        \cup Lines({"302", "303"}, {Server}, Nicks \X Nicks)
        \cup Lines({"319", "341"}, {Server}, Nicks \X Chans)
        \cup Lines({"352"}, {Server}, Chans \X Nicks)
        \cup Lines({"366"}, {Server}, One(Chans))
        \cup {[cmd |-> "353", from |-> Server, params |-> p, blank |-> b] :
                 p \in Chans \X Nicks \X Nicks, b \in BOOLEAN}

(* Names of others that the client is shown without a token: the last one of *)
(* a 353 without a blank behind it, all but the first of a 302 or 303, the   *)
(* channel of a 341, and the nick a PRIVMSG or NOTICE is sent to.            *)
Bare(m, i) ==
    \/ m.cmd = "353" /\ i = Len(m.params) /\ ~m.blank
    \/ m.cmd \in {"302", "303", "341"} /\ i > 1
    \/ m.cmd = "NOTICE"

(* The names of others, as the client is shown them. *)
ShownNames(c, m) ==
    LET shown == addtoken(c, m)
    IN  IF shown = Nothing THEN {}
        ELSE {shown.from : x \in {m.from} \cap Others(c)}
             \cup {shown.params[i] : i \in {j \in DOMAIN m.params :
                                            m.params[j] \in Others(c) \cup Chans /\ ~Bare(m, j)}}

(* What a client writes with the name n in it: what is before and after it.  *)
Uses(n) ==
    {[pre |-> <<"PRIVMSG", " ">>, post |-> <<" ", ":", "see", " ", "a", "~", "b">>]}
    \cup IF n \in Chans
         THEN {[pre |-> <<"JOIN", " ">>, post |-> <<>>],
               [pre |-> <<"MODE", " ">>, post |-> <<" ", "+b", " ", "*", "!", "~", "u">>]}
         ELSE {[pre |-> <<"WHOIS", " ">>, post |-> <<>>],
               [pre |-> <<"NICK", " ", ":">>, post |-> <<>>]}

Text(n) ==
    (IF n.net # NoNet /\ n.nm \in Chans THEN <<"#">> ELSE <<>>)
    \o (IF n.net # NoNet THEN <<n.net, "~">> ELSE <<>>) \o <<n.nm>>

(* The line with n, and what is left of it: the blank or ':' before a token  *)
(* is written again as a blank.                                              *)
With(use, n) == use.pre \o Text(n) \o use.post
Without(use, n) == Front(use.pre) \o <<" ", n.nm>> \o use.post

(* The channel n and the nick k in one line. *)
Pair(cmd, n, k) ==
    <<cmd, " ">> \o n
    \o (IF cmd = "KICK" THEN <<" ">> \o k \o <<" ", ":", "a", "~", "b">>
        ELSE <<" ", "+ob", " ">> \o k \o <<" ", "*", "!", "~", "u">>)

(* nets are the networks checknetwork() finds for the client, has says        *)
(* whether the user has the network c.net.  Every other name in the line m is *)
(* shown with its token, and a line with it reaches c.net, under the plain   *)
(* name, or nobody if the user does not have c.net any more; a line without a *)
(* token, whatever '~' its text or a hostmask has, goes to the main           *)
(* connection as it is.                                                       *)
RoutesBack(c, nets, has, m) ==
    LET Reaches(line, rest) ==
            Routed(nets, line) = IF has THEN [net |-> c.net, line |-> rest]
                                 ELSE [net |-> NoNet, line |-> <<>>]
    IN  \A n \in ShownNames(c, m) :
           /\ n.net = c.net
           /\ \A use \in Uses(n.nm) :
                 LET bare == With(use, Plain(n.nm))
                 IN  /\ Reaches(With(use, n), Without(use, n))
                     /\ Routed(nets, bare) = [net |-> NoNet, line |-> bare]
           /\ \A k \in ShownNames(c, m), cmd \in {"KICK", "MODE"} :
                 n.nm \in Chans /\ k.nm \notin Chans =>
                    Reaches(Pair(cmd, Text(n), Text(k)), Pair(cmd, <<n.nm>>, <<k.nm>>))
=============================================================================
