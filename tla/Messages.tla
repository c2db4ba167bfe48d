-------------------------------- MODULE Messages -------------------------------
(* What a user record does with messages: the lists of hosts the user keeps    *)
(* (p_string.c and the ADD and DEL commands of p_client.c), the handling of    *)
(* PRIVMSG (msgprivmsg, p_server.c), the logs of what arrives while no client  *)
(* is attached (p_log.c), and what the client writes (cmdprivmsg), which may   *)
(* be encrypted or translated on the way.                                      *)
(*                                                                             *)
(* A list is held in memory and, one entry a line, in the configuration        *)
(* (ENTRY0, ENTRY1, ...). Hosts stand for the masks that match them; messages  *)
(* are numbered as they arrive.                                                *)
EXTENDS PsyCrypt, Translations, FiniteSets

CONSTANTS
    Kinds,          \* the lists of a user: OP, AOP, ASK, BAN, IGN, LGI, ENC, TRA
    Hosts,          \* correspondents
    Passwords,      \* passwords given to ADDOP and its like, none with a "+" before it
    LOADED,         \* entries loadlist() reads: 100
    KEPT,           \* characters of a password that an entry has room for in
                    \* value[200] of getini(), beside the host: 98 or less
    MAXITEML,       \* entries countconfentries() tells apart: 256
    Setups          \* the cases to consider: the lists in use, what the client
                    \* writes, and bounds on entries in all lists together, and
                    \* on the number of the last message and of the last text

ASSUME MessagesAssumption ==
    /\ {"OP", "IGN", "LGI", "ENC", "TRA"} \subseteq Kinds
    /\ \A p \in Passwords : p \in Texts
    /\ LOADED \in Nat /\ KEPT \in Nat \ {0} /\ MAXITEML \in Nat /\ MAXSYNTRANS \in Nat /\ TIMEOUT \in Nat
    /\ \A s \in Setups : /\ s.kinds \subseteq Kinds
                         /\ {s.entries, s.messages, s.texts} \subseteq Nat

VARIABLES
    lists,          \* lists[k]: the list in memory
    conf,           \* conf[k]: the entries of its section of the configuration
    attached,       \* instate = STD_CONN
    private,        \* the private log and its .old copy
    traffic,        \* the lines of the traffic log
    lastlog,        \* the mark of PLAYTRAFFICLOG LAST in memory
    saved,          \* and in the configuration
    played,         \* lines PLAYTRAFFICLOG LAST has shown, in order
    count,          \* messages so far
    sent,           \* the last line to the server for the client, and the keys
                    \* the configuration had for its receiver by then
    setup,          \* the case
    queries         \* private messages that came while no client was attached
                    \* and that nobody asked to hide

listVars == <<lists, conf>>
trafficVars == <<traffic, lastlog, saved, played>>
textVars == <<translateVars, sent>>
vars == <<lists, conf, attached, private, trafficVars, count, queries, textVars, setup>>

(* The form a password has in a list.                                          *)
Stored == [p \in Passwords |-> cryptit(p)]

(* What is left of it in value[200] of getini(), or buf1[200] of checkcrypt(): *)
(* the mark and the digits of the first characters. (Room for half a pair of   *)
(* digits, which depends on the host, is not considered.)                      *)
Kept(s) == IF Len(s) > 2 * KEPT + 1 THEN SubSeq(s, 1, 2 * KEPT + 1) ELSE s

(* What is read from these forms.                                              *)
Params == Range(Stored) \cup {Kept(s) : s \in Range(Stored)}
Read == [s \in Params |-> decryptit(s)]

(* "host;param"; lists of passwords keep the parameter encrypted.              *)
Secret == {"OP", "AOP", "ASK", "ENC"}
Entry == [host : Hosts, param : Params \cup {<<>>}]
Cut(e) == [host |-> e.host, param |-> Kept(e.param)]

Message == [from : Hosts, to : {"me", "chan"}, body : {"text", "ctcp", "dcc", "op"},
            pass : Passwords]

(* countconfentries(): the first number no entry has, 0 if all are in use.     *)
lastfree(k) ==
    LET free == {i \in 0 .. MAXITEML - 1 : i \notin DOMAIN conf[k]} IN
    IF free = {} THEN 0 ELSE Min(free)

(* getini() of the entries of a section.                                       *)
getini(c) == [i \in DOMAIN c |-> Cut(c[i])]

(* loadlist(): the entries below LOADED, in the order of their numbers.        *)
loadlist(k) == Collected(getini(conf[k]), DOMAIN conf[k], LOADED)

Numbered(list) == [i \in 0 .. Len(list) - 1 |-> list[i + 1]]

(* LISTOPS and its like, liststrings(): the entries and their numbers.         *)
Listed(k) == Numbered(lists[k])

--------------------------------------------------------------------------------
(* writelist(): duplicates are allowed.                                        *)
writelist(k, e) ==
    /\ lists' = [lists EXCEPT ![k] = Append(@, e)]
    /\ conf' = [conf EXCEPT ![k] = With(@, lastfree(k), e)]

Room == FoldSet(LAMBDA j, n : n + Len(lists[j]), 0, Kinds) < setup.entries

(* ADDOP, ADDAUTOOP, ADDASK: a host and a password.                            *)
Add(k) ==
    /\ Room /\ k \in {"OP", "AOP", "ASK"}
    /\ \E h \in Hosts, p \in Passwords : writelist(k, [host |-> h, param |-> Stored[p]])
    /\ UNCHANGED <<attached, private, trafficVars, count, queries, textVars>>

(* ADDALLOW, ADDBAN, ADDIGNORE, ADDLOG: a mask and a filter.                   *)
AddMask(k) ==
    /\ Room /\ k \in {"BAN", "IGN", "LGI"}
    /\ \E h \in Hosts : writelist(k, [host |-> h, param |-> <<>>])
    /\ UNCHANGED <<attached, private, trafficVars, count, queries, textVars>>

(* ENCRYPT key :target *)
cmdencrypt ==
    /\ Room /\ "ENC" \in setup.kinds
    /\ \E h \in Hosts, p \in Passwords : writelist("ENC", [host |-> h, param |-> Stored[p]])
    /\ UNCHANGED <<attached, private, trafficVars, count, queries, textVars>>

(* TRANSLATE target :languages, both of which are known.                       *)
cmdtranslate ==
    /\ Room /\ "TRA" \in setup.kinds
    /\ \E h \in Hosts : writelist("TRA", [host |-> h, param |-> <<>>])
    /\ UNCHANGED <<attached, private, trafficVars, count, queries, textVars>>

(* removestring(): entry n goes if there is one.                               *)
removestring(n, list) == IF n < Len(list) THEN RemoveAt(list, n + 1) ELSE list

(* Mutant: the entries of the section stay. *)
eraselist_Keeps(k, n) ==
    LET list == removestring(n, lists[k]) IN
    /\ lists' = [lists EXCEPT ![k] = list]
    /\ conf' = [conf EXCEPT ![k] = Numbered(list) @@ @]

(* eraselist(), for the DEL commands: the section is cleared and written anew  *)
(* from memory.                                                                *)
eraselist(k, n) ==
    LET list == removestring(n, lists[k]) IN
    /\ lists' = [lists EXCEPT ![k] = list]
    /\ conf' = [conf EXCEPT ![k] = Numbered(list)]

Del(k) ==
    /\ \E n \in DOMAIN Listed(k) \cup {Len(lists[k])} : eraselist(k, n)
    /\ UNCHANGED <<attached, private, trafficVars, count, queries, textVars>>

(* checkstrings(): the first entry whose mask matches the sender.              *)
checkstrings(k, h) == SelectInSeq(lists[k], LAMBDA e : e.host = h)

checkignores(m) == checkstrings("IGN", m.from) # 0

(* checkop(): "op password channel" from a host of the list, granted where the *)
(* user is an operator (isop, which ChannelView is about).                     *)
checkop(m, isop) ==
    LET i == checkstrings("OP", m.from) IN
    i # 0 /\ isop /\ Read[lists["OP"][i].param] = m.pass

(* privatelog(): CTCP is not logged.                                           *)
privatelog(m) ==
    private' = IF m.body = "ctcp" THEN private
               ELSE [private EXCEPT !.log = Append(@, count')]

(* checklogging(): a line goes to the traffic log if an entry of the list has  *)
(* its destination and its filter matches, which is left open here.            *)
checklogging ==
    \/ /\ lists["LGI"] # <<>>
       /\ traffic' = Append(traffic, count')
    \/ UNCHANGED traffic

(* The rest of useroutbound(): the client gets the line, or it is logged.      *)
Relay ==
    /\ IF attached THEN UNCHANGED traffic ELSE checklogging
    /\ UNCHANGED <<lastlog, saved, played>>

(* A PRIVMSG that nobody hides from the user, as parsed.                       *)
Query(m) == m.to = "me" /\ m.body \in {"text", "op"} /\ ~checkignores(m)

(* A private message is logged while no client is attached. checkop() has by   *)
(* then put the channel in the place of the receiver.                          *)
Logged(m) == m.to = "me" /\ ~attached /\ m.body # "op"

(* checktranslate(): a job for the first entry with the name.                  *)
checktranslate(h, dir) ==
    IF checkstrings("TRA", h) = 0 THEN UNCHANGED translateVars
    ELSE addtranslate(count', h, dir)

(* msgprivmsg(): ignored senders and DCC requests end here. Op requests that   *)
(* are granted while the user looks on are not shown, but a translation is     *)
(* under way by then.                                                          *)
msgprivmsg(m, isop) ==
    /\ count < setup.messages
    /\ count' = count + 1
    /\ queries' = IF Query(m) /\ ~attached THEN queries \cup {<<count', m.body>>} ELSE queries
    /\ \/ /\ checkignores(m) \/ (m.body = "dcc" /\ m.to = "me")
          /\ UNCHANGED <<private, trafficVars, translateVars>>
       \/ /\ ~checkignores(m)
          /\ ~(m.body = "dcc" /\ m.to = "me")
          /\ checktranslate(m.from, "FROM")
          /\ IF m.body = "op" /\ checkop(m, isop) /\ attached
             THEN UNCHANGED <<private, trafficVars>>
             ELSE /\ IF Logged(m) THEN privatelog(m) ELSE UNCHANGED private
                  /\ Relay
    /\ UNCHANGED <<listVars, attached, sent>>

--------------------------------------------------------------------------------
(* What the client writes to a correspondent with PRIVMSG: text, an ACTION,    *)
(* another CTCP, or text marked [N]. A line that goes out is plain, encrypted  *)
(* or translated.                                                              *)
Bodies == {"text", "action", "ctcp", "marked"}

(* What it writes without any check: a NOTICE, for which there is no handler,  *)
(* a PRIVMSG to several receivers, whose names are compared as one, and one    *)
(* without ":", of which the receiver is not parsed.                           *)
Unchecked == {"notice", "several", "bare"}

NoLine == [form |-> "none", key |-> <<>>, keys |-> {}, body |-> "text"]
Plain == [form |-> "plain", key |-> <<>>]

(* The key of the first entry with the name: what buf1[200] keeps of it.       *)
Keyed(h) == checkstrings("ENC", h) # 0
Key(h) == Read[Kept(lists["ENC"][checkstrings("ENC", h)].param)]

(* Mutant: an ACTION is taken for another CTCP. *)
checkcrypt_NoAction(h, body) ==
    IF Keyed(h) /\ body = "text" THEN [form |-> "cipher", key |-> Key(h)] ELSE Plain

(* checkcrypt() of an outgoing line.                                           *)
checkcrypt(h, body) ==
    IF Keyed(h) /\ body \in {"text", "action"} THEN [form |-> "cipher", key |-> Key(h)] ELSE Plain

(* The keys a restart would find for h, as long as the section is not full.    *)
Configured(h) ==
    IF Cardinality(DOMAIN conf["ENC"]) >= MAXITEML THEN {}
    ELSE {Read[e.param] : e \in {f \in ToSet(loadlist("ENC")) : f.host = h}}

(* cmdprivmsg(): a text for translation is not sent, also if it was refused.   *)
cmdprivmsg(h, body) ==
    /\ attached
    /\ count < setup.texts
    /\ count' = count + 1
    /\ checktranslate(h, "TO")
    /\ sent' = IF checkstrings("TRA", h) # 0 THEN sent
               ELSE [form |-> checkcrypt(h, body).form, key |-> checkcrypt(h, body).key,
                     keys |-> Configured(h), body |-> body]
    /\ UNCHANGED <<listVars, attached, private, trafficVars, queries>>

(* userinbound() of such a line: it goes out as it came.                       *)
userinbound(h, body) ==
    /\ attached
    /\ sent' = [form |-> "plain", key |-> <<>>, keys |-> Configured(h), body |-> body]
    /\ UNCHANGED <<listVars, attached, private, trafficVars, count, queries, translateVars>>

(* A line of the service, the end of its connection, or the clock.             *)
Translating ==
    /\ \/ /\ \/ \E s \in DOMAIN service : translatedpart(s) \/ translatedtext(s) \/ translatedone(s)
             \/ cleartranslates
          /\ UNCHANGED sent
       \/ \E s \in DOMAIN service :
             /\ translatedpart4(s)
             /\ sent' = IF Finished(s).dir = "TO"
                        THEN [form |-> "translated", key |-> <<>>, keys |-> {}, body |-> "text"]
                        ELSE sent
    /\ UNCHANGED <<listVars, attached, private, trafficVars, count, queries>>

--------------------------------------------------------------------------------
(* eraseprivatelog(): the log becomes the .old copy, the older copy goes.      *)
eraseprivatelog ==
    /\ attached
    /\ private.log # <<>>
    /\ private' = [log |-> <<>>, old |-> private.log]
    /\ queries' = {q \in queries : q[1] \in ToSet(private.log)}
    /\ UNCHANGED <<listVars, attached, trafficVars, count, textVars>>

(* Mutant: the mark is not saved. *)
playtrafficlog_Unsaved ==
    /\ attached
    /\ played' = played \o SubSeq(traffic, lastlog + 1, Len(traffic))
    /\ lastlog' = Max({lastlog, Len(traffic)})
    /\ UNCHANGED <<listVars, attached, private, traffic, saved, count, queries, textVars>>

(* playtrafficlog() with LAST: from the mark to the end, which is the new      *)
(* mark; it is saved with the user.                                            *)
playtrafficlog ==
    /\ attached
    /\ played' = played \o SubSeq(traffic, lastlog + 1, Len(traffic))
    /\ lastlog' = Max({lastlog, Len(traffic)})
    /\ saved' = lastlog'
    /\ UNCHANGED <<listVars, attached, private, traffic, count, queries, textVars>>

(* erasetrafficlog(): a new log; the mark is set back in memory.               *)
erasetrafficlog ==
    /\ attached
    /\ traffic' = <<>>
    /\ lastlog' = 0
    /\ UNCHANGED <<listVars, attached, private, saved, played, count, queries, textVars>>

(* A client comes or goes.                                                     *)
Attach ==
    /\ attached' = ~attached
    /\ UNCHANGED <<listVars, private, trafficVars, count, queries, textVars>>

(* BREHASH, or SIGHUP: the outgoing sockets are killed, and with them the jobs *)
(* that have one, while clients stay; loaduser() reads the mark, and the lists *)
(* that are empty.                                                             *)
cmdrehash ==
    /\ lists' = [k \in Kinds |-> IF lists[k] = <<>> THEN loadlist(k) ELSE lists[k]]
    /\ lastlog' = saved
    /\ translate' = Without(translate, {i \in DOMAIN translate : translate[i].sock # 0})
    /\ service' = <<>>
    /\ UNCHANGED <<conf, attached, private, traffic, saved, played, count, queries, overrun, sent>>

(* The program ends in order and starts again.                                 *)
Restart ==
    /\ lists' = [k \in Kinds |-> loadlist(k)]
    /\ lastlog' = saved
    /\ attached' = FALSE
    /\ translate' = <<>> /\ service' = <<>> /\ overrun' = FALSE
    /\ UNCHANGED <<conf, private, traffic, saved, played, count, queries, sent>>

Init ==
    /\ lists = [k \in Kinds |-> <<>>]
    /\ conf = [k \in Kinds |-> <<>>]
    /\ attached = FALSE
    /\ private = [log |-> <<>>, old |-> <<>>]
    /\ traffic = <<>> /\ lastlog = 0 /\ saved = 0 /\ played = <<>>
    /\ count = 0
    /\ queries = {}
    /\ InitTranslations /\ sent = NoLine
    /\ setup \in Setups

Next ==
    /\ \/ \E k \in setup.kinds : Add(k) \/ AddMask(k) \/ Del(k)
       \/ cmdencrypt \/ cmdtranslate
       \/ \E m \in Message, isop \in BOOLEAN : msgprivmsg(m, isop)
       \/ \E h \in Hosts, body \in Bodies \cap setup.bodies : cmdprivmsg(h, body)
       \/ \E h \in Hosts, body \in Unchecked \cap setup.bodies : userinbound(h, body)
       \/ Translating
       \/ eraseprivatelog \/ playtrafficlog \/ erasetrafficlog
       \/ Attach \/ cmdrehash \/ Restart
    /\ UNCHANGED setup

Spec == Init /\ [][Next]_vars

--------------------------------------------------------------------------------
(* Lists and their sections hold entries, logs hold messages, and the marks    *)
(* are offsets.                                                                *)
TypeOK ==
    /\ \A k \in Kinds : /\ ToSet(lists[k]) \subseteq Entry
                        /\ Range(conf[k]) \subseteq Entry
                        /\ DOMAIN conf[k] \subseteq Nat
    /\ attached \in BOOLEAN
    /\ ToSet(private.log) \cup ToSet(private.old) \cup ToSet(traffic) \subseteq 1 .. count
    /\ lastlog \in 0 .. count /\ saved \in 0 .. count
    /\ sent.form \in {"none", "plain", "cipher", "translated"}
    /\ DOMAIN service \subseteq 1 .. count

(* As long as a section is not full, the numbers LIST shows and DEL takes are  *)
(* those of the entries that come back after a restart, up to LOADED of them,  *)
(* as they were or, where value[200] has no room for them, cut.                *)
ListSaved ==
    \A k \in Kinds : Cardinality(DOMAIN conf[k]) < MAXITEML =>
      loadlist(k) = [i \in 1 .. Min({LOADED, Len(lists[k])}) |-> Cut(lists[k][i])]

(* The password of an entry is one that was given, or, of a longer one than    *)
(* fits, the beginning: encrypting for the configuration, cutting and          *)
(* decrypting for the comparison lose nothing else, for passwords too where    *)
(* offsets and salts wrap.                                                     *)
PasswordKept ==
    \A k \in Kinds \cap Secret : \A e \in ToSet(lists[k]) : \E p \in Passwords :
      Read[e.param] = p \/ (Len(p) > KEPT /\ Read[e.param] = SubSeq(p, 1, KEPT))

(* Text or an ACTION that is written with PRIVMSG to one correspondent for     *)
(* whom the configuration has keys goes out under one of them, whatever        *)
(* restarts, reloads and changes of the lists came before. Marked text, other  *)
(* CTCP, translations and the lines of Unchecked are not encrypted.            *)
SecretKept ==
    sent.keys # {} /\ sent.body \in {"text", "action"} =>
      sent.form = "cipher" /\ sent.key \in sent.keys

(* PLAYTRAFFICLOG LAST shows no line twice and none out of order, across       *)
(* detaching, rehash, deleted logs and restarts between two calls.             *)
PlayedOnce == \A i, j \in DOMAIN played : i < j => played[i] < played[j]

(* A private message that comes while no client is attached is in the private  *)
(* log or its copy, unless it is shaped like an op request.                    *)
QueriesLogged ==
    \A q \in queries : q[2] = "text" => q[1] \in ToSet(private.log) \cup ToSet(private.old)

(* The lists: they come back from the configuration as they were, as far as    *)
(* value[200] has room, with the passwords that were given.                    *)
Consistent == TypeOK /\ ListSaved /\ PasswordKept

(* The logs: they hold what came while no client was attached, and give no     *)
(* line twice.                                                                 *)
LogsExact == QueriesLogged /\ PlayedOnce
=============================================================================
