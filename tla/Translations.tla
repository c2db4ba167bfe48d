------------------------------ MODULE Translations -----------------------------
(* The translations that are under way (p_translate.c, an optional part): a    *)
(* text is posted to a web service over a socket of its own, the lines of the  *)
(* answer go through four handlers that look for the marks around the          *)
(* translation, and the last of them sends it on. Jobs are found by number,    *)
(* by the first entry of the list that has it.                                 *)
(*                                                                             *)
(* Texts are numbered; the socket of a job has the number of its text. The     *)
(* answers of the service are left open: any handler may find its mark in the  *)
(* next line.                                                                  *)
EXTENDS Integers, Sequences, SequencesExt, FiniteSetsExt, Functions

CONSTANTS
    MAXSYNTRANS,    \* "number of maximum syncrone running translations": 120
    TIMEOUT         \* delayed of a new job: 30

VARIABLES
    translate,      \* the list of jobs
    service,        \* the handler of each open socket to the service, and uid
    overrun         \* history: a job was refused

translateVars == <<translate, service, overrun>>

(* Table f with one more entry, or with another one in its place.              *)
With(f, x, v) == [y \in DOMAIN f \cup {x} |-> IF y = x THEN v ELSE f[y]]

(* The entries of f whose numbers are in D and below n, in order.              *)
Collected(f, D, n) ==
    LET upto[i \in 0 .. n] ==
          IF i = 0 THEN <<>>
          ELSE IF i - 1 \in D THEN Append(upto[i - 1], f[i - 1])
          ELSE upto[i - 1]
    IN  upto[n]

(* The entry that is left in the list when a job is refused.                   *)
Blank == [uid |-> 0, sock |-> 0, dest |-> "none", dir |-> "TO", delayed |-> 0,
          parts |-> {}]

(* A job as addtranslate() fills it in.                                        *)
NewJob(uid, n, dest, dir) ==
    [uid |-> uid, sock |-> n, dest |-> dest, dir |-> dir, delayed |-> TIMEOUT, parts |-> {}]

Handlers == {"part1", "part2", "part3", "part4"}
After == [h \in {"part1", "part2", "part3"} |->
            CASE h = "part1" -> "part2" [] h = "part2" -> "part3" [] OTHER -> "part4"]

(* gettranslate(): the position of the number in a list, 0 if it has none.     *)
gettranslate(tr, uid) == SelectInSeq(tr, LAMBDA t : t.uid = uid)

(* The jobs erasetranslate(uid) takes from list tr. Killing the socket of the  *)
(* first one calls translatedone(), which looks for the number again, unless   *)
(* it is the socket s whose destructor is running, or there is none.           *)
Erased(tr, uid, s) ==
    LET i == gettranslate(tr, uid)
    IN  IF i = 0 THEN {}
        ELSE IF uid = 0 \/ tr[i].sock \in {s, 0} THEN {i}
        ELSE {j \in DOMAIN tr : tr[j].uid = uid}

(* The jobs of tr without the ones at the positions of I.                      *)
Without(tr, I) == Collected(tr, DOMAIN tr \ I, Len(tr) + 1)

(* erasetranslate(): of tr and the sockets sv, the entries and their sockets   *)
(* go.                                                                         *)
Erase(tr, sv, I, S) ==
    /\ translate' = Without(tr, I)
    /\ service' = Restrict(sv, DOMAIN sv \ ({tr[i].sock : i \in I} \cup S))
    /\ UNCHANGED overrun

(* The rest of addtranslate(), with the number uid. Entries are counted before *)
(* the limit is looked at, and an entry is linked by then. createsocket() may  *)
(* fail: the job stays without a socket. The name of the service is looked up  *)
(* at once, and if that or connect() fails the socket is closed, and the job   *)
(* erased, before addtranslate() goes on.                                      *)
newtranslate(uid, n, dest, dir) ==
    LET cnt == IF translate = <<>> THEN 0 ELSE Len(translate) - 1
        tr == Append(translate, NewJob(uid, n, dest, dir))
        sv == With(service, n, [uid |-> uid, handler |-> "part1"])
    IN  IF cnt > MAXSYNTRANS
        THEN /\ translate' = Append(translate, Blank)
             /\ overrun' = TRUE
             /\ UNCHANGED service
        ELSE \/ translate' = tr /\ service' = sv /\ UNCHANGED overrun
             \/ /\ translate' = Append(translate, NewJob(uid, 0, dest, dir))
                /\ UNCHANGED <<service, overrun>>
             \/ Erase(tr, sv, Erased(tr, uid, n), {n})

(* Mutant: the number is the length of the list. *)
addtranslate_Same(n, dest, dir) == newtranslate(Len(translate) + 1, n, dest, dir)

(* addtranslate(): the number after the last one in the list.                  *)
addtranslate(n, dest, dir) ==
    newtranslate(IF translate = <<>> THEN 1 ELSE Last(translate).uid + 1, n, dest, dir)

(* translatedpart1() to translatedpart3(): the next handler is set on the      *)
(* socket of the entry found, and a piece of the line kept with it.            *)
translatedpart(s) ==
    LET i == gettranslate(translate, service[s].uid)
        own == translate[i].sock
    IN  /\ service[s].handler # "part4" /\ i # 0
        /\ IF own \in DOMAIN service
           THEN /\ service' = [service EXCEPT ![own].handler = After[service[s].handler]]
                /\ translate' = IF service[s].handler = "part1" THEN translate
                                ELSE [translate EXCEPT ![i].parts = @ \cup {s}]
                /\ UNCHANGED overrun
           ELSE Erase(translate, service, Erased(translate, service[s].uid, 0), {})

(* translatedpart4() before the end mark: more of the text.                    *)
translatedtext(s) ==
    LET i == gettranslate(translate, service[s].uid)
    IN  /\ service[s].handler = "part4" /\ i # 0
        /\ translate' = [translate EXCEPT ![i].parts = @ \cup {s}]
        /\ UNCHANGED <<service, overrun>>

(* translatedpart4() at the end mark: the job is done.                         *)
translatedpart4(s) ==
    /\ service[s].handler = "part4" /\ gettranslate(translate, service[s].uid) # 0
    /\ Erase(translate, service, Erased(translate, service[s].uid, 0), {})

(* The entry whose text is sent by then.                                       *)
Finished(s) == translate[gettranslate(translate, service[s].uid)]

(* translatederror(), translatedone(): the socket fails or is closed.          *)
translatedone(s) == Erase(translate, service, Erased(translate, service[s].uid, s), {s})

(* cleartranslates(): jobs that take too long are given up.                    *)
cleartranslates ==
    LET late == {i \in DOMAIN translate : translate[i].delayed - 1 <= 0}
        gone == UNION {IF translate[i].uid = 0 THEN {i}
                       ELSE Erased(translate, translate[i].uid, 0) : i \in late}
        kept == Without(translate, gone)
    IN  /\ translate # <<>>
        /\ translate' = [i \in DOMAIN kept |-> [kept[i] EXCEPT !.delayed = @ - 1]]
        /\ service' = Restrict(service, DOMAIN service \ {translate[i].sock : i \in gone})
        /\ UNCHANGED overrun

InitTranslations == translate = <<>> /\ service = <<>> /\ overrun = FALSE

--------------------------------------------------------------------------------
(* Unless a job was refused, the sockets to the service and the jobs that got  *)
(* one belong to each other one to one, whatever fails and at which point: no  *)
(* answer goes into another text, no job waits for a socket that is gone, and  *)
(* no socket is left over.                                                     *)
JobsOwnSockets ==
    ~overrun =>
      /\ DOMAIN service = {translate[i].sock : i \in DOMAIN translate} \ {0}
      /\ \A i, j \in DOMAIN translate : translate[i].uid = translate[j].uid => i = j
      /\ \A i \in DOMAIN translate :
            /\ translate[i].sock # 0 => service[translate[i].sock].uid = translate[i].uid
            /\ translate[i].parts \subseteq {translate[i].sock} \ {0}

================================================================================
