------------------------------- MODULE Daemon -------------------------------
(***************************************************************************)
(* The process around the configuration file: main() with the listening     *)
(* sockets it creates, the signal handlers it installs, and what FIXLISTENER *)
(* and a failing accept() do to both while ConfigFile saves the              *)
(* configuration.                                                           *)
(*                                                                         *)
(* A listener whose bind() failed stays in the socket table: killsocket()    *)
(* spares every socket whose callback is checknewlistener.  The next pass of *)
(* socketdriver finds it readable, accept() fails on it, and p_accept()      *)
(* clears the callback before it kills the socket.                          *)
(***************************************************************************)
EXTENDS ConfigFile, FiniteSetsExt

CONSTANTS
    Entries,    \* numbers of the HOSTn / PORTn entries of the configuration
    Address,    \* the address of an entry; two entries may name the same one
    Signals,    \* the signals that arrive
    MaxFailed   \* bound: listeners that failed to bind and are not yet closed

ASSUME DaemonAssumption ==
    /\ Entries \subseteq Nat /\ IsFiniteSet(Entries)
    /\ DOMAIN Address = Entries
    /\ Signals \subseteq {"TERM", "HUP", "INT", "USR1", "USR2", "PIPE"}
    /\ MaxFailed \in Nat

Addresses == {Address[e] : e \in Entries}

VARIABLES
    open,     \* the entries with a listening socket
    failed,   \* sockets of listeners that could not be bound
    taken,    \* addresses other processes listen on
    handler   \* the signal handlers

dvars == <<open, failed, taken, handler>>

-----------------------------------------------------------------------------
(* Signals.  A handler is installed with flags that may ask the system to    *)
(* reset it to the default action once it has run.                           *)
Handlers == {"killed", "errored", "term_error", "hup_error", "int_error", "usr1_error",
             "usr2_error", "ignored", "default"}

Handler(name, reset) == [name |-> name, reset |-> reset]

(* Type invariant. *)
DaemonTypeOK ==
    /\ TypeOK
    /\ open \subseteq Entries
    /\ failed \in 0 .. MaxFailed
    /\ taken \subseteq Addresses
    /\ handler \in [Signals -> [name : Handlers, reset : BOOLEAN]]

(* errorhandling *)
errorhandling ==
    [s \in Signals |-> Handler(CASE s = "TERM" -> "term_error" [] s = "HUP" -> "hup_error"
                                 [] s = "INT" -> "int_error" [] s = "USR1" -> "usr1_error"
                                 [] s = "USR2" -> "usr2_error" [] s = "PIPE" -> "ignored",
                               FALSE)]

(* createlisteners installs handlers of its own, for the time before          *)
(* errorhandling(): it leaves the sa_flags of both uninitialized.             *)
StartHandlers(v, x) ==
    [s \in Signals |-> CASE s = "TERM" -> Handler("killed", v)
                         [] s = "USR2" -> handler[s]
                         [] OTHER -> Handler("errored", x)]

-----------------------------------------------------------------------------
(* Mutants: bind() is not checked; the loop ends at the first failure.       *)
createlisteners_Unchecked(held, busy) ==
    [open |-> Entries, failed |-> 0]

createlisteners_Stops(held, busy) ==
    LET Fails(e) == Address[e] \in busy \cup {Address[f] : f \in held}
        new == {e \in Entries : /\ \A f \in Entries : f <= e => ~Fails(f)
                                /\ \A f \in Entries : f < e => Address[f] # Address[e]}
    IN  [open |-> held \cup new, failed |-> Cardinality(Entries \ new)]

(* createlisteners: one entry after the other; bind() fails for an address   *)
(* this or another process listens on.  held are the entries that are open,  *)
(* busy the addresses of other processes.                                    *)
createlisteners(held, busy) ==
    LET Later(e) == Address[e] \in {Address[f] : f \in held}
                      \/ \E f \in Entries : f < e /\ Address[f] = Address[e]
        new == {e \in Entries : Address[e] \notin busy /\ ~Later(e)}
    IN  [open |-> held \cup new, failed |-> Cardinality(Entries \ new)]

Quiet == Runs("main") /\ flush["main"] = Idle

(* FIXLISTENER *)
cmdfixlistener ==
    LET made == createlisteners(open, taken)
    IN  /\ Quiet
        /\ failed + made.failed <= MaxFailed
        /\ open' = made.open
        /\ failed' = failed + made.failed
        /\ \E v, x \in BOOLEAN : handler' = StartHandlers(v, x)
        /\ UNCHANGED <<vars, taken>>

(* Mutant: p_accept leaves the callback in place, and killsocket() spares it. *)
p_acceptFailed_Spared ==
    /\ Quiet
    /\ failed > 0
    /\ UNCHANGED <<vars, dvars>>

(* A pass of socketdriver closes what is not listening.                     *)
p_acceptFailed ==
    /\ Quiet
    /\ failed > 0
    /\ failed' = 0
    /\ UNCHANGED <<vars, open, taken, handler>>

(* accept() fails on a working listener (no descriptors left, the connection *)
(* already aborted): the listener is closed.                                 *)
p_accept(e) ==
    /\ Quiet
    /\ e \in open
    /\ open' = open \ {e}
    /\ UNCHANGED <<vars, failed, taken, handler>>

(* Other processes listen on an address, and stop. *)
Foreign(a) ==
    /\ a \notin {Address[e] : e \in open}
    /\ taken' = IF a \in taken THEN taken \ {a} ELSE taken \cup {a}
    /\ UNCHANGED <<vars, open, failed, handler>>

-----------------------------------------------------------------------------
(* The process ends: what the system takes from it. *)
Released ==
    /\ open' = {} /\ failed' = 0
    /\ UNCHANGED <<taken, handler>>

Dies == Crash /\ Released

(* A signal whose handler saves the configuration. *)
SaveSignal ==
    /\ "TERM" \in Signals /\ handler["TERM"].name = "term_error"
    /\ term_error
    /\ UNCHANGED dvars

Delivered(s) == up /\ flush["term"] = Idle /\ handler[s].name # "ignored"

(* A signal that ends the process: int_error, killed, or the default action. *)
ExitSignal(s) ==
    /\ Delivered(s)
    /\ handler[s].name \in {"killed", "int_error", "default"}
    /\ Dies

(* A signal whose handler changes nothing here: errored sets a variable that *)
(* nobody reads, SIGUSR1 lists the sockets, SIGHUP rehashes the users (see   *)
(* ClientSession).                                                          *)
PassSignal(s) ==
    /\ Delivered(s)
    /\ handler[s].name \in {"errored", "usr1_error", "hup_error"}
    /\ handler' = IF handler[s].reset THEN [handler EXCEPT ![s] = Handler("default", FALSE)]
                  ELSE handler
    /\ UNCHANGED <<vars, open, failed, taken>>

(* SIGUSR2 reads the configuration again, in the middle of a save too: then  *)
(* what is in the file so far is all that is left of it, or nothing while    *)
(* the file has only its old name.  The save goes on in a list that was      *)
(* freed: it finds the end of the new one, or the process dies.              *)
usr2_error ==
    /\ "USR2" \in Signals /\ Delivered("USR2")
    /\ handler["USR2"].name = "usr2_error"
    /\ \/ /\ cache' = IF dir["conf"] = 0 THEN [cache EXCEPT !.n = 0] ELSE data[dir["conf"]]
          /\ UNCHANGED <<up, dir, data, flush, saved, dvars>>
       \/ flush["main"].pc = "write" /\ Dies

(* main(): no listener, no process. *)
main ==
    LET made == createlisteners({}, taken)
    IN  /\ readconfig
        /\ made.open # {}
        /\ made.failed <= MaxFailed
        /\ open' = made.open /\ failed' = made.failed
        /\ handler' = errorhandling
        /\ UNCHANGED taken

-----------------------------------------------------------------------------
DaemonInit ==
    /\ Init
    /\ taken \in SUBSET Addresses
    /\ LET made == createlisteners({}, taken)
       IN  /\ made.open # {}
           /\ made.failed <= MaxFailed
           /\ open = made.open /\ failed = made.failed
    /\ handler = errorhandling

(* The steps of flushconfig(). *)
Saving(x) == oldfile(x) \/ fopen(x) \/ fprintf(x) \/ fclose(x)

DaemonNext ==
    \/ (Change \/ flushconfig \/ \E x \in Procs : Saving(x)) /\ UNCHANGED dvars
    \/ SaveSignal
    \/ \E s \in Signals : ExitSignal(s) \/ PassSignal(s)
    \/ usr2_error
    \/ Dies
    \/ main
    \/ cmdfixlistener
    \/ p_acceptFailed
    \/ \E e \in Entries : p_accept(e)
    \/ \E a \in Addresses : Foreign(a)

(* A save that was begun goes on, between the signals that interrupt it, and *)
(* the main program returns to socketdriver() after every command.           *)
DaemonFairness ==
    /\ \A x \in Procs : SF_<<vars, dvars>>(Saving(x) /\ UNCHANGED dvars)
    /\ SF_<<vars, dvars>>(p_acceptFailed)

DaemonSpec == DaemonInit /\ [][DaemonNext]_<<vars, dvars>> /\ DaemonFairness

-----------------------------------------------------------------------------
(* Properties *)

(* No address is listened on twice, however often FIXLISTENER runs, whatever *)
(* other processes hold and although failed listeners stay in the table for  *)
(* a while.                                                                  *)
BoundOnce ==
    /\ \A e, f \in open : Address[e] = Address[f] => e = f
    /\ \A e \in open : Address[e] \notin taken

(* FIXLISTENER gives back every listener that was lost, unless another       *)
(* process has the address, and takes none away.                             *)
FixRestores ==
    [][cmdfixlistener => /\ open \subseteq open'
                         /\ Addresses \subseteq taken \cup {Address[e] : e \in open'}]_<<vars, dvars>>

(* The sockets of listeners that could not be bound do not stay: killsocket() *)
(* spares them, but the main loop gets rid of them.                          *)
FailedListenersGo == failed > 0 ~> failed = 0

(* The sockets: no address is listened on twice, by the bouncer or by it and  *)
(* another process, through FIXLISTENER, restarts and lost listeners.        *)
Consistent == DaemonTypeOK /\ BoundOnce
=============================================================================
