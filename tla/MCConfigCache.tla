---------------------------- MODULE MCConfigCache ----------------------------
(* Instances of ConfigCache: the system section and two users, the first    *)
(* with two sections.                                                       *)
EXTENDS ConfigCache

Key(f, s, p) == [file |-> f, section |-> s, param |-> p]

System == Key("PSYBNC", "SYSTEM", "ME")
Nick1  == Key("USER1", "USER", "NICK")
Pass1  == Key("USER1", "USER", "PASS")
Serv1  == Key("USER1", "SERVERS", "SERVER1")
Nick2  == Key("USER2", "USER", "NICK")
Pass2  == Key("USER2", "USER", "PASS")

MCKeys == {System, Nick1, Pass1, Serv1, Nick2, Pass2}
MCFixed == {System}

E(k) == [key |-> k, val |-> "a"]

(* The file as shipped starts with the system section, which the program    *)
(* does not erase; a file edited by hand may start with a user.             *)
MCInitialConfs ==
    {<<E(System)>>,
     <<E(System), E(Nick2), E(Nick1)>>,
     <<E(Nick2), E(Pass2), E(Serv1), E(System)>>,
     <<E(Nick1), E(Serv1), E(Pass1), E(System)>>}
=============================================================================
