------------------------------ MODULE MCDaemon ------------------------------
(* Instance of Daemon: three entries, the last with the address of the      *)
(* first.                                                                   *)
EXTENDS Daemon, TLC

CONSTANTS a, b

MCAddress == (0 :> a) @@ (1 :> b) @@ (2 :> a)
=============================================================================
