------------------------------- MODULE MCScripts -------------------------------
EXTENDS Scripts

(* The record n is a network of the main user u.                               *)
Family == [u \in Users |-> IF u = "n" THEN "u" ELSE u]

(* Scripts that have the functions between them.                              *)
SmallScripts == {<<"dialogue", "server">>, <<"ctcp", "dccchat">>, <<"alias">>}
================================================================================
