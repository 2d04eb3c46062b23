---------------------------- MODULE MCWebServer ----------------------------
(* Instances of the web server for TLC: two client programs with one       *)
(* thread each, the first of them with two requests in one instance.       *)
EXTENDS WebServer, TLC

CONSTANTS c1, c2

TwoAndOne == (c1 :> 2) @@ (c2 :> 1)
OneEach   == [c \in Clients |-> 1]
=============================================================================
