--------------------------- MODULE MCSelectServer ---------------------------
(* The select server of p2, with two client programs, for TLC.             *)
EXTENDS SelectServer, TLC

CONSTANTS c1, c2, c3, p, q

MCThreads == p :> <<c1, c2>> @@ q :> <<c3>>
MCSize    == 1 :> 1 @@ 2 :> 1
MCOld     == 1 :> <<[of |-> 1, no |-> 8], [of |-> 1, no |-> 9]>> @@ 2 :> <<[of |-> 2, no |-> 9]>>
=============================================================================
