---------------------------- MODULE MCMultiServer ----------------------------
(* The multi-process server of p2 for TLC.                                  *)
EXTENDS MultiServer, TLC

CONSTANTS c1, c2, a, b

MCSize == a :> 1 @@ b :> 1
MCOld  == a :> Absent @@ b :> <<[of |-> b, no |-> 8], [of |-> b, no |-> 9]>>
=============================================================================
