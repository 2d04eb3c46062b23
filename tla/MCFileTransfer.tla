--------------------------- MODULE MCFileTransfer ---------------------------
(* A transfer of p1 for TLC.                                               *)
EXTENDS FileTransfer, TLC

CONSTANTS c1, c2, a, b

MCSize == a :> 2 @@ b :> 1
MCOld  == a :> Absent @@ b :> <<[of |-> b, no |-> 8], [of |-> b, no |-> 9]>>
=============================================================================
