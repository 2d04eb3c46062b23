--------------------------- MODULE MCPeerDownload ---------------------------
(* Two children of p4 for TLC, which get files of each other and of        *)
(* themselves.                                                             *)
EXTENDS PeerDownload, TLC

CONSTANTS c1, c2, a, b, d

MCUnits == {"p1", "p2", "p3", "q1", "r1", "x1", "x2", "x3", "x4"}

(* b is a name that begins with a.                                         *)
MCBegins == {<<a, b>>}

MCData == c1 :> (a :> <<"p1", "p2", "p3">> @@ b :> <<"q1">>)
       @@ c2 :> (a :> <<"r1">> @@ b :> Unreadable)
MCGets     == c1 :> 1 @@ c2 :> 2
MCVersions == c1 :> (a :> {<<"x1", "x2", "x3", "x4">>} @@ b :> {})
           @@ c2 :> (a :> {} @@ b :> {})
=============================================================================
