--------------------------- MODULE MCSuperOverlay ---------------------------
(* Instances of the overlay for TLC.                                       *)
EXTENDS SuperOverlay, TLC

CONSTANTS c1, c2, c3, f1, f2, f3

(* Which super node each child has been told.                              *)
HomesOne    == [c \in Children |-> 1]
HomesSplit  == (c1 :> 1) @@ (c2 :> 2)
HomesSplit3 == (c1 :> 1) @@ (c2 :> 2) @@ (c3 :> 1)

(* The name f2 goes on after f1, as notes.txt does after notes.            *)
OneBegins == {<<f1, f2>>}

(* Three files do not fit in a FILE_INFO, two not in a FILE_INFO_SHARE.    *)
Many3    == (c1 :> {f1}) @@ (c2 :> {f1, f2}) @@ (c3 :> {f1, f2, f3})
OneEach  == (c1 :> {f1}) @@ (c2 :> {f2})
OneEach3 == (c1 :> {f1}) @@ (c2 :> {f2}) @@ (c3 :> {f1})
=============================================================================
