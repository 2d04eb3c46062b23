-------------------------- MODULE MCFileInfoTable --------------------------
(* Instances of the table of file information for TLC, with the sums of    *)
(* the chars of real names.  "map" begins "map.old"; "y2" stands for "y"   *)
(* and an o with diaeresis in UTF-8, two bytes that are negative chars.    *)
EXTENDS FileInfoTable

SomeNames  == {"map", "map.old", "song", "film", "y2"}
SomeSums   == [n \in SomeNames |-> CASE n = "map"  -> 318 [] n = "map.old" -> 683
                                     [] n = "song" -> 439 [] n = "film"    -> 424
                                     [] n = "y2"   -> -14]
SomeBegins == {<<"map", "map.old">>}
=============================================================================
