--------------------------- MODULE MCMediaCustody ---------------------------
(* Two messages and three files, two of them byte-identical, for TLC.       *)
EXTENDS MediaCustody

CONSTANTS photo1, photo2, photo3, x, y

MCContents == {photo1, photo2, photo3}
MCShas     == {x, y}
MCBytesOf  == [c \in MCContents |-> IF c = photo3 THEN y ELSE x]
=============================================================================
