------------------------------ MODULE MCFat32 ------------------------------
(***************************************************************************)
(* The constants of the FAT32 driver for TLC: a volume of few clusters, a  *)
(* directory sector of few entries, an empty file, a short and a long one. *)
(***************************************************************************)
EXTENDS Fat32

CONSTANTS x, y

MCContents == {<<>>, <<x>>, <<y, x>>}
MCPaths == {<<"..">>, <<"/">>, <<"A">>, <<"..", "B">>}
MCLong == {<<y, x>>}
MCCreations == {<<>>, <<y, x>>}
MCDown == {<<"A">>, <<"/">>}
=============================================================================
