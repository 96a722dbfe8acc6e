------------------------------ MODULE MCFat32 ------------------------------
(***************************************************************************)
(* An instance of Fat32 with a root directory, two names and paths of up   *)
(* to three components.  A sector holds three directory entries, so a      *)
(* subdirectory must grow for its second name, and three clusters let a    *)
(* directory be moved into another one but are soon used up.               *)
(***************************************************************************)
EXTENDS Fat32

CONSTANTS a, b

MCNames == {a, b}
MCFilePaths == {<<b>>, <<a, a>>}
MCDirPaths == {<<a>>, <<a, b>>}
=============================================================================
