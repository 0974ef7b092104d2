--------------------------- MODULE MCDatabaseFile ---------------------------
(***************************************************************************)
(* DatabaseFile for TLC.  The shapes are a single region of two pages, a   *)
(* row group whose second region is empty and one of two regions.          *)
(***************************************************************************)
EXTENDS DatabaseFile, TLC

MCSymmetry == Permutations(Table)
MCShape == {<<2>>, <<1, 0>>, <<1, 1>>}
=============================================================================
