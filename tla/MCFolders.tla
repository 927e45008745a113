------------------------------ MODULE MCFolders -----------------------------
(***************************************************************************)
(* Two names at the root, each for a file or a folder, and one that begins *)
(* like the other; a file in each of the folders.                          *)
(***************************************************************************)
EXTENDS Folders

Paths == {<<"a">>, <<"ab">>, <<"a", "b">>, <<"ab", "b">>}
=============================================================================
