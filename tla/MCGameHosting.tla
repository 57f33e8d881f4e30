---------------------------- MODULE MCGameHosting ----------------------------
(***************************************************************************)
(* GameHosting for TLC: versions whose size is a multiple of the chunk size *)
(* and not, larger and smaller than the one before, and one where the      *)
(* export names the file otherwise.                                        *)
(***************************************************************************)
EXTENDS GameHosting

Sizes == <<4, 3, 5, 1, 0>>

=============================================================================
