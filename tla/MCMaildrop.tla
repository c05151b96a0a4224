----------------------------- MODULE MCMaildrop -----------------------------
(***************************************************************************)
(* Maildrop for TLC: sessions are interchangeable (no definition names     *)
(* one), users are not (Init picks one).                                   *)
(***************************************************************************)
EXTENDS Maildrop

Symmetry == Permutations(Sessions)
=============================================================================
