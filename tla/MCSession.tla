------------------------------ MODULE MCSession ------------------------------
(***************************************************************************)
(* Three dates, so that a log can be rotated twice and an old file be left *)
(* behind by two.                                                          *)
(***************************************************************************)
EXTENDS Session, TLC

Symmetric == Permutations(Source)
=============================================================================
