------------------------------- MODULE MCBoot -------------------------------
(***************************************************************************)
(* Three instances, with the migrations and the staff of the repository.   *)
(***************************************************************************)
EXTENDS Boot, TLC

CONSTANTS i1, i2, i3
=============================================================================
