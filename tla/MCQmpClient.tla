---------------------------- MODULE MCQmpClient ----------------------------
(***************************************************************************)
(* QmpClient on a small instance, for TLC: one command, two events.        *)
(***************************************************************************)
EXTENDS QmpClient
=============================================================================
