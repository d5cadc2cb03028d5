------------------------------ MODULE MCQemuVm ------------------------------
(***************************************************************************)
(* QemuVm on a small instance, for TLC: every combination of a TPM, a      *)
(* firmware image and a warming boot, a guest that prints a few pieces of  *)
(* output and writes its flash.                                            *)
(***************************************************************************)
EXTENDS QemuVm
=============================================================================
