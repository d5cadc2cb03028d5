---------------------------- MODULE MCImageCache ----------------------------
(***************************************************************************)
(* ImageCache on small instances, for TLC: one run at a time with all      *)
(* the files and three stops, and two runs at once warming the firmware.   *)
(***************************************************************************)
EXTENDS ImageCache

MCKinds    == AllKinds
MCFirmware == {"firmware"}
MCInodes   == 1 .. 9
=============================================================================
