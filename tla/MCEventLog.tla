----------------------------- MODULE MCEventLog -----------------------------
(***************************************************************************)
(* EventLog on a small instance, for TLC: short digests, one of them with  *)
(* zeros at its end, an event with no data, one whose data is all zeros,   *)
(* and Xen lines at the start of the dump, inside a byte and next to its   *)
(* end.                                                                    *)
(***************************************************************************)
EXTENDS EventLog, TLC

MCDeclared == {<<"sha256">>, <<"sha1", "sha256">>}
MCDigestSize == "sha1" :> 2 @@ "sha256" :> 3
MCMeasured ==
  {[data |-> << >>,      digest |-> "sha1" :> <<7, 0>> @@ "sha256" :> <<255, 0, 0>>],
   [data |-> <<83, 75>>, digest |-> "sha1" :> <<1, 2>> @@ "sha256" :> <<3, 4, 5>>],
   [data |-> <<0, 0>>,   digest |-> "sha1" :> <<9, 16>> @@ "sha256" :> <<0, 0, 32>>]}
MCTails == {0, 3, 40}
MCCuts == {0, 65, 160, 163}
=============================================================================
