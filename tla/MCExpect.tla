------------------------------ MODULE MCExpect ------------------------------
(***************************************************************************)
(* Expect on a small instance, for TLC.  The needle is two symbols long,   *)
(* so it can arrive in halves and overlap itself; one call has a failure   *)
(* and a prompt to answer, the other is a bare wait.                       *)
(***************************************************************************)
EXTENDS Expect

MCSymbols == {"n", "p"}
MCCalls ==
  {[needle |-> <<"n", "n">>, failures |-> {<<"p", "p">>}, answers |-> {<<"p">>}, timeout |-> 5],
   [needle |-> <<"p">>, failures |-> {}, answers |-> {}, timeout |-> 1]}
=============================================================================
