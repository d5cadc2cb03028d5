--------------------------- MODULE MCBootSession ---------------------------
(***************************************************************************)
(* BootSession on a small instance, for TLC: three tests over three boots  *)
(* in a pool of two.  One test patches the environment while boots run,    *)
(* one takes two boots and is expected to fail, and one boot is reached    *)
(* twice without having been collected.  Other sessions number their runs  *)
(* meanwhile, and other cells have results or not.                         *)
(***************************************************************************)
EXTENDS BootSession

CONSTANTS xen, linux, other

MCNames == {xen, linux, other}
MCTests ==
  <<[takes |-> << >>, reaches |-> << >>, marked |-> FALSE, patches |-> TRUE, skips |-> TRUE, untidy |-> FALSE],
    [takes |-> <<linux, xen>>, reaches |-> <<other>>, marked |-> TRUE, patches |-> FALSE,
     skips |-> FALSE, untidy |-> TRUE],
    [takes |-> <<linux>>, reaches |-> <<other>>, marked |-> FALSE, patches |-> FALSE,
     skips |-> FALSE, untidy |-> TRUE]>>

MCCells == {[release |-> "v1", upstream |-> TRUE, configuration |-> "psp-sha256"]}
MCCallers == {<< >>, "DRTM_VENDOR" :> "intel" @@ "DRTM_TB_IMAGE" :> "local"}
MCPatch == "DRTM_PCR_BANKS" :> <<"sha1">> @@ "DRTM_PSP" :> "off"

\* One test of one entry, in another cell or in the same.
Cell(release, configuration, outcome, ok) ==
  [release |-> release, configuration |-> configuration, vendor |-> "amd",
   tests |-> 1 :> [entries |-> <<linux>>, outcome |-> outcome, ok |-> ok,
                   reason |-> outcome \in {"xfailed", "xpassed"}]]
MCOthers == {<< >>, <<Cell("v1", "classic", "passed", TRUE)>>,
             <<Cell("v2", "classic", "passed", TRUE), Cell("v1", "classic", "xfailed", FALSE)>>,
             <<Cell("v1", "psp-sha256", "xpassed", TRUE)>>}
MCOthersOnce == {<<Cell("v1", "classic", "passed", TRUE)>>}
=============================================================================
