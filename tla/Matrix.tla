------------------------------- MODULE Matrix -------------------------------
(***************************************************************************)
(* The boot matrix: drtmtest/matrix.py, with what machine.py, qemu_vm.py   *)
(* read out of the environment.  An environment maps the variables that    *)
(* are set to their values; a list of banks is a sequence.                 *)
(***************************************************************************)
EXTENDS Sequences

Machine(vendor, psp, banks) == [vendor |-> vendor, psp |-> psp, banks |-> banks]

\* CONFIGURATIONS.  << >> is banks=None.
Plain    == << >>
Sha256   == <<"sha256">>
ToSha384 == <<"sha1", "sha256", "sha384">>
Configurations ==
  [name \in {"classic", "psp", "sha256", "psp-sha256", "sha384",
             "intel", "intel-sha256", "intel-sha384"} |->
     CASE name = "classic"      -> Machine("amd", FALSE, Plain)
       [] name = "psp"          -> Machine("amd", TRUE, Plain)
       [] name = "sha256"       -> Machine("amd", FALSE, Sha256)
       [] name = "psp-sha256"   -> Machine("amd", TRUE, Sha256)
       [] name = "sha384"       -> Machine("amd", FALSE, ToSha384)
       [] name = "intel"        -> Machine("intel", FALSE, Plain)
       [] name = "intel-sha256" -> Machine("intel", FALSE, Sha256)
       [] name = "intel-sha384" -> Machine("intel", FALSE, ToSha384)]

\* dict.update
Updated(env, new) ==
  [v \in DOMAIN env \cup DOMAIN new |-> IF v \in DOMAIN new THEN new[v] ELSE env[v]]

\* Configuration.env: only what differs from the default is set.
Sets(c) == {v \in {"DRTM_VENDOR"}    : c.vendor # "amd"}
      \cup {v \in {"DRTM_PSP"}       : c.psp}
      \cup {v \in {"DRTM_PCR_BANKS"} : c.banks # << >>}
Env(c, upstream) ==
  [v \in Sets(c) |-> IF v = "DRTM_VENDOR" THEN c.vendor
                     ELSE IF v = "DRTM_PSP" THEN (IF upstream THEN "classic" ELSE "on")
                     ELSE c.banks]

\* A cell's own: its release, and what its configuration sets.
Own(release, upstream, name) ==
  Updated([v \in {"DRTM_TB_RELEASE"} |-> release], Env(Configurations[name], upstream))

\* As if: what the caller had set were merged in.
EnvironmentMerged(caller, release, upstream, name) ==
  Updated(Own(release, upstream, name), caller)

\* environment: a cell's own variables replace the caller's.
Cleared == {"DRTM_VENDOR", "DRTM_PSP", "DRTM_PCR_BANKS", "DRTM_TB_IMAGE"}
Environment(caller, release, upstream, name) ==
  Updated([v \in DOMAIN caller \ Cleared |-> caller[v]], Own(release, upstream, name))

\* os.environ.get
Get(environ, v, default) == IF v \in DOMAIN environ THEN environ[v] ELSE default

\* machine.vendor, machine.psp_mode, qemu_vm.pcr_banks
Vendor(environ)   == Get(environ, "DRTM_VENDOR", "amd")
PspMode(environ)  == LET mode == Get(environ, "DRTM_PSP", "off") IN
                       IF mode = "off" THEN "none" ELSE mode
PcrBanks(environ) == LET banks == Get(environ, "DRTM_PCR_BANKS", << >>) IN
                       IF banks = << >> THEN <<"sha1", "sha256">> ELSE banks

\* Settings.from_environment, and what else the suite reads when it is imported.
Settings(environ) ==
  [vendor |-> Vendor(environ), psp |-> PspMode(environ), banks |-> PcrBanks(environ)]

\* current: the configuration an environment is, "none" for a hand-made one.
\* No two configurations are one environment.
Current(environ) ==
  LET Is(name) == LET c == Configurations[name] IN
        /\ Vendor(environ) = c.vendor
        /\ PspMode(environ) # "none" <=> c.psp
        /\ PcrBanks(environ) = PcrBanks(Env(c, FALSE))
  IN IF \E name \in DOMAIN Configurations : Is(name)
     THEN CHOOSE name \in DOMAIN Configurations : Is(name) ELSE "none"
=============================================================================
