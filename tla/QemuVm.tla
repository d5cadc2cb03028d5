------------------------------- MODULE QemuVm -------------------------------
(***************************************************************************)
(* One boot: drtmtest/qemu_vm.py's QemuVm used as a `with` block.          *)
(*                                                                         *)
(* Three actors share the state.  The boot's own thread runs __enter__,    *)
(* the body of the block and __exit__ (pc).  A daemon thread, the reader,  *)
(* drains the serial socket into serial.log and into the buffer expect     *)
(* searches.  The children, QEMU and swtpm, run, print, write flash,       *)
(* create sockets and die when they like.  What the guest prints is the    *)
(* sequence of naturals 1, 2, 3, ...: the n-th piece of output is n, so a  *)
(* lost, doubled or reordered piece shows.                                 *)
(***************************************************************************)
EXTENDS Naturals, Sequences

CONSTANTS
  MaxSent,    \* bound: pieces of output the guest prints
  MaxFlash    \* bound: writes the guest makes to its flash

ASSUME BoundsAssumption == MaxSent \in Nat /\ MaxFlash \in Nat

VARIABLES
  args,      \* which of tpm, firmware, save_firmware_to the caller passed
  pc,        \* where the boot's thread is
  exc,       \* the body of the block raised
  children,  \* "qemu" and "swtpm": absent, running or dead
  swtpmHeld, \* self._swtpm is set
  told,      \* children the harness has sent a signal
  socks,     \* socket files that exist: "swtpm", "qmp"
  workdir,   \* the temporary directory exists
  flash,     \* writes the guest has made to the flash copy
  saved,     \* {n}: an image with n writes was saved; {}: none was
  conn,      \* self._serial_sock: "none", "open" or "closed"
  sent,      \* pieces the guest has printed
  wire,      \* printed, not yet received
  reader,    \* where the reader thread is
  got,       \* what recv returned to the reader
  lock,      \* _serial_lock is held by the reader
  stop,      \* the _stop event
  logOpen,   \* the files in self._files are open
  log,       \* contents of serial.log
  buf        \* _serial_buf

mainVars   == <<pc, exc>>
childVars  == <<children, swtpmHeld, told, socks>>
diskVars   == <<workdir, flash, saved>>
streamVars == <<conn, sent, wire>>
readerVars == <<reader, got, lock, log, buf>>
vars == <<args, pc, exc, children, swtpmHeld, told, socks, workdir, flash,
          saved, conn, sent, wire, reader, got, lock, stop, logOpen, log, buf>>

Entering == {"new", "swtpm", "setup", "swtpmwait", "qemu", "connect"}
Leaving  == {"stop", "close", "join", "termqemu", "waitqemu", "termswtpm",
             "waitswtpm", "unlink", "save", "rmtree", "closefiles"}
Ended    == {"done", "raised"}

Init ==
  /\ args \in [tpm : BOOLEAN, firmware : BOOLEAN, save : BOOLEAN]
  /\ pc = "new" /\ exc = FALSE
  /\ children = [c \in {"qemu", "swtpm"} |-> "absent"]
  /\ swtpmHeld = FALSE /\ told = {} /\ socks = {}
  /\ workdir = FALSE /\ flash = 0 /\ saved = {}
  /\ conn = "none" /\ sent = 0 /\ wire = << >>
  /\ reader = "none" /\ got = << >> /\ lock = FALSE
  /\ stop = FALSE /\ logOpen = FALSE /\ log = << >> /\ buf = << >>

-----------------------------------------------------------------------------
(* __enter__.  An exception here leaves the block without __exit__.        *)

\* What every step of the boot's thread leaves alone in __enter__.
EnterFrame == UNCHANGED <<args, exc, flash, saved, sent, wire, got, lock,
                          stop, log, buf>>

\* The work directory, the log files and the boot's own copy of the flash.
MakeWorkdir ==
  /\ pc = "new" /\ pc' \in {"swtpm"} \cup (IF args.firmware THEN {"raised"} ELSE {})
  /\ workdir' = TRUE /\ logOpen' = TRUE
  /\ UNCHANGED <<childVars, conn, reader>> /\ EnterFrame

\* start_swtpm, for a boot with a TPM: swtpm_setup is run, or cannot be.
StartSwtpm ==
  /\ pc = "swtpm" /\ pc' \in IF args.tpm THEN {"setup", "raised"} ELSE {"qemu"}
  /\ UNCHANGED <<childVars, workdir, logOpen, conn, reader>> /\ EnterFrame

\* swtpm_setup has ended, which subprocess.run waits for without a timeout: it
\* failed, or wrote the TPM's state and swtpm is spawned, or cannot be.
SwtpmSetUp ==
  /\ pc = "setup"
  /\ \/ pc' = "raised" /\ UNCHANGED children
     \/ pc' = "swtpmwait" /\ children' = [children EXCEPT !["swtpm"] = "running"]
  /\ UNCHANGED <<swtpmHeld, told, socks, workdir, logOpen, conn, reader>> /\ EnterFrame

\* _wait_for_socket: the control socket is there, even if swtpm has died since.
SwtpmReady ==
  /\ pc = "swtpmwait" /\ "swtpm" \in socks
  /\ pc' = "qemu" /\ swtpmHeld' = TRUE
  /\ UNCHANGED <<children, told, socks, workdir, logOpen, conn, reader>> /\ EnterFrame

\* _wait_for_socket: swtpm exited first, or is killed after five seconds.
SwtpmFailed ==
  /\ pc = "swtpmwait" /\ "swtpm" \notin socks /\ pc' = "raised"
  /\ \/ children["swtpm"] = "dead" /\ UNCHANGED <<children, told>>
     \/ /\ children' = [children EXCEPT !["swtpm"] = "dead"]
        /\ told' = told \cup {"swtpm"}
  /\ UNCHANGED <<swtpmHeld, socks, workdir, logOpen, conn, reader>> /\ EnterFrame

\* Popen, which raises when the binary cannot be run.
SpawnQemu ==
  /\ pc = "qemu"
  /\ \/ pc' = "connect" /\ children' = [children EXCEPT !["qemu"] = "running"]
     \/ pc' = "raised" /\ UNCHANGED children
  /\ UNCHANGED <<swtpmHeld, told, socks, workdir, logOpen, conn, reader>> /\ EnterFrame

\* Mutant: the reader is started before the console is connected.
ReaderStartedFirst ==
  /\ pc = "connect" /\ reader' = "check"
  /\ \/ children["qemu"] = "running" /\ pc' = "body" /\ conn' = "open"
     \/ pc' = "raised" /\ UNCHANGED conn
  /\ UNCHANGED <<childVars, workdir, logOpen>> /\ EnterFrame

\* _connect_serial, then the reader is started.  QemuExited and TimeoutError
\* leave __enter__.
ConnectSerial ==
  /\ pc = "connect"
  /\ \/ /\ children["qemu"] = "running"
        /\ pc' = "body" /\ conn' = "open" /\ reader' = "check"
     \/ pc' = "raised" /\ UNCHANGED <<conn, reader>>
  /\ UNCHANGED <<childVars, workdir, logOpen>> /\ EnterFrame

-----------------------------------------------------------------------------
(* The body, and __exit__.                                                 *)

\* The block's body returns, or raises and __exit__ is told so.
EndBody ==
  /\ pc = "body" /\ pc' = "stop" /\ exc' \in BOOLEAN
  /\ UNCHANGED <<args, childVars, diskVars, streamVars, readerVars, stop, logOpen>>

SetStop ==
  /\ pc = "stop" /\ pc' = "close" /\ stop' = TRUE
  /\ UNCHANGED <<args, exc, childVars, diskVars, streamVars, readerVars, logOpen>>

CloseSerial ==
  /\ pc = "close" /\ pc' = "join" /\ conn' = "closed"
  /\ UNCHANGED <<args, exc, childVars, diskVars, sent, wire, readerVars, stop, logOpen>>

\* Mutant: the TPM goes first.
TpmFirst == <<"swtpm", "qemu">>

\* The children are brought down in this order, QEMU first, so it never sees
\* its TPM backend vanish.
Order  == <<"qemu", "swtpm">>
TermPc == [qemu |-> "termqemu", swtpm |-> "termswtpm"]
WaitPc == [qemu |-> "waitqemu", swtpm |-> "waitswtpm"]
\* Mutant: only the first child is brought down.
OnlyFirst(c) == "unlink"

AfterWait(c) == IF c = Order[1] THEN TermPc[Order[2]] ELSE "unlink"

\* join(timeout=5): the reader has finished, or it outlives the join.
JoinReader ==
  /\ pc = "join" /\ pc' = TermPc[Order[1]]
  /\ UNCHANGED <<args, exc, childVars, diskVars, streamVars, readerVars, stop, logOpen>>

\* process.terminate(), skipped for a TPM the boot does not have.
Terminate(c) ==
  /\ pc = TermPc[c]
  /\ IF c = "swtpm" /\ ~swtpmHeld
     THEN pc' = AfterWait(c) /\ UNCHANGED told
     ELSE pc' = WaitPc[c] /\ told' = told \cup {c}
  /\ UNCHANGED <<args, exc, children, swtpmHeld, socks, diskVars, streamVars,
                 readerVars, stop, logOpen>>

\* Mutant: no kill() for a child that ignores the signal.
WaitForever(c) ==
  /\ pc = WaitPc[c] /\ children[c] = "dead" /\ pc' = AfterWait(c)
  /\ UNCHANGED <<args, exc, childVars, diskVars, streamVars, readerVars, stop, logOpen>>

\* process.wait(timeout=5), then kill() for a child that ignored the signal.
WaitChild(c) ==
  /\ pc = WaitPc[c] /\ pc' = AfterWait(c)
  /\ children' = [children EXCEPT ![c] = "dead"]
  /\ UNCHANGED <<args, exc, swtpmHeld, told, socks, diskVars, streamVars,
                 readerVars, stop, logOpen>>

UnlinkSockets ==
  /\ pc = "unlink" /\ pc' = "save" /\ socks' = {}
  /\ UNCHANGED <<args, exc, children, swtpmHeld, told, diskVars, streamVars,
                 readerVars, stop, logOpen>>

\* Mutant: the firmware of a boot that raised is kept too.
SavesAlways == args.save /\ args.firmware

\* The firmware is kept after a clean exit only; the copy itself may fail,
\* which leaves __exit__ with the work directory and the files as they are.
Saves == args.save /\ args.firmware /\ ~exc
SaveFirmware ==
  /\ pc = "save"
  /\ \/ ~Saves /\ pc' = "rmtree" /\ UNCHANGED saved
     \/ Saves /\ pc' = "rmtree" /\ saved' = {flash}
     \/ Saves /\ pc' = "raised" /\ UNCHANGED saved
  /\ UNCHANGED <<args, exc, childVars, workdir, flash, streamVars, readerVars, stop, logOpen>>

RemoveWorkdir ==
  /\ pc = "rmtree" /\ pc' = "closefiles" /\ workdir' = FALSE
  /\ UNCHANGED <<args, exc, childVars, flash, saved, streamVars, readerVars, stop, logOpen>>

\* The files are closed under the serial lock.
CloseFiles ==
  /\ pc = "closefiles" /\ ~lock
  /\ pc' = "done" /\ logOpen' = FALSE
  /\ UNCHANGED <<args, exc, childVars, diskVars, streamVars, readerVars, stop>>

Main ==
  \/ MakeWorkdir \/ StartSwtpm \/ SwtpmSetUp \/ SwtpmReady \/ SwtpmFailed
  \/ SpawnQemu \/ ConnectSerial
  \/ EndBody \/ SetStop \/ CloseSerial \/ JoinReader
  \/ \E c \in {"qemu", "swtpm"} : Terminate(c) \/ WaitChild(c)
  \/ UnlinkSockets \/ SaveFirmware \/ RemoveWorkdir \/ CloseFiles

-----------------------------------------------------------------------------
(* The reader thread, _read_serial.                                        *)

ReaderFrame == UNCHANGED <<args, mainVars, childVars, diskVars, conn, sent, stop, logOpen>>

\* while not self._stop.is_set()
ReaderCheck ==
  /\ reader = "check" /\ reader' = IF stop THEN "done" ELSE "recv"
  /\ UNCHANGED <<wire, got, lock, log, buf>> /\ ReaderFrame

\* recv returns what has arrived.  One that had begun when the socket was
\* closed may still return it.
ReaderRecv ==
  /\ reader = "recv"
  /\ \E n \in 1 .. Len(wire) :
       /\ got' = SubSeq(wire, 1, n) /\ wire' = SubSeq(wire, n + 1, Len(wire))
  /\ reader' = "lock"
  /\ UNCHANGED <<lock, log, buf>> /\ ReaderFrame

\* recv times out after 0.2 s with nothing to read.
ReaderTimeout ==
  /\ reader = "recv" /\ conn = "open" /\ wire = << >> /\ reader' = "check"
  /\ UNCHANGED <<wire, got, lock, log, buf>> /\ ReaderFrame

\* recv raises OSError on the closed socket, or returns b"" once QEMU is gone.
ReaderEof ==
  /\ reader = "recv"
  /\ conn = "closed" \/ (children["qemu"] = "dead" /\ wire = << >>)
  /\ reader' = "done"
  /\ UNCHANGED <<wire, got, lock, log, buf>> /\ ReaderFrame

\* Mutant: the stop event is not looked at again under the lock.
ReaderLockUnchecked ==
  /\ reader = "lock" /\ ~lock /\ reader' = "write" /\ lock' = TRUE
  /\ UNCHANGED <<wire, got, log, buf>> /\ ReaderFrame

\* The lock is taken; the stop event is looked at again under it.
ReaderLock ==
  /\ reader = "lock" /\ ~lock
  /\ IF stop THEN reader' = "done" /\ UNCHANGED lock
             ELSE reader' = "write" /\ lock' = TRUE
  /\ UNCHANGED <<wire, got, log, buf>> /\ ReaderFrame

\* Mutant: the lock covers the write of the log only.
ReaderWriteAlone ==
  /\ reader = "write" /\ reader' = "extend" /\ log' = log \o got /\ lock' = FALSE
  /\ UNCHANGED <<wire, got, buf>> /\ ReaderFrame

ReaderWrite ==
  /\ reader = "write" /\ reader' = "extend" /\ log' = log \o got
  /\ UNCHANGED <<wire, got, lock, buf>> /\ ReaderFrame

ReaderExtend ==
  /\ reader = "extend" /\ reader' = "check"
  /\ buf' = buf \o got /\ got' = << >> /\ lock' = FALSE
  /\ UNCHANGED <<wire, log>> /\ ReaderFrame

Reader == ReaderCheck \/ ReaderRecv \/ ReaderTimeout \/ ReaderEof
          \/ ReaderLock \/ ReaderWrite \/ ReaderExtend

-----------------------------------------------------------------------------
(* The children.                                                           *)

ChildFrame == UNCHANGED <<args, mainVars, swtpmHeld, told, workdir, saved,
                          conn, readerVars, stop, logOpen>>

\* Mutant: `nowait`, so the guest runs before the console is connected.
GuestPrintsNowait ==
  /\ children["qemu"] = "running" /\ sent < MaxSent
  /\ sent' = sent + 1
  /\ wire' = IF conn = "none" THEN wire ELSE Append(wire, sent + 1)
  /\ UNCHANGED <<children, socks, flash>> /\ ChildFrame

\* The guest prints.  QEMU holds it until the console is connected.
GuestPrints ==
  /\ children["qemu"] = "running" /\ conn # "none" /\ sent < MaxSent
  /\ sent' = sent + 1
  /\ wire' = Append(wire, sent + 1)
  /\ UNCHANGED <<children, socks, flash>> /\ ChildFrame

\* The guest writes its variable store, on the boot's copy of the image.
GuestWritesFlash ==
  /\ children["qemu"] = "running" /\ conn # "none" /\ args.firmware /\ flash < MaxFlash
  /\ flash' = flash + 1
  /\ UNCHANGED <<children, socks, sent, wire>> /\ ChildFrame

\* A child binds its socket.
CreatesSocket(c, s) ==
  /\ children[c] = "running" /\ s \notin socks /\ socks' = socks \cup {s}
  /\ UNCHANGED <<children, flash, sent, wire>> /\ ChildFrame

\* A child ends by itself or on the signal it was sent.
ChildEnds(c) ==
  /\ children[c] = "running" /\ children' = [children EXCEPT ![c] = "dead"]
  /\ UNCHANGED <<socks, flash, sent, wire>> /\ ChildFrame

Children ==
  \/ GuestPrints \/ GuestWritesFlash
  \/ CreatesSocket("qemu", "qmp") \/ CreatesSocket("swtpm", "swtpm")
  \/ \E c \in {"qemu", "swtpm"} : ChildEnds(c)

-----------------------------------------------------------------------------
\* The block is over and the reader, a daemon, has nothing left to do.
Finished == /\ pc \in Ended /\ reader \in {"none", "done"}
            /\ UNCHANGED vars

Next == Main \/ Reader \/ Children \/ Finished

\* The boot's thread keeps moving, for its waits have deadlines, but for two:
\* swtpm_setup runs for as long as it likes, and so does the body of the block.
\* The scheduler runs the reader.
Spec ==
  Init /\ [][Next]_vars /\ WF_vars(Main /\ pc \notin {"setup", "body"}) /\ WF_vars(Reader)

-----------------------------------------------------------------------------
TypeOK ==
  /\ args \in [tpm : BOOLEAN, firmware : BOOLEAN, save : BOOLEAN]
  /\ pc \in Entering \cup {"body"} \cup Leaving \cup Ended
  /\ exc \in BOOLEAN
  /\ children \in [{"qemu", "swtpm"} -> {"absent", "running", "dead"}]
  /\ swtpmHeld \in BOOLEAN /\ told \subseteq {"qemu", "swtpm"} /\ socks \subseteq {"qmp", "swtpm"}
  /\ workdir \in BOOLEAN /\ flash \in Nat /\ saved \subseteq Nat
  /\ conn \in {"none", "open", "closed"}
  /\ sent \in Nat /\ wire \in Seq(Nat)
  /\ reader \in {"none", "check", "recv", "lock", "write", "extend", "done"}
  /\ reader # "none" => conn # "none"      \* _read_serial's assertion
  /\ got \in Seq(Nat) /\ lock \in BOOLEAN
  /\ stop \in BOOLEAN /\ logOpen \in BOOLEAN /\ log \in Seq(Nat) /\ buf \in Seq(Nat)

\* A reader that outlived the join never writes to the closed serial.log
\* (qemu_vm.py:555-556).
WritesOnlyOpenLog == [][log' # log => logOpen]_vars

\* Whoever takes the serial lock finds in serial.log exactly what is in the
\* buffer expect searches: the two are written under the one lock.
LogIsBuffer == ~lock => log = buf

\* The console reaches the buffer whole, in order and once, from the first
\* byte on: QEMU's `server` without `nowait` holds the guest until the
\* console is connected (qemu_vm.py:494-495).
ConsoleUnbroken == buf \o got \o wire = [i \in 1 .. sent |-> i]

\* A child process still running.
Runs(c) == children[c] = "running"

\* The harness never takes the TPM's process down under a running QEMU
\* (qemu_vm.py:701), on whatever path the block is left.
TpmOutlivesQemu == "swtpm" \in told => ~Runs("qemu")

\* A saved image is the flash as the guest finally left it, of a block that
\* was left without an exception (qemu_vm.py:714-715).
SavedImageIsFinal == saved # {} => saved = {flash} /\ ~exc /\ ~Runs("qemu")

\* Once __exit__ has returned, whatever the body and the children did, no
\* process, socket or temporary directory of the boot is left.
NothingLeftBehind ==
  pc = "done" => /\ \A c \in {"qemu", "swtpm"} : ~Runs(c)
                 /\ socks = {} /\ ~workdir /\ ~logOpen

\* __enter__ and __exit__ each come to an end, whatever the children do: a
\* QEMU that ignores SIGTERM, a socket that never appears, a slow reader.  Only
\* a swtpm_setup that never ends holds the block up (qemu_vm.py:272, 300).
BlockMoves ==
  \/ <>[](pc = "setup")
  \/ pc \in Entering \cup Leaving ~> pc \in {"body"} \cup Ended
=============================================================================
