---------------------------- MODULE QemuVmProofs ----------------------------
(***************************************************************************)
(* Theorems about QemuVm, for a guest that prints and writes its flash as  *)
(* often as it likes.  IInv is the inductive invariant: it adds to the     *)
(* properties what ties the program counters of the boot's thread and of   *)
(* the reader to the lock, the log, the stop event and the children.       *)
(***************************************************************************)
EXTENDS QemuVm, SequenceTheorems, TLAPS

\* The boot's thread has taken QEMU down; QEMU and the TPM.
PastQemu == {"termswtpm", "waitswtpm", "unlink", "save", "rmtree", "closefiles", "done"}
PastTpm  == {"unlink", "save", "rmtree", "closefiles", "done"}

\* The reader and the log.  The lock is the reader's between its check of the
\* stop event and the end of the buffer's extension; the log is ahead of the
\* buffer only there; a log that is not open has no reader, or one that will
\* find the stop event set.
ReaderInv ==
  /\ lock <=> reader \in {"write", "extend"}
  /\ log = IF reader = "extend" THEN buf \o got ELSE buf
  /\ reader \in {"none", "check", "recv"} => got = << >>
  /\ pc \in Entering => reader = "none"
  /\ pc \in (Leaving \ {"stop"}) \cup {"done"} => stop
  /\ ~logOpen => \/ pc = "new" /\ reader = "none"
                 \/ pc = "done" /\ stop /\ ~lock

\* The children.  QEMU is spawned once the TPM is up, and nothing is told to
\* end before.
ChildInv ==
  /\ pc \in {"new", "swtpm", "setup", "swtpmwait", "qemu"} =>
       children["qemu"] = "absent" /\ told = {}
  /\ pc \in {"new", "swtpm", "setup"} => children["swtpm"] = "absent"
  /\ pc \in {"qemu", "connect", "body"} \cup Leaving \cup {"done"} =>
       (Runs("swtpm") => swtpmHeld)
  /\ pc \in PastQemu => ~Runs("qemu")
  /\ pc \in PastTpm => ~Runs("swtpm")
  /\ "swtpm" \in told => ~Runs("qemu")

\* What the block leaves.
DiskInv ==
  /\ pc \in {"save", "rmtree", "closefiles", "done"} => socks = {}
  /\ pc \in {"closefiles", "done"} => ~workdir
  /\ pc = "done" => ~logOpen
  /\ saved # {} => /\ pc \in {"rmtree", "closefiles", "done"}
                   /\ saved = {flash} /\ ~exc

IInv == TypeOK /\ ReaderInv /\ ChildInv /\ DiskInv /\ ConsoleUnbroken

-----------------------------------------------------------------------------
(* Sequences.                                                              *)

\* A sequence cut in two, as recv cuts what has arrived.
LEMMA Cut ==
  ASSUME NEW s \in Seq(Nat), NEW n \in 1 .. Len(s)
  PROVE  /\ SubSeq(s, 1, n) \in Seq(Nat)
         /\ SubSeq(s, n + 1, Len(s)) \in Seq(Nat)
         /\ SubSeq(s, 1, n) \o SubSeq(s, n + 1, Len(s)) = s
<1>1. Len(s) \in Nat /\ \A i \in 1 .. Len(s) : s[i] \in Nat
  BY LenProperties, ElementOfSeq
<1>2. SubSeq(s, 1, n) \in Seq(Nat)
  BY <1>1, SubSeqProperties
<1>3. SubSeq(s, n + 1, Len(s)) \in Seq(Nat)
  BY <1>1, SubSeqProperties
<1>4. SubSeq(s, 1, n) \o SubSeq(s, n + 1, Len(s)) = SubSeq(s, 1, Len(s))
  BY <1>1, ConcatAdjacentSubSeq
<1>5. SubSeq(s, 1, Len(s)) = s
  BY SubSeqFull
<1> QED  BY <1>2, <1>3, <1>4, <1>5

\* Concatenation, of texts.
LEMMA Assoc ==
  ASSUME NEW s \in Seq(Nat), NEW t \in Seq(Nat), NEW u \in Seq(Nat)
  PROVE  (s \o t) \o u = s \o (t \o u)
<1> DEFINE S == Nat
<1>1. s \in Seq(S) /\ t \in Seq(S) /\ u \in Seq(S)
  OBVIOUS
<1> HIDE DEF S
<1> QED  BY SMTT(30), <1>1, ConcatAssociative

\* One more piece at the end of what follows.
LEMMA AppendAfter ==
  ASSUME NEW s \in Seq(Nat), NEW t \in Seq(Nat), NEW e \in Nat
  PROVE  s \o Append(t, e) = Append(s \o t, e)
<1>1. s \o t \in Seq(Nat) /\ <<e>> \in Seq(Nat)
  BY ConcatProperties
<1>2. Append(t, e) = t \o <<e>> /\ Append(s \o t, e) = (s \o t) \o <<e>>
  BY <1>1, AppendIsConcat
<1> QED  BY <1>1, <1>2, Assoc

\* The console's text, one piece longer.
LEMMA OneMore ==
  ASSUME NEW n \in Nat
  PROVE  Append([i \in 1 .. n |-> i], n + 1) = [i \in 1 .. n + 1 |-> i]
<1> DEFINE s == [i \in 1 .. n |-> i]
           t == [i \in 1 .. n + 1 |-> i]
<1>1. s \in Seq(Nat) /\ Len(s) = n
  OBVIOUS
<1>2. t \in Seq(Nat) /\ Len(t) = n + 1
  OBVIOUS
<1>3. /\ Append(s, n + 1) \in Seq(Nat) /\ Len(Append(s, n + 1)) = n + 1
      /\ \A i \in 1 .. n : Append(s, n + 1)[i] = s[i]
      /\ Append(s, n + 1)[n + 1] = n + 1
  BY <1>1, AppendProperties
<1>4. \A i \in 1 .. n + 1 : Append(s, n + 1)[i] = t[i]
  BY <1>3
<1> QED  BY <1>2, <1>3, <1>4, SeqEqual

-----------------------------------------------------------------------------
(* IInv is inductive.                                                      *)

\* The order in which __exit__ takes the children down.
LEMMA Pcs ==
  /\ Order[1] = "qemu"
  /\ TermPc["qemu"] = "termqemu" /\ WaitPc["qemu"] = "waitqemu"
  /\ TermPc["swtpm"] = "termswtpm" /\ WaitPc["swtpm"] = "waitswtpm"
  /\ AfterWait("qemu") = "termswtpm" /\ AfterWait("swtpm") = "unlink"
BY DEF Order, TermPc, WaitPc, AfterWait

\* What the boot's thread leaves to the reader and to the guest.
LEMMA MainLeaves == Main => UNCHANGED <<got, lock, log, buf, sent, wire>>
BY DEF Main, MakeWorkdir, StartSwtpm, SwtpmSetUp, SwtpmReady, SwtpmFailed, SpawnQemu,
       ConnectSerial, EnterFrame, childVars, EndBody, SetStop, CloseSerial, JoinReader, Terminate, WaitChild,
       UnlinkSockets, SaveFirmware, RemoveWorkdir, CloseFiles, streamVars, readerVars

\* What the reader leaves to the others.
LEMMA ReaderLeaves ==
  Reader => UNCHANGED <<args, mainVars, childVars, diskVars, conn, sent, stop, logOpen>>
BY DEF Reader, ReaderCheck, ReaderRecv, ReaderTimeout, ReaderEof, ReaderLock, ReaderWrite,
       ReaderExtend, ReaderFrame

\* The types, and a reader only where there is a console.
LEMMA TypeStep == TypeOK /\ [Next]_vars => TypeOK'
<1> SUFFICES ASSUME TypeOK, [Next]_vars PROVE TypeOK'
  OBVIOUS
<1> USE DEF TypeOK, Entering, Leaving, Ended
<1>1. MakeWorkdir => TypeOK'
  BY DEF MakeWorkdir, EnterFrame, childVars
<1>2. StartSwtpm => TypeOK'
  BY DEF StartSwtpm, EnterFrame, childVars
<1>30. SwtpmSetUp => TypeOK'
  BY DEF SwtpmSetUp, EnterFrame, childVars
<1>3. SwtpmReady => TypeOK'
  BY DEF SwtpmReady, EnterFrame, childVars
<1>4. SwtpmFailed => TypeOK'
  <2> SUFFICES ASSUME SwtpmFailed PROVE TypeOK'
    OBVIOUS
  <2>1. children' \in [{"qemu", "swtpm"} -> {"absent", "running", "dead"}]
    BY DEF SwtpmFailed
  <2>2. told' \subseteq {"qemu", "swtpm"} /\ pc' = "raised"
    BY DEF SwtpmFailed
  <2>3. UNCHANGED <<args, exc, swtpmHeld, socks, workdir, flash, saved, conn, sent, wire,
                    reader, got, lock, stop, logOpen, log, buf>>
    BY DEF SwtpmFailed, EnterFrame
  <2> QED  BY <2>1, <2>2, <2>3
<1>5. SpawnQemu => TypeOK'
  BY DEF SpawnQemu, EnterFrame, childVars
<1>6. ConnectSerial => TypeOK'
  BY DEF ConnectSerial, EnterFrame, childVars
<1>7. EndBody => TypeOK'
  BY DEF EndBody, childVars, diskVars, streamVars, readerVars
<1>8. SetStop => TypeOK'
  BY DEF SetStop, childVars, diskVars, streamVars, readerVars
<1>9. CloseSerial => TypeOK'
  BY DEF CloseSerial, childVars, diskVars, streamVars, readerVars
<1>10. JoinReader => TypeOK'
  BY Pcs DEF JoinReader, childVars, diskVars, streamVars, readerVars
<1>11. ASSUME NEW c \in {"qemu", "swtpm"} PROVE Terminate(c) => TypeOK'
  <2> SUFFICES ASSUME Terminate(c) PROVE TypeOK'
    OBVIOUS
  <2>1. told' \subseteq {"qemu", "swtpm"} /\ pc' \in Leaving
    BY Pcs DEF Terminate
  <2>2. UNCHANGED <<args, exc, children, swtpmHeld, socks, diskVars, streamVars,
                    readerVars, stop, logOpen>>
    BY DEF Terminate
  <2> QED  BY <2>1, <2>2 DEF childVars, diskVars, streamVars, readerVars
<1>12. ASSUME NEW c \in {"qemu", "swtpm"} PROVE WaitChild(c) => TypeOK'
  BY Pcs DEF WaitChild, childVars, diskVars, streamVars, readerVars
<1>13. UnlinkSockets => TypeOK'
  BY DEF UnlinkSockets, childVars, diskVars, streamVars, readerVars
<1>14. SaveFirmware => TypeOK'
  <2> SUFFICES ASSUME SaveFirmware PROVE TypeOK'
    OBVIOUS
  <2>1. saved' \subseteq Nat /\ pc' \in {"rmtree", "raised"}
    BY DEF SaveFirmware
  <2> QED  BY <2>1 DEF SaveFirmware, childVars, diskVars, streamVars, readerVars
<1>15. RemoveWorkdir => TypeOK'
  BY DEF RemoveWorkdir, childVars, diskVars, streamVars, readerVars
<1>16. CloseFiles => TypeOK'
  BY DEF CloseFiles, childVars, diskVars, streamVars, readerVars
<1>17. ReaderCheck => TypeOK'
  BY DEF ReaderCheck, ReaderFrame, mainVars, childVars, diskVars
<1>18. ReaderRecv => TypeOK'
  BY Cut DEF ReaderRecv, ReaderFrame, mainVars, childVars, diskVars
<1>19. ReaderTimeout => TypeOK'
  BY DEF ReaderTimeout, ReaderFrame, mainVars, childVars, diskVars
<1>20. ReaderEof => TypeOK'
  BY DEF ReaderEof, ReaderFrame, mainVars, childVars, diskVars
<1>21. ReaderLock => TypeOK'
  BY DEF ReaderLock, ReaderFrame, mainVars, childVars, diskVars
<1>22. ReaderWrite => TypeOK'
  BY DEF ReaderWrite, ReaderFrame, mainVars, childVars, diskVars
<1>23. ReaderExtend => TypeOK'
  <2> SUFFICES ASSUME ReaderExtend PROVE TypeOK'
    OBVIOUS
  <2>1. buf' \in Seq(Nat) /\ got' \in Seq(Nat)
    BY ConcatProperties DEF ReaderExtend
  <2>2. reader' = "check" /\ lock' \in BOOLEAN /\ conn # "none"
    BY DEF ReaderExtend
  <2>3. UNCHANGED <<args, pc, exc, children, swtpmHeld, told, socks, workdir, flash, saved,
                    conn, sent, wire, stop, logOpen, log>>
    BY DEF ReaderExtend, ReaderFrame, mainVars, childVars, diskVars
  <2> QED  BY <2>1, <2>2, <2>3
<1>24. GuestPrints => TypeOK'
  BY DEF GuestPrints, ChildFrame, mainVars, readerVars
<1>25. GuestWritesFlash => TypeOK'
  BY DEF GuestWritesFlash, ChildFrame, mainVars, readerVars
<1>26. CreatesSocket("qemu", "qmp") => TypeOK'
  BY DEF CreatesSocket, ChildFrame, mainVars, readerVars
<1>27. CreatesSocket("swtpm", "swtpm") => TypeOK'
  BY DEF CreatesSocket, ChildFrame, mainVars, readerVars
<1>28. ASSUME NEW c \in {"qemu", "swtpm"} PROVE ChildEnds(c) => TypeOK'
  BY DEF ChildEnds, ChildFrame, mainVars, readerVars
<1>29. UNCHANGED vars => TypeOK'
  BY DEF vars
<1> QED  BY <1>1, <1>2, <1>3, <1>4, <1>5, <1>6, <1>7, <1>8, <1>9, <1>10, <1>11, <1>12,
          <1>13, <1>14, <1>15, <1>16, <1>17, <1>18, <1>19, <1>20, <1>21, <1>22, <1>23,
          <1>24, <1>25, <1>26, <1>27, <1>28, <1>29, <1>30 DEF Next, Main, Reader, Children,
          Finished

\* The reader, the lock and the log.
LEMMA ReaderStep == TypeOK /\ ReaderInv /\ [Next]_vars => ReaderInv'
<1> SUFFICES ASSUME TypeOK, ReaderInv, [Next]_vars PROVE ReaderInv'
  OBVIOUS
<1> USE DEF TypeOK, ReaderInv, Entering, Leaving, Ended
<1>1. MakeWorkdir => ReaderInv'
  BY DEF MakeWorkdir, EnterFrame, childVars
<1>2. StartSwtpm => ReaderInv'
  BY DEF StartSwtpm, EnterFrame, childVars
<1>30. SwtpmSetUp => ReaderInv'
  BY DEF SwtpmSetUp, EnterFrame, childVars
<1>3. SwtpmReady => ReaderInv'
  BY DEF SwtpmReady, EnterFrame, childVars
<1>4. SwtpmFailed => ReaderInv'
  BY DEF SwtpmFailed, EnterFrame, childVars
<1>5. SpawnQemu => ReaderInv'
  BY DEF SpawnQemu, EnterFrame, childVars
<1>6. ConnectSerial => ReaderInv'
  BY DEF ConnectSerial, EnterFrame, childVars
<1>7. EndBody => ReaderInv'
  BY DEF EndBody, childVars, diskVars, streamVars, readerVars
<1>8. SetStop => ReaderInv'
  BY DEF SetStop, childVars, diskVars, streamVars, readerVars
<1>9. CloseSerial => ReaderInv'
  BY DEF CloseSerial, childVars, diskVars, streamVars, readerVars
<1>10. JoinReader => ReaderInv'
  BY Pcs DEF JoinReader, childVars, diskVars, streamVars, readerVars
<1>11. ASSUME NEW c \in {"qemu", "swtpm"} PROVE Terminate(c) => ReaderInv'
  BY Pcs DEF Terminate, childVars, diskVars, streamVars, readerVars
<1>12. ASSUME NEW c \in {"qemu", "swtpm"} PROVE WaitChild(c) => ReaderInv'
  BY Pcs DEF WaitChild, childVars, diskVars, streamVars, readerVars
<1>13. UnlinkSockets => ReaderInv'
  BY DEF UnlinkSockets, childVars, diskVars, streamVars, readerVars
<1>14. SaveFirmware => ReaderInv'
  BY DEF SaveFirmware, childVars, diskVars, streamVars, readerVars, Saves
<1>15. RemoveWorkdir => ReaderInv'
  BY DEF RemoveWorkdir, childVars, diskVars, streamVars, readerVars
<1>16. CloseFiles => ReaderInv'
  BY DEF CloseFiles, childVars, diskVars, streamVars, readerVars
<1>17. ReaderCheck => ReaderInv'
  BY DEF ReaderCheck, ReaderFrame, mainVars, childVars, diskVars
<1>18. ReaderRecv => ReaderInv'
  BY DEF ReaderRecv, ReaderFrame, mainVars, childVars, diskVars
<1>19. ReaderTimeout => ReaderInv'
  BY DEF ReaderTimeout, ReaderFrame, mainVars, childVars, diskVars
<1>20. ReaderEof => ReaderInv'
  BY DEF ReaderEof, ReaderFrame, mainVars, childVars, diskVars
<1>21. ReaderLock => ReaderInv'
  BY DEF ReaderLock, ReaderFrame, mainVars, childVars, diskVars
<1>22. ReaderWrite => ReaderInv'
  BY DEF ReaderWrite, ReaderFrame, mainVars, childVars, diskVars
<1>23. ReaderExtend => ReaderInv'
  BY DEF ReaderExtend, ReaderFrame, mainVars, childVars, diskVars
<1>24. GuestPrints => ReaderInv'
  BY DEF GuestPrints, ChildFrame, mainVars, readerVars
<1>25. GuestWritesFlash => ReaderInv'
  BY DEF GuestWritesFlash, ChildFrame, mainVars, readerVars
<1>26. CreatesSocket("qemu", "qmp") => ReaderInv'
  BY DEF CreatesSocket, ChildFrame, mainVars, readerVars
<1>27. CreatesSocket("swtpm", "swtpm") => ReaderInv'
  BY DEF CreatesSocket, ChildFrame, mainVars, readerVars
<1>28. ASSUME NEW c \in {"qemu", "swtpm"} PROVE ChildEnds(c) => ReaderInv'
  BY DEF ChildEnds, ChildFrame, mainVars, readerVars
<1>29. UNCHANGED vars => ReaderInv'
  BY DEF vars
<1> QED  BY <1>1, <1>2, <1>3, <1>4, <1>5, <1>6, <1>7, <1>8, <1>9, <1>10, <1>11, <1>12,
          <1>13, <1>14, <1>15, <1>16, <1>17, <1>18, <1>19, <1>20, <1>21, <1>22, <1>23,
          <1>24, <1>25, <1>26, <1>27, <1>28, <1>29, <1>30 DEF Next, Main, Reader, Children,
          Finished

\* The children's order.
LEMMA ChildStep == TypeOK /\ ChildInv /\ [Next]_vars => ChildInv'
<1> SUFFICES ASSUME TypeOK, ChildInv, [Next]_vars PROVE ChildInv'
  OBVIOUS
<1> USE DEF TypeOK, ChildInv, PastQemu, PastTpm, Runs, Leaving
<1>1. MakeWorkdir => ChildInv'
  BY DEF MakeWorkdir, EnterFrame, childVars
<1>2. StartSwtpm => ChildInv'
  BY DEF StartSwtpm, EnterFrame, childVars
<1>24. SwtpmSetUp => ChildInv'
  BY DEF SwtpmSetUp, EnterFrame, childVars
<1>3. SwtpmReady => ChildInv'
  BY DEF SwtpmReady, EnterFrame, childVars
<1>4. SwtpmFailed => ChildInv'
  BY DEF SwtpmFailed, EnterFrame, childVars
<1>5. SpawnQemu => ChildInv'
  BY DEF SpawnQemu, EnterFrame, childVars
<1>6. ConnectSerial => ChildInv'
  BY DEF ConnectSerial, EnterFrame, childVars
<1>7. EndBody => ChildInv'
  BY DEF EndBody, childVars, diskVars, streamVars, readerVars
<1>8. SetStop => ChildInv'
  BY DEF SetStop, childVars, diskVars, streamVars, readerVars
<1>9. CloseSerial => ChildInv'
  BY DEF CloseSerial, childVars, diskVars, streamVars, readerVars
<1>10. JoinReader => ChildInv'
  BY Pcs DEF JoinReader, childVars, diskVars, streamVars, readerVars
<1>11. ASSUME NEW c \in {"qemu", "swtpm"} PROVE Terminate(c) => ChildInv'
  BY Pcs DEF Terminate, childVars, diskVars, streamVars, readerVars
<1>12. ASSUME NEW c \in {"qemu", "swtpm"} PROVE WaitChild(c) => ChildInv'
  BY Pcs DEF WaitChild, childVars, diskVars, streamVars, readerVars
<1>13. UnlinkSockets => ChildInv'
  BY DEF UnlinkSockets, childVars, diskVars, streamVars, readerVars
<1>14. SaveFirmware => ChildInv'
  BY DEF SaveFirmware, childVars, diskVars, streamVars, readerVars, Saves
<1>15. RemoveWorkdir => ChildInv'
  BY DEF RemoveWorkdir, childVars, diskVars, streamVars, readerVars
<1>16. CloseFiles => ChildInv'
  BY DEF CloseFiles, childVars, diskVars, streamVars, readerVars
<1>17. Reader => ChildInv'
  BY ReaderLeaves DEF mainVars, childVars, diskVars
<1>18. GuestPrints => ChildInv'
  BY DEF GuestPrints, ChildFrame, mainVars, readerVars
<1>19. GuestWritesFlash => ChildInv'
  BY DEF GuestWritesFlash, ChildFrame, mainVars, readerVars
<1>20. CreatesSocket("qemu", "qmp") => ChildInv'
  BY DEF CreatesSocket, ChildFrame, mainVars, readerVars
<1>21. CreatesSocket("swtpm", "swtpm") => ChildInv'
  BY DEF CreatesSocket, ChildFrame, mainVars, readerVars
<1>22. ASSUME NEW c \in {"qemu", "swtpm"} PROVE ChildEnds(c) => ChildInv'
  BY DEF ChildEnds, ChildFrame, mainVars, readerVars
<1>23. UNCHANGED vars => ChildInv'
  BY DEF vars
<1> QED  BY <1>1, <1>2, <1>3, <1>4, <1>5, <1>6, <1>7, <1>8, <1>9, <1>10, <1>11, <1>12,
          <1>13, <1>14, <1>15, <1>16, <1>17, <1>18, <1>19, <1>20, <1>21, <1>22, <1>23,
          <1>24 DEF Next, Main, Children, Finished

\* What is left on disk.
LEMMA DiskStep == TypeOK /\ ChildInv /\ DiskInv /\ [Next]_vars => DiskInv'
<1> SUFFICES ASSUME TypeOK, ChildInv, DiskInv, [Next]_vars PROVE DiskInv'
  OBVIOUS
<1> USE DEF TypeOK, ChildInv, DiskInv, PastQemu, PastTpm, Runs
<1>1. MakeWorkdir => DiskInv'
  BY DEF MakeWorkdir, EnterFrame, childVars
<1>2. StartSwtpm => DiskInv'
  BY DEF StartSwtpm, EnterFrame, childVars
<1>24. SwtpmSetUp => DiskInv'
  BY DEF SwtpmSetUp, EnterFrame, childVars
<1>3. SwtpmReady => DiskInv'
  BY DEF SwtpmReady, EnterFrame, childVars
<1>4. SwtpmFailed => DiskInv'
  BY DEF SwtpmFailed, EnterFrame, childVars
<1>5. SpawnQemu => DiskInv'
  BY DEF SpawnQemu, EnterFrame, childVars
<1>6. ConnectSerial => DiskInv'
  BY DEF ConnectSerial, EnterFrame, childVars
<1>7. EndBody => DiskInv'
  BY DEF EndBody, childVars, diskVars, streamVars, readerVars
<1>8. SetStop => DiskInv'
  BY DEF SetStop, childVars, diskVars, streamVars, readerVars
<1>9. CloseSerial => DiskInv'
  BY DEF CloseSerial, childVars, diskVars, streamVars, readerVars
<1>10. JoinReader => DiskInv'
  BY Pcs DEF JoinReader, childVars, diskVars, streamVars, readerVars
<1>11. ASSUME NEW c \in {"qemu", "swtpm"} PROVE Terminate(c) => DiskInv'
  BY Pcs DEF Terminate, childVars, diskVars, streamVars, readerVars
<1>12. ASSUME NEW c \in {"qemu", "swtpm"} PROVE WaitChild(c) => DiskInv'
  BY Pcs DEF WaitChild, childVars, diskVars, streamVars, readerVars
<1>13. UnlinkSockets => DiskInv'
  BY DEF UnlinkSockets, childVars, diskVars, streamVars, readerVars
<1>14. SaveFirmware => DiskInv'
  BY DEF SaveFirmware, childVars, diskVars, streamVars, readerVars, Saves
<1>15. RemoveWorkdir => DiskInv'
  BY DEF RemoveWorkdir, childVars, diskVars, streamVars, readerVars
<1>16. CloseFiles => DiskInv'
  BY DEF CloseFiles, childVars, diskVars, streamVars, readerVars
<1>17. Reader => DiskInv'
  BY ReaderLeaves DEF mainVars, childVars, diskVars
<1>18. GuestPrints => DiskInv'
  BY DEF GuestPrints, ChildFrame, mainVars, readerVars
<1>19. GuestWritesFlash => DiskInv'
  BY DEF GuestWritesFlash, ChildFrame, mainVars, readerVars
<1>20. CreatesSocket("qemu", "qmp") => DiskInv'
  BY DEF CreatesSocket, ChildFrame, mainVars, readerVars
<1>21. CreatesSocket("swtpm", "swtpm") => DiskInv'
  BY DEF CreatesSocket, ChildFrame, mainVars, readerVars
<1>22. ASSUME NEW c \in {"qemu", "swtpm"} PROVE ChildEnds(c) => DiskInv'
  BY DEF ChildEnds, ChildFrame, mainVars, readerVars
<1>23. UNCHANGED vars => DiskInv'
  BY DEF vars
<1> QED  BY <1>1, <1>2, <1>3, <1>4, <1>5, <1>6, <1>7, <1>8, <1>9, <1>10, <1>11, <1>12,
          <1>13, <1>14, <1>15, <1>16, <1>17, <1>18, <1>19, <1>20, <1>21, <1>22, <1>23,
          <1>24 DEF Next, Main, Children, Finished

\* The console's text: recv cuts what has arrived in two, the buffer takes what
\* recv returned, the guest prints one piece more.
LEMMA ConsoleStep == TypeOK /\ ReaderInv /\ ConsoleUnbroken /\ [Next]_vars => ConsoleUnbroken'
<1> SUFFICES ASSUME TypeOK, ReaderInv, ConsoleUnbroken, [Next]_vars PROVE ConsoleUnbroken'
  OBVIOUS
<1>a. /\ buf \in Seq(Nat) /\ got \in Seq(Nat) /\ wire \in Seq(Nat)
      /\ sent \in Nat /\ sent + 1 \in Nat
  BY DEF TypeOK
<1>1. UNCHANGED <<buf, got, wire, sent>> => ConsoleUnbroken'
  BY DEF ConsoleUnbroken
<1>2. ReaderRecv => ConsoleUnbroken'
  <2> SUFFICES ASSUME ReaderRecv PROVE ConsoleUnbroken'
    OBVIOUS
  <2>1. got = << >>
    BY DEF ReaderRecv, ReaderInv
  <2>2. PICK n \in 1 .. Len(wire) :
          got' = SubSeq(wire, 1, n) /\ wire' = SubSeq(wire, n + 1, Len(wire))
    BY DEF ReaderRecv
  <2>3. got' \in Seq(Nat) /\ wire' \in Seq(Nat) /\ got' \o wire' = wire
    BY <1>a, <2>2, Cut
  <2>4. (buf \o got') \o wire' = buf \o (got' \o wire')
    <3>1. got' \in Seq(Nat) /\ wire' \in Seq(Nat)
      BY <2>3
    <3> QED  BY <1>a, <3>1, Assoc
  <2>5. (buf \o got) \o wire = buf \o wire
    BY <1>a, <2>1, ConcatEmptySeq
  <2>6. buf' = buf /\ sent' = sent
    BY DEF ReaderRecv, ReaderFrame
  <2> QED  BY <2>3, <2>4, <2>5, <2>6 DEF ConsoleUnbroken
<1>3. ReaderExtend => ConsoleUnbroken'
  <2> SUFFICES ASSUME ReaderExtend PROVE ConsoleUnbroken'
    OBVIOUS
  <2>1. buf' = buf \o got /\ got' = << >> /\ wire' = wire /\ sent' = sent
    BY DEF ReaderExtend, ReaderFrame
  <2>2. buf \o got \in Seq(Nat)
    BY <1>a, ConcatProperties
  <2>3. buf' \o got' = buf \o got
    BY <2>1, <2>2, ConcatEmptySeq
  <2> QED  BY <2>1, <2>3 DEF ConsoleUnbroken
<1>4. GuestPrints => ConsoleUnbroken'
  <2> SUFFICES ASSUME GuestPrints PROVE ConsoleUnbroken'
    OBVIOUS
  <2>1. buf \o got \in Seq(Nat)
    BY <1>a, ConcatProperties
  <2>2. buf' = buf /\ got' = got /\ wire' = Append(wire, sent + 1) /\ sent' = sent + 1
    BY DEF GuestPrints, ChildFrame, readerVars
  <2>3. (buf \o got) \o wire' = Append((buf \o got) \o wire, sent + 1)
    BY <1>a, <2>1, <2>2, AppendAfter
  <2>4. Append([i \in 1 .. sent |-> i], sent + 1) = [i \in 1 .. sent + 1 |-> i]
    BY <1>a, OneMore
  <2> QED  BY <2>2, <2>3, <2>4 DEF ConsoleUnbroken
<1>5. Main => ConsoleUnbroken'
  BY <1>1, MainLeaves DEF readerVars
<1>6. Reader => ConsoleUnbroken'
  BY <1>1, <1>2, <1>3 DEF Reader, ReaderCheck, ReaderTimeout, ReaderEof, ReaderLock,
                          ReaderWrite, ReaderFrame
<1>7. Children => ConsoleUnbroken'
  BY <1>1, <1>4 DEF Children, GuestWritesFlash, CreatesSocket, ChildEnds, ChildFrame, readerVars
<1>8. UNCHANGED vars => ConsoleUnbroken'
  BY <1>1 DEF vars
<1> QED  BY <1>5, <1>6, <1>7, <1>8 DEF Next, Finished

\* Before any boot.
LEMMA IInvInit == Init => IInv
<1> SUFFICES ASSUME Init PROVE IInv
  OBVIOUS
<1>1. TypeOK
  <2>1. << >> \in Seq(Nat)
    BY EmptySeq
  <2>2. children \in [{"qemu", "swtpm"} -> {"absent", "running", "dead"}]
    BY DEF Init
  <2>3. /\ exc \in BOOLEAN /\ swtpmHeld \in BOOLEAN /\ workdir \in BOOLEAN
        /\ lock \in BOOLEAN /\ stop \in BOOLEAN /\ logOpen \in BOOLEAN
    BY DEF Init
  <2> QED  BY <2>1, <2>2, <2>3 DEF Init, TypeOK, Entering
<1>2. ReaderInv
  BY ConcatEmptySeq DEF Init, ReaderInv, Entering, Leaving
<1>3. ChildInv
  BY DEF Init, ChildInv, PastQemu, PastTpm, Runs, Leaving
<1>4. DiskInv
  BY DEF Init, DiskInv
<1>5. ConsoleUnbroken
  <2>1. [i \in 1 .. 0 |-> i] = << >>
    OBVIOUS
  <2>2. << >> \in Seq(Nat) /\ << >> \o << >> = << >>
    BY EmptySeq, ConcatEmptySeq
  <2> QED  BY <2>1, <2>2 DEF Init, ConsoleUnbroken
<1> QED  BY <1>1, <1>2, <1>3, <1>4, <1>5 DEF IInv

\* Whoever steps: each part of the invariant by its lemma.
LEMMA IInvStep == IInv /\ [Next]_vars => IInv'
BY TypeStep, ReaderStep, ChildStep, DiskStep, ConsoleStep DEF IInv

\* The inductive invariant holds of every boot.
THEOREM Inductive == Spec => []IInv
BY IInvInit, IInvStep, PTL DEF Spec

-----------------------------------------------------------------------------
(* What follows from it.                                                   *)

\* Every state of a boot is one of the types the code's fields have, and the
\* reader runs only on a connected console, which _read_serial asserts.
THEOREM TypeCorrect == Spec => []TypeOK
BY Inductive, PTL DEF IInv

\* Whoever holds no write of the reader's in progress finds serial.log and the
\* buffer the same (_read_serial's one critical section).
THEOREM LogMatchesBuffer == Spec => []LogIsBuffer
<1>1. IInv => LogIsBuffer
  BY DEF IInv, ReaderInv, LogIsBuffer
<1> QED  BY <1>1, Inductive, PTL

\* The console reaches the buffer whole, in order and once, however the guest
\* prints and recv cuts it (_connect_serial and _read_serial).
THEOREM ConsoleWhole == Spec => []ConsoleUnbroken
BY Inductive, PTL DEF IInv

\* __exit__, on every path, and __enter__'s failures never take the TPM's
\* process from under a running QEMU.
THEOREM QemuFirst == Spec => []TpmOutlivesQemu
<1>1. IInv => TpmOutlivesQemu
  BY DEF IInv, ChildInv, TpmOutlivesQemu
<1> QED  BY <1>1, Inductive, PTL

\* The image __exit__ saves is the guest's last word on its flash, after a
\* block that did not raise.
THEOREM SavedIsFinal == Spec => []SavedImageIsFinal
<1>1. IInv => SavedImageIsFinal
  BY DEF IInv, ChildInv, DiskInv, PastQemu, SavedImageIsFinal
<1> QED  BY <1>1, Inductive, PTL

\* __exit__ returns with the children down, and their sockets, the work
\* directory and the open files gone.
THEOREM NothingLeft == Spec => []NothingLeftBehind
<1>1. IInv => NothingLeftBehind
  BY DEF IInv, ChildInv, DiskInv, PastQemu, PastTpm, NothingLeftBehind
<1> QED  BY <1>1, Inductive, PTL

\* The reader writes serial.log only while it is open, also when it outlives
\* its join: it holds the lock then, and finds the stop event before.
THEOREM OpenLogOnly == Spec => WritesOnlyOpenLog
<1>1. IInv /\ [Next]_vars => [log' # log => logOpen]_vars
  <2> SUFFICES ASSUME IInv, Next PROVE log' # log => logOpen
    BY DEF vars
  <2>1. ReaderWrite => logOpen
    BY DEF ReaderWrite, IInv, ReaderInv
  <2>2. Main => log' = log
    BY MainLeaves
  <2>3. Reader => log' = log \/ ReaderWrite
    BY DEF Reader, ReaderCheck, ReaderRecv, ReaderTimeout, ReaderEof, ReaderLock, ReaderExtend
  <2>4. Children \/ Finished => log' = log
    BY DEF Children, GuestPrints, GuestWritesFlash, CreatesSocket, ChildEnds, ChildFrame,
           readerVars, Finished, vars
  <2> QED  BY <2>1, <2>2, <2>3, <2>4 DEF Next
<1> QED  BY <1>1, Inductive, PTL DEF Spec, WritesOnlyOpenLog
=============================================================================
