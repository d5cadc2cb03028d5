----------------------------- MODULE ImageCache -----------------------------
(***************************************************************************)
(* The cache directory the harness keeps beside its runs: the pinned       *)
(* downloads (Asset.fetch), the raw image unpacked from one                *)
(* (trenchboot.unpacked_image), QEMU unpacked from another (bundle.binary) *)
(* and the firmware after one boot (dasharo.warmed_firmware).  All are     *)
(* made the same way: look for the final name, otherwise write a temporary *)
(* one and rename it.                                                      *)
(*                                                                         *)
(* The directory maps names to inodes.  A file opened for writing keeps    *)
(* its inode when the name moves or goes away, and opening a name that     *)
(* exists empties the inode that is there.  QEMU is a directory: its files *)
(* are its blocks, and are reached by name.  A process is one run of the   *)
(* harness; it can be killed, or stopped by the network or the disk,       *)
(* between any two steps, and run again.                                   *)
(***************************************************************************)
EXTENDS Naturals

CONSTANTS
  Procs,       \* runs of the harness that share the directory
  Kinds,       \* which of the files they make
  Blocks,      \* a file is this many blocks long
  Inodes,      \* enough of them for every name and every open file
  MaxStops,    \* bound: runs killed or stopped
  NoInode

ASSUME KindsAssumption  == Kinds \subseteq {"download", "image", "firmware", "archive", "qemu"}
ASSUME BlocksAssumption == Blocks \in Nat \ {0} /\ MaxStops \in Nat
ASSUME InodesAssumption == NoInode \notin Inodes

VARIABLES
  dir,       \* name -> inode, NoInode when there is no such file
  inodes,    \* inode -> what each block holds, "none" past the end or in a hole
  pc,        \* per run: "idle", "look", "open", "write", "check", "rename", "have"
  goal,      \* per run: the file it was asked for
  doing,     \* per run: the file it makes
  fd, pos,   \* per run: the inode it writes, and how many blocks it has written
  stops      \* runs stopped so far

vars == <<dir, inodes, pc, goal, doing, fd, pos, stops>>

AllKinds == {"download", "image", "firmware", "archive", "qemu"}

\* What is fetched, and what is unpacked from it.
Fetched  == {"download", "archive"}
Unpacked == {"image", "qemu"}
From(k)  == IF k = "image" THEN "download" ELSE "archive"

Final(k) == <<k, "final">>

\* Mutant: written in place.
InPlace(k) == Final(k)

\* with_suffix(".tmp") replaces the image's ".wic": the image's temporary file
\* has the name of the download's.
Temporary(k) == IF k = "image" THEN <<"download", "tmp">> ELSE <<k, "tmp">>

Names    == {Final(k) : k \in AllKinds} \cup {Temporary(k) : k \in AllKinds}
Contents == [1 .. Blocks -> AllKinds \cup {"none", "bad"}]
Whole(k) == [b \in 1 .. Blocks |-> k]
Empty    == [b \in 1 .. Blocks |-> "none"]

Exists(n)        == dir[n] # NoInode
HoldsWhole(n, k) == Exists(n) /\ inodes[dir[n]] = Whole(k)

Init ==
  /\ dir = [n \in Names |-> NoInode] /\ inodes = [i \in Inodes |-> Empty]
  /\ pc = [p \in Procs |-> "idle"]
  /\ goal \in [Procs -> Kinds] /\ doing = goal
  /\ fd = [p \in Procs |-> NoInode] /\ pos = [p \in Procs |-> 0] /\ stops = 0

-----------------------------------------------------------------------------
Goes(p, from, to) == pc[p] = from /\ pc' = [pc EXCEPT ![p] = to]
DiskFrame   == UNCHANGED <<dir, inodes>>
WriterFrame == UNCHANGED <<fd, pos>>

\* A run asks for a file.
Start(p, k) ==
  /\ Goes(p, "idle", "look")
  /\ goal' = [goal EXCEPT ![p] = k] /\ doing' = [doing EXCEPT ![p] = k]
  /\ DiskFrame /\ WriterFrame /\ UNCHANGED stops

\* Mutant: the file is made again though it is there.
LookAgain(p) ==
  /\ Goes(p, "look", "open") /\ DiskFrame /\ WriterFrame /\ UNCHANGED <<goal, doing, stops>>

\* path.exists(): returned as it is.  What is unpacked needs what it is in first,
\* which is looked for in turn.
Look(p) ==
  LET k == doing[p] there == Exists(Final(k)) IN
  /\ \/ there /\ k = goal[p] /\ Goes(p, "look", "have") /\ UNCHANGED doing
     \/ there /\ k # goal[p] /\ Goes(p, "look", "open") /\ doing' = [doing EXCEPT ![p] = goal[p]]
     \/ ~there /\ k \in Unpacked /\ Goes(p, "look", "look") /\ doing' = [doing EXCEPT ![p] = From(k)]
     \/ ~there /\ k \notin Unpacked /\ Goes(p, "look", "open") /\ UNCHANGED doing
  /\ DiskFrame /\ WriterFrame /\ UNCHANGED <<goal, stops>>

\* Inodes no name and no open file holds.
Free == {i \in Inodes : (\A n \in Names : dir[n] # i) /\ \A q \in Procs : fd[q] # i}

\* The inode open(n, "wb") writes.
Target(n) == IF Exists(n) THEN dir[n] ELSE CHOOSE i \in Free : TRUE

\* Mutant: the temporary file must not be there yet.
OpenExclusive(p) ==
  /\ IF Exists(Temporary(doing[p]))
     THEN Goes(p, "open", "idle") /\ UNCHANGED <<dir, inodes, fd>>
     ELSE /\ Goes(p, "open", "write")
          /\ LET i == Target(Temporary(doing[p])) IN
               /\ dir' = [dir EXCEPT ![Temporary(doing[p])] = i]
               /\ inodes' = [inodes EXCEPT ![i] = Empty]
               /\ fd' = [fd EXCEPT ![p] = i]
  /\ pos' = [pos EXCEPT ![p] = 0]
  /\ UNCHANGED <<goal, doing, stops>>

\* open(tmp, "wb"): an inode that is there is emptied and reused.  So is the
\* directory rmtree empties, which extractall then fills.
Open(p) ==
  /\ Goes(p, "open", "write")
  /\ Exists(Temporary(doing[p])) \/ Free # {}
  /\ LET i == Target(Temporary(doing[p])) IN
       /\ dir' = [dir EXCEPT ![Temporary(doing[p])] = i]
       /\ inodes' = [inodes EXCEPT ![i] = Empty]
       /\ fd' = [fd EXCEPT ![p] = IF doing[p] = "qemu" THEN NoInode ELSE i]
  /\ pos' = [pos EXCEPT ![p] = 0]
  /\ UNCHANGED <<goal, doing, stops>>

\* A run ends without its file.
GivesUp(p) == pc' = [pc EXCEPT ![p] = "idle"] /\ fd' = [fd EXCEPT ![p] = NoInode]

\* The next block, good or, of a download, perhaps not what was pinned.  gzip
\* raises on a download that is cut short.
Spoils(k) == IF k \in Fetched /\ stops < MaxStops THEN {"bad"} ELSE {}
WriteBlock(p) ==
  /\ pc[p] = "write" /\ pos[p] < Blocks /\ doing[p] # "qemu"
  /\ IF doing[p] = "image" /\ ~HoldsWhole(Final("download"), "download")
     THEN GivesUp(p) /\ UNCHANGED <<inodes, pos>>
     ELSE /\ \E v \in {doing[p]} \cup Spoils(doing[p]) :
               inodes' = [inodes EXCEPT ![fd[p]][pos[p] + 1] = v]
          /\ pos' = [pos EXCEPT ![p] = @ + 1] /\ UNCHANGED <<pc, fd>>
  /\ UNCHANGED <<dir, goal, doing, stops>>

\* extractall: the next file, in the directory that has the name by now.
ExtractFile(p) ==
  /\ pc[p] = "write" /\ pos[p] < Blocks /\ doing[p] = "qemu"
  /\ IF ~HoldsWhole(Final("archive"), "archive")
     THEN GivesUp(p) /\ UNCHANGED <<dir, inodes, pos>>
     ELSE /\ LET tmp == Temporary("qemu") i == Target(tmp) IN
               /\ dir' = [dir EXCEPT ![tmp] = i]
               /\ inodes' = [inodes EXCEPT ![i] = [IF Exists(tmp) THEN @ ELSE Empty EXCEPT ![pos[p] + 1] = "qemu"]]
          /\ pos' = [pos EXCEPT ![p] = @ + 1] /\ UNCHANGED <<pc, fd>>
  /\ UNCHANGED <<goal, doing, stops>>

\* Mutant: one block short.
CloseShort(p) ==
  /\ Goes(p, "write", IF doing[p] \in Fetched \cup {"qemu"} THEN "check" ELSE "rename")
  /\ pos[p] >= Blocks - 1 /\ fd' = [fd EXCEPT ![p] = NoInode]
  /\ DiskFrame /\ UNCHANGED <<goal, doing, pos, stops>>

\* The file is closed.  Only a download, and what QEMU came as, is checked.
Close(p) ==
  /\ Goes(p, "write", IF doing[p] \in Fetched \cup {"qemu"} THEN "check" ELSE "rename")
  /\ pos[p] = Blocks /\ fd' = [fd EXCEPT ![p] = NoInode]
  /\ DiskFrame /\ UNCHANGED <<goal, doing, pos, stops>>

\* Opening or renaming a temporary name that is gone raises.
TemporaryGone(p) == GivesUp(p) /\ UNCHANGED <<dir, doing, stops>>

\* Of what QEMU came as only the binary, the first of its files, and the directory
\* of the others are looked for.
Carries(c) == c[1] = "qemu" /\ (Blocks = 1 \/ \E b \in 2 .. Blocks : c[b] = "qemu")
Passes(n, k) == IF k = "qemu" THEN Carries(inodes[dir[n]]) ELSE HoldsWhole(n, k)

\* The download is read back by its name and hashed.  One that is not what was
\* pinned is deleted, and the run stops.  It stops, and deletes nothing, when the
\* directory has no QEMU or no data.
Check(p) ==
  /\ pc[p] = "check"
  /\ LET tmp == Temporary(doing[p]) IN
       IF ~Exists(tmp) THEN TemporaryGone(p)
       ELSE IF Passes(tmp, doing[p])
            THEN pc' = [pc EXCEPT ![p] = "rename"] /\ UNCHANGED <<dir, doing, fd, stops>>
            ELSE IF doing[p] = "qemu" THEN TemporaryGone(p)
            ELSE /\ GivesUp(p) /\ dir' = [dir EXCEPT ![tmp] = NoInode] /\ UNCHANGED doing
                 /\ stops' = IF stops < MaxStops THEN stops + 1 ELSE stops
  /\ UNCHANGED <<inodes, goal, pos>>

\* The rename, of whatever has the temporary name by now.  A directory does not
\* replace another.  A download made for an image is followed by the unpacking.
Rename(p) ==
  /\ pc[p] = "rename"
  /\ LET tmp == Temporary(doing[p]) IN
       IF ~Exists(tmp) \/ (doing[p] = "qemu" /\ Exists(Final("qemu"))) THEN TemporaryGone(p)
       ELSE /\ pc' = [pc EXCEPT ![p] = IF doing[p] = goal[p] THEN "have" ELSE "open"]
            /\ dir' = [dir EXCEPT ![Final(doing[p])] = dir[tmp], ![tmp] = NoInode]
            /\ doing' = [doing EXCEPT ![p] = goal[p]]
            /\ UNCHANGED <<fd, stops>>
  /\ UNCHANGED <<inodes, goal, pos>>

\* The caller has its file.
Return(p) ==
  /\ Goes(p, "have", "idle") /\ DiskFrame /\ WriterFrame /\ UNCHANGED <<goal, doing, stops>>

\* The run is killed, the network or the disk fails, or the warming boot does.
Stop(p) ==
  /\ pc[p] # "idle" /\ stops < MaxStops /\ stops' = stops + 1
  /\ GivesUp(p) /\ DiskFrame /\ UNCHANGED <<goal, doing, pos>>

Step(p) == Look(p) \/ Open(p) \/ WriteBlock(p) \/ ExtractFile(p) \/ Close(p) \/ Check(p) \/ Rename(p)
           \/ Return(p)

Next == \E p \in Procs : Step(p) \/ Stop(p) \/ \E k \in Kinds : Start(p, k)

\* A run that is under way keeps going.  So a download is assumed to end, one way or
\* the other: nothing bounds it (assets.py:32).
Spec == Init /\ [][Next]_vars /\ \A p \in Procs : WF_vars(Step(p))

-----------------------------------------------------------------------------
TypeOK ==
  /\ dir \in [Names -> Inodes \cup {NoInode}]
  /\ inodes \in [Inodes -> Contents]
  /\ pc \in [Procs -> {"idle", "look", "open", "write", "check", "rename", "have"}]
  /\ goal \in [Procs -> AllKinds] /\ doing \in [Procs -> AllKinds]
  /\ fd \in [Procs -> Inodes \cup {NoInode}] /\ pos \in [Procs -> 0 .. Blocks]
  /\ stops \in 0 .. MaxStops
  /\ \A p \in Procs : pc[p] = "write" => (fd[p] = NoInode <=> doing[p] = "qemu")
  /\ \A p \in Procs : pc[p] \in {"check", "rename"} => pos[p] = Blocks

\* What the next run trusts by its name alone is whole, whenever a run was
\* killed (dasharo.py:46-47).
TrustedIsWhole == \A k \in AllKinds : Exists(Final(k)) => HoldsWhole(Final(k), k)

\* A file that has its final name keeps it: nothing is downloaded, unpacked or
\* warmed twice.
MadeOnce == [][\A k \in AllKinds : Exists(Final(k)) => dir'[Final(k)] = dir[Final(k)]]_vars

\* Whatever stopped runs left behind, one that is not stopped gets its file.
RecoversFromStops ==
  \A p \in Procs : (stops = MaxStops /\ pc[p] = "look") ~> pc[p] = "have"

\* dasharo.py:46-47: "Renamed only once it holds a complete boot, so an
\* interrupted run leaves no half-written image for the next one to trust".
\* With no run under way, the firmware the next one would trust is whole.
NoHalfWrittenFirmware ==
  (\A p \in Procs : pc[p] = "idle") /\ Exists(Final("firmware"))
     => HoldsWhole(Final("firmware"), "firmware")
=============================================================================
