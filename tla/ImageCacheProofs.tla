-------------------------- MODULE ImageCacheProofs --------------------------
(***************************************************************************)
(* Theorems about ImageCache when one run at a time uses the directory,    *)
(* for files of any length, any number of stops and any choice of files.   *)
(* With two runs they are false (ImageCache!NoHalfWrittenFirmware).        *)
(*                                                                         *)
(* IInv is the inductive invariant: no two names share an inode, the file  *)
(* being written is the temporary one, what is written of it so far is     *)
(* good unless it will be checked, and what is about to be renamed is      *)
(* whole and has no final name yet.                                        *)
(***************************************************************************)
EXTENDS ImageCache, TLAPS

\* One run at a time.
OneRun == \A p, q \in Procs : p = q

\* Every inode has at most one name.
Unshared == \A m, n \in Names : dir[m] # NoInode /\ dir[m] = dir[n] => m = n

\* The file a run writes is its temporary one.
Writes(p) ==
  /\ pc[p] # "write" => fd[p] = NoInode
  /\ pc[p] = "write" => /\ Exists(Temporary(doing[p]))
                        /\ doing[p] # "qemu" => fd[p] = dir[Temporary(doing[p])]

\* What no hash guards is written right: a prefix, and then all of it.
Unchecked == {"image", "firmware", "qemu"}
Prefix(p) ==
  pc[p] = "write" /\ doing[p] \in Unchecked =>
    \A b \in 1 .. pos[p] : inodes[dir[Temporary(doing[p])]][b] = doing[p]
Ready(p) == pc[p] = "rename" => HoldsWhole(Temporary(doing[p]), doing[p])

\* What is checked before it is renamed.  The check of QEMU does not show it whole.
Checked(p) ==
  pc[p] = "check" => /\ doing[p] \in Fetched \cup {"qemu"}
                     /\ doing[p] = "qemu" => HoldsWhole(Temporary("qemu"), "qemu")

\* A run makes only what is not there, or what that is unpacked from.
Missing(p) ==
  /\ pc[p] \in {"open", "write", "check", "rename"} => ~Exists(Final(doing[p]))
  /\ pc[p] # "idle" /\ doing[p] # goal[p] =>
       goal[p] \in Unpacked /\ doing[p] = From(goal[p]) /\ ~Exists(Final(goal[p]))

RunInv(p) == Writes(p) /\ Prefix(p) /\ Ready(p) /\ Checked(p) /\ Missing(p)

IInv == TypeOK /\ Unshared /\ TrustedIsWhole /\ \A p \in Procs : RunInv(p)

-----------------------------------------------------------------------------
(* Names and contents.                                                     *)

\* A kind's files have names of their own, and a temporary name is never a final one.
LEMMA NameFacts ==
  ASSUME NEW k \in AllKinds
  PROVE  /\ Final(k) \in Names /\ Temporary(k) \in Names
         /\ \A l \in AllKinds : Final(k) # Temporary(l) /\ (Final(k) = Final(l) => k = l)
<1>1. Final(k) \in Names /\ Temporary(k) \in Names
  BY DEF Names
<1>2. ASSUME NEW l \in AllKinds PROVE Final(k) # Temporary(l) /\ (Final(k) = Final(l) => k = l)
  BY DEF Final, Temporary
<1> QED  BY <1>1, <1>2

\* The empty file is a content, a whole one is, and what writing a block leaves is.
LEMMA ContentFacts ==
  /\ Empty \in Contents
  /\ \A k \in AllKinds : Whole(k) \in Contents
  /\ \A c \in Contents, b \in 1 .. Blocks, v \in AllKinds \cup {"none", "bad"} :
       [c EXCEPT ![b] = v] \in Contents
BY DEF Contents, Empty, Whole

\* A file all of whose blocks are good is whole.
LEMMA AllGood ==
  ASSUME NEW c \in Contents, NEW k \in AllKinds, \A b \in 1 .. Blocks : c[b] = k
  PROVE  c = Whole(k)
BY DEF Contents, Whole

\* What is unpacked comes from a file of another kind, which is not itself unpacked.
LEMMA KindFacts ==
  /\ Kinds \subseteq AllKinds /\ Fetched \subseteq AllKinds /\ Unpacked \subseteq AllKinds
  /\ \A k \in Unpacked : From(k) \in AllKinds /\ From(k) # k /\ From(k) \notin Unpacked
  /\ Unchecked = AllKinds \ Fetched
BY KindsAssumption DEF AllKinds, Fetched, Unpacked, From, Unchecked

\* The inode a name that is to be written has.
LEMMA TargetFacts ==
  ASSUME TypeOK, NEW n \in Names, Exists(n) \/ Free # {}
  PROVE  /\ Target(n) \in Inodes /\ Target(n) # NoInode
         /\ Exists(n) => Target(n) = dir[n]
         /\ ~Exists(n) => \A m \in Names : dir[m] # Target(n)
BY InodesAssumption DEF TypeOK, Exists, Target, Free

-----------------------------------------------------------------------------
(* IInv is inductive.                                                      *)

\* The types.  A run that extracts still has its directory.
LEMMA TypeStep == IInv /\ [Next]_vars => TypeOK'
<1> SUFFICES ASSUME IInv, [Next]_vars PROVE TypeOK'
  OBVIOUS
<1> USE KindFacts, ContentFacts, BlocksAssumption
<1>0. TypeOK /\ \A p \in Procs : RunInv(p)
  BY DEF IInv
<1>1. ASSUME NEW p \in Procs, Look(p) PROVE TypeOK'
  BY <1>0, <1>1 DEF TypeOK, Look, Goes, DiskFrame, WriterFrame
<1>2. ASSUME NEW p \in Procs, Open(p) PROVE TypeOK'
  <2>1. Target(Temporary(doing[p])) \in Inodes /\ Target(Temporary(doing[p])) # NoInode
    BY <1>0, <1>2, NameFacts, TargetFacts DEF Open, TypeOK
  <2>2. dir' \in [Names -> Inodes \cup {NoInode}] /\ inodes' \in [Inodes -> Contents]
    BY <1>0, <1>2, <2>1, NameFacts DEF Open, TypeOK
  <2> QED  BY <1>0, <1>2, <2>1, <2>2 DEF Open, Goes, TypeOK
<1>3. ASSUME NEW p \in Procs, WriteBlock(p) PROVE TypeOK'
  <2>1. CASE pc' = pc
    <3>1. fd[p] \in Inodes /\ pos[p] + 1 \in 1 .. Blocks
      BY <1>0, <1>3 DEF WriteBlock, TypeOK
    <3>2. PICK v \in {doing[p]} \cup Spoils(doing[p]) : inodes' = [inodes EXCEPT ![fd[p]][pos[p] + 1] = v]
      BY <1>0, <1>3, <2>1 DEF WriteBlock, GivesUp, TypeOK
    <3>3. v \in AllKinds \cup {"none", "bad"}
      BY <1>0, <3>2 DEF Spoils, TypeOK
    <3>4. inodes' \in [Inodes -> Contents]
      BY <1>0, <3>1, <3>2, <3>3 DEF TypeOK
    <3>5. /\ UNCHANGED <<dir, pc, goal, doing, fd, stops>> /\ pc[p] = "write"
          /\ pos' = [pos EXCEPT ![p] = pos[p] + 1] /\ pos[p] + 1 \in 0 .. Blocks
      BY <1>0, <1>3, <2>1, <3>1 DEF WriteBlock, GivesUp, TypeOK
    <3> QED  BY <1>0, <3>4, <3>5 DEF TypeOK
  <2>2. CASE pc' # pc
    BY <1>0, <1>3, <2>2 DEF WriteBlock, GivesUp, TypeOK
  <2> QED  BY <2>1, <2>2
<1>4. ASSUME NEW p \in Procs, ExtractFile(p) PROVE TypeOK'
  <2> DEFINE tmp == Temporary("qemu")
  <2>1. tmp \in Names /\ Exists(tmp) /\ Target(tmp) \in Inodes
    BY <1>0, <1>4, NameFacts, TargetFacts DEF ExtractFile, RunInv, Writes, AllKinds
  <2>2. pos[p] + 1 \in 1 .. Blocks /\ "qemu" \in AllKinds
    BY <1>0, <1>4 DEF ExtractFile, TypeOK, AllKinds
  <2>3. inodes' \in [Inodes -> Contents]
    <3>1. inodes[Target(tmp)] \in Contents
      BY <1>0, <2>1 DEF TypeOK
    <3>2. [inodes[Target(tmp)] EXCEPT ![pos[p] + 1] = "qemu"] \in Contents
      BY <2>2, <3>1
    <3>3. \/ inodes' = inodes
          \/ inodes' = [inodes EXCEPT ![Target(tmp)] =
                          [inodes[Target(tmp)] EXCEPT ![pos[p] + 1] = "qemu"]]
      BY <1>0, <1>4, <2>1 DEF ExtractFile, TypeOK
    <3> QED  BY <1>0, <3>2, <3>3 DEF TypeOK
  <2>4. dir' \in [Names -> Inodes \cup {NoInode}]
    BY <1>0, <1>4, <2>1 DEF ExtractFile, TypeOK
  <2>5. /\ UNCHANGED <<goal, doing, stops>> /\ pc[p] = "write" /\ pos[p] + 1 \in 0 .. Blocks
        /\ \/ pc' = [pc EXCEPT ![p] = "idle"] /\ fd' = [fd EXCEPT ![p] = NoInode] /\ pos' = pos
           \/ pos' = [pos EXCEPT ![p] = pos[p] + 1] /\ UNCHANGED <<pc, fd>>
    BY <1>0, <1>4, <2>2 DEF ExtractFile, GivesUp, TypeOK
  <2> QED  BY <1>0, <2>3, <2>4, <2>5 DEF TypeOK
<1>5. ASSUME NEW p \in Procs, Close(p) PROVE TypeOK'
  BY <1>0, <1>5 DEF TypeOK, Close, Goes, DiskFrame
<1>6. ASSUME NEW p \in Procs, Check(p) PROVE TypeOK'
  <2>1. /\ dir' \in [Names -> Inodes \cup {NoInode}] /\ stops' \in 0 .. MaxStops
        /\ UNCHANGED <<inodes, goal, doing, pos>>
    BY <1>0, <1>6, NameFacts DEF TypeOK, Check, TemporaryGone
  <2>2. /\ pc' = [pc EXCEPT ![p] = pc'[p]] /\ pc'[p] \in {"rename", "idle"}
        /\ fd' = [fd EXCEPT ![p] = fd'[p]] /\ fd'[p] \in {fd[p], NoInode}
    BY <1>0, <1>6 DEF TypeOK, Check, GivesUp, TemporaryGone
  <2> QED  BY SMTT(30), <1>0, <1>6, <2>1, <2>2 DEF TypeOK, Check
<1>7. ASSUME NEW p \in Procs, Rename(p) PROVE TypeOK'
  <2>1. dir' \in [Names -> Inodes \cup {NoInode}]
    BY <1>0, <1>7, NameFacts DEF Rename, TemporaryGone, TypeOK
  <2>2. /\ \E to \in {"open", "have", "idle"} : pc' = [pc EXCEPT ![p] = to]
        /\ \E f \in {fd[p], NoInode} : fd' = [fd EXCEPT ![p] = f]
        /\ doing' \in [Procs -> AllKinds] /\ \A q \in Procs \ {p} : doing'[q] = doing[q]
        /\ UNCHANGED <<inodes, goal, pos, stops>>
    BY SMTT(30), <1>0, <1>7 DEF TypeOK, Rename, GivesUp, TemporaryGone
  <2>3. PICK to \in {"open", "have", "idle"} : pc' = [pc EXCEPT ![p] = to]
    BY <2>2
  <2>4. PICK f \in {fd[p], NoInode} : fd' = [fd EXCEPT ![p] = f]
    BY <2>2
  <2> QED  BY <1>0, <2>1, <2>2, <2>3, <2>4 DEF TypeOK
<1>8. ASSUME NEW p \in Procs, Return(p) PROVE TypeOK'
  BY <1>0, <1>8 DEF TypeOK, Return, Goes, DiskFrame, WriterFrame
<1>9. ASSUME NEW p \in Procs, Stop(p) PROVE TypeOK'
  BY <1>0, <1>9 DEF TypeOK, Stop, GivesUp, DiskFrame
<1>10. ASSUME NEW p \in Procs, NEW k \in Kinds, Start(p, k) PROVE TypeOK'
  BY <1>0, <1>10 DEF TypeOK, Start, Goes, DiskFrame, WriterFrame
<1>11. CASE UNCHANGED vars
  BY <1>0, <1>11 DEF TypeOK, vars
<1> QED  BY <1>1, <1>2, <1>3, <1>4, <1>5, <1>6, <1>7, <1>8, <1>9, <1>10, <1>11 DEF Next, Step

\* The steps of a run, and what each may do to names and files.  Other steps
\* leave both alone.
LEMMA DiskSteps ==
  ASSUME IInv, [Next]_vars
  PROVE  \/ UNCHANGED <<dir, inodes>>
         \/ \E p \in Procs : Open(p) \/ WriteBlock(p) \/ ExtractFile(p) \/ Check(p) \/ Rename(p)
BY DEF Next, Step, vars, Look, Close, Return, Stop, Start, DiskFrame

\* No two names share an inode: a rename moves one.
LEMMA UnsharedStep == IInv /\ [Next]_vars => Unshared'
<1> SUFFICES ASSUME IInv, [Next]_vars PROVE Unshared'
  OBVIOUS
<1>0. TypeOK /\ Unshared
  BY DEF IInv
<1>1. CASE UNCHANGED <<dir, inodes>>
  BY <1>0, <1>1 DEF Unshared
<1>2. ASSUME NEW p \in Procs, Open(p) PROVE Unshared'
  <2> DEFINE tmp == Temporary(doing[p])
  <2>1. tmp \in Names /\ (Exists(tmp) \/ Free # {})
    BY <1>0, <1>2, NameFacts DEF TypeOK, Open
  <2>2. dir' = [dir EXCEPT ![tmp] = Target(tmp)]
    BY <1>2 DEF Open
  <2>3. /\ Exists(tmp) => Target(tmp) = dir[tmp]
        /\ ~Exists(tmp) => \A m \in Names : dir[m] # Target(tmp)
    BY <1>0, <2>1, TargetFacts
  <2> QED  BY <1>0, <2>1, <2>2, <2>3 DEF TypeOK, Unshared
<1>3. ASSUME NEW p \in Procs, WriteBlock(p) PROVE Unshared'
  BY <1>0, <1>3 DEF WriteBlock, Unshared
<1>4. ASSUME NEW p \in Procs, ExtractFile(p) PROVE Unshared'
  <2>1. Exists(Temporary("qemu")) /\ Temporary("qemu") \in Names
    BY <1>4, NameFacts DEF ExtractFile, IInv, RunInv, Writes, AllKinds
  <2>2. dir' = dir
    BY <1>0, <1>4, <2>1, TargetFacts DEF ExtractFile, TypeOK
  <2> QED  BY <1>0, <2>2 DEF Unshared
<1>5. ASSUME NEW p \in Procs, Check(p) PROVE Unshared'
  BY <1>0, <1>5 DEF Check, TemporaryGone, TypeOK, Unshared
<1>6. ASSUME NEW p \in Procs, Rename(p) PROVE Unshared'
  <2> DEFINE k == doing[p]  tmp == Temporary(k)
  <2>1. k \in AllKinds
    BY <1>0 DEF TypeOK
  <2>2. tmp \in Names /\ Final(k) \in Names /\ tmp # Final(k)
    BY <2>1, NameFacts
  <2>3. \/ dir' = dir
        \/ Exists(tmp) /\ dir' = [dir EXCEPT ![Final(k)] = dir[tmp], ![tmp] = NoInode]
    BY <1>6 DEF Rename, TemporaryGone
  <2> QED  BY <1>0, <2>2, <2>3 DEF TypeOK, Unshared, Exists
<1> QED  BY <1>1, <1>2, <1>3, <1>4, <1>5, <1>6, DiskSteps

\* What a final name holds is not written again, and a name becomes final when
\* what it holds is whole.
LEMMA TrustStep == IInv /\ [Next]_vars => TrustedIsWhole'
<1> SUFFICES ASSUME IInv, [Next]_vars, NEW k \in AllKinds, Exists(Final(k))'
             PROVE  HoldsWhole(Final(k), k)'
  BY DEF TrustedIsWhole
<1>0. /\ TypeOK /\ Unshared /\ \A p \in Procs : RunInv(p)
      /\ Exists(Final(k)) => inodes[dir[Final(k)]] = Whole(k)
  BY DEF IInv, TrustedIsWhole, HoldsWhole
<1>1. CASE UNCHANGED <<dir, inodes>>
  BY <1>0, <1>1 DEF Exists, HoldsWhole
\* A file of another name is written.
<1>a. ASSUME NEW n \in Names, n # Final(k), NEW i \in Inodes, NEW c,
             Exists(n) => i = dir[n], ~Exists(n) => \A m \in Names : dir[m] # i,
             dir' = dir \/ dir' = [dir EXCEPT ![n] = i], inodes' = [inodes EXCEPT ![i] = c]
      PROVE  HoldsWhole(Final(k), k)'
  <2>1. Final(k) \in Names
    BY NameFacts
  <2>2. dir'[Final(k)] = dir[Final(k)] /\ Exists(Final(k))
    BY <1>0, <1>a, <2>1 DEF TypeOK, Exists
  <2>3. dir[Final(k)] # i
    BY <1>0, <1>a, <2>1, <2>2 DEF Unshared, Exists
  <2> QED  BY <1>0, <2>1, <2>2, <2>3, <1>a DEF TypeOK, HoldsWhole, Exists
<1>2. ASSUME NEW p \in Procs, Open(p) PROVE HoldsWhole(Final(k), k)'
  <2> DEFINE tmp == Temporary(doing[p])
  <2>1. tmp \in Names /\ tmp # Final(k) /\ (Exists(tmp) \/ Free # {})
    BY <1>0, <1>2, NameFacts DEF TypeOK, Open
  <2>2. dir' = [dir EXCEPT ![tmp] = Target(tmp)] /\ inodes' = [inodes EXCEPT ![Target(tmp)] = Empty]
    BY <1>2 DEF Open
  <2>3. /\ Target(tmp) \in Inodes
        /\ Exists(tmp) => Target(tmp) = dir[tmp]
        /\ ~Exists(tmp) => \A m \in Names : dir[m] # Target(tmp)
    BY <1>0, <2>1, TargetFacts
  <2> QED  BY <1>a, <2>1, <2>2, <2>3
<1>3. ASSUME NEW p \in Procs, WriteBlock(p) PROVE HoldsWhole(Final(k), k)'
  <2> DEFINE tmp == Temporary(doing[p])
  <2>1. tmp \in Names /\ tmp # Final(k) /\ Exists(tmp) /\ fd[p] = dir[tmp] /\ fd[p] \in Inodes
    BY <1>0, <1>3, NameFacts DEF TypeOK, WriteBlock, RunInv, Writes, Exists
  <2>2. CASE inodes' = inodes
    BY <1>1, <1>3, <2>2 DEF WriteBlock
  <2>3. CASE inodes' # inodes
    <3>1. PICK v : inodes' = [inodes EXCEPT ![fd[p]][pos[p] + 1] = v]
      BY <1>3, <2>3 DEF WriteBlock
    <3>2. inodes' = [inodes EXCEPT ![fd[p]] = [inodes[fd[p]] EXCEPT ![pos[p] + 1] = v]]
      BY <1>0, <2>1, <3>1 DEF TypeOK
    <3> QED  BY <1>3, <1>a, <2>1, <3>2 DEF WriteBlock
  <2> QED  BY <2>2, <2>3
<1>4. ASSUME NEW p \in Procs, ExtractFile(p) PROVE HoldsWhole(Final(k), k)'
  <2> DEFINE tmp == Temporary("qemu")
  <2>1. tmp \in Names /\ tmp # Final(k) /\ Exists(tmp)
    BY <1>0, <1>4, NameFacts DEF ExtractFile, RunInv, Writes, AllKinds
  <2>2. Target(tmp) = dir[tmp] /\ Target(tmp) \in Inodes
    BY <1>0, <2>1, TargetFacts
  <2>3. \/ UNCHANGED <<dir, inodes>>
        \/ /\ dir' = [dir EXCEPT ![tmp] = Target(tmp)]
           /\ \E c : inodes' = [inodes EXCEPT ![Target(tmp)] = c]
    BY <1>0, <1>4, <2>2 DEF ExtractFile, TypeOK
  <2> QED  BY <1>1, <1>a, <2>1, <2>2, <2>3
<1>5. ASSUME NEW p \in Procs, Check(p) PROVE HoldsWhole(Final(k), k)'
  <2>1. Temporary(doing[p]) \in Names /\ Temporary(doing[p]) # Final(k) /\ Final(k) \in Names
    BY <1>0, NameFacts DEF TypeOK
  <2>2. dir'[Final(k)] = dir[Final(k)] /\ inodes' = inodes
    BY <1>0, <1>5, <2>1 DEF Check, TemporaryGone, TypeOK
  <2> QED  BY <1>0, <2>2 DEF HoldsWhole, Exists
<1>6. ASSUME NEW p \in Procs, Rename(p) PROVE HoldsWhole(Final(k), k)'
  <2> DEFINE j == doing[p]  tmp == Temporary(j)
  <2>1. j \in AllKinds /\ tmp \in Names /\ Final(j) \in Names /\ Final(k) \in Names
        /\ tmp # Final(k) /\ (Final(j) = Final(k) => j = k)
    BY <1>0, NameFacts DEF TypeOK
  <2>2. inodes' = inodes
    BY <1>6 DEF Rename
  <2>3. CASE dir' = dir
    BY <1>1, <2>2, <2>3
  <2>4. CASE dir' # dir
    <3>1. dir' = [dir EXCEPT ![Final(j)] = dir[tmp], ![tmp] = NoInode]
      BY <1>6, <2>4 DEF Rename, TemporaryGone
    <3>2. inodes[dir[tmp]] = Whole(j)
      BY <1>0, <1>6 DEF Rename, RunInv, Ready, HoldsWhole
    <3>3. CASE j = k
      BY <1>0, <2>1, <2>2, <3>1, <3>2, <3>3 DEF TypeOK, HoldsWhole, Exists
    <3>4. CASE j # k
      BY <1>0, <2>1, <2>2, <3>1, <3>4 DEF TypeOK, HoldsWhole, Exists
    <3> QED  BY <3>3, <3>4
  <2> QED  BY <2>3, <2>4
<1> QED  BY <1>1, <1>2, <1>3, <1>4, <1>5, <1>6, DiskSteps

\* What a run knows of the file it makes.  No other run disturbs it.
LEMMA RunStep == OneRun /\ IInv /\ [Next]_vars => \A p \in Procs : RunInv(p)'
<1> SUFFICES ASSUME OneRun, IInv, [Next]_vars, NEW p \in Procs PROVE RunInv(p)'
  OBVIOUS
<1> USE KindFacts, ContentFacts, BlocksAssumption
<1>0. TypeOK /\ Unshared /\ RunInv(p)
  BY DEF IInv
<1>1. CASE Look(p)
  BY <1>0, <1>1 DEF TypeOK, Look, Goes, DiskFrame, WriterFrame, RunInv, Writes, Prefix, Ready,
                    Checked, Missing, Exists
<1>2. CASE Open(p)
  <2> DEFINE tmp == Temporary(doing[p])
  <2>1. tmp \in Names /\ tmp # Final(doing[p]) /\ Final(doing[p]) \in Names
    BY <1>0, NameFacts DEF TypeOK
  <2>2. Target(tmp) \in Inodes /\ Target(tmp) # NoInode
    BY <1>0, <1>2, <2>1, TargetFacts DEF Open
  <2>3. /\ dir' = [dir EXCEPT ![tmp] = Target(tmp)] /\ pc' = [pc EXCEPT ![p] = "write"]
        /\ fd' = [fd EXCEPT ![p] = IF doing[p] = "qemu" THEN NoInode ELSE Target(tmp)]
        /\ pos' = [pos EXCEPT ![p] = 0] /\ UNCHANGED <<goal, doing>> /\ pc[p] = "open"
    BY <1>2 DEF Open, Goes
  <2>4. Writes(p)'
    BY <1>0, <2>1, <2>2, <2>3 DEF TypeOK, Writes, Exists
  <2>5. Prefix(p)' /\ Ready(p)' /\ Checked(p)'
    BY <1>0, <2>3 DEF TypeOK, Prefix, Ready, Checked
  <2>6. Missing(p)'
    <3>1. \A k \in AllKinds : Final(k) # tmp /\ Final(k) \in Names
      BY <1>0, NameFacts DEF TypeOK
    <3>2. \A k \in AllKinds : Exists(Final(k))' <=> Exists(Final(k))
      BY <1>0, <2>1, <2>3, <3>1 DEF TypeOK, Exists
    <3> QED  BY <1>0, <2>3, <3>2 DEF TypeOK, RunInv, Missing
  <2> QED  BY <2>4, <2>5, <2>6 DEF RunInv
<1>3. CASE WriteBlock(p)
  <2> DEFINE tmp == Temporary(doing[p])
  <2>1. tmp \in Names /\ Exists(tmp) /\ fd[p] = dir[tmp] /\ fd[p] \in Inodes
    BY <1>0, <1>3, NameFacts DEF TypeOK, WriteBlock, RunInv, Writes, Exists
  <2>2. CASE pc' # pc
    BY <1>0, <1>3, <2>2 DEF WriteBlock, GivesUp, TypeOK, RunInv, Writes, Prefix, Ready, Checked,
                            Missing, Exists
  <2>3. CASE pc' = pc
    <3>1. /\ pc[p] = "write" /\ doing[p] # "qemu" /\ pos[p] \in 0 .. Blocks /\ pos[p] < Blocks
          /\ pos' = [pos EXCEPT ![p] = pos[p] + 1] /\ UNCHANGED <<dir, fd, goal, doing, pc>>
      BY <1>0, <1>3, <2>3 DEF WriteBlock, GivesUp, TypeOK
    <3>2. PICK v \in {doing[p]} \cup Spoils(doing[p]) :
            inodes' = [inodes EXCEPT ![fd[p]][pos[p] + 1] = v]
      BY <1>0, <1>3, <2>3 DEF WriteBlock, GivesUp, TypeOK
    <3>3. doing[p] \in Unchecked => v = doing[p]
      BY <3>2 DEF Spoils
    <3>4. inodes'[fd[p]] = [inodes[fd[p]] EXCEPT ![pos[p] + 1] = v] /\ inodes[fd[p]] \in Contents
      BY <1>0, <2>1, <3>2 DEF TypeOK
    <3>5. Prefix(p)'
      <4> SUFFICES ASSUME doing[p] \in Unchecked, NEW b \in 1 .. pos[p] + 1
                   PROVE  inodes'[fd[p]][b] = doing[p]
        BY <1>0, <2>1, <3>1 DEF Prefix, TypeOK
      <4>1. b \in 1 .. Blocks /\ pos[p] + 1 \in 1 .. Blocks
        BY <3>1
      <4>2. b # pos[p] + 1 => inodes[fd[p]][b] = doing[p]
        BY <1>0, <2>1, <3>1 DEF RunInv, Prefix
      <4> QED  BY <3>3, <3>4, <4>1, <4>2 DEF Contents
    <3> QED  BY <1>0, <3>1, <3>5 DEF TypeOK, RunInv, Writes, Ready, Checked, Missing, Exists
  <2> QED  BY <2>2, <2>3
<1>4. CASE ExtractFile(p)
  <2> DEFINE tmp == Temporary("qemu")
  <2>1. Exists(tmp) /\ Target(tmp) = dir[tmp] /\ tmp \in Names
    BY <1>0, <1>4, NameFacts, TargetFacts DEF ExtractFile, RunInv, Writes, AllKinds
  <2>2. /\ dir' = dir /\ UNCHANGED <<goal, doing>> /\ pc[p] = "write" /\ doing[p] = "qemu"
        /\ \/ pc' = [pc EXCEPT ![p] = "idle"] /\ fd' = [fd EXCEPT ![p] = NoInode]
           \/ UNCHANGED <<pc, fd>>
    BY <1>0, <1>4, <2>1 DEF ExtractFile, GivesUp, TypeOK
  <2>3. CASE pc' # pc
    BY <1>0, <2>2, <2>3 DEF TypeOK, RunInv, Writes, Prefix, Ready, Checked, Missing, Exists
  <2>4. CASE pc' = pc
    <3> DEFINE i == dir[tmp]
    <3>1. /\ i \in Inodes /\ inodes[i] \in Contents /\ pos[p] \in 0 .. Blocks /\ pos[p] < Blocks
          /\ pos' = [pos EXCEPT ![p] = pos[p] + 1] /\ UNCHANGED <<dir, pc, fd>>
      BY <1>0, <1>4, <2>1, <2>2, <2>4 DEF ExtractFile, GivesUp, TypeOK, Exists
    <3>2. inodes'[i] = [inodes[i] EXCEPT ![pos[p] + 1] = "qemu"]
      BY <1>0, <1>4, <2>1, <2>2, <2>4, <3>1 DEF ExtractFile, GivesUp, TypeOK
    <3>3. Prefix(p)'
      <4> SUFFICES ASSUME NEW b \in 1 .. pos[p] + 1  PROVE inodes'[i][b] = "qemu"
        BY <1>0, <2>2, <3>1 DEF Prefix, TypeOK
      <4>1. b \in 1 .. Blocks /\ pos[p] + 1 \in 1 .. Blocks
        BY <3>1
      <4>2. b # pos[p] + 1 => inodes[i][b] = "qemu"
        <5>1. \A c \in 1 .. pos[p] : inodes[i][c] = "qemu"
          BY <1>0, <2>2 DEF RunInv, Prefix, Unchecked
        <5> QED  BY <3>1, <5>1
      <4> QED  BY <3>1, <3>2, <4>1, <4>2 DEF Contents
    <3> QED  BY <1>0, <2>2, <3>1, <3>3 DEF TypeOK, RunInv, Writes, Ready, Checked, Missing, Exists
  <2> QED  BY <2>3, <2>4
<1>5. CASE Close(p)
  <2>1. /\ UNCHANGED <<dir, inodes, goal, doing>> /\ fd' = [fd EXCEPT ![p] = NoInode]
        /\ pc[p] = "write" /\ pos[p] = Blocks
        /\ pc' = [pc EXCEPT ![p] = IF doing[p] \in Fetched \cup {"qemu"} THEN "check" ELSE "rename"]
    BY <1>5 DEF Close, Goes, DiskFrame
  <2>2. doing[p] \in Unchecked => HoldsWhole(Temporary(doing[p]), doing[p])
    <3> SUFFICES ASSUME doing[p] \in Unchecked PROVE HoldsWhole(Temporary(doing[p]), doing[p])
      OBVIOUS
    <3> DEFINE i == dir[Temporary(doing[p])]
    <3>1. Exists(Temporary(doing[p])) /\ i \in Inodes /\ doing[p] \in AllKinds
      BY <1>0, <2>1, NameFacts DEF TypeOK, RunInv, Writes, Exists
    <3>2. inodes[i] \in Contents /\ \A b \in 1 .. Blocks : inodes[i][b] = doing[p]
      BY <1>0, <2>1, <3>1 DEF TypeOK, RunInv, Prefix
    <3> QED  BY <3>1, <3>2, AllGood DEF HoldsWhole
  <2>3. /\ doing[p] \in Fetched => pc'[p] = "check" /\ doing[p] # "qemu"
        /\ doing[p] \notin Fetched => doing[p] \in Unchecked
    BY <1>0, <2>1 DEF TypeOK, Fetched
  <2>4. Ready(p)'
    BY <1>0, <2>1, <2>2, <2>3 DEF TypeOK, Ready, HoldsWhole, Exists
  <2>5. Checked(p)'
    <3>1. doing[p] = "qemu" => HoldsWhole(Temporary("qemu"), "qemu")'
      BY <2>1, <2>2 DEF Unchecked, HoldsWhole, Exists
    <3>2. pc'[p] = "check" => doing[p] \in Fetched \cup {"qemu"}
      BY <1>0, <2>1 DEF TypeOK
    <3> QED  BY <2>1, <3>1, <3>2 DEF Checked
  <2> QED  BY <1>0, <2>1, <2>4, <2>5 DEF TypeOK, RunInv, Writes, Prefix, Missing, Exists
<1>6. CASE Check(p)
  <2> DEFINE tmp == Temporary(doing[p])
  <2>1. tmp \in Names /\ \A k \in AllKinds : Final(k) # tmp /\ Final(k) \in Names
    BY <1>0, NameFacts DEF TypeOK
  <2>2. \A k \in AllKinds : Exists(Final(k))' <=> Exists(Final(k))
    BY <1>0, <1>6, <2>1 DEF Check, TemporaryGone, TypeOK, Exists
  <2>3. /\ pc[p] = "check" /\ fd[p] = NoInode /\ UNCHANGED <<inodes, goal, doing>>
        /\ \/ pc' = [pc EXCEPT ![p] = "idle"] /\ fd' = [fd EXCEPT ![p] = NoInode]
           \/ pc' = [pc EXCEPT ![p] = "rename"] /\ HoldsWhole(tmp, doing[p]) /\ UNCHANGED <<dir, fd>>
    BY <1>0, <1>6 DEF Check, Passes, TemporaryGone, GivesUp, RunInv, Writes, Checked
  <2> QED  BY <1>0, <2>2, <2>3 DEF TypeOK, RunInv, Writes, Prefix, Ready, Checked, Missing,
                                   HoldsWhole, Exists
<1>7. CASE Rename(p)
  <2> DEFINE j == doing[p]  tmp == Temporary(j)
  <2>1. j \in AllKinds /\ goal[p] \in AllKinds /\ tmp \in Names /\ Final(j) \in Names
        /\ Final(goal[p]) \in Names /\ tmp # Final(goal[p])
        /\ (Final(j) = Final(goal[p]) => j = goal[p])
    BY <1>0, NameFacts DEF TypeOK
  <2>2. fd[p] = NoInode /\ pc[p] = "rename" /\ goal' = goal
    BY <1>0, <1>7 DEF Rename, RunInv, Writes
  <2>3. CASE pc'[p] = "idle"
    BY <1>0, <1>7, <2>2, <2>3 DEF Rename, TemporaryGone, GivesUp, TypeOK, RunInv, Writes, Prefix,
                                  Ready, Checked, Missing
  <2>4. CASE pc'[p] # "idle"
    <3>1. /\ pc' = [pc EXCEPT ![p] = IF j = goal[p] THEN "have" ELSE "open"] /\ fd' = fd
          /\ dir' = [dir EXCEPT ![Final(j)] = dir[tmp], ![tmp] = NoInode]
          /\ doing' = [doing EXCEPT ![p] = goal[p]]
      BY <1>0, <1>7, <2>4 DEF Rename, TemporaryGone, GivesUp, TypeOK
    <3>2. j # goal[p] => ~Exists(Final(goal[p]))'
      BY <1>0, <2>1, <2>2, <3>1 DEF TypeOK, RunInv, Missing, Exists
    <3> QED  BY <1>0, <2>1, <2>2, <3>1, <3>2 DEF TypeOK, RunInv, Writes, Prefix, Ready, Checked,
                                                  Missing, Exists
  <2> QED  BY <2>3, <2>4
<1>8. CASE Return(p)
  BY <1>0, <1>8 DEF TypeOK, Return, Goes, DiskFrame, WriterFrame, RunInv, Writes, Prefix, Ready,
                    Checked, Missing
<1>9. CASE Stop(p)
  BY <1>0, <1>9 DEF TypeOK, Stop, GivesUp, DiskFrame, RunInv, Writes, Prefix, Ready, Checked, Missing
<1>10. ASSUME NEW k \in Kinds, Start(p, k) PROVE RunInv(p)'
  BY <1>0, <1>10 DEF TypeOK, Start, Goes, DiskFrame, WriterFrame, RunInv, Writes, Prefix, Ready,
                     Checked, Missing
<1>11. CASE UNCHANGED vars
  BY <1>0, <1>11 DEF vars, RunInv, Writes, Prefix, Ready, Checked, Missing, HoldsWhole, Exists
<1>12. \A q \in Procs : q = p
  BY DEF OneRun
<1> QED  BY <1>1, <1>2, <1>3, <1>4, <1>5, <1>6, <1>7, <1>8, <1>9, <1>10, <1>11, <1>12 DEF Next, Step

\* Nothing is cached and nobody runs.
LEMMA InitIInv == Init => IInv
<1> SUFFICES ASSUME Init PROVE IInv
  OBVIOUS
<1>1. TypeOK
  BY KindFacts, ContentFacts, BlocksAssumption DEF Init, TypeOK
<1> QED  BY <1>1, NameFacts DEF Init, IInv, Unshared, TrustedIsWhole, Exists, RunInv, Writes, Prefix, Ready, Checked, Missing

\* IInv holds of every state one run at a time can leave.
LEMMA Inductive == OneRun => (Spec => []IInv)
<1>1. OneRun /\ IInv /\ [Next]_vars => IInv'
  BY TypeStep, UnsharedStep, TrustStep, RunStep DEF IInv
<1>2. OneRun /\ Spec => []IInv
  <2> SUFFICES ASSUME OneRun PROVE Spec => []IInv
    OBVIOUS
  <2>1. IInv /\ [Next]_vars => IInv'
    BY <1>1
  <2> QED  BY InitIInv, <2>1, PTL DEF Spec
<1> QED  BY <1>2

-----------------------------------------------------------------------------
(* The theorems.                                                           *)

\* Wherever runs that come one after the other are killed, a file is found under
\* its final name only whole: for any length of file, number of stops and choice
\* of files (assets.py, trenchboot.py, bundle.py, dasharo.py).
THEOREM TrustsWhole == OneRun => (Spec => []TrustedIsWhole)
<1>1. IInv => TrustedIsWhole
  BY DEF IInv
<1> QED  BY <1>1, Inductive, PTL

\* The types, which hold of the temporary files too.
THEOREM TypeCorrect == OneRun => (Spec => []TypeOK)
<1>1. IInv => TypeOK
  BY DEF IInv
<1> QED  BY <1>1, Inductive, PTL

\* A file that has its final name keeps it: no run makes it again, replaces it
\* or removes it.
THEOREM MadeOnlyOnce == OneRun => (Spec => MadeOnce)
<1>1. ASSUME IInv, [Next]_vars, NEW k \in AllKinds, Exists(Final(k))
      PROVE  dir'[Final(k)] = dir[Final(k)]
  <2>0. TypeOK /\ \A p \in Procs : RunInv(p)
    BY <1>1 DEF IInv
  <2>1. CASE UNCHANGED <<dir, inodes>>
    BY <2>1
  <2>2. ASSUME NEW p \in Procs, Open(p) PROVE dir'[Final(k)] = dir[Final(k)]
    BY <2>0, <2>2, NameFacts DEF TypeOK, Open
  <2>3. ASSUME NEW p \in Procs, WriteBlock(p) PROVE dir'[Final(k)] = dir[Final(k)]
    BY <2>3 DEF WriteBlock
  <2>4. ASSUME NEW p \in Procs, ExtractFile(p) PROVE dir'[Final(k)] = dir[Final(k)]
    BY <2>0, <2>4, NameFacts DEF TypeOK, ExtractFile, AllKinds
  <2>5. ASSUME NEW p \in Procs, Check(p) PROVE dir'[Final(k)] = dir[Final(k)]
    BY <2>0, <2>5, NameFacts DEF TypeOK, Check, TemporaryGone
  <2>6. ASSUME NEW p \in Procs, Rename(p) PROVE dir'[Final(k)] = dir[Final(k)]
    <3>1. doing[p] \in AllKinds /\ doing[p] # k
      BY <1>1, <2>0, <2>6 DEF TypeOK, Rename, RunInv, Missing
    <3> QED  BY <2>0, <2>6, <3>1, NameFacts DEF TypeOK, Rename, TemporaryGone
  <2> QED  BY <1>1, <2>1, <2>2, <2>3, <2>4, <2>5, <2>6, DiskSteps
<1>2. IInv /\ [Next]_vars => [\A k \in AllKinds : Exists(Final(k)) => dir'[Final(k)] = dir[Final(k)]]_vars
  BY <1>1
<1> QED  BY <1>2, Inductive, PTL DEF Spec, MadeOnce
=============================================================================
