-------------------------- MODULE TlogRotateProofs ---------------------------
(***************************************************************************)
(* Theorems about the files of the log for every number of copytools that  *)
(* share it, every limit on its size and on the number of its archives,    *)
(* any number of writes, and crashes anywhere.                             *)
(***************************************************************************)
EXTENDS TlogRotate, FiniteSetTheorems, WellFoundedInduction, TLAPS

\* A process is between the start of a rotation and the end of its gzip.
Rotating(p) == pc[p] \in InRotation \/ zip_pid[p] # NoZip

\* A file, or none.
File == Inode \cup {NoFile}

\* What the proofs need of the types: the numbers of lines are not bounded.
Types ==
    /\ dir \in [{"log", "pending", "gz"} -> File]
    /\ archives \subseteq Inode
    /\ lines \in [Inode -> SUBSET (0 .. next - 1)]
    /\ pc \in [Procs -> {"off", "idle", "lockopen", "lock", "open", "write"}
                            \cup InRotation]
    /\ fd \in [Procs -> File] /\ zip_pid \in [Procs -> Zips \cup {NoZip}]
    /\ multi_log \in [Procs -> BOOLEAN] /\ fd_lock \in [Procs -> BOOLEAN]
    /\ zst \in [Zips -> {"free", "run", "unlink", "ended"}]
    /\ zsrc \in [Zips -> File] /\ zdst \in [Zips -> File]
    /\ next \in Nat \ {0} /\ faults \in Nat

\* A gzip has its two files open as long as it runs.
Opened ==
    \A z \in Zips :
        /\ zst[z] \in {"run", "unlink"} => zsrc[z] # NoFile /\ zdst[z] # NoFile
        /\ zst[z] \in {"free", "ended"} => zsrc[z] = NoFile /\ zdst[z] = NoFile

\* A process waits for the lock in multi mode only, and has no gzip then or
\* while it rotates.
Waiting ==
    \A p \in Procs :
        /\ pc[p] \in {"lockopen", "lock"} => multi_log[p]
        /\ pc[p] \in {"lockopen", "lock"} \cup InRotation => zip_pid[p] = NoZip

\* As long as rotations have not overlapped there is one process that
\* rotates, or one gzip, of that process or an orphan, and not both.
Exclusive ==
    ~ overlap =>
        /\ \A p, q \in Procs : Rotating(p) /\ Rotating(q) => p = q
        /\ \A p \in Procs, z \in Zips :
             /\ pc[p] \in InRotation => zst[z] = "free"
             /\ zip_pid[p] \notin {NoZip, z} => zst[z] = "free"
        /\ \A y, z \in Zips : zst[y] # "free" /\ zst[z] # "free" => y = z

\* A pending.gz that nobody will reap is the work of a fault, which pays for
\* the archive that it becomes.
Leftover == dir.gz # NoFile /\ \A p \in Procs : zip_pid[p] = NoZip
Bounded ==
    ~ overlap =>
        /\ Cardinality(archives) <= LogCount + faults
        /\ Leftover => faults >= 1 /\ Cardinality(archives) + 1 <= LogCount + faults

\* It pays as well for that archive being older than what was removed; any
\* other new archive that is takes the place of one that was.
Aged ==
    /\ removed \subseteq Nat
    /\ ~ overlap =>
         /\ Cardinality(Overtaken) <= faults
         /\ Leftover => Cardinality(Overtaken) + 1 <= faults
         /\ removed # {} => Cardinality(archives) >= LogCount

\* A file has one name at most.
Names ==
    /\ dir.log # NoFile => dir.log \notin {dir.pending, dir.gz} \cup archives
    /\ dir.pending # NoFile => dir.pending \notin {dir.gz} \cup archives
    /\ dir.gz # NoFile => dir.gz \notin archives

\* A writer has a file, and a process that is to open one has none.
Descriptors ==
    \A p \in Procs :
        /\ pc[p] = "write" => fd[p] # NoFile
        /\ pc[p] \in {"open", "lockopen", "lock"} \cup InRotation => fd[p] = NoFile

\* The log is not on its way to an archive, and the output of a gzip is its
\* own and empty until the gzip has finished.
Outputs ==
    \A z \in Zips :
        /\ dir.log # NoFile => dir.log # zsrc[z] /\ dir.log # zdst[z]
        /\ \A p \in Procs : fd[p] # NoFile => fd[p] # zdst[z]
        /\ \A y \in Zips : zdst[z] # NoFile /\ zdst[y] = zdst[z] => y = z
        /\ zst[z] = "run" => lines[zdst[z]] = {}

\* A file without a name or a descriptor is empty.
Fresh == \A i \in Inode \ Used : lines[i] = {}

Files == Names /\ Descriptors /\ Outputs /\ Fresh

\* As long as rotations have not overlapped, pending and pending.gz are the
\* files of the gzip that runs, a gzip that unlinks pending has all of it in
\* its output but what came too late, and pending is free for the log.
Compressing ==
    ~ overlap =>
        /\ \A z \in Zips :
             /\ zst[z] \in {"run", "unlink"} => dir.pending = zsrc[z] /\ dir.gz = zdst[z]
             /\ zst[z] = "unlink" => lines[zsrc[z]] \subseteq lines[zdst[z]] \cup late
        /\ \A p \in Procs : pc[p] = "rename" => dir.pending = NoFile

\* The inductive invariant.
IInv ==
    /\ Types /\ Opened /\ Waiting /\ LockSpansRotation /\ Exclusive
    /\ Bounded /\ Aged /\ Files /\ Compressing /\ LinesKept

----------------------------------------------------------------------------
(* Choices                                                                  *)

USE SizeAssumption, BoundAssumption

\* Min chooses the least element of a set of natural numbers.
LEMMA MinOfNaturals ==
    ASSUME NEW S, S \subseteq Nat, S # {}
    PROVE  Min(S) \in S /\ \A y \in S : Min(S) <= y
<1>1. PICK x \in S : \A y \in S : ~ (<<y, x>> \in OpToRel(<, Nat))
  BY WFMin, NatLessThanWellFounded
<1>2. ASSUME NEW y \in S PROVE x <= y
  <2>1. <<y, x>> \in Nat \X Nat /\ <<y, x>>[1] = y /\ <<y, x>>[2] = x
    OBVIOUS
  <2>2. ~ (y < x)
    BY <1>1, <2>1 DEF OpToRel
  <2>3. QED
    BY <2>2
<1>3. QED
  BY <1>2 DEF Min

\* A new file had no name and nobody had it open.
LEMMA NewInodeIsFree ==
    ASSUME FreeInodes # {}
    PROVE  NewInode \in Inode /\ NewInode \notin Used /\ NewInode # NoFile
<1>1. FreeInodes \subseteq Nat
  BY DEF FreeInodes, Inode
<1>2. NewInode \in FreeInodes
  BY <1>1, MinOfNaturals DEF NewInode
<1>3. QED
  BY <1>2 DEF FreeInodes, Inode, NoFile

\* A new gzip process is not one that runs or waits to be reaped.
LEMMA NewZipIsFree ==
    ASSUME FreeZips # {}
    PROVE  NewZip \in Zips /\ zst[NewZip] = "free" /\ NewZip # NoZip
<1>1. FreeZips \subseteq Nat
  BY DEF FreeZips, Zips
<1>2. NewZip \in FreeZips
  BY <1>1, MinOfNaturals DEF NewZip
<1>3. QED
  BY <1>2 DEF FreeZips, Zips, NoZip

\* Every file with a name is in use.
LEMMA NamesAreUsed ==
    /\ dir.log \in Used /\ dir.pending \in Used /\ dir.gz \in Used
    /\ archives \subseteq Used
    /\ \A p \in Procs : fd[p] \in Used
    /\ \A z \in Zips : zsrc[z] \in Used /\ zdst[z] \in Used
BY DEF Used

\* The lines of the files that stay in use are kept, those of others are not.
LEMMA KeptLines ==
    ASSUME Types, KeepLines
    PROVE  /\ lines' \in [Inode -> SUBSET (0 .. next - 1)]
           /\ \A i \in Inode : lines'[i] = IF i \in Used' THEN lines[i] ELSE {}
BY DEF Types, KeepLines

----------------------------------------------------------------------------
(* Types                                                                    *)

\* What becomes of a process that ends.
LEMMA ForgetTypes ==
    ASSUME Types, NEW p \in Procs, Forget(p)
    PROVE  /\ pc' \in [Procs -> {"off", "idle", "lockopen", "lock", "open", "write"}
                                    \cup InRotation]
           /\ fd' \in [Procs -> File] /\ zip_pid' \in [Procs -> Zips \cup {NoZip}]
           /\ multi_log' \in [Procs -> BOOLEAN] /\ fd_lock' \in [Procs -> BOOLEAN]
BY DEF Types, Forget, File

\* Start, tlog_exit and death preserve the types.
LEMMA ProcessTypes ==
    ASSUME Types, NEW p \in Procs, Start(p) \/ Exit(p) \/ Crash(p)
    PROVE  Types'
<1>1. CASE Start(p)
  BY <1>1 DEF Types, Start, Goto, shared, local, lock, zips, hist
<1>2. CASE Exit(p)
  BY <1>2, ForgetTypes, KeptLines DEF Types, Exit, shared, zips, hist
<1>3. CASE Crash(p)
  <2>1. zst' \in [Zips -> {"free", "run", "unlink", "ended"}] /\ faults' \in Nat
    BY <1>3 DEF Types, Crash, Fault
  <2>2. QED
    BY <1>3, <2>1, ForgetTypes, KeptLines DEF Types, Crash, shared
<1>4. QED
  BY <1>1, <1>2, <1>3

\* _tlog_write_ext preserves them.
LEMMA WritingTypes ==
    ASSUME Types, NEW p \in Procs,
           \/ BeginWrite(p) \/ Open(p) \/ OpenFail(p) \/ TooSoon(p)
           \/ Write(p) \/ WriteFail(p)
    PROVE  Types'
<1>1. CASE BeginWrite(p)
  <2>1. pc' \in [Procs -> {"off", "idle", "lockopen", "lock", "open", "write"}
                                    \cup InRotation]
    BY <1>1 DEF Types, BeginWrite, Goto, FirstStep, InRotation
  <2>2. fd' \in [Procs -> File] 
    BY <1>1 DEF Types, BeginWrite, File
  <2>3. multi_log' \in [Procs -> BOOLEAN] 
    BY <1>1 DEF Types, BeginWrite
  <2>4. QED
    BY <1>1, <2>1, <2>2, <2>3, KeptLines DEF Types, BeginWrite, shared, lock, zips
<1>2. CASE Open(p)
  <2>1. (IF dir.log = NoFile THEN NewInode ELSE dir.log) \in File
    BY <1>2, NewInodeIsFree DEF Types, Open, File
  <2>2. QED
    BY <1>2, <2>1 DEF Types, Open, Goto, lock, zips, hist
<1>3. CASE OpenFail(p) \/ TooSoon(p)
  BY <1>3 DEF Types, OpenFail, TooSoon, Goto, Fault, shared, local, lock, zips, hist
<1>4. CASE Write(p)
  <2>1. lines' \in [Inode -> SUBSET (0 .. next' - 1)] /\ next' \in Nat \ {0}
    <3>1. lines \in [Inode -> SUBSET (0 .. next)] /\ next \in 0 .. next /\ next' - 1 = next
      BY <1>4 DEF Types, Write
    <3>2. lines' = [lines EXCEPT ![fd[p]] = @ \cup {next}]
      BY <1>4 DEF Write
    <3>3. lines' \in [Inode -> SUBSET (0 .. next)]
      BY <3>1, <3>2
    <3>4. QED
      BY <1>4, <3>1, <3>3 DEF Types, Write
  <2>2. QED
    BY <1>4, <2>1 DEF Types, Write, Goto, shared, lock, zips
<1>5. CASE WriteFail(p)
  <2>1. fd' \in [Procs -> File] 
    BY <1>5 DEF Types, WriteFail, File
  <2>2. QED
    BY <1>5, <2>1, KeptLines DEF Types, WriteFail, Goto, Fault, shared, local, lock, zips
<1>6. QED
  BY <1>1, <1>2, <1>3, <1>4, <1>5

\* An archive is one of the files that were there.
LEMMA NewArchiveTypes ==
    ASSUME Types, NEW i \in Inode, NewArchive(i)
    PROVE  /\ archives' \subseteq archives \cup {i} /\ archives' \subseteq Inode
           /\ \A a \in archives \cup {i} : a \in archives' \/ lines[a] \subseteq removed'
           /\ removed \subseteq removed'
BY DEF Types, NewArchive, kSubset

\* Giving the lock up, and giving the rotation up, preserve the types.
LEMMA ErroutTypes ==
    ASSUME Types, NEW p \in Procs
    PROVE  /\ Unlock(p) => fd_lock' \in [Procs -> BOOLEAN]
           /\ \A from : Errout(p, from) =>
                pc' \in [Procs -> {"off", "idle", "lockopen", "lock", "open", "write"}
                                    \cup InRotation]
BY DEF Types, Unlock, Errout, Goto

\* _tlog_archive_log preserves them.
LEMMA RotationTypes ==
    ASSUME Types, NEW p \in Procs,
           \/ LockOpen(p) \/ LockTaken(p) \/ LockBusy(p) \/ LockOpenFail(p)
           \/ ArchiveGz(p) \/ ArchiveGzFail(p) \/ Access(p) \/ Rename(p) \/ RenameFail(p)
           \/ Fork(p) \/ ExecFail(p) \/ ForkFail(p) \/ Move(p) \/ MoveFail(p)
    PROVE  Types'
<1>1. CASE LockOpen(p) \/ LockTaken(p) \/ LockBusy(p) \/ LockOpenFail(p)
  <2>1. /\ pc' \in [Procs -> {"off", "idle", "lockopen", "lock", "open", "write"}
                                    \cup InRotation]
        /\ fd_lock' \in [Procs -> BOOLEAN]
    BY <1>1 DEF Types, LockOpen, LockTaken, LockBusy, LockOpenFail, Goto, FirstStep,
       InRotation, lock
  <2>2. /\ UNCHANGED <<dir, archives, lines, fd, zip_pid, multi_log, zst, zsrc, zdst, next>>
        /\ faults' \in Nat
    BY <1>1 DEF Types, LockOpen, LockTaken, LockBusy, LockOpenFail, Fault,
       shared, local, zips, hist
  <2>3. QED
    BY <2>1, <2>2 DEF Types
<1>2. CASE ArchiveGzFail(p) \/ RenameFail(p) \/ ForkFail(p) \/ MoveFail(p)
  <2>1. faults' \in Nat
    BY <1>2 DEF Types, ArchiveGzFail, RenameFail, ForkFail, MoveFail, Fault
  <2>2. QED
    BY <1>2, <2>1, ErroutTypes DEF Types, ArchiveGzFail, RenameFail, ForkFail, MoveFail,
       Errout, zips
<1>3. CASE ArchiveGz(p)
  BY <1>3 DEF Types, ArchiveGz, Goto, File, InRotation, local, lock, zips, hist
<1>4. CASE Access(p)
  BY <1>4 DEF Types, Access, AfterRename, Goto, InRotation, shared, local, lock, zips, hist
<1>5. CASE Rename(p)
  <2>1. dir' \in [{"log", "pending", "gz"} -> File]
    BY <1>5 DEF Types, Rename, File
  <2>2. pc' \in [Procs -> {"off", "idle", "lockopen", "lock", "open", "write"}
                                    \cup InRotation]
    BY <1>5 DEF Types, Rename, AfterRename, Goto, InRotation
  <2>3. QED
    BY <1>5, <2>1, <2>2, KeptLines DEF Types, Rename, local, lock, zips, hist
<1>6. CASE Fork(p)
  <2>1. NewInode \in File /\ dir.pending \in File /\ NewZip \in Zips
    BY <1>6, NewInodeIsFree, NewZipIsFree DEF Types, Fork, File
  <2>2. /\ dir' \in [{"log", "pending", "gz"} -> File]
        /\ zst' \in [Zips -> {"free", "run", "unlink", "ended"}]
        /\ zsrc' \in [Zips -> File] /\ zdst' \in [Zips -> File]
    BY <1>6, <2>1 DEF Types, Fork
  <2>3. /\ zip_pid' \in [Procs -> Zips \cup {NoZip}]
        /\ pc' \in [Procs -> {"off", "idle", "lockopen", "lock", "open", "write"}
                                    \cup InRotation]
    BY <1>6, <2>1 DEF Types, Fork, Goto
  <2>4. QED
    BY <1>6, <2>2, <2>3 DEF Types, Fork, local, lock, hist
<1>7. CASE ExecFail(p)
  <2>1. NewZip \in Zips
    BY <1>7, NewZipIsFree DEF ExecFail
  <2>2. QED
    BY <1>7, <2>1 DEF Types, ExecFail, Goto, Fault, shared, lock
<1>8. CASE Move(p)
  <2>1. dir.pending \in Inode
    BY <1>8 DEF Types, Move, File
  <2>2. archives' \subseteq Inode
    BY <1>8, <2>1, NewArchiveTypes DEF Move
  <2>3. /\ dir' \in [{"log", "pending", "gz"} -> File]
        /\ pc' \in [Procs -> {"off", "idle", "lockopen", "lock", "open", "write"}
                                    \cup InRotation]
    BY <1>8 DEF Types, Move, Goto, File
  <2>4. QED
    BY <1>8, <2>2, <2>3, KeptLines, ErroutTypes DEF Types, Move, local, zips
<1>9. QED
  BY <1>1, <1>2, <1>3, <1>4, <1>5, <1>6, <1>7, <1>8

\* Reaping a gzip preserves them.
LEMMA ReapTypes ==
    ASSUME Types, NEW p \in Procs, Reap(p) \/ ReapFail(p)
    PROVE  Types'
<1>1. /\ zip_pid' \in [Procs -> Zips \cup {NoZip}]
      /\ zst' \in [Zips -> {"free", "run", "unlink", "ended"}]
      /\ UNCHANGED <<pc, fd, multi_log, zsrc, zdst, next>>
  BY DEF Types, Reap, ReapFail, Reaped, local
<1>2. fd_lock' \in [Procs -> BOOLEAN] /\ faults' \in Nat
  BY ErroutTypes DEF Types, Reap, ReapFail, Fault
<1>3. CASE Reap(p)
  <2>1. dir.gz \in Inode /\ dir' \in [{"log", "pending", "gz"} -> File]
    BY <1>3 DEF Types, Reap, File
  <2>2. archives' \subseteq Inode
    BY <1>3, <2>1, NewArchiveTypes DEF Reap
  <2>3. QED
    BY <1>1, <1>2, <1>3, <2>1, <2>2, KeptLines DEF Types, Reap
<1>4. CASE ReapFail(p)
  BY <1>1, <1>2, <1>4 DEF Types, ReapFail
<1>5. QED
  BY <1>3, <1>4

\* A step of gzip preserves them.
LEMMA GzipTypes ==
    ASSUME Types, Opened, NEW z \in Zips, ZipStep(z) \/ GzipFail(z)
    PROVE  Types'
<1>1. CASE GzipFinish(z)
  <2>1. lines' \in [Inode -> SUBSET (0 .. next - 1)]
    <3>1. zsrc[z] \in Inode
      BY <1>1 DEF Types, Opened, GzipFinish, File
    <3>2. QED
      BY <1>1, <3>1 DEF Types, GzipFinish
  <2>2. QED
    BY <1>1, <2>1 DEF Types, GzipFinish, shared, local, lock, hist
<1>2. CASE GzipUnlink(z)
  <2>1. /\ dir' \in [{"log", "pending", "gz"} -> File]
        /\ zst' \in [Zips -> {"free", "run", "unlink", "ended"}]
        /\ zsrc' \in [Zips -> File] /\ zdst' \in [Zips -> File]
    BY <1>2 DEF Types, GzipUnlink, ZipEnds, File
  <2>2. QED
    BY <1>2, <2>1, KeptLines DEF Types, GzipUnlink, local, lock, hist
<1>3. CASE GzipFail(z)
  <2>1. /\ dir' \in [{"log", "pending", "gz"} -> File] /\ faults' \in Nat
        /\ zst' \in [Zips -> {"free", "run", "unlink", "ended"}]
        /\ zsrc' \in [Zips -> File] /\ zdst' \in [Zips -> File]
    BY <1>3 DEF Types, GzipFail, ZipEnds, Fault, File
  <2>2. QED
    BY <1>3, <2>1, KeptLines DEF Types, GzipFail, local, lock
<1>4. QED
  BY <1>1, <1>2, <1>3 DEF ZipStep

\* A gzip has its files as long as it runs.
LEMMA OpenedStep ==
    ASSUME Types, Opened, Next
    PROVE  Opened'
<1>1. ASSUME NEW p \in Procs, Crash(p)  PROVE Opened'
  BY <1>1 DEF Types, Opened, Crash
<1>2. ASSUME NEW p \in Procs, Fork(p)  PROVE Opened'
  <2>1. NewInode # NoFile /\ NewZip \in Zips /\ zst[NewZip] = "free"
    BY <1>2, NewInodeIsFree, NewZipIsFree DEF Fork
  <2>2. QED
    BY <1>2, <2>1 DEF Types, Opened, Fork
<1>3. ASSUME NEW p \in Procs, ExecFail(p)  PROVE Opened'
  BY <1>3, NewZipIsFree DEF Types, Opened, ExecFail
<1>4. ASSUME NEW p \in Procs, Reap(p) \/ ReapFail(p)  PROVE Opened'
  BY <1>4 DEF Types, Opened, Reap, ReapFail, Reaped
<1>5. ASSUME NEW z \in Zips, ZipStep(z) \/ GzipFail(z)  PROVE Opened'
  BY <1>5 DEF Types, Opened, ZipStep, GzipFinish, GzipUnlink, GzipFail, ZipEnds
<1>6. CASE UNCHANGED zips
  BY <1>6 DEF Opened, zips
<1>7. ASSUME NEW p \in Procs, Start(p) \/ Exit(p) \/ BeginWrite(p) \/ ProcStep(p) \/ ProcFail(p)
      PROVE  UNCHANGED zips \/ Fork(p) \/ ExecFail(p) \/ Reap(p) \/ ReapFail(p)
  BY <1>7 DEF ProcStep, ProcFail, Start, Exit, BeginWrite, Open, Write, LockOpen, LockTaken,
     LockBusy, ArchiveGz, Access, Rename, RenameFail, Move, MoveFail, Errout, OpenFail,
     TooSoon, WriteFail, LockOpenFail, ArchiveGzFail, ForkFail
<1>8. QED
  BY <1>1, <1>2, <1>3, <1>4, <1>5, <1>6, <1>7 DEF Next

\* Every step preserves the types.
LEMMA TypesStep ==
    ASSUME Types, Opened, Next
    PROVE  Types'
BY ProcessTypes, WritingTypes, RotationTypes, ReapTypes, GzipTypes
   DEF Next, ProcStep, ProcFail

----------------------------------------------------------------------------
(* The lock                                                                 *)

\* A process that starts, ends or writes holds no lock, but for its gzip.
LEMMA WriterLocks ==
    ASSUME Types, Waiting, LockSpansRotation, NEW p \in Procs,
           \/ Start(p) \/ Exit(p) \/ Crash(p) \/ BeginWrite(p) \/ Open(p)
           \/ OpenFail(p) \/ TooSoon(p) \/ Write(p) \/ WriteFail(p)
    PROVE  Waiting' /\ LockSpansRotation'
<1>1. CASE Start(p)
  BY <1>1 DEF Types, Waiting, LockSpansRotation, Start, Goto, local, lock, InRotation
<1>2. CASE Exit(p) \/ Crash(p)
  BY <1>2 DEF Types, Waiting, LockSpansRotation, Exit, Crash, Forget, InRotation
<1>3. CASE BeginWrite(p)
  BY <1>3 DEF Types, Waiting, LockSpansRotation, BeginWrite, Goto, FirstStep, lock, InRotation
<1>4. CASE Open(p) \/ OpenFail(p) \/ TooSoon(p) \/ Write(p) \/ WriteFail(p)
  BY <1>4 DEF Types, Waiting, LockSpansRotation, Open, OpenFail, TooSoon, Write, WriteFail,
     Goto, local, lock, InRotation
<1>5. QED
  BY <1>1, <1>2, <1>3, <1>4

\* Every way into a rotation takes the lock that multi mode asks for, and
\* every way out gives it up or passes it to the gzip.
LEMMA RotationLocks ==
    ASSUME Types, Waiting, LockSpansRotation, NEW p \in Procs,
           \/ LockOpen(p) \/ LockTaken(p) \/ LockBusy(p) \/ LockOpenFail(p)
           \/ ArchiveGz(p) \/ ArchiveGzFail(p) \/ Access(p) \/ Rename(p) \/ RenameFail(p)
           \/ Fork(p) \/ ExecFail(p) \/ ForkFail(p) \/ Move(p) \/ MoveFail(p)
    PROVE  Waiting' /\ LockSpansRotation'
<1>1. CASE LockOpen(p) \/ LockBusy(p) \/ LockOpenFail(p)
  BY <1>1 DEF Types, Waiting, LockSpansRotation, LockOpen, LockBusy, LockOpenFail, Goto,
     local, lock, InRotation
<1>2. CASE LockTaken(p)
  BY <1>2 DEF Types, Waiting, LockSpansRotation, LockTaken, FirstStep, Goto, local, InRotation
<1>3. CASE ArchiveGzFail(p) \/ RenameFail(p) \/ ForkFail(p) \/ MoveFail(p)
  BY <1>3 DEF Types, Waiting, LockSpansRotation, ArchiveGzFail, RenameFail, ForkFail,
     MoveFail, Errout, Unlock, Goto, InRotation
<1>4. CASE ArchiveGz(p) \/ Access(p) \/ Rename(p)
  BY <1>4 DEF Types, Waiting, LockSpansRotation, ArchiveGz, Access, Rename, AfterRename,
     Goto, local, lock, InRotation
<1>5. CASE Fork(p) \/ ExecFail(p)
  <2>1. NewZip # NoZip
    BY <1>5, NewZipIsFree DEF Fork, ExecFail
  <2>2. QED
    BY <1>5, <2>1 DEF Types, Waiting, LockSpansRotation, Fork, ExecFail, Goto, local, lock,
       InRotation
<1>6. CASE Move(p)
  BY <1>6 DEF Types, Waiting, LockSpansRotation, Move, Unlock, Goto, local, InRotation
<1>7. QED
  BY <1>1, <1>2, <1>3, <1>4, <1>5, <1>6

\* The lock is held as long as the rotation lasts.
LEMMA LockStep ==
    ASSUME Types, Waiting, LockSpansRotation, Next
    PROVE  Waiting' /\ LockSpansRotation'
<1>1. ASSUME NEW p \in Procs, Reap(p) \/ ReapFail(p)  PROVE Waiting' /\ LockSpansRotation'
  BY <1>1 DEF Types, Waiting, LockSpansRotation, Reap, ReapFail, Reaped, Unlock, local,
     InRotation
<1>2. ASSUME NEW z \in Zips, ZipStep(z) \/ GzipFail(z)  PROVE Waiting' /\ LockSpansRotation'
  BY <1>2 DEF Waiting, LockSpansRotation, ZipStep, GzipFinish, GzipUnlink, GzipFail, local,
     lock
<1>3. QED
  BY <1>1, <1>2, WriterLocks, RotationLocks DEF Next, ProcStep, ProcFail

----------------------------------------------------------------------------
(* One rotation at a time                                                   *)

\* A process that begins to rotate without an overlap is the only one.
LEMMA AloneAtEntry ==
    ASSUME Types, NEW p \in Procs, ~ OtherRotation(p), zip_pid[p] = NoZip
    PROVE  /\ \A q \in Procs \ {p} : ~ Rotating(q)
           /\ \A q \in Procs : zip_pid[q] = NoZip
           /\ \A z \in Zips : zst[z] = "free"
<1>1. NoZip \notin Zips
  BY DEF NoZip, Zips
<1>2. QED
  BY <1>1 DEF OtherRotation, Rotating

\* A step that starts no rotation and leaves the gzips alone keeps it so.
LEMMA ExclusiveQuiet ==
    ASSUME Types, Exclusive, overlap' = overlap, UNCHANGED zst,
           \A p \in Procs : /\ pc'[p] \in InRotation => pc[p] \in InRotation
                            /\ zip_pid'[p] # NoZip => zip_pid'[p] = zip_pid[p]
    PROVE  Exclusive'
BY DEF Exclusive, Rotating

\* Rotations that have not overlapped do not, unless the history says so.
LEMMA ExclusiveStep ==
    ASSUME Types, Waiting, Exclusive, Next
    PROVE  Exclusive'
<1>1. ASSUME NEW p \in Procs, Start(p) \/ Exit(p)  PROVE Exclusive'
  <2>1. /\ overlap' = overlap /\ UNCHANGED zst
        /\ \A q \in Procs : /\ pc'[q] \in InRotation => pc[q] \in InRotation
                            /\ zip_pid'[q] # NoZip => zip_pid'[q] = zip_pid[q]
    BY <1>1 DEF Types, Start, Exit, Forget, Goto, zips, hist, InRotation
  <2>2. QED
    BY <2>1, ExclusiveQuiet
<1>2. ASSUME NEW p \in Procs, Crash(p)  PROVE Exclusive'
  <2>1. /\ overlap' = overlap
        /\ \A z \in Zips : zst'[z] # "free" => zst[z] # "free"
        /\ \A q \in Procs : /\ pc'[q] \in InRotation => pc[q] \in InRotation
                            /\ zip_pid'[q] # NoZip => zip_pid'[q] = zip_pid[q]
    BY <1>2 DEF Types, Crash, Forget, InRotation
  <2>2. QED
    BY <2>1 DEF Exclusive, Rotating
<1>3. ASSUME NEW p \in Procs, BeginWrite(p) \/ LockTaken(p)  PROVE Exclusive'
  <2>1. /\ UNCHANGED <<zst, zip_pid>> /\ \A q \in Procs \ {p} : pc'[q] = pc[q]
        /\ pc'[p] \in InRotation => zip_pid[p] = NoZip
    BY <1>3 DEF Types, Waiting, BeginWrite, LockTaken, FirstStep, Goto, zips, InRotation
  <2>a. /\ ~ overlap' => ~ overlap
        /\ ~ overlap' /\ pc'[p] \in InRotation => ~ OtherRotation(p)
    <3>1. CASE BeginWrite(p)
      BY <3>1 DEF Types, BeginWrite, Goto, InRotation
    <3>2. CASE LockTaken(p)
      BY <3>2 DEF LockTaken
    <3>3. QED
      BY <1>3, <3>1, <3>2
  <2>2. CASE pc'[p] \notin InRotation
    BY <2>1, <2>a, <2>2 DEF Exclusive, Rotating
  <2>3. CASE pc'[p] \in InRotation
    <3>1. SUFFICES ASSUME ~ overlap' PROVE Exclusive'
      BY DEF Exclusive
    <3>2. /\ \A q \in Procs \ {p} : ~ Rotating(q)
          /\ \A q \in Procs : zip_pid[q] = NoZip
          /\ \A z \in Zips : zst[z] = "free"
      BY <2>1, <2>a, <2>3, <3>1, AloneAtEntry
    <3>3. QED
      BY <2>1, <3>2 DEF Exclusive, Rotating
  <2>4. QED
    BY <2>2, <2>3
<1>4. ASSUME NEW p \in Procs,
             \/ Open(p) \/ Write(p) \/ OpenFail(p) \/ TooSoon(p) \/ WriteFail(p)
             \/ LockOpen(p) \/ LockBusy(p) \/ LockOpenFail(p)
      PROVE  Exclusive'
  <2>1. /\ overlap' = overlap /\ UNCHANGED <<zst, zip_pid>>
        /\ \A q \in Procs : pc'[q] \in InRotation => pc[q] \in InRotation
    BY <1>4 DEF Types, Open, Write, OpenFail, TooSoon, WriteFail, LockOpen, LockBusy,
       LockOpenFail, Goto, zips, hist, InRotation
  <2>2. QED
    BY <2>1, ExclusiveQuiet
<1>5. ASSUME NEW p \in Procs,
             \/ ArchiveGz(p) \/ ArchiveGzFail(p) \/ Access(p) \/ Rename(p)
             \/ RenameFail(p) \/ ForkFail(p) \/ Move(p) \/ MoveFail(p)
      PROVE  Exclusive'
  <2>1. /\ overlap' = overlap /\ UNCHANGED <<zst, zip_pid>>
        /\ \A q \in Procs : pc'[q] \in InRotation => pc[q] \in InRotation
    BY <1>5 DEF Types, ArchiveGz, ArchiveGzFail, Access, Rename, RenameFail, ForkFail, Move,
       MoveFail, Errout, AfterRename, Goto, zips, hist, InRotation
  <2>2. QED
    BY <2>1, ExclusiveQuiet
<1>6. ASSUME NEW p \in Procs, Fork(p) \/ ExecFail(p)  PROVE Exclusive'
  <2>1. NewZip \in Zips /\ NewZip # NoZip
    BY <1>6, NewZipIsFree DEF Fork, ExecFail
  <2>2. /\ overlap' = overlap /\ pc[p] \in InRotation /\ pc'[p] \notin InRotation
        /\ \A q \in Procs \ {p} : pc'[q] = pc[q] /\ zip_pid'[q] = zip_pid[q]
        /\ zip_pid'[p] = NewZip /\ \A z \in Zips \ {NewZip} : zst'[z] = zst[z]
    BY <1>6, <2>1 DEF Types, Fork, ExecFail, Goto, hist, InRotation
  <2>3. QED
    BY <2>1, <2>2 DEF Exclusive, Rotating
<1>7. ASSUME NEW p \in Procs, Reap(p) \/ ReapFail(p)  PROVE Exclusive'
  <2>1. /\ overlap' = overlap /\ UNCHANGED pc
        /\ \A q \in Procs : zip_pid'[q] # NoZip => zip_pid'[q] = zip_pid[q]
        /\ \A z \in Zips : zst'[z] # "free" => zst[z] # "free"
    BY <1>7 DEF Types, Reap, ReapFail, Reaped
  <2>2. QED
    BY <2>1 DEF Exclusive, Rotating
<1>8. ASSUME NEW z \in Zips, ZipStep(z) \/ GzipFail(z)  PROVE Exclusive'
  <2>1. /\ overlap' = overlap /\ UNCHANGED <<pc, zip_pid>> /\ zst[z] # "free"
        /\ \A y \in Zips : zst'[y] # "free" => zst[y] # "free"
    BY <1>8 DEF Types, ZipStep, GzipFinish, GzipUnlink, GzipFail, ZipEnds, hist
  <2>2. QED
    BY <2>1 DEF Exclusive, Rotating
<1>9. QED
  BY <1>1, <1>2, <1>3, <1>4, <1>5, <1>6, <1>7, <1>8 DEF Next, ProcStep, ProcFail

----------------------------------------------------------------------------
(* Who has which file                                                       *)

\* The steps that touch the directory.
LEMMA DirectorySteps ==
    ASSUME Next
    PROVE  \/ UNCHANGED <<dir, archives>>
           \/ \E p \in Procs : \/ Open(p) \/ ArchiveGz(p) \/ Rename(p) \/ Fork(p)
                               \/ Move(p) \/ Reap(p)
           \/ \E z \in Zips : GzipUnlink(z) \/ GzipFail(z)
<1>1. ASSUME NEW p \in Procs, Start(p) \/ Exit(p) \/ Crash(p) \/ BeginWrite(p) \/ ProcFail(p)
      PROVE  UNCHANGED <<dir, archives>>
  BY <1>1 DEF Start, Exit, Crash, BeginWrite, ProcFail, OpenFail, TooSoon, WriteFail,
     LockOpenFail, ArchiveGzFail, ExecFail, ForkFail, shared
<1>2. ASSUME NEW p \in Procs, ProcStep(p)
      PROVE  \/ UNCHANGED <<dir, archives>>
             \/ Open(p) \/ ArchiveGz(p) \/ Rename(p) \/ Fork(p) \/ Move(p) \/ Reap(p)
  BY <1>2 DEF ProcStep, Write, LockOpen, LockTaken, LockBusy, Access, RenameFail, MoveFail,
     ReapFail, shared
<1>3. ASSUME NEW z \in Zips, GzipFinish(z)  PROVE UNCHANGED <<dir, archives>>
  BY <1>3 DEF GzipFinish, shared
<1>4. QED
  BY <1>1, <1>2, <1>3 DEF Next, ZipStep

\* A name passes from one file to the next by rename.
LEMMA NamesStep ==
    ASSUME Types, Names, Next
    PROVE  Names'
<1>1. CASE UNCHANGED <<dir, archives>>
  BY <1>1 DEF Names
<1>2. ASSUME NEW p \in Procs, Open(p)  PROVE Names'
  <2>1. CASE dir.log = NoFile
    <3>1. NewInode \notin Used
      BY <1>2, <2>1, NewInodeIsFree DEF Open
    <3>2. /\ dir'.log = NewInode /\ dir'.pending = dir.pending /\ dir'.gz = dir.gz
          /\ archives' = archives
      BY <1>2, <2>1 DEF Open, Types
    <3>3. QED
      BY <3>1, <3>2, NamesAreUsed DEF Names
  <2>2. CASE dir.log # NoFile
    <3>1. /\ dir'.log = dir.log /\ dir'.pending = dir.pending /\ dir'.gz = dir.gz
          /\ archives' = archives
      BY <1>2, <2>2 DEF Open, Types
    <3>2. QED
      BY <3>1 DEF Names
  <2>3. QED
    BY <2>1, <2>2
<1>3. ASSUME NEW p \in Procs, ArchiveGz(p)  PROVE Names'
  <2>1. /\ dir'.log = dir.log /\ dir'.pending = dir.pending /\ dir'.gz = NoFile
        /\ archives' = archives \cup ({dir.gz} \ {NoFile})
    BY <1>3 DEF ArchiveGz, Types
  <2>2. QED
    BY <2>1 DEF Names
<1>4. ASSUME NEW p \in Procs, Rename(p)  PROVE Names'
  <2>1. /\ dir'.log = NoFile /\ dir'.pending = dir.log /\ dir'.gz = dir.gz
        /\ archives' = archives
    BY <1>4 DEF Rename, Types
  <2>2. QED
    BY <2>1 DEF Names
<1>5. ASSUME NEW p \in Procs, Fork(p)  PROVE Names'
  <2>1. NewInode \notin Used
    BY <1>5, NewInodeIsFree DEF Fork
  <2>2. /\ dir'.log = dir.log /\ dir'.pending = dir.pending
        /\ dir'.gz = dir.gz \/ dir'.gz = NewInode
        /\ archives' = archives
    BY <1>5 DEF Fork, Types
  <2>3. QED
    BY <2>1, <2>2, NamesAreUsed DEF Names
<1>6. ASSUME NEW p \in Procs, Move(p)  PROVE Names'
  <2>1. /\ dir'.log = dir.log /\ dir'.pending = NoFile /\ dir'.gz = dir.gz
        /\ dir.pending \in Inode /\ dir.pending # NoFile
    BY <1>6 DEF Move, Types, File
  <2>2. archives' \subseteq archives \cup {dir.pending}
    BY <1>6, <2>1, NewArchiveTypes DEF Move
  <2>3. QED
    BY <2>1, <2>2 DEF Names
<1>7. ASSUME NEW p \in Procs, Reap(p)  PROVE Names'
  <2>1. /\ dir'.log = dir.log /\ dir'.pending = dir.pending /\ dir'.gz = NoFile
        /\ dir.gz \in Inode /\ dir.gz # NoFile
    BY <1>7 DEF Reap, Types, File
  <2>2. archives' \subseteq archives \cup {dir.gz}
    BY <1>7, <2>1, NewArchiveTypes DEF Reap
  <2>3. QED
    BY <2>1, <2>2 DEF Names
<1>8. ASSUME NEW z \in Zips, GzipUnlink(z) \/ GzipFail(z)  PROVE Names'
  <2>1. /\ dir'.log = dir.log /\ dir'.pending \in {dir.pending, NoFile}
        /\ dir'.gz \in {dir.gz, NoFile} /\ archives' = archives
    BY <1>8 DEF GzipUnlink, GzipFail, Types
  <2>2. QED
    BY <2>1 DEF Names
<1>9. QED
  BY <1>1, <1>2, <1>3, <1>4, <1>5, <1>6, <1>7, <1>8, DirectorySteps

\* A process opens a file before it writes and closes it to rotate.
LEMMA DescriptorsStep ==
    ASSUME Types, Descriptors, Next
    PROVE  Descriptors'
<1>1. ASSUME NEW p \in Procs, Start(p) \/ Exit(p) \/ Crash(p)  PROVE Descriptors'
  BY <1>1 DEF Types, Descriptors, Start, Exit, Crash, Forget, Goto, InRotation
<1>2. ASSUME NEW p \in Procs, BeginWrite(p)  PROVE Descriptors'
  <2>1. /\ fd' = fd \/ fd' = [fd EXCEPT ![p] = NoFile]
        /\ \A q \in Procs \ {p} : pc'[q] = pc[q]
        /\ pc'[p] = "write" => fd' = fd /\ fd[p] # NoFile
        /\ pc'[p] \in {"open", "lockopen", "lock"} \cup InRotation => fd'[p] = NoFile
    <3>1. CASE fd' = [fd EXCEPT ![p] = NoFile] /\ pc'[p] \in {"lockopen", FirstStep(p)}
      BY <1>2, <3>1 DEF Types, BeginWrite, Goto, FirstStep, InRotation
    <3>2. CASE fd' = fd /\ pc'[p] = IF fd[p] = NoFile THEN "open" ELSE "write"
      BY <1>2, <3>2 DEF Types, BeginWrite, Goto, InRotation
    <3>3. QED
      BY <1>2, <3>1, <3>2 DEF Types, BeginWrite, Goto
  <2>2. QED
    BY <2>1 DEF Types, Descriptors
<1>3. ASSUME NEW p \in Procs, Open(p)  PROVE Descriptors'
  <2>1. (IF dir.log = NoFile THEN NewInode ELSE dir.log) # NoFile
    BY <1>3, NewInodeIsFree DEF Open
  <2>2. QED
    BY <1>3, <2>1 DEF Types, Descriptors, Open, Goto, InRotation
<1>4. ASSUME NEW p \in Procs,
             \/ OpenFail(p) \/ TooSoon(p) \/ Write(p) \/ WriteFail(p)
             \/ LockOpen(p) \/ LockTaken(p) \/ LockBusy(p) \/ LockOpenFail(p)
      PROVE  Descriptors'
  BY <1>4 DEF Types, Descriptors, OpenFail, TooSoon, Write, WriteFail, LockOpen, LockTaken,
     LockBusy, LockOpenFail, FirstStep, Goto, InRotation
<1>5. ASSUME NEW p \in Procs,
             \/ ArchiveGz(p) \/ ArchiveGzFail(p) \/ Access(p) \/ Rename(p)
             \/ RenameFail(p) \/ ForkFail(p) \/ Move(p) \/ MoveFail(p)
             \/ Fork(p) \/ ExecFail(p)
      PROVE  Descriptors'
  <2>1. /\ fd' = fd /\ pc[p] \in InRotation /\ \A q \in Procs \ {p} : pc'[q] = pc[q]
        /\ pc'[p] # "write"
    BY <1>5 DEF Types, ArchiveGz, ArchiveGzFail, Access, Rename, RenameFail, ForkFail, Move,
       MoveFail, Fork, ExecFail, Errout, AfterRename, Goto, InRotation
  <2>2. QED
    BY <2>1 DEF Descriptors
<1>6. ASSUME NEW p \in Procs, Reap(p) \/ ReapFail(p)  PROVE Descriptors'
  BY <1>6 DEF Descriptors, Reap, ReapFail, Reaped
<1>7. ASSUME NEW z \in Zips, ZipStep(z) \/ GzipFail(z)  PROVE Descriptors'
  BY <1>7 DEF Descriptors, ZipStep, GzipFinish, GzipUnlink, GzipFail
<1>8. QED
  BY <1>1, <1>2, <1>3, <1>4, <1>5, <1>6, <1>7 DEF Next, ProcStep, ProcFail

\* A step that only closes or removes files leaves the outputs as they are.
LEMMA OutputsQuiet ==
    ASSUME Types, Opened, Outputs, dir'.log \in {dir.log, NoFile},
           \A p \in Procs : fd'[p] \in {fd[p], NoFile},
           \A z \in Zips : /\ zsrc'[z] \in {zsrc[z], NoFile} /\ zdst'[z] \in {zdst[z], NoFile}
                           /\ zst'[z] = "run" => zst[z] = "run" /\ zdst'[z] = zdst[z],
           \A i \in Inode : lines'[i] \in {lines[i], {}}
    PROVE  Outputs'
<1>1. \A z \in Zips : zst[z] = "run" => zdst[z] \in Inode
  BY DEF Types, Opened, File
<1>2. QED
  BY <1>1 DEF Outputs

\* The output of a gzip is its own.
LEMMA OutputsStep ==
    ASSUME Types, Opened, Names, Outputs, Fresh, Next
    PROVE  Outputs'
<1>1. ASSUME NEW p \in Procs, Start(p) \/ Exit(p) \/ Crash(p) \/ BeginWrite(p) \/ WriteFail(p)
      PROVE  Outputs'
  <2>1. /\ dir' = dir /\ \A q \in Procs : fd'[q] \in {fd[q], NoFile}
        /\ zsrc' = zsrc /\ zdst' = zdst /\ \A z \in Zips : zst'[z] = "run" => zst[z] = "run"
    BY <1>1 DEF Types, Start, Exit, Crash, Forget, BeginWrite, WriteFail, shared, zips
  <2>2. \A i \in Inode : lines'[i] \in {lines[i], {}}
    BY <1>1, KeptLines DEF Start, Exit, Crash, BeginWrite, WriteFail
  <2>3. QED
    BY <2>1, <2>2, OutputsQuiet
<1>2. ASSUME NEW p \in Procs, Open(p)  PROVE Outputs'
  <2>1. PICK i : /\ (i = dir.log /\ dir.log # NoFile) \/ (i = NewInode /\ dir.log = NoFile)
                 /\ i # NoFile /\ dir'.log = i /\ fd' = [fd EXCEPT ![p] = i]
    BY <1>2, NewInodeIsFree DEF Types, Open
  <2>2. NewInode \notin Used \/ i = dir.log
    BY <1>2, <2>1, NewInodeIsFree DEF Open
  <2>3. UNCHANGED <<lines, zst, zsrc, zdst>>
    BY <1>2 DEF Open, zips
  <2>4. \A z \in Zips : i # zsrc[z] /\ i # zdst[z]
    BY <2>1, <2>2, NamesAreUsed DEF Outputs
  <2>5. QED
    BY <2>1, <2>3, <2>4 DEF Types, Outputs
<1>3. ASSUME NEW p \in Procs, Write(p)  PROVE Outputs'
  <2>1. /\ UNCHANGED <<dir, fd, zst, zsrc, zdst>>
        /\ \A i \in Inode : i # fd[p] => lines'[i] = lines[i]
    BY <1>3 DEF Types, Write, shared, zips
  <2>2. \A z \in Zips : zst[z] = "run" => zdst[z] \in Inode /\ zdst[z] # fd[p]
    BY DEF Types, Opened, Outputs, File
  <2>3. QED
    BY <2>1, <2>2 DEF Outputs
<1>4. ASSUME NEW p \in Procs,
             \/ OpenFail(p) \/ TooSoon(p) \/ LockOpen(p) \/ LockTaken(p) \/ LockBusy(p)
             \/ LockOpenFail(p) \/ ArchiveGz(p) \/ ArchiveGzFail(p) \/ Access(p)
             \/ RenameFail(p) \/ ForkFail(p) \/ MoveFail(p)
      PROVE  Outputs'
  <2>1. dir'.log = dir.log /\ UNCHANGED <<lines, fd, zst, zsrc, zdst>>
    BY <1>4 DEF Types, OpenFail, TooSoon, LockOpen, LockTaken, LockBusy, LockOpenFail,
       ArchiveGz, ArchiveGzFail, Access, RenameFail, ForkFail, MoveFail, Errout, shared, zips
  <2>2. QED
    BY <2>1, OutputsQuiet
<1>5. ASSUME NEW p \in Procs, Rename(p) \/ Move(p)  PROVE Outputs'
  <2>1. dir'.log \in {dir.log, NoFile} /\ UNCHANGED <<fd, zst, zsrc, zdst>>
    BY <1>5 DEF Types, Rename, Move, zips
  <2>2. \A i \in Inode : lines'[i] \in {lines[i], {}}
    BY <1>5, KeptLines DEF Rename, Move
  <2>3. QED
    BY <2>1, <2>2, OutputsQuiet
<1>6. ASSUME NEW p \in Procs, Fork(p)  PROVE Outputs'
  <2>1. CASE dir.pending # NoFile /\ dir.gz = NoFile
    <3>1. /\ NewInode \in Inode \ Used /\ NewInode # NoFile /\ NewZip \in Zips
          /\ lines[NewInode] = {}
      BY <1>6, NewInodeIsFree, NewZipIsFree DEF Fork, Fresh
    <3>2. /\ dir'.log = dir.log /\ UNCHANGED <<lines, fd>>
          /\ zst' = [zst EXCEPT ![NewZip] = "run"]
          /\ zsrc' = [zsrc EXCEPT ![NewZip] = dir.pending]
          /\ zdst' = [zdst EXCEPT ![NewZip] = NewInode]
      BY <1>6, <2>1 DEF Types, Fork
    <3>3. dir.log # NoFile => dir.log # dir.pending
      BY DEF Names
    <3>4. QED
      BY <3>1, <3>2, <3>3, NamesAreUsed DEF Types, Outputs
  <2>2. CASE ~ (dir.pending # NoFile /\ dir.gz = NoFile)
    <3>1. /\ UNCHANGED <<dir, lines, fd, zsrc, zdst>>
          /\ \A z \in Zips : zst'[z] = "run" => zst[z] = "run"
      BY <1>6, <2>2 DEF Types, Fork
    <3>2. QED
      BY <3>1, OutputsQuiet
  <2>3. QED
    BY <2>1, <2>2
<1>7. ASSUME NEW p \in Procs, ExecFail(p) \/ ReapFail(p)  PROVE Outputs'
  <2>1. /\ UNCHANGED <<dir, lines, fd, zsrc, zdst>>
        /\ \A z \in Zips : zst'[z] = "run" => zst[z] = "run"
    BY <1>7 DEF Types, ExecFail, ReapFail, Reaped, shared
  <2>2. QED
    BY <2>1, OutputsQuiet
<1>8. ASSUME NEW p \in Procs, Reap(p)  PROVE Outputs'
  <2>1. /\ dir'.log = dir.log /\ UNCHANGED <<fd, zsrc, zdst>>
        /\ \A z \in Zips : zst'[z] = "run" => zst[z] = "run"
    BY <1>8 DEF Types, Reap, Reaped
  <2>2. \A i \in Inode : lines'[i] \in {lines[i], {}}
    BY <1>8, KeptLines DEF Reap
  <2>3. QED
    BY <2>1, <2>2, OutputsQuiet
<1>9. ASSUME NEW z \in Zips, GzipFinish(z)  PROVE Outputs'
  <2>1. /\ UNCHANGED <<dir, fd, zsrc, zdst>> /\ zst' = [zst EXCEPT ![z] = "unlink"]
        /\ \A i \in Inode : i # zdst[z] => lines'[i] = lines[i]
    BY <1>9 DEF Types, GzipFinish, shared
  <2>2. \A y \in Zips \ {z} : zst[y] = "run" => zdst[y] \in Inode /\ zdst[y] # zdst[z]
    BY DEF Types, Opened, Outputs, File
  <2>3. QED
    BY <2>1, <2>2 DEF Types, Outputs
<1>10. ASSUME NEW z \in Zips, GzipUnlink(z) \/ GzipFail(z)  PROVE Outputs'
  <2>1. /\ dir'.log = dir.log /\ fd' = fd
        /\ \A y \in Zips : /\ zsrc'[y] \in {zsrc[y], NoFile} /\ zdst'[y] \in {zdst[y], NoFile}
                           /\ zst'[y] = "run" => zst[y] = "run" /\ zdst'[y] = zdst[y]
    BY <1>10 DEF Types, GzipUnlink, GzipFail, ZipEnds
  <2>2. \A i \in Inode : lines'[i] \in {lines[i], {}}
    BY <1>10, KeptLines DEF GzipUnlink, GzipFail
  <2>3. QED
    BY <2>1, <2>2, OutputsQuiet
<1>11. QED
  BY <1>1, <1>2, <1>3, <1>4, <1>5, <1>6, <1>7, <1>8, <1>9, <1>10
     DEF Next, ProcStep, ProcFail, ZipStep

\* A step that gives up no file leaves the free ones empty.
LEMMA FreshQuiet ==
    ASSUME Fresh, lines' = lines, Used \ {NoFile} \subseteq Used'
    PROVE  Fresh'
<1>1. NoFile \notin Inode
  BY DEF NoFile, Inode
<1>2. QED
  BY <1>1 DEF Fresh

\* The file of a name or of a descriptor is gone with the last of them.
LEMMA FreshStep ==
    ASSUME Types, Opened, Descriptors, Fresh, Next
    PROVE  Fresh'
<1>1. CASE KeepLines
  BY <1>1, KeptLines DEF Fresh
<1>2. ASSUME NEW p \in Procs,
             \/ Start(p) \/ OpenFail(p) \/ TooSoon(p) \/ LockOpen(p) \/ LockTaken(p)
             \/ LockBusy(p) \/ LockOpenFail(p) \/ ArchiveGzFail(p) \/ Access(p)
             \/ RenameFail(p) \/ ForkFail(p) \/ MoveFail(p) \/ ExecFail(p) \/ ReapFail(p)
      PROVE  Fresh'
  <2>1. UNCHANGED <<dir, archives, lines, fd, zsrc, zdst>>
    BY <1>2 DEF Start, OpenFail, TooSoon, LockOpen, LockTaken, LockBusy, LockOpenFail,
       ArchiveGzFail, Access, RenameFail, ForkFail, MoveFail, ExecFail, ReapFail, Reaped,
       Errout, shared, zips
  <2>2. QED
    BY <2>1, FreshQuiet DEF Used
<1>3. ASSUME NEW p \in Procs, Open(p)  PROVE Fresh'
  <2>1. /\ dir'.log = dir.log \/ dir.log = NoFile
        /\ dir'.pending = dir.pending /\ dir'.gz = dir.gz
        /\ UNCHANGED <<archives, lines, zsrc, zdst>>
        /\ fd[p] = NoFile /\ \A q \in Procs \ {p} : fd'[q] = fd[q]
    BY <1>3 DEF Types, Descriptors, Open, Goto, InRotation, zips
  <2>2. Used \ {NoFile} \subseteq Used'
    BY <2>1 DEF Used
  <2>3. QED
    BY <2>1, <2>2, FreshQuiet
<1>4. ASSUME NEW p \in Procs, Write(p)  PROVE Fresh'
  <2>1. /\ UNCHANGED <<dir, archives, fd, zsrc, zdst>>
        /\ \A i \in Inode : i # fd[p] => lines'[i] = lines[i]
    BY <1>4 DEF Types, Write, shared, zips
  <2>2. Used' = Used /\ fd[p] \in Used
    BY <2>1 DEF Used
  <2>3. QED
    BY <2>1, <2>2 DEF Fresh
<1>5. ASSUME NEW p \in Procs, ArchiveGz(p)  PROVE Fresh'
  <2>1. /\ dir'.log = dir.log /\ dir'.pending = dir.pending
        /\ archives' = archives \cup ({dir.gz} \ {NoFile})
        /\ UNCHANGED <<lines, fd, zsrc, zdst>>
    BY <1>5 DEF Types, ArchiveGz, zips
  <2>2. Used \ {NoFile} \subseteq Used'
    BY <2>1 DEF Used
  <2>3. QED
    BY <2>1, <2>2, FreshQuiet
<1>6. ASSUME NEW p \in Procs, Fork(p)  PROVE Fresh'
  <2>1. /\ dir'.log = dir.log /\ dir'.pending = dir.pending
        /\ dir'.gz = dir.gz \/ dir.gz = NoFile
        /\ UNCHANGED <<archives, lines, fd>>
    BY <1>6 DEF Types, Fork
  <2>2. \A z \in Zips : /\ zsrc[z] # NoFile => zsrc'[z] = zsrc[z]
                        /\ zdst[z] # NoFile => zdst'[z] = zdst[z]
    <3>1. zsrc[NewZip] = NoFile /\ zdst[NewZip] = NoFile
      BY <1>6, NewZipIsFree DEF Fork, Opened
    <3>2. QED
      BY <1>6, <3>1 DEF Fork, Types
  <2>3. Used \ {NoFile} \subseteq Used'
    BY <2>1, <2>2 DEF Used
  <2>4. QED
    BY <2>1, <2>3, FreshQuiet
<1>7. ASSUME NEW z \in Zips, GzipFinish(z)  PROVE Fresh'
  <2>1. /\ UNCHANGED <<dir, archives, fd, zsrc, zdst>>
        /\ \A i \in Inode : i # zdst[z] => lines'[i] = lines[i]
    BY <1>7 DEF Types, GzipFinish, shared
  <2>2. Used' = Used /\ zdst[z] \in Used
    BY <2>1 DEF Used
  <2>3. QED
    BY <2>1, <2>2 DEF Fresh
<1>8. QED
  BY <1>1, <1>2, <1>3, <1>4, <1>5, <1>6, <1>7
     DEF Next, ProcStep, ProcFail, ZipStep, Exit, Crash, BeginWrite, WriteFail, Rename, Move,
     Reap, GzipUnlink, GzipFail

----------------------------------------------------------------------------
(* The gzip that runs                                                       *)

\* The history is not rewritten.
LEMMA OverlapStays ==
    ASSUME Next, ~ overlap'
    PROVE  ~ overlap
<1>1. ASSUME NEW p \in Procs, Start(p) \/ Exit(p) \/ Crash(p) \/ BeginWrite(p) \/ ProcFail(p)
      PROVE  ~ overlap
  BY <1>1 DEF Start, Exit, Crash, BeginWrite, ProcFail, OpenFail, TooSoon, WriteFail,
     LockOpenFail, ArchiveGzFail, ExecFail, ForkFail, Errout, hist
<1>2. ASSUME NEW p \in Procs, ProcStep(p)  PROVE ~ overlap
  BY <1>2 DEF ProcStep, Open, Write, LockOpen, LockTaken, LockBusy, ArchiveGz, Access,
     Rename, RenameFail, Fork, Move, MoveFail, Reap, ReapFail, Reaped, Errout, hist
<1>3. ASSUME NEW z \in Zips, ZipStep(z) \/ GzipFail(z)  PROVE ~ overlap
  BY <1>3 DEF ZipStep, GzipFinish, GzipUnlink, GzipFail, hist
<1>4. QED
  BY <1>1, <1>2, <1>3 DEF Next

\* The files of a gzip keep their lines as long as it has them open.
LEMMA GzipFilesKept ==
    ASSUME Types, Opened, KeepLines, UNCHANGED <<zsrc, zdst>>,
           NEW z \in Zips, zst[z] \in {"run", "unlink"}
    PROVE  lines'[zsrc[z]] = lines[zsrc[z]] /\ lines'[zdst[z]] = lines[zdst[z]]
<1>1. zsrc[z] \in Inode /\ zdst[z] \in Inode
  BY DEF Types, Opened, File
<1>2. zsrc[z] \in Used' /\ zdst[z] \in Used'
  BY DEF Used
<1>3. QED
  BY <1>1, <1>2, KeptLines

\* While a process rotates there is no gzip and no other rotation.
LEMMA RotationIsAlone ==
    ASSUME Exclusive, ~ overlap, NEW p \in Procs, pc[p] \in InRotation
    PROVE  /\ \A z \in Zips : zst[z] = "free"
           /\ \A q \in Procs \ {p} : pc[q] \notin InRotation
BY DEF Exclusive, Rotating

\* A step that leaves pending, pending.gz and the gzips alone.
LEMMA CompressingQuiet ==
    ASSUME Compressing, ~ overlap, dir'.pending = dir.pending, dir'.gz = dir.gz,
           UNCHANGED <<zsrc, zdst>>,
           \A z \in Zips : zst'[z] \in {"run", "unlink"} =>
                             /\ zst'[z] = zst[z] /\ lines'[zsrc[z]] = lines[zsrc[z]]
                             /\ lines'[zdst[z]] = lines[zdst[z]],
           late' = late,
           \A p \in Procs : pc'[p] = "rename" => pc[p] = "rename" \/ dir.pending = NoFile
    PROVE  Compressing'
BY DEF Compressing

\* pending and pending.gz stay with the gzip that was started for them.
LEMMA CompressingStep ==
    ASSUME Types, Opened, Waiting, Exclusive, Outputs, Compressing, Next
    PROVE  Compressing'
<1>0. SUFFICES ASSUME ~ overlap' PROVE Compressing'
  BY DEF Compressing
<1>1. ~ overlap
  BY <1>0, OverlapStays
<1>2. ASSUME NEW p \in Procs, Exit(p) \/ Crash(p) \/ BeginWrite(p) \/ WriteFail(p)
      PROVE  Compressing'
  <2>1. /\ UNCHANGED <<dir, zsrc, zdst, late>> /\ KeepLines
        /\ \A z \in Zips : zst'[z] \in {"run", "unlink"} => zst'[z] = zst[z]
        /\ \A q \in Procs : pc'[q] = "rename" => pc[q] = "rename"
    BY <1>2 DEF Types, Exit, Crash, BeginWrite, WriteFail, Forget, Goto, FirstStep, shared,
       zips, hist
  <2>2. QED
    BY <1>1, <2>1, GzipFilesKept, CompressingQuiet
<1>3. ASSUME NEW p \in Procs,
             \/ Start(p) \/ Open(p) \/ OpenFail(p) \/ TooSoon(p) \/ LockOpen(p)
             \/ LockTaken(p) \/ LockBusy(p) \/ LockOpenFail(p) \/ ArchiveGzFail(p)
             \/ Access(p) \/ RenameFail(p) \/ ForkFail(p) \/ MoveFail(p)
      PROVE  Compressing'
  <2>1. UNCHANGED <<lines, zst, zsrc, zdst, late>>
    BY <1>3 DEF Start, Open, OpenFail, TooSoon, LockOpen, LockTaken, LockBusy, LockOpenFail,
       ArchiveGzFail, Access, RenameFail, ForkFail, MoveFail, Errout, zips, hist
  <2>2. dir'.pending = dir.pending /\ dir'.gz = dir.gz
    BY <1>3 DEF Types, Start, Open, OpenFail, TooSoon, LockOpen, LockTaken, LockBusy,
       LockOpenFail, ArchiveGzFail, Access, RenameFail, ForkFail, MoveFail, shared
  <2>3. \A q \in Procs : pc'[q] = "rename" => pc[q] = "rename" \/ dir.pending = NoFile
    BY <1>3 DEF Types, Start, Open, OpenFail, TooSoon, LockOpen, LockTaken, LockBusy,
       LockOpenFail, ArchiveGzFail, Access, RenameFail, ForkFail, MoveFail, Errout, FirstStep,
       AfterRename, Goto
  <2>4. QED
    BY <1>1, <2>1, <2>2, <2>3, CompressingQuiet
<1>4. ASSUME NEW p \in Procs, Write(p)  PROVE Compressing'
  <2>1. /\ UNCHANGED <<dir, zst, zsrc, zdst>>
        /\ \A q \in Procs : pc'[q] = "rename" => pc[q] = "rename"
        /\ \A i \in Inode : IF i = fd[p] THEN lines'[i] = lines[i] \cup {next}
                            ELSE lines'[i] = lines[i]
        /\ late' = IF fd[p] = dir.log THEN late ELSE late \cup {next}
    BY <1>4 DEF Types, Write, Goto, shared, zips
  <2>2. \A z \in Zips : zst[z] = "unlink" =>
                          /\ zsrc[z] \in Inode /\ zdst[z] \in Inode /\ zdst[z] # fd[p]
                          /\ fd[p] = zsrc[z] => fd[p] # dir.log
    BY DEF Types, Opened, Outputs, File
  <2>3. QED
    BY <1>1, <2>1, <2>2 DEF Compressing
<1>5. ASSUME NEW p \in Procs, ArchiveGz(p) \/ Rename(p) \/ Move(p)  PROVE Compressing'
  <2>1. /\ pc[p] \in InRotation /\ pc'[p] # "rename" /\ UNCHANGED zst
        /\ \A q \in Procs \ {p} : pc'[q] = pc[q]
    BY <1>5 DEF Types, ArchiveGz, Rename, Move, AfterRename, Goto, zips, InRotation
  <2>2. QED
    BY <1>1, <2>1, RotationIsAlone DEF Compressing, InRotation
<1>6. ASSUME NEW p \in Procs, Fork(p) \/ ExecFail(p)  PROVE Compressing'
  <2>1. /\ pc[p] \in InRotation /\ pc'[p] # "rename"
        /\ \A q \in Procs \ {p} : pc'[q] = pc[q]
    BY <1>6 DEF Types, Fork, ExecFail, Goto, InRotation
  <2>2. \A z \in Zips : zst'[z] # "unlink" /\ (zst'[z] = "run" => dir'.pending = zsrc'[z] /\ dir'.gz = zdst'[z])
    <3>1. \A z \in Zips : zst[z] = "free"
      BY <1>1, <2>1, RotationIsAlone
    <3>2. QED
      BY <1>6, <3>1, NewZipIsFree DEF Types, Fork, ExecFail
  <2>3. QED
    BY <1>1, <2>1, <2>2, RotationIsAlone DEF Compressing, InRotation
<1>7. ASSUME NEW p \in Procs, Reap(p) \/ ReapFail(p)  PROVE Compressing'
  <2>1. /\ zip_pid[p] # NoZip /\ UNCHANGED pc /\ zst'[zip_pid[p]] = "free"
        /\ \A z \in Zips \ {zip_pid[p]} : zst'[z] = zst[z]
        /\ dir'.pending = dir.pending
    BY <1>7 DEF Types, Reap, ReapFail, Reaped
  <2>2. \A z \in Zips : zst'[z] = "free"
    BY <1>1, <2>1 DEF Exclusive
  <2>3. QED
    BY <1>1, <2>1, <2>2 DEF Compressing
<1>8. ASSUME NEW z \in Zips, GzipFinish(z)  PROVE Compressing'
  <2>1. /\ UNCHANGED <<dir, pc, zsrc, zdst>> /\ zst' = [zst EXCEPT ![z] = "unlink"]
        /\ zst[z] = "run" /\ lines' = [lines EXCEPT ![zdst[z]] = lines[zsrc[z]]]
    BY <1>8 DEF GzipFinish, shared
  <2>2. \A y \in Zips \ {z} : zst[y] = "free"
    BY <1>1, <2>1 DEF Exclusive
  <2>3. lines'[zdst[z]] = lines[zsrc[z]] /\ lines'[zsrc[z]] = lines[zsrc[z]]
    BY <2>1 DEF Types, Opened, File
  <2>4. QED
    BY <1>1, <2>1, <2>2, <2>3 DEF Types, Compressing
<1>9. ASSUME NEW z \in Zips, GzipUnlink(z) \/ GzipFail(z)  PROVE Compressing'
  <2>1. /\ zst[z] # "free" /\ UNCHANGED pc /\ zst'[z] \notin {"run", "unlink"}
        /\ \A y \in Zips \ {z} : zst'[y] = zst[y]
        /\ dir'.pending \in {dir.pending, NoFile}
    BY <1>9 DEF Types, GzipUnlink, GzipFail, ZipEnds
  <2>2. \A y \in Zips \ {z} : zst[y] = "free"
    BY <1>1, <2>1 DEF Exclusive
  <2>3. QED
    BY <1>1, <2>1, <2>2 DEF Compressing
<1>10. QED
  BY <1>2, <1>3, <1>4, <1>5, <1>6, <1>7, <1>8, <1>9 DEF Next, ProcStep, ProcFail, ZipStep

----------------------------------------------------------------------------
(* No line is lost                                                          *)

\* The files that have a name.
Named == ({dir.log, dir.pending, dir.gz} \ {NoFile}) \cup archives

\* The lines on disk are those of the files that have a name.
LEMMA OnDiskIsNamed ==
    /\ \A i \in Named : lines[i] \subseteq OnDisk
    /\ \A n \in OnDisk : \E i \in Named : n \in lines[i]
BY DEF OnDisk, Named

\* A file that still has a name has its lines.
LEMMA NamedAreKept ==
    ASSUME Types, Types', KeepLines
    PROVE  \A i \in Named' : lines'[i] = lines[i]
<1>1. Named' \subseteq Inode /\ Named' \subseteq Used'
  BY DEF Types, Named, Used, File
<1>2. QED
  BY <1>1, KeptLines

\* No line is lost when the lines of every file that had a name are on disk,
\* removed or late.
LEMMA LinesKeptQuiet ==
    ASSUME LinesKept, ~ overlap, next' = next, removed \subseteq removed', late \subseteq late',
           \A i \in Named : \/ \E j \in Named' : lines[i] \subseteq lines'[j] \cup late'
                            \/ lines[i] \subseteq removed'
    PROVE  LinesKept'
<1>1. \A j \in Named' : lines'[j] \subseteq OnDisk'
  BY DEF OnDisk, Named
<1>2. OnDisk \subseteq OnDisk' \cup removed' \cup late'
  <2>1. SUFFICES ASSUME NEW n \in OnDisk PROVE n \in OnDisk' \cup removed' \cup late'
    OBVIOUS
  <2>2. PICK i \in Named : n \in lines[i]
    BY OnDiskIsNamed
  <2>3. QED
    BY <1>1, <2>2
<1>3. QED
  BY <1>2 DEF LinesKept

\* _tlog_remove_oldlog is the only one that takes lines away.
LEMMA LinesKeptStep ==
    ASSUME Types, Types', Opened, Exclusive, Descriptors, Outputs, Compressing, LinesKept, Next
    PROVE  LinesKept'
<1>0. SUFFICES ASSUME ~ overlap' PROVE LinesKept'
  BY DEF LinesKept
<1>1. ~ overlap
  BY <1>0, OverlapStays
<1>2. ASSUME NEW p \in Procs, Exit(p) \/ Crash(p) \/ BeginWrite(p) \/ WriteFail(p)
      PROVE  LinesKept'
  <2>1. UNCHANGED <<dir, archives, next, removed, late>> /\ KeepLines
    BY <1>2 DEF Exit, Crash, BeginWrite, WriteFail, shared, hist
  <2>2. Named' = Named
    BY <2>1 DEF Named
  <2>3. QED
    BY <1>1, <2>1, <2>2, NamedAreKept, LinesKeptQuiet
<1>3. ASSUME NEW p \in Procs,
             \/ Start(p) \/ OpenFail(p) \/ TooSoon(p) \/ LockOpen(p) \/ LockTaken(p)
             \/ LockBusy(p) \/ LockOpenFail(p) \/ ArchiveGzFail(p) \/ Access(p)
             \/ RenameFail(p) \/ ForkFail(p) \/ MoveFail(p) \/ ExecFail(p) \/ ReapFail(p)
      PROVE  LinesKept'
  <2>1. UNCHANGED <<dir, archives, lines, next, removed, late>>
    BY <1>3 DEF Start, OpenFail, TooSoon, LockOpen, LockTaken, LockBusy, LockOpenFail,
       ArchiveGzFail, Access, RenameFail, ForkFail, MoveFail, ExecFail, ReapFail, Reaped,
       Errout, shared, hist
  <2>2. QED
    BY <1>1, <2>1 DEF LinesKept, OnDisk
<1>4. ASSUME NEW p \in Procs, Open(p) \/ ArchiveGz(p) \/ Fork(p)  PROVE LinesKept'
  <2>1. UNCHANGED <<lines, next, removed, late>>
    BY <1>4 DEF Open, ArchiveGz, Fork, hist
  <2>2. Named \subseteq Named'
    <3>1. CASE Open(p)
      <4>1. /\ dir'.log = dir.log \/ dir.log = NoFile
            /\ dir'.pending = dir.pending /\ dir'.gz = dir.gz /\ archives' = archives
        BY <3>1 DEF Types, Open
      <4>2. QED
        BY <4>1 DEF Named
    <3>2. CASE ArchiveGz(p)
      <4>1. /\ dir'.log = dir.log /\ dir'.pending = dir.pending
            /\ archives' = archives \cup ({dir.gz} \ {NoFile})
        BY <3>2 DEF Types, ArchiveGz
      <4>2. QED
        BY <4>1 DEF Named
    <3>3. CASE Fork(p)
      <4>1. /\ dir'.log = dir.log /\ dir'.pending = dir.pending /\ archives' = archives
            /\ dir'.gz = dir.gz \/ dir.gz = NoFile
        BY <3>3 DEF Types, Fork
      <4>2. QED
        BY <4>1 DEF Named
    <3>4. QED
      BY <1>4, <3>1, <3>2, <3>3
  <2>3. QED
    BY <1>1, <2>1, <2>2, LinesKeptQuiet
<1>5. ASSUME NEW p \in Procs, Write(p)  PROVE LinesKept'
  <2>1. /\ UNCHANGED <<dir, archives, removed>> /\ next' = next + 1
        /\ lines' = [lines EXCEPT ![fd[p]] = @ \cup {next}]
        /\ late' = IF fd[p] = dir.log THEN late ELSE late \cup {next}
        /\ fd[p] \in Inode
    BY <1>5 DEF Types, Descriptors, Write, Goto, shared, File
  <2>2. Named' = Named /\ \A i \in Inode : lines[i] \subseteq lines'[i]
    BY <2>1 DEF Types, Named
  <2>3. Named \subseteq Inode
    BY DEF Types, Named, File
  <2>4. OnDisk \subseteq OnDisk'
    BY <2>2, <2>3 DEF OnDisk, Named
  <2>5. next \in OnDisk' \cup late'
    <3>1. CASE fd[p] = dir.log
      <4>1. fd[p] \in Named' /\ next \in lines'[fd[p]]
        BY <2>1, <2>2, <3>1 DEF Types, Named, NoFile, Inode
      <4>2. QED
        BY <4>1 DEF OnDisk, Named
    <3>2. QED
      BY <2>1, <3>1
  <2>6. 1 .. next' - 1 = (1 .. next - 1) \cup {next}
    BY <2>1 DEF Types
  <2>7. late \subseteq late'
    BY <2>1
  <2>8. QED
    BY <1>1, <2>1, <2>4, <2>5, <2>6, <2>7 DEF LinesKept
<1>6. ASSUME NEW p \in Procs, Rename(p)  PROVE LinesKept'
  <2>1. /\ dir'.log = NoFile /\ dir'.pending = dir.log /\ dir'.gz = dir.gz
        /\ UNCHANGED <<archives, next, removed, late>> /\ KeepLines /\ dir.pending = NoFile
    BY <1>1, <1>6 DEF Types, Compressing, Rename, Goto, hist
  <2>2. Named' = Named
    BY <2>1 DEF Named
  <2>3. QED
    BY <1>1, <2>1, <2>2, NamedAreKept, LinesKeptQuiet
<1>7. ASSUME NEW p \in Procs, Move(p)  PROVE LinesKept'
  <2>1. /\ dir'.log = dir.log /\ dir'.pending = NoFile /\ dir'.gz = dir.gz
        /\ UNCHANGED <<next, late>> /\ KeepLines /\ dir.pending \in Inode
        /\ NewArchive(dir.pending)
    BY <1>7 DEF Types, Move, File
  <2>2. /\ \A a \in archives \cup {dir.pending} : a \in archives' \/ lines[a] \subseteq removed'
        /\ removed \subseteq removed'
    BY <2>1, NewArchiveTypes
  <2>3. \A i \in Named : i \in Named' \/ lines[i] \subseteq removed'
    BY <2>1, <2>2 DEF Named
  <2>4. QED
    BY <1>1, <2>1, <2>2, <2>3, NamedAreKept, LinesKeptQuiet
<1>8. ASSUME NEW p \in Procs, Reap(p)  PROVE LinesKept'
  <2>1. /\ dir'.log = dir.log /\ dir'.pending = dir.pending /\ dir'.gz = NoFile
        /\ UNCHANGED <<next, late>> /\ KeepLines /\ dir.gz \in Inode /\ NewArchive(dir.gz)
    BY <1>8 DEF Types, Reap, Reaped, File
  <2>2. /\ \A a \in archives \cup {dir.gz} : a \in archives' \/ lines[a] \subseteq removed'
        /\ removed \subseteq removed'
    BY <2>1, NewArchiveTypes
  <2>3. \A i \in Named : i \in Named' \/ lines[i] \subseteq removed'
    BY <2>1, <2>2 DEF Named
  <2>4. QED
    BY <1>1, <2>1, <2>2, <2>3, NamedAreKept, LinesKeptQuiet
<1>9. ASSUME NEW z \in Zips, GzipFinish(z)  PROVE LinesKept'
  <2>1. /\ UNCHANGED <<dir, archives, next, removed, late>>
        /\ lines' = [lines EXCEPT ![zdst[z]] = lines[zsrc[z]]]
        /\ lines[zdst[z]] = {}
    BY <1>9 DEF Outputs, GzipFinish, shared, hist
  <2>2. Named' = Named /\ Named \subseteq Inode
    BY <2>1 DEF Types, Named, File
  <2>3. \A i \in Inode : lines[i] \subseteq lines'[i]
    BY <2>1 DEF Types
  <2>4. QED
    BY <1>1, <2>1, <2>2, <2>3, LinesKeptQuiet
<1>10. ASSUME NEW z \in Zips, GzipUnlink(z)  PROVE LinesKept'
  <2>1. /\ dir'.log = dir.log /\ dir'.pending = NoFile /\ dir'.gz = dir.gz
        /\ UNCHANGED <<archives, next, removed, late>> /\ KeepLines /\ zst[z] = "unlink"
    BY <1>10 DEF Types, GzipUnlink, hist
  <2>2. /\ lines[dir.pending] \subseteq lines[dir.gz] \cup late /\ dir.gz # NoFile
    BY <1>1, <2>1 DEF Compressing, Opened
  <2>3. dir.gz \in Named' /\ \A i \in Named : i = dir.pending \/ i \in Named'
    BY <2>1, <2>2 DEF Named
  <2>4. QED
    BY <1>1, <2>1, <2>2, <2>3, NamedAreKept, LinesKeptQuiet
<1>11. ASSUME NEW z \in Zips, GzipFail(z)  PROVE LinesKept'
  <2>1. /\ dir'.log = dir.log /\ dir'.pending = dir.pending /\ dir'.gz \in {dir.gz, NoFile}
        /\ UNCHANGED <<archives, next, removed, late>> /\ KeepLines /\ zst[z] = "run"
    BY <1>11 DEF Types, GzipFail
  <2>2. lines[dir.gz] = {}
    BY <1>1, <2>1 DEF Compressing, Outputs
  <2>3. \A i \in Named : i = dir.gz \/ i \in Named'
    BY <2>1 DEF Named
  <2>4. QED
    BY <1>1, <2>1, <2>2, <2>3, NamedAreKept, LinesKeptQuiet
<1>12. QED
  BY <1>2, <1>3, <1>4, <1>5, <1>6, <1>7, <1>8, <1>9, <1>10, <1>11
     DEF Next, ProcStep, ProcFail, ZipStep

----------------------------------------------------------------------------
(* How many archives there are                                              *)

\* The files are finitely many.
LEMMA ArchivesAreFinite ==
    ASSUME Types
    PROVE  /\ IsFiniteSet(archives) /\ Cardinality(archives) \in Nat
           /\ \A i : /\ IsFiniteSet(archives \cup {i})
                     /\ Cardinality(archives \cup {i}) =
                          IF i \in archives THEN Cardinality(archives)
                          ELSE Cardinality(archives) + 1
<1>1. IsFiniteSet(Inode)
  BY FS_Interval DEF Inode
<1>2. IsFiniteSet(archives)
  BY <1>1, FS_Subset DEF Types
<1>3. QED
  BY <1>2, FS_CardinalityType, FS_AddElement

\* _tlog_remove_oldlog leaves LogCount archives, or all if there are fewer.
LEMMA NewArchiveCount ==
    ASSUME Types, NEW i \in Inode, NewArchive(i)
    PROVE  /\ Cardinality(archives') \in Nat /\ Cardinality(archives') <= LogCount
           /\ Cardinality(archives') <= Cardinality(archives \cup {i})
           /\ Cardinality(archives') = LogCount \/ archives' = archives \cup {i}
<1> DEFINE all == archives \cup {i}
           k == Min({LogCount, Cardinality(all)})
<1>1. IsFiniteSet(all) /\ Cardinality(all) \in Nat
  BY ArchivesAreFinite, FS_CardinalityType
<1>2. k \in {LogCount, Cardinality(all)} /\ k <= LogCount /\ k <= Cardinality(all)
  <2>1. {LogCount, Cardinality(all)} \subseteq Nat /\ {LogCount, Cardinality(all)} # {}
    BY <1>1
  <2>2. QED
    BY <2>1, MinOfNaturals
<1>3. archives' \in SUBSET all /\ Cardinality(archives') = k
  BY DEF NewArchive, kSubset
<1> HIDE DEF all, k
<1>4. Cardinality(all) = Cardinality(archives') => all = archives'
  BY <1>1, <1>3, FS_Subset
<1>5. QED
  BY <1>1, <1>2, <1>3, <1>4 DEF all

\* A step that makes no archive and leaves no new pending.gz behind, or pays
\* for it.
LEMMA BoundedQuiet ==
    ASSUME Types, Bounded, ~ overlap, archives' = archives, faults' \in Nat,
           \/ faults' = faults /\ (Leftover' => Leftover)
           \/ faults' = faults + 1
    PROVE  Bounded'
<1>1. Cardinality(archives) \in Nat
  BY ArchivesAreFinite
<1>2. QED
  BY <1>1 DEF Bounded, Types

\* All steps but three are of that kind.
LEMMA ArchiveSteps ==
    ASSUME Types, Next
    PROVE  \/ \E p \in Procs : ArchiveGz(p) \/ Move(p) \/ Reap(p)
           \/ /\ UNCHANGED <<archives, removed>>
              /\ \/ faults' = faults /\ (Leftover' => Leftover)
                 \/ faults' = faults + 1
<1> DEFINE Quiet == /\ UNCHANGED <<archives, removed>>
                    /\ \/ faults' = faults /\ (Leftover' => Leftover)
                       \/ faults' = faults + 1
<1>1. ASSUME NEW p \in Procs,
             \/ Start(p) \/ BeginWrite(p) \/ Write(p) \/ TooSoon(p) \/ LockOpen(p)
             \/ LockTaken(p) \/ LockBusy(p) \/ ArchiveGzFail(p) \/ Access(p)
      PROVE  Quiet
  <2>1. UNCHANGED <<dir, archives, removed, faults, zip_pid>>
    BY <1>1 DEF Start, BeginWrite, Write, TooSoon, LockOpen, LockTaken, LockBusy,
       ArchiveGzFail, Access, Errout, shared, hist
  <2>2. QED
    BY <2>1 DEF Leftover
<1>2. ASSUME NEW p \in Procs, Exit(p)  PROVE Quiet
  <2>1. /\ UNCHANGED <<dir, archives, removed, faults>>
        /\ \A q \in Procs : zip_pid'[q] = zip_pid[q]
    BY <1>2 DEF Types, Exit, Forget, shared, hist
  <2>2. QED
    BY <2>1 DEF Leftover
<1>3. ASSUME NEW p \in Procs,
             \/ Crash(p) \/ OpenFail(p) \/ WriteFail(p) \/ LockOpenFail(p) \/ ExecFail(p)
             \/ ForkFail(p)
      PROVE  Quiet
  BY <1>3 DEF Crash, OpenFail, WriteFail, LockOpenFail, ExecFail, ForkFail, Fault, Errout,
     shared
<1>4. ASSUME NEW p \in Procs, RenameFail(p) \/ MoveFail(p)  PROVE Quiet
  <2>1. /\ UNCHANGED <<dir, archives, removed, zip_pid>>
        /\ faults' = faults \/ faults' = faults + 1
    BY <1>4 DEF RenameFail, MoveFail, Fault, Errout
  <2>2. QED
    BY <2>1 DEF Leftover
<1>5. ASSUME NEW p \in Procs, Open(p) \/ Rename(p)  PROVE Quiet
  <2>1. /\ dir'.gz = dir.gz /\ UNCHANGED <<archives, removed, faults, zip_pid>>
    BY <1>5 DEF Types, Open, Rename, hist
  <2>2. QED
    BY <2>1 DEF Leftover
<1>6. ASSUME NEW p \in Procs, Fork(p)  PROVE Quiet
  <2>1. zip_pid'[p] # NoZip /\ UNCHANGED <<archives, removed, faults>>
    BY <1>6, NewZipIsFree DEF Types, Fork, hist
  <2>2. QED
    BY <2>1 DEF Leftover
<1>7. ASSUME NEW p \in Procs, ReapFail(p)  PROVE Quiet
  <2>1. /\ UNCHANGED <<dir, archives, removed>>
        /\ faults' = faults + 1 \/ (faults' = faults /\ dir.gz = NoFile)
    BY <1>7 DEF ReapFail, Fault
  <2>2. QED
    BY <2>1 DEF Leftover
<1>8. ASSUME NEW z \in Zips, ZipStep(z) \/ GzipFail(z)  PROVE Quiet
  <2>1. CASE ZipStep(z)
    <3>1. dir'.gz = dir.gz /\ UNCHANGED <<archives, removed, faults, zip_pid>>
      BY <2>1 DEF Types, ZipStep, GzipFinish, GzipUnlink, shared, hist
    <3>2. QED
      BY <3>1 DEF Leftover
  <2>2. CASE GzipFail(z)
    BY <2>2 DEF GzipFail, Fault
  <2>3. QED
    BY <1>8, <2>1, <2>2
<1> HIDE DEF Quiet
<1>9. (\E p \in Procs : ArchiveGz(p) \/ Move(p) \/ Reap(p)) \/ Quiet
  BY <1>1, <1>2, <1>3, <1>4, <1>5, <1>6, <1>7, <1>8 DEF Next, ProcStep, ProcFail
<1>10. QED
  BY <1>9 DEF Quiet

\* The process that finds a pending.gz when it rotates finds a leftover.
LEMMA FoundIsLeftover ==
    ASSUME Types, Waiting, Exclusive, ~ overlap, NEW p \in Procs, pc[p] \in InRotation,
           dir.gz # NoFile
    PROVE  Leftover
BY DEF Waiting, Exclusive, Rotating, Leftover

\* An archive beyond LogCount has been paid for by a fault.
LEMMA BoundedStep ==
    ASSUME Types, Types', Waiting, Exclusive, Bounded, Next
    PROVE  Bounded'
<1>0. SUFFICES ASSUME ~ overlap' PROVE Bounded'
  BY DEF Bounded
<1>1. ~ overlap
  BY <1>0, OverlapStays
<1>2. ASSUME NEW p \in Procs, ArchiveGz(p)  PROVE Bounded'
  <2>1. /\ pc[p] \in InRotation /\ dir'.gz = NoFile /\ faults' = faults
        /\ archives' = archives \cup ({dir.gz} \ {NoFile})
    BY <1>2 DEF Types, ArchiveGz, Goto, hist, InRotation
  <2>2. CASE dir.gz = NoFile
    <3>1. archives' = archives
      BY <2>1, <2>2
    <3>2. QED
      BY <1>1, <2>1, <3>1 DEF Bounded, Leftover
  <2>3. CASE dir.gz # NoFile
    <3>1. Cardinality(archives) + 1 <= LogCount + faults
      BY <1>1, <2>1, <2>3, FoundIsLeftover DEF Bounded
    <3>2. Cardinality(archives') <= Cardinality(archives) + 1 /\ Cardinality(archives') \in Nat
      <4>1. archives' = archives \cup {dir.gz}
        BY <2>1, <2>3
      <4>2. /\ Cardinality(archives) \in Nat
            /\ Cardinality(archives \cup {dir.gz}) =
                 IF dir.gz \in archives THEN Cardinality(archives) ELSE Cardinality(archives) + 1
        BY ArchivesAreFinite
      <4>3. QED
        BY <4>1, <4>2
    <3>3. Cardinality(archives') <= LogCount + faults'
      BY <2>1, <3>1, <3>2, ArchivesAreFinite DEF Types
    <3>4. QED
      BY <2>1, <3>3 DEF Bounded, Leftover
  <2>4. QED
    BY <2>2, <2>3
<1>3. ASSUME NEW p \in Procs, Move(p)  PROVE Bounded'
  <2>1. /\ dir.pending \in Inode /\ NewArchive(dir.pending) /\ dir'.gz = dir.gz
        /\ UNCHANGED <<zip_pid, faults>>
    BY <1>3 DEF Types, Move, File
  <2>2. Cardinality(archives') \in Nat /\ Cardinality(archives') <= LogCount
    BY <2>1, NewArchiveCount
  <2>3. Leftover' => Leftover
    BY <2>1 DEF Leftover
  <2>4. Leftover' => faults >= 1
    BY <1>1, <2>3 DEF Bounded
  <2>5. QED
    BY <2>1, <2>2, <2>4 DEF Bounded, Types
<1>4. ASSUME NEW p \in Procs, Reap(p)  PROVE Bounded'
  <2>1. dir.gz \in Inode /\ NewArchive(dir.gz) /\ dir'.gz = NoFile /\ faults' = faults
    BY <1>4 DEF Types, Reap, File
  <2>2. Cardinality(archives') \in Nat /\ Cardinality(archives') <= LogCount
    BY <2>1, NewArchiveCount
  <2>3. QED
    BY <2>1, <2>2 DEF Bounded, Leftover, Types
<1>5. CASE /\ UNCHANGED <<archives, removed>>
           /\ \/ faults' = faults /\ (Leftover' => Leftover)
              \/ faults' = faults + 1
  <2>1. faults' \in Nat
    BY <1>5 DEF Types
  <2>2. QED
    BY <1>1, <1>5, <2>1, BoundedQuiet
<1>6. QED
  BY <1>2, <1>3, <1>4, <1>5, ArchiveSteps

----------------------------------------------------------------------------
(* Which archives there are                                                 *)

\* Max chooses the greatest element of a bounded set of natural numbers.
LEMMA MaxOfNaturals ==
    ASSUME NEW n \in Nat, NEW S, S \subseteq 0 .. n, S # {}
    PROVE  Max(S) \in S /\ \A y \in S : y <= Max(S)
<1> DEFINE T == {n - y : y \in S}
<1>1. T \subseteq Nat /\ T # {}
  <2>1. \A y \in S : n - y \in Nat
    OBVIOUS
  <2>2. QED
    BY <2>1
<1>2. Min(T) \in T /\ \A t \in T : Min(T) <= t
  BY <1>1, MinOfNaturals
<1>3. PICK x \in S : Min(T) = n - x
  BY <1>2
<1>4. ASSUME NEW y \in S PROVE x >= y
  <2>1. n - y \in T
    OBVIOUS
  <2>2. n - x <= n - y
    BY <1>2, <1>3, <2>1
  <2>3. QED
    BY <2>2
<1>5. QED
  BY <1>4 DEF Max

\* The second of a later write is not earlier.
LEMMA SecondsGrow ==
    ASSUME NEW a \in Nat, NEW b \in Nat, a <= b
    PROVE  /\ a \div LinesPerSecond \in Nat /\ b \div LinesPerSecond \in Nat
           /\ a \div LinesPerSecond <= b \div LinesPerSecond
<1> DEFINE c == LinesPerSecond
           q == a \div c
           r == b \div c
<1>1. c \in Nat \ {0}
  OBVIOUS
<1>2. q \in Int /\ q * c <= a /\ a < q * c + c
  BY <1>1, SMT
<1>3. r \in Int /\ r * c <= b /\ b < r * c + c
  BY <1>1, SMT
<1>4. q >= 0 /\ r >= 0
  BY <1>1, SMT
<1> HIDE DEF c, q, r
<1>5. CASE q <= r
  BY <1>2, <1>3, <1>4, <1>5 DEF q, r, c
<1>6. CASE q > r
  <2>1. q * c - r * c - c = (q - r - 1) * c
    BY <1>1, <1>2, <1>3, SMT
  <2>2. (q - r - 1) * c >= 0
    BY <1>1, <1>2, <1>3, <1>6, SMT
  <2>3. q * c \in Int /\ r * c \in Int
    BY <1>1, <1>2, <1>3, SMT
  <2>4. QED
    BY <1>1, <1>2, <1>3, <2>1, <2>2, <2>3
<1>7. QED
  BY <1>2, <1>3, <1>5, <1>6

\* A file's time is not before that of any of its lines.
LEMMA MtimeBounds ==
    ASSUME Types, NEW i \in Inode
    PROVE  /\ Mtime(i) \in Nat
           /\ \A n \in lines[i] : n \in Nat /\ n \div LinesPerSecond <= Mtime(i)
<1>1. lines[i] \subseteq 0 .. next - 1 /\ next \in Nat /\ next - 1 \in Nat
  BY DEF Types
<1>2. CASE lines[i] = {}
  <2>1. Mtime(i) = next \div LinesPerSecond
    BY <1>2 DEF Mtime
  <2>2. QED
    BY <1>1, <1>2, <2>1, SecondsGrow
<1>3. CASE lines[i] # {}
  <2>1. Mtime(i) = Max(lines[i]) \div LinesPerSecond
    BY <1>3 DEF Mtime
  <2>2. Max(lines[i]) \in Nat /\ \A n \in lines[i] : n \in Nat /\ n <= Max(lines[i])
    BY <1>1, <1>3, MaxOfNaturals
  <2>3. QED
    BY <2>1, <2>2, SecondsGrow
<1>4. QED
  BY <1>2, <1>3

\* The number of the last line.
LEMMA Predecessor == \A n \in Nat \ {0} : n - 1 \in Nat
OBVIOUS

\* Files do not get older: neither when a line is written nor when the clock
\* moves on.
LEMMA MtimeGrows ==
    ASSUME Types, Types', NEW i \in Inode, next <= next', lines[i] \subseteq lines'[i],
           \A n \in lines'[i] \ lines[i] : n = next
    PROVE  Mtime(i) <= Mtime(i)'
<1>a. lines[i] \subseteq 0 .. next - 1 /\ next \in Nat /\ next - 1 \in Nat
  BY DEF Types
<1>b. lines'[i] \subseteq 0 .. next' - 1
  <2>1. lines' \in [Inode -> SUBSET (0 .. next' - 1)]
    BY DEF Types
  <2>2. QED
    BY <2>1
<1>c. next' \in Nat \ {0}
  BY DEF Types
<1>1. /\ lines[i] \subseteq 0 .. next - 1 /\ next \in Nat /\ next - 1 \in Nat
      /\ lines'[i] \subseteq 0 .. next' - 1 /\ next' \in Nat /\ next' - 1 \in Nat
  <2>1. next' - 1 \in Nat
    BY <1>c, Predecessor
  <2>2. QED
    BY <1>a, <1>b, <1>c, <2>1
<1> DEFINE latest == IF lines[i] = {} THEN next ELSE Max(lines[i])
           latestp == IF lines'[i] = {} THEN next' ELSE Max(lines'[i])
<1>2. lines[i] # {} => Max(lines[i]) \in lines[i]
  BY <1>1, MaxOfNaturals
<1>3. lines'[i] # {} => Max(lines'[i]) \in lines'[i] /\ \A y \in lines'[i] : y <= Max(lines'[i])
  BY <1>1, MaxOfNaturals
<1>4. latest \in Nat /\ latestp \in Nat /\ latest <= latestp
  BY <1>1, <1>2, <1>3
<1>5. Mtime(i) = latest \div LinesPerSecond /\ Mtime(i)' = latestp \div LinesPerSecond
  BY DEF Mtime
<1> HIDE DEF latest, latestp
<1>6. QED
  BY <1>4, <1>5, SecondsGrow

\* The overtaken archives are finitely many.
LEMMA OvertakenAreFinite ==
    ASSUME Types
    PROVE  /\ IsFiniteSet(Overtaken) /\ Cardinality(Overtaken) \in Nat
           /\ \A S \in SUBSET Overtaken :
                IsFiniteSet(S) /\ Cardinality(S) \in Nat /\ Cardinality(S) <= Cardinality(Overtaken)
<1>1. Overtaken \subseteq archives
  BY DEF Overtaken
<1>2. IsFiniteSet(Overtaken)
  BY <1>1, ArchivesAreFinite, FS_Subset
<1>3. QED
  BY <1>2, FS_Subset, FS_CardinalityType

\* An archive that _tlog_remove_oldlog keeps is not older than one that it
\* removes; if the new archive is older than a line removed before, one that
\* was so too has made room for it.
LEMMA NewArchiveAge ==
    ASSUME Types, Types', Aged, ~ overlap, NEW i \in Inode, i \notin archives, NewArchive(i),
           next' = next, \A a \in archives' : lines'[a] = lines[a]
    PROVE  /\ removed' \subseteq Nat
           /\ Cardinality(Overtaken') \in Nat
           /\ Cardinality(Overtaken') <= Cardinality(Overtaken)
           /\ removed' # {} => Cardinality(archives') >= LogCount
<1> DEFINE all == archives \cup {i}
           old == all \ archives'
<1>1. /\ archives' \subseteq all /\ all \subseteq Inode
      /\ \A a \in old, k \in archives' : Mtime(a) <= Mtime(k)
      /\ removed' = removed \cup UNION {lines[a] : a \in old}
  BY DEF Types, NewArchive, kSubset
<1>2. \A a \in archives' : Mtime(a)' = Mtime(a)
  BY DEF Mtime
<1>3. \A a \in all : Mtime(a) \in Nat /\ \A n \in lines[a] : n \in Nat /\ n \div LinesPerSecond <= Mtime(a)
  BY <1>1, MtimeBounds
<1>4. removed' \subseteq Nat /\ removed \subseteq Nat
  BY <1>1, <1>3 DEF Aged
<1>5. \A n \in Nat : n \div LinesPerSecond \in Nat
  BY SecondsGrow
<1>6. \A a \in Overtaken' : /\ a \in archives'
                            /\ \E n \in removed : Mtime(a) < n \div LinesPerSecond
  <2>1. SUFFICES ASSUME NEW a \in Overtaken'
                 PROVE  a \in archives' /\ \E n \in removed : Mtime(a) < n \div LinesPerSecond
    OBVIOUS
  <2>2. PICK n \in removed' : a \in archives' /\ Mtime(a) < n \div LinesPerSecond
    BY <1>2 DEF Overtaken
  <2>3. ASSUME NEW b \in old, n \in lines[b]  PROVE FALSE
    <3>1. n \div LinesPerSecond <= Mtime(b) /\ Mtime(b) <= Mtime(a)
      BY <1>1, <1>3, <2>2, <2>3
    <3>2. Mtime(a) \in Nat /\ Mtime(b) \in Nat /\ n \div LinesPerSecond \in Nat
      BY <1>1, <1>3, <1>4, <1>5, <2>2
    <3>3. QED
      BY <2>2, <3>1, <3>2
  <2>4. QED
    BY <1>1, <2>2, <2>3
<1>7. Cardinality(all) = Cardinality(archives) + 1 /\ Cardinality(archives) \in Nat
  BY ArchivesAreFinite
<1>8. Cardinality(archives') = LogCount \/ archives' = all
  BY NewArchiveCount
<1>9. removed # {} => Cardinality(archives) >= LogCount
  BY DEF Aged
<1>10. removed' # {} => Cardinality(archives') >= LogCount
  <2>1. CASE archives' = all
    <3>1. removed' = removed
      BY <1>1, <2>1
    <3>2. QED
      BY <1>7, <1>9, <2>1, <3>1
  <2>2. QED
    BY <1>8, <2>1
<1>11. Cardinality(Overtaken') \in Nat /\ Cardinality(Overtaken') <= Cardinality(Overtaken)
  <2>1. CASE i \notin Overtaken'
    <3>1. Overtaken' \subseteq Overtaken
      BY <1>1, <1>6, <2>1 DEF Overtaken
    <3>2. QED
      BY <3>1, OvertakenAreFinite
  <2>2. CASE i \in Overtaken'
    <3>1. PICK n \in removed : Mtime(i) < n \div LinesPerSecond
      BY <1>6, <2>2
    <3>2. archives' # all
      BY <1>7, <1>8, <1>9, <3>1, NewArchiveCount
    <3>3. PICK m \in old : TRUE
      BY <1>1, <3>2
    <3>4. m \in archives /\ m \notin archives' /\ Mtime(m) <= Mtime(i)
      BY <1>1, <1>6, <2>2
    <3>5. m \in Overtaken
      <4>1. Mtime(m) \in Nat /\ Mtime(i) \in Nat /\ n \div LinesPerSecond \in Nat
        BY <1>3, <1>4, <1>5, <3>1, <3>4
      <4>2. Mtime(m) < n \div LinesPerSecond
        BY <3>1, <3>4, <4>1
      <4>3. QED
        BY <3>4, <4>2 DEF Overtaken
    <3>6. Overtaken' \subseteq (Overtaken \ {m}) \cup {i}
      BY <1>1, <1>6, <3>4 DEF Overtaken
    <3>7. /\ IsFiniteSet(Overtaken \ {m})
          /\ Cardinality(Overtaken \ {m}) = Cardinality(Overtaken) - 1
          /\ Cardinality(Overtaken \ {m}) \in Nat /\ Cardinality(Overtaken) \in Nat
      BY <3>5, OvertakenAreFinite, FS_RemoveElement, FS_CardinalityType
    <3>8. /\ IsFiniteSet((Overtaken \ {m}) \cup {i})
          /\ Cardinality((Overtaken \ {m}) \cup {i}) <= Cardinality(Overtaken)
          /\ Cardinality((Overtaken \ {m}) \cup {i}) \in Nat
      <4>1. /\ IsFiniteSet((Overtaken \ {m}) \cup {i})
            /\ Cardinality((Overtaken \ {m}) \cup {i}) =
                 IF i \in Overtaken \ {m} THEN Cardinality(Overtaken \ {m})
                 ELSE Cardinality(Overtaken \ {m}) + 1
        BY <3>7, FS_AddElement
      <4>2. QED
        BY <3>7, <4>1
    <3>9. IsFiniteSet(Overtaken') /\ Cardinality(Overtaken') <= Cardinality((Overtaken \ {m}) \cup {i})
      BY <3>6, <3>8, FS_Subset
    <3>10. QED
      BY <3>7, <3>8, <3>9, FS_CardinalityType
  <2>3. QED
    BY <2>1, <2>2
<1>12. QED
  BY <1>4, <1>10, <1>11

\* A step that makes no archive: no more of them are overtaken.
LEMMA AgedQuiet ==
    ASSUME Types, Types', Aged, ~ overlap, UNCHANGED <<archives, removed>>,
           \/ faults' = faults /\ (Leftover' => Leftover)
           \/ faults' = faults + 1,
           next <= next',
           \A i \in archives : /\ lines[i] \subseteq lines'[i]
                               /\ \A n \in lines'[i] \ lines[i] : n = next
    PROVE  Aged'
<1>1. Overtaken' \subseteq Overtaken
  <2>1. SUFFICES ASSUME NEW a \in Overtaken' PROVE a \in Overtaken
    OBVIOUS
  <2>2. PICK n \in removed : a \in archives /\ Mtime(a)' < n \div LinesPerSecond
    BY DEF Overtaken
  <2>3. a \in Inode /\ n \in Nat
    BY <2>2 DEF Types, Aged
  <2>4. Mtime(a) \in Nat /\ Mtime(a)' \in Nat /\ n \div LinesPerSecond \in Nat
    <3>1. Mtime(a) \in Nat
      BY <2>3, MtimeBounds
    <3>3. n \div LinesPerSecond \in Nat
      BY <2>3, SecondsGrow
    <3>4. Mtime(a)' \in Nat
      <4>1. lines'[a] \subseteq 0 .. next' - 1 /\ next' \in Nat /\ next' - 1 \in Nat
        <5>1. lines' \in [Inode -> SUBSET (0 .. next' - 1)]
          BY DEF Types
        <5>2. next' \in Nat \ {0}
          BY DEF Types
        <5>3. next' - 1 \in Nat
          BY <5>2, Predecessor
        <5>4. lines'[a] \subseteq 0 .. next' - 1
          BY <2>3, <5>1
        <5>5. QED
          BY <5>2, <5>3, <5>4
      <4>2. (IF lines'[a] = {} THEN next' ELSE Max(lines'[a])) \in Nat
        BY <4>1, MaxOfNaturals
      <4>3. QED
        BY <4>2, SecondsGrow DEF Mtime
    <3>5. QED
      BY <3>1, <3>3, <3>4
  <2>5. Mtime(a) <= Mtime(a)'
    BY <2>2, <2>3, MtimeGrows
  <2>6. Mtime(a) < n \div LinesPerSecond
    BY <2>2, <2>4, <2>5
  <2>7. QED
    BY <2>2, <2>6 DEF Overtaken
<1>2. /\ Cardinality(Overtaken') \in Nat /\ Cardinality(Overtaken) \in Nat
      /\ Cardinality(Overtaken') <= Cardinality(Overtaken)
  BY <1>1, OvertakenAreFinite
<1>3. /\ faults' \in Nat /\ faults \in Nat
      /\ Cardinality(Overtaken) <= faults /\ (Leftover => Cardinality(Overtaken) + 1 <= faults)
  BY DEF Types, Aged
<1>4. Cardinality(Overtaken') <= faults' /\ (Leftover' => Cardinality(Overtaken') + 1 <= faults')
  BY <1>2, <1>3
<1>5. QED
  BY <1>4 DEF Aged

\* A file that is in use keeps its lines, but for what a process writes and
\* the output of a gzip.
LEMMA ArchivesKeepLines ==
    ASSUME Types, Types', Opened, Names, Compressing, ~ overlap, Next
    PROVE  /\ next <= next'
           /\ \A i \in archives \cap archives' :
                /\ lines[i] \subseteq lines'[i]
                /\ \A n \in lines'[i] \ lines[i] : n = next
           /\ next' = next \/ archives' = archives
<1>1. archives \cap archives' \subseteq Inode /\ archives \cap archives' \subseteq Used'
  BY DEF Types, Used
<1>2. ASSUME NEW p \in Procs, Write(p)
      PROVE  /\ next <= next' /\ archives' = archives
             /\ \A i \in Inode : /\ lines[i] \subseteq lines'[i]
                                 /\ \A n \in lines'[i] \ lines[i] : n = next
  BY <1>2 DEF Types, Write, shared
<1>3. ASSUME NEW z \in Zips, GzipFinish(z)
      PROVE  /\ next <= next' /\ archives' = archives
             /\ \A i \in archives : lines'[i] = lines[i]
  <2>1. zdst[z] \notin archives
    BY <1>3 DEF GzipFinish, Opened, Names, Compressing
  <2>2. QED
    BY <1>3, <2>1 DEF Types, GzipFinish, shared
<1>4. ASSUME NEW p \in Procs,
             \/ Exit(p) \/ Crash(p) \/ BeginWrite(p) \/ WriteFail(p) \/ Rename(p) \/ Move(p)
             \/ Reap(p)
      PROVE  next' = next /\ KeepLines
  BY <1>4 DEF Exit, Crash, BeginWrite, WriteFail, Rename, Move, Reap, Reaped
<1>5. ASSUME NEW z \in Zips, GzipUnlink(z) \/ GzipFail(z)  PROVE next' = next /\ KeepLines
  BY <1>5 DEF GzipUnlink, GzipFail
<1>6. ASSUME NEW p \in Procs,
             \/ Start(p) \/ Open(p) \/ OpenFail(p) \/ TooSoon(p) \/ LockOpen(p)
             \/ LockTaken(p) \/ LockBusy(p) \/ LockOpenFail(p) \/ ArchiveGz(p)
             \/ ArchiveGzFail(p) \/ Access(p) \/ RenameFail(p) \/ Fork(p) \/ ForkFail(p)
             \/ MoveFail(p) \/ ExecFail(p) \/ ReapFail(p)
      PROVE  next' = next /\ lines' = lines
  BY <1>6 DEF Start, Open, OpenFail, TooSoon, LockOpen, LockTaken, LockBusy, LockOpenFail,
     ArchiveGz, ArchiveGzFail, Access, RenameFail, Fork, ForkFail, MoveFail, ExecFail, ReapFail,
     Reaped, Errout
<1>7. CASE next' = next /\ (KeepLines \/ lines' = lines)
  <2>1. \A i \in archives \cap archives' : lines'[i] = lines[i]
    BY <1>1, <1>7, KeptLines
  <2>2. QED
    BY <1>7, <2>1 DEF Types
<1>8. CASE \E p \in Procs : Write(p)
  BY <1>1, <1>2, <1>8
<1>9. CASE \E z \in Zips : GzipFinish(z)
  BY <1>3, <1>9
<1>10. (\E p \in Procs : Write(p)) \/ (\E z \in Zips : GzipFinish(z))
         \/ (next' = next /\ (KeepLines \/ lines' = lines))
  BY <1>4, <1>5, <1>6 DEF Next, ProcStep, ProcFail, ZipStep
<1>11. QED
  BY <1>7, <1>8, <1>9, <1>10

\* An archive that is older than a removed line has been paid for by a fault.
LEMMA AgedStep ==
    ASSUME Types, Types', Opened, Waiting, Exclusive, Names, Compressing, Aged, Next
    PROVE  Aged'
<1>1. ASSUME overlap', removed' \subseteq Nat  PROVE Aged'
  BY <1>1 DEF Aged
<1>2. removed' \subseteq Nat
  <2>1. ASSUME NEW i \in Inode, NewArchive(i)  PROVE removed' \subseteq Nat
    <3>1. /\ archives \cup {i} \subseteq Inode
          /\ removed' \subseteq removed \cup UNION {lines[a] : a \in archives \cup {i}}
      BY <2>1 DEF Types, NewArchive
    <3>2. QED
      BY <3>1, MtimeBounds DEF Aged
  <2>2. ASSUME NEW p \in Procs, Move(p)  PROVE removed' \subseteq Nat
    BY <2>1, <2>2 DEF Types, Move, File
  <2>3. ASSUME NEW p \in Procs, Reap(p)  PROVE removed' \subseteq Nat
    BY <2>1, <2>3 DEF Types, Reap, File
  <2>4. ASSUME NEW p \in Procs, ArchiveGz(p)  PROVE removed' \subseteq Nat
    BY <2>4 DEF Aged, ArchiveGz, hist
  <2>5. QED
    BY <2>2, <2>3, <2>4, ArchiveSteps DEF Aged
<1>3. CASE ~ overlap'
  <2>1. ~ overlap
    BY <1>3, OverlapStays
  <2>2. ASSUME NEW p \in Procs, ArchiveGz(p)  PROVE Aged'
    <3>1. /\ pc[p] \in InRotation /\ dir'.gz = NoFile
          /\ UNCHANGED <<lines, next, removed, faults>>
          /\ archives' = archives \cup ({dir.gz} \ {NoFile})
      BY <2>2 DEF Types, ArchiveGz, Goto, hist, InRotation
    <3>2. CASE dir.gz = NoFile
      <4>1. archives' = archives
        BY <3>1, <3>2
      <4>2. Overtaken' = Overtaken
        BY <3>1, <4>1 DEF Overtaken, Mtime
      <4>3. QED
        BY <2>1, <3>1, <4>1, <4>2 DEF Aged, Leftover
    <3>3. CASE dir.gz # NoFile
      <4>1. archives' = archives \cup {dir.gz}
        BY <3>1, <3>3
      <4>2. Cardinality(Overtaken) + 1 <= faults
        BY <2>1, <3>1, <3>3, FoundIsLeftover DEF Aged
      <4>3. Overtaken' \subseteq Overtaken \cup {dir.gz}
        BY <3>1, <4>1 DEF Overtaken, Mtime
      <4>4. /\ IsFiniteSet(Overtaken \cup {dir.gz}) /\ Cardinality(Overtaken) \in Nat
            /\ Cardinality(Overtaken \cup {dir.gz}) =
                 IF dir.gz \in Overtaken THEN Cardinality(Overtaken)
                 ELSE Cardinality(Overtaken) + 1
        BY OvertakenAreFinite, FS_AddElement
      <4>5. /\ IsFiniteSet(Overtaken')
            /\ Cardinality(Overtaken') <= Cardinality(Overtaken \cup {dir.gz})
        BY <4>3, <4>4, FS_Subset
      <4>6. Cardinality(Overtaken') <= faults'
        <5>1. Cardinality(Overtaken') \in Nat
          BY <4>5, FS_CardinalityType
        <5>2. QED
          BY <3>1, <4>2, <4>4, <4>5, <5>1 DEF Types
      <4>7. removed' # {} => Cardinality(archives') >= LogCount
        <5>1. removed # {} => Cardinality(archives) >= LogCount
          BY <2>1 DEF Aged
        <5>2. Cardinality(archives') >= Cardinality(archives)
              /\ Cardinality(archives) \in Nat /\ Cardinality(archives') \in Nat
          <6>1. /\ Cardinality(archives) \in Nat
                /\ Cardinality(archives \cup {dir.gz}) =
                     IF dir.gz \in archives THEN Cardinality(archives)
                     ELSE Cardinality(archives) + 1
            BY ArchivesAreFinite
          <6>2. QED
            BY <4>1, <6>1
        <5>3. QED
          BY <3>1, <5>1, <5>2
      <4>8. ~ Leftover'
        BY <3>1 DEF Leftover
      <4>9. QED
        BY <1>2, <4>6, <4>7, <4>8 DEF Aged
    <3>4. QED
      BY <3>2, <3>3
  <2>3. ASSUME NEW p \in Procs, Move(p)  PROVE Aged'
    <3>1. /\ dir.pending \in Inode /\ NewArchive(dir.pending) /\ dir'.gz = dir.gz
          /\ UNCHANGED <<zip_pid, faults, next>> /\ KeepLines /\ dir.pending \notin archives
      BY <2>3 DEF Types, Names, Move, File
    <3>2. \A a \in archives' : lines'[a] = lines[a]
      BY <3>1, NamedAreKept DEF Named
    <3>3. /\ Cardinality(Overtaken') \in Nat
          /\ Cardinality(Overtaken') <= Cardinality(Overtaken)
          /\ removed' # {} => Cardinality(archives') >= LogCount
      BY <2>1, <3>1, <3>2, NewArchiveAge
    <3>4. Leftover' => Leftover
      BY <3>1 DEF Leftover
    <3>5. /\ Cardinality(Overtaken) <= faults /\ (Leftover => Cardinality(Overtaken) + 1 <= faults)
          /\ faults \in Nat
      BY <2>1 DEF Aged, Types
    <3>6. Cardinality(Overtaken') <= faults /\ (Leftover' => Cardinality(Overtaken') + 1 <= faults)
      BY <3>3, <3>4, <3>5, OvertakenAreFinite
    <3>7. QED
      BY <1>2, <3>1, <3>3, <3>6 DEF Aged
  <2>4. ASSUME NEW p \in Procs, Reap(p)  PROVE Aged'
    <3>1. /\ dir.gz \in Inode /\ NewArchive(dir.gz) /\ dir'.gz = NoFile
          /\ UNCHANGED <<faults, next>> /\ KeepLines /\ dir.gz \notin archives
      BY <2>4 DEF Types, Names, Reap, Reaped, File
    <3>2. \A a \in archives' : lines'[a] = lines[a]
      BY <3>1, NamedAreKept DEF Named
    <3>3. /\ Cardinality(Overtaken') \in Nat
          /\ Cardinality(Overtaken') <= Cardinality(Overtaken)
          /\ removed' # {} => Cardinality(archives') >= LogCount
      BY <2>1, <3>1, <3>2, NewArchiveAge
    <3>4. ~ Leftover'
      BY <3>1 DEF Leftover
    <3>5. Cardinality(Overtaken) <= faults /\ faults \in Nat
      BY <2>1 DEF Aged, Types
    <3>6. Cardinality(Overtaken') <= faults
      BY <3>3, <3>5, OvertakenAreFinite
    <3>7. QED
      BY <1>2, <3>1, <3>3, <3>4, <3>6 DEF Aged
  <2>5. CASE /\ UNCHANGED <<archives, removed>>
             /\ \/ faults' = faults /\ (Leftover' => Leftover)
                \/ faults' = faults + 1
    <3>1. /\ next <= next'
          /\ \A i \in archives : /\ lines[i] \subseteq lines'[i]
                                 /\ \A n \in lines'[i] \ lines[i] : n = next
      BY <2>1, <2>5, ArchivesKeepLines
    <3>2. QED
      BY <2>1, <2>5, <3>1, AgedQuiet
  <2>6. QED
    BY <2>2, <2>3, <2>4, <2>5, ArchiveSteps
<1>4. QED
  BY <1>1, <1>2, <1>3

----------------------------------------------------------------------------
(* The theorems                                                             *)

\* The invariant holds before the first line is written.
LEMMA InitIInv == Init => IInv
<1> SUFFICES ASSUME Init PROVE IInv
  OBVIOUS
<1>1. 1 \in Inode /\ NoFile \notin Inode /\ next = 1
  BY DEF Inode, NoFile, Init
<1>2. Types
  <2>1. lines \in [Inode -> SUBSET (0 .. next - 1)]
    <3>1. 0 .. next - 1 = {0}
      BY <1>1
    <3>2. QED
      BY <3>1 DEF Init
  <2>2. archives \subseteq Inode /\ dir \in [{"log", "pending", "gz"} -> File]
    BY <1>1 DEF Init, File
  <2>3. QED
    BY <1>1, <2>1, <2>2 DEF Types, Init, File
<1>3. Opened /\ Waiting /\ LockSpansRotation
  BY DEF Opened, Waiting, LockSpansRotation, Init, InRotation
<1>4. Exclusive
  BY DEF Exclusive, Rotating, Init, InRotation
<1>5. dir.log = NoFile /\ dir.pending = NoFile /\ dir.gz = NoFile
  BY DEF Init
<1>6. ~ Leftover /\ removed = {} /\ faults = 0 /\ archives = {1}
  BY <1>5 DEF Leftover, Init
<1>7. Cardinality(archives) = 1
  <2>1. IsFiniteSet({}) /\ Cardinality({}) = 0
    BY FS_EmptySet
  <2>2. Cardinality({} \cup {1}) = 1
    BY <2>1, FS_AddElement
  <2>3. archives = {} \cup {1}
    BY <1>6
  <2>4. QED
    BY <2>2, <2>3
<1>8. Overtaken = {} /\ Cardinality(Overtaken) = 0
  BY <1>6, FS_EmptySet DEF Overtaken
<1>9. Bounded /\ Aged
  BY <1>6, <1>7, <1>8 DEF Bounded, Aged
<1>10. Names /\ Descriptors
  BY <1>5 DEF Names, Descriptors, Init, InRotation
<1>11. Outputs
  BY <1>5 DEF Outputs, Init
<1>12. Fresh
  BY <1>6 DEF Fresh, Used, Init
<1>13. Compressing
  BY <1>5 DEF Compressing, Init
<1>14. LinesKept
  BY <1>1 DEF LinesKept
<1>15. QED
  BY <1>2, <1>3, <1>4, <1>9, <1>10, <1>11, <1>12, <1>13, <1>14 DEF IInv, Files

\* Every step preserves it.
LEMMA NextIInv == IInv /\ [Next]_vars => IInv'
<1> SUFFICES ASSUME IInv, [Next]_vars PROVE IInv'
  OBVIOUS
<1>1. CASE Next
  <2>1. /\ Types /\ Opened /\ Waiting /\ LockSpansRotation /\ Exclusive /\ Bounded /\ Aged
        /\ Names /\ Descriptors /\ Outputs /\ Fresh /\ Compressing /\ LinesKept
    BY DEF IInv, Files
  <2>2. Types' /\ Opened'
    BY <1>1, <2>1, TypesStep, OpenedStep
  <2>3. Waiting' /\ LockSpansRotation' /\ Exclusive'
    BY <1>1, <2>1, LockStep, ExclusiveStep
  <2>4. Names' /\ Descriptors' /\ Outputs' /\ Fresh'
    BY <1>1, <2>1, NamesStep, DescriptorsStep, OutputsStep, FreshStep
  <2>5. Bounded' /\ Aged'
    BY <1>1, <2>1, <2>2, BoundedStep, AgedStep
  <2>6. Compressing' /\ LinesKept'
    BY <1>1, <2>1, <2>2, CompressingStep, LinesKeptStep
  <2>7. QED
    BY <2>2, <2>3, <2>4, <2>5, <2>6 DEF IInv, Files
<1>2. CASE UNCHANGED vars
  <2>1. UNCHANGED <<dir, archives, lines, pc, fd, zip_pid, multi_log, fd_lock, zst, zsrc, zdst,
                    next, removed, late, overlap, faults>>
    BY <1>2 DEF vars, shared, local, lock, zips, hist
  <2>2. Types' /\ Opened' /\ Waiting' /\ LockSpansRotation' /\ Exclusive'
    BY <2>1 DEF IInv, Types, Opened, Waiting, LockSpansRotation, Exclusive, Rotating
  <2>3. Overtaken' = Overtaken /\ Leftover' = Leftover
    BY <2>1 DEF Overtaken, Mtime, Leftover
  <2>4. Bounded' /\ Aged'
    BY <2>1, <2>3 DEF IInv, Bounded, Aged
  <2>5. Files'
    BY <2>1 DEF IInv, Files, Names, Descriptors, Outputs, Fresh, Used
  <2>6. Compressing' /\ LinesKept'
    BY <2>1 DEF IInv, Compressing, LinesKept, OnDisk
  <2>7. QED
    BY <2>2, <2>4, <2>5, <2>6 DEF IInv
<1>3. QED
  BY <1>1, <1>2

\* The invariant holds in every reachable state.
THEOREM Invariance == Spec => []IInv
BY InitIInv, NextIInv, PTL DEF Spec

\* A line that was written is on disk until _tlog_remove_oldlog removes it,
\* wherever a process or its gzip dies, for any number of processes.
THEOREM NoLineLost == Spec => []LinesKept
<1>1. IInv => LinesKept
  BY DEF IInv
<1>2. QED
  BY <1>1, Invariance, PTL

\* There are at most LogCount archives and one for every fault.
THEOREM ArchivesAreBounded == Spec => []ArchiveBound
<1>1. IInv => ArchiveBound
  BY DEF IInv, Bounded, ArchiveBound
<1>2. QED
  BY <1>1, Invariance, PTL

\* _tlog_remove_oldlog removes the oldest first: no more archives than there
\* were faults are older than a line that was removed.
THEOREM OldestGoFirst == Spec => []OldestFirst
<1>1. IInv => OldestFirst
  BY DEF IInv, Aged, OldestFirst
<1>2. QED
  BY <1>1, Invariance, PTL

\* In multi mode the lock is held exactly as long as the rotation lasts.
THEOREM LockIsHeld == Spec => []LockSpansRotation
<1>1. IInv => LockSpansRotation
  BY DEF IInv
<1>2. QED
  BY <1>1, Invariance, PTL
=============================================================================
