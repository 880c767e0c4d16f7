----------------------------- MODULE TlogRotate -----------------------------
(***************************************************************************)
(* The files of the log (tlog.c): _tlog_write_ext appends to the log file  *)
(* and, once that is too large, moves it to `pending', has a gzip process  *)
(* compress it to `pending.gz', reaps gzip, moves the result to an archive *)
(* and removes the oldest archives.  Several copytools may share the log,  *)
(* each with a log thread of its own; any of them may be killed and        *)
(* started again while its gzip goes on.                                   *)
(*                                                                         *)
(* A file is an inode with a set of lines, so that a descriptor keeps its  *)
(* file when the file is renamed or unlinked.  Lines are numbered as they  *)
(* are written and of size 1.  A system call on the shared directory is a  *)
(* step of its own, except that picking a free archive name, renaming to   *)
(* it and removing old archives are one.                                   *)
(***************************************************************************)
EXTENDS Integers, FiniteSets, FiniteSetsExt

CONSTANTS Procs,          \* the copytools
          LogSize,        \* log->logsize, in lines
          LogCount,       \* log->logcount
          LinesPerSecond, \* mtime is kept in seconds
          Writes,         \* bound: how often each process writes
          MaxFaults,      \* bound: crashes and failed renames
          MaxZips,        \* bound: gzip processes at a time
          MaxFiles        \* bound: files at a time

ASSUME SizeAssumption == LogSize \in Nat /\ LogCount \in Nat \ {0}
ASSUME BoundAssumption == /\ Writes \in [Procs -> Nat] /\ MaxFaults \in Nat
                          /\ MaxFiles \in Nat \ {0} /\ MaxZips \in Nat
                          /\ LinesPerSecond \in Nat \ {0}

VARIABLES gzip_cmd,    \* gzip was found (tlog.gzip_cmd)
          dir,         \* the names log, pending and gz
          archives,    \* the files under an archive name
          lines,       \* what each file holds
          lockfile,    \* the file named <log>.lock
          pc, fd, filesize, zip_pid, multi_log, nocompress, last_try,
          lockfd,      \* the lock file a process has open
          fd_lock,     \* it holds the lock on it
          zst, zsrc, zdst,   \* the gzip processes and their files
          left,        \* the writes that are left to each process
          next,        \* the number of the next line
          removed,     \* history: lines in archives that were removed
          late,        \* history: lines written to a file no longer the log
          overlap,     \* history: two rotations have run at a time
          faults

shared == <<gzip_cmd, dir, archives, lockfile>>
local == <<filesize, multi_log, nocompress, last_try>>
lock == <<lockfd, fd_lock>>
zips == <<zst, zsrc, zdst>>
hist == <<left, removed, late, overlap, faults>>
vars == <<shared, lines, pc, fd, local, lock, zip_pid, zips, next, hist>>

NoFile == 0
NoZip == 0
Zips == 1 .. MaxZips
Inode == 1 .. MaxFiles
LockInode == 1 .. Cardinality(Procs) + 1
MaxLines == SumFunction(Writes)
Line == 0 .. MaxLines
InRotation == {"gz", "access", "rename", "fork", "move"}

TypeOK ==
    /\ gzip_cmd \in BOOLEAN
    /\ dir \in [{"log", "pending", "gz"} -> Inode \cup {NoFile}]
    /\ archives \subseteq Inode
    /\ lines \in [Inode -> SUBSET Line]
    /\ lockfile \in LockInode \cup {NoFile}
    /\ pc \in [Procs -> {"off", "idle", "lockopen", "lock", "open", "write"}
                            \cup InRotation]
    /\ fd \in [Procs -> Inode \cup {NoFile}]
    /\ filesize \in [Procs -> Nat]
    /\ zip_pid \in [Procs -> Zips \cup {NoZip}]
    /\ multi_log \in [Procs -> BOOLEAN] /\ nocompress \in [Procs -> BOOLEAN]
    /\ last_try \in [Procs -> BOOLEAN] /\ fd_lock \in [Procs -> BOOLEAN]
    /\ lockfd \in [Procs -> LockInode \cup {NoFile}]
    /\ zst \in [Zips -> {"free", "run", "unlink", "ended"}]
    /\ zsrc \in [Zips -> Inode \cup {NoFile}]
    /\ zdst \in [Zips -> Inode \cup {NoFile}]
    /\ left \in [Procs -> Nat] /\ next \in 1 .. MaxLines + 1
    /\ removed \subseteq Line /\ late \subseteq Line
    /\ overlap \in BOOLEAN /\ faults \in 0 .. MaxFaults

Init ==
    /\ gzip_cmd \in BOOLEAN
    /\ dir = [n \in {"log", "pending", "gz"} |-> NoFile]
    /\ archives = {1}     \* of an earlier session, with line 0
    /\ lines = [i \in Inode |-> IF i = 1 THEN {0} ELSE {}]
    /\ lockfile = NoFile
    /\ pc = [p \in Procs |-> "idle"] /\ fd = [p \in Procs |-> NoFile]
    /\ filesize = [p \in Procs |-> 0]
    /\ zip_pid = [p \in Procs |-> NoZip]
    /\ multi_log = [p \in Procs |-> FALSE]
    /\ nocompress = [p \in Procs |-> ~ gzip_cmd]
    /\ last_try = [p \in Procs |-> FALSE]
    /\ lockfd = [p \in Procs |-> NoFile]
    /\ fd_lock = [p \in Procs |-> FALSE]
    /\ zst = [z \in Zips |-> "free"]
    /\ zsrc = [z \in Zips |-> NoFile] /\ zdst = [z \in Zips |-> NoFile]
    /\ left = Writes /\ next = 1 /\ faults = 0
    /\ removed = {} /\ late = {} /\ overlap = FALSE

----------------------------------------------------------------------------
(* The file system                                                          *)

\* The files that have a name or are open; the others are gone.
Used == {dir.log, dir.pending, dir.gz} \cup archives
            \cup {fd[p] : p \in Procs}
            \cup {zsrc[z] : z \in Zips} \cup {zdst[z] : z \in Zips}

KeepLines == lines' = [i \in Inode |-> IF i \in Used' THEN lines[i] ELSE {}]

FreeInodes == Inode \ Used
NewInode == Min(FreeInodes)

\* lseek(fd, 0, SEEK_END)
FileSize(i) == IF i = NoFile THEN -1 ELSE Cardinality(lines[i])

\* The second of the last write; gzip keeps that of its input, and a file it
\* has not finished was written just now.
Mtime(i) == (IF lines[i] = {} THEN next ELSE Max(lines[i])) \div LinesPerSecond

Goto(p, from, to) == pc[p] = from /\ pc' = [pc EXCEPT ![p] = to]
Fault == faults < MaxFaults /\ faults' = faults + 1

----------------------------------------------------------------------------
(* tlog_init, tlog_exit and death                                           *)

\* tlog_open as main calls it, without TLOG_MULTI_WRITE, with gzip installed.
Start(p) ==
    /\ Goto(p, "off", "idle")
    /\ UNCHANGED <<shared, lines, fd, local, lock, zip_pid, zips, next, hist>>

\* What a process leaves behind: nothing of its own.
Forget(p) ==
    /\ pc' = [pc EXCEPT ![p] = "off"]
    /\ fd' = [fd EXCEPT ![p] = NoFile]
    /\ filesize' = [filesize EXCEPT ![p] = 0]
    /\ multi_log' = [multi_log EXCEPT ![p] = FALSE]
    /\ nocompress' = [nocompress EXCEPT ![p] = ~ gzip_cmd]
    /\ last_try' = [last_try EXCEPT ![p] = FALSE]
    /\ lockfd' = [lockfd EXCEPT ![p] = NoFile]
    /\ fd_lock' = [fd_lock EXCEPT ![p] = FALSE]
    /\ zip_pid' = [zip_pid EXCEPT ![p] = NoZip]

\* tlog_exit: _tlog_close has waited for gzip and reaped it (Reap).
Exit(p) ==
    /\ pc[p] = "idle" /\ zip_pid[p] = NoZip /\ left[p] = 0
    /\ Forget(p)
    /\ UNCHANGED <<shared, zips, next, hist>>
    /\ KeepLines

\* The process ends without tlog_exit (the signal handler's exit(0), kill).
\* Its lock is gone, its lock file and its gzip are not.
Crash(p) ==
    /\ pc[p] # "off"
    /\ Fault
    /\ Forget(p)
    /\ zst' = [z \in Zips |-> IF z = zip_pid[p] /\ zst[z] = "ended"
                              THEN "free" ELSE zst[z]]
    /\ UNCHANGED <<shared, zsrc, zdst, next, left, removed, late, overlap>>
    /\ KeepLines

----------------------------------------------------------------------------
(* _tlog_write_ext                                                          *)

FirstStep(p) == IF nocompress[p] THEN "access" ELSE "gz"

\* Another rotation, or the gzip of one, is under way.
OtherRotation(p) ==
    \/ \E q \in Procs \ {p} : pc[q] \in InRotation \/ zip_pid[q] # NoZip
    \/ \E z \in Zips : zst[z] # "free" /\ zip_pid[p] # z

\* A batch of lines is to be written: is the file too large?  A process that
\* finds lines of another in its file turns to multi mode.  Without that mode
\* _tlog_log_lock does nothing.
BeginWrite(p) ==
    LET size == IF multi_log[p] /\ fd[p] # NoFile THEN FileSize(fd[p])
                ELSE filesize[p]
        rotate == size > LogSize /\ zip_pid[p] = NoZip
        multi == multi_log[p] \/ (rotate /\ size < FileSize(fd[p]))
    IN /\ left[p] > 0
       /\ left' = [left EXCEPT ![p] = @ - 1]
       /\ Goto(p, "idle", IF rotate THEN IF multi THEN "lockopen"
                                         ELSE FirstStep(p)
                          ELSE IF fd[p] = NoFile THEN "open" ELSE "write")
       /\ multi_log' = [multi_log EXCEPT ![p] = multi]
       /\ fd' = [fd EXCEPT ![p] = IF rotate THEN NoFile ELSE @]
       /\ filesize' = [filesize EXCEPT ![p] = IF rotate THEN 0 ELSE size]
       /\ overlap' = (overlap \/ (rotate /\ ~ multi /\ OtherRotation(p)))
       /\ UNCHANGED <<shared, nocompress, last_try, lock, zip_pid, zips, next,
                      removed, late, faults>>
       /\ KeepLines

\* open(O_APPEND | O_CREAT)
Open(p) ==
    /\ Goto(p, "open", "write")
    /\ dir.log # NoFile \/ FreeInodes # {}
    /\ LET i == IF dir.log = NoFile THEN NewInode ELSE dir.log
       IN /\ dir' = [dir EXCEPT !.log = i]
          /\ fd' = [fd EXCEPT ![p] = i]
          /\ filesize' = [filesize EXCEPT ![p] = Cardinality(lines[i])]
    /\ last_try' = [last_try EXCEPT ![p] = FALSE]
    /\ UNCHANGED <<gzip_cmd, archives, lockfile, lines, multi_log, nocompress,
                   lock, zip_pid, zips, next, hist>>

\* The file or its directory cannot be made: the lines are dropped.
OpenFail(p) ==
    /\ Goto(p, "open", "idle")
    /\ Fault
    /\ last_try' = [last_try EXCEPT ![p] = TRUE]
    /\ filesize' = [filesize EXCEPT ![p] = 0]
    /\ UNCHANGED <<shared, lines, fd, multi_log, nocompress, lock, zip_pid,
                   zips, next, left, removed, late, overlap>>

\* One attempt a second: these lines are dropped as well.
TooSoon(p) ==
    /\ Goto(p, "open", "idle")
    /\ last_try[p]
    /\ UNCHANGED <<shared, lines, fd, local, lock, zip_pid, zips, next, hist>>

Write(p) ==
    /\ Goto(p, "write", "idle")
    /\ lines' = [lines EXCEPT ![fd[p]] = @ \cup {next}]
    /\ next' = next + 1
    /\ late' = IF fd[p] = dir.log THEN late ELSE late \cup {next}
    /\ filesize' = [filesize EXCEPT ![p] = @ + 1]
    /\ UNCHANGED <<shared, fd, multi_log, nocompress, last_try, lock, zip_pid,
                   zips, left, removed, overlap, faults>>

\* write fails; the descriptor is closed when there is no space.
WriteFail(p) ==
    /\ Goto(p, "write", "idle")
    /\ Fault
    /\ \E i \in {fd[p], NoFile} : fd' = [fd EXCEPT ![p] = i]
    /\ UNCHANGED <<shared, local, lock, zip_pid, zips, next, left, removed,
                   late, overlap>>
    /\ KeepLines

----------------------------------------------------------------------------
(* _tlog_archive_log                                                        *)

LockOpen(p) ==
    /\ Goto(p, "lockopen", "lock")
    /\ lockfile' = IF lockfile # NoFile THEN lockfile
                   ELSE Min(LockInode \ {lockfd[q] : q \in Procs})
    /\ lockfd' = [lockfd EXCEPT ![p] = lockfile']
    /\ UNCHANGED <<gzip_cmd, dir, archives, lines, fd, local, fd_lock, zip_pid,
                   zips, next, hist>>

LockHeld(p) ==
    \E q \in Procs \ {p} : fd_lock[q] /\ lockfd[q] = lockfd[p]

\* lockf(fd, F_TLOCK, 0)
LockTaken(p) ==
    /\ ~ LockHeld(p)
    /\ Goto(p, "lock", FirstStep(p))
    /\ fd_lock' = [fd_lock EXCEPT ![p] = TRUE]
    /\ overlap' = (overlap \/ OtherRotation(p))
    /\ UNCHANGED <<shared, lines, fd, local, lockfd, zip_pid, zips, next, left,
                   removed, late, faults>>

LockBusy(p) ==
    /\ LockHeld(p)
    /\ Goto(p, "lock", "open")
    /\ lockfd' = [lockfd EXCEPT ![p] = NoFile]
    /\ UNCHANGED <<shared, lines, fd, local, fd_lock, zip_pid, zips, next,
                   hist>>

\* The lock file cannot be made: no rotation now.
LockOpenFail(p) ==
    /\ Goto(p, "lockopen", "open")
    /\ Fault
    /\ UNCHANGED <<shared, lines, fd, local, lock, zip_pid, zips, next, left,
                   removed, late, overlap>>

\* _tlog_log_unlock: the lock file is unlinked, then closed.
Unlock(p) ==
    /\ lockfile' = IF fd_lock[p] THEN NoFile ELSE lockfile
    /\ lockfd' = [lockfd EXCEPT ![p] = NoFile]
    /\ fd_lock' = [fd_lock EXCEPT ![p] = FALSE]

\* errout: the rotation is given up; the write goes on.
Errout(p, from) ==
    /\ Goto(p, from, "open")
    /\ Unlock(p)
    /\ UNCHANGED <<lines, fd, filesize, multi_log, last_try, zip_pid, zips,
                   next, left, removed, late, overlap>>

\* pending.gz is left from an earlier rotation: it becomes an archive.
ArchiveGz(p) ==
    /\ Goto(p, "gz", "access")
    /\ archives' = archives \cup ({dir.gz} \ {NoFile})
    /\ dir' = [dir EXCEPT !.gz = NoFile]
    /\ UNCHANGED <<gzip_cmd, lockfile, lines, fd, local, lock, zip_pid, zips,
                   next, hist>>

ArchiveGzFail(p) ==
    /\ dir.gz # NoFile
    /\ Errout(p, "gz")
    /\ UNCHANGED <<gzip_cmd, dir, archives, nocompress, faults>>

FreeZips == {z \in Zips : zst[z] = "free"}
NewZip == Min(FreeZips)

AfterRename(p) == IF nocompress[p] THEN "move" ELSE "fork"

\* Mutant: a pending file that is still there is not noticed.
AccessBlind(p) ==
    /\ Goto(p, "access", "rename")
    /\ UNCHANGED <<shared, lines, fd, local, lock, zip_pid, zips, next, hist>>

\* access(pending_file): one that is left from before goes first.
Access(p) ==
    /\ Goto(p, "access",
            IF dir.pending = NoFile THEN "rename" ELSE AfterRename(p))
    /\ UNCHANGED <<shared, lines, fd, local, lock, zip_pid, zips, next, hist>>

\* rename(log_file, pending_file), whatever `pending' is by now.
Rename(p) ==
    /\ dir.log # NoFile
    /\ Goto(p, "rename", AfterRename(p))
    /\ dir' = [dir EXCEPT !.log = NoFile, !.pending = dir.log]
    /\ UNCHANGED <<gzip_cmd, archives, lockfile, fd, local, lock, zip_pid,
                   zips, next, hist>>
    /\ KeepLines

RenameFail(p) ==
    /\ Errout(p, "rename")
    /\ dir.log # NoFile => Fault
    /\ dir.log = NoFile => UNCHANGED faults
    /\ UNCHANGED <<gzip_cmd, dir, archives, nocompress>>

\* vfork and gzip's start: it refuses to overwrite pending.gz and fails
\* without an input.
Fork(p) ==
    /\ Goto(p, "fork", "open")
    /\ FreeZips # {} /\ FreeInodes # {}
    /\ zip_pid' = [zip_pid EXCEPT ![p] = NewZip]
    /\ IF dir.pending # NoFile /\ dir.gz = NoFile
       THEN /\ zst' = [zst EXCEPT ![NewZip] = "run"]
            /\ zsrc' = [zsrc EXCEPT ![NewZip] = dir.pending]
            /\ zdst' = [zdst EXCEPT ![NewZip] = NewInode]
            /\ dir' = [dir EXCEPT !.gz = NewInode]
       ELSE /\ zst' = [zst EXCEPT ![NewZip] = "ended"]
            /\ UNCHANGED <<zsrc, zdst, dir>>
    /\ UNCHANGED <<gzip_cmd, archives, lockfile, lines, fd, local, lock, next,
                   hist>>

\* execl fails: the child sets nocompress in its parent's memory and exits.
ExecFail(p) ==
    /\ Goto(p, "fork", "open")
    /\ FreeZips # {}
    /\ Fault
    /\ zip_pid' = [zip_pid EXCEPT ![p] = NewZip]
    /\ zst' = [zst EXCEPT ![NewZip] = "ended"]
    /\ nocompress' = [nocompress EXCEPT ![p] = TRUE]
    /\ UNCHANGED <<shared, lines, fd, filesize, multi_log, last_try, lock,
                   zsrc, zdst, next, left, removed, late, overlap>>

\* vfork fails, for good when it is not permitted.
ForkFail(p) ==
    /\ Errout(p, "fork")
    /\ Fault
    /\ \E never \in BOOLEAN : nocompress' = [nocompress EXCEPT ![p] = never]
    /\ UNCHANGED <<gzip_cmd, dir, archives>>

\* Mutant: the newest archives go.
NewArchiveKeepOld(i) ==
    LET all == archives \cup {i}
    IN \E kept \in kSubset(Min({LogCount, Cardinality(all)}), all) :
          /\ \A a \in all \ kept, k \in kept : Mtime(a) >= Mtime(k)
          /\ archives' = kept
          /\ removed' = removed \cup UNION {lines[a] : a \in all \ kept}

\* Mutant: one archive too many stays.
NewArchiveOneMore(i) ==
    LET all == archives \cup {i}
    IN \E kept \in kSubset(Min({LogCount + 1, Cardinality(all)}), all) :
          /\ \A a \in all \ kept, k \in kept : Mtime(a) <= Mtime(k)
          /\ archives' = kept
          /\ removed' = removed \cup UNION {lines[a] : a \in all \ kept}

\* _tlog_rename_logfile to a free archive name, then _tlog_remove_oldlog: the
\* oldest by mtime, of equal ones any, until LogCount are left.
NewArchive(i) ==
    LET all == archives \cup {i}
    IN \E kept \in kSubset(Min({LogCount, Cardinality(all)}), all) :
          /\ \A a \in all \ kept, k \in kept : Mtime(a) <= Mtime(k)
          /\ archives' = kept
          /\ removed' = removed \cup UNION {lines[a] : a \in all \ kept}

\* _tlog_archive_log_nocompress: `pending' is archived as it is.
Move(p) ==
    /\ dir.pending # NoFile
    /\ Goto(p, "move", "open")
    /\ NewArchive(dir.pending)
    /\ dir' = [dir EXCEPT !.pending = NoFile]
    /\ Unlock(p)
    /\ UNCHANGED <<gzip_cmd, fd, local, zip_pid, zips, next, left, late,
                   overlap, faults>>
    /\ KeepLines

MoveFail(p) ==
    /\ Errout(p, "move")
    /\ dir.pending # NoFile => Fault
    /\ dir.pending = NoFile => UNCHANGED faults
    /\ UNCHANGED <<gzip_cmd, dir, archives, nocompress>>

----------------------------------------------------------------------------
(* gzip, and _tlog_wait_pid                                                 *)

IsChild(z) == \E p \in Procs : zip_pid[p] = z

\* A child stays a zombie until it is reaped.
ZipEnds(z) ==
    /\ zst' = [zst EXCEPT ![z] = IF IsChild(z) THEN "ended" ELSE "free"]
    /\ zsrc' = [zsrc EXCEPT ![z] = NoFile]
    /\ zdst' = [zdst EXCEPT ![z] = NoFile]

\* The output is complete; the input is still there.
GzipFinish(z) ==
    /\ zst[z] = "run"
    /\ zst' = [zst EXCEPT ![z] = "unlink"]
    /\ lines' = [lines EXCEPT ![zdst[z]] = lines[zsrc[z]]]
    /\ UNCHANGED <<shared, pc, fd, local, lock, zip_pid, zsrc, zdst, next,
                   hist>>

\* The input is unlinked by its name.
GzipUnlink(z) ==
    /\ zst[z] = "unlink"
    /\ dir' = [dir EXCEPT !.pending = NoFile]
    /\ ZipEnds(z)
    /\ UNCHANGED <<gzip_cmd, archives, lockfile, pc, fd, local, lock, zip_pid,
                   next, hist>>
    /\ KeepLines

\* gzip fails and removes its output, or is killed and does not.
GzipFail(z) ==
    /\ zst[z] = "run"
    /\ Fault
    /\ \E i \in {NoFile, dir.gz} : dir' = [dir EXCEPT !.gz = i]
    /\ ZipEnds(z)
    /\ UNCHANGED <<gzip_cmd, archives, lockfile, pc, fd, local, lock, zip_pid,
                   next, left, removed, late, overlap>>
    /\ KeepLines

\* waitpid has returned the child.
Reaped(p) ==
    /\ pc[p] = "idle"
    /\ zip_pid[p] # NoZip /\ zst[zip_pid[p]] = "ended"
    /\ zip_pid' = [zip_pid EXCEPT ![p] = NoZip]
    /\ zst' = [zst EXCEPT ![zip_pid[p]] = "free"]
    /\ UNCHANGED <<pc, fd, local, zsrc, zdst, next, left, late, overlap>>

\* Mutant: gzip is reaped only when there is something to write.
ReapBusy(p) ==
    /\ Reaped(p)
    /\ dir.gz # NoFile
    /\ left[p] > 0
    /\ NewArchive(dir.gz)
    /\ dir' = [dir EXCEPT !.gz = NoFile]
    /\ Unlock(p)
    /\ UNCHANGED <<gzip_cmd, faults>>
    /\ KeepLines

\* gzip's output becomes an archive.
Reap(p) ==
    /\ Reaped(p)
    /\ dir.gz # NoFile
    /\ NewArchive(dir.gz)
    /\ dir' = [dir EXCEPT !.gz = NoFile]
    /\ Unlock(p)
    /\ UNCHANGED <<gzip_cmd, faults>>
    /\ KeepLines

\* Mutant: the lock is kept when there is nothing to archive.
ReapFailLocked(p) ==
    /\ Reaped(p)
    /\ dir.gz = NoFile
    /\ UNCHANGED <<gzip_cmd, dir, archives, lines, removed, lockfile, lock,
                   faults>>

\* There is no output, or it cannot be renamed: it stays for the next time.
ReapFail(p) ==
    /\ Reaped(p)
    /\ dir.gz # NoFile => Fault
    /\ dir.gz = NoFile => UNCHANGED faults
    /\ Unlock(p)
    /\ UNCHANGED <<gzip_cmd, dir, archives, lines, removed>>

ProcStep(p) ==
    \/ Open(p) \/ Write(p) \/ LockOpen(p) \/ LockTaken(p)
    \/ LockBusy(p) \/ ArchiveGz(p) \/ Access(p) \/ Rename(p) \/ RenameFail(p)
    \/ Fork(p) \/ Move(p) \/ MoveFail(p) \/ Reap(p) \/ ReapFail(p)
ProcFail(p) ==
    \/ OpenFail(p) \/ TooSoon(p) \/ WriteFail(p) \/ LockOpenFail(p)
    \/ ArchiveGzFail(p) \/ ExecFail(p) \/ ForkFail(p)
ZipStep(z) == GzipFinish(z) \/ GzipUnlink(z)

Next ==
    \/ \E p \in Procs : \/ Start(p) \/ Exit(p) \/ Crash(p) \/ BeginWrite(p)
                        \/ ProcStep(p) \/ ProcFail(p)
    \/ \E z \in Zips : ZipStep(z) \/ GzipFail(z)

Spec == Init /\ [][Next]_vars

\* The log thread looks for its gzip at least every two seconds
\* (_tlog_wait_log_locked), and gzip ends.
FairSpec == /\ Spec
            /\ \A p \in Procs : WF_vars(ProcStep(p))
            /\ \A z \in Zips : WF_vars(ZipStep(z))

----------------------------------------------------------------------------
(* Properties                                                               *)

OnDisk == UNION {lines[i] : i \in ({dir.log, dir.pending, dir.gz} \ {NoFile})
                                    \cup archives}

\* A line that was written to the log is in the log, in a rotated file or in
\* an archive until _tlog_remove_oldlog removes it, whenever a process or its
\* gzip dies, as long as rotations do not overlap and the line was not
\* written to a file that another process had already rotated.
LinesKept == ~ overlap => 1 .. next - 1 \subseteq OnDisk \cup removed \cup late

\* There are never more than logcount archives, but for one for every fault
\* that kept _tlog_remove_oldlog from being called (a pending.gz that is
\* found at the next rotation), as long as rotations do not overlap.
ArchiveBound == ~ overlap => Cardinality(archives) <= LogCount + faults

\* The archives that are older than a line that has been removed.
Overtaken ==
    {a \in archives : \E n \in removed : Mtime(a) < n \div LinesPerSecond}

\* _tlog_remove_oldlog removes the oldest first (_tlog_get_oldest_callback):
\* no archive is older, in seconds, than a line that was removed, but for one
\* for every fault that left a pending.gz behind (which becomes an archive at
\* the next rotation that compresses, when newer ones may be gone), as long
\* as rotations do not overlap.
OldestFirst == ~ overlap => Cardinality(Overtaken) <= faults

\* In multi mode the lock is held exactly as long as a rotation lasts, until
\* its gzip is reaped: no way out of it keeps the lock (which would end all
\* rotation), and none gives it up while `pending' is still needed.
LockSpansRotation ==
    \A p \in Procs :
        fd_lock[p] <=> /\ multi_log[p]
                       /\ pc[p] \in InRotation \/ zip_pid[p] # NoZip

\* A gzip that was started is reaped and its output archived, even if no
\* further line is logged (the timed wait of _tlog_wait_log_locked).
GzipReaped == \A p \in Procs : zip_pid[p] # NoZip ~> zip_pid[p] = NoZip
=============================================================================
