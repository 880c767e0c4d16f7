------------------------------- MODULE HsmItem ------------------------------
(***************************************************************************)
(* One item of an action list on its worker thread: ct_process_item,       *)
(* ct_archive, ct_restore and ct_action_done with the retry loops around   *)
(* the calls to the coordinator (ct_common.c, lhsmtool_s3.c).  The copies  *)
(* themselves are SmallPut, MultipartUpload and Restore; here they succeed *)
(* or fail.  The coordinator and liblustreapi are external: every call     *)
(* succeeds, fails, or fails with a time-out.                              *)
(***************************************************************************)
EXTENDS Integers

CONSTANTS MaxRetry,      \* max_retry of the retry loops
          DryRun,        \* the values of o_dry_run to consider
          Verbose        \* the values of o_verbose >= LLAPI_MSG_INFO

ASSUME MaxRetryAssumption == MaxRetry \in Nat
ASSUME OptionsAssumption ==
    DryRun \subseteq BOOLEAN /\ Verbose \subseteq BOOLEAN

VARIABLES
    ipc,         \* the place in ct_process_item and what it calls
    action,      \* hai_action: "archive", "restore", "other"
    o_dry_run, o_verbose,
    path,        \* file_path: "unset" (never written), "inside" the prefix or "outside"
    hcp,         \* the copy action is open
    fd,          \* the data descriptor is open
    rc,          \* "ok", "err" or "timedout"
    hp_retry,    \* HP_FLAG_RETRY in hp_flags
    retrys,      \* the counter of the retry loop that runs
    moved,       \* the data has been copied: "no", "file", "stray" (an
                 \* object whose name is not the file's path), or "refused"
                 \* (the store refused the commit of a large file)
    report,      \* what the coordinator was told: "none", "ok", "err"
    err_major    \* err_major was incremented by this item

opts == <<action, o_dry_run, o_verbose>>
itemVars == <<ipc, opts, path, hcp, fd, rc, hp_retry, retrys, moved, report, err_major>>

ItemTypeOK ==
    /\ ipc \in {"start", "path", "dispatch", "abegin", "archive", "acopy",
               "mdt", "rbegin", "restore", "rcopy", "close", "done_begin",
               "end", "finished"}
    /\ action \in {"archive", "restore", "other"}
    /\ o_dry_run \in DryRun /\ o_verbose \in Verbose
    /\ path \in {"unset", "inside", "outside"}
    /\ hcp \in BOOLEAN /\ fd \in BOOLEAN /\ hp_retry \in BOOLEAN
    /\ rc \in {"ok", "err", "timedout"}
    /\ retrys \in -1 .. MaxRetry
    /\ moved \in {"no", "file", "stray", "refused"}
    /\ report \in {"none", "ok", "err"} /\ err_major \in BOOLEAN

ItemInit ==
    /\ ipc = "start"
    /\ action \in {"archive", "restore", "other"}
    /\ o_dry_run \in DryRun /\ o_verbose \in Verbose
    /\ path = "unset" /\ hcp = FALSE /\ fd = FALSE
    /\ rc = "ok" /\ hp_retry = FALSE /\ retrys = MaxRetry
    /\ moved = "no" /\ report = "none" /\ err_major = FALSE

Errors == {"err", "timedout"}

----------------------------------------------------------------------------
(* ct_process_item                                                          *)

\* "only support archive/restore action": reported as -EINVAL.
CheckAction ==
    /\ ipc = "start"
    /\ IF action = "other" THEN ipc' = "done_begin" /\ rc' = "err"
                           ELSE ipc' = "path" /\ UNCHANGED rc
    /\ UNCHANGED <<opts, path, hcp, fd, hp_retry, retrys, moved, report, err_major>>

\* llapi_fid2path, only when the options ask for the path to be printed; the
\* item is dropped when it fails.
FidToPath ==
    /\ ipc = "path"
    /\ IF o_verbose \/ o_dry_run
         THEN \/ path' \in {"inside", "outside"} /\ ipc' = "dispatch" /\ UNCHANGED rc
              \/ ipc' = "finished" /\ rc' = "err" /\ UNCHANGED path
         ELSE ipc' = "dispatch" /\ UNCHANGED <<path, rc>>
    /\ UNCHANGED <<opts, hcp, fd, hp_retry, retrys, moved, report, err_major>>

Dispatch ==
    /\ ipc = "dispatch"
    /\ ipc' = IF action = "archive" THEN "abegin" ELSE "mdt"
    /\ UNCHANGED <<opts, path, hcp, fd, rc, hp_retry, retrys, moved, report, err_major>>

----------------------------------------------------------------------------
(* The retry loops of the calls to the coordinator                          *)

\* "if (retrys >= 0) ... goto msg_resend"
Resend == retrys >= 0 /\ retrys' = retrys - 1
NoMoreResend == retrys < 0 /\ UNCHANGED retrys

\* llapi_hsm_action_begin_ex, called at step from: the copy action is open
\* and the next step is ok, or the call has failed for good.
BeginAction(from, ok, failed) ==
    /\ ipc = from
    /\ \/ /\ hcp' = TRUE /\ ipc' = ok /\ retrys' = MaxRetry
          /\ UNCHANGED rc
       \/ Resend /\ UNCHANGED <<ipc, hcp, rc>>
       \/ /\ retrys < 0 /\ retrys' = MaxRetry
          /\ ipc' = failed /\ rc' \in Errors /\ UNCHANGED hcp
    /\ UNCHANGED <<opts, path, fd, hp_retry, moved, report, err_major>>

----------------------------------------------------------------------------
(* ct_archive                                                               *)

ArchiveBegin == BeginAction("abegin", "archive", "close")

\* A dry run succeeds here; else the descriptor is opened.
ArchiveOpen ==
    /\ ipc = "archive"
    /\ \/ o_dry_run /\ ipc' = "close" /\ rc' = "ok" /\ UNCHANGED fd
       \/ ~o_dry_run /\ fd' = TRUE /\ ipc' = "acopy" /\ UNCHANGED rc
       \/ ~o_dry_run /\ rc' \in Errors /\ ipc' = "close" /\ UNCHANGED fd
    /\ UNCHANGED <<opts, path, hcp, hp_retry, retrys, moved, report, err_major>>

\* ct_target finds no object name: a warning, and success.
PathOutside == rc' = "ok" /\ UNCHANGED moved

\* What ct_target finds in a path: a path that was never written can be
\* anything.
HasPrefix == path = "inside" \/ path = "unset"
LacksPrefix == path = "outside" \/ path = "unset"

\* Where the data goes: an unwritten path names some other object.
Destination == IF path = "unset" THEN "stray" ELSE "file"

\* ct_archive_check and the size limit; the object's name; the copy, whose
\* errors are never -ETIMEDOUT and may come after the object was stored (see
\* SmallPut).  ct_archive_data_big returns 0 for a refused commit too, once
\* its body has been read (see MultipartUpload).
ArchiveCopy ==
    /\ ipc = "acopy" /\ ipc' = "close"
    /\ \/ rc' = "err" /\ UNCHANGED moved
       \/ LacksPrefix /\ PathOutside
       \/ HasPrefix /\ rc' \in {"ok", "err"} /\ moved' = Destination
       \/ HasPrefix /\ rc' = "ok" /\ moved' = "refused"
    /\ UNCHANGED <<opts, path, hcp, fd, hp_retry, retrys, report, err_major>>

----------------------------------------------------------------------------
(* ct_restore                                                               *)

\* llapi_get_mdt_index_by_fid: failing returns without a report.
MdtIndex ==
    /\ ipc = "mdt"
    /\ \/ ipc' = "rbegin" /\ UNCHANGED rc
       \/ ipc' = "finished" /\ rc' = "err"
    /\ UNCHANGED <<opts, path, hcp, fd, hp_retry, retrys, moved, report, err_major>>

RestoreBegin == BeginAction("rbegin", "restore", "close")

\* llapi_hsm_action_get_dfid, the dry run, and the descriptor.
RestoreOpen ==
    /\ ipc = "restore"
    /\ \/ rc' \in Errors /\ ipc' = "close" /\ UNCHANGED fd
       \/ o_dry_run /\ ipc' = "close" /\ rc' = "ok" /\ UNCHANGED fd
       \/ ~o_dry_run /\ fd' = TRUE /\ ipc' = "rcopy" /\ UNCHANGED rc
    /\ UNCHANGED <<opts, path, hcp, hp_retry, retrys, moved, report, err_major>>

\* ct_restore_data; a last progress report that fails makes an error of a
\* copy that was made.
RestoreCopy ==
    /\ ipc = "rcopy" /\ ipc' = "close"
    /\ \/ rc' \in Errors /\ UNCHANGED moved
       \/ LacksPrefix /\ PathOutside
       \/ HasPrefix /\ rc' \in {"ok"} \cup Errors /\ moved' = Destination
    /\ err_major' = (rc' # "ok")
    /\ hp_retry' = (rc' = "timedout")
    /\ UNCHANGED <<opts, path, hcp, fd, retrys, report>>

----------------------------------------------------------------------------
(* The end of both, and ct_action_done                                      *)

\* Mutant: an early exit forgets the descriptor.
CloseOnlyOnSuccess ==
    /\ ipc = "close"
    /\ fd' = IF rc = "ok" THEN FALSE ELSE fd
    /\ err_major' = (action = "archive" \/ err_major)
    /\ hp_retry' = (hp_retry \/ (action = "archive" /\ rc = "timedout"))
    /\ ipc' = IF hcp THEN "end" ELSE "done_begin"
    /\ UNCHANGED <<opts, path, hcp, rc, retrys, moved, report>>

\* end_ct_archive counts an error and sets the flag; end_ct_restore does not.
\* Both close the descriptor and notify the coordinator.
Close ==
    /\ ipc = "close"
    /\ fd' = FALSE
    /\ err_major' = (action = "archive" \/ err_major)
    /\ hp_retry' = (hp_retry \/ (action = "archive" /\ rc = "timedout"))
    /\ ipc' = IF hcp THEN "end" ELSE "done_begin"
    /\ UNCHANGED <<opts, path, hcp, rc, retrys, moved, report>>

\* ct_action_done without an open copy action opens one to report the error;
\* when that fails nothing is reported.
DoneBegin ==
    /\ ipc = "done_begin"
    /\ \/ hcp' = TRUE /\ ipc' = "end" /\ retrys' = MaxRetry
       \/ Resend /\ UNCHANGED <<ipc, hcp>>
       \/ NoMoreResend /\ ipc' = "finished" /\ UNCHANGED hcp
    /\ UNCHANGED <<opts, path, fd, rc, hp_retry, moved, report, err_major>>

\* Mutant: the coordinator is told that the notification worked.
ReportedOk == "ok"

Reported == IF rc = "ok" THEN "ok" ELSE "err"

\* llapi_hsm_action_end: done, cancelled by the coordinator, or resent.
ActionEnd ==
    /\ ipc = "end"
    /\ \/ /\ report' = Reported /\ hcp' = FALSE /\ ipc' = "finished"
          /\ UNCHANGED retrys
       \/ ipc' = "finished" /\ hcp' = FALSE /\ UNCHANGED <<retrys, report>>
       \/ Resend /\ UNCHANGED <<ipc, hcp, report>>
       \/ NoMoreResend /\ ipc' = "finished" /\ UNCHANGED <<hcp, report>>
    /\ UNCHANGED <<opts, path, fd, rc, hp_retry, moved, err_major>>

Finished == ipc = "finished" /\ UNCHANGED itemVars

ItemNext ==
    \/ CheckAction \/ FidToPath \/ Dispatch
    \/ ArchiveBegin \/ ArchiveOpen \/ ArchiveCopy
    \/ MdtIndex \/ RestoreBegin \/ RestoreOpen \/ RestoreCopy
    \/ Close \/ DoneBegin \/ ActionEnd \/ Finished

\* The thread is scheduled, and every call is assumed to return.
ItemSpec == ItemInit /\ [][ItemNext]_itemVars /\ WF_itemVars(ItemNext)

----------------------------------------------------------------------------
(* Properties                                                               *)

\* The coordinator hears of success only when the data was copied to or from
\* the object that is named by the file's path, but for a dry run, a path
\* outside the configured prefix, a quiet copytool, which never looks the path
\* up and takes whatever is in file_path for the name, and the archive of a
\* large file whose commit the store refused: whichever goto the item took,
\* there is no fifth way to a false success.
SuccessMeansMovedMostly ==
    report = "ok" => \/ moved = "file"
                     \/ o_dry_run \/ path = "outside" \/ ~ o_verbose
                     \/ moved = "refused" /\ action = "archive"

\* The item ends, by whichever goto, with its descriptor closed: the three
\* retry loops around the coordinator's calls are bounded.
ItemEnds == <>(ipc = "finished" /\ ~ fd)

============================================================================
