------------------------------ MODULE Operator ------------------------------
(***************************************************************************)
(* The operator commands of reject.py: accept, reject, process-trash and   *)
(* purge.  Each command reads the registry, works on the disk and then     *)
(* writes the registry, in separate steps.                                 *)
(*                                                                         *)
(* `poll` creates no live photo pairs, so the pair branch of _apply_reject *)
(* is not taken here; BatchPairs models it.                                *)
(***************************************************************************)
EXTENDS Process

-----------------------------------------------------------------------------
(* accept_sha256 *)

Acceptable(c) ==
    /\ HasAcceptContext(c)
    /\ files[c].status = "pending"
    /\ WithinRoot(files[c].path, "pending")

AcceptStart(p, c) ==
    \/ /\ Acceptable(c)
       /\ Begin(p, "accept", NoContent, c, files[c], "accept_choose")
       /\ UNCHANGED <<registryVars, disk, trash>>
    \/ /\ ~ Acceptable(c)
       /\ EndAtOnce(p, "accept", "error")

AcceptChoose(p) == Choose(p, "accept_choose", "accepted", "accept_move")

\* Mutant: on two filesystems the source is unlinked before the copy is made.
AcceptMoveUnlinkFirst(p) ==
    \/ /\ Exists(disk, seen[p].path)
       /\ Goto(p, "accept_move", "accept_unlink")
       /\ disk' = Unlink(disk, seen[p].path)
       /\ UNCHANGED <<registryVars, trash, seen, dest>>
    \/ /\ ~ Exists(disk, seen[p].path)
       /\ End(p, "accept_move", "error")
       /\ UNCHANGED <<registryVars, disk, trash>>

\* commit_pending_to_accepted: rename on one filesystem, otherwise copy,
\* verify and unlink.  A source that is gone is a StorageError.  (An I/O error
\* of the chmod, fsync or stat after the move ends the command where Crash
\* ends it.)
AcceptMove(p) ==
    \/ /\ Exists(disk, seen[p].path)
       /\ SameDevice("pending", "accepted")
       /\ Goto(p, "accept_move", "accept_finalize")
       /\ disk' = Rename(disk, seen[p].path, dest[p])
       /\ UNCHANGED <<registryVars, trash, seen, dest>>
    \/ /\ Exists(disk, seen[p].path)
       /\ ~ SameDevice("pending", "accepted")
       /\ Goto(p, "accept_move", "accept_unlink")
       /\ disk' = CopyTo(disk, disk[seen[p].path], dest[p])
       /\ UNCHANGED <<registryVars, trash, seen, dest>>
    \/ /\ ~ Exists(disk, seen[p].path)
       /\ End(p, "accept_move", "error")
       /\ UNCHANGED <<registryVars, disk, trash>>

AcceptUnlink(p) ==
    /\ Goto(p, "accept_unlink", "accept_finalize")
    /\ disk' = Unlink(disk, seen[p].path)
    /\ UNCHANGED <<registryVars, trash, seen, dest>>

\* finalize_accept_from_pending, or its RegistryError.
AcceptFinalize(p) ==
    \/ /\ End(p, "accept_finalize", "ok")
       /\ FinalizeAcceptFromPending(job[p].sha, dest[p])
       /\ UNCHANGED <<disk, trash>>
    \/ /\ End(p, "accept_finalize", "error")
       /\ files[job[p].sha].status # "pending"
       /\ UNCHANGED <<registryVars, disk, trash>>

-----------------------------------------------------------------------------
(* purge_sha256 *)

Purgeable(c) ==
    /\ files[c].status = "rejected"
    /\ files[c].path = NoPath \/ WithinRoot(files[c].path, "rejected")

PurgeStart(p, c) ==
    \/ /\ Purgeable(c)
       /\ Begin(p, "purge", NoContent, c, files[c],
                IF files[c].path = NoPath THEN "purge_finalize"
                                          ELSE "purge_unlink")
       /\ UNCHANGED <<registryVars, disk, trash>>
    \/ /\ ~ Purgeable(c)
       /\ EndAtOnce(p, "purge", "error")

\* Mutant: the path is rendered anew, not taken from the row.
PurgeUnlinkRendered(p) ==
    /\ Goto(p, "purge_unlink", "purge_finalize")
    /\ disk' = Unlink(disk, [seen[p].path EXCEPT !.suffix = 0])
    /\ UNCHANGED <<registryVars, trash, seen, dest>>

PurgeUnlink(p) ==
    /\ Goto(p, "purge_unlink", "purge_finalize")
    /\ disk' = Unlink(disk, seen[p].path)
    /\ UNCHANGED <<registryVars, trash, seen, dest>>

PurgeFinalize(p) ==
    \/ /\ End(p, "purge_finalize", "ok")
       /\ FinalizePurgeFromRejected(job[p].sha)
       /\ UNCHANGED <<disk, trash>>
    \/ /\ End(p, "purge_finalize", "error")
       /\ files[job[p].sha].status # "rejected"
       /\ UNCHANGED <<registryVars, disk, trash>>

-----------------------------------------------------------------------------
(* _apply_reject, called by reject_sha256 and, for every file in the trash *)
(* directory, by process_trash                                             *)

\* The file process_trash hands over as incoming_path is there to be moved.
Incoming(p) == job[p].op = "trash" /\ job[p].sha \in trash

\* _apply_reject reads the row and takes one of its branches.
RejectBranch(op, c) ==
    CASE files[c].status = "rejected" ->
            IF op = "trash" THEN "trash_unlink" ELSE "reject_noop"
      [] ~ Known(files[c]) ->
            IF op = "trash" THEN "unknown_choose" ELSE "unknown_row"
      [] OTHER -> "reject_read"

RejectStart(p, c) ==
    /\ Begin(p, "reject", NoContent, c, NoRow, RejectBranch("reject", c))
    /\ UNCHANGED <<registryVars, disk, trash>>

TrashStart(p, c) ==
    /\ c \in trash
    /\ Begin(p, "trash", NoContent, c, NoRow, RejectBranch("trash", c))
    /\ UNCHANGED <<registryVars, disk, trash>>

\* Already rejected: an audit row that reports no transition.
RejectNoop(p) ==
    /\ End(p, "reject_noop", "ok")
    /\ UNCHANGED <<registryVars, disk, trash>>

\* Unknown content: the trash file itself is retained under rejected/ ...
UnknownChoose(p) ==
    \/ Incoming(p) /\ Choose(p, "unknown_choose", "rejected", "unknown_move")
    \/ /\ ~ Incoming(p)
       /\ Goto(p, "unknown_choose", "unknown_row")
       /\ UNCHANGED <<registryVars, disk, trash, seen, dest>>

\* Path.replace: an OSError when the file is gone or on another filesystem.
UnknownMove(p) ==
    LET movable == Incoming(p) /\ SameDevice("trash", "rejected") IN
    \/ /\ movable
       /\ Goto(p, "unknown_move", "unknown_row")
       /\ disk' = CopyTo(disk, job[p].sha, dest[p])
       /\ trash' = trash \ {job[p].sha}
       /\ UNCHANGED <<registryVars, seen, dest>>
    \/ /\ ~ movable
       /\ End(p, "unknown_move", "error")
       /\ UNCHANGED <<registryVars, disk, trash>>

\* ... the row is written ...
UnknownRow(p) ==
    /\ Goto(p, "unknown_row", "unknown_audit")
    /\ CreateOrUpdateFile(job[p].sha, "rejected", dest[p])
    /\ UNCHANGED <<disk, trash, seen, dest>>

\* _apply_reject returns: process_trash goes on to delete the trash file.
RejectReturn(p, l) ==
    \/ job[p].op = "reject" /\ End(p, l, "ok")
    \/ job[p].op = "trash" /\ Goto(p, l, "trash_unlink") /\ UNCHANGED <<seen, dest>>

\* ... and its audit row follows in a transaction of its own.
UnknownAudit(p) ==
    /\ RejectReturn(p, "unknown_audit")
    /\ AppendAuditEvent(job[p].sha, "rejected")
    /\ UNCHANGED <<disk, trash>>

\* _move_to_rejected_folder reads the row again.
RejectRead(p) ==
    LET row == files[job[p].sha] IN
    /\ Goto(p, "reject_read",
            IF row.path = NoPath THEN "reject_status" ELSE "reject_check")
    /\ seen' = [seen EXCEPT ![p] = row]
    /\ UNCHANGED <<registryVars, disk, trash, dest>>

\* The source is missing, outside pending and accepted, or can be moved.
RejectCheck(p) ==
    LET src == seen[p].path IN
    \/ /\ ~ Exists(disk, src)
       /\ Goto(p, "reject_check", "reject_clear")
       /\ UNCHANGED <<registryVars, disk, trash, seen, dest>>
    \/ /\ Exists(disk, src)
       /\ WithinRoot(src, "rejected")
       /\ End(p, "reject_check", "error")
       /\ UNCHANGED <<registryVars, disk, trash>>
    \/ /\ Exists(disk, src)
       /\ ~ WithinRoot(src, "rejected")
       /\ Goto(p, "reject_check", "reject_choose")
       /\ UNCHANGED <<registryVars, disk, trash, seen, dest>>

RejectClear(p) ==
    /\ Goto(p, "reject_clear", "reject_status")
    /\ UpdateCurrentPath(job[p].sha, NoPath)
    /\ UNCHANGED <<disk, trash, seen, dest>>

\* _move_physical_to_rejected: a source gone by now leaves current_path alone.
RejectChoose(p) ==
    \/ /\ Exists(disk, seen[p].path)
       /\ Choose(p, "reject_choose", "rejected", "reject_move")
    \/ /\ ~ Exists(disk, seen[p].path)
       /\ Goto(p, "reject_choose", "reject_status")
       /\ UNCHANGED <<registryVars, disk, trash, seen, dest>>

RejectMove(p) ==
    LET src == seen[p].path
        movable == Exists(disk, src) /\ SameDevice(src.root, "rejected") IN
    \/ /\ movable
       /\ Goto(p, "reject_move", "reject_path")
       /\ disk' = Rename(disk, src, dest[p])
       /\ UNCHANGED <<registryVars, trash, seen, dest>>
    \/ /\ ~ movable
       /\ End(p, "reject_move", "error")
       /\ UNCHANGED <<registryVars, disk, trash>>

RejectPath(p) ==
    /\ Goto(p, "reject_path", "reject_status")
    /\ UpdateCurrentPath(job[p].sha, dest[p])
    /\ UNCHANGED <<disk, trash, seen, dest>>

RejectStatus(p) ==
    /\ RejectReturn(p, "reject_status")
    /\ TransitionStatus(job[p].sha, "rejected")
    /\ UNCHANGED <<disk, trash>>

TrashUnlink(p) ==
    /\ End(p, "trash_unlink", "ok")
    /\ trash' = trash \ {job[p].sha}
    /\ UNCHANGED <<registryVars, disk>>

OperatorNext(p) ==
    \/ \E c \in Contents :
          AcceptStart(p, c) \/ PurgeStart(p, c) \/ RejectStart(p, c) \/ TrashStart(p, c)
    \/ AcceptChoose(p) \/ AcceptMove(p) \/ AcceptUnlink(p) \/ AcceptFinalize(p)
    \/ PurgeUnlink(p) \/ PurgeFinalize(p)
    \/ RejectNoop(p) \/ UnknownChoose(p) \/ UnknownMove(p) \/ UnknownRow(p)
    \/ UnknownAudit(p)
    \/ RejectRead(p) \/ RejectCheck(p) \/ RejectClear(p) \/ RejectChoose(p)
    \/ RejectMove(p) \/ RejectPath(p) \/ RejectStatus(p)
    \/ TrashUnlink(p)

OperatorSteps == {"accept_choose", "accept_move", "accept_unlink",
                  "accept_finalize", "purge_unlink", "purge_finalize",
                  "reject_noop", "unknown_choose", "unknown_move",
                  "unknown_row", "unknown_audit", "reject_read",
                  "reject_check", "reject_clear", "reject_choose",
                  "reject_move", "reject_path", "reject_status",
                  "trash_unlink"}

=============================================================================
