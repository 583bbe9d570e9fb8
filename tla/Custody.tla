------------------------------ MODULE Custody ------------------------------
(***************************************************************************)
(* The whole queue: poll workers, operator commands, web triage, the       *)
(* operator's own hands in the directories, and processes that die between *)
(* any two steps, over one registry and one disk.                          *)
(***************************************************************************)
EXTENDS Ingest, Operator

CONSTANTS
    Env   \* what else happens, of EnvEvents

EnvEvents == {"crash", "trash_copy", "trash_move", "library_move", "triage",
              "block_rules"}

ASSUME EnvAssumption == Env \subseteq EnvEvents

\* One command runs at a time.
Serial == \A p, q \in Procs : p = q

Steps == {"idle"} \union IngestSteps \union OperatorSteps

TypeOK ==
    /\ RegistryTypeOK
    /\ disk \in [Paths -> Contents \union {NoFile}]
    /\ trash \subseteq Contents
    /\ pc \in [Procs -> Steps]
    /\ job \in [Procs -> Jobs]
    /\ seen \in [Procs -> Row]
    /\ dest \in [Procs -> Paths \union {NoPath}]
    /\ outcome \in [Procs -> Outcomes]

Init ==
    /\ RegistryInit
    /\ disk = [path \in Paths |-> NoFile]
    /\ trash = {}
    /\ pc = [p \in Procs |-> "idle"]
    /\ job = [p \in Procs |-> NoJob]
    /\ seen = [p \in Procs |-> NoRow]
    /\ dest = [p \in Procs |-> NoPath]
    /\ outcome = [p \in Procs |-> "ok"]

-----------------------------------------------------------------------------
(* What happens around the processes *)

\* A process is killed, or the host goes down: its local state is lost, the
\* registry and the disk stay as they are.
Crash(p) ==
    /\ "crash" \in Env
    /\ ~ Idle(p)
    /\ End(p, pc[p], "ok")
    /\ UNCHANGED <<registryVars, disk, trash>>

\* The operator drops a copy of some file into the trash directory ...
CopyToTrash(c) ==
    /\ "trash_copy" \in Env
    /\ trash' = trash \union {c}
    /\ UNCHANGED <<registryVars, disk, procVars>>

\* ... or moves a file of the pending or the accepted queue there ...
MoveToTrash(path) ==
    /\ "trash_move" \in Env
    /\ disk[path] # NoFile
    /\ path.root \in {"pending", "accepted"}
    /\ trash' = trash \union {disk[path]}
    /\ disk' = Unlink(disk, path)
    /\ UNCHANGED <<registryVars, procVars>>

\* ... or moves an accepted file on to the permanent library.
MoveToLibrary(path) ==
    /\ "library_move" \in Env
    /\ disk[path] # NoFile
    /\ path.root = "accepted"
    /\ disk' = Unlink(disk, path)
    /\ UNCHANGED <<registryVars, trash, procVars>>

\* POST /triage/{item_id}/accept, reject or defer.
Triage(c, status) ==
    /\ "triage" \in Env
    /\ TriageStatus(c, status)
    /\ UNCHANGED <<disk, trash, procVars>>

ChangeBlockRules(rules) ==
    /\ "block_rules" \in Env
    /\ SetBlockRules(rules)
    /\ UNCHANGED <<disk, trash, procVars>>

EnvNext ==
    \/ \E p \in Procs : Crash(p)
    \/ \E c \in Contents :
          \/ CopyToTrash(c)
          \/ \E status \in {"accepted", "rejected", "pending"} : Triage(c, status)
    \/ \E path \in Paths : MoveToTrash(path) \/ MoveToLibrary(path)
    \/ \E rules \in SUBSET Names : ChangeBlockRules(rules)

Next ==
    \/ \E p \in Procs : IngestNext(p) \/ OperatorNext(p)
    \/ EnvNext

Spec == Init /\ [][Next]_vars

-----------------------------------------------------------------------------
(* Properties *)

\* No command destroys the last copy of a content in the queue directories
\* except the unlink of a purge of that very content: moves do not overwrite
\* another file, and what is moved stays on disk.  (The operator's own moves
\* out of the directories are no step of a process.)
NothingLost ==
    [][\A c \in Contents :
          Held(disk, c) /\ ~ Held(disk', c) /\ pc' # pc
             => \E p \in Procs : pc[p] = "purge_unlink" /\ job[p].sha = c]_vars

\* Whatever file a command moves, unlinks or writes over holds the content the
\* command was asked for.  Accept, reject and purge trust current_path and do
\* not hash what they find there, and a name is free for another file as soon
\* as a command has taken its file away.
OwnFilesOnly ==
    [][\A p \in Procs, path \in Paths :
          /\ pc'[p] # pc[p]
          /\ disk[path] # NoFile
          /\ disk'[path] # disk[path]
          => disk[path] = job[p].sha]_vars

\* When no command is running, every content is where the state table of the
\* registry says its status puts it, and nothing is on disk that no row points
\* at: the commands leave no stray, lost or doubly recorded file.
LocationMatchesStatus ==
    (\A p \in Procs : Idle(p)) =>
        /\ \A c \in Contents :
              LET row == files[c] IN
              /\ row.status \in {"pending", "accepted"} =>
                    WithinRoot(row.path, row.status) /\ disk[row.path] = c
              /\ row.status = "rejected" /\ row.path # NoPath =>
                    WithinRoot(row.path, "rejected") /\ disk[row.path] = c
              /\ row.status \in {"unknown", "purged"} => row.path = NoPath
        /\ \A path \in Paths :
              disk[path] # NoFile => files[disk[path]].path = path

\* When no command is running, the latest transition row of the audit log names
\* the status in files: the log tells the whole story.
AuditTellsStatus ==
    (\A p \in Procs : Idle(p)) =>
        \A c \in Contents : audit_log[c] = files[c].status

\* A move never replaces a file that is there: the suffixes keep the names in
\* a directory unique.
NoOverwrite ==
    [][\A path \in Paths :
          disk[path] # NoFile => disk'[path] \in {disk[path], NoFile}]_vars

\* The detailed queue implements the promise made to the reviewer.
Queue == INSTANCE ReviewQueue WITH
            status <- [c \in Contents |-> files[c].status],
            kept <- {c \in Contents : Held(disk, c)}

\* Every step of the queue is a step of the abstract review queue: rejected is
\* for ever, only pending contents are accepted, only rejected ones are purged,
\* and bytes are destroyed only under a rejection.
ReviewQueueSpec == Queue!Spec

=============================================================================
