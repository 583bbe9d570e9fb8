--------------------------- MODULE IngestJournal ---------------------------
(***************************************************************************)
(* The ingest lifecycle journal (domain/journal.py) around _process_one,   *)
(* and its replay at startup, replay_interrupted_operations of             *)
(* domain/ingest.py: one worker, crashes at every point, replay included.  *)
(*                                                                         *)
(* A candidate stays due until it is dealt with, because the delta cursor  *)
(* does not move before (DeltaPoll): after a crash it is downloaded again. *)
(* Block rules and the operator commands are in Custody, not here; there   *)
(* are more collision suffixes than a run can use up.                      *)
(***************************************************************************)
EXTENDS Registry, Sequences, Functions

CONSTANTS
    Delivers,     \* Delivers[i]: the content of item i
    SamePool,     \* staging_on_same_pool
    MaxRecords,   \* records the journal holds before it is rotated
    MaxRounds,    \* bound: times the service reports changes
    MaxCrashes    \* bound: crashes

ASSUME JournalAssumption ==
    /\ Items # {} /\ Delivers \in [Items -> Contents]
    /\ SamePool \in BOOLEAN
    /\ MaxRecords \in Nat \ {0}
    /\ MaxRounds \in Nat /\ MaxCrashes \in Nat

VARIABLES
    disk,      \* the pending queue
    orphans,   \* the .orphaned file next to each path
    staged,    \* item -> content of its staged file, or NoContent
    journal,   \* the active journal file
    due,       \* items the cursor has not passed
    batch,     \* items of the page still to be processed
    dropped,   \* items of the page given up by the checks (no program variable)
    pc,
    op,        \* the current operation: its id, item and destination
    todo,      \* replay: interrupted operations still to reconcile
    rounds, crashes

pageVars == <<due, batch, dropped>>
boundVars == <<rounds, crashes>>
jvars == <<registryVars, disk, orphans, staged, journal, pageVars, pc, op, todo,
           boundVars>>

Phases == {"ingest_started", "missing_staged", "size_mismatch", "hash_completed",
           "storage_committed", "registry_persisted"}

Records == [op: Nat, phase: Phases, item: Items, dest: Paths \union {NoPath}]

TypeOK ==
    /\ RegistryTypeOK
    /\ disk \in [Paths -> Contents \union {NoFile}]
    /\ orphans \in [Paths -> Contents \union {NoFile}]
    /\ staged \in [Items -> Contents \union {NoContent}]
    /\ journal \in Seq(Records) /\ Len(journal) <= MaxRecords
    /\ due \subseteq Items /\ batch \subseteq Items /\ dropped \subseteq Items
    /\ pc \in {"startup", "replay_dest", "replay_staging", "poll", "batch", "check",
               "drop", "lookup", "known_unlink", "known_finalize", "commit", "unstage",
               "log_committed", "finalize", "log_persisted"}
    /\ op \in [id: Nat, item: Items, dest: Paths \union {NoPath}]
    /\ todo \subseteq Nat
    /\ rounds \in 0..MaxRounds /\ crashes \in 0..MaxCrashes

Init ==
    /\ RegistryInit
    /\ disk = [path \in Paths |-> NoFile]
    /\ orphans = [path \in Paths |-> NoFile]
    /\ staged = [i \in Items |-> NoContent]
    /\ journal = <<>>
    /\ due = {} /\ batch = {} /\ dropped = {}
    /\ pc = "startup"
    /\ op = [id |-> 0, item |-> CHOOSE i \in Items : TRUE, dest |-> NoPath]
    /\ todo = {}
    /\ rounds = 0 /\ crashes = 0

-----------------------------------------------------------------------------
(* The journal *)

\* Mutant: no rotation.
JournalAppendUnrotated(phase) ==
    journal' = Append(journal, [op |-> op'.id, phase |-> phase, item |-> op'.item,
                                dest |-> op'.dest])

\* _rotate_if_needed: a full journal is set aside and never read again.
Rotated == IF Len(journal) >= MaxRecords THEN <<>> ELSE journal

\* append, in the step that sets op'.  A record torn by a crash is skipped by
\* read_all, as if the crash had come before it.
JournalAppend(phase) ==
    journal' = Append(Rotated, [op |-> op'.id, phase |-> phase, item |-> op'.item,
                                dest |-> op'.dest])

\* The operations the journal has no registry_persisted record of.
Interrupted ==
    {r.op : r \in Range(journal)}
      \ {r.op : r \in {s \in Range(journal) : s.phase = "registry_persisted"}}

\* They are taken in the order of their first records.
Oldest(ids) == CHOOSE id \in ids : \A n \in ids : id <= n

\* The last record of an operation.
Latest(id) ==
    LET mine == {k \in DOMAIN journal : journal[k].op = id}
    IN  journal[CHOOSE k \in mine : \A j \in mine : j <= k]

-----------------------------------------------------------------------------
(* Startup: replay_interrupted_operations *)

ReplayBegin ==
    /\ pc = "startup"
    /\ todo' = Interrupted
    /\ pc' = "replay_dest"
    /\ UNCHANGED <<registryVars, disk, orphans, staged, journal, pageVars, op, boundVars>>

\* Mutant: the destination is deleted.
ReplayDestinationDeletes ==
    /\ pc = "replay_dest"
    /\ todo # {}
    /\ LET dest == Latest(Oldest(todo)).dest IN
       disk' = IF Exists(disk, dest) THEN Unlink(disk, dest) ELSE disk
    /\ pc' = "replay_staging"
    /\ UNCHANGED <<registryVars, orphans, staged, journal, pageVars, op, todo,
                   boundVars>>

\* An existing destination is renamed to .orphaned, over an earlier one.
ReplayDestination ==
    /\ pc = "replay_dest"
    /\ todo # {}
    /\ LET dest == Latest(Oldest(todo)).dest IN
       IF Exists(disk, dest)
       THEN /\ orphans' = [orphans EXCEPT ![dest] = disk[dest]]
            /\ disk' = Unlink(disk, dest)
       ELSE UNCHANGED <<orphans, disk>>
    /\ pc' = "replay_staging"
    /\ UNCHANGED <<registryVars, staged, journal, pageVars, op, todo, boundVars>>

\* The staged file is removed; a recovery row in audit_log, when the content
\* has a registry row, records no transition.
ReplayStaging ==
    /\ pc = "replay_staging"
    /\ staged' = [staged EXCEPT ![Latest(Oldest(todo)).item] = NoContent]
    /\ todo' = todo \ {Oldest(todo)}
    /\ pc' = "replay_dest"
    /\ UNCHANGED <<registryVars, disk, orphans, journal, pageVars, op, boundVars>>

\* Mutant: the journal is cleared while operations are left.
ReplayClearEarly ==
    /\ pc = "replay_dest"
    /\ journal' = <<>>
    /\ todo' = {}
    /\ pc' = "poll"
    /\ UNCHANGED <<registryVars, disk, orphans, staged, pageVars, op, boundVars>>

ReplayClear ==
    /\ pc = "replay_dest"
    /\ todo = {}
    /\ journal' = <<>>
    /\ pc' = "poll"
    /\ UNCHANGED <<registryVars, disk, orphans, staged, pageVars, op, todo, boundVars>>

-----------------------------------------------------------------------------
(* The poll around it *)

\* The service reports changes once the cursor is up to date.
CloudChange ==
    /\ pc = "poll" /\ due = {}
    /\ rounds < MaxRounds
    /\ rounds' = rounds + 1
    /\ due' \in SUBSET Items \ {{}}
    /\ UNCHANGED <<registryVars, disk, orphans, staged, journal, batch, dropped, pc,
                   op, todo, crashes>>

\* Mutant: an existing staged file is not downloaded over.
StagePageNoOverwrite ==
    /\ pc = "poll" /\ batch = {}
    /\ due # {} /\ \A i \in due : staged[i] = NoContent
    /\ staged' = [i \in Items |-> IF i \in due THEN Delivers[i] ELSE staged[i]]
    /\ batch' = due /\ dropped' = {}
    /\ pc' = "batch"
    /\ UNCHANGED <<registryVars, disk, orphans, journal, due, op, todo, boundVars>>

\* The page is downloaded and handed over.
StagePage ==
    /\ pc = "poll" /\ batch = {}
    /\ due # {}
    /\ staged' = [i \in Items |-> IF i \in due THEN Delivers[i] ELSE staged[i]]
    /\ batch' = due /\ dropped' = {}
    /\ pc' = "batch"
    /\ UNCHANGED <<registryVars, disk, orphans, journal, due, op, todo, boundVars>>

\* Something else cleans the staging directory, between two files of the page or
\* between the ingest_started record of a file and its checks.
StagedFileRemoved ==
    /\ \E i \in Items :
          /\ \/ pc = "batch" /\ i \in batch
             \/ pc = "check" /\ i \in batch \union {op.item}
          /\ staged[i] # NoContent
          /\ staged' = [staged EXCEPT ![i] = NoContent]
    /\ UNCHANGED <<registryVars, disk, orphans, journal, pageVars, pc, op, todo,
                   boundVars>>

\* Mutant: the cursor is saved although rows are left.
SaveCursorEarly ==
    /\ pc = "batch"
    /\ due' = {} /\ batch' = {}
    /\ pc' = "poll"
    /\ UNCHANGED <<registryVars, disk, orphans, staged, journal, dropped, op, todo,
                   boundVars>>

\* All rows are processed: the cursor moves past the page.
SaveCursor ==
    /\ pc = "batch" /\ batch = {}
    /\ due' = {}
    /\ pc' = "poll"
    /\ UNCHANGED <<registryVars, disk, orphans, staged, journal, batch, dropped, op,
                   todo, boundVars>>

\* The process dies, and is started again.
Crash ==
    /\ crashes < MaxCrashes
    /\ crashes' = crashes + 1
    /\ pc' = "startup"
    /\ batch' = {} /\ todo' = {}
    /\ UNCHANGED <<registryVars, disk, orphans, staged, journal, due, dropped, op,
                   rounds>>

-----------------------------------------------------------------------------
(* _process_one, one step per file system call, transaction or record *)

Item == op.item
Sha == staged[op.item]

\* The operation begins with its ingest_started record.
Start ==
    /\ pc = "batch"
    /\ \E i \in batch :
          /\ batch' = batch \ {i}
          /\ op' = [id |-> op.id + 1, item |-> i, dest |-> NoPath]
    /\ JournalAppend("ingest_started")
    /\ pc' = "check"
    /\ UNCHANGED <<registryVars, disk, orphans, staged, due, dropped, todo, boundVars>>

\* Only the journal and the program counter change.
Log(from, phase, to) ==
    /\ pc = from
    /\ op' = op
    /\ JournalAppend(phase)
    /\ pc' = to
    /\ UNCHANGED <<registryVars, disk, orphans, staged, pageVars, todo, boundVars>>

\* Only the staged file is removed.
Unstage(from, to) ==
    /\ pc = from
    /\ staged' = [staged EXCEPT ![Item] = NoContent]
    /\ pc' = to
    /\ UNCHANGED <<registryVars, disk, orphans, journal, pageVars, op, todo, boundVars>>

MissingStaged ==
    /\ pc = "check" /\ Sha = NoContent
    /\ op' = op
    /\ JournalAppend("missing_staged")
    /\ dropped' = dropped \union {Item}
    /\ pc' = "batch"
    /\ UNCHANGED <<registryVars, disk, orphans, staged, due, batch, todo, boundVars>>

\* The size is not the expected one: recorded first, then quarantined or deleted.
SizeMismatch == Sha # NoContent /\ Log("check", "size_mismatch", "drop")

\* The drop itself; an empty file is dropped without a record.
Drop ==
    /\ pc = "drop" \/ (pc = "check" /\ Sha # NoContent)
    /\ staged' = [staged EXCEPT ![Item] = NoContent]
    /\ dropped' = dropped \union {Item}
    /\ pc' = "batch"
    /\ UNCHANGED <<registryVars, disk, orphans, journal, due, batch, op, todo,
                   boundVars>>

\* A prefilter hit leaves no record either.
PrefilterDiscard ==
    /\ Sha # NoContent /\ PrefilterHit(Item, Sha)
    /\ Unstage("check", "batch")

\* A miss, which a known item that was only touched is too.
HashCompleted ==
    /\ Sha # NoContent
    /\ Log("check", "hash_completed", "lookup")

Lookup ==
    /\ pc = "lookup"
    /\ pc' = IF Known(files[Delivers[Item]]) THEN "known_unlink" ELSE "commit"
    /\ UNCHANGED <<registryVars, disk, orphans, staged, journal, pageVars, op, todo,
                   boundVars>>

KnownUnlink == Unstage("known_unlink", "known_finalize")

KnownFinalize ==
    /\ pc = "known_finalize"
    /\ FinalizeKnownIngest(Item, Delivers[Item])
    /\ pc' = "log_persisted"
    /\ UNCHANGED <<disk, orphans, staged, journal, pageVars, op, todo, boundVars>>

\* choose_collision_safe_destination and commit_staging_to_accepted: by rename,
\* or by verified copy and unlink.
Commit ==
    /\ pc = "commit"
    /\ \E dest \in ChooseDestination(disk, "pending", Delivers[Item]) :
          /\ disk' = CopyTo(disk, Sha, dest)
          /\ op' = [op EXCEPT !.dest = dest]
    /\ IF SamePool
       THEN pc' = "log_committed" /\ staged' = [staged EXCEPT ![Item] = NoContent]
       ELSE pc' = "unstage" /\ UNCHANGED staged
    /\ UNCHANGED <<registryVars, orphans, journal, pageVars, todo, boundVars>>

CommitUnlink == Unstage("unstage", "log_committed")

StorageCommitted == Log("log_committed", "storage_committed", "finalize")

FinalizeUnknown ==
    /\ pc = "finalize"
    /\ FinalizeUnknownIngest(Item, Delivers[Item], op.dest)
    /\ pc' = "log_persisted"
    /\ UNCHANGED <<disk, orphans, staged, journal, pageVars, op, todo, boundVars>>

RegistryPersisted == Log("log_persisted", "registry_persisted", "batch")

-----------------------------------------------------------------------------

Work ==
    \/ ReplayBegin \/ ReplayDestination \/ ReplayStaging \/ ReplayClear
    \/ StagePage \/ SaveCursor \/ Start
    \/ MissingStaged \/ SizeMismatch \/ Drop \/ PrefilterDiscard \/ HashCompleted
    \/ Lookup \/ KnownUnlink \/ KnownFinalize
    \/ Commit \/ CommitUnlink \/ StorageCommitted \/ FinalizeUnknown
    \/ RegistryPersisted

Next == Work \/ CloudChange \/ StagedFileRemoved \/ Crash

Spec == Init /\ [][Next]_jvars

\* The service unit is started again after a crash and a running poll goes on.
FairSpec == Spec /\ WF_jvars(Work)

-----------------------------------------------------------------------------

\* "If the process crashes again during recovery, the journal is not yet
\* cleared, so the next startup re-runs recovery on the same records.  This is
\* safe." (ingest-lifecycle-and-crash-recovery.md, 5.5): when the journal is
\* cleared, every interrupted operation in it has been reconciled, by this
\* replay or by earlier ones that crashed.
ReplayIsComplete ==
    [][journal' = <<>> =>
         \A id \in Interrupted :
             /\ ~ Exists(disk, Latest(id).dest)
             /\ staged[Latest(id).item] = NoContent]_jvars

\* What was committed to the queue is never deleted by the engine or by its
\* replay, wherever they crash: it stays in the queue or in an .orphaned file.
\* Contents that share a rendered path are excepted, because a later replay
\* renames the one over the .orphaned file of the other.
NothingVanishes ==
    [][UniqueNames => \A c \in Contents :
         Held(disk, c) \/ Held(orphans, c) => Held(disk, c)' \/ Held(orphans, c)']_jvars

\* Replay removes staged files only because "the operation will be
\* re-downloaded on the next poll" (5.3): no crash makes the cursor pass an
\* item whose content is not in the registry, those the checks drop excepted.
PassedIsRecorded ==
    [][\A i \in due \ due' : Known(files[Delivers[i]]) \/ i \in dropped]_jvars

\* Every reported item is dealt with in the end, however the process crashes
\* and replays in between.
EventuallyPassed == \A i \in Items : i \in due ~> i \notin due

=============================================================================
