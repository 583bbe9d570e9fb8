------------------------------- MODULE Ingest -------------------------------
(***************************************************************************)
(* The ingest decision engine, IngestDecisionEngine._process_one of        *)
(* domain/ingest.py, for one staged candidate, as `poll` runs it: without  *)
(* a lifecycle journal (IngestJournal models the journal).                 *)
(*                                                                         *)
(* The staged copy is private to the worker that processes it, and the     *)
(* cloud keeps the original: only what enters the queue directories is in  *)
(* disk.                                                                   *)
(***************************************************************************)
EXTENDS Process

CONSTANTS
    PollWorkers   \* candidates processed at the same time (account workers)

ASSUME IngestAssumption == PollWorkers \in Nat \ {0}

\* One poll runs at a time (the global process lock), with this many workers.
PollWorkerFree ==
    Cardinality({q \in Procs : ~ Idle(q) /\ job[q].op = "ingest"}) < PollWorkers

\* The staged file is missing, has the wrong size, or is empty and the policy
\* does not allow that: it is dropped or quarantined, unhashed.
IngestDrop(p) ==
    /\ PollWorkerFree
    /\ EndAtOnce(p, "ingest", "ok")

\* The metadata prefilter knows the item: the staged copy is deleted.
IngestPrefilter(p, i, c) ==
    /\ PollWorkerFree
    /\ PrefilterHit(i, c)
    /\ EndAtOnce(p, "ingest", "ok")

\* The prefilter misses, as it may for a known item: the file is hashed ...
IngestHash(p, i, c) ==
    /\ PollWorkerFree
    /\ Begin(p, "ingest", i, c, NoRow, "ingest_rules")
    /\ UNCHANGED <<registryVars, disk, trash>>

\* ... and the block rules are consulted for the name it came under.
IngestRules(p) ==
    /\ pc[p] = "ingest_rules"
    /\ \E name \in NamesOf[job[p].sha] :
          Goto(p, "ingest_rules",
               IF name \in blocked_rules THEN "block_row" ELSE "ingest_lookup")
    /\ UNCHANGED <<registryVars, disk, trash, seen, dest>>

\* Mutant: a purged content counts as unknown.
IngestLookupForgetsPurged(p) ==
    /\ Goto(p, "ingest_lookup",
            IF files[job[p].sha].status \in {"pending", "accepted", "rejected"}
            THEN "ingest_known" ELSE "ingest_choose")
    /\ UNCHANGED <<registryVars, disk, trash, seen, dest>>

\* get_file: known and unknown hashes part here.
IngestLookup(p) ==
    /\ Goto(p, "ingest_lookup",
            IF Known(files[job[p].sha]) THEN "ingest_known" ELSE "ingest_choose")
    /\ UNCHANGED <<registryVars, disk, trash, seen, dest>>

\* Mutant: the recorded file is deleted, not the staged copy.
IngestKnownDeletesRecorded(p) ==
    /\ End(p, "ingest_known", "ok")
    /\ FinalizeKnownIngest(job[p].item, job[p].sha)
    /\ LET path == files[job[p].sha].path IN
       disk' = IF path = NoPath THEN disk ELSE Unlink(disk, path)
    /\ UNCHANGED trash

\* Known hash: the staged copy is deleted, the discard recorded.
IngestKnown(p) ==
    /\ End(p, "ingest_known", "ok")
    /\ FinalizeKnownIngest(job[p].item, job[p].sha)
    /\ UNCHANGED <<disk, trash>>

IngestChoose(p) ==
    /\ Choose(p, "ingest_choose", "pending", "ingest_commit")

\* commit_staging_to_accepted, by rename or by verified copy: either way the
\* content appears under its destination in one step.
IngestCommit(p) ==
    /\ Goto(p, "ingest_commit", "ingest_stat")
    /\ disk' = CopyTo(disk, job[p].sha, dest[p])
    /\ UNCHANGED <<registryVars, trash, seen, dest>>

\* The committed file is sized: an error when it is gone already.
IngestStat(p) ==
    \/ /\ Exists(disk, dest[p])
       /\ Goto(p, "ingest_stat", "ingest_finalize")
       /\ UNCHANGED <<registryVars, disk, trash, seen, dest>>
    \/ /\ ~ Exists(disk, dest[p])
       /\ End(p, "ingest_stat", "error")
       /\ UNCHANGED <<registryVars, disk, trash>>

IngestFinalize(p) ==
    /\ End(p, "ingest_finalize", "ok")
    /\ FinalizeUnknownIngest(job[p].item, job[p].sha, dest[p])
    /\ UNCHANGED <<disk, trash>>

\* Block rule match: four transactions, the row first and its audit row last.
BlockRow(p) ==
    /\ Goto(p, "block_row", "block_index")
    /\ CreateOrUpdateFile(job[p].sha, "rejected", NoPath)
    /\ UNCHANGED <<disk, trash, seen, dest>>

BlockIndex(p) ==
    /\ Goto(p, "block_index", "block_origin")
    /\ UpsertMetadataIndex(job[p].item, job[p].sha)
    /\ UNCHANGED <<disk, trash, seen, dest>>

BlockOrigin(p) ==
    /\ Goto(p, "block_origin", "block_audit")
    /\ UpsertFileOrigin(job[p].item, job[p].sha)
    /\ UNCHANGED <<disk, trash, seen, dest>>

BlockAudit(p) ==
    /\ End(p, "block_audit", "ok")
    /\ AppendAuditEvent(job[p].sha, "rejected")
    /\ UNCHANGED <<disk, trash>>

IngestNext(p) ==
    \/ IngestDrop(p)
    \/ \E i \in Items, c \in Contents :
          IngestPrefilter(p, i, c) \/ IngestHash(p, i, c)
    \/ IngestRules(p)
    \/ IngestLookup(p)
    \/ IngestKnown(p)
    \/ IngestChoose(p)
    \/ IngestCommit(p)
    \/ IngestStat(p)
    \/ IngestFinalize(p)
    \/ BlockRow(p)
    \/ BlockIndex(p)
    \/ BlockOrigin(p)
    \/ BlockAudit(p)

IngestSteps == {"ingest_rules", "ingest_lookup", "ingest_known",
                "ingest_choose", "ingest_commit", "ingest_stat",
                "ingest_finalize",
                "block_row", "block_index", "block_origin", "block_audit"}

=============================================================================
