--------------------------- MODULE MetricsPoller ---------------------------
(***************************************************************************)
(* The metrics poller (metrics/runner): run_now of poller_runner.py with   *)
(* the collectors, the aggregator and the dashboard generator it calls,    *)
(* publish_metrics and cleanup_runtime_artifacts.                          *)
(*                                                                         *)
(* A run is a sequence of stages that rewrite the files of                 *)
(* artifacts/metrics/latest one after the other, each stage with the HEAD  *)
(* of its moment.  Developers commit meanwhile, stages raise, processes    *)
(* die and the operator publishes or cleans up.  A metrics file is reduced *)
(* to the run it is labelled with, whether its modules failed, and the     *)
(* commit; numbers are left out, and so are status.json and the event log, *)
(* which nothing here reads.  HEAD moves to commits it was not at before.  *)
(***************************************************************************)
EXTENDS Naturals, FiniteSets

CONSTANTS
    Processes,      \* run-now processes
    Timer,          \* the one that the systemd timer starts
    MaxRetries,     \* --max-retries
    MaxHistory,     \* max_history_runs
    MaxCommits,     \* bound: commits
    MaxManual,      \* bound: runs started by hand, and publications
    MaxFaults       \* bound: modules that fail, stages that raise, processes that
                    \* die, and cleanups

ASSUME MetricsPollerAssumption ==
    /\ Timer \in Processes
    /\ MaxRetries \in Nat /\ MaxHistory \in Nat \ {0} /\ MaxCommits \in Nat \ {0}
    /\ MaxManual \in Nat /\ MaxFaults \in Nat

VARIABLES
    head,
    processed,  \* last_processed_commit; 0: no such file
    lock,       \* processes with a lock on the present poller.lock: one or none
    manifest,   \* latest/manifest.json: run (0: no such file), commit, exit_state
    metrics,    \* latest/metrics.json: run, and which modules failed
    summary,    \* latest/summary.json: run and commit
    history,    \* runs with a directory under history/
    data,       \* the generated __data.json: the run and commit of its summary
    pc, attempt, id, commit,    \* of each process: the commit it found at the start
    work,       \* of each process: the commit and the failed modules of its stage
    publishing, \* the publish command: its step, the run and commit it is about,
                \* the run of the data it has committed to the branch, and
                \* whether no run was under way meanwhile (no program variable)
    failed,     \* runs that ended with an exception (no program variable)
    cleaned,    \* there was a cleanup (no program variable)
    nextId, manual, faults

latest == <<manifest, metrics, summary>>
locals == <<pc, attempt, id, commit, work>>
vars == <<head, processed, lock, latest, history, data, locals, publishing, failed, cleaned, nextId, manual, faults>>

Commits == 1..MaxCommits
NoManifest == [run |-> 0, commit |-> 0, ok |-> FALSE]
NoMetrics == [run |-> 0, bad |-> {}]
NoSummary == [run |-> 0, commit |-> 0]
NoWork == [commit |-> 0, bad |-> {}]
NotPublishing == [step |-> "idle", run |-> 0, commit |-> 0, data |-> 0, alone |-> FALSE]

Stages == {"backend", "frontend"}
Steps == {"idle", "read", "metrics_backend", "manifest_backend", "metrics_frontend",
          "manifest_frontend", "aggregate", "summary", "dashboard", "retain", "record",
          "leave"}

TypeOK ==
    /\ head \in Commits /\ processed \in Commits \union {0}
    /\ lock \in SUBSET Processes /\ Cardinality(lock) <= 1
    /\ manifest \in [run : 0..nextId, commit : Commits \union {0}, ok : BOOLEAN]
    /\ metrics \in [run : 0..nextId, bad : SUBSET Stages]
    /\ summary \in [run : 0..nextId, commit : Commits \union {0}]
    /\ history \subseteq 1..nextId
    /\ data \in [run : 0..nextId, commit : Commits \union {0}]
    /\ pc \in [Processes -> Steps] /\ attempt \in [Processes -> 0..(MaxRetries + 1)]
    /\ id \in [Processes -> 0..nextId] /\ commit \in [Processes -> Commits \union {0}]
    /\ work \in [Processes -> [commit : Commits \union {0}, bad : SUBSET Stages]]
    /\ publishing \in [step : {"idle", "validate", "push"}, run : 0..nextId,
                       commit : Commits \union {0}, data : 0..nextId, alone : BOOLEAN]
    /\ failed \subseteq 1..nextId /\ nextId \in Nat
    /\ cleaned \in BOOLEAN /\ manual \in 0..MaxManual /\ faults \in 0..MaxFaults

Init ==
    /\ head = 1 /\ processed = 0 /\ lock = {}
    /\ manifest = NoManifest /\ metrics = NoMetrics /\ summary = NoSummary
    /\ history = {} /\ data = NoSummary
    /\ pc = [p \in Processes |-> "idle"] /\ attempt = [p \in Processes |-> 0]
    /\ id = [p \in Processes |-> 0] /\ commit = [p \in Processes |-> 0]
    /\ work = [p \in Processes |-> NoWork]
    /\ publishing = NotPublishing
    /\ failed = {}
    /\ nextId = 0 /\ cleaned = FALSE /\ manual = 0 /\ faults = 0

-----------------------------------------------------------------------------
(* run_now *)

Goto(p, s) == pc' = [pc EXCEPT ![p] = s]

\* HEAD and last_processed_commit are read before the lock is taken.
Start(p) ==
    /\ pc[p] = "idle" /\ head # processed
    /\ IF p = Timer THEN UNCHANGED manual
                    ELSE manual < MaxManual /\ manual' = manual + 1
    /\ Goto(p, "read")
    /\ commit' = [commit EXCEPT ![p] = head]
    /\ publishing' = [publishing EXCEPT !.alone = FALSE]
    /\ UNCHANGED <<head, processed, lock, latest, history, data, attempt, id, work, failed, cleaned, nextId, faults>>

\* The next attempt gets a run id of its own.
Attempt(p, n) ==
    /\ nextId' = nextId + 1
    /\ id' = [id EXCEPT ![p] = nextId + 1]
    /\ attempt' = [attempt EXCEPT ![p] = n]
    /\ work' = [work EXCEPT ![p] = NoWork]
    /\ Goto(p, "metrics_backend")

\* Mutant: the answer to LOCK_NB is not looked at.
LockIgnored == TRUE

\* flock(LOCK_EX | LOCK_NB) of the present lock file succeeds.
LockFree == lock = {}

TakeLock(p) ==
    /\ pc[p] = "read" /\ LockFree
    /\ lock' = lock \union {p}
    /\ Attempt(p, 1)
    /\ UNCHANGED <<head, processed, latest, history, data, commit, publishing, failed, cleaned, manual, faults>>

Idle(p) ==
    /\ Goto(p, "idle")
    /\ id' = [id EXCEPT ![p] = 0]
    /\ attempt' = [attempt EXCEPT ![p] = 0]
    /\ commit' = [commit EXCEPT ![p] = 0]
    /\ work' = [work EXCEPT ![p] = NoWork]

\* concurrent_run
LockTaken(p) ==
    /\ pc[p] = "read" /\ ~ LockFree
    /\ Idle(p)
    /\ UNCHANGED <<head, processed, lock, latest, history, data, publishing, failed, cleaned, nextId, manual, faults>>

MetricsStep == [backend |-> "metrics_backend", frontend |-> "metrics_frontend"]
ManifestStep == [backend |-> "manifest_backend", frontend |-> "manifest_frontend"]
AfterStep == [backend |-> "metrics_frontend", frontend |-> "aggregate"]

\* _determine_collection_status: the modules that failed
CollectionStatus(s) == {{}, {s}}

\* A collector writes metrics.json, with the other module of whatever run it
\* finds there ...
CollectMetrics(p, s) ==
    /\ pc[p] = MetricsStep[s]
    /\ \E bad \in CollectionStatus(s) :
         /\ faults + Cardinality(bad) <= MaxFaults
         /\ faults' = faults + Cardinality(bad)
         /\ metrics' = [run |-> id[p], bad |-> (metrics.bad \ {s}) \union bad]
         /\ work' = [work EXCEPT ![p] = [commit |-> head, bad |-> bad]]
    /\ history' = history \union {id[p]}
    /\ Goto(p, ManifestStep[s])
    /\ UNCHANGED <<head, processed, lock, manifest, summary, data, attempt, id, commit, publishing, failed, cleaned, nextId, manual>>

\* _build_manifest: a module that is not available is no failure.
Manifest(run, w) == [run |-> run, commit |-> w.commit, ok |-> w.bad = {}]

\* ... and manifest.json after it.
CollectManifest(p, s) ==
    /\ pc[p] = ManifestStep[s]
    /\ manifest' = Manifest(id[p], work[p])
    /\ Goto(p, AfterStep[s])
    /\ work' = [work EXCEPT ![p] = NoWork]
    /\ UNCHANGED <<head, processed, lock, metrics, summary, history, data, attempt, id, commit, publishing, failed, cleaned, nextId, manual, faults>>

\* run_backend_collection and run_frontend_collection
CollectBackend(p) == CollectMetrics(p, "backend") \/ CollectManifest(p, "backend")
CollectFrontend(p) == CollectMetrics(p, "frontend") \/ CollectManifest(p, "frontend")

\* run_optional_collectors and run_aggregation: the manifest and the metrics
\* are labelled with the HEAD of now ...
Aggregate(p) ==
    /\ pc[p] = "aggregate" /\ metrics.run # 0
    /\ LET w == [commit |-> head, bad |-> metrics.bad]
       IN manifest' = Manifest(id[p], w) /\ work' = [work EXCEPT ![p] = w]
    /\ metrics' = [metrics EXCEPT !.run = id[p]]
    /\ history' = history \union {id[p]}
    /\ Goto(p, "summary")
    /\ UNCHANGED <<head, processed, lock, summary, data, attempt, id, commit, publishing, failed, cleaned, nextId, manual, faults>>

\* ... and the summary follows.
Summarise(p) ==
    /\ pc[p] = "summary"
    /\ summary' = [run |-> id[p], commit |-> work[p].commit]
    /\ Goto(p, "dashboard")
    /\ work' = [work EXCEPT ![p] = NoWork]
    /\ UNCHANGED <<head, processed, lock, manifest, metrics, history, data, attempt, id, commit, publishing, failed, cleaned, nextId, manual, faults>>

\* What publish and run_dashboard_generation read
Complete == manifest.run # 0 /\ metrics.run # 0 /\ summary.run # 0

\* _validate_post_collection_outputs passes; run_dashboard_generation
GenerateDashboard(p) ==
    /\ pc[p] = "dashboard" /\ Complete
    /\ data' = summary
    /\ Goto(p, "retain")
    /\ UNCHANGED <<head, processed, lock, latest, history, attempt, id, commit, work, publishing, failed, cleaned, nextId, manual, faults>>

\* Mutant: retention keeps the oldest runs.
RetainedOldest(runs) == {r \in runs : Cardinality({q \in runs : q < r}) < MaxHistory}

\* apply_retention_policy
Retained(runs) == {r \in runs : Cardinality({q \in runs : q > r}) < MaxHistory}

Retain(p) ==
    /\ pc[p] = "retain"
    /\ history' = Retained(history)
    /\ Goto(p, "record")
    /\ UNCHANGED <<head, processed, lock, latest, data, attempt, id, commit, work, publishing, failed, cleaned, nextId, manual, faults>>

\* last_processed_commit is written ...
RecordProcessed(p) ==
    /\ pc[p] = "record"
    /\ processed' = commit[p]
    /\ Goto(p, "leave")
    /\ UNCHANGED <<head, lock, latest, history, data, attempt, id, commit, work, publishing, failed, cleaned, nextId, manual, faults>>

\* ... then the status and the event, which may still raise, and the lock is
\* released.
Finish(p) ==
    /\ pc[p] = "leave"
    /\ lock' = lock \ {p}
    /\ Idle(p)
    /\ UNCHANGED <<head, processed, latest, history, data, publishing, failed, cleaned, nextId, manual, faults>>

Running == {"metrics_backend", "manifest_backend", "metrics_frontend", "manifest_frontend",
            "aggregate", "summary", "dashboard", "retain", "record", "leave"}

\* _write_failure_manifest
FailureManifest(p) == manifest' = [run |-> id[p], commit |-> commit[p], ok |-> FALSE]

\* Mutant: the lock outlives a run whose attempts all failed.
LeaveLocked(p) == Idle(p) /\ UNCHANGED <<lock, nextId>>

\* The last attempt failed: status, and out of the lock
LeaveFailed(p) == Idle(p) /\ lock' = lock \ {p} /\ UNCHANGED nextId

\* The except clause: another attempt, or the run has failed.
Recover(p) ==
    /\ FailureManifest(p)
    /\ history' = history \union {id[p]}
    /\ failed' = failed \union {id[p]}
    /\ \/ /\ attempt[p] <= MaxRetries
          /\ Attempt(p, attempt[p] + 1)
          /\ UNCHANGED <<lock, commit>>
       \/ /\ attempt[p] > MaxRetries
          /\ LeaveFailed(p)
    /\ UNCHANGED <<head, processed, metrics, summary, data, publishing, cleaned, manual>>

\* A stage raises: a tool, the deadline, the checks of the outputs, a write.
StageRaises(p) ==
    /\ pc[p] \in Running /\ faults < MaxFaults
    /\ faults' = faults + 1
    /\ Recover(p)

\* A stage misses a file that was cleaned up.
FileMissing(p) ==
    /\ \/ pc[p] = "aggregate" /\ metrics.run = 0
       \/ pc[p] = "dashboard" /\ ~ Complete
    /\ UNCHANGED faults
    /\ Recover(p)

\* The process dies, and its lock with it.
Dies(p) ==
    /\ pc[p] # "idle" /\ faults < MaxFaults
    /\ faults' = faults + 1
    /\ lock' = lock \ {p}
    /\ Idle(p)
    /\ UNCHANGED <<head, processed, latest, history, data, publishing, failed, cleaned, nextId, manual>>

-----------------------------------------------------------------------------
(* The developers and the operator *)

Commit ==
    /\ head < MaxCommits
    /\ head' = head + 1
    /\ UNCHANGED <<processed, lock, latest, history, data, locals, publishing, failed, cleaned, nextId, manual, faults>>

\* cleanup_runtime_artifacts, of a lock file that is in use too, and of the
\* history when that is asked for
Cleanup ==
    /\ faults < MaxFaults
    /\ faults' = faults + 1
    /\ cleaned' = TRUE
    /\ processed' = 0 /\ lock' = {}
    /\ manifest' = NoManifest /\ metrics' = NoMetrics /\ summary' = NoSummary
    /\ data' = NoSummary
    /\ history' \in {history, {}}
    /\ UNCHANGED <<head, locals, publishing, failed, nextId, manual>>

\* The latest run was a success and has its history.
Publishable == manifest.ok /\ manifest.run \in history

\* publish_metrics: the dashboard data is generated again.
Publish ==
    /\ publishing.step = "idle" /\ manual < MaxManual
    /\ manual' = manual + 1
    /\ Complete /\ Publishable
    /\ data' = summary
    /\ publishing' = [step |-> "validate", run |-> manifest.run, commit |-> manifest.commit, data |-> 0,
                      alone |-> \A p \in Processes : pc[p] = "idle"]
    /\ UNCHANGED <<head, processed, lock, latest, history, locals, failed, cleaned, nextId, faults>>

\* Mutant: the payload is not compared with the run.
PayloadPresent == data.run # 0

\* _validate_publish_payload: the data was generated for this run and commit.
PayloadMatches == data.run = publishing.run /\ data.commit = publishing.commit

\* The files are copied to the worktree and committed; lastPublishedAt makes
\* every publication differ from the one before.
CommitPublication ==
    /\ publishing.step = "validate"
    /\ PayloadMatches
    /\ publishing' = [publishing EXCEPT !.step = "push", !.data = data.run]
    /\ UNCHANGED <<head, processed, lock, latest, history, data, locals, failed, cleaned, nextId, manual, faults>>

\* Publishing is aborted: stale data, no static dashboard, a failed build.
PublishAborts ==
    /\ publishing.step = "validate"
    /\ publishing' = NotPublishing
    /\ UNCHANGED <<head, processed, lock, latest, history, data, locals, failed, cleaned, nextId, manual, faults>>

\* _push_publication_branch; the commit stays if it fails.
Push ==
    /\ publishing.step = "push"
    /\ publishing' = NotPublishing
    /\ UNCHANGED <<head, processed, lock, latest, history, data, locals, failed, cleaned, nextId, manual, faults>>

-----------------------------------------------------------------------------

Advance(p) ==
    \/ TakeLock(p) \/ LockTaken(p)
    \/ CollectBackend(p) \/ CollectFrontend(p)
    \/ Aggregate(p) \/ Summarise(p) \/ GenerateDashboard(p)
    \/ Retain(p) \/ RecordProcessed(p) \/ Finish(p) \/ FileMissing(p)

EndPublish == CommitPublication \/ PublishAborts \/ Push

Next ==
    \/ \E p \in Processes : Start(p) \/ Advance(p) \/ StageRaises(p) \/ Dies(p)
    \/ Commit \/ Cleanup \/ Publish \/ EndPublish

\* The timer fires again and again, and a run that has been started goes on.
Fairness ==
    /\ SF_vars(Start(Timer))
    /\ \A p \in Processes : WF_vars(Advance(p))

Spec == Init /\ [][Next]_vars /\ Fairness

-----------------------------------------------------------------------------

\* What is committed for publication is data of the very run it is published
\* as, and that run did not end with an exception, although runs die or fail
\* between any two of the files they write and the next publish finds the
\* files of several runs side by side.  (publish takes no lock, and a run that
\* fails after publish has read its manifest is published all the same.)
PublishedIsSound ==
    publishing.step = "push" /\ publishing.alone =>
        publishing.data = publishing.run /\ publishing.run \notin failed

\* Retention never takes the history of the run that the latest files show as
\* complete, and publish needs: runs that failed count too, but only older
\* ones go.  (A lock file cleaned up under a run lets runs overlap.)
LatestHasHistory ==
    ~ cleaned /\ Complete /\ manifest.run = summary.run => manifest.run \in history

\* No commit is forgotten: when the commits end, and the errors, HEAD is
\* recorded as processed for good, and the latest metrics are of HEAD although
\* each stage looked HEAD up for itself.  (After a cleanup under a run, a run
\* that was not excluded may leave its summary last.)
HeadIsMeasured == <>[](processed = head /\ (~ cleaned => summary.commit = head))

=============================================================================
