# Verification of nightfall-photo-ingress

TLA+ models of the photo ingress, the TLC runs that check them on small
instances, and TLAPS proofs of the facts that matter most for every instance.
Paths below are relative to the repository; `P/` stands for
`src/nightfall_photo_ingress/`.

## 1. The system

A timer runs `poll`. It walks the OneDrive delta feed of each account, downloads
new photos into a staging directory, hands them page by page to the ingest
engine, and saves its cursor. The engine hashes a staged file, looks it up in an
SQLite registry and either discards it or moves it into the *pending* queue. An
operator then accepts (file moves to `accepted/`), rejects (to `rejected/`) or
purges (file deleted). Files dropped into `trash/` are rejected by
`process-trash`, which a systemd path unit starts. A web API changes the status
of items and maintains block rules. SHA-256 is the identity of a content.

| part | code | state | operations | hard behaviour |
|---|---|---|---|---|
| storage primitives | `P/domain/storage.py` | queue directories | render name, choose free name, rename, copy-verify-unlink | names are tested, not reserved; rename overwrites |
| registry | `P/domain/registry.py` | `files`, `metadata_index`, `file_origins`, `accepted_records`, `audit_log`, `blocked_rules`, pairs, caches | one `BEGIN IMMEDIATE` transaction per method | upserts that ignore the row's status |
| ingest engine | `P/domain/ingest.py` | staged file, journal | `process_batch`, `_process_one`, `replay_interrupted_operations` | crash between move, transaction and journal record |
| journal | `P/domain/journal.py` | JSONL file | append, rotate, read, clear | rotation in the middle of an operation |
| operator commands | `P/reject.py`, `P/cli.py` | – | accept, reject, purge, process-trash | each reads, moves, then writes, in separate steps, with no lock |
| delta traversal | `P/adapters/onedrive/client.py` | cursor, resync marker, incident file | `poll_account_once` | when the cursor may move; limits, cycles, 410, breaker |
| download and retry | same, `retry.py` | `.tmp` and final staging files | `download_candidates`, `download_with_retry`, `_graph_get_json` | two request loops that restart each other; partial files |
| poll scheduling | same, `P/runtime/process_lock.py`, `P/cli.py` | poll lock, singleton locks | `poll_accounts`, `_poll_single_account`, `_cmd_poll` | worker threads, shared run-time budget, a thread failing while others work |
| authentication | `auth.py`, `cache_lock.py` | token cache, pinned identity | acquire, refresh, set-up | two processes on one cache; files rewritten in place |
| batches and live photos | `P/domain/ingest.py`, `P/live_photo.py`, `P/reject.py` | deferred queue, pair rows, terminal events | `process_batch`, reject of a pair | threads finishing in any order; three rows of one pair |
| hash and sync import | `P/hash_import.py`, `P/sync_import.py` | cache files, imported rows | import in chunks | a library that changes meanwhile; restart in the middle |
| web API | `api/` | idempotency keys, rules, audit pairs, thumbnails | triage, block rules, thumbnails, token check | repeated requests; one shared connection; status changed under a running command |
| metrics poller | `metrics/runner/` | lock, latest and history files | `run_now`, publish, cleanup | files of several runs side by side; HEAD moving under a run |
| web UI, tooling | `webui/`, `dev/` | – | – | presentation and tooling |

What correctness means here: bytes that are wanted are never lost; a command
touches no file of another content; a rejected content stays rejected;
the audit log explains every status; the cursor never passes what has not been
dealt with, and gets everywhere in the end; what is in staging under a final
name is whole; recovery is complete and destroys nothing; a request takes effect
once; runs do not overlap where a lock is meant to keep them apart, and end; what
is published is of one run.

## 2. Modules

```
Storage <- Registry <- Process <- Ingest   \
                   \          <- Operator  -> Custody <- MCCustody (TLC)
                    \                            |     <- CustodyProofs (TLAPS)
                     \                        implements ReviewQueue
                      <- IngestJournal <- MCJournal (TLC)
                                       <- IngestJournalProofs (TLAPS)
DeltaPoll     (TLC) <- OneDriveProofs (TLAPS)
Download      (TLC) <- OneDriveProofs (TLAPS)
TokenCache <- PollRun (TLC) <- PollRunProofs (TLAPS)
WebControl    (TLC) <- WebControlProofs (TLAPS)
BatchPairs    (TLC) <- BatchPairsProofs (TLAPS)
LibraryImport (TLC) <- LibraryImportProofs (TLAPS)
MetricsPoller (TLC) <- MetricsPollerProofs (TLAPS)
```

**Storage** – paths (root, rendered name, collision suffix), the disk as a
function from paths to contents, and the primitives. `NamesOf` are the names
rendered for a content: several, because pending and accepted have templates of
their own and copies of one photo come under different file names. Two contents
may share a name (the default template `{yyyy}/{mm}/{original}`), or not
(`UniqueNames`, templates with `{sha8}`).

**Registry** – one operator per transaction. The audit log is reduced to the
status its latest transition row names.

**Process** – the CLI invocations and poll workers. A step is one transaction or
one filesystem call; `seen` is the row a command read and goes on using, `dest`
the name it chose. `process-trash` handles one file per command; a run over
several files is several commands.

**Ingest**, **Operator** – `_process_one`, and `accept_sha256`, `reject_sha256`,
`purge_sha256`, `process_trash` with `_apply_reject` under the last three. A
block rule matches names. The prefilter (`Ingest!PrefilterHit`) may miss an item
whose metadata has changed. An accept that fails between its rename and its
transaction (chmod, fsync, stat) leaves what a crash there leaves.

**Custody** – all of them together with crashes, web triage, changing block
rules and the operator's own moves. `Env` says which of these happen, `Ops` which
commands are in use.

**ReviewQueue** – the abstract promise: which status may follow which, and that
bytes go only while a content is rejected. `Custody!ReviewQueueSpec` maps
`status` to the `files` rows and `kept` to the contents held anywhere on disk.

**IngestJournal** – `_process_one` with its journal records, rotation, crashes,
replay at start-up, and the poll around it reduced to "an item is due until the
cursor passes it". Append with the rotation before it is one step. Operations are
numbered as they start, which is the order in which replay takes them.

**DeltaPoll** – `poll_account_once`. A link is an epoch and a position in the
feed; a link of an expired epoch is answered 410. `fate` records what became of
each event and is no variable of the program. Downloading a page is one step
whose outcomes are those Download shows possible. A repeated link is counted,
the resync marked and the counter reset in three durable writes, which are three
steps: a run that dies after the first leaves a counter above the threshold, and
the next incident still marks the resync. The boundary manifest and the
download lifecycle journal are written and never read by `poll`.

**Download** – one page's candidates: listed with or without size and URL,
resolve loop, download loop, body, publication, `.tmp` recovery, crash. The
clean-up of a partial file may fail, which the code swallows (`CleanUp`).
`torn` (the `.tmp` files left by a crash or such a failure), `requests` and `waited` are observers. Names ending in `.tmp` are left
out: their final name is their temporary name (a hazard listed as not covered).

**TokenCache** – per account the cache file (with the identities signed in) and
the identity pinned beside it, each missing, whole, torn or with loose
permissions. `acquire_access_token` is one step under the cache lock, or the crash
in the middle of it; `auth-setup` is two, because it holds the lock while its user
signs in.

**PollRun** – extends TokenCache: poll invocations that wait for the poll lock,
take the accounts in order or hand them to a pool, take each account's singleton
lock and its token, and poll. Polling an account is one step that ends in one of
the ways DeltaPoll shows. `config` is chosen once: sequential or pool, and which
accounts share a directory (the singleton lock is a file in it). `Tick` is the
run-time budget running out. `Refuse` is an error before the lock. `Leave` releases
the lock; `Report`, a later step, writes the status, so the report of an older run
may overwrite that of a newer one. The file itself is no variable: `outcome` is
what a run is about to report.

**WebControl** – one API process whose handlers run one after another on one
SQLite connection, an explicit transaction on it with what its reads see, and the
other processes that commit between its steps. A triage request is four steps (key
lookup and requested row, change, or compensation, then the cache purge); a block
rule request is one transaction. `effects`, `answered`, `unclosed` and `torn` are
observers. A stored key has an expiry date that no code reads.

**BatchPairs** – `process_batch`: a pool that takes the largest candidate first,
results recorded in the order of the batch, pairs found by the deferred queue,
terminal events; and the commands that act on members of a pair meanwhile, with
the pair branch of `_apply_reject` step by step. Web triage is among them
(`Triage`): it sets a member's status from any to any and does not look at pairs.
`reopened`, the members it has taken out of a rejection, is an observer. With one
worker an exception ends the batch at once (`BrokenOff`), with a pool the others go
on. `poll` passes no heuristics, so
that pairing is used by the tests only.

**LibraryImport** – the library as files that others change at any moment, the
two cache formats, `hash-import` directory by directory and chunk by chunk with
its dry run, and `sync-import` row by row. A list of rows is the set of its rows,
in the order of the walk and of the names. `during` and `throughout` are the files
that existed at some, and at every, moment of the run.

**MetricsPoller** – `run_now` as the sequence of files it writes, each labelled
with the run and the HEAD of its moment; retries, the failure manifest, retention,
the lock, `publish_metrics` and `cleanup_runtime_artifacts`. The end of a run is
three steps (`Retain`, `RecordProcessed`, `Finish`), and a run may raise or die
after it has recorded its commit.

## 3. Runs

Passing runs (TLC explores the whole instance):

| run | instance | shows |
|---|---|---|
| `custody_serial` | 2 contents that share a name, one of them with a second name, 2 items, 3 suffixes, one process, all commands, copies dropped into trash | `TypeOK`; when idle every content is where its status says and no file is stray (`LocationMatchesStatus`), the log names every status (`AuditTellsStatus`); suffixes prevent overwriting (`NoOverwrite`), and a command touches files of its own content only (`OwnFilesOnly`) |
| `custody_crash` | 2 contents with names of their own, one process, all commands, crash between any two steps, accepted and trash on another filesystem | `NothingLost`, and refinement: `ReviewQueueSpec` |
| `custody_race` | 1 content, 2 processes, 2 poll workers, ingest, accept, process-trash and purge, files moved by hand, web triage, block rules | `NothingLost`: only a purge destroys a last copy |
| `delta_poll` | 2 items, 2 events, pages of up to 2, budget 1, 2 pages, thresholds low enough to fire, 3 faults of any kind | `CursorBehindIngest`, `EventuallyDealtWith` |
| `download` | 2 candidates, 3 attempts, 2 runs, both integrity modes, Retry-After below and above the cap | `FinalIsComplete`, `NothingLeftBehind`, `EffortBounded` |
| `ingest_journal` | 2 items that are copies of one photo, journal of 3 records, 2 rounds of changes, 2 crashes | `ReplayIsComplete`, `NothingVanishes`, `PassedIsRecorded`, `EventuallyPassed` |
| `web_control` | 1 item, 2 keys, 2 patterns, 1 rule, 1 write that finds the database locked, 1 crash | `ReplaySafe`: a key changes at most one thing, and every success under it is the same answer; `AuditClosed`: every requested row is closed once; `ThumbnailsSwept`: as long as sweeps are run |
| `poll_run` | 2 accounts, 2 poll processes, sequential and pool, separate and shared directories, 2 identities, 2 set-ups, 1 torn write | `PollingIsCovered`, `SetupHeals`, `OutcomeIsHonest`, `RunsFinish` |
| `library_import` | 2 directories of 2 files, 2 contents, chunks of 2, 2 changes, 2 runs | `RowsAreCurrent`, `CompleteAtTheEnd`, `DryRunTells`, `SyncAuditedOnce` |
| `metrics_poller` | the timer's process and one started by hand, 1 retry, history of 1, 2 commits, 2 faults | `PublishedIsSound`, `LatestHasHistory`, `HeadIsMeasured` |
| `batch_pairs` | 3 candidates of one stem, 2 threads, 2 reject commands, 3 commands (web triage among them), 1 fault | `PairingIsComplete`, `EventsFollowBatch`, `RejectedPairIsRejected` |

Why the bounds are enough to be interesting. Two processes are what every race
in the code needs, because each window lies between two steps of one command.
One content suffices where names are unique, since commands on different
contents then share no path (`DiskOK` in section 4); `custody_serial` and
`custody_crash` use two. Where names are shared, `custody_serial` has the case that
a stale path would need: a name that one content has left and another has taken.
Three suffixes let two contents collide and one move find the next name. In `delta_poll` two events of
the same or different items give one- and two-page traversals, replayed items,
superseded events and a budget cut; three faults give a crash during recovery from
the second of two repeated links; the proof removes the bounds for the safety part. A journal of
three records rotates in the middle of every operation, whose records are four.
In `download`, three attempts leave room for retry, refresh and the last attempt.
In `web_control` two keys and two patterns give a repeated key, a reused key and a
conflicting rule; one locked write is enough to leave the shared transaction open,
after which everything runs on a stale connection. In `poll_run` two processes and
two accounts give a pool with one thread failing while the other polls, a second
run waiting, and a shared singleton lock. In `library_import` the two directories
have two files each and chunks of two end inside and at the end of a directory. In
`metrics_poller` a history of one is the smallest that retention may empty, and
two faults give a death during recovery or a cleanup under a run. Three candidates
of one stem in `batch_pairs` are one more than a pair; the proofs
remove the bounds for the safety properties that section 4 lists.

Symmetry is used for processes and contents that are only compared, and only in
runs without liveness properties. `custody_race` identifies states that differ only
in what no step and no property reads (`WhatStepsRead`). The largest run,
`metrics_poller`, has 1.3 million distinct states; each takes less than three minutes. `TypeOK` is among the properties of every passing run
but `custody_crash`, `custody_race` (whose module is checked in `custody_serial`),
`web_control` and `poll_run`, where it documents the variables.

Deadlock checking is off where the bounds stop the model: all changes made and
all runs used up.

Fairness. `DeltaPoll!FairSpec` asks weak fairness of the poller's own steps (the
timer keeps firing, a running poll goes on) and of the cooldown, which is a time
interval. Faults are bounded by `MaxFaults` and not fair.
`IngestJournal!FairSpec` asks the same of the engine: the unit is started again
after a crash. `WebControl` asks weak fairness of the request in hand (handlers do
not block) and of nothing else. `metricsctl thumbnail-gc` is a command
(`dev/lib/metricsctl.py:387`) that nothing in the repository schedules, although
`design/web/architecture.md:981-985` means it for a timer, so `ThumbnailsSwept` has
as its premise that sweeps are run, and get to their end, again and again. `PollRun` asks it of each
invocation, since the poll lock blocks and is released with its process, and of
the end of `auth-setup`, whose device code expires; starting a poll is not fair.
`MetricsPoller` asks it of a run that has begun, and strong fairness of the
timer's start: the timer fires again and again, but at the moments it fires HEAD
may be processed. The timer has `OnUnitActiveSec` only (`poller_runner.py:279`), so
this supposes that the unit was activated once. Custody, Download, BatchPairs and LibraryImport claim no
liveness.

The run that disagrees with the documentation (TLC finds the behaviour of the
code that contradicts it):

| run | statement | what the code does |
|---|---|---|
| `delta_budget` | `design/architecture/error-taxonomy-and-resilience.md:275`: at the limit processing of the current page completes | the page is cut at the limit and the cursor moves past it |

Further differences between documentation and code met on the way, without a run
of their own:

- `design/architecture/invariants.md:39`: a rejected SHA-256 is never re-entered
  into `pending`. `finalize_unknown_ingest` (`P/domain/registry.py:346`) upserts
  `pending` over a rejection made since the worker's lookup.
- `design/specs/reject.md:11`: rejected files are retained until purged.
  `process-trash` of an accepted file moved into `trash/` deletes the only copy
  (`P/reject.py:245`).
- `error-taxonomy-and-resilience.md:71`: on 410 the cursor is discarded. A marker
  is written that nothing reads; the cursor stays (`client.py:747`).
- `ingest-lifecycle-and-crash-recovery.md:171`: an existing destination means the
  row was not committed. A crash between the transaction and its record makes
  replay set aside the file of a pending row (`P/domain/ingest.py:413`).
- Two concurrent commands that chose the same free name overwrite one another
  under the default template (`error-taxonomy-and-resilience.md:301` says
  suffixing preserves uniqueness). This is why `NothingIsLost`, which is about
  concurrent commands, assumes `UniqueNames`.
- Rejecting an unknown content and a block rule match write status and audit row
  in separate transactions (`invariants.md:77`).
- A reject that died after updating `current_path` cannot be repeated
  (`P/reject.py:67` calls it idempotent).
- An item edited in the cloud takes the origin row of its earlier version, which
  can then no longer be accepted (`design/specs/accept.md:25`).
- A block rule rewrites the row of a known content (`P/domain/ingest.py:95`).
- Accept, reject and purge do not hash what they find under `current_path`
  (`design/specs/accept.md:56` calls it advisory). Under the default template a
  stale one can lead to another content's file: after a crash between purge's
  unlink and its transaction, the repeated purge unlinks whatever content has taken
  the name since, which may be that content's last copy (`design/specs/reject.md:11`).
  Web triage during a command, files moved by hand and a second process give stale
  paths too. `OwnFilesOnly` and, with crashes, `NothingLost` are therefore claimed for
  shared names only of commands that run to their end one at a time.
- `poll` constructs the engine without a journal and nothing in production calls
  the replay, although `ingest-lifecycle-and-crash-recovery.md:158` puts it at
  start-up. IngestJournal models the engine as constructed with a journal.
- The poll lock blocks, where `invariants.md:100` (INV-P01) says it does not.
- `client.py:1988` calls the end of the request loop unreachable; a first 401 on
  the last attempt reaches it. The outcome is the same error, and `Download`
  covers it in `ResolveFails`.
- A triage whose requested row meets a locked database leaves the shared
  connection's transaction open: later writes fail and reads stay at that moment
  until a restart (`design/specs/triage.md:120`). `WebControl` models it (`txn`, `stale`).
- A PATCH with a used key and another payload for the same rule replays the old
  answer. Keys carry an expiry date that nothing reads.
- A zero-byte marker is written also when the source was moved while it was opened
  (`design/web/architecture.md:920`). CLI accept and reject do not purge
  thumbnails (`:975`); the sweep does, except for `.tmp` files left by a crash.
- Two accounts whose caches lie in one directory share its `.runtime.lock`; with
  two workers one account finds it busy and the whole run fails, where
  DEC-20260403-05 (`design/rationale/architecture-decision-log.md`) says the
  account is skipped. With a pool, the first exception decides the outcome and a
  warning may hide another account's error: `degraded` does not say that no account
  failed.
- A run that leaves accounts out because its time is up reports `healthy`
  (`P/cli.py:460`), where `docs/operator/operational-playbook.md:223-224` says
  `degraded` for a partial poll. A token that cannot be acquired or refreshed gives
  `ingest_error`, where the playbook (`:225`), `design/architecture/observability.md:208`
  and `invariants.md:103` (INV-P04) say `auth_failed`. `OutcomeIsHonest` claims what the
  code's states mean, not what these documents say of them. An exception that
  `_cmd_poll` does not catch leaves no status at all.
- The pinned identity is that of the first account signed in, not of the one
  selected. A crash before the chmod of a new cache file leaves a file that every
  start refuses until it is removed.
- `sync-import` never compares the directory hash it reads (`P/sync_import.py:4`),
  and `external_hash_cache` is not consulted by ingest
  (`design/domain-architecture-overview.md:612`).
- A pair rejection that died half way fails when repeated (`P/reject.py:405`;
  `P/reject.py:67` calls it idempotent), and ingesting the members again sets a rejected pair to
  `paired`. Web triage that accepts or defers a member of a rejected pair
  (`api/services/triage_service.py:78`) leaves the pair's row `rejected`;
  `RejectedPairIsRejected` excepts such members (`reopened`). `BatchPairs` assumes one batch at a time: `transition_status` does not
  look at the status it replaces.
- Metrics: `cleanup` removes a lock that is held, so that two runs overlap
  (`metrics/README.md:90`); `publish` takes no lock, and when a run fails after
  `publish` has read its manifest the run is published all the same; a HEAD that
  was moved away and back during a run counts as processed (`:91`). These are the
  conditions `alone`, `cleaned` and "HEAD moves to new commits" of the model. A last
  attempt that raises after it has recorded its commit leaves a failure manifest
  that the timer does not repair, since HEAD counts as processed.

## 4. Proofs

**CustodyProofs** – for any sets of contents, names, items and processes, any
placement of the directories on filesystems, and everything `Env` may contain.

The properties are not inductive: a row's path is right only because of what the
process that wrote it remembered. The inductive invariant `Inv` has one part for
each part of the state. `RowsOK`: every row's path is a name rendered for its
content. `DiskOK`: every file lies under a name rendered for its content.
`ProcsOK`: a process that has chosen a destination, or goes on using a row it
read, holds a name rendered for the content it works on, in the root its step
needs. There is one lemma per transaction, per disk primitive and per action;
`NextInv` combines them. A crash needs no argument of its own, because the
invariant holds between any two steps.

- `TypeCorrectness`: `Spec => []TypeOK`.
- `NothingIsLost`: with `UniqueNames` and pending and accepted on one
  filesystem, `Spec => NothingLost`. A step that overwrites or moves keeps the
  content on disk because source and destination are names of one content. On
  two filesystems the claim fails under concurrency: the unlink that ends a copy
  can remove the last copy when the first was moved to the library meanwhile.

The rest is about commands that run one at a time (`Serial`: at most one
process). The code means the commands to be run so, although nothing enforces it
for the operator commands, and two at a time do break each of these (section 3).
What each theorem says of `Env` is what may happen besides the command.

- `NothingIsOverwritten`: with `Serial`, `Spec => NoOverwrite`, whatever `Env`
  contains. Invariant: the name a command is about to use is still free
  (`NameIsFree`).
- `AuditIsComplete`: with `Serial` and neither crashes nor web triage,
  `Spec => []AuditTellsStatus`. Where status and audit row are two transactions the
  log lags behind by the row the command still owes (`AuditInStep`); a crash there
  is one of the differences of section 3.
- `QueueIsImplemented`: with `UniqueNames`, `Serial` and `EnvIsTame`,
  `Spec => ReviewQueueSpec`, the refinement of ReviewQueue, crashes and any layout
  of filesystems included. `EnvIsTame` excludes web triage, which changes a status
  whatever the file, and files moved by hand, which leave the ingress. The mapping
  needs to know that a command that unlinks has left a copy elsewhere
  (`CommandsOK`); every step is then a step of the queue or a stutter.
- `WantedIsKept`, `PendingAndAcceptedAreKept`: the review queue keeps what is
  pending or accepted, and so does the ingress under the same assumptions.
- `EverythingIsInItsPlace`: with `Serial` and nothing in `Env` but copies dropped
  into trash, `Spec => []LocationMatchesStatus`. The property speaks of idle states
  only. The invariant says that registry and disk agree on all contents but the one
  a command is working on (`AgreesBut`), and for that one how far it has got
  (`KnowsRight`); together they are `LocationOK`.
- `CommandsTouchTheirOwn`: under the same assumptions, `Spec => OwnFilesOnly`, for any
  template. Names say nothing here, since contents may share them: that the path a
  command goes by still leads to its content follows from `LocationOK`
  (`SourceIsOwn`), and that it writes over nothing from `NameIsFree`.
- `NothingIsLostInTurn`: under the same assumptions, `Spec => NothingLost`, without
  `UniqueNames` and for any layout of filesystems, from `TakesItsOwn`: what a command
  takes away is its own content's, and it leaves a copy unless it is a purge.

**IngestJournalProofs** – for any items, contents, journal limit and number of
crashes. Each property has an invariant of its own, on top of `TypeOK` and
`StagedInv`: what is staged for an item is what the service delivers for it, and it
is there when the engine commits.

- `JournalTypeCorrectness`: `Spec => []TypeOK`.
- `CommittedIsKept`: `Spec => NothingVanishes`. A commit takes a free path. Replay
  renames a file over an earlier `.orphaned` one; both have the same rendered name
  (`NamesInv`), so with `UniqueNames` both are the same content. Without it the
  claim fails: the attempt to prove it showed that two photos with one rendered
  name, each interrupted by a crash of its own, leave one `.orphaned` file
  (`P/domain/ingest.py:413`), which is why the property has the condition.
- `CursorPassesRecorded`: `Spec => PassedIsRecorded`. Every due item of a page is
  still in the batch, dropped, in the registry or the one at work (`PageInv`).
- `ReplayCompletes`: `Spec => ReplayIsComplete`. The operations that replay has
  taken are reconciled, and the destination of the one at hand is set aside before
  its staged file is removed (`ReplayInv`). A crash loses `todo` but not the
  journal, so the next replay begins with all of them.

**OneDriveProofs** – DeltaPoll, for every page size, budget, limit and threshold,
every feed and every pattern of faults, and Download, whose names begin with
`Download` or `Fetch` where DeltaPoll has the same ones.

`CursorBehindIngest` alone is not inductive, since the cursor takes its value
from a link obtained earlier. `DeltaInv` says that everything behind the cursor,
the links walked in this run, `next_url` and `delta_link` has been dealt with,
and that while a page is processed all walked links are at or before its start,
so that what the page changes is behind none of them.

- `DeltaTypeCorrectness`: `Spec => []TypeOK`.
- `CursorSafety`: `Spec => []CursorBehindIngest`.

Download, for any page, retry policy, Retry-After values and number of runs:

- `DownloadTypeCorrectness`: `DownloadSpec => []DownloadTypeOK`.
- `OnlyWholeFiles` and `StagingIsClean`: `DownloadSpec => []FinalIsComplete`
  and `DownloadSpec => []NothingLeftBehind`: a `.tmp` file is being written or was left by a
  crash or a failed unlink. What is about to be published is whole or of
  unknown size (`PublishIsWhole`), and one of unknown size goes into quarantine.
- `EffortIsBounded`: `DownloadSpec => []EffortBounded`. `RoundsCounted` says how many
  rounds of attempts a candidate has used up, which follows from the loop it is in and
  whether it has been refused; `DelayIsCapped` is the lemma about `compute_delay`.
  That powers of two are numbers is an assumption here (`BackoffAssumption`): the
  provers have no theory of exponentiation.

**BatchPairsProofs** – `PairRejection`: `Spec => []RejectedPairIsRejected`, for any
candidates, commands and faults. The pair row is written last, from what the
command remembers, so the inductive invariant relates the step of each reject
command to the members: a member it has dealt with is rejected or purged, which no
command undoes, or was taken back by web triage, and the job it works on is the pair
it read. Without the exception for triage the claim is false of the code.

- `EventsAreInOrder`: `Spec => []EventsFollowBatch`, for any number of threads:
  results are final before the first event is written (`EventsInv`).
- `PairingCompleteness`: `Spec => []PairingIsComplete`. Whatever waits or is paired
  was seen before (`PairingInv`), so a newcomer is neither, and it waits only when
  nothing in the queue is eligible. `Nearest` returns an eligible position because a
  set of numbers that is not empty has a least one (`NatMin`).
- `BatchTypeCorrectness`: `Spec => []TypeOK`.

**MetricsPollerProofs** – `PublicationSoundness`: `Spec => []PublishedIsSound`, for
any number of processes, retries, commits and faults, overlapping runs after a
cleanup included. A run id is used by one process and never again after its run
has failed (`IdsAreOwn`), so a manifest that says success is of no failed run
(`ManifestTells`); and while a publication is alone no run can fail
(`PublishAlone`). Neither lock nor retention is needed.
`RetentionSparesLatest`: `Spec => []LatestHasHistory`. Here the lock is needed: while
no cleanup has broken it, one run at a time is under way and has the newest id, which
retention keeps (`HistoryInv`).
`MetricsTypeCorrectness`: `Spec => []TypeOK`, with `ProcessMoves`, what a step of a
process may do to each variable, and `OneLock`.

**PollRunProofs** – for any processes, accounts, pool size and crashes.

- `RunsDoNotOverlap`: `Spec => []PollingIsCovered`. The poll lock is released when a
  run returns, so the argument is that no thread is at work then. The invariant adds
  that only the run that holds the lock has tasks (`RunIsLocked`), that a sequential
  run takes up an account when those before it are done (`InOrder`), that an
  exception is that of an account of this run (`RaisedTells`), and that accounts
  polled at the same time have directories of their own (`OwnDirectories`).
- `StatusIsHonest`: `Spec => OutcomeIsHonest`. The exception that decides the outcome
  is of an account that has it (`OutcomeInv`), a run leaves only when all its
  tasks have ended, and a sequential run touches no account after the one that ended
  it (`InOrder`).
- `SetupRepairs`: `Spec => []SetupHeals`. Until a process dies while it writes there,
  the files of an account that `auth-setup` has completed stay private and whole, and
  the pinned identity stays one of those in the cache (`TokenInv`).

**WebControlProofs** – `KeysTakeEffectOnce`: `Spec => []ReplaySafe`, for any items,
keys, rules, locked writes and crashes. A key is stored if and only if it has taken
effect, and what was answered is what is stored (`KeysTell`), since change and key
are one transaction; and the key that a triage request found unused is still
unused at its transaction, since handlers run one after another (`RequestInHand`).
`EveryRequestIsClosed`: `Spec => []AuditClosed`, by counting: a requested row is
written when a triage request is taken up and closed when it ends.

**LibraryImportProofs** – for any library, chunk size, number of changes and runs.
One invariant, `ImportInv`, carries all five.

- `ImportTypeCorrectness`: `Spec => []TypeOK`; a list of rows is finite.
- `ImportsCurrentRows`: `Spec => []RowsAreCurrent`. The directory hash is compared
  with the cache only after it was taken, so the invariant says of the hash that it is
  that of files seen in this run (`HashInv`). Whatever the caches say, a plan lists
  the directory as it was hashed or as it is (`PlanIsDirectory`).
- `ImportIsComplete`: `Spec => CompleteAtTheEnd`. What was there throughout in a
  directory behind is imported or in the rows to come (`CompleteInv`), and every row
  is in the chunk or after it (`ChunkSplits`).
- `DryRunIsExact`: `Spec => []DryRunTells`. Rows that are the first of a new hash and
  new hashes are in bijection (`SimulateCounts`); that there is a first row is
  `FirstExists`.
- `AdvisoryAuditedOnce`: `Spec => []SyncAuditedOnce`. A row that waits for its event
  is written and has none (`AuditInv`).

The assumptions are those the modules state with `ASSUME`: positive limits, a
at least one name for each content in `NamesOf`, null values outside their sets. TLC evaluates them in every run.

Only model-checked: liveness (`EventuallyDealtWith`, `EventuallyPassed`,
`ThumbnailsSwept`, `RunsFinish`, `HeadIsMeasured`), which is beyond the prover.
Where induction over numbers comes down to a least element of a set, it is proved
from the library's theorem on well-founded relations (`NatMin`, `LeastExists`,
`LeastNumber`).

## 5. Not modelled

- Onboarding and path discovery: interactive, before the first poll.
- The adaptive backpressure of the delta poller and the evaluation of drift;
  `PollRun` lets an account end with the drift warning at any time.
- Schema migrations, backup and pruning of the registry.
- `reconcile_staging_drift`, `cleanup_staging_tmp_files`, and aging and diagnostics
  of the deferred pair queue, which nothing but the tests calls.
- The migration of the legacy identity file.
- Configuration parsing, logging, status file, poll history and the read-only
  pages of the API, which take no decision of the pipeline. The counters that the
  handoff callback adds up in several threads are only printed.
- Two imports at a time: no lock keeps them apart, and `LibraryImport` has one.
- In IngestJournal, a staged file that disappears later than the engine's check of
  it makes the commit raise, which is the model's `Crash`; the audit row that replay
  writes, which records no transition.
- The rate limit of audit rows for refused tokens, whose map is trimmed of expired
  entries only; `RefuseToken` lets the row be written or not.
- The web UI.
- Of the metrics tools: what is measured, the comparison with earlier runs, page
  rendering and the installation of the units.

## 6. Where to go on

1. Staging names that end in `.tmp`, with `cleanup_staging_tmp_files` once it has a
   caller.
2. Two batches at a time in BatchPairs, once `poll` switches pairing on.
3. The optimistic updates of the web UI over WebControl's keys.
