--------------------------- MODULE LibraryImport ---------------------------
(***************************************************************************)
(* Importing the hashes of the permanent library: hash-import              *)
(* (hash_import.py, authoritative SHA-256 values from .hashes.v2) and the  *)
(* deprecated sync-import (sync_import.py, advisory SHA-1 values from      *)
(* .hashes.sha1), with the registry's external_hash_cache.                 *)
(*                                                                         *)
(* The library belongs to others: files and caches change at any moment,   *)
(* also between the steps of an import, which takes a directory at a time. *)
(* A file is its content, which stands for its hashes too, and a changed   *)
(* file has another size or mtime: the directory hash is a function of the *)
(* files.  A process may die between two transactions and be run again.    *)
(***************************************************************************)
EXTENDS Naturals, FiniteSets, TLC

CONSTANTS
    Dirs,           \* number of directories, in the order of the walk
    Files,          \* number of file names in a directory, in sorted order
    Contents,
    ChunkSize,
    MaxChanges,     \* bound: changes of the library
    MaxRuns,        \* bound: import commands
    None

Walk == 1..Dirs
Names == 1..Files
Directory == [Names -> Contents \union {None}]
Places == Walk \X Names \X Contents

ASSUME LibraryImportAssumption ==
    /\ Dirs \in Nat \ {0} /\ Files \in Nat \ {0} /\ ChunkSize \in Nat \ {0}
    /\ MaxChanges \in Nat /\ MaxRuns \in Nat
    /\ None \notin Contents /\ None \notin Directory /\ None \notin Places

VARIABLES
    lib,        \* the files: content by directory and name
    v1, v2,     \* the cache files: what the directory was when they were written
    imported,   \* external_hash_cache: rows of hash-import
    advisory,   \* external_hash_cache: rows of sync-import
    audited,    \* how often each advisory row has a sync_import audit event
    run,        \* the import command under way
    during,     \* files there at some time of the run, and
    throughout, \* files there all the time (no program variables)
    changes, runs

library == <<lib, v1, v2>>
vars == <<library, imported, advisory, audited, run, during, throughout, changes, runs>>

Cache == [kind : {"missing", "invalid"}, files : {[n \in Names |-> None]}]
         \union [kind : {"ok"}, files : Directory]
Missing == [kind |-> "missing", files |-> [n \in Names |-> None]]
Invalid == [kind |-> "invalid", files |-> [n \in Names |-> None]]

Present == {x \in Places : lib[x[1]][x[2]] = x[3]}

Idle == [cmd |-> "none", dir |-> 0, hash |-> None, rows |-> {}, row |-> None]

TypeOK ==
    /\ lib \in [Walk -> Directory] /\ v1 \in [Walk -> Cache] /\ v2 \in [Walk -> Cache]
    /\ imported \subseteq Contents /\ advisory \subseteq Places
    /\ audited \in [Places -> 0..MaxRuns]
    /\ run \in [cmd : {"none", "hash-import", "sync-import"}, dir : 0..(Dirs + 1),
               hash : Directory \union {None}, rows : SUBSET Places, row : Places \union {None}]
    /\ during \subseteq Places /\ throughout \subseteq Places
    /\ changes \in 0..MaxChanges /\ runs \in 0..MaxRuns

Init ==
    /\ lib \in [Walk -> Directory]
    /\ v1 = [d \in Walk |-> Missing] /\ v2 = [d \in Walk |-> Missing]
    /\ imported = {} /\ advisory = {} /\ audited = [x \in Places |-> 0]
    /\ run = Idle
    /\ during = {} /\ throughout = {}
    /\ changes = 0 /\ runs = 0

-----------------------------------------------------------------------------
(* The owners of the library (external) *)

Observe ==
    /\ during' = during \union {x \in Places : lib'[x[1]][x[2]] = x[3]}
    /\ throughout' = {x \in throughout : lib'[x[1]][x[2]] = x[3]}

FileChanges(d, n) ==
    /\ \E c \in (Contents \union {None}) \ {lib[d][n]} : lib' = [lib EXCEPT ![d][n] = c]
    /\ UNCHANGED <<v1, v2>>

CacheWritten(d) ==
    /\ \E c \in {[kind |-> "ok", files |-> lib[d]], Invalid} :
          \/ v1' = [v1 EXCEPT ![d] = c] /\ v2' = v2
          \/ v2' = [v2 EXCEPT ![d] = c] /\ v1' = v1
    /\ UNCHANGED lib

LibraryChanges ==
    /\ changes < MaxChanges
    /\ changes' = changes + 1
    /\ \E d \in Walk : CacheWritten(d) \/ \E n \in Names : FileChanges(d, n)
    /\ Observe
    /\ UNCHANGED <<imported, advisory, audited, run, runs>>

-----------------------------------------------------------------------------
(* Plans: a row is its directory, name and content, and rows are kept in the
   order of the walk and of the names *)

Before(x, y) == x[1] < y[1] \/ (x[1] = y[1] /\ x[2] < y[2])

\* Mutant: a name is listed although it is no file.
ListedAll(d, files) == {<<d, n, files[n]>> : n \in Names}

\* _iter_importable_files, _rehash_directory_rows
FileNames(files) == {n \in Names : files[n] # None}
Listed(d, files) == {<<d, n, files[n]>> : n \in FileNames(files)}

\* _validate_cache_row_path and _validate_required_rows: one row for every file
RowsMatch(cache, files) == FileNames(cache.files) = FileNames(files)

\* Mutant: the DIRECTORY_HASH header is not compared.
CacheNamesFiles(cache, hash, files) == cache.kind = "ok" /\ RowsMatch(cache, files)

\* _parse_hashes_v2_cache and _parse_hashes_v1_cache: well formed, for the
\* directory as it was hashed, and with one row for every file.
CacheValid(cache, hash, files) ==
    /\ cache.kind = "ok"
    /\ cache.files = hash
    /\ RowsMatch(cache, files)

\* _backfill_v2_rows_from_v1: the files the v1 cache names are hashed.
Backfill(d, cache) == {<<d, n, lib[d][n]>> : n \in FileNames(cache.files)}

\* The v2 cache decides if there is one, else the v1 cache.
PlanRows(d, hash) ==
    CASE CacheValid(v2[d], hash, lib[d]) -> Listed(d, v2[d].files)
      [] v2[d].kind = "missing" /\ CacheValid(v1[d], hash, lib[d]) -> Backfill(d, v1[d])
      [] OTHER -> Listed(d, lib[d])

\* sync-import, _parse_hash_cache_file: the directory hash is not compared.
SyncCacheUsed(d) == v1[d].kind = "ok" /\ RowsMatch(v1[d], lib[d])

SyncRows(d) == Listed(d, IF SyncCacheUsed(d) THEN v1[d].files ELSE lib[d])

Hashes(rows) == {x[3] : x \in rows}

\* Mutant: hashes that are new are not remembered.
SimulateForgetful(rows) == Cardinality({x \in rows : x[3] \notin imported})

\* _fetch_existing_hash_import_hashes
KnownExisting(rows) == imported \intersect Hashes(rows)

\* hash-import --dry-run counts a row unless its hash is in simulated_seen:
\* known before, or that of an earlier row.
Simulate(rows) ==
    Cardinality({x \in rows : /\ x[3] \notin KnownExisting(rows)
                              /\ \A y \in rows : Before(y, x) => y[3] # x[3]})

-----------------------------------------------------------------------------
(* hash-import *)

Begin(cmd) ==
    /\ run = Idle /\ runs < MaxRuns
    /\ runs' = runs + 1
    /\ run' = [Idle EXCEPT !.cmd = cmd, !.dir = 1]
    /\ during' = Present /\ throughout' = Present
    /\ UNCHANGED <<library, imported, advisory, audited, changes>>

\* _compute_directory_hash, before the caches are read
HashDirectory ==
    /\ run.cmd = "hash-import" /\ run.dir \in Walk /\ run.hash = None
    /\ run' = [run EXCEPT !.hash = lib[run.dir]]
    /\ UNCHANGED <<library, imported, advisory, audited, during, throughout, changes, runs>>

\* The rest of build_hash_import_directory_plan
PlanDirectory ==
    /\ run.cmd = "hash-import" /\ run.dir \in Walk /\ run.hash # None
    /\ run' = [run EXCEPT !.dir = @ + 1, !.hash = None,
                          !.rows = @ \union PlanRows(run.dir, run.hash)]
    /\ UNCHANGED <<library, imported, advisory, audited, during, throughout, changes, runs>>

\* The place of a row in the list
Index(x, rows) == Cardinality({y \in rows : Before(y, x)})

\* Mutant: what does not fill a chunk is left out.
FullChunk(rows) ==
    IF Cardinality(rows) < ChunkSize THEN {} ELSE {x \in rows : Index(x, rows) < ChunkSize}

Chunk(rows) == {x \in rows : Index(x, rows) < ChunkSize}
AfterChunk(rows) == {x \in rows : Index(x, rows) >= ChunkSize}

\* bulk_insert_hash_import: INSERT OR IGNORE of one chunk, committed
InsertChunk ==
    /\ run.cmd = "hash-import" /\ run.dir = Dirs + 1 /\ run.rows # {}
    /\ imported' = imported \union Hashes(Chunk(run.rows))
    /\ run' = [run EXCEPT !.rows = AfterChunk(@)]
    /\ UNCHANGED <<library, advisory, audited, during, throughout, changes, runs>>

\* The summary; also the end of a dry run, which inserts nothing.
EndHashImport ==
    /\ run.cmd = "hash-import" /\ run.dir = Dirs + 1
    /\ run' = Idle
    /\ during' = {} /\ throughout' = {}
    /\ UNCHANGED <<library, imported, advisory, audited, changes, runs>>

-----------------------------------------------------------------------------
(* sync-import *)

\* build_directory_import_plan; the rows wait to be imported one by one.
SyncDirectory ==
    /\ run.cmd = "sync-import" /\ run.dir \in Walk /\ run.rows = {} /\ run.row = None
    /\ run' = [run EXCEPT !.dir = @ + 1, !.rows = SyncRows(run.dir)]
    /\ UNCHANGED <<library, imported, advisory, audited, during, throughout, changes, runs>>

\* _external_hash_cache_row_exists and upsert_external_hash_cache
RowExists(x) == x \in advisory
UpsertExternalHashCache(x) == advisory' = advisory \union {x}

\* The row whose turn it is
IsFirst(x, rows) == x \in rows /\ \A y \in rows : ~ Before(y, x)

\* Mutant: rows that exist are imported again.
SyncRowAlways ==
    /\ run.cmd = "sync-import" /\ run.row = None
    /\ \E x \in run.rows :
          /\ IsFirst(x, run.rows)
          /\ UpsertExternalHashCache(x)
          /\ run' = [run EXCEPT !.rows = @ \ {x}, !.row = x]
    /\ UNCHANGED <<library, imported, audited, during, throughout, changes, runs>>

\* A row that exists is skipped, another one upserted in a transaction.
SyncRow ==
    /\ run.cmd = "sync-import" /\ run.row = None
    /\ \E x \in run.rows :
          /\ IsFirst(x, run.rows)
          /\ IF RowExists(x)
             THEN run' = [run EXCEPT !.rows = @ \ {x}] /\ UNCHANGED advisory
             ELSE /\ UpsertExternalHashCache(x)
                  /\ run' = [run EXCEPT !.rows = @ \ {x}, !.row = x]
    /\ UNCHANGED <<library, imported, audited, during, throughout, changes, runs>>

\* append_audit_event, in a transaction of its own
SyncAudit ==
    /\ run.row # None
    /\ audited' = [audited EXCEPT ![run.row] = @ + 1]
    /\ run' = [run EXCEPT !.row = None]
    /\ UNCHANGED <<library, imported, advisory, during, throughout, changes, runs>>

EndSync ==
    /\ run.cmd = "sync-import" /\ run.dir = Dirs + 1 /\ run.rows = {} /\ run.row = None
    /\ run' = Idle
    /\ during' = {} /\ throughout' = {}
    /\ UNCHANGED <<library, imported, advisory, audited, changes, runs>>

\* The process dies, or a file vanishes under it: an uncaught exception.
Dies ==
    /\ run # Idle
    /\ run' = Idle
    /\ during' = {} /\ throughout' = {}
    /\ UNCHANGED <<library, imported, advisory, audited, changes, runs>>

Next ==
    \/ LibraryChanges
    \/ Begin("hash-import") \/ HashDirectory \/ PlanDirectory \/ InsertChunk \/ EndHashImport
    \/ Begin("sync-import") \/ SyncDirectory \/ SyncRow \/ SyncAudit \/ EndSync
    \/ Dies

Spec == Init /\ [][Next]_vars

\* Contents are only compared.
Symmetry == Permutations(Contents)

-----------------------------------------------------------------------------

\* "Authoritative": whatever hash-import is about to write is the hash of a
\* file that was in its place during this very run, however the files and
\* the caches change between the directory hash, the cache and the rows.
RowsAreCurrent == run.cmd = "hash-import" => run.rows \subseteq during

\* A hash-import that ends with its summary has imported every file that was
\* there throughout, whatever its cache, the chunk size and earlier runs that
\* died between two chunks.
CompleteAtTheEnd ==
    [][run.cmd = "hash-import" /\ run' = Idle /\ run.rows = {} /\ run.dir = Dirs + 1
         => \A x \in throughout : x[3] \in imported]_vars

\* The count a dry run reports is the number of rows the same import would
\* add: duplicates in the library and hashes imported before count once or
\* not at all.
DryRunTells ==
    run.cmd = "hash-import" /\ run.dir = Dirs + 1 =>
       Simulate(run.rows) = Cardinality(Hashes(run.rows) \ imported)

\* However often sync-import dies and is repeated, a row is audited once at
\* most, and only after it was written.
SyncAuditedOnce ==
    \A x \in Places : audited[x] <= 1 /\ (audited[x] = 1 => x \in advisory)

=============================================================================
