------------------------ MODULE LibraryImportProofs ------------------------
(***************************************************************************)
(* Proofs about LibraryImport, for any library, chunk size, changes and    *)
(* number of runs: types, that only hashes of this run's files are written *)
(* and all of those that were there throughout, that a dry run tells how   *)
(* many rows are new, and that an advisory row is audited once at most.    *)
(***************************************************************************)
EXTENDS LibraryImport, FiniteSetTheorems, WellFoundedInduction, TLAPS

\* Zenon finds most leaves; the ones about records and arithmetic ask for SMT.
USE Zenon

Commands == {"none", "hash-import", "sync-import"}

RunType == [cmd : Commands, dir : 0..(Dirs + 1), hash : Directory \union {None},
            rows : SUBSET Places, row : Places \union {None}]

-----------------------------------------------------------------------------
(* Rows *)

\* A place is a directory, a name and a content.
LEMMA PlaceParts ==
    ASSUME NEW x \in Places
    PROVE  x[1] \in Walk /\ x[2] \in Names /\ x[3] \in Contents /\ x = <<x[1], x[2], x[3]>>
  BY SMT DEF Places

\* What a directory listing gives are places.
LEMMA ListedIsPlaces ==
    ASSUME NEW d \in Walk, NEW fs \in Directory
    PROVE  /\ Listed(d, fs) \subseteq Places
           /\ \A x \in Listed(d, fs) : x[1] = d /\ fs[x[2]] = x[3]
<1> SUFFICES ASSUME NEW n \in FileNames(fs)
             PROVE  /\ <<d, n, fs[n]>> \in Places
                    /\ <<d, n, fs[n]>>[1] = d /\ fs[<<d, n, fs[n]>>[2]] = <<d, n, fs[n]>>[3]
  BY DEF Listed
<1>1. n \in Names /\ fs[n] \in Contents
  BY DEF FileNames, Directory
<1> QED
  BY <1>1, SMT DEF Places

\* A file that is there is listed.
LEMMA ListedIsAll ==
    ASSUME NEW d \in Walk, NEW fs \in Directory, NEW x \in Places, x[1] = d, fs[x[2]] = x[3]
    PROVE  x \in Listed(d, fs)
<1>1. x[2] \in Names /\ x[3] # None /\ x = <<d, x[2], fs[x[2]]>>
  BY PlaceParts, LibraryImportAssumption
<1> QED
  BY <1>1 DEF Listed, FileNames

\* A directory has finitely many rows.
LEMMA ListedIsFinite ==
    ASSUME NEW d, NEW fs
    PROVE  IsFiniteSet(Listed(d, fs))
<1>1. IsFiniteSet(1..Files)
  <2>1. 1 \in Int /\ Files \in Int
    BY LibraryImportAssumption, SMT
  <2> QED
    BY <2>1, FS_Interval
<1>2. IsFiniteSet(FileNames(fs))
  BY <1>1, FS_Subset DEF FileNames, Names
<1> DEFINE f == [n \in FileNames(fs) |-> <<d, n, fs[n]>>]
<1>3. f \in Surjection(FileNames(fs), Listed(d, fs))
  BY DEF Surjection, Listed
<1> HIDE DEF f
<1> QED
  BY <1>2, <1>3, FS_Surjection

-----------------------------------------------------------------------------
(* Steps *)

\* Each variable is changed by these steps only.
LEMMA Frames ==
    ASSUME [Next]_vars
    PROVE  /\ library' = library \/ LibraryChanges
           /\ imported' = imported \/ InsertChunk
           /\ advisory' = advisory \/ SyncRow
           /\ audited' = audited \/ SyncAudit
           /\ changes' = changes \/ (changes < MaxChanges /\ changes' = changes + 1)
           /\ runs' = runs \/ (runs < MaxRuns /\ runs' = runs + 1)
           /\ \/ during' = during /\ throughout' = throughout
              \/ during' = {} /\ throughout' = {} /\ run' = Idle
              \/ LibraryChanges
              \/ \E cmd \in {"hash-import", "sync-import"} : Begin(cmd)
           /\ \/ run' = run \/ run' = Idle \/ HashDirectory \/ PlanDirectory \/ InsertChunk
              \/ SyncDirectory \/ SyncRow \/ SyncAudit
              \/ \E cmd \in {"hash-import", "sync-import"} : Begin(cmd)
<1> USE DEF Next, LibraryChanges, Begin, HashDirectory, PlanDirectory, InsertChunk, EndHashImport,
       SyncDirectory, SyncRow, SyncAudit, EndSync, Dies, vars
<1>1. library' = library \/ LibraryChanges
  OBVIOUS
<1>2. imported' = imported \/ InsertChunk
  OBVIOUS
<1>3. advisory' = advisory \/ SyncRow
  OBVIOUS
<1>4. audited' = audited \/ SyncAudit
  OBVIOUS
<1>5. changes' = changes \/ (changes < MaxChanges /\ changes' = changes + 1)
  OBVIOUS
<1>6. runs' = runs \/ (runs < MaxRuns /\ runs' = runs + 1)
  OBVIOUS
<1>7. \/ during' = during /\ throughout' = throughout
      \/ during' = {} /\ throughout' = {} /\ run' = Idle
      \/ LibraryChanges
      \/ \E cmd \in {"hash-import", "sync-import"} : Begin(cmd)
  OBVIOUS
<1>8. \/ run' = run \/ run' = Idle \/ HashDirectory \/ PlanDirectory \/ InsertChunk
      \/ SyncDirectory \/ SyncRow \/ SyncAudit
      \/ \E cmd \in {"hash-import", "sync-import"} : Begin(cmd)
  OBVIOUS
<1> QED
  BY <1>1, <1>2, <1>3, <1>4, <1>5, <1>6, <1>7, <1>8

\* What a step does to the parts of the run.
Keeps(cmd, dir, hash, rows, row) ==
    /\ run'.cmd = cmd /\ run'.dir = dir /\ run'.hash = hash
    /\ run'.rows = rows /\ run'.row = row

\* The parts of the run after each step.
LEMMA RunParts ==
    ASSUME run \in RunType
    PROVE  /\ run' = run => Keeps(run.cmd, run.dir, run.hash, run.rows, run.row)
           /\ run' = Idle => Keeps("none", 0, None, {}, None)
           /\ \A cmd : Begin(cmd) => Keeps(cmd, 1, None, {}, None)
           /\ HashDirectory => Keeps(run.cmd, run.dir, lib[run.dir], run.rows, run.row)
           /\ PlanDirectory => Keeps(run.cmd, run.dir + 1, None,
                                     run.rows \union PlanRows(run.dir, run.hash), run.row)
           /\ InsertChunk => Keeps(run.cmd, run.dir, run.hash, AfterChunk(run.rows), run.row)
           /\ SyncDirectory => Keeps(run.cmd, run.dir + 1, run.hash, SyncRows(run.dir), run.row)
           /\ SyncRow => \E x \in run.rows :
                 \/ Keeps(run.cmd, run.dir, run.hash, run.rows \ {x}, run.row) /\ advisory' = advisory
                 \/ /\ Keeps(run.cmd, run.dir, run.hash, run.rows \ {x}, x)
                    /\ x \notin advisory /\ advisory' = advisory \union {x}
           /\ SyncAudit => Keeps(run.cmd, run.dir, run.hash, run.rows, None)
<1> USE DEF Keeps, RunType
<1>1. run' = run => Keeps(run.cmd, run.dir, run.hash, run.rows, run.row)
  OBVIOUS
<1>2. run' = Idle => Keeps("none", 0, None, {}, None)
  BY SMT DEF Idle
<1>3. ASSUME NEW cmd, Begin(cmd) PROVE Keeps(cmd, 1, None, {}, None)
  <2>1. run' = [Idle EXCEPT !.cmd = cmd, !.dir = 1]
    BY <1>3 DEF Begin
  <2> QED
    BY <2>1, SMT DEF Idle
<1>4. HashDirectory => Keeps(run.cmd, run.dir, lib[run.dir], run.rows, run.row)
  BY SMT DEF HashDirectory
<1>5. ASSUME PlanDirectory
      PROVE  Keeps(run.cmd, run.dir + 1, None, run.rows \union PlanRows(run.dir, run.hash), run.row)
  <2> DEFINE new == PlanRows(run.dir, run.hash)
  <2>1. run' = [run EXCEPT !.dir = @ + 1, !.hash = None, !.rows = @ \union new]
    BY <1>5 DEF PlanDirectory
  <2> HIDE DEF new
  <2>2. Keeps(run.cmd, run.dir + 1, None, run.rows \union new, run.row)
    BY <2>1, SMT
  <2> QED
    BY <2>2 DEF new
<1>6. ASSUME InsertChunk
      PROVE  Keeps(run.cmd, run.dir, run.hash, AfterChunk(run.rows), run.row)
  <2> DEFINE rest == AfterChunk(run.rows)
  <2>1. run' = [run EXCEPT !.rows = rest]
    BY <1>6 DEF InsertChunk
  <2> HIDE DEF rest
  <2>2. Keeps(run.cmd, run.dir, run.hash, rest, run.row)
    BY <2>1, SMT
  <2> QED
    BY <2>2 DEF rest
<1>7. ASSUME SyncDirectory
      PROVE  Keeps(run.cmd, run.dir + 1, run.hash, SyncRows(run.dir), run.row)
  <2> DEFINE new == SyncRows(run.dir)
  <2>1. run' = [run EXCEPT !.dir = @ + 1, !.rows = new]
    BY <1>7 DEF SyncDirectory
  <2> HIDE DEF new
  <2>2. Keeps(run.cmd, run.dir + 1, run.hash, new, run.row)
    BY <2>1, SMT
  <2> QED
    BY <2>2 DEF new
<1>8. ASSUME SyncRow
      PROVE  \E x \in run.rows :
                 \/ Keeps(run.cmd, run.dir, run.hash, run.rows \ {x}, run.row) /\ advisory' = advisory
                 \/ /\ Keeps(run.cmd, run.dir, run.hash, run.rows \ {x}, x)
                    /\ x \notin advisory /\ advisory' = advisory \union {x}
  <2>1. PICK x \in run.rows :
            \/ run' = [run EXCEPT !.rows = @ \ {x}] /\ advisory' = advisory
            \/ /\ run' = [run EXCEPT !.rows = @ \ {x}, !.row = x]
               /\ x \notin advisory /\ advisory' = advisory \union {x}
    BY <1>8 DEF SyncRow, RowExists, UpsertExternalHashCache
  <2>2. run' = [run EXCEPT !.rows = @ \ {x}] =>
            Keeps(run.cmd, run.dir, run.hash, run.rows \ {x}, run.row)
    BY SMT
  <2>3. run' = [run EXCEPT !.rows = @ \ {x}, !.row = x] =>
            Keeps(run.cmd, run.dir, run.hash, run.rows \ {x}, x)
    BY SMT
  <2> HIDE DEF Keeps
  <2> QED
    BY <2>1, <2>2, <2>3
<1>9. SyncAudit => Keeps(run.cmd, run.dir, run.hash, run.rows, None)
  BY SMT DEF SyncAudit
<1> HIDE DEF Keeps
<1> QED
  BY <1>1, <1>2, <1>3, <1>4, <1>5, <1>6, <1>7, <1>8, <1>9

-----------------------------------------------------------------------------
(* Types *)

\* The rows planned for a directory are its files, as they were hashed or as they
\* are now, whatever the caches say.
LEMMA PlanIsDirectory ==
    ASSUME NEW d, NEW hash
    PROVE  PlanRows(d, hash) = Listed(d, hash) \/ PlanRows(d, hash) = Listed(d, lib[d])
<1>1. CASE CacheValid(v2[d], hash, lib[d])
  BY <1>1 DEF PlanRows, CacheValid
<1>2. CASE ~ CacheValid(v2[d], hash, lib[d]) /\ v2[d].kind = "missing" /\ CacheValid(v1[d], hash, lib[d])
  <2>1. PlanRows(d, hash) = Backfill(d, v1[d])
    BY <1>2 DEF PlanRows
  <2>2. FileNames(v1[d].files) = FileNames(lib[d])
    BY <1>2 DEF CacheValid, RowsMatch
  <2> QED
    BY <2>1, <2>2 DEF Backfill, Listed
<1>3. CASE ~ CacheValid(v2[d], hash, lib[d]) /\ ~ (v2[d].kind = "missing" /\ CacheValid(v1[d], hash, lib[d]))
  BY <1>3 DEF PlanRows
<1> QED
  BY <1>1, <1>2, <1>3

\* A cache, of whatever kind, has the files of a directory.
LEMMA CacheFiles ==
    ASSUME NEW c \in Cache
    PROVE  c.files \in Directory
<1>1. [n \in Names |-> None] \in Directory
  BY DEF Directory
<1> QED
  BY <1>1, SMT DEF Cache

\* The library stays one, whoever changes it.
LEMMA LibraryTypes ==
    ASSUME TypeOK, [Next]_vars
    PROVE  lib' \in [Walk -> Directory] /\ v1' \in [Walk -> Cache] /\ v2' \in [Walk -> Cache]
<1>1. lib \in [Walk -> Directory] /\ v1 \in [Walk -> Cache] /\ v2 \in [Walk -> Cache]
  BY DEF TypeOK
<1>2. ASSUME NEW d \in Walk, NEW n \in Names, FileChanges(d, n)
      PROVE  lib' \in [Walk -> Directory] /\ v1' \in [Walk -> Cache] /\ v2' \in [Walk -> Cache]
  <2>1. PICK c \in Contents \union {None} : lib' = [lib EXCEPT ![d][n] = c]
    BY <1>2 DEF FileChanges
  <2>2. [lib[d] EXCEPT ![n] = c] \in Directory
    BY <1>1 DEF Directory
  <2>3. lib' \in [Walk -> Directory]
    BY <1>1, <2>1, <2>2
  <2> QED
    BY <1>1, <1>2, <2>3 DEF FileChanges
<1>3. ASSUME NEW d \in Walk, CacheWritten(d)
      PROVE  lib' \in [Walk -> Directory] /\ v1' \in [Walk -> Cache] /\ v2' \in [Walk -> Cache]
  <2>1. [kind |-> "ok", files |-> lib[d]] \in Cache
    <3>1. lib[d] \in Directory
      BY <1>1
    <3> QED
      BY <3>1, SMT DEF Cache
  <2>2. Invalid \in Cache
    BY SMT DEF Cache, Invalid
  <2>3. PICK c \in Cache : (v1' = [v1 EXCEPT ![d] = c] /\ v2' = v2) \/ (v2' = [v2 EXCEPT ![d] = c] /\ v1' = v1)
    BY <1>3, <2>1, <2>2 DEF CacheWritten
  <2>4. v1' \in [Walk -> Cache] /\ v2' \in [Walk -> Cache]
    BY <1>1, <2>3
  <2> QED
    BY <1>1, <1>3, <2>4 DEF CacheWritten
<1>4. CASE library' = library
  BY <1>1, <1>4 DEF library
<1>5. CASE LibraryChanges
  BY <1>2, <1>3, <1>5 DEF LibraryChanges
<1> QED
  BY <1>4, <1>5, Frames

\* The rows of a run are finitely many places.
LEMMA RunTypes ==
    ASSUME TypeOK, IsFiniteSet(run.rows), [Next]_vars
    PROVE  run' \in RunType /\ IsFiniteSet(run'.rows)
<1>1. run \in RunType /\ lib \in [Walk -> Directory] /\ v1 \in [Walk -> Cache]
  BY DEF TypeOK, RunType, Commands
<1>2. run.hash \in Directory \union {None} /\ run.rows \subseteq Places /\ run.row \in Places \union {None}
  BY <1>1, SMT DEF RunType
<1>3. \A d \in Walk : d + 1 \in 0..(Dirs + 1) /\ d \in 0..(Dirs + 1)
  BY LibraryImportAssumption, SMT DEF Walk
<1> USE DEF Keeps
<1>4. CASE run' = run
  BY <1>1, <1>4
<1>5. CASE run' = Idle
  <2>1. Idle \in RunType
    BY LibraryImportAssumption, SMT DEF Idle, RunType, Commands
  <2> QED
    BY <1>1, <1>5, <2>1, RunParts, FS_EmptySet
<1>6. ASSUME NEW cmd \in {"hash-import", "sync-import"}, Begin(cmd)
      PROVE  run' \in RunType /\ IsFiniteSet(run'.rows)
  <2>1. run' = [Idle EXCEPT !.cmd = cmd, !.dir = 1] /\ 1 \in 0..(Dirs + 1)
    BY <1>6, LibraryImportAssumption, SMT DEF Begin
  <2>2. cmd \in Commands
    BY DEF Commands
  <2>3. Idle \in RunType
    BY LibraryImportAssumption, SMT DEF Idle, RunType, Commands
  <2>4. run' \in RunType
    BY <2>1, <2>2, <2>3 DEF RunType
  <2> QED
    BY <1>1, <1>6, <2>4, RunParts, FS_EmptySet
<1>7. CASE HashDirectory
  <2>1. lib[run.dir] \in Directory /\ run' = [run EXCEPT !.hash = lib[run.dir]]
    BY <1>1, <1>7 DEF HashDirectory
  <2>2. run' \in RunType
    BY <1>1, <2>1, SMT DEF RunType
  <2> QED
    BY <1>1, <1>7, <2>2, RunParts
<1>8. CASE PlanDirectory
  <2> DEFINE new == PlanRows(run.dir, run.hash)
  <2>1. run.dir \in Walk /\ run.hash \in Directory
    BY <1>2, <1>8 DEF PlanDirectory
  <2> DEFINE all == run.rows \union new
  <2> DEFINE next == run.dir + 1
  <2>2. new \subseteq Places /\ IsFiniteSet(new)
    <3>1. lib[run.dir] \in Directory
      BY <1>1, <2>1
    <3>2. new = Listed(run.dir, run.hash) \/ new = Listed(run.dir, lib[run.dir])
      BY PlanIsDirectory
    <3> HIDE DEF new
    <3>3. ASSUME NEW fs \in Directory, new = Listed(run.dir, fs)
          PROVE  new \subseteq Places /\ IsFiniteSet(new)
      BY <2>1, <3>3, ListedIsPlaces, ListedIsFinite
    <3> QED
      BY <2>1, <3>1, <3>2, <3>3
  <2>3. run' = [run EXCEPT !.dir = next, !.hash = None, !.rows = all]
    BY <1>8 DEF PlanDirectory
  <2>4. run'.rows = all
    BY <1>1, <1>8, RunParts
  <2> HIDE DEF new
  <2>5. all \in SUBSET Places /\ next \in 0..(Dirs + 1) /\ IsFiniteSet(all)
    BY <1>2, <1>3, <2>1, <2>2, FS_Union
  <2> HIDE DEF all, next
  <2>6. run' \in RunType
    BY <1>1, <2>3, <2>5 DEF RunType
  <2> QED
    BY <2>4, <2>5, <2>6
<1>9. CASE InsertChunk
  <2> DEFINE rest == AfterChunk(run.rows)
  <2>1. rest \in SUBSET run.rows
    BY DEF AfterChunk
  <2>2. run' = [run EXCEPT !.rows = rest]
    BY <1>9 DEF InsertChunk
  <2>3. run'.rows = rest
    BY <1>1, <1>9, RunParts
  <2> HIDE DEF rest
  <2>4. run' \in RunType
    BY <1>1, <2>1, <2>2, SMT DEF RunType
  <2> QED
    BY <2>1, <2>3, <2>4, FS_Subset
<1>10. CASE SyncDirectory
  <2> DEFINE new == SyncRows(run.dir)
  <2>1. run.dir \in Walk
    BY <1>10 DEF SyncDirectory
  <2>2. new \subseteq Places /\ IsFiniteSet(new)
    <3>1. v1[run.dir].files \in Directory /\ lib[run.dir] \in Directory
      BY <1>1, <2>1, CacheFiles
    <3> QED
      BY <2>1, <3>1, ListedIsPlaces, ListedIsFinite DEF SyncRows
  <2> DEFINE next == run.dir + 1
  <2>3. run' = [run EXCEPT !.dir = next, !.rows = new] /\ next \in 0..(Dirs + 1)
    BY <1>3, <1>10, <2>1 DEF SyncDirectory
  <2>4. run'.rows = new
    BY <1>1, <1>10, RunParts
  <2> HIDE DEF new, next
  <2>5. run' \in RunType
    BY <1>1, <2>2, <2>3 DEF RunType
  <2> QED
    BY <2>2, <2>4, <2>5
<1>11. CASE SyncRow
  <2>1. PICK x \in run.rows :
            \/ run' = [run EXCEPT !.rows = run.rows \ {x}]
            \/ run' = [run EXCEPT !.rows = run.rows \ {x}, !.row = x]
    BY <1>11 DEF SyncRow
  <2> DEFINE rest == run.rows \ {x}
  <2>2. x \in Places /\ rest \in SUBSET Places
    BY <1>2
  <2>3. run' = [run EXCEPT !.rows = rest] \/ run' = [run EXCEPT !.rows = rest, !.row = x]
    BY <2>1
  <2> HIDE DEF rest
  <2>5. [run EXCEPT !.rows = rest] \in RunType
    BY <1>1, <2>2, SMT DEF RunType
  <2>6. [run EXCEPT !.rows = rest, !.row = x] \in RunType
    BY <1>1, <2>2 DEF RunType
  <2>4. run'.rows \in SUBSET run.rows
    BY <1>1, <1>11, RunParts
  <2> QED
    BY <2>3, <2>4, <2>5, <2>6, FS_Subset
<1>12. CASE SyncAudit
  <2>1. run' = [run EXCEPT !.row = None]
    BY <1>12 DEF SyncAudit
  <2>2. run' \in RunType
    BY <1>1, <2>1, SMT DEF RunType
  <2> QED
    BY <1>1, <1>12, <2>2, RunParts
<1> QED
  BY <1>4, <1>5, <1>6, <1>7, <1>8, <1>9, <1>10, <1>11, <1>12, Frames

\* What is observed, imported and advised are places and contents.
LEMMA RestTypes ==
    ASSUME TypeOK, IsFiniteSet(run.rows), [Next]_vars
    PROVE  /\ imported' \subseteq Contents /\ advisory' \subseteq Places
           /\ during' \subseteq Places /\ throughout' \subseteq Places
           /\ changes' \in 0..MaxChanges /\ runs' \in 0..MaxRuns
<1>1. run.rows \subseteq Places /\ imported \subseteq Contents /\ advisory \subseteq Places
  BY SMT DEF TypeOK
<1>2. imported' \subseteq Contents
  <2>1. ASSUME InsertChunk PROVE imported' \subseteq Contents
    <3>1. imported' = imported \union {x[3] : x \in Chunk(run.rows)} /\ Chunk(run.rows) \subseteq Places
      BY <1>1, <2>1 DEF InsertChunk, Hashes, Chunk
    <3> QED
      BY <1>1, <3>1, PlaceParts
  <2> QED
    BY <1>1, <2>1, Frames
<1>3. advisory' \subseteq Places
  <2>1. ASSUME SyncRow PROVE advisory' \subseteq Places
    BY <1>1, <2>1 DEF SyncRow, UpsertExternalHashCache
  <2> QED
    BY <1>1, <2>1, Frames
<1>4. during \subseteq Places /\ throughout \subseteq Places
  BY DEF TypeOK
<1>5. during' \subseteq Places /\ throughout' \subseteq Places
  BY <1>4, Frames DEF LibraryChanges, Observe, Begin, Present
<1>6. changes' \in 0..MaxChanges
  <2>1. changes \in 0..MaxChanges /\ MaxChanges \in Nat
    BY LibraryImportAssumption DEF TypeOK
  <2>2. changes' = changes \/ (changes < MaxChanges /\ changes' = changes + 1)
    BY Frames
  <2> QED
    BY <2>1, <2>2, SMT
<1>7. runs' \in 0..MaxRuns
  <2>1. runs \in 0..MaxRuns /\ MaxRuns \in Nat
    BY LibraryImportAssumption DEF TypeOK
  <2>2. runs' = runs \/ (runs < MaxRuns /\ runs' = runs + 1)
    BY Frames
  <2> QED
    BY <2>1, <2>2, SMT
<1> QED
  BY <1>2, <1>3, <1>5, <1>6, <1>7

-----------------------------------------------------------------------------
(* The invariant *)

\* A row is audited once, after it was written, by a sync-import that has just
\* written it; a command that is under way has been counted.
AuditInv ==
    /\ audited \in [Places -> {0, 1}]
    /\ \A x \in Places : audited[x] = 1 => x \in advisory /\ runs # 0
    /\ run.row # None => run.row \in advisory /\ audited[run.row] = 0
    /\ run.row # None => run.cmd # "none"
    /\ run.cmd # "none" => runs # 0

\* What is there is seen by the run under way, and what was there throughout is.
SeenInv ==
    /\ run.cmd # "none" => Present \subseteq during
    /\ throughout \subseteq Present

\* The directory hash of a run is that of files seen in this run, and of all
\* those that are there throughout.
HashInv ==
    run.hash # None =>
       /\ run.cmd = "hash-import" /\ run.dir \in Walk
       /\ Listed(run.dir, run.hash) \subseteq during
       /\ \A x \in throughout : x[1] = run.dir => run.hash[x[2]] = x[3]

\* What was there throughout in a directory behind is imported, or planned.
CompleteInv ==
    run.cmd = "hash-import" =>
       \A x \in throughout : x[1] < run.dir => x[3] \in imported \union Hashes(run.rows)

ImportInv ==
    /\ TypeOK /\ IsFiniteSet(run.rows)
    /\ AuditInv /\ SeenInv /\ HashInv /\ RowsAreCurrent /\ CompleteInv

\* The initial states satisfy the invariant.
LEMMA ImportInit == Init => ImportInv
<1> SUFFICES ASSUME Init PROVE ImportInv
  OBVIOUS
<1>1. lib \in [Walk -> Directory] /\ imported = {} /\ advisory = {} /\ audited = [x \in Places |-> 0]
      /\ run = Idle /\ during = {} /\ throughout = {} /\ changes = 0 /\ runs = 0
  BY DEF Init
<1>2. run.cmd = "none" /\ run.hash = None /\ run.rows = {} /\ run.row = None
  BY <1>1, SMT DEF Idle
<1>3. Missing \in Cache
  BY SMT DEF Missing, Cache
<1>4. v1 \in [Walk -> Cache] /\ v2 \in [Walk -> Cache]
  BY <1>3 DEF Init
<1>5. 0 \in 0..MaxChanges /\ 0 \in 0..MaxRuns
  BY LibraryImportAssumption, SMT
<1>6. Idle \in RunType
  BY LibraryImportAssumption, SMT DEF Idle, RunType, Commands
<1>7. audited \in [Places -> 0..MaxRuns] /\ audited \in [Places -> {0, 1}]
  BY <1>1, <1>5
<1>8. TypeOK
  BY <1>1, <1>4, <1>5, <1>6, <1>7 DEF TypeOK, RunType, Commands
<1>9. IsFiniteSet(run.rows)
  BY <1>2, FS_EmptySet
<1>10. \A x \in Places : audited[x] # 1
  BY <1>1, SMT
<1>11. AuditInv
  BY <1>2, <1>7, <1>10 DEF AuditInv
<1>12. SeenInv /\ HashInv /\ RowsAreCurrent /\ CompleteInv
  BY <1>1, <1>2 DEF SeenInv, HashInv, RowsAreCurrent, CompleteInv
<1> QED
  BY <1>8, <1>9, <1>11, <1>12 DEF ImportInv

\* Runs are counted when they begin, and never less.
LEMMA RunsGrow ==
    ASSUME TypeOK, [Next]_vars
    PROVE  (runs # 0 => runs' # 0) /\ (\A cmd : Begin(cmd) => runs' # 0)
<1>1. runs \in Nat
  BY LibraryImportAssumption, SMT DEF TypeOK
<1>2. runs' = runs \/ runs' = runs + 1
  BY Frames
<1>3. \A cmd : Begin(cmd) => runs' = runs + 1
  BY DEF Begin
<1> QED
  BY <1>1, <1>2, <1>3, SMT

\* A row that sync-import finds written is not audited again, and one it writes
\* has no event yet.
LEMMA AuditStep ==
    ASSUME TypeOK, AuditInv, [Next]_vars
    PROVE  AuditInv'
<1>1. run \in RunType
  BY DEF TypeOK, RunType, Commands
<1> USE DEF Keeps
<1>2. run'.cmd # "none" => runs' # 0
  <2>1. run'.cmd = "none" \/ run'.cmd = run.cmd \/ \E cmd : Begin(cmd)
    BY <1>1, RunParts, Frames
  <2> QED
    BY <2>1, RunsGrow DEF AuditInv
<1>3. run'.row # None => run'.cmd # "none"
  <2>1. ASSUME run'.row # None
        PROVE  run'.cmd = run.cmd /\ (run.row # None \/ SyncRow)
    BY <1>1, <2>1, RunParts, Frames
  <2>2. SyncRow => run.cmd # "none"
    BY DEF SyncRow
  <2> QED
    BY <2>1, <2>2 DEF AuditInv
<1>4. CASE SyncAudit
  <2>1. run.row # None /\ audited' = [audited EXCEPT ![run.row] = @ + 1] /\ run'.row = None
        /\ advisory' = advisory /\ runs' = runs
    BY <1>1, <1>4, RunParts DEF SyncAudit
  <2>2. run.row \in Places /\ audited[run.row] = 0 /\ run.row \in advisory /\ runs # 0
    BY <1>1, <2>1, SMT DEF AuditInv, RunType
  <2>3. audited' = [audited EXCEPT ![run.row] = 1]
    BY <2>1, <2>2, SMT
  <2>4. audited' \in [Places -> {0, 1}]
    BY <2>3 DEF AuditInv
  <2>5. \A x \in Places : audited'[x] = 1 => audited[x] = 1 \/ x = run.row
    BY <2>3 DEF AuditInv
  <2> QED
    BY <1>2, <1>3, <2>1, <2>2, <2>4, <2>5 DEF AuditInv
<1>5. CASE audited' = audited
  <2>1. advisory \subseteq advisory'
    BY Frames DEF SyncRow, UpsertExternalHashCache
  <2>2. \A x \in Places : audited[x] = 1 => x \in advisory' /\ runs' # 0
    BY <2>1, RunsGrow DEF AuditInv
  <2>3. run'.row # None => run'.row \in advisory' /\ audited[run'.row] = 0
    <3> SUFFICES ASSUME run'.row # None PROVE run'.row \in advisory' /\ audited[run'.row] = 0
      OBVIOUS
    <3>1. CASE run'.row = run.row
      BY <2>1, <3>1 DEF AuditInv
    <3>2. CASE run'.row # run.row
      <4>1. SyncRow
        BY <1>1, <3>2, RunParts, Frames
      <4>2. PICK x \in run.rows : run'.row = x /\ x \notin advisory /\ advisory' = advisory \union {x}
        BY <1>1, <3>2, <4>1, RunParts
      <4>3. x \in Places
        BY <1>1, SMT DEF RunType
      <4>4. audited[x] = 0
        BY <4>2, <4>3 DEF AuditInv
      <4> QED
        BY <4>2, <4>4
    <3> QED
      BY <3>1, <3>2
  <2>4. audited' \in [Places -> {0, 1}]
    BY <1>5 DEF AuditInv
  <2> QED
    BY <1>2, <1>3, <1>5, <2>2, <2>3, <2>4 DEF AuditInv
<1> QED
  BY <1>4, <1>5, Frames

\* Types are kept.
LEMMA TypeStep ==
    ASSUME TypeOK, IsFiniteSet(run.rows), AuditInv, [Next]_vars
    PROVE  TypeOK' /\ IsFiniteSet(run'.rows)
<1>1. AuditInv'
  BY AuditStep
<1>2. runs' \in 0..MaxRuns
  BY RestTypes
<1>3. audited' \in [Places -> 0..MaxRuns]
  <2>1. audited' \in [Places -> {0, 1}] /\ \A x \in Places : audited'[x] = 1 => runs' # 0
    BY <1>1 DEF AuditInv
  <2>2. ASSUME NEW x \in Places PROVE audited'[x] \in 0..MaxRuns
    <3>1. audited'[x] \in {0, 1} /\ (audited'[x] = 1 => runs' # 0)
      BY <2>1
    <3> QED
      BY <1>2, <3>1, LibraryImportAssumption, SMT
  <2> QED
    BY <2>1, <2>2
<1> QED
  BY <1>2, <1>3, LibraryTypes, RunTypes, RestTypes DEF TypeOK, RunType, Commands

-----------------------------------------------------------------------------
(* What a run sees *)

\* A change of the library is seen, and what is not there any more was not
\* there throughout; no other step changes what is there.
LEMMA Watching ==
    ASSUME TypeOK, [Next]_vars
    PROVE  \/ /\ run' = run /\ imported' = imported
              /\ during \subseteq during' /\ throughout' \subseteq throughout
              /\ Present' \subseteq during' /\ throughout' \subseteq Present'
           \/ lib' = lib /\ Present' = Present
<1>1. CASE LibraryChanges
  <2>1. run' = run /\ imported' = imported
    BY <1>1 DEF LibraryChanges
  <2>2. Present' = {x \in Places : lib'[x[1]][x[2]] = x[3]}
    BY DEF Present
  <2>3. during' = during \union Present'
    BY <1>1, <2>2 DEF LibraryChanges, Observe
  <2>4. throughout' = {x \in throughout : lib'[x[1]][x[2]] = x[3]}
    BY <1>1 DEF LibraryChanges, Observe
  <2>5. throughout \subseteq Places
    BY DEF TypeOK
  <2> QED
    BY <2>1, <2>2, <2>3, <2>4, <2>5
<1>2. CASE library' = library
  BY <1>2 DEF library, Present
<1> QED
  BY <1>1, <1>2, Frames

\* What was there throughout is at a place.
LEMMA ThroughoutPlaces ==
    ASSUME TypeOK
    PROVE  throughout \subseteq Places /\ run \in RunType /\ lib \in [Walk -> Directory]
  BY DEF TypeOK, RunType, Commands

\* What there is in a directory is there.
LEMMA ListedIsPresent ==
    ASSUME TypeOK, NEW d \in Walk
    PROVE  Listed(d, lib[d]) \subseteq Present
<1> DEFINE fs == lib[d]
<1>1. fs \in Directory
  BY ThroughoutPlaces
<1>2. ASSUME NEW x \in Listed(d, fs) PROVE x \in Places /\ lib[x[1]][x[2]] = x[3]
  <2> HIDE DEF fs
  <2>1. x \in Places /\ x[1] = d /\ fs[x[2]] = x[3]
    BY <1>1, ListedIsPlaces
  <2> QED
    BY <2>1 DEF fs
<1> QED
  BY <1>2 DEF Present

\* The run sees what is there, and what was there throughout is there.
LEMMA SeenStep ==
    ASSUME TypeOK, SeenInv, [Next]_vars
    PROVE  SeenInv'
<1>1. CASE /\ run' = run /\ during \subseteq during' /\ Present' \subseteq during'
           /\ throughout' \subseteq Present'
  BY <1>1 DEF SeenInv
<1>2. CASE lib' = lib /\ Present' = Present
  <2>1. CASE during' = during /\ throughout' = throughout
    <3>1. run'.cmd = "none" \/ run'.cmd = run.cmd \/ \E cmd : Begin(cmd)
      BY ThroughoutPlaces, RunParts, Frames DEF Keeps
    <3>2. (\E cmd : Begin(cmd)) => during' = Present
      BY DEF Begin
    <3> QED
      BY <1>2, <2>1, <3>1, <3>2 DEF SeenInv
  <2>2. CASE during' = {} /\ throughout' = {} /\ run' = Idle
    BY <1>2, <2>2, ThroughoutPlaces, RunParts DEF SeenInv, Keeps
  <2>3. ASSUME NEW cmd, Begin(cmd) PROVE SeenInv'
    BY <1>2, <2>3 DEF SeenInv, Begin
  <2>4. CASE LibraryChanges
    BY <1>2, <2>4 DEF SeenInv, LibraryChanges, Observe, Present
  <2> QED
    BY <2>1, <2>2, <2>3, <2>4, Frames
<1> QED
  BY <1>1, <1>2, Watching

\* Unless the run begins or ends, what it has seen it keeps.
LEMMA SeenGrows ==
    ASSUME TypeOK, [Next]_vars, run'.cmd = "hash-import", ~ Begin("hash-import")
    PROVE  during \subseteq during' /\ throughout' \subseteq throughout
<1>1. CASE during' = {} /\ throughout' = {} /\ run' = Idle
  BY <1>1, ThroughoutPlaces, RunParts DEF Keeps
<1>2. CASE Begin("sync-import")
  BY <1>2, ThroughoutPlaces, RunParts DEF Keeps
<1>3. CASE LibraryChanges
  BY <1>3 DEF LibraryChanges, Observe
<1> QED
  BY <1>1, <1>2, <1>3, Frames

\* The directory hash is taken from what is there, and is kept until the
\* directory is planned.
LEMMA HashStep ==
    ASSUME TypeOK, SeenInv, HashInv, [Next]_vars
    PROVE  HashInv'
<1> SUFFICES ASSUME run'.hash # None
             PROVE  /\ run'.cmd = "hash-import" /\ run'.dir \in Walk
                    /\ Listed(run'.dir, run'.hash) \subseteq during'
                    /\ \A x \in throughout' : x[1] = run'.dir => run'.hash[x[2]] = x[3]
  BY DEF HashInv, Listed, FileNames
<1> USE DEF Keeps
<1>1. CASE HashDirectory
  <2>1. run.cmd = "hash-import" /\ run.dir \in Walk /\ during' = during /\ throughout' = throughout
    BY <1>1 DEF HashDirectory
  <2>2. run'.cmd = run.cmd /\ run'.dir = run.dir /\ run'.hash = lib[run.dir]
    BY <1>1, ThroughoutPlaces, RunParts
  <2>3. Listed(run.dir, lib[run.dir]) \subseteq during
    BY <2>1, ListedIsPresent DEF SeenInv
  <2>4. \A x \in throughout : lib[x[1]][x[2]] = x[3]
    BY DEF SeenInv, Present
  <2> QED
    BY <2>1, <2>2, <2>3, <2>4
<1>2. CASE ~ HashDirectory
  <2>1. run'.hash = run.hash /\ run'.cmd = run.cmd
    BY <1>2, ThroughoutPlaces, RunParts, Frames
  <2>2. run.cmd = "hash-import" /\ run.dir \in Walk
    BY <2>1 DEF HashInv
  <2>3. ~ Begin("hash-import") /\ ~ SyncDirectory
    BY <2>2, ThroughoutPlaces, RunParts DEF SyncDirectory
  <2>4. run'.dir = run.dir
    BY <1>2, <2>3, ThroughoutPlaces, RunParts, Frames
  <2>5. during \subseteq during' /\ throughout' \subseteq throughout
    BY <2>1, <2>2, <2>3, SeenGrows
  <2> QED
    BY <2>1, <2>2, <2>4, <2>5 DEF HashInv
<1> QED
  BY <1>1, <1>2

\* What hash-import plans are files it has seen.
LEMMA RowsStep ==
    ASSUME TypeOK, SeenInv, HashInv, RowsAreCurrent, [Next]_vars
    PROVE  RowsAreCurrent'
<1> SUFFICES ASSUME run'.cmd = "hash-import" PROVE run'.rows \subseteq during'
  BY DEF RowsAreCurrent
<1> USE DEF Keeps
<1>1. CASE Begin("hash-import")
  BY <1>1, ThroughoutPlaces, RunParts
<1>2. CASE ~ Begin("hash-import")
  <2>1. during \subseteq during' /\ run.cmd = "hash-import"
    <3>1. run'.cmd = run.cmd
      BY <1>2, ThroughoutPlaces, RunParts, Frames
    <3> QED
      BY <1>2, <3>1, SeenGrows
  <2>2. run.rows \subseteq during
    BY <2>1 DEF RowsAreCurrent
  <2>3. CASE PlanDirectory
    <3>1. run'.rows = run.rows \union PlanRows(run.dir, run.hash)
      BY <2>3, ThroughoutPlaces, RunParts
    <3>2. run.hash # None /\ run.dir \in Walk
      BY <2>3 DEF PlanDirectory
    <3>3. Listed(run.dir, run.hash) \subseteq during /\ Listed(run.dir, lib[run.dir]) \subseteq during
      BY <2>1, <3>2, ListedIsPresent DEF HashInv, SeenInv
    <3> QED
      BY <2>1, <2>2, <3>1, <3>3, PlanIsDirectory
  <2>4. CASE ~ PlanDirectory
    <3>1. run'.rows \subseteq run.rows \/ SyncDirectory
      BY <1>2, <2>1, <2>4, ThroughoutPlaces, RunParts, Frames DEF AfterChunk
    <3>2. ~ SyncDirectory
      BY <2>1 DEF SyncDirectory
    <3> QED
      BY <2>1, <2>2, <3>1, <3>2
  <2> QED
    BY <2>3, <2>4
<1> QED
  BY <1>1, <1>2

\* Every row is in the chunk or after it.
LEMMA ChunkSplits ==
    ASSUME NEW rows, IsFiniteSet(rows)
    PROVE  rows = Chunk(rows) \union AfterChunk(rows)
<1> SUFFICES ASSUME NEW x \in rows PROVE Index(x, rows) < ChunkSize \/ Index(x, rows) >= ChunkSize
  BY DEF Chunk, AfterChunk
<1>1. IsFiniteSet({y \in rows : Before(y, x)})
  BY FS_Subset
<1>2. Index(x, rows) \in Nat
  BY <1>1, FS_CardinalityType DEF Index
<1> QED
  BY <1>2, LibraryImportAssumption, SMT

\* No file that was there throughout is passed over.
LEMMA CompleteStep ==
    ASSUME TypeOK, IsFiniteSet(run.rows), SeenInv, HashInv, CompleteInv, [Next]_vars
    PROVE  CompleteInv'
<1> SUFFICES ASSUME run'.cmd = "hash-import", NEW x \in throughout', x[1] < run'.dir
             PROVE  x[3] \in imported' \union Hashes(run'.rows)
  BY DEF CompleteInv, Hashes
<1> USE DEF Keeps
<1>1. CASE Begin("hash-import")
  <2>1. run'.dir = 1 /\ x \in Present
    BY <1>1, ThroughoutPlaces, RunParts DEF Begin
  <2>2. x[1] \in 1..Dirs
    BY <2>1, PlaceParts DEF Present, Walk
  <2> QED
    BY <2>1, <2>2, LibraryImportAssumption, SMT
<1>2. CASE ~ Begin("hash-import")
  <2>1. run'.cmd = run.cmd
    BY <1>2, ThroughoutPlaces, RunParts, Frames
  <2>2. x \in throughout /\ x \in Places
    BY <1>2, SeenGrows, ThroughoutPlaces
  <2>3. ~ SyncDirectory /\ ~ SyncRow
    BY <2>1 DEF SyncDirectory, SyncRow
  <2>4. imported \subseteq imported'
    BY Frames DEF InsertChunk
  <2>5. CASE PlanDirectory
    <3>1. run'.rows = run.rows \union PlanRows(run.dir, run.hash) /\ run'.dir = run.dir + 1
      BY <2>5, ThroughoutPlaces, RunParts
    <3>2. run.dir \in Walk /\ run.hash # None
      BY <2>5 DEF PlanDirectory
    <3>3. x[1] \in Walk
      BY <2>2, PlaceParts
    <3>4. x[1] < run.dir \/ x[1] = run.dir
      BY <3>1, <3>2, <3>3, LibraryImportAssumption, SMT DEF Walk
    <3>5. CASE x[1] < run.dir
      BY <2>1, <2>2, <2>4, <3>1, <3>5 DEF CompleteInv, Hashes
    <3>6. CASE x[1] = run.dir
      <4>1. run.hash \in Directory /\ lib[run.dir] \in Directory
        BY <3>2, ThroughoutPlaces, SMT DEF RunType
      <4>2. run.hash[x[2]] = x[3] /\ lib[run.dir][x[2]] = x[3]
        BY <2>2, <3>2, <3>6 DEF HashInv, SeenInv, Present
      <4>3. x \in Listed(run.dir, run.hash) /\ x \in Listed(run.dir, lib[run.dir])
        BY <2>2, <3>2, <3>6, <4>1, <4>2, ListedIsAll
      <4>4. x \in run'.rows
        BY <3>1, <4>3, PlanIsDirectory
      <4> QED
        BY <4>4 DEF Hashes
    <3> QED
      BY <3>4, <3>5, <3>6
  <2>6. CASE InsertChunk
    <3>1. run'.rows = AfterChunk(run.rows) /\ run'.dir = run.dir
      BY <2>6, ThroughoutPlaces, RunParts
    <3>2. imported' = imported \union Hashes(Chunk(run.rows))
      BY <2>6 DEF InsertChunk
    <3>3. x[3] \in imported \union Hashes(run.rows)
      BY <2>1, <2>2, <3>1 DEF CompleteInv
    <3>4. Hashes(run.rows) \subseteq Hashes(Chunk(run.rows)) \union Hashes(AfterChunk(run.rows))
      <4>1. \A y \in run.rows : y \in Chunk(run.rows) \/ y \in AfterChunk(run.rows)
        BY ChunkSplits
      <4> QED
        BY <4>1 DEF Hashes
    <3> QED
      BY <3>1, <3>2, <3>3, <3>4
  <2>7. CASE ~ PlanDirectory /\ ~ InsertChunk
    <3>1. run'.rows = run.rows /\ run'.dir = run.dir
      BY <1>2, <2>1, <2>3, <2>7, ThroughoutPlaces, RunParts, Frames
    <3>2. x[3] \in imported \union Hashes(run.rows)
      BY <2>1, <2>2, <3>1 DEF CompleteInv
    <3> QED
      BY <2>4, <3>1, <3>2
  <2> QED
    BY <2>5, <2>6, <2>7
<1> QED
  BY <1>1, <1>2

\* The invariant is kept by every step.
LEMMA ImportStep == ImportInv /\ [Next]_vars => ImportInv'
<1> SUFFICES ASSUME ImportInv, [Next]_vars PROVE ImportInv'
  OBVIOUS
<1> USE DEF ImportInv
<1>1. TypeOK' /\ IsFiniteSet(run'.rows)
  BY TypeStep
<1>2. AuditInv'
  BY AuditStep
<1>3. SeenInv' /\ HashInv' /\ RowsAreCurrent' /\ CompleteInv'
  BY SeenStep, HashStep, RowsStep, CompleteStep
<1> QED
  BY <1>1, <1>2, <1>3

\* Every behaviour satisfies the invariant.
LEMMA ImportInvariance == Spec => []ImportInv
  BY ImportInit, ImportStep, PTL DEF Spec

-----------------------------------------------------------------------------
(* What a dry run counts *)

\* A set of numbers that is not empty has a least one.
LEMMA LeastNumber ==
    ASSUME NEW T \in SUBSET Nat, T # {}
    PROVE  \E n \in T : \A m \in T : ~ (m < n)
<1>1. PICK n \in T : \A m \in T : ~ (<<m, n>> \in OpToRel(<, Nat))
  BY NatLessThanWellFounded, WFMin
<1>2. \A m \in T : <<m, n>> \in OpToRel(<, Nat) <=> m < n
  BY SMT DEF OpToRel
<1> QED
  BY <1>1, <1>2

\* Places are numbered.
LEMMA PlaceNumbers ==
    ASSUME NEW x \in Places
    PROVE  x[1] \in Nat /\ x[2] \in Nat
<1>1. x[1] \in 1..Dirs /\ x[2] \in 1..Files
  BY PlaceParts DEF Walk, Names
<1> QED
  BY <1>1, LibraryImportAssumption, SMT

\* Among some rows there is a first one in the order of the walk.
LEMMA FirstExists ==
    ASSUME NEW S \in SUBSET Places, S # {}
    PROVE  \E x \in S : \A y \in S : ~ Before(y, x)
<1> DEFINE D == {x[1] : x \in S}
<1>1. D \in SUBSET Nat /\ D # {}
  BY PlaceNumbers
<1> HIDE DEF D
<1>2. PICK d \in D : \A m \in D : ~ (m < d)
  BY <1>1, LeastNumber
<1> DEFINE N == {x[2] : x \in {y \in S : y[1] = d}}
<1>3. N \in SUBSET Nat /\ N # {}
  <2>1. \E x \in S : x[1] = d
    BY DEF D
  <2> QED
    BY <2>1, PlaceNumbers
<1> HIDE DEF N
<1>4. PICK n \in N : \A m \in N : ~ (m < n)
  BY <1>3, LeastNumber
<1>5. PICK x \in S : x[1] = d /\ x[2] = n
  BY DEF N
<1>6. ASSUME NEW y \in S PROVE ~ Before(y, x)
  <2>1. ~ (y[1] < x[1])
    BY <1>2, <1>5 DEF D
  <2>2. y[1] = x[1] => ~ (y[2] < x[2])
    BY <1>4, <1>5 DEF N
  <2> QED
    BY <2>1, <2>2 DEF Before
<1> QED
  BY <1>6

\* Of two rows one is before the other, unless they are in the same place.
LEMMA BeforeIsTotal ==
    ASSUME NEW x \in Places, NEW y \in Places, ~ Before(x, y), ~ Before(y, x), x[3] = y[3]
    PROVE  x = y
<1>1. x[1] \in Nat /\ x[2] \in Nat /\ y[1] \in Nat /\ y[2] \in Nat
  BY PlaceNumbers
<1>2. ~ (x[1] < y[1]) /\ ~ (y[1] < x[1])
  BY DEF Before
<1>3. x[1] = y[1]
  BY <1>1, <1>2, SMT
<1>4. ~ (x[2] < y[2]) /\ ~ (y[2] < x[2])
  BY <1>3 DEF Before
<1>5. x[2] = y[2]
  BY <1>1, <1>4, SMT
<1> QED
  BY <1>3, <1>5, PlaceParts

\* Counting the rows whose hash is new and that of no earlier row counts the
\* new hashes.
LEMMA SimulateCounts ==
    ASSUME NEW rows \in SUBSET Places, IsFiniteSet(rows)
    PROVE  Simulate(rows) = Cardinality(Hashes(rows) \ imported)
<1> DEFINE F == {x \in rows : /\ x[3] \notin KnownExisting(rows)
                              /\ \A y \in rows : Before(y, x) => y[3] # x[3]}
<1> DEFINE H == Hashes(rows) \ imported
<1> DEFINE f == [x \in F |-> x[3]]
<1>1. \A x \in F : x \in rows /\ x \in Places /\ \A y \in rows : Before(y, x) => y[3] # x[3]
  OBVIOUS
<1>2. \A x \in F : x[3] \in H
  BY DEF Hashes, KnownExisting
<1>3. ASSUME NEW x \in F, NEW y \in F, x[3] = y[3] PROVE x = y
  <2>1. ~ Before(x, y) /\ ~ Before(y, x)
    BY <1>1, <1>3
  <2> QED
    BY <1>1, <1>3, <2>1, BeforeIsTotal
<1>4. ASSUME NEW h \in H PROVE \E x \in F : x[3] = h
  <2> DEFINE S == {x \in rows : x[3] = h}
  <2>1. S \in SUBSET Places /\ S # {}
    BY DEF Hashes
  <2>2. PICK x \in S : \A y \in S : ~ Before(y, x)
    BY <2>1, FirstExists
  <2>3. x \in rows /\ x[3] = h /\ x[3] \notin KnownExisting(rows)
    BY DEF KnownExisting
  <2>4. \A y \in rows : Before(y, x) => y[3] # x[3]
    BY <2>2, <2>3
  <2> QED
    BY <2>3, <2>4
<1>5. IsFiniteSet(F)
  BY FS_Subset
<1>6. Simulate(rows) = Cardinality(F)
  BY DEF Simulate
<1> HIDE DEF F, H
<1>7. f \in Bijection(F, H)
  BY <1>2, <1>3, <1>4 DEF Bijection, Injection, Surjection, IsInjective
<1>8. ExistsBijection(F, H)
  BY <1>7 DEF ExistsBijection
<1>9. Cardinality(H) = Cardinality(F)
  BY <1>5, <1>8, FS_Bijection
<1> QED
  BY <1>6, <1>9 DEF H

-----------------------------------------------------------------------------
(* Theorems *)

\* Whatever changes in the library and whenever a command dies, the variables
\* keep their types.
THEOREM ImportTypeCorrectness == Spec => []TypeOK
  BY ImportInvariance, PTL DEF ImportInv

\* hash-import is authoritative: it only writes hashes of files that were in
\* their places during the run.
THEOREM ImportsCurrentRows == Spec => []RowsAreCurrent
  BY ImportInvariance, PTL DEF ImportInv

\* hash-import misses no file that was there throughout.
THEOREM ImportIsComplete == Spec => CompleteAtTheEnd
<1> DEFINE End == run.cmd = "hash-import" /\ run' = Idle /\ run.rows = {} /\ run.dir = Dirs + 1
                    => \A x \in throughout : x[3] \in imported
<1>1. ImportInv /\ [Next]_vars => [End]_vars
  <2> SUFFICES ASSUME ImportInv, run.cmd = "hash-import", run.rows = {}, run.dir = Dirs + 1,
                      NEW x \in throughout
               PROVE  x[3] \in imported
    OBVIOUS
  <2>1. x[1] \in 1..Dirs
    BY ThroughoutPlaces, PlaceParts DEF ImportInv, Walk
  <2>2. x[1] < run.dir
    BY <2>1, LibraryImportAssumption, SMT
  <2> QED
    BY <2>2 DEF ImportInv, CompleteInv, Hashes
<1> HIDE DEF End
<1> QED
  BY ImportInvariance, <1>1, PTL DEF Spec, CompleteAtTheEnd, End

\* hash-import --dry-run reports what the import would add.
THEOREM DryRunIsExact == Spec => []DryRunTells
<1>1. ImportInv => DryRunTells
  <2> SUFFICES ASSUME ImportInv PROVE Simulate(run.rows) = Cardinality(Hashes(run.rows) \ imported)
    BY DEF DryRunTells
  <2>1. run.rows \in SUBSET Places /\ IsFiniteSet(run.rows)
    BY SMT DEF ImportInv, TypeOK
  <2> QED
    BY <2>1, SimulateCounts
<1> QED
  BY ImportInvariance, <1>1, PTL

\* An advisory row has one sync_import event at most, however often sync-import
\* dies between the row and its event and is repeated.
THEOREM AdvisoryAuditedOnce == Spec => []SyncAuditedOnce
<1>1. ImportInv => SyncAuditedOnce
  <2> SUFFICES ASSUME ImportInv, NEW x \in Places
               PROVE  audited[x] <= 1 /\ (audited[x] = 1 => x \in advisory)
    BY DEF SyncAuditedOnce
  <2>1. audited[x] \in {0, 1} /\ (audited[x] = 1 => x \in advisory)
    BY DEF ImportInv, AuditInv
  <2> QED
    BY <2>1, SMT
<1> QED
  BY ImportInvariance, <1>1, PTL
=============================================================================
