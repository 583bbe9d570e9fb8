--------------------------- MODULE CustodyProofs ---------------------------
(***************************************************************************)
(* Proofs about Custody, for any sets of contents, items and processes.    *)
(*                                                                         *)
(* The inductive invariant says that rows point and processes work only    *)
(* under names a storage template renders for the content concerned, and   *)
(* that files are stored so when the templates tell contents apart.  It    *)
(* has one part for each part of the state.                                *)
(*                                                                         *)
(* The second half is about commands that run one at a time, which is how  *)
(* the code means them to be run (nothing enforces it for the operator     *)
(* commands): no file is overwritten, the audit log tells the status,      *)
(* everything is in its place, and the promise made to the reviewer is     *)
(* kept.  Each of the four adds to the invariant what the one command      *)
(* knows between its steps, and names what may happen besides.             *)
(***************************************************************************)
EXTENDS Custody, TLAPS

\* Steps at which a process has chosen a destination for its content ...
HasDest == {"ingest_commit", "ingest_stat", "ingest_finalize", "accept_move",
            "accept_unlink", "accept_finalize", "unknown_move", "reject_move",
            "reject_path"}

\* ... and steps at which it goes on using the path of the row it read.
HasSource == {"accept_choose", "accept_move", "accept_unlink",
              "accept_finalize", "reject_check", "reject_choose",
              "reject_move", "purge_unlink"}

\* The path is one that is rendered for content c.
Renders(path, c) == path \in Paths /\ path.name \in NamesOf[c]

\* What a process remembers between its steps.
LocalOK(p) ==
    /\ pc[p] # "idle" => job[p].sha \in Contents
    /\ pc[p] \in IngestSteps => job[p].item \in Items
    /\ pc[p] \in HasDest => Renders(dest[p], job[p].sha)
    /\ pc[p] = "unknown_row" /\ dest[p] # NoPath => Renders(dest[p], job[p].sha)
    /\ pc[p] \in HasSource => Renders(seen[p].path, job[p].sha)
    /\ pc[p] \in {"accept_choose", "accept_move", "accept_unlink"}
          => seen[p].path.root = "pending"
    /\ pc[p] = "accept_move" => dest[p].root = "accepted"
    /\ pc[p] = "accept_unlink" => ~ SameDevice("pending", "accepted")
    /\ pc[p] \in {"reject_choose", "reject_move"} => seen[p].path.root # "rejected"
    /\ pc[p] = "reject_move" => dest[p].root = "rejected"
    /\ pc[p] \in {"idle", "unknown_choose"} => dest[p] = NoPath

ProcTypeOK ==
    /\ pc \in [Procs -> Steps]
    /\ job \in [Procs -> Jobs]
    /\ seen \in [Procs -> Row]
    /\ dest \in [Procs -> Paths \union {NoPath}]
    /\ outcome \in [Procs -> Outcomes]

ProcsOK == ProcTypeOK /\ \A p \in Procs : LocalOK(p)

\* Every file is stored under a name rendered for its own content, if no name is
\* rendered for two.
DiskOK ==
    /\ disk \in [Paths -> Contents \union {NoFile}]
    /\ trash \subseteq Contents
    /\ UniqueNames => \A path \in Paths :
                         disk[path] # NoFile => path.name \in NamesOf[disk[path]]

\* Every row points at a name rendered for its own content.
RowsOK ==
    /\ RegistryTypeOK
    /\ \A c \in Contents : files[c].path # NoPath => Renders(files[c].path, c)

Inv == RowsOK /\ DiskOK /\ ProcsOK

\* Zenon finds most leaves; the ones about records and arithmetic ask for SMT.
USE StorageAssumption, RegistryAssumption, ProcessAssumption, Zenon

\* The inductive invariant contains the types.
LEMMA InvTypeOK == Inv => TypeOK
  BY DEF Inv, RowsOK, DiskOK, ProcsOK, ProcTypeOK, TypeOK

\* The empty registry and the empty queue directories satisfy the invariant.
LEMMA InvInit == Init => Inv
<1> SUFFICES ASSUME Init PROVE Inv
  OBVIOUS
<1>1. RowsOK
  BY DEF Init, RegistryInit, RowsOK, RegistryTypeOK, Row, NoRow
<1>2. DiskOK
  BY DEF Init, DiskOK
<1>3. ProcTypeOK
  BY DEF Init, ProcTypeOK, Steps, Jobs, Row, NoRow, Outcomes
<1>4. ASSUME NEW p \in Procs PROVE LocalOK(p)
  BY DEF Init, LocalOK, IngestSteps, HasDest, HasSource
<1>. QED
  BY <1>1, <1>2, <1>3, <1>4 DEF Inv, ProcsOK

-----------------------------------------------------------------------------
(* Parts of the state a step leaves alone *)

\* A step that writes no table keeps the registry's conjuncts.
LEMMA RowsKept == ASSUME RowsOK, UNCHANGED registryVars PROVE RowsOK'
  BY DEF RowsOK, RegistryTypeOK, registryVars

\* A step that touches no file keeps the conjuncts about the disk.
LEMMA DiskKept == ASSUME DiskOK, UNCHANGED <<disk, trash>> PROVE DiskOK'
  BY DEF DiskOK

\* A step of the environment keeps the conjuncts about the processes.
LEMMA ProcsKept == ASSUME ProcsOK, UNCHANGED procVars PROVE ProcsOK'
  BY DEF ProcsOK, ProcTypeOK, LocalOK, procVars

-----------------------------------------------------------------------------
(* Registry transactions *)

\* Writing one files row: the path written must be named after the content.
LEMMA SetRowOK ==
    ASSUME files \in [Contents -> Row],
           \A d \in Contents : files[d].path # NoPath => Renders(files[d].path, d),
           NEW c \in Contents, NEW s \in Statuses \union {"unknown"},
           NEW path \in Paths \union {NoPath},
           path # NoPath => Renders(path, c),
           SetRow(c, s, path)
    PROVE  /\ files' \in [Contents -> Row]
           /\ \A d \in Contents : files'[d].path # NoPath => Renders(files'[d].path, d)
  BY DEF SetRow, Row, Renders

\* Registry.create_or_update_file keeps the registry's conjuncts.
LEMMA CreateOK ==
    ASSUME RowsOK, NEW c \in Contents, NEW path \in Paths \union {NoPath},
           path # NoPath => Renders(path, c),
           CreateOrUpdateFile(c, "rejected", path)
    PROVE  RowsOK'
  BY SetRowOK DEF RowsOK, RegistryTypeOK, CreateOrUpdateFile, Statuses

\* Registry.upsert_metadata_index keeps the registry's conjuncts.
LEMMA IndexOK ==
    ASSUME RowsOK, NEW c \in Contents, NEW i \in Items, UpsertMetadataIndex(i, c)
    PROVE  RowsOK'
  BY DEF RowsOK, RegistryTypeOK, UpsertMetadataIndex

\* Registry.upsert_file_origin keeps the registry's conjuncts.
LEMMA OriginOK ==
    ASSUME RowsOK, NEW c \in Contents, NEW i \in Items, UpsertFileOrigin(i, c)
    PROVE  RowsOK'
  BY DEF RowsOK, RegistryTypeOK, UpsertFileOrigin

\* Registry.append_audit_event keeps the registry's conjuncts.
LEMMA AuditOK ==
    ASSUME RowsOK, NEW c \in Contents, NEW s \in Statuses, AppendAuditEvent(c, s)
    PROVE  RowsOK'
  BY DEF RowsOK, RegistryTypeOK, AppendAuditEvent

\* Registry.finalize_unknown_ingest, whatever row it overwrites.
LEMMA UnknownIngestOK ==
    ASSUME RowsOK, NEW c \in Contents, NEW i \in Items, NEW path \in Paths,
           Renders(path, c), FinalizeUnknownIngest(i, c, path)
    PROVE  RowsOK'
  BY SetRowOK DEF RowsOK, RegistryTypeOK, FinalizeUnknownIngest, Statuses

\* Registry.finalize_known_ingest re-points the item, not the path.
LEMMA KnownIngestOK ==
    ASSUME RowsOK, NEW c \in Contents, NEW i \in Items, FinalizeKnownIngest(i, c)
    PROVE  RowsOK'
  BY DEF RowsOK, RegistryTypeOK, FinalizeKnownIngest

\* Registry.finalize_accept_from_pending with a path named after the content.
LEMMA AcceptedOK ==
    ASSUME RowsOK, NEW c \in Contents, NEW path \in Paths, Renders(path, c),
           FinalizeAcceptFromPending(c, path)
    PROVE  RowsOK'
  BY SetRowOK DEF RowsOK, RegistryTypeOK, FinalizeAcceptFromPending, Statuses

\* Registry.finalize_purge_from_rejected clears the path.
LEMMA PurgedOK ==
    ASSUME RowsOK, NEW c \in Contents, FinalizePurgeFromRejected(c)
    PROVE  RowsOK'
  BY SetRowOK DEF RowsOK, RegistryTypeOK, FinalizePurgeFromRejected, Statuses

\* Registry.update_current_path and clear_current_path.
LEMMA UpdatePathOK ==
    ASSUME RowsOK, NEW c \in Contents, NEW path \in Paths \union {NoPath},
           path # NoPath => Renders(path, c), UpdateCurrentPath(c, path)
    PROVE  RowsOK'
<1>1. files[c].status \in Statuses \union {"unknown"}
  BY DEF RowsOK, RegistryTypeOK, Row
<1>. QED
  BY <1>1, SetRowOK DEF RowsOK, RegistryTypeOK, UpdateCurrentPath

\* Registry.transition_status, from the commands and from web triage.
LEMMA TransitionOK ==
    ASSUME RowsOK, NEW c \in Contents, NEW s \in Statuses, TransitionStatus(c, s)
    PROVE  RowsOK'
<1>1. files[c].path \in Paths \union {NoPath}
  BY DEF RowsOK, RegistryTypeOK, Row
<1>2. files[c].path # NoPath => Renders(files[c].path, c)
  BY DEF RowsOK
<1>. QED
  BY <1>1, <1>2, SetRowOK DEF RowsOK, RegistryTypeOK, TransitionStatus

\* A change of the block rules through the API touches no row.
LEMMA BlockRulesOK ==
    ASSUME RowsOK, NEW rules \in SUBSET Names, SetBlockRules(rules)
    PROVE  RowsOK'
  BY DEF RowsOK, RegistryTypeOK, SetBlockRules

-----------------------------------------------------------------------------
(* Filesystem calls *)

\* With templates that tell contents apart, a file under a name rendered for c
\* is c.
LEMMA OwnFile ==
    ASSUME UniqueNames, DiskOK, NEW c \in Contents, NEW path, Renders(path, c),
           disk[path] # NoFile
    PROVE  disk[path] = c
<1>1. disk[path] \in Contents /\ path.name \in NamesOf[disk[path]] /\ path.name \in NamesOf[c]
  BY DEF DiskOK, Renders
<1>. QED
  BY <1>1 DEF UniqueNames

\* A verified copy put under a name of its own content keeps the disk's conjuncts.
LEMMA CopyOK ==
    ASSUME DiskOK, NEW c \in Contents, NEW dst \in Paths,
           UniqueNames => dst.name \in NamesOf[c],
           disk' = CopyTo(disk, c, dst), trash' \subseteq Contents
    PROVE  DiskOK'
  BY DEF DiskOK, CopyTo

\* Path.unlink keeps the disk's conjuncts.
LEMMA UnlinkOK ==
    ASSUME DiskOK, NEW path \in Paths, disk' = Unlink(disk, path),
           trash' \subseteq Contents
    PROVE  DiskOK'
  BY DEF DiskOK, Unlink

\* Path.replace onto a name of the same content keeps the disk's conjuncts.
LEMMA RenameOK ==
    ASSUME DiskOK, NEW c \in Contents, NEW src, NEW dst, Renders(src, c),
           Renders(dst, c), disk' = Rename(disk, src, dst), trash' = trash
    PROVE  DiskOK'
<1>1. disk' \in [Paths -> Contents \union {NoFile}] /\ disk'[dst] \in {disk[src], NoFile}
      /\ \A path \in Paths \ {dst} : disk'[path] \in {disk[path], NoFile}
  BY DEF DiskOK, Rename, Renders
<1>2. UniqueNames => disk[src] \in {c, NoFile}
  BY OwnFile
<1>. QED
  BY <1>1, <1>2 DEF DiskOK, Renders

-----------------------------------------------------------------------------
(* Process steps *)

\* What a process remembers is its own.
LEMMA UntouchedOK ==
    ASSUME NEW q \in Procs, LocalOK(q), pc'[q] = pc[q], job'[q] = job[q],
           seen'[q] = seen[q], dest'[q] = dest[q]
    PROVE  LocalOK(q)'
  BY DEF LocalOK

\* A command that returns or raises leaves a process with no local state.
LEMMA EndOK ==
    ASSUME ProcsOK, NEW p \in Procs, NEW l \in Steps, NEW r \in Outcomes,
           End(p, l, r)
    PROVE  ProcsOK'
<1>1. ProcTypeOK'
  BY DEF ProcsOK, ProcTypeOK, End, Steps, Row, NoRow, Jobs
<1>2. ASSUME NEW q \in Procs PROVE LocalOK(q)'
  BY DEF ProcsOK, ProcTypeOK, LocalOK, End, IngestSteps, HasDest, HasSource
<1>. QED
  BY <1>1, <1>2 DEF ProcsOK

\* A process goes on to a step that needs nothing it does not know yet.
LEMMA GotoOK ==
    ASSUME ProcsOK, NEW p \in Procs, NEW l \in Steps, NEW m \in Steps,
           Goto(p, l, m), seen' \in [Procs -> Row],
           dest' \in [Procs -> Paths \union {NoPath}],
           \A q \in Procs \ {p} : seen'[q] = seen[q] /\ dest'[q] = dest[q],
           LocalOK(p)'
    PROVE  ProcsOK'
<1>1. ProcTypeOK'
  BY DEF ProcsOK, ProcTypeOK, Goto
<1>2. ASSUME NEW q \in Procs \ {p} PROVE LocalOK(q)'
  <2>1. pc'[q] = pc[q] /\ job'[q] = job[q] /\ LocalOK(q)
    BY DEF ProcsOK, ProcTypeOK, Goto
  <2>. QED
    BY <2>1, UntouchedOK
<1>. QED
  BY <1>1, <1>2 DEF ProcsOK

\* The common case: what the process remembers does not change.
LEMMA GotoKept ==
    ASSUME ProcsOK, NEW p \in Procs, NEW l \in Steps, NEW m \in Steps,
           Goto(p, l, m), UNCHANGED <<seen, dest>>, LocalOK(p)'
    PROVE  ProcsOK'
  BY GotoOK DEF ProcsOK, ProcTypeOK

\* A command that starts holds a row it read and goes to a step of that command.
LEMMA BeginOK ==
    ASSUME ProcsOK, NEW p \in Procs, NEW op \in Commands,
           NEW i \in Items \union {NoContent}, NEW c \in Contents,
           NEW row \in Row, NEW l \in Steps,
           Begin(p, op, i, c, row, l), LocalOK(p)'
    PROVE  ProcsOK'
<1>1. ProcTypeOK'
  BY DEF ProcsOK, ProcTypeOK, Begin, Jobs, Outcomes
<1>2. ASSUME NEW q \in Procs \ {p} PROVE LocalOK(q)'
  <2>1. /\ pc'[q] = pc[q] /\ job'[q] = job[q] /\ seen'[q] = seen[q] /\ dest'[q] = dest[q]
        /\ LocalOK(q)
    BY DEF ProcsOK, ProcTypeOK, Begin
  <2>. QED
    BY <2>1, UntouchedOK
<1>. QED
  BY <1>1, <1>2 DEF ProcsOK

-----------------------------------------------------------------------------
(* The actions *)

\* choose_collision_safe_destination, used by ingest, accept and reject: the path
\* chosen is named after the process's content and lies in the root asked for.
LEMMA ChooseInv ==
    ASSUME Inv, NEW p \in Procs, NEW l, NEW root, NEW m, Choose(p, l, root, m),
           \/ l = "ingest_choose" /\ root = "pending" /\ m = "ingest_commit"
           \/ l = "accept_choose" /\ root = "accepted" /\ m = "accept_move"
           \/ l = "unknown_choose" /\ root = "rejected" /\ m = "unknown_move"
           \/ l = "reject_choose" /\ root = "rejected" /\ m = "reject_move"
    PROVE  Inv'
<1>1. RowsOK'
  BY RowsKept DEF Inv, Choose
<1>2. DiskOK'
  BY DiskKept DEF Inv, Choose
<1>3. l \in Steps /\ m \in Steps
  BY DEF Steps, IngestSteps, OperatorSteps
<1>4. CASE End(p, l, "error")
  <2>1. ProcsOK'
    BY <1>3, <1>4, EndOK DEF Inv, Outcomes
  <2>. QED
    BY <1>1, <1>2, <2>1 DEF Inv
<1>5. CASE \E path \in ChooseDestination(disk, root, job[p].sha) :
              /\ Goto(p, l, m)
              /\ dest' = [dest EXCEPT ![p] = path]
              /\ UNCHANGED seen
  <2>1. PICK path \in Paths :
           /\ path.root = root
           /\ path.name \in NamesOf[job[p].sha]
           /\ Goto(p, l, m)
           /\ dest' = [dest EXCEPT ![p] = path]
           /\ UNCHANGED seen
    BY <1>5 DEF ChooseDestination
  <2>2. LocalOK(p)'
    BY <2>1 DEF Inv, ProcsOK, ProcTypeOK, LocalOK, Goto, Renders, IngestSteps,
                HasDest, HasSource
  <2>3. ProcsOK'
    BY <1>3, <2>1, <2>2, GotoOK DEF Inv, ProcsOK, ProcTypeOK
  <2>. QED
    BY <1>1, <1>2, <2>3 DEF Inv
<1>. QED
  BY <1>4, <1>5 DEF Choose

\* _match_block_rule only decides where _process_one goes on.
LEMMA IngestRulesInv == ASSUME Inv, NEW p \in Procs, IngestRules(p) PROVE Inv'
<1>1. RowsOK'
  BY RowsKept DEF Inv, IngestRules
<1>2. DiskOK'
  BY DiskKept DEF Inv, IngestRules
<1>3. ProcsOK'
  <2>1. LocalOK(p)'
    BY DEF Inv, ProcsOK, ProcTypeOK, LocalOK, Goto, IngestSteps, HasDest,
       HasSource, IngestRules
  <2>. QED
    BY <2>1, GotoKept DEF Inv, IngestRules, Steps, IngestSteps, OperatorSteps
<1>. QED
  BY <1>1, <1>2, <1>3 DEF Inv

\* _process_one's registry lookup only decides where it goes on.
LEMMA IngestLookupInv == ASSUME Inv, NEW p \in Procs, IngestLookup(p) PROVE Inv'
<1>1. RowsOK'
  BY RowsKept DEF Inv, IngestLookup
<1>2. DiskOK'
  BY DiskKept DEF Inv, IngestLookup
<1>3. ProcsOK'
  <2>1. LocalOK(p)'
    BY DEF Inv, ProcsOK, ProcTypeOK, LocalOK, Goto, IngestSteps, HasDest,
       HasSource, IngestLookup
  <2>. QED
    BY <2>1, GotoKept DEF Inv, IngestLookup, Steps, IngestSteps, OperatorSteps
<1>. QED
  BY <1>1, <1>2, <1>3 DEF Inv

\* The discard of a known hash keeps the invariant.
LEMMA IngestKnownInv == ASSUME Inv, NEW p \in Procs, IngestKnown(p) PROVE Inv'
<1>1. RowsOK'
  <2>1. job[p].sha \in Contents /\ job[p].item \in Items
    BY DEF Inv, ProcsOK, LocalOK, IngestSteps, IngestKnown, End
  <2>. QED
    BY <2>1, KnownIngestOK DEF Inv, IngestKnown
<1>2. DiskOK'
  BY DiskKept DEF Inv, IngestKnown
<1>3. ProcsOK'
  BY EndOK DEF Inv, IngestKnown, Outcomes, Steps, IngestSteps, OperatorSteps
<1>. QED
  BY <1>1, <1>2, <1>3 DEF Inv

\* _process_one chooses a name in pending/.
LEMMA IngestChooseInv == ASSUME Inv, NEW p \in Procs, IngestChoose(p) PROVE Inv'
  BY ChooseInv DEF IngestChoose

\* commit_staging_to_accepted puts the content under the name chosen for it.
LEMMA IngestCommitInv == ASSUME Inv, NEW p \in Procs, IngestCommit(p) PROVE Inv'
<1>1. RowsOK'
  BY RowsKept DEF Inv, IngestCommit
<1>2. DiskOK'
  <2>1. job[p].sha \in Contents /\ Renders(dest[p], job[p].sha)
    BY DEF Inv, ProcsOK, LocalOK, HasDest, IngestCommit, Goto
  <2>. QED
    BY <2>1, CopyOK DEF Inv, DiskOK, IngestCommit, Renders
<1>3. ProcsOK'
  <2>1. LocalOK(p)'
    BY DEF Inv, ProcsOK, ProcTypeOK, LocalOK, Goto, IngestSteps, HasDest,
       HasSource, IngestCommit
  <2>. QED
    BY <2>1, GotoKept DEF Inv, IngestCommit, Steps, IngestSteps, OperatorSteps
<1>. QED
  BY <1>1, <1>2, <1>3 DEF Inv

\* The stat of the committed file keeps the invariant, error or not.
LEMMA IngestStatInv == ASSUME Inv, NEW p \in Procs, IngestStat(p) PROVE Inv'
<1>1. RowsOK'
  BY RowsKept DEF Inv, IngestStat
<1>2. DiskOK'
  BY DiskKept DEF Inv, IngestStat
<1>3. ProcsOK'
  <2>1. CASE End(p, "ingest_stat", "error")
    BY <2>1, EndOK DEF Inv, Outcomes, Steps, IngestSteps
  <2>2. CASE Goto(p, "ingest_stat", "ingest_finalize") /\ UNCHANGED <<seen, dest>>
    <3>1. LocalOK(p)'
      BY <2>2 DEF Inv, ProcsOK, ProcTypeOK, LocalOK, Goto, IngestSteps, HasDest,
         HasSource
    <3>. QED
      BY <2>2, <3>1, GotoKept DEF Inv, Steps, IngestSteps
  <2>. QED
    BY <2>1, <2>2 DEF IngestStat
<1>. QED
  BY <1>1, <1>2, <1>3 DEF Inv

\* The pending row gets the path the worker committed to.
LEMMA IngestFinalizeInv == ASSUME Inv, NEW p \in Procs, IngestFinalize(p) PROVE Inv'
<1>1. RowsOK'
  <2>1. /\ job[p].sha \in Contents /\ job[p].item \in Items
        /\ Renders(dest[p], job[p].sha)
    BY DEF Inv, ProcsOK, LocalOK, IngestSteps, HasDest, IngestFinalize, End
  <2>. QED
    BY <2>1, UnknownIngestOK DEF Inv, IngestFinalize, Renders
<1>2. DiskOK'
  BY DiskKept DEF Inv, IngestFinalize
<1>3. ProcsOK'
  BY EndOK DEF Inv, IngestFinalize, Outcomes, Steps, IngestSteps, OperatorSteps
<1>. QED
  BY <1>1, <1>2, <1>3 DEF Inv

\* A block rule match writes a rejected row without a path.
LEMMA BlockRowInv == ASSUME Inv, NEW p \in Procs, BlockRow(p) PROVE Inv'
<1>1. RowsOK'
  <2>1. job[p].sha \in Contents
    BY DEF Inv, ProcsOK, LocalOK, BlockRow, Goto
  <2>. QED
    BY <2>1, CreateOK DEF Inv, BlockRow
<1>2. DiskOK'
  BY DiskKept DEF Inv, BlockRow
<1>3. ProcsOK'
  <2>1. LocalOK(p)'
    BY DEF Inv, ProcsOK, ProcTypeOK, LocalOK, Goto, IngestSteps, HasDest,
       HasSource, BlockRow
  <2>. QED
    BY <2>1, GotoKept DEF Inv, BlockRow, Steps, IngestSteps, OperatorSteps
<1>. QED
  BY <1>1, <1>2, <1>3 DEF Inv

\* The second transaction of a block rule match.
LEMMA BlockIndexInv == ASSUME Inv, NEW p \in Procs, BlockIndex(p) PROVE Inv'
<1>1. RowsOK'
  <2>1. job[p].sha \in Contents /\ job[p].item \in Items
    BY DEF Inv, ProcsOK, LocalOK, IngestSteps, BlockIndex, Goto
  <2>. QED
    BY <2>1, IndexOK DEF Inv, BlockIndex
<1>2. DiskOK'
  BY DiskKept DEF Inv, BlockIndex
<1>3. ProcsOK'
  <2>1. LocalOK(p)'
    BY DEF Inv, ProcsOK, ProcTypeOK, LocalOK, Goto, IngestSteps, HasDest,
       HasSource, BlockIndex
  <2>. QED
    BY <2>1, GotoKept DEF Inv, BlockIndex, Steps, IngestSteps, OperatorSteps
<1>. QED
  BY <1>1, <1>2, <1>3 DEF Inv

\* The third transaction of a block rule match.
LEMMA BlockOriginInv == ASSUME Inv, NEW p \in Procs, BlockOrigin(p) PROVE Inv'
<1>1. RowsOK'
  <2>1. job[p].sha \in Contents /\ job[p].item \in Items
    BY DEF Inv, ProcsOK, LocalOK, IngestSteps, BlockOrigin, Goto
  <2>. QED
    BY <2>1, OriginOK DEF Inv, BlockOrigin
<1>2. DiskOK'
  BY DiskKept DEF Inv, BlockOrigin
<1>3. ProcsOK'
  <2>1. LocalOK(p)'
    BY DEF Inv, ProcsOK, ProcTypeOK, LocalOK, Goto, IngestSteps, HasDest,
       HasSource, BlockOrigin
  <2>. QED
    BY <2>1, GotoKept DEF Inv, BlockOrigin, Steps, IngestSteps, OperatorSteps
<1>. QED
  BY <1>1, <1>2, <1>3 DEF Inv

\* The last transaction of a block rule match.
LEMMA BlockAuditInv == ASSUME Inv, NEW p \in Procs, BlockAudit(p) PROVE Inv'
<1>1. RowsOK'
  <2>1. job[p].sha \in Contents
    BY DEF Inv, ProcsOK, LocalOK, BlockAudit, End
  <2>. QED
    BY <2>1, AuditOK DEF Inv, BlockAudit, Statuses
<1>2. DiskOK'
  BY DiskKept DEF Inv, BlockAudit
<1>3. ProcsOK'
  BY EndOK DEF Inv, BlockAudit, Outcomes, Steps, IngestSteps, OperatorSteps
<1>. QED
  BY <1>1, <1>2, <1>3 DEF Inv

\* accept_sha256 chooses a name in accepted/.
LEMMA AcceptChooseInv == ASSUME Inv, NEW p \in Procs, AcceptChoose(p) PROVE Inv'
  BY ChooseInv DEF AcceptChoose

\* commit_pending_to_accepted: what it moves is the content it was asked for,
\* because the row it read named a path of that content.
LEMMA AcceptMoveInv == ASSUME Inv, NEW p \in Procs, AcceptMove(p) PROVE Inv'
<1>1. RowsOK'
  BY RowsKept DEF Inv, AcceptMove
<1>2. DiskOK'
  <2>1. CASE UNCHANGED <<disk, trash>>
    BY <2>1, DiskKept DEF Inv
  <2>2. CASE /\ pc[p] = "accept_move" /\ Exists(disk, seen[p].path)
             /\ \/ disk' = Rename(disk, seen[p].path, dest[p])
                \/ disk' = CopyTo(disk, disk[seen[p].path], dest[p])
             /\ UNCHANGED trash
    <3>1. /\ Renders(seen[p].path, job[p].sha) /\ Renders(dest[p], job[p].sha)
          /\ job[p].sha \in Contents /\ disk[seen[p].path] \in Contents
      BY <2>2 DEF Inv, ProcsOK, DiskOK, LocalOK, HasDest, HasSource, Exists, Renders
    <3>2. UniqueNames => disk[seen[p].path] = job[p].sha
      BY <2>2, <3>1, OwnFile DEF Inv, Exists
    <3>3. CASE disk' = Rename(disk, seen[p].path, dest[p])
      BY <2>2, <3>1, <3>3, RenameOK DEF Inv
    <3>4. CASE disk' = CopyTo(disk, disk[seen[p].path], dest[p])
      BY <2>2, <3>1, <3>2, <3>4, CopyOK DEF Inv, DiskOK, Renders
    <3>. QED
      BY <2>2, <3>3, <3>4
  <2>. QED
    BY <2>1, <2>2 DEF AcceptMove, Goto
<1>3. ProcsOK'
  <2>1. CASE End(p, "accept_move", "error")
    BY <2>1, EndOK DEF Inv, Outcomes, Steps, OperatorSteps
  <2>2. CASE Goto(p, "accept_move", "accept_finalize") /\ UNCHANGED <<seen, dest>>
    <3>1. LocalOK(p)'
      BY <2>2 DEF Inv, ProcsOK, ProcTypeOK, LocalOK, Goto, IngestSteps, HasDest,
         HasSource
    <3>. QED
      BY <2>2, <3>1, GotoKept DEF Inv, Steps, OperatorSteps
  <2>3. CASE /\ Goto(p, "accept_move", "accept_unlink") /\ UNCHANGED <<seen, dest>>
             /\ ~ SameDevice("pending", "accepted")
    <3>1. LocalOK(p)'
      BY <2>3 DEF Inv, ProcsOK, ProcTypeOK, LocalOK, Goto, IngestSteps, HasDest,
         HasSource
    <3>. QED
      BY <2>3, <3>1, GotoKept DEF Inv, Steps, OperatorSteps
  <2>. QED
    BY <2>1, <2>2, <2>3 DEF AcceptMove
<1>. QED
  BY <1>1, <1>2, <1>3 DEF Inv

\* After a copy between filesystems the source is unlinked.
LEMMA AcceptUnlinkInv == ASSUME Inv, NEW p \in Procs, AcceptUnlink(p) PROVE Inv'
<1>1. RowsOK'
  BY RowsKept DEF Inv, AcceptUnlink
<1>2. DiskOK'
  <2>1. Renders(seen[p].path, job[p].sha)
    BY DEF Inv, ProcsOK, LocalOK, HasSource, AcceptUnlink, Goto
  <2>. QED
    BY <2>1, UnlinkOK DEF Inv, DiskOK, AcceptUnlink, Renders
<1>3. ProcsOK'
  <2>1. LocalOK(p)'
    BY DEF Inv, ProcsOK, ProcTypeOK, LocalOK, Goto, IngestSteps, HasDest,
       HasSource, AcceptUnlink
  <2>. QED
    BY <2>1, GotoKept DEF Inv, AcceptUnlink, Steps, IngestSteps, OperatorSteps
<1>. QED
  BY <1>1, <1>2, <1>3 DEF Inv

\* finalize_accept_from_pending, or its error when the status changed meanwhile.
LEMMA AcceptFinalizeInv == ASSUME Inv, NEW p \in Procs, AcceptFinalize(p) PROVE Inv'
<1>1. RowsOK'
  <2>1. CASE UNCHANGED registryVars
    BY <2>1, RowsKept DEF Inv
  <2>2. CASE pc[p] = "accept_finalize" /\ FinalizeAcceptFromPending(job[p].sha, dest[p])
    <3>1. job[p].sha \in Contents /\ Renders(dest[p], job[p].sha)
      BY <2>2 DEF Inv, ProcsOK, LocalOK, HasDest
    <3>. QED
      BY <2>2, <3>1, AcceptedOK DEF Inv, Renders
  <2>. QED
    BY <2>1, <2>2 DEF AcceptFinalize, End
<1>2. DiskOK'
  BY DiskKept DEF Inv, AcceptFinalize
<1>3. ProcsOK'
  BY EndOK DEF Inv, AcceptFinalize, Outcomes, Steps, IngestSteps, OperatorSteps
<1>. QED
  BY <1>1, <1>2, <1>3 DEF Inv

\* purge_sha256 unlinks the file at the path it read.
LEMMA PurgeUnlinkInv == ASSUME Inv, NEW p \in Procs, PurgeUnlink(p) PROVE Inv'
<1>1. RowsOK'
  BY RowsKept DEF Inv, PurgeUnlink
<1>2. DiskOK'
  <2>1. Renders(seen[p].path, job[p].sha)
    BY DEF Inv, ProcsOK, LocalOK, HasSource, PurgeUnlink, Goto
  <2>. QED
    BY <2>1, UnlinkOK DEF Inv, DiskOK, PurgeUnlink, Renders
<1>3. ProcsOK'
  <2>1. LocalOK(p)'
    BY DEF Inv, ProcsOK, ProcTypeOK, LocalOK, Goto, IngestSteps, HasDest,
       HasSource, PurgeUnlink
  <2>. QED
    BY <2>1, GotoKept DEF Inv, PurgeUnlink, Steps, IngestSteps, OperatorSteps
<1>. QED
  BY <1>1, <1>2, <1>3 DEF Inv

\* finalize_purge_from_rejected, or its error when the status changed meanwhile.
LEMMA PurgeFinalizeInv == ASSUME Inv, NEW p \in Procs, PurgeFinalize(p) PROVE Inv'
<1>1. RowsOK'
  <2>1. CASE UNCHANGED registryVars
    BY <2>1, RowsKept DEF Inv
  <2>2. CASE pc[p] = "purge_finalize" /\ FinalizePurgeFromRejected(job[p].sha)
    <3>1. job[p].sha \in Contents
      BY <2>2 DEF Inv, ProcsOK, LocalOK
    <3>. QED
      BY <2>2, <3>1, PurgedOK DEF Inv
  <2>. QED
    BY <2>1, <2>2 DEF PurgeFinalize, End
<1>2. DiskOK'
  BY DiskKept DEF Inv, PurgeFinalize
<1>3. ProcsOK'
  BY EndOK DEF Inv, PurgeFinalize, Outcomes, Steps, IngestSteps, OperatorSteps
<1>. QED
  BY <1>1, <1>2, <1>3 DEF Inv

\* Rejecting what is rejected changes nothing but the log.
LEMMA RejectNoopInv == ASSUME Inv, NEW p \in Procs, RejectNoop(p) PROVE Inv'
<1>1. RowsOK'
  BY RowsKept DEF Inv, RejectNoop
<1>2. DiskOK'
  BY DiskKept DEF Inv, RejectNoop
<1>3. ProcsOK'
  BY EndOK DEF Inv, RejectNoop, Outcomes, Steps, IngestSteps, OperatorSteps
<1>. QED
  BY <1>1, <1>2, <1>3 DEF Inv

\* process_trash of an unknown content chooses a name in rejected/.
LEMMA UnknownChooseInv == ASSUME Inv, NEW p \in Procs, UnknownChoose(p) PROVE Inv'
<1>1. CASE Choose(p, "unknown_choose", "rejected", "unknown_move")
  BY <1>1, ChooseInv
<1>2. CASE /\ Goto(p, "unknown_choose", "unknown_row")
           /\ UNCHANGED <<registryVars, disk, trash, seen, dest>>
  <2>1. LocalOK(p)'
    BY <1>2 DEF Inv, ProcsOK, ProcTypeOK, LocalOK, Goto, IngestSteps, HasDest,
       HasSource
  <2>2. ProcsOK'
    BY <1>2, <2>1, GotoKept DEF Inv, Steps, OperatorSteps
  <2>. QED
    BY <1>2, <2>2, RowsKept, DiskKept DEF Inv
<1>. QED
  BY <1>1, <1>2 DEF UnknownChoose

\* The trash file is moved under a name of its own content.
LEMMA UnknownMoveInv == ASSUME Inv, NEW p \in Procs, UnknownMove(p) PROVE Inv'
<1>1. RowsOK'
  BY RowsKept DEF Inv, UnknownMove
<1>2. DiskOK'
  <2>1. CASE UNCHANGED <<disk, trash>>
    BY <2>1, DiskKept DEF Inv
  <2>2. CASE /\ pc[p] = "unknown_move" /\ disk' = CopyTo(disk, job[p].sha, dest[p])
             /\ trash' = trash \ {job[p].sha}
    <3>1. job[p].sha \in Contents /\ Renders(dest[p], job[p].sha)
      BY <2>2 DEF Inv, ProcsOK, LocalOK, HasDest
    <3>. QED
      BY <2>2, <3>1, CopyOK DEF Inv, DiskOK, Renders
  <2>. QED
    BY <2>1, <2>2 DEF UnknownMove, Goto
<1>3. ProcsOK'
  <2>1. CASE End(p, "unknown_move", "error")
    BY <2>1, EndOK DEF Inv, Outcomes, Steps, OperatorSteps
  <2>2. CASE Goto(p, "unknown_move", "unknown_row") /\ UNCHANGED <<seen, dest>>
    <3>1. LocalOK(p)'
      BY <2>2 DEF Inv, ProcsOK, ProcTypeOK, LocalOK, Goto, IngestSteps, HasDest,
         HasSource
    <3>. QED
      BY <2>2, <3>1, GotoKept DEF Inv, Steps, OperatorSteps
  <2>. QED
    BY <2>1, <2>2 DEF UnknownMove
<1>. QED
  BY <1>1, <1>2, <1>3 DEF Inv

\* The row of an unknown rejected content points at the file just moved, or nowhere.
LEMMA UnknownRowInv == ASSUME Inv, NEW p \in Procs, UnknownRow(p) PROVE Inv'
<1>1. RowsOK'
  <2>1. /\ job[p].sha \in Contents
        /\ dest[p] \in Paths \union {NoPath}
        /\ dest[p] # NoPath => Renders(dest[p], job[p].sha)
    BY DEF Inv, ProcsOK, ProcTypeOK, LocalOK, UnknownRow, Goto
  <2>. QED
    BY <2>1, CreateOK DEF Inv, UnknownRow
<1>2. DiskOK'
  BY DiskKept DEF Inv, UnknownRow
<1>3. ProcsOK'
  <2>1. LocalOK(p)'
    BY DEF Inv, ProcsOK, ProcTypeOK, LocalOK, Goto, IngestSteps, HasDest,
       HasSource, UnknownRow
  <2>. QED
    BY <2>1, GotoKept DEF Inv, UnknownRow, Steps, IngestSteps, OperatorSteps
<1>. QED
  BY <1>1, <1>2, <1>3 DEF Inv

\* The audit row of an unknown rejected content.
LEMMA UnknownAuditInv == ASSUME Inv, NEW p \in Procs, UnknownAudit(p) PROVE Inv'
<1>1. RowsOK'
  <2>1. job[p].sha \in Contents
    BY DEF Inv, ProcsOK, LocalOK, UnknownAudit, RejectReturn, End, Goto
  <2>. QED
    BY <2>1, AuditOK DEF Inv, UnknownAudit, Statuses
<1>2. DiskOK'
  BY DiskKept DEF Inv, UnknownAudit
<1>3. ProcsOK'
  <2>1. CASE End(p, "unknown_audit", "ok")
    BY <2>1, EndOK DEF Inv, Outcomes, Steps, OperatorSteps
  <2>2. CASE Goto(p, "unknown_audit", "trash_unlink") /\ UNCHANGED <<seen, dest>>
    <3>1. LocalOK(p)'
      BY <2>2 DEF Inv, ProcsOK, ProcTypeOK, LocalOK, Goto, IngestSteps, HasDest,
         HasSource
    <3>. QED
      BY <2>2, <3>1, GotoKept DEF Inv, Steps, OperatorSteps
  <2>. QED
    BY <2>1, <2>2 DEF UnknownAudit, RejectReturn
<1>. QED
  BY <1>1, <1>2, <1>3 DEF Inv

\* _move_to_rejected_folder remembers a row whose path names the content.
LEMMA RejectReadInv == ASSUME Inv, NEW p \in Procs, RejectRead(p) PROVE Inv'
<1>1. RowsOK'
  BY RowsKept DEF Inv, RejectRead
<1>2. DiskOK'
  BY DiskKept DEF Inv, RejectRead
<1>3. ProcsOK'
  <2>1. job[p].sha \in Contents
    BY DEF Inv, ProcsOK, LocalOK, RejectRead, Goto
  <2>2. /\ files[job[p].sha] \in Row
        /\ files[job[p].sha].path # NoPath => Renders(files[job[p].sha].path, job[p].sha)
    BY <2>1 DEF Inv, RowsOK, RegistryTypeOK
  <2>3. LocalOK(p)'
    BY <2>1, <2>2 DEF Inv, ProcsOK, ProcTypeOK, LocalOK, Goto, IngestSteps, HasDest,
       HasSource, RejectRead
  <2>. QED
    BY <2>2, <2>3, GotoOK DEF Inv, ProcsOK, ProcTypeOK, RejectRead, Steps,
       OperatorSteps
<1>. QED
  BY <1>1, <1>2, <1>3 DEF Inv

\* _move_to_rejected_folder's checks change neither rows nor files.
LEMMA RejectCheckInv == ASSUME Inv, NEW p \in Procs, RejectCheck(p) PROVE Inv'
<1>1. RowsOK'
  BY RowsKept DEF Inv, RejectCheck
<1>2. DiskOK'
  BY DiskKept DEF Inv, RejectCheck
<1>3. ProcsOK'
  <2>1. CASE End(p, "reject_check", "error")
    BY <2>1, EndOK DEF Inv, Outcomes, Steps, OperatorSteps
  <2>2. CASE Goto(p, "reject_check", "reject_clear") /\ UNCHANGED <<seen, dest>>
    <3>1. LocalOK(p)'
      BY <2>2 DEF Inv, ProcsOK, ProcTypeOK, LocalOK, Goto, IngestSteps, HasDest,
         HasSource
    <3>. QED
      BY <2>2, <3>1, GotoKept DEF Inv, Steps, OperatorSteps
  <2>3. CASE Goto(p, "reject_check", "reject_choose") /\ UNCHANGED <<seen, dest>> /\ ~ WithinRoot(seen[p].path, "rejected")
    <3>1. LocalOK(p)'
      BY <2>3 DEF Inv, ProcsOK, ProcTypeOK, LocalOK, Goto, IngestSteps, HasDest,
         HasSource, WithinRoot, Renders
    <3>. QED
      BY <2>3, <3>1, GotoKept DEF Inv, Steps, OperatorSteps
  <2>. QED
    BY <2>1, <2>2, <2>3 DEF RejectCheck
<1>. QED
  BY <1>1, <1>2, <1>3 DEF Inv

\* A missing source clears current_path.
LEMMA RejectClearInv == ASSUME Inv, NEW p \in Procs, RejectClear(p) PROVE Inv'
<1>1. RowsOK'
  <2>1. job[p].sha \in Contents
    BY DEF Inv, ProcsOK, LocalOK, RejectClear, Goto
  <2>. QED
    BY <2>1, UpdatePathOK DEF Inv, RejectClear
<1>2. DiskOK'
  BY DiskKept DEF Inv, RejectClear
<1>3. ProcsOK'
  <2>1. LocalOK(p)'
    BY DEF Inv, ProcsOK, ProcTypeOK, LocalOK, Goto, IngestSteps, HasDest,
       HasSource, RejectClear
  <2>. QED
    BY <2>1, GotoKept DEF Inv, RejectClear, Steps, IngestSteps, OperatorSteps
<1>. QED
  BY <1>1, <1>2, <1>3 DEF Inv

\* _move_physical_to_rejected chooses a name in rejected/.
LEMMA RejectChooseInv == ASSUME Inv, NEW p \in Procs, RejectChoose(p) PROVE Inv'
<1>1. CASE Choose(p, "reject_choose", "rejected", "reject_move")
  BY <1>1, ChooseInv
<1>2. CASE /\ Goto(p, "reject_choose", "reject_status")
           /\ UNCHANGED <<registryVars, disk, trash, seen, dest>>
  <2>1. LocalOK(p)'
    BY <1>2 DEF Inv, ProcsOK, ProcTypeOK, LocalOK, Goto, IngestSteps, HasDest,
       HasSource
  <2>2. ProcsOK'
    BY <1>2, <2>1, GotoKept DEF Inv, Steps, OperatorSteps
  <2>. QED
    BY <1>2, <2>2, RowsKept, DiskKept DEF Inv
<1>. QED
  BY <1>1, <1>2 DEF RejectChoose

\* _move_physical_to_rejected moves the content it was asked for.
LEMMA RejectMoveInv == ASSUME Inv, NEW p \in Procs, RejectMove(p) PROVE Inv'
<1>1. RowsOK'
  BY RowsKept DEF Inv, RejectMove
<1>2. DiskOK'
  <2>1. CASE UNCHANGED <<disk, trash>>
    BY <2>1, DiskKept DEF Inv
  <2>2. CASE /\ pc[p] = "reject_move" /\ UNCHANGED trash
             /\ disk' = Rename(disk, seen[p].path, dest[p])
    <3>1. /\ Renders(seen[p].path, job[p].sha) /\ Renders(dest[p], job[p].sha)
          /\ job[p].sha \in Contents
      BY <2>2 DEF Inv, ProcsOK, LocalOK, HasDest, HasSource
    <3>. QED
      BY <2>2, <3>1, RenameOK DEF Inv
  <2>. QED
    BY <2>1, <2>2 DEF RejectMove, Goto
<1>3. ProcsOK'
  <2>1. CASE End(p, "reject_move", "error")
    BY <2>1, EndOK DEF Inv, Outcomes, Steps, OperatorSteps
  <2>2. CASE Goto(p, "reject_move", "reject_path") /\ UNCHANGED <<seen, dest>>
    <3>1. LocalOK(p)'
      BY <2>2 DEF Inv, ProcsOK, ProcTypeOK, LocalOK, Goto, IngestSteps, HasDest,
         HasSource
    <3>. QED
      BY <2>2, <3>1, GotoKept DEF Inv, Steps, OperatorSteps
  <2>. QED
    BY <2>1, <2>2 DEF RejectMove
<1>. QED
  BY <1>1, <1>2, <1>3 DEF Inv

\* current_path follows the move into rejected/.
LEMMA RejectPathInv == ASSUME Inv, NEW p \in Procs, RejectPath(p) PROVE Inv'
<1>1. RowsOK'
  <2>1. job[p].sha \in Contents /\ Renders(dest[p], job[p].sha)
    BY DEF Inv, ProcsOK, LocalOK, HasDest, RejectPath, Goto
  <2>. QED
    BY <2>1, UpdatePathOK DEF Inv, RejectPath, Renders
<1>2. DiskOK'
  BY DiskKept DEF Inv, RejectPath
<1>3. ProcsOK'
  <2>1. LocalOK(p)'
    BY DEF Inv, ProcsOK, ProcTypeOK, LocalOK, Goto, IngestSteps, HasDest,
       HasSource, RejectPath
  <2>. QED
    BY <2>1, GotoKept DEF Inv, RejectPath, Steps, IngestSteps, OperatorSteps
<1>. QED
  BY <1>1, <1>2, <1>3 DEF Inv

\* The status change that ends a reject.
LEMMA RejectStatusInv == ASSUME Inv, NEW p \in Procs, RejectStatus(p) PROVE Inv'
<1>1. RowsOK'
  <2>1. job[p].sha \in Contents
    BY DEF Inv, ProcsOK, LocalOK, RejectStatus, RejectReturn, End, Goto
  <2>. QED
    BY <2>1, TransitionOK DEF Inv, RejectStatus, Statuses
<1>2. DiskOK'
  BY DiskKept DEF Inv, RejectStatus
<1>3. ProcsOK'
  <2>1. CASE End(p, "reject_status", "ok")
    BY <2>1, EndOK DEF Inv, Outcomes, Steps, OperatorSteps
  <2>2. CASE Goto(p, "reject_status", "trash_unlink") /\ UNCHANGED <<seen, dest>>
    <3>1. LocalOK(p)'
      BY <2>2 DEF Inv, ProcsOK, ProcTypeOK, LocalOK, Goto, IngestSteps, HasDest,
         HasSource
    <3>. QED
      BY <2>2, <3>1, GotoKept DEF Inv, Steps, OperatorSteps
  <2>. QED
    BY <2>1, <2>2 DEF RejectStatus, RejectReturn
<1>. QED
  BY <1>1, <1>2, <1>3 DEF Inv

\* process_trash deletes the trash file it has dealt with.
LEMMA TrashUnlinkInv == ASSUME Inv, NEW p \in Procs, TrashUnlink(p) PROVE Inv'
<1>1. RowsOK'
  BY RowsKept DEF Inv, TrashUnlink
<1>2. DiskOK'
  BY DEF Inv, DiskOK, TrashUnlink
<1>3. ProcsOK'
  BY EndOK DEF Inv, TrashUnlink, Outcomes, Steps, IngestSteps, OperatorSteps
<1>. QED
  BY <1>1, <1>2, <1>3 DEF Inv

\* A command refused or skipped in its first step keeps the invariant.
LEMMA EndAtOnceInv ==
    ASSUME Inv, NEW p \in Procs, NEW op, NEW r \in Outcomes, EndAtOnce(p, op, r)
    PROVE  Inv'
<1>1. RowsOK'
  BY RowsKept DEF Inv, EndAtOnce
<1>2. DiskOK'
  BY DiskKept DEF Inv, EndAtOnce
<1>3. ProcsOK'
  BY DEF Inv, ProcsOK, ProcTypeOK, LocalOK, EndAtOnce
<1>. QED
  BY <1>1, <1>2, <1>3 DEF Inv

\* A command that has read a row keeps the invariant by starting.
LEMMA BeginInv ==
    ASSUME Inv, NEW p \in Procs, NEW op \in Commands,
           NEW i \in Items \union {NoContent}, NEW c \in Contents,
           NEW row \in Row, NEW l \in Steps \ HasDest,
           Begin(p, op, i, c, row, l), UNCHANGED <<registryVars, disk, trash>>,
           l \in IngestSteps => i \in Items,
           l \in HasSource => Renders(row.path, c),
           l = "accept_choose" => row.path.root = "pending",
           l # "reject_choose"
    PROVE  Inv'
<1>1. RowsOK'
  BY RowsKept DEF Inv
<1>2. DiskOK'
  BY DiskKept DEF Inv
<1>3. LocalOK(p)'
  BY DEF Inv, ProcsOK, ProcTypeOK, LocalOK, Begin, Idle, HasDest
<1>4. ProcsOK'
  BY <1>3, BeginOK DEF Inv
<1>. QED
  BY <1>1, <1>2, <1>4 DEF Inv

\* Dropping or quarantining a staged file leaves the queue alone.
LEMMA IngestDropInv == ASSUME Inv, NEW p \in Procs, IngestDrop(p) PROVE Inv'
  BY EndAtOnceInv DEF IngestDrop, Outcomes

\* A prefilter hit leaves the queue alone.
LEMMA IngestPrefilterInv ==
    ASSUME Inv, NEW p \in Procs, NEW i \in Items, NEW c \in Contents,
           IngestPrefilter(p, i, c)
    PROVE  Inv'
  BY EndAtOnceInv DEF IngestPrefilter, Outcomes

\* The row of an unknown content has no path.
LEMMA NoRowOK == NoRow \in Row /\ NoRow.path = NoPath
  BY DEF NoRow, Row

\* A worker starts on a staged file.
LEMMA IngestHashInv ==
    ASSUME Inv, NEW p \in Procs, NEW i \in Items, NEW c \in Contents,
           IngestHash(p, i, c)
    PROVE  Inv'
<1>1. "ingest_rules" \in Steps \ HasDest /\ "ingest_rules" \notin HasSource
  BY DEF Steps, IngestSteps, HasDest, HasSource
<1>. QED
  BY <1>1, BeginInv, NoRowOK DEF IngestHash, Commands

\* accept_sha256 starts, or is refused.
LEMMA AcceptStartInv ==
    ASSUME Inv, NEW p \in Procs, NEW c \in Contents, AcceptStart(p, c) PROVE Inv'
<1>1. CASE EndAtOnce(p, "accept", "error")
  BY <1>1, EndAtOnceInv DEF Outcomes
<1>2. CASE /\ Acceptable(c)
           /\ Begin(p, "accept", NoContent, c, files[c], "accept_choose")
           /\ UNCHANGED <<registryVars, disk, trash>>
  <2>1. files[c] \in Row /\ Renders(files[c].path, c) /\ files[c].path.root = "pending"
    BY <1>2 DEF Inv, RowsOK, RegistryTypeOK, Acceptable, WithinRoot
  <2>2. "accept_choose" \in Steps \ HasDest /\ "accept_choose" \notin IngestSteps
    BY DEF Steps, IngestSteps, OperatorSteps, HasDest
  <2>. QED
    BY <1>2, <2>1, <2>2, BeginInv DEF Commands
<1>. QED
  BY <1>1, <1>2 DEF AcceptStart

\* purge_sha256 starts, or is refused.
LEMMA PurgeStartInv ==
    ASSUME Inv, NEW p \in Procs, NEW c \in Contents, PurgeStart(p, c) PROVE Inv'
<1>1. CASE EndAtOnce(p, "purge", "error")
  BY <1>1, EndAtOnceInv DEF Outcomes
<1>2. CASE /\ Begin(p, "purge", NoContent, c, files[c],
                    IF files[c].path = NoPath THEN "purge_finalize" ELSE "purge_unlink")
           /\ UNCHANGED <<registryVars, disk, trash>>
  <2>1. PICK l \in {"purge_finalize", "purge_unlink"} :
           /\ Begin(p, "purge", NoContent, c, files[c], l)
           /\ l = "purge_unlink" => files[c].path # NoPath
    BY <1>2
  <2>2. files[c] \in Row /\ (files[c].path # NoPath => Renders(files[c].path, c))
    BY DEF Inv, RowsOK, RegistryTypeOK
  <2>3. /\ l \in Steps \ HasDest /\ l \notin IngestSteps
        /\ l \in HasSource => l = "purge_unlink"
    BY DEF Steps, IngestSteps, OperatorSteps, HasDest, HasSource
  <2>. QED
    BY <1>2, <2>1, <2>2, <2>3, BeginInv DEF Commands
<1>. QED
  BY <1>1, <1>2 DEF PurgeStart

\* _apply_reject starts, for reject and for process-trash, on any of its branches.
LEMMA RejectBeginInv ==
    ASSUME Inv, NEW p \in Procs, NEW c \in Contents, NEW op \in {"reject", "trash"},
           Begin(p, op, NoContent, c, NoRow, RejectBranch(op, c)),
           UNCHANGED <<registryVars, disk, trash>>
    PROVE  Inv'
<1>1. RejectBranch(op, c) \in {"trash_unlink", "reject_noop", "unknown_choose",
                               "unknown_row", "reject_read"}
  BY DEF RejectBranch, Known
<1>2. /\ RejectBranch(op, c) \in Steps \ HasDest
      /\ RejectBranch(op, c) \notin IngestSteps \union HasSource
      /\ RejectBranch(op, c) \notin {"accept_choose", "reject_choose"}
  BY <1>1 DEF Steps, IngestSteps, OperatorSteps, HasDest, HasSource
<1>. QED
  BY <1>2, BeginInv, NoRowOK, SMT DEF Commands

\* reject_sha256 starts.
LEMMA RejectStartInv ==
    ASSUME Inv, NEW p \in Procs, NEW c \in Contents, RejectStart(p, c) PROVE Inv'
  BY RejectBeginInv DEF RejectStart

\* process_trash takes up a file of the trash directory.
LEMMA TrashStartInv ==
    ASSUME Inv, NEW p \in Procs, NEW c \in Contents, TrashStart(p, c) PROVE Inv'
  BY RejectBeginInv DEF TrashStart

\* A process that dies keeps the invariant: it is inductive step by step, so any
\* prefix of a command is safe.
LEMMA CrashInv == ASSUME Inv, NEW p \in Procs, Crash(p) PROVE Inv'
<1>1. RowsOK' /\ DiskOK'
  BY RowsKept, DiskKept DEF Inv, Crash
<1>2. pc[p] \in Steps
  BY DEF Inv, ProcsOK, ProcTypeOK
<1>3. ProcsOK'
  BY <1>2, EndOK DEF Inv, Crash, Outcomes
<1>. QED
  BY <1>1, <1>3 DEF Inv

\* What operators, the web API and crashes do keeps the invariant.
LEMMA EnvInv == ASSUME Inv, EnvNext PROVE Inv'
<1>1. CASE \E p \in Procs : Crash(p)
  BY <1>1, CrashInv
<1>2. CASE \E c \in Contents : CopyToTrash(c)
  <2>1. RowsOK' /\ ProcsOK'
    BY <1>2, RowsKept, ProcsKept DEF Inv, CopyToTrash
  <2>2. DiskOK'
    BY <1>2 DEF Inv, DiskOK, CopyToTrash
  <2>. QED
    BY <2>1, <2>2 DEF Inv
<1>3. CASE \E c \in Contents, status \in {"accepted", "rejected", "pending"} :
              Triage(c, status)
  <2>1. DiskOK' /\ ProcsOK'
    BY <1>3, DiskKept, ProcsKept DEF Inv, Triage
  <2>2. RowsOK'
    BY <1>3, TransitionOK DEF Inv, Triage, TriageStatus, Statuses
  <2>. QED
    BY <2>1, <2>2 DEF Inv
<1>4. CASE \E path \in Paths : MoveToTrash(path) \/ MoveToLibrary(path)
  <2>1. RowsOK' /\ ProcsOK'
    BY <1>4, RowsKept, ProcsKept DEF Inv, MoveToTrash, MoveToLibrary
  <2>2. trash' \subseteq Contents
    BY <1>4, SMT DEF Inv, DiskOK, MoveToTrash, MoveToLibrary
  <2>3. DiskOK'
    BY <1>4, <2>2, UnlinkOK DEF Inv, MoveToTrash, MoveToLibrary
  <2>. QED
    BY <2>1, <2>3 DEF Inv
<1>5. CASE \E rules \in SUBSET Names : ChangeBlockRules(rules)
  <2>1. DiskOK' /\ ProcsOK'
    BY <1>5, DiskKept, ProcsKept DEF Inv, ChangeBlockRules
  <2>2. RowsOK'
    BY <1>5, BlockRulesOK DEF Inv, ChangeBlockRules
  <2>. QED
    BY <2>1, <2>2 DEF Inv
<1>. QED
  BY <1>1, <1>2, <1>3, <1>4, <1>5 DEF EnvNext

\* A stuttering step keeps the invariant.
LEMMA StutterInv == ASSUME Inv, UNCHANGED vars PROVE Inv'
  BY RowsKept, DiskKept, ProcsKept DEF Inv, vars

\* Every step of a poll worker keeps the invariant.
LEMMA IngestInv == ASSUME Inv, NEW p \in Procs, IngestNext(p) PROVE Inv'
  BY IngestDropInv, IngestPrefilterInv, IngestHashInv, IngestRulesInv,
     IngestLookupInv, IngestKnownInv, IngestChooseInv, IngestCommitInv, IngestStatInv,
     IngestFinalizeInv, BlockRowInv, BlockIndexInv, BlockOriginInv, BlockAuditInv
     DEF IngestNext

\* Every step of an operator command keeps the invariant.
LEMMA OperatorInv == ASSUME Inv, NEW p \in Procs, OperatorNext(p) PROVE Inv'
  BY AcceptStartInv, AcceptChooseInv, AcceptMoveInv, AcceptUnlinkInv,
     AcceptFinalizeInv, PurgeStartInv, PurgeUnlinkInv, PurgeFinalizeInv,
     RejectStartInv, TrashStartInv, RejectNoopInv, UnknownChooseInv, UnknownMoveInv,
     UnknownRowInv, UnknownAuditInv, RejectReadInv, RejectCheckInv, RejectClearInv,
     RejectChooseInv, RejectMoveInv, RejectPathInv, RejectStatusInv, TrashUnlinkInv
     DEF OperatorNext

\* The invariant is inductive.
LEMMA NextInv == Inv /\ [Next]_vars => Inv'
  BY IngestInv, OperatorInv, EnvInv, StutterInv DEF Next

\* Inv is an invariant of the whole queue: whatever commands run at the same
\* time and wherever they die, names stay with the contents they were rendered
\* for.
THEOREM Invariance == Spec => []Inv
  BY InvInit, NextInv, PTL DEF Spec

\* Type correctness of the registry, the disk and the processes.
THEOREM TypeCorrectness == Spec => []TypeOK
  BY Invariance, InvTypeOK, PTL

-----------------------------------------------------------------------------
(* Nothing is lost *)

\* Copying a content to a name rendered for it replaces at most another copy
\* of the same content.
LEMMA CopyHolds ==
    ASSUME UniqueNames, DiskOK, NEW c \in Contents, NEW dst \in Paths,
           dst.name \in NamesOf[c], disk' = CopyTo(disk, c, dst),
           NEW d \in Contents, Held(disk, d)
    PROVE  Held(disk', d)
  BY SMT DEF Held, DiskOK, CopyTo, UniqueNames

\* So does moving a file to another root under a name of the same content.
LEMMA RenameHolds ==
    ASSUME UniqueNames, DiskOK, NEW c \in Contents, NEW src, NEW dst, Renders(src, c),
           Renders(dst, c), src # dst, disk[src] # NoFile, disk' = Rename(disk, src, dst),
           NEW d \in Contents, Held(disk, d)
    PROVE  Held(disk', d)
<1>1. disk' \in [Paths -> Contents \union {NoFile}] /\ disk'[dst] = disk[src]
      /\ \A path \in Paths \ {src, dst} : disk'[path] = disk[path]
  BY DEF DiskOK, Rename, Renders
<1>2. PICK path \in Paths : disk[path] = d
  BY DEF Held
<1>3. disk[src] = c
  BY OwnFile
<1>4. path = dst => d = c
  BY <1>2, OwnFile
<1>. QED
  BY <1>1, <1>2, <1>3, <1>4 DEF Held, Renders

\* Unlinking a name rendered for c removes copies of c only.
LEMMA UnlinkHolds ==
    ASSUME UniqueNames, DiskOK, NEW c \in Contents, NEW path \in Paths,
           path.name \in NamesOf[c], disk' = Unlink(disk, path),
           NEW d \in Contents \ {c}, Held(disk, d)
    PROVE  Held(disk', d)
  BY SMT DEF Held, DiskOK, Unlink, UniqueNames

\* No step of a poll worker takes a content's last copy out of the queue.
LEMMA IngestHolds ==
    ASSUME UniqueNames, Inv, NEW p \in Procs, IngestNext(p),
           NEW d \in Contents, Held(disk, d)
    PROVE  Held(disk', d)
<1>1. CASE IngestCommit(p)
  <2>1. job[p].sha \in Contents /\ Renders(dest[p], job[p].sha)
    BY <1>1 DEF Inv, ProcsOK, LocalOK, HasDest, IngestCommit, Goto
  <2>. QED
    BY <1>1, <2>1, CopyHolds DEF Inv, IngestCommit, Renders
<1>2. CASE ~ IngestCommit(p)
  <2>1. disk' = disk
    BY <1>2 DEF IngestNext, IngestDrop, IngestPrefilter, IngestHash, EndAtOnce,
       IngestRules, IngestLookup, IngestKnown, IngestChoose, Choose, IngestStat, IngestFinalize,
       BlockRow, BlockIndex, BlockOrigin, BlockAudit
  <2>. QED
    BY <2>1
<1>. QED
  BY <1>1, <1>2

\* The only step of an operator command that takes a content's last copy out of the
\* queue is the unlink of a purge of that content.
LEMMA OperatorHolds ==
    ASSUME UniqueNames, SameDevice("pending", "accepted"), Inv,
           NEW p \in Procs, OperatorNext(p), NEW d \in Contents, Held(disk, d),
           ~ (pc[p] = "purge_unlink" /\ job[p].sha = d)
    PROVE  Held(disk', d)
<1>1. CASE AcceptMove(p)
  <2>1. CASE UNCHANGED disk
    BY <2>1
  <2>2. CASE /\ pc[p] = "accept_move" /\ Exists(disk, seen[p].path)
             /\ disk' = Rename(disk, seen[p].path, dest[p])
    <3>1. /\ Renders(seen[p].path, job[p].sha) /\ Renders(dest[p], job[p].sha)
          /\ seen[p].path.root = "pending" /\ dest[p].root = "accepted"
          /\ job[p].sha \in Contents
      BY <2>2 DEF Inv, ProcsOK, LocalOK, HasDest, HasSource
    <3>. QED
      BY <2>2, <3>1, RenameHolds DEF Inv, Exists
  <2>. QED
    BY <1>1, <2>1, <2>2 DEF AcceptMove, Goto
<1>2. CASE AcceptUnlink(p)
  BY <1>2 DEF Inv, ProcsOK, LocalOK, AcceptUnlink, Goto
<1>3. CASE PurgeUnlink(p)
  <2>1. job[p].sha \in Contents /\ Renders(seen[p].path, job[p].sha)
    BY <1>3 DEF Inv, ProcsOK, LocalOK, HasSource, PurgeUnlink, Goto
  <2>. QED
    BY <1>3, <2>1, UnlinkHolds DEF Inv, PurgeUnlink, Goto, Renders
<1>4. CASE UnknownMove(p)
  <2>1. CASE UNCHANGED disk
    BY <2>1
  <2>2. CASE pc[p] = "unknown_move" /\ disk' = CopyTo(disk, job[p].sha, dest[p])
    <3>1. job[p].sha \in Contents /\ Renders(dest[p], job[p].sha)
      BY <2>2 DEF Inv, ProcsOK, LocalOK, HasDest
    <3>. QED
      BY <2>2, <3>1, CopyHolds DEF Inv, Renders
  <2>. QED
    BY <1>4, <2>1, <2>2 DEF UnknownMove, Goto
<1>5. CASE RejectMove(p)
  <2>1. CASE UNCHANGED disk
    BY <2>1
  <2>2. CASE /\ pc[p] = "reject_move" /\ Exists(disk, seen[p].path)
             /\ disk' = Rename(disk, seen[p].path, dest[p])
    <3>1. /\ Renders(seen[p].path, job[p].sha) /\ Renders(dest[p], job[p].sha)
          /\ seen[p].path.root # "rejected" /\ dest[p].root = "rejected"
          /\ job[p].sha \in Contents
      BY <2>2 DEF Inv, ProcsOK, LocalOK, HasDest, HasSource
    <3>. QED
      BY <2>2, <3>1, RenameHolds DEF Inv, Exists
  <2>. QED
    BY <1>5, <2>1, <2>2 DEF RejectMove, Goto
<1>6. CASE ~ (AcceptMove(p) \/ AcceptUnlink(p) \/ PurgeUnlink(p) \/ UnknownMove(p)
              \/ RejectMove(p))
  <2>1. disk' = disk
    BY <1>6 DEF OperatorNext, AcceptStart, PurgeStart, RejectStart, TrashStart,
       EndAtOnce, AcceptChoose, Choose, AcceptFinalize, PurgeFinalize, RejectNoop,
       UnknownChoose, UnknownRow, UnknownAudit, RejectRead, RejectCheck,
       RejectClear, RejectChoose, RejectPath, RejectStatus, TrashUnlink
  <2>. QED
    BY <2>1
<1>. QED
  BY <1>1, <1>2, <1>3, <1>4, <1>5, <1>6

\* With a template that tells contents apart and the pending and accepted
\* queues on one filesystem, no command ever destroys the last copy of a
\* content except the purge of that content: for any number of concurrent
\* polls and commands, crashes at any step, web triage and files moved by hand.
THEOREM NothingIsLost ==
    ASSUME UniqueNames, SameDevice("pending", "accepted") PROVE Spec => NothingLost
<1> DEFINE Loss(c) == Held(disk, c) /\ ~ Held(disk', c) /\ pc' # pc
           Purges(c) == \E p \in Procs : pc[p] = "purge_unlink" /\ job[p].sha = c
<1>1. ASSUME Inv, [Next]_vars, NEW c \in Contents, Loss(c) PROVE Purges(c)
  <2>1. CASE \E p \in Procs : IngestNext(p)
    BY <1>1, <2>1, IngestHolds
  <2>2. CASE \E p \in Procs : OperatorNext(p)
    BY <1>1, <2>2, OperatorHolds
  <2>3. CASE EnvNext
    BY <1>1, <2>3 DEF EnvNext, Crash, CopyToTrash, MoveToTrash, MoveToLibrary,
       Triage, ChangeBlockRules, procVars
  <2>4. CASE UNCHANGED vars
    BY <1>1, <2>4 DEF vars, procVars
  <2>. QED
    BY <1>1, <2>1, <2>2, <2>3, <2>4 DEF Next
<1>2. Inv /\ [Next]_vars => [\A c \in Contents : Loss(c) => Purges(c)]_vars
  BY <1>1
<1>. QED
  BY <1>2, Invariance, PTL DEF Spec, NothingLost


-----------------------------------------------------------------------------
(* One command at a time *)

\* What a process does between its steps is its own when commands run one at a
\* time.
LEMMA OneProcess ==
    ASSUME Serial, NEW p \in Procs, NEW q \in Procs PROVE q = p
  BY DEF Serial

\* Steps at which a process is about to put its file under the name it chose
Moving == {"ingest_commit", "accept_move", "unknown_move", "reject_move"}

\* The name is still free when commands run one at a time.
NameIsFree == \A p \in Procs : pc[p] \in Moving => disk[dest[p]] = NoFile

\* choose_collision_safe_destination returns a name that is free.
LEMMA ChooseIsFree ==
    ASSUME Inv, NEW p \in Procs, NEW l \in Steps, NEW root \in Roots, NEW m \in Moving,
           Choose(p, l, root, m), pc[p] # "idle"
    PROVE  pc'[p] \in Moving => disk'[dest'[p]] = NoFile
<1>1. pc \in [Procs -> Steps] /\ dest \in [Procs -> Paths \union {NoPath}]
  BY DEF Inv, ProcsOK, ProcTypeOK
<1>2. CASE End(p, l, "error")
  BY <1>1, <1>2 DEF End, Moving
<1>3. CASE \E path \in ChooseDestination(disk, root, job[p].sha) :
              dest' = [dest EXCEPT ![p] = path]
  BY <1>1, <1>3 DEF Choose, ChooseDestination
<1>. QED
  BY <1>2, <1>3 DEF Choose

\* A step that leads to a move is the choice of its destination.
LEMMA FreePreserved ==
    ASSUME Serial, Inv, NameIsFree, [Next]_vars
    PROVE  NameIsFree'
<1> SUFFICES ASSUME NEW p \in Procs, pc'[p] \in Moving PROVE disk'[dest'[p]] = NoFile
  BY DEF NameIsFree
<1>0. pc \in [Procs -> Steps] /\ dest \in [Procs -> Paths \union {NoPath}]
      /\ disk \in [Paths -> Contents \union {NoFile}]
      /\ (pc[p] \in Moving => dest[p] \in Paths /\ disk[dest[p]] = NoFile)
  BY DEF Inv, DiskOK, ProcsOK, ProcTypeOK, LocalOK, HasDest, Moving, Renders, NameIsFree
<1>1. CASE UNCHANGED vars
  BY <1>0, <1>1 DEF vars, procVars
<1>2. CASE EnvNext
  <2>1. CASE \E q \in Procs : Crash(q)
    BY <1>0, <2>1, OneProcess, SMT DEF Crash, End, Moving
  <2>2. CASE UNCHANGED procVars
    BY <1>0, <1>2, <2>2 DEF EnvNext, Crash, CopyToTrash, MoveToTrash, MoveToLibrary, Triage,
       ChangeBlockRules, Unlink, procVars, Idle, End
  <2>. QED
    BY <1>2, <2>1, <2>2 DEF EnvNext, CopyToTrash, MoveToTrash, MoveToLibrary, Triage,
       ChangeBlockRules
<1>3. CASE IngestNext(p)
  <2>1. CASE IngestChoose(p)
    BY <1>0, <2>1, ChooseIsFree DEF IngestChoose, Choose, Steps, IngestSteps, Roots, Moving
  <2>2. CASE ~ IngestChoose(p)
    BY <1>0, <1>3, <2>2 DEF IngestNext, IngestDrop, IngestPrefilter, IngestHash, EndAtOnce,
       IngestRules, IngestLookup, IngestKnown, IngestCommit, IngestStat, IngestFinalize,
       BlockRow, BlockIndex, BlockOrigin, BlockAudit, Begin, Goto, End, Idle, Moving
  <2>. QED
    BY <2>1, <2>2
<1>4. CASE OperatorNext(p)
  <2>1. CASE AcceptChoose(p)
    BY <1>0, <2>1, ChooseIsFree DEF AcceptChoose, Choose, Steps, OperatorSteps, Roots, Moving
  <2>2. CASE UnknownChoose(p)
    BY <1>0, <2>2, ChooseIsFree DEF UnknownChoose, Choose, Goto, Steps, OperatorSteps, Roots, Moving
  <2>3. CASE RejectChoose(p)
    BY <1>0, <2>3, ChooseIsFree DEF RejectChoose, Choose, Goto, Steps, OperatorSteps, Roots, Moving
  <2>4. CASE \E c \in Contents :
                AcceptStart(p, c) \/ PurgeStart(p, c) \/ RejectStart(p, c) \/ TrashStart(p, c)
    BY <1>0, <2>4, SMT DEF AcceptStart, PurgeStart, RejectStart, TrashStart, RejectBranch,
       EndAtOnce, Begin, Idle, Moving
  <2>5. CASE AcceptMove(p) \/ AcceptUnlink(p) \/ AcceptFinalize(p) \/ PurgeUnlink(p)
             \/ PurgeFinalize(p)
    BY <1>0, <2>5 DEF AcceptMove, AcceptUnlink, AcceptFinalize, PurgeUnlink, PurgeFinalize,
       Goto, End, Moving
  <2>6. CASE RejectNoop(p) \/ UnknownMove(p) \/ UnknownRow(p) \/ UnknownAudit(p) \/ RejectRead(p)
             \/ RejectCheck(p) \/ RejectClear(p) \/ RejectMove(p) \/ RejectPath(p)
             \/ RejectStatus(p) \/ TrashUnlink(p)
    BY <1>0, <2>6 DEF RejectNoop, UnknownMove, UnknownRow, UnknownAudit, RejectRead, RejectCheck,
       RejectClear, RejectMove, RejectPath, RejectStatus, TrashUnlink, RejectReturn, Goto, End,
       Moving
  <2>. QED
    BY <1>4, <2>1, <2>2, <2>3, <2>4, <2>5, <2>6 DEF OperatorNext
<1>. QED
  BY <1>1, <1>2, <1>3, <1>4, OneProcess DEF Next

\* The names chosen are free from start to end.
LEMMA ChosenNamesStayFree ==
    ASSUME Serial PROVE Spec => []NameIsFree
<1>1. Init => NameIsFree
  BY DEF Init, NameIsFree, Moving
<1>2. Inv /\ NameIsFree /\ [Next]_vars => NameIsFree'
  BY FreePreserved
<1>. QED
  BY <1>1, <1>2, Invariance, PTL DEF Spec

\* A step of a process leaves every file as it is or removes it.
LEMMA StepOverwritesNothing ==
    ASSUME Inv, NameIsFree, [Next]_vars, NEW path \in Paths, disk[path] # NoFile
    PROVE  disk'[path] \in {disk[path], NoFile}
<1>0. disk \in [Paths -> Contents \union {NoFile}]
  BY DEF Inv, DiskOK
<1>1. CASE UNCHANGED disk
  BY <1>1
<1>2. CASE EnvNext
  BY <1>0, <1>2 DEF EnvNext, Crash, CopyToTrash, MoveToTrash, MoveToLibrary, Triage,
     ChangeBlockRules, Unlink
<1>3. ASSUME NEW p \in Procs, IngestCommit(p) \/ UnknownMove(p) \/ AcceptMove(p) \/ RejectMove(p)
      PROVE  disk'[path] \in {disk[path], NoFile}
  <2>1. disk[dest[p]] = NoFile
    BY <1>3 DEF NameIsFree, Moving, IngestCommit, UnknownMove, AcceptMove, RejectMove, Goto, End
  <2>. QED
    BY <1>0, <1>3, <2>1 DEF IngestCommit, UnknownMove, AcceptMove, RejectMove, CopyTo, Rename
<1>4. ASSUME NEW p \in Procs, AcceptUnlink(p) \/ PurgeUnlink(p)
      PROVE  disk'[path] \in {disk[path], NoFile}
  BY <1>0, <1>4 DEF AcceptUnlink, PurgeUnlink, Unlink
<1>5. ASSUME NEW p \in Procs, IngestNext(p) \/ OperatorNext(p)
      PROVE  disk'[path] \in {disk[path], NoFile}
  BY <1>1, <1>3, <1>4, <1>5
     DEF IngestNext, OperatorNext, IngestDrop, IngestPrefilter, IngestHash, EndAtOnce, IngestRules,
     IngestLookup, IngestKnown, IngestStat, IngestFinalize, IngestChoose, Choose,
     BlockRow, BlockIndex, BlockOrigin, BlockAudit, AcceptStart, AcceptChoose, AcceptFinalize,
     PurgeStart, PurgeFinalize, RejectStart, TrashStart, RejectNoop, UnknownChoose, UnknownRow,
     UnknownAudit, RejectRead, RejectCheck, RejectClear, RejectChoose, RejectPath, RejectStatus,
     TrashUnlink
<1>. QED
  BY <1>1, <1>2, <1>5 DEF Next, vars

\* One command at a time never replaces a file: the name
\* choose_collision_safe_destination found free is still free when the file is
\* renamed or copied to it, whatever else happens to the queue and the trash
\* directory meanwhile.
THEOREM NothingIsOverwritten ==
    ASSUME Serial PROVE Spec => NoOverwrite
<1>1. Inv /\ NameIsFree /\ [Next]_vars
        => [\A path \in Paths :
               disk[path] # NoFile => disk'[path] \in {disk[path], NoFile}]_vars
  BY StepOverwritesNothing
<1>. QED
  BY <1>1, Invariance, ChosenNamesStayFree, PTL DEF Spec, NoOverwrite

-----------------------------------------------------------------------------
(* The audit log tells the status *)

\* Steps between the transaction that rejects a content and its audit row.
AuditOwed == {"unknown_audit", "block_index", "block_origin", "block_audit"}

\* The latest transition row of a content names its status, except while the
\* one command still owes the row of its rejection.
AuditInStep ==
    /\ \A c \in Contents :
          \/ audit_log[c] = files[c].status
          \/ \E p \in Procs : pc[p] \in AuditOwed /\ job[p].sha = c
    /\ \A p \in Procs : pc[p] \in AuditOwed => files[job[p].sha].status = "rejected"

\* A transaction that writes a row and its audit row keeps the log in step.
LEMMA AuditedOK ==
    ASSUME files \in [Contents -> Row], audit_log \in [Contents -> Statuses \union {"unknown"}],
           NEW c \in Contents, NEW s, NEW path, SetRow(c, s, path),
           audit_log' = [audit_log EXCEPT ![c] = s],
           \A d \in Contents : audit_log[d] = files[d].status
    PROVE  \A d \in Contents : audit_log'[d] = files'[d].status
  BY DEF SetRow, Row

\* A step of a command keeps the log in step, or owes a row.
LEMMA AuditStep ==
    ASSUME Inv, Serial, AuditInStep, NEW p \in Procs, IngestNext(p) \/ OperatorNext(p)
    PROVE  AuditInStep'
<1>0. /\ files \in [Contents -> Row] /\ audit_log \in [Contents -> Statuses \union {"unknown"}]
      /\ pc \in [Procs -> Steps]
      /\ ~ Idle(p) => job[p].sha \in Contents
  BY DEF Inv, RowsOK, RegistryTypeOK, ProcsOK, ProcTypeOK, LocalOK, Idle
<1> DEFINE Told == \A c \in Contents : audit_log[c] = files[c].status
<1>1. pc[p] \notin AuditOwed => Told
  BY OneProcess DEF AuditInStep
<1>2. Told' /\ pc'[p] \notin AuditOwed => AuditInStep'
  BY OneProcess, SMT DEF AuditInStep
<1>3. CASE BlockRow(p) \/ UnknownRow(p)
  <2>1. /\ pc[p] \in {"block_row", "unknown_row"} /\ pc'[p] \in AuditOwed
        /\ UNCHANGED <<audit_log, job>> /\ \E path : SetRow(job[p].sha, "rejected", path)
    BY <1>0, <1>3 DEF BlockRow, UnknownRow, CreateOrUpdateFile, Goto, AuditOwed
  <2>2. job[p].sha \in Contents /\ Told
    BY <1>0, <1>1, <2>1 DEF Idle, AuditOwed
  <2>3. /\ files'[job[p].sha].status = "rejected"
        /\ \A c \in Contents \ {job[p].sha} : files'[c] = files[c]
    BY <1>0, <2>1, <2>2, SMT DEF SetRow
  <2>. QED
    BY <2>1, <2>2, <2>3, OneProcess, SMT DEF AuditInStep
<1>4. CASE BlockIndex(p) \/ BlockOrigin(p)
  <2>1. pc[p] \in AuditOwed /\ pc'[p] \in AuditOwed /\ UNCHANGED <<files, audit_log, job>>
    BY <1>0, <1>4 DEF BlockIndex, BlockOrigin, UpsertMetadataIndex, UpsertFileOrigin, Goto, AuditOwed
  <2>. QED
    BY <2>1, OneProcess, SMT DEF AuditInStep
<1>5. CASE BlockAudit(p) \/ UnknownAudit(p)
  <2>1. /\ pc[p] \in AuditOwed /\ pc'[p] \notin AuditOwed /\ UNCHANGED files
        /\ audit_log' = [audit_log EXCEPT ![job[p].sha] = "rejected"]
    BY <1>0, <1>5 DEF BlockAudit, UnknownAudit, RejectReturn, AppendAuditEvent, Goto, End, AuditOwed
  <2>2. job[p].sha \in Contents /\ files[job[p].sha].status = "rejected"
    BY <1>0, <2>1 DEF Idle, AuditOwed, AuditInStep
  <2>3. \A c \in Contents : audit_log[c] = files[c].status \/ job[p].sha = c
    BY OneProcess, SMT DEF AuditInStep
  <2>. QED
    BY <1>0, <1>2, <2>1, <2>2, <2>3
<1>6. CASE IngestFinalize(p) \/ AcceptFinalize(p) \/ PurgeFinalize(p) \/ RejectStatus(p)
  <2>1. /\ pc[p] \in {"ingest_finalize", "accept_finalize", "purge_finalize", "reject_status"}
        /\ pc'[p] \notin AuditOwed
        /\ \/ UNCHANGED <<files, audit_log>>
           \/ \E s, path : /\ SetRow(job[p].sha, s, path)
                           /\ audit_log' = [audit_log EXCEPT ![job[p].sha] = s]
    BY <1>0, <1>6 DEF IngestFinalize, FinalizeUnknownIngest, AcceptFinalize,
       FinalizeAcceptFromPending, PurgeFinalize, FinalizePurgeFromRejected, RejectStatus,
       RejectReturn, TransitionStatus, Goto, End, AuditOwed, registryVars
  <2>2. job[p].sha \in Contents /\ Told
    BY <1>0, <1>1, <2>1 DEF Idle, AuditOwed
  <2>3. Told'
    BY <1>0, <2>1, <2>2, AuditedOK
  <2>. QED
    BY <1>2, <2>1, <2>3
<1>7. CASE RejectClear(p) \/ RejectPath(p)
  <2>1. /\ pc[p] \in {"reject_clear", "reject_path"} /\ pc'[p] \notin AuditOwed /\ UNCHANGED audit_log
        /\ \E path : SetRow(job[p].sha, files[job[p].sha].status, path)
    BY <1>0, <1>7 DEF RejectClear, RejectPath, UpdateCurrentPath, Goto, AuditOwed
  <2>2. job[p].sha \in Contents /\ Told
    BY <1>0, <1>1, <2>1 DEF Idle, AuditOwed
  <2>3. Told'
    BY <1>0, <2>1, <2>2, SMT DEF SetRow, Row
  <2>. QED
    BY <1>2, <2>1, <2>3
<1>8. CASE ~ (BlockRow(p) \/ UnknownRow(p) \/ BlockIndex(p) \/ BlockOrigin(p) \/ BlockAudit(p)
              \/ UnknownAudit(p) \/ IngestFinalize(p) \/ AcceptFinalize(p) \/ PurgeFinalize(p)
              \/ RejectStatus(p) \/ RejectClear(p) \/ RejectPath(p))
  <2>1. UNCHANGED <<files, audit_log>>
    BY <1>8 DEF IngestNext, OperatorNext, IngestDrop, IngestPrefilter, IngestHash, EndAtOnce,
       IngestRules, IngestLookup, IngestKnown, FinalizeKnownIngest, IngestChoose, IngestCommit,
       IngestStat, AcceptStart, AcceptChoose, AcceptMove, AcceptUnlink, PurgeStart, PurgeUnlink,
       RejectStart, TrashStart, RejectNoop, UnknownChoose, UnknownMove, RejectRead, RejectCheck,
       RejectChoose, RejectMove, TrashUnlink, Choose, registryVars
  <2>2. pc[p] \notin AuditOwed /\ pc'[p] \notin AuditOwed
    <3>1. CASE IngestNext(p)
      BY <1>0, <1>8, <3>1 DEF IngestNext, IngestDrop, IngestPrefilter, IngestHash, EndAtOnce,
         IngestRules, IngestLookup, IngestKnown, IngestChoose, IngestCommit, IngestStat,
         Choose, Begin, Goto, End, Idle, AuditOwed
    <3>2. CASE \E c \in Contents :
                  AcceptStart(p, c) \/ PurgeStart(p, c) \/ RejectStart(p, c) \/ TrashStart(p, c)
      BY <1>0, <3>2, SMT DEF AcceptStart, PurgeStart, RejectStart, TrashStart, RejectBranch,
         EndAtOnce,
         Begin, Idle, AuditOwed
    <3>3. CASE AcceptChoose(p) \/ AcceptMove(p) \/ AcceptUnlink(p) \/ PurgeUnlink(p)
               \/ RejectNoop(p) \/ UnknownChoose(p) \/ UnknownMove(p)
      BY <1>0, <3>3 DEF AcceptChoose, AcceptMove, AcceptUnlink, PurgeUnlink, RejectNoop,
         UnknownChoose, UnknownMove, Choose, Goto, End, AuditOwed
    <3>4. CASE RejectRead(p) \/ RejectCheck(p) \/ RejectChoose(p) \/ RejectMove(p) \/ TrashUnlink(p)
      BY <1>0, <3>4 DEF RejectRead, RejectCheck, RejectChoose, RejectMove, TrashUnlink, Choose,
         Goto, End, AuditOwed
    <3>. QED
      BY <1>8, <3>1, <3>2, <3>3, <3>4 DEF OperatorNext
  <2>. QED
    BY <1>1, <1>2, <2>1, <2>2
<1>. QED
  BY <1>3, <1>4, <1>5, <1>6, <1>7, <1>8

\* Commands that run to their end one at a time leave an audit log whose latest
\* transition row names the status of every content, also where the rejection and
\* its audit row are two transactions (block rules, unknown hashes), and
\* whatever the operator moves by hand or changes in the block rules meanwhile.
THEOREM AuditIsComplete ==
    ASSUME Serial, Env \intersect {"crash", "triage"} = {}
    PROVE  Spec => []AuditTellsStatus
<1>1. Init => AuditInStep
  BY SMT DEF Init, RegistryInit, NoRow, AuditInStep, AuditOwed
<1>2. ASSUME Inv, AuditInStep, [Next]_vars PROVE AuditInStep'
  <2>1. CASE \E p \in Procs : IngestNext(p) \/ OperatorNext(p)
    BY <1>2, <2>1, AuditStep
  <2>2. CASE UNCHANGED <<files, audit_log, procVars>>
    BY <1>2, <2>2 DEF AuditInStep, procVars
  <2>3. CASE EnvNext
    BY <2>2, <2>3 DEF EnvNext, Crash, CopyToTrash, MoveToTrash, MoveToLibrary, Triage,
       ChangeBlockRules, SetBlockRules, registryVars
  <2>. QED
    BY <1>2, <2>1, <2>2, <2>3 DEF Next, vars, registryVars
<1>3. AuditInStep => AuditTellsStatus
  BY DEF AuditInStep, AuditTellsStatus, Idle, AuditOwed
<1>. QED
  BY <1>1, <1>2, <1>3, Invariance, PTL DEF Spec

-----------------------------------------------------------------------------
(* The review queue is implemented *)

\* Steps of a command that found its content unknown ...
FoundUnknown == {"ingest_choose", "ingest_commit", "ingest_stat", "ingest_finalize",
                 "unknown_choose", "unknown_move"}

\* ... and steps at which the file is at its destination.
Arrived == {"ingest_finalize", "accept_unlink", "accept_finalize"}

\* What a command found in the registry and put on disk is still so while it
\* is the only one.
CommandOK(p) ==
    /\ pc[p] \in FoundUnknown => files[job[p].sha].status = "unknown"
    /\ pc[p] \in Arrived => disk[dest[p]] = job[p].sha
    /\ pc[p] = "accept_unlink" => dest[p].root = "accepted"
    /\ pc[p] = "purge_unlink" => files[job[p].sha].status = "rejected"

CommandsOK == \A p \in Procs : CommandOK(p)

\* What may happen besides the commands when the promise is to be kept: a web
\* triage changes a status whatever the file, and the operator's own moves take
\* files away.
EnvIsTame == Env \subseteq {"crash", "trash_copy", "block_rules"}

\* A process outside the steps CommandOK speaks of satisfies it.
LEMMA CommandOKElsewhere ==
    ASSUME NEW p \in Procs,
           pc'[p] \notin FoundUnknown \union Arrived \union {"purge_unlink"}
    PROVE  CommandOK(p)'
  BY DEF CommandOK, FoundUnknown, Arrived

\* The steps of a poll worker keep what it found.
LEMMA CommandOKIngest ==
    ASSUME UniqueNames, Inv, NEW p \in Procs, CommandOK(p), IngestNext(p)
    PROVE  CommandOK(p)'
<1>0. pc \in [Procs -> Steps] /\ dest \in [Procs -> Paths \union {NoPath}]
  BY DEF Inv, ProcsOK, ProcTypeOK
<1>1. CASE IngestLookup(p)
  BY <1>0, <1>1 DEF IngestLookup, Goto, CommandOK, FoundUnknown, Arrived, Known, registryVars
<1>2. CASE IngestChoose(p)
  <2>1. pc[p] = "ingest_choose" /\ UNCHANGED files /\ pc'[p] \in {"ingest_commit", "idle"}
    BY <1>0, <1>2 DEF IngestChoose, Choose, Goto, End, registryVars
  <2>2. pc'[p] = "ingest_commit" => UNCHANGED job
    BY <1>0, <1>2 DEF IngestChoose, Choose, Goto, End
  <2>. QED
    BY <2>1, <2>2 DEF CommandOK, FoundUnknown, Arrived
<1>3. CASE IngestCommit(p)
  BY <1>0, <1>3 DEF IngestCommit, Goto, CommandOK, FoundUnknown, Arrived, registryVars
<1>4. CASE IngestStat(p)
  <2>1. CASE pc'[p] = "idle"
    BY <2>1, CommandOKElsewhere DEF FoundUnknown, Arrived
  <2>2. CASE Exists(disk, dest[p])
    <3>1. pc[p] = "ingest_stat" /\ pc'[p] = "ingest_finalize" /\ UNCHANGED <<files, disk, job, dest>>
      BY <1>0, <1>4, <2>2 DEF IngestStat, Goto, registryVars
    <3>2. job[p].sha \in Contents /\ Renders(dest[p], job[p].sha) /\ DiskOK
      BY <3>1 DEF Inv, ProcsOK, LocalOK, HasDest
    <3>3. disk[dest[p]] = job[p].sha
      BY <2>2, <3>2, OwnFile DEF Exists
    <3>. QED
      BY <3>1, <3>3 DEF CommandOK, FoundUnknown, Arrived
  <2>. QED
    BY <1>0, <1>4, <2>1, <2>2 DEF IngestStat, End
<1>5. CASE ~ (IngestLookup(p) \/ IngestChoose(p) \/ IngestCommit(p) \/ IngestStat(p))
  <2>1. pc'[p] \notin FoundUnknown \union Arrived \union {"purge_unlink"}
    BY <1>0, <1>5 DEF IngestNext, IngestDrop, IngestPrefilter, IngestHash, EndAtOnce, IngestRules,
       IngestKnown, IngestFinalize, BlockRow, BlockIndex, BlockOrigin, BlockAudit,
       Begin, Goto, End, Idle, FoundUnknown, Arrived
  <2>. QED
    BY <2>1, CommandOKElsewhere
<1>. QED
  BY <1>1, <1>2, <1>3, <1>4, <1>5

\* The steps of an operator command keep what it found.
LEMMA CommandOKOperator ==
    ASSUME UniqueNames, Inv, NEW p \in Procs, CommandOK(p), OperatorNext(p)
    PROVE  CommandOK(p)'
<1>0. /\ pc \in [Procs -> Steps] /\ dest \in [Procs -> Paths \union {NoPath}]
      /\ job \in [Procs -> Jobs]
  BY DEF Inv, ProcsOK, ProcTypeOK
<1>1. ASSUME NEW c \in Contents, PurgeStart(p, c) PROVE CommandOK(p)'
  BY <1>0, <1>1, SMT DEF PurgeStart, Purgeable, Begin, EndAtOnce, Idle, CommandOK, FoundUnknown,
     Arrived, registryVars
<1>2. ASSUME NEW c \in Contents, RejectStart(p, c) \/ TrashStart(p, c) PROVE CommandOK(p)'
  <2>1. /\ UNCHANGED files /\ job'[p].sha = c
        /\ pc'[p] \in {"trash_unlink", "reject_noop", "unknown_choose", "unknown_row", "reject_read"}
        /\ pc'[p] = "unknown_choose" => files[c].status = "unknown"
    BY <1>0, <1>2, SMT DEF RejectStart, TrashStart, RejectBranch, Begin, Known, registryVars
  <2>. QED
    BY <2>1 DEF CommandOK, FoundUnknown, Arrived
<1>3. CASE UnknownChoose(p)
  <2>1. /\ pc[p] = "unknown_choose" /\ UNCHANGED files
        /\ pc'[p] \in {"unknown_move", "unknown_row", "idle"}
    BY <1>0, <1>3 DEF UnknownChoose, Choose, Goto, End, registryVars
  <2>2. pc'[p] = "unknown_move" => UNCHANGED job
    BY <1>0, <1>3 DEF UnknownChoose, Choose, Goto, End
  <2>. QED
    BY <2>1, <2>2 DEF CommandOK, FoundUnknown, Arrived
<1>4. CASE AcceptMove(p)
  <2>1. CASE pc'[p] = "idle"
    BY <2>1, CommandOKElsewhere DEF FoundUnknown, Arrived
  <2>2. CASE Exists(disk, seen[p].path)
    <3>1. /\ pc[p] = "accept_move" /\ pc'[p] \in {"accept_unlink", "accept_finalize"}
          /\ UNCHANGED <<job, dest>>
          /\ disk' \in {Rename(disk, seen[p].path, dest[p]),
                        CopyTo(disk, disk[seen[p].path], dest[p])}
      BY <1>0, <1>4, <2>2 DEF AcceptMove, Goto
    <3>2. /\ job[p].sha \in Contents /\ DiskOK
          /\ Renders(dest[p], job[p].sha) /\ dest[p].root = "accepted"
          /\ Renders(seen[p].path, job[p].sha) /\ seen[p].path.root = "pending"
      BY <3>1 DEF Inv, ProcsOK, LocalOK, HasDest, HasSource
    <3>3. disk[seen[p].path] = job[p].sha
      BY <2>2, <3>2, OwnFile DEF Exists
    <3>4. disk'[dest[p]] = job[p].sha
      BY <3>1, <3>2, <3>3 DEF DiskOK, Rename, CopyTo, Renders
    <3>. QED
      BY <3>1, <3>2, <3>4 DEF CommandOK, FoundUnknown, Arrived
  <2>. QED
    BY <1>0, <1>4, <2>1, <2>2 DEF AcceptMove, End
<1>5. CASE AcceptUnlink(p)
  <2>1. /\ pc[p] = "accept_unlink" /\ pc'[p] = "accept_finalize" /\ UNCHANGED <<job, dest>>
        /\ disk' = Unlink(disk, seen[p].path)
    BY <1>0, <1>5 DEF AcceptUnlink, Goto
  <2>2. /\ Renders(dest[p], job[p].sha) /\ dest[p].root = "accepted"
        /\ Renders(seen[p].path, job[p].sha) /\ seen[p].path.root = "pending"
        /\ disk[dest[p]] = job[p].sha /\ DiskOK
    BY <2>1 DEF Inv, ProcsOK, LocalOK, HasDest, HasSource, CommandOK, Arrived
  <2>3. disk'[dest[p]] = job[p].sha
    BY <2>1, <2>2 DEF DiskOK, Unlink, Renders
  <2>. QED
    BY <2>1, <2>3 DEF CommandOK, FoundUnknown, Arrived
<1>6. CASE /\ \A c \in Contents : ~ (PurgeStart(p, c) \/ RejectStart(p, c) \/ TrashStart(p, c))
           /\ ~ (UnknownChoose(p) \/ AcceptMove(p) \/ AcceptUnlink(p))
  <2>1. pc'[p] \notin FoundUnknown \union Arrived \union {"purge_unlink"}
    <3>1. CASE \E c \in Contents : AcceptStart(p, c)
      BY <1>0, <3>1 DEF AcceptStart, EndAtOnce, Begin, Idle, FoundUnknown, Arrived
    <3>2. CASE AcceptChoose(p) \/ AcceptFinalize(p) \/ PurgeUnlink(p) \/ PurgeFinalize(p)
               \/ RejectNoop(p) \/ UnknownMove(p) \/ UnknownRow(p) \/ UnknownAudit(p)
      BY <1>0, <3>2 DEF AcceptChoose, Choose, AcceptFinalize, PurgeUnlink, PurgeFinalize, RejectNoop,
         UnknownMove, UnknownRow, UnknownAudit, RejectReturn, Goto, End, FoundUnknown, Arrived
    <3>3. CASE RejectRead(p) \/ RejectCheck(p) \/ RejectClear(p) \/ RejectChoose(p)
               \/ RejectMove(p) \/ RejectPath(p) \/ RejectStatus(p) \/ TrashUnlink(p)
      BY <1>0, <3>3 DEF RejectRead, RejectCheck, RejectClear, RejectChoose, Choose, RejectMove,
         RejectPath, RejectStatus, RejectReturn, TrashUnlink, Goto, End, FoundUnknown, Arrived
    <3>. QED
      BY <1>6, <3>1, <3>2, <3>3 DEF OperatorNext
  <2>. QED
    BY <2>1, CommandOKElsewhere
<1>. QED
  BY <1>1, <1>2, <1>3, <1>4, <1>5, <1>6

\* Nothing else that may happen disturbs the one command.
LEMMA CommandsPreserved ==
    ASSUME UniqueNames, Serial, EnvIsTame, Inv, CommandsOK, [Next]_vars
    PROVE  CommandsOK'
<1> SUFFICES ASSUME NEW p \in Procs PROVE CommandOK(p)'
  BY DEF CommandsOK
<1>0. CommandOK(p) /\ pc \in [Procs -> Steps]
  BY DEF CommandsOK, Inv, ProcsOK, ProcTypeOK
<1>1. CASE IngestNext(p)
  BY <1>0, <1>1, CommandOKIngest
<1>2. CASE OperatorNext(p)
  BY <1>0, <1>2, CommandOKOperator
<1>3. CASE \E q \in Procs : Crash(q)
  BY <1>0, <1>3, OneProcess, CommandOKElsewhere DEF Crash, End, FoundUnknown, Arrived
<1>4. CASE UNCHANGED <<files, disk, procVars>>
  BY <1>0, <1>4 DEF CommandOK, procVars
<1>5. CASE EnvNext
  BY <1>3, <1>4, <1>5 DEF EnvNext, EnvIsTame, CopyToTrash, MoveToTrash, MoveToLibrary, Triage,
     ChangeBlockRules, SetBlockRules, registryVars
<1>. QED
  BY <1>1, <1>2, <1>4, <1>5, OneProcess DEF Next, vars, registryVars

\* What a command found stays true until it acts on it.
LEMMA CommandsInvariance ==
    ASSUME UniqueNames, Serial, EnvIsTame PROVE Spec => []CommandsOK
<1>1. Init => CommandsOK
  BY DEF Init, CommandsOK, CommandOK, FoundUnknown, Arrived
<1>2. Inv /\ CommandsOK /\ [Next]_vars => CommandsOK'
  BY CommandsPreserved
<1>. QED
  BY <1>1, <1>2, Invariance, PTL DEF Spec

\* Writing a row changes the content's status and no bytes.
LEMMA RowMaps ==
    ASSUME files \in [Contents -> Row], NEW c \in Contents, NEW s, NEW path,
           SetRow(c, s, path), UNCHANGED disk
    PROVE  Queue!SetStatus(c, s)
  BY DEF SetRow, Queue!SetStatus, Row

\* A content the disk holds is kept, in the words of the abstract queue.
LEMMA HeldIsKept ==
    ASSUME NEW c \in Contents, NEW path \in Paths, disk[path] = c
    PROVE  c \in {d \in Contents : Held(disk, d)}
  BY DEF Held

\* A step that leaves the files rows and the files alone is a stuttering step.
LEMMA StutterMaps ==
    ASSUME UNCHANGED <<files, disk>> PROVE UNCHANGED Queue!queueVars
  BY DEF Queue!queueVars

\* A file that appears is an arrival of an unknown content.
LEMMA CopyMaps ==
    ASSUME UniqueNames, DiskOK, NEW c \in Contents, NEW dst \in Paths,
           dst.name \in NamesOf[c], files[c].status = "unknown", disk' = CopyTo(disk, c, dst), UNCHANGED files
    PROVE  Queue!Arrive(c)
<1>1. \A d \in Contents : Held(disk, d) => Held(disk', d)
  BY CopyHolds
<1>2. \A d \in Contents : Held(disk', d) => d = c \/ Held(disk, d)
  BY DEF DiskOK, Held, CopyTo
<1>3. Held(disk', c)
  BY DEF DiskOK, Held, CopyTo
<1>. QED
  BY <1>1, <1>2, <1>3 DEF Queue!Arrive

\* Moving a file neither keeps nor destroys anything.
LEMMA RenameMaps ==
    ASSUME UniqueNames, DiskOK, NEW c \in Contents, NEW src, NEW dst, Renders(src, c),
           Renders(dst, c), src # dst, disk[src] # NoFile, disk' = Rename(disk, src, dst),
           UNCHANGED files
    PROVE  UNCHANGED Queue!queueVars
<1>1. \A d \in Contents : Held(disk, d) => Held(disk', d)
  BY RenameHolds
<1>2. \A d \in Contents : Held(disk', d) => Held(disk, d)
  BY DEF DiskOK, Held, Rename, Renders
<1>. QED
  BY <1>1, <1>2 DEF Queue!queueVars

\* Removing a file of c destroys at most c.
LEMMA UnlinkMaps ==
    ASSUME UniqueNames, DiskOK, NEW c \in Contents, NEW path \in Paths,
           path.name \in NamesOf[c], disk' = Unlink(disk, path), UNCHANGED files
    PROVE  /\ files[c].status = "rejected" => Queue!Destroy(c) \/ UNCHANGED Queue!queueVars
           /\ Held(disk', c) => UNCHANGED Queue!queueVars
<1>1. \A d \in Contents \ {c} : Held(disk, d) => Held(disk', d)
  BY UnlinkHolds
<1>2. \A d \in Contents : Held(disk', d) => Held(disk, d)
  BY DEF DiskOK, Held, Unlink
<1>. QED
  BY <1>1, <1>2 DEF Queue!queueVars, Queue!Destroy

\* Updating a row's path is a stuttering step.
LEMMA PathMaps ==
    ASSUME files \in [Contents -> Row], NEW c \in Contents, NEW path,
           UpdateCurrentPath(c, path), UNCHANGED disk
    PROVE  UNCHANGED Queue!queueVars
<1>1. \A d \in Contents : files'[d].status = files[d].status
  BY DEF UpdateCurrentPath, SetRow, Row
<1>. QED
  BY <1>1 DEF Queue!queueVars

\* What a process in mid-command knows.
LEMMA CommandFacts ==
    ASSUME Inv, CommandsOK, NEW p \in Procs, ~ Idle(p)
    PROVE  /\ job[p].sha \in Contents /\ files \in [Contents -> Row] /\ DiskOK
           /\ LocalOK(p) /\ CommandOK(p)
  BY DEF Inv, RowsOK, RegistryTypeOK, ProcsOK, LocalOK, CommandsOK, Idle

\* A poll worker brings bytes, queues an unknown content, or rejects it by rule.
LEMMA IngestMaps ==
    ASSUME UniqueNames, Inv, CommandsOK, NEW p \in Procs, IngestNext(p)
    PROVE  Queue!Next \/ UNCHANGED Queue!queueVars
<1>1. CASE IngestCommit(p)
  <2>1. pc[p] = "ingest_commit" /\ UNCHANGED files /\ disk' = CopyTo(disk, job[p].sha, dest[p])
    BY <1>1 DEF IngestCommit, Goto, registryVars
  <2>2. /\ job[p].sha \in Contents /\ DiskOK /\ Renders(dest[p], job[p].sha)
        /\ files[job[p].sha].status = "unknown"
    BY <2>1, CommandFacts DEF Idle, LocalOK, HasDest, CommandOK, FoundUnknown
  <2>3. Queue!Arrive(job[p].sha)
    BY <2>1, <2>2, CopyMaps DEF Renders
  <2>. QED
    BY <2>2, <2>3 DEF Queue!Next
<1>2. CASE IngestFinalize(p)
  <2>1. pc[p] = "ingest_finalize" /\ UNCHANGED disk /\ SetRow(job[p].sha, "pending", dest[p])
    BY <1>2 DEF IngestFinalize, End, FinalizeUnknownIngest
  <2>2. /\ job[p].sha \in Contents /\ files \in [Contents -> Row]
        /\ Renders(dest[p], job[p].sha)
        /\ files[job[p].sha].status = "unknown" /\ disk[dest[p]] = job[p].sha
    BY <2>1, CommandFacts DEF Idle, LocalOK, HasDest, CommandOK, FoundUnknown, Arrived
  <2>3. Queue!SetStatus(job[p].sha, "pending")
    BY <2>1, <2>2, RowMaps
  <2>4. Queue!Discover(job[p].sha)
    BY <2>2, <2>3, HeldIsKept DEF Queue!Discover, Renders
  <2>. QED
    BY <2>2, <2>4 DEF Queue!Next, Queue!Discover, Queue!SetStatus
<1>3. CASE BlockRow(p)
  <2>1. pc[p] = "block_row" /\ UNCHANGED disk /\ SetRow(job[p].sha, "rejected", NoPath)
    BY <1>3 DEF BlockRow, Goto, CreateOrUpdateFile
  <2>2. job[p].sha \in Contents /\ files \in [Contents -> Row]
    BY <2>1, CommandFacts DEF Idle
  <2>3. Queue!Reject(job[p].sha)
    BY <2>1, <2>2, RowMaps DEF Queue!Reject
  <2>. QED
    BY <2>2, <2>3 DEF Queue!Next, Queue!Reject, Queue!SetStatus
<1>4. CASE ~ (IngestCommit(p) \/ IngestFinalize(p) \/ BlockRow(p))
  <2>1. UNCHANGED <<files, disk>>
    BY <1>4 DEF IngestNext, IngestDrop, IngestPrefilter, IngestHash, EndAtOnce, IngestRules,
       IngestLookup, IngestKnown, FinalizeKnownIngest, IngestChoose, Choose, IngestStat,
       BlockIndex, UpsertMetadataIndex, BlockOrigin, UpsertFileOrigin, BlockAudit,
       AppendAuditEvent, registryVars
  <2>. QED
    BY <2>1, StutterMaps
<1>. QED
  BY <1>1, <1>2, <1>3, <1>4

\* Accepting moves a pending content and then says so.
LEMMA AcceptMaps ==
    ASSUME UniqueNames, Inv, CommandsOK, NEW p \in Procs,
           AcceptMove(p) \/ AcceptUnlink(p) \/ AcceptFinalize(p)
    PROVE  Queue!Next \/ UNCHANGED Queue!queueVars
<1>0. CASE UNCHANGED <<files, disk>>
  BY <1>0, StutterMaps
<1>1. CASE AcceptMove(p) /\ ~ UNCHANGED <<files, disk>>
  <2>1. /\ pc[p] = "accept_move" /\ UNCHANGED files /\ Exists(disk, seen[p].path)
        /\ \/ disk' = Rename(disk, seen[p].path, dest[p])
           \/ disk' = CopyTo(disk, disk[seen[p].path], dest[p])
    BY <1>1 DEF AcceptMove, Goto, registryVars
  <2>2. /\ job[p].sha \in Contents /\ DiskOK
        /\ Renders(dest[p], job[p].sha) /\ dest[p].root = "accepted"
        /\ Renders(seen[p].path, job[p].sha) /\ seen[p].path.root = "pending"
    BY <2>1, CommandFacts DEF Idle, LocalOK, HasDest, HasSource
  <2>3. disk[seen[p].path] = job[p].sha
    BY <2>1, <2>2, OwnFile DEF Exists
  <2>4. CASE disk' = Rename(disk, seen[p].path, dest[p])
    BY <2>1, <2>2, <2>4, RenameMaps DEF Renders, Exists
  <2>5. CASE disk' = CopyTo(disk, disk[seen[p].path], dest[p])
    <3>1. \A d \in Contents : Held(disk, d) => Held(disk', d)
      BY <2>2, <2>3, <2>5, CopyHolds DEF Renders
    <3>2. \A d \in Contents : Held(disk', d) => Held(disk, d)
      BY <2>2, <2>3, <2>5 DEF DiskOK, Held, CopyTo, Renders
    <3>. QED
      BY <2>1, <3>1, <3>2 DEF Queue!queueVars
  <2>. QED
    BY <2>1, <2>4, <2>5
<1>2. CASE AcceptUnlink(p)
  <2>1. pc[p] = "accept_unlink" /\ UNCHANGED files /\ disk' = Unlink(disk, seen[p].path)
    BY <1>2 DEF AcceptUnlink, Goto, registryVars
  <2>2. /\ job[p].sha \in Contents /\ DiskOK
        /\ Renders(dest[p], job[p].sha) /\ dest[p].root = "accepted"
        /\ Renders(seen[p].path, job[p].sha) /\ seen[p].path.root = "pending"
        /\ disk[dest[p]] = job[p].sha
    BY <2>1, CommandFacts DEF Idle, LocalOK, HasDest, HasSource, CommandOK, Arrived
  <2>3. Held(disk', job[p].sha)
    BY <2>1, <2>2 DEF Held, DiskOK, Unlink, Renders
  <2>. QED
    BY <2>1, <2>2, <2>3, UnlinkMaps DEF Renders
<1>3. CASE AcceptFinalize(p) /\ ~ UNCHANGED <<files, disk>>
  <2>1. /\ pc[p] = "accept_finalize" /\ UNCHANGED disk
        /\ files[job[p].sha].status = "pending" /\ SetRow(job[p].sha, "accepted", dest[p])
    BY <1>3 DEF AcceptFinalize, End, FinalizeAcceptFromPending, registryVars
  <2>2. /\ job[p].sha \in Contents /\ files \in [Contents -> Row]
        /\ Renders(dest[p], job[p].sha) /\ disk[dest[p]] = job[p].sha
    BY <2>1, CommandFacts DEF Idle, LocalOK, HasDest, CommandOK, Arrived
  <2>3. Queue!SetStatus(job[p].sha, "accepted")
    BY <2>1, <2>2, RowMaps
  <2>4. Queue!Accept(job[p].sha)
    BY <2>1, <2>2, <2>3, HeldIsKept DEF Queue!Accept, Renders
  <2>. QED
    BY <2>2, <2>4 DEF Queue!Next, Queue!Accept, Queue!SetStatus
<1>. QED
  BY <1>0, <1>1, <1>2, <1>3

\* A purge destroys a rejected content and then says so.
LEMMA PurgeMaps ==
    ASSUME UniqueNames, Inv, CommandsOK, NEW p \in Procs, PurgeUnlink(p) \/ PurgeFinalize(p)
    PROVE  Queue!Next \/ UNCHANGED Queue!queueVars
<1>0. CASE UNCHANGED <<files, disk>>
  BY <1>0, StutterMaps
<1>1. CASE PurgeUnlink(p)
  <2>1. pc[p] = "purge_unlink" /\ UNCHANGED files /\ disk' = Unlink(disk, seen[p].path)
    BY <1>1 DEF PurgeUnlink, Goto, registryVars
  <2>2. /\ job[p].sha \in Contents /\ DiskOK /\ Renders(seen[p].path, job[p].sha)
        /\ files[job[p].sha].status = "rejected"
    BY <2>1, CommandFacts DEF Idle, LocalOK, HasSource, CommandOK
  <2>3. Queue!Destroy(job[p].sha) \/ UNCHANGED Queue!queueVars
    BY <2>1, <2>2, UnlinkMaps DEF Renders
  <2>. QED
    BY <2>2, <2>3 DEF Queue!Next
<1>2. CASE PurgeFinalize(p) /\ ~ UNCHANGED <<files, disk>>
  <2>1. /\ pc[p] = "purge_finalize" /\ UNCHANGED disk
        /\ files[job[p].sha].status = "rejected" /\ SetRow(job[p].sha, "purged", NoPath)
    BY <1>2 DEF PurgeFinalize, End, FinalizePurgeFromRejected, registryVars
  <2>2. job[p].sha \in Contents /\ files \in [Contents -> Row]
    BY <2>1, CommandFacts DEF Idle
  <2>3. Queue!Purge(job[p].sha)
    BY <2>1, <2>2, RowMaps DEF Queue!Purge
  <2>. QED
    BY <2>2, <2>3 DEF Queue!Next, Queue!Purge, Queue!SetStatus
<1>. QED
  BY <1>0, <1>1, <1>2

\* A rejection brings the bytes of an unknown content, moves those of a known
\* one, and says so; what it does to the trash directory is not part of the queue.
LEMMA RejectMaps ==
    ASSUME UniqueNames, Inv, CommandsOK, NEW p \in Procs,
           UnknownMove(p) \/ UnknownRow(p) \/ RejectClear(p) \/ RejectMove(p) \/ RejectPath(p)
             \/ RejectStatus(p)
    PROVE  Queue!Next \/ UNCHANGED Queue!queueVars
<1>0. CASE UNCHANGED <<files, disk>>
  BY <1>0, StutterMaps
<1>1. CASE UnknownMove(p) /\ ~ UNCHANGED <<files, disk>>
  <2>1. pc[p] = "unknown_move" /\ UNCHANGED files /\ disk' = CopyTo(disk, job[p].sha, dest[p])
    BY <1>1 DEF UnknownMove, Goto, registryVars
  <2>2. /\ job[p].sha \in Contents /\ DiskOK /\ Renders(dest[p], job[p].sha)
        /\ files[job[p].sha].status = "unknown"
    BY <2>1, CommandFacts DEF Idle, LocalOK, HasDest, CommandOK, FoundUnknown
  <2>3. Queue!Arrive(job[p].sha)
    BY <2>1, <2>2, CopyMaps DEF Renders
  <2>. QED
    BY <2>2, <2>3 DEF Queue!Next
<1>2. CASE UnknownRow(p)
  <2>1. pc[p] = "unknown_row" /\ UNCHANGED disk /\ SetRow(job[p].sha, "rejected", dest[p])
    BY <1>2 DEF UnknownRow, Goto, CreateOrUpdateFile
  <2>2. job[p].sha \in Contents /\ files \in [Contents -> Row]
    BY <2>1, CommandFacts DEF Idle
  <2>3. Queue!Reject(job[p].sha)
    BY <2>1, <2>2, RowMaps DEF Queue!Reject
  <2>. QED
    BY <2>2, <2>3 DEF Queue!Next, Queue!Reject, Queue!SetStatus
<1>3. CASE RejectClear(p) \/ RejectPath(p)
  <2>1. /\ pc[p] \in {"reject_clear", "reject_path"} /\ UNCHANGED disk
        /\ \E path : UpdateCurrentPath(job[p].sha, path)
    BY <1>3 DEF RejectClear, RejectPath, Goto
  <2>2. job[p].sha \in Contents /\ files \in [Contents -> Row]
    BY <2>1, CommandFacts DEF Idle
  <2>. QED
    BY <2>1, <2>2, PathMaps
<1>4. CASE RejectMove(p) /\ ~ UNCHANGED <<files, disk>>
  <2>1. /\ pc[p] = "reject_move" /\ UNCHANGED files /\ Exists(disk, seen[p].path)
        /\ disk' = Rename(disk, seen[p].path, dest[p])
    BY <1>4 DEF RejectMove, Goto, registryVars
  <2>2. /\ DiskOK /\ job[p].sha \in Contents
        /\ Renders(dest[p], job[p].sha) /\ dest[p].root = "rejected"
        /\ Renders(seen[p].path, job[p].sha) /\ seen[p].path.root # "rejected"
    BY <2>1, CommandFacts DEF Idle, LocalOK, HasDest, HasSource
  <2>. QED
    BY <2>1, <2>2, RenameMaps DEF Exists
<1>5. CASE RejectStatus(p)
  <2>1. /\ pc[p] = "reject_status" /\ UNCHANGED disk
        /\ SetRow(job[p].sha, "rejected", files[job[p].sha].path)
    BY <1>5 DEF RejectStatus, RejectReturn, Goto, End, TransitionStatus
  <2>2. job[p].sha \in Contents /\ files \in [Contents -> Row]
    BY <2>1, CommandFacts DEF Idle
  <2>3. Queue!Reject(job[p].sha)
    BY <2>1, <2>2, RowMaps DEF Queue!Reject
  <2>. QED
    BY <2>2, <2>3 DEF Queue!Next, Queue!Reject, Queue!SetStatus
<1>. QED
  BY <1>0, <1>1, <1>2, <1>3, <1>4, <1>5

\* Every step is a step of the review queue or changes nothing of it.
LEMMA NextMaps ==
    ASSUME UniqueNames, EnvIsTame, Inv, CommandsOK, [Next]_vars
    PROVE  [Queue!Next]_(Queue!queueVars)
<1>0. CASE UNCHANGED <<files, disk>>
  BY <1>0, StutterMaps
<1>1. CASE \E p \in Procs : IngestNext(p)
  BY <1>1, IngestMaps
<1>2. ASSUME NEW p \in Procs, OperatorNext(p) PROVE [Queue!Next]_(Queue!queueVars)
  <2>1. CASE AcceptMove(p) \/ AcceptUnlink(p) \/ AcceptFinalize(p)
    BY <2>1, AcceptMaps
  <2>2. CASE PurgeUnlink(p) \/ PurgeFinalize(p)
    BY <2>2, PurgeMaps
  <2>3. CASE UnknownMove(p) \/ UnknownRow(p) \/ RejectClear(p) \/ RejectMove(p) \/ RejectPath(p)
               \/ RejectStatus(p)
    BY <2>3, RejectMaps
  <2>4. CASE \/ \E c \in Contents : AcceptStart(p, c) \/ PurgeStart(p, c) \/ RejectStart(p, c)
                                      \/ TrashStart(p, c)
             \/ AcceptChoose(p) \/ RejectNoop(p) \/ UnknownChoose(p) \/ UnknownAudit(p)
             \/ RejectRead(p) \/ RejectCheck(p) \/ RejectChoose(p) \/ TrashUnlink(p)
    <3>1. UNCHANGED <<files, disk>>
      BY <2>4 DEF AcceptStart, PurgeStart, RejectStart, TrashStart, EndAtOnce, AcceptChoose,
         RejectNoop, UnknownChoose, UnknownAudit, AppendAuditEvent, RejectRead, RejectCheck,
         RejectChoose, TrashUnlink, Choose, registryVars
    <3>. QED
      BY <1>0, <3>1
  <2>. QED
    BY <1>2, <2>1, <2>2, <2>3, <2>4 DEF OperatorNext
<1>3. CASE EnvNext
  <2>1. UNCHANGED <<files, disk>>
    BY <1>3 DEF EnvNext, EnvIsTame, Crash, CopyToTrash, MoveToTrash, MoveToLibrary, Triage,
       ChangeBlockRules, SetBlockRules, registryVars
  <2>. QED
    BY <1>0, <2>1
<1>. QED
  BY <1>0, <1>1, <1>2, <1>3 DEF Next, vars, registryVars

\* The empty queue is an empty review queue.
LEMMA InitMaps == Init => Queue!Init
<1> SUFFICES ASSUME Init PROVE Queue!Init
  OBVIOUS
<1>1. \A c \in Contents : ~ Held(disk, c)
  BY DEF Init, Held
<1>. QED
  BY <1>1 DEF Init, RegistryInit, NoRow, Queue!Init

\* The registry transactions, the moves on disk and their order in the ingest
\* engine and in reject.py keep the promise made to the reviewer: with a template
\* that tells contents apart and commands run one at a time, each step of any of
\* them, killed at any step, is a step of the review queue or invisible in it.
THEOREM QueueIsImplemented ==
    ASSUME UniqueNames, Serial, EnvIsTame PROVE Spec => ReviewQueueSpec
<1>1. Inv /\ CommandsOK /\ [Next]_vars => [Queue!Next]_(Queue!queueVars)
  BY NextMaps
<1>. QED
  BY <1>1, InitMaps, Invariance, CommandsInvariance, PTL DEF Spec, ReviewQueueSpec, Queue!Spec

\* What awaits review or was accepted is kept, in whatever implements the review
\* queue: a content becomes pending or accepted only while its bytes are there
\* (finalize_unknown_ingest, accept_sha256), and bytes go only under a rejection
\* (purge_sha256).
THEOREM WantedIsKept == ReviewQueueSpec => []Queue!KeptWhileWanted
<1>1. Queue!Init => Queue!KeptWhileWanted
  BY DEF Queue!Init, Queue!KeptWhileWanted
<1>2. Queue!KeptWhileWanted /\ [Queue!Next]_(Queue!queueVars) => Queue!KeptWhileWanted'
  <2> SUFFICES ASSUME Queue!KeptWhileWanted, [Queue!Next]_(Queue!queueVars)
               PROVE  Queue!KeptWhileWanted'
    OBVIOUS
  <2>1. ASSUME NEW c \in Contents, Queue!Arrive(c) \/ Queue!Destroy(c)
        PROVE  Queue!KeptWhileWanted'
    BY <2>1 DEF Queue!Arrive, Queue!Destroy, Queue!KeptWhileWanted
  <2>2. ASSUME NEW c \in Contents, Queue!Discover(c) \/ Queue!Accept(c)
        PROVE  Queue!KeptWhileWanted'
    BY <2>2 DEF Queue!Discover, Queue!Accept, Queue!SetStatus, Queue!KeptWhileWanted
  <2>3. ASSUME NEW c \in Contents, Queue!Reject(c) \/ Queue!Purge(c)
        PROVE  Queue!KeptWhileWanted'
    BY <2>3 DEF Queue!Reject, Queue!Purge, Queue!SetStatus, Queue!KeptWhileWanted
  <2>4. CASE UNCHANGED Queue!queueVars
    BY <2>4 DEF Queue!queueVars, Queue!KeptWhileWanted
  <2> QED
    BY <2>1, <2>2, <2>3, <2>4 DEF Queue!Next
<1>. QED
  BY <1>1, <1>2, PTL DEF ReviewQueueSpec, Queue!Spec

\* So one command at a time keeps what awaits review or was accepted, also when
\* it is killed between moving a file and recording the move.
THEOREM PendingAndAcceptedAreKept ==
    ASSUME UniqueNames, Serial, EnvIsTame PROVE Spec => []Queue!KeptWhileWanted
  BY QueueIsImplemented, WantedIsKept, PTL

-----------------------------------------------------------------------------
(* Where everything is *)

\* Steps at which the row of the command's content does not say where its file
\* is ...
Unsettled == {"accept_finalize", "purge_finalize", "reject_path", "reject_status"}

\* ... and steps at which there may be a file at the destination no row points at.
Unrecorded == {"ingest_stat", "ingest_finalize", "accept_unlink", "accept_finalize",
               "unknown_row", "reject_path"}

\* Steps that are taken only after a rule matched or a file went missing.
Untaken == {"block_row", "block_index", "block_origin", "block_audit", "reject_clear"}

AcceptSteps == {"accept_choose", "accept_move", "accept_unlink", "accept_finalize"}

MoveToRejectedSteps == {"reject_check", "reject_choose", "reject_move", "reject_path"}

\* The row of c says where its file is, as the state table has it.
Settled(c) ==
    LET row == files[c] IN
    /\ row.status \in {"pending", "accepted"} =>
          WithinRoot(row.path, row.status) /\ disk[row.path] = c
    /\ row.status = "rejected" /\ row.path # NoPath =>
          WithinRoot(row.path, "rejected") /\ disk[row.path] = c
    /\ row.status \in {"unknown", "purged"} => row.path = NoPath

\* Some row points at the file.
Recorded(path) == disk[path] # NoFile => files[disk[path]].path = path

\* What the one command knows of the row of its content ...
RowKnown(p) ==
    LET c == job[p].sha
        row == files[c] IN
    /\ pc[p] \in FoundUnknown \union {"unknown_row"} => row.status = "unknown"
    /\ pc[p] \in AcceptSteps => row = seen[p] /\ row.status = "pending"
    /\ pc[p] = "purge_unlink" => row = seen[p]
    /\ pc[p] \in {"purge_unlink", "purge_finalize"} => row.status = "rejected"
    /\ pc[p] = "reject_read" => row.status \in {"pending", "accepted", "purged"}
    /\ pc[p] \in MoveToRejectedSteps => row = seen[p] /\ row.status \in {"pending", "accepted"}
    /\ pc[p] \in {"accept_finalize", "reject_path", "purge_finalize"} =>
          row.path = NoPath \/ disk[row.path] = NoFile
    /\ pc[p] = "reject_status" =>
          row.path = NoPath \/ (WithinRoot(row.path, "rejected") /\ disk[row.path] = c)

\* ... and of the destination it chose.
DestKnown(p) ==
    /\ pc[p] \in {"ingest_commit", "ingest_stat", "ingest_finalize"} => dest[p].root = "pending"
    /\ pc[p] \in {"accept_move", "accept_unlink", "accept_finalize"} => dest[p].root = "accepted"
    /\ pc[p] \in {"unknown_move", "reject_move", "reject_path"} => dest[p].root = "rejected"
    /\ pc[p] = "unknown_row" /\ dest[p] # NoPath =>
          WithinRoot(dest[p], "rejected") /\ disk[dest[p]] = job[p].sha
    /\ pc[p] \in Unrecorded \ {"unknown_row"} => disk[dest[p]] = job[p].sha

\* Rows and files agree, except for what p is about to record.
AgreesBut(p) ==
    /\ \A c \in Contents : Settled(c) \/ (pc[p] \in Unsettled /\ job[p].sha = c)
    /\ \A path \in Paths : Recorded(path) \/ (pc[p] \in Unrecorded /\ dest[p] = path)

KnowsRight(p) == pc[p] \notin Untaken /\ (~ Idle(p) => RowKnown(p) /\ DestKnown(p))

-----------------------------------------------------------------------------

\* A file put under a free name disturbs no row.
LEMMA CopySettles ==
    ASSUME Inv, NEW c \in Contents, NEW dst \in Paths, disk[dst] = NoFile,
           disk' = CopyTo(disk, c, dst), UNCHANGED files,
           \A d \in Contents : Settled(d), \A path \in Paths : Recorded(path)
    PROVE  /\ \A d \in Contents : Settled(d)'
           /\ \A path \in Paths : Recorded(path)' \/ path = dst
           /\ disk'[dst] = c
<1>0. /\ disk \in [Paths -> Contents \union {NoFile}] /\ files \in [Contents -> Row]
      /\ disk'[dst] = c /\ \A path \in Paths \ {dst} : disk'[path] = disk[path]
  BY DEF Inv, DiskOK, RowsOK, RegistryTypeOK, CopyTo
<1>1. ASSUME NEW d \in Contents PROVE Settled(d)'
  BY <1>0, SMT DEF Settled, WithinRoot, Row
<1>2. ASSUME NEW path \in Paths PROVE Recorded(path)' \/ path = dst
  BY <1>0 DEF Recorded
<1>. QED
  BY <1>0, <1>1, <1>2

\* A file moved to a free name disturbs its own row only.
LEMMA RenameSettles ==
    ASSUME Inv, NEW c \in Contents, NEW src \in Paths, NEW dst \in Paths,
           disk[src] = c, disk[dst] = NoFile,
           disk' = Rename(disk, src, dst), UNCHANGED files,
           \A d \in Contents : Settled(d), \A path \in Paths : Recorded(path)
    PROVE  /\ \A d \in Contents \ {c} : Settled(d)'
           /\ \A path \in Paths : Recorded(path)' \/ path = dst
           /\ disk'[dst] = c /\ disk'[src] = NoFile
<1>0. /\ disk \in [Paths -> Contents \union {NoFile}] /\ files \in [Contents -> Row]
      /\ disk'[dst] = c /\ disk'[src] = NoFile
      /\ \A path \in Paths \ {src, dst} : disk'[path] = disk[path]
  BY DEF Inv, DiskOK, RowsOK, RegistryTypeOK, Rename
<1>1. ASSUME NEW d \in Contents \ {c} PROVE Settled(d)'
  BY <1>0, SMT DEF Settled, WithinRoot, Row
<1>2. ASSUME NEW path \in Paths PROVE Recorded(path)' \/ path = dst
  BY <1>0 DEF Recorded
<1>. QED
  BY <1>0, <1>1, <1>2

\* Removing a file disturbs its own row only.
LEMMA UnlinkSettles ==
    ASSUME Inv, NEW c \in Contents, NEW src \in Paths, disk[src] = c,
           disk' = Unlink(disk, src), UNCHANGED files,
           \A d \in Contents : Settled(d)
    PROVE  /\ \A d \in Contents \ {c} : Settled(d)'
           /\ \A path \in Paths : Recorded(path) => Recorded(path)'
           /\ disk'[src] = NoFile
           /\ \A path \in Paths \ {src} : disk'[path] = disk[path]
<1>0. /\ disk \in [Paths -> Contents \union {NoFile}] /\ files \in [Contents -> Row]
      /\ disk'[src] = NoFile
      /\ \A path \in Paths \ {src} : disk'[path] = disk[path]
  BY DEF Inv, DiskOK, RowsOK, RegistryTypeOK, Unlink
<1>1. ASSUME NEW d \in Contents \ {c} PROVE Settled(d)'
  BY <1>0 DEF Settled, WithinRoot, Row
<1>2. ASSUME NEW path \in Paths, Recorded(path) PROVE Recorded(path)'
  BY <1>0, <1>2 DEF Recorded
<1>. QED
  BY <1>0, <1>1, <1>2

\* A row that is made to point at the only file of its content records it.
LEMMA RowSettles ==
    ASSUME Inv, NEW c \in Contents, NEW s, NEW dst, SetRow(c, s, dst), UNCHANGED disk,
           \A d \in Contents \ {c} : Settled(d),
           \A path \in Paths : disk[path] # c => Recorded(path),
           \A path \in Paths : disk[path] = c => path = dst
    PROVE  /\ \A d \in Contents \ {c} : Settled(d)'
           /\ \A path \in Paths : Recorded(path)'
           /\ files'[c] = [status |-> s, path |-> dst]
<1>0. /\ disk \in [Paths -> Contents \union {NoFile}] /\ files \in [Contents -> Row]
      /\ files'[c] = [status |-> s, path |-> dst]
      /\ \A d \in Contents \ {c} : files'[d] = files[d]
  BY DEF Inv, DiskOK, RowsOK, RegistryTypeOK, SetRow
<1>1. ASSUME NEW d \in Contents \ {c} PROVE Settled(d)'
  BY <1>0, SMT DEF Settled, WithinRoot
<1>2. ASSUME NEW path \in Paths PROVE Recorded(path)'
  BY <1>0, SMT DEF Recorded
<1>. QED
  BY <1>0, <1>1, <1>2

\* A step that leaves rows and files alone, with nothing left to record.
LEMMA QuietSettles ==
    ASSUME NEW p \in Procs, AgreesBut(p), UNCHANGED <<files, disk>>,
           pc[p] \notin Unsettled \union Unrecorded
    PROVE  AgreesBut(p)'
<1>1. \A c \in Contents : Settled(c)'
  BY DEF AgreesBut, Settled
<1>2. \A path \in Paths : Recorded(path)'
  BY DEF AgreesBut, Recorded
<1>. QED
  BY <1>1, <1>2 DEF AgreesBut

\* Steps at which a command has nothing to know.
PlainSteps == {"idle", "ingest_rules", "ingest_lookup", "ingest_known", "reject_noop",
               "unknown_audit", "trash_unlink"}

\* At those steps a command has nothing to know.
LEMMA PlainKnows ==
    ASSUME NEW p \in Procs, pc'[p] \in PlainSteps PROVE KnowsRight(p)'
  BY DEF PlainSteps, KnowsRight, RowKnown, DestKnown, Untaken, Idle, FoundUnknown, AcceptSteps,
     MoveToRejectedSteps, Unrecorded

\* choose_collision_safe_destination returns a path under the root asked for.
LEMMA ChooseRoot ==
    ASSUME Inv, NEW p \in Procs, NEW l, NEW root, NEW m, m # "idle", Choose(p, l, root, m)
    PROVE  /\ UNCHANGED <<files, disk>> /\ pc[p] = l /\ pc'[p] \in {m, "idle"}
           /\ pc'[p] = m => UNCHANGED <<job, seen>> /\ dest'[p].root = root
<1>0. pc \in [Procs -> Steps] /\ dest \in [Procs -> Paths \union {NoPath}]
  BY DEF Inv, ProcsOK, ProcTypeOK
<1>1. CASE End(p, l, "error")
  BY <1>0, <1>1 DEF End, Choose, registryVars
<1>2. CASE \E path \in ChooseDestination(disk, root, job[p].sha) :
              Goto(p, l, m) /\ dest' = [dest EXCEPT ![p] = path] /\ UNCHANGED seen
  BY <1>0, <1>2 DEF Goto, ChooseDestination, Choose, registryVars
<1>. QED
  BY <1>1, <1>2 DEF Choose

\* The steps of a poll worker that look and choose.
LEMMA QuietIngest ==
    ASSUME Inv, NEW p \in Procs, AgreesBut(p), KnowsRight(p), blocked_rules = {}, IngestNext(p),
           ~ (IngestCommit(p) \/ IngestStat(p) \/ IngestFinalize(p))
    PROVE  AgreesBut(p)' /\ KnowsRight(p)'
<1>0. pc \in [Procs -> Steps] /\ pc[p] \notin Untaken
  BY DEF Inv, ProcsOK, ProcTypeOK, KnowsRight
<1>1. CASE \/ IngestDrop(p) \/ IngestKnown(p) \/ IngestRules(p)
           \/ \E i \in Items, c \in Contents : IngestPrefilter(p, i, c) \/ IngestHash(p, i, c)
  <2>1. /\ UNCHANGED <<files, disk>>
        /\ pc[p] \in {"idle", "ingest_rules", "ingest_known"}
        /\ pc'[p] \in {"idle", "ingest_lookup", "ingest_rules"}
    BY <1>0, <1>1 DEF IngestDrop, IngestPrefilter, IngestHash, IngestKnown, IngestRules,
       FinalizeKnownIngest, EndAtOnce, Begin, Goto, End, Idle, registryVars
  <2>2. pc[p] \notin Unsettled \union Unrecorded /\ pc'[p] \in PlainSteps
    BY <2>1 DEF Unsettled, Unrecorded, PlainSteps
  <2>. QED
    BY <2>1, <2>2, QuietSettles, PlainKnows
<1>2. CASE IngestLookup(p)
  <2>1. /\ UNCHANGED <<files, disk, job>> /\ pc[p] = "ingest_lookup"
        /\ \/ pc'[p] = "ingest_known"
           \/ pc'[p] = "ingest_choose" /\ files[job[p].sha].status = "unknown"
    BY <1>0, <1>2 DEF IngestLookup, Goto, Known, registryVars
  <2>2. pc[p] \notin Unsettled \union Unrecorded
    BY <2>1 DEF Unsettled, Unrecorded
  <2>3. KnowsRight(p)'
    BY <2>1 DEF KnowsRight, RowKnown, DestKnown, Untaken, Idle, FoundUnknown,
       AcceptSteps, MoveToRejectedSteps, Unrecorded
  <2>. QED
    BY <2>1, <2>2, <2>3, QuietSettles
<1>3. CASE IngestChoose(p)
  <2>1. /\ UNCHANGED <<files, disk>> /\ pc[p] = "ingest_choose"
        /\ pc'[p] \in {"ingest_commit", "idle"}
        /\ pc'[p] = "ingest_commit" => UNCHANGED <<job, seen>> /\ dest'[p].root = "pending"
    BY <1>3, ChooseRoot DEF IngestChoose
  <2>2. pc[p] \notin Unsettled \union Unrecorded
    BY <2>1 DEF Unsettled, Unrecorded
  <2>3. files[job[p].sha].status = "unknown"
    BY <2>1 DEF KnowsRight, RowKnown, Idle, FoundUnknown
  <2>4. KnowsRight(p)'
    BY <2>1, <2>3 DEF KnowsRight, RowKnown, DestKnown, Untaken, Idle, FoundUnknown,
       AcceptSteps, MoveToRejectedSteps, Unrecorded
  <2>. QED
    BY <2>1, <2>2, <2>4, QuietSettles
<1>. QED
  BY <1>0, <1>1, <1>2, <1>3 DEF IngestNext, BlockRow, BlockIndex, BlockOrigin, BlockAudit, Goto,
     End, Untaken

\* A command begins with what it reads.
LEMMA QuietStart ==
    ASSUME Inv, NEW p \in Procs, AgreesBut(p), KnowsRight(p), NEW c \in Contents,
           AcceptStart(p, c) \/ PurgeStart(p, c) \/ RejectStart(p, c) \/ TrashStart(p, c)
    PROVE  AgreesBut(p)' /\ KnowsRight(p)'
<1>0. /\ pc \in [Procs -> Steps] /\ job \in [Procs -> Jobs] /\ seen \in [Procs -> Row]
      /\ files \in [Contents -> Row]
  BY DEF Inv, ProcsOK, ProcTypeOK, RowsOK, RegistryTypeOK
<1>1. UNCHANGED <<files, disk, dest>> /\ pc[p] = "idle"
  BY DEF AcceptStart, PurgeStart, RejectStart, TrashStart, EndAtOnce, Begin, Idle, registryVars
<1>2. pc[p] \notin Unsettled \union Unrecorded
  BY <1>1 DEF Unsettled, Unrecorded
<1>3. CASE AcceptStart(p, c)
  <2>1. \/ pc'[p] = "idle"
        \/ /\ pc'[p] = "accept_choose" /\ job'[p].sha = c /\ seen'[p] = files[c]
           /\ files[c].status = "pending"
    BY <1>0, <1>3, SMT DEF AcceptStart, EndAtOnce, Begin, Acceptable, Idle
  <2>. QED
    BY <1>1, <1>2, <2>1, QuietSettles DEF KnowsRight, RowKnown, DestKnown, Untaken, Idle,
       FoundUnknown, AcceptSteps, MoveToRejectedSteps, Unrecorded
<1>4. CASE PurgeStart(p, c)
  <2>1. \/ pc'[p] = "idle"
        \/ /\ job'[p].sha = c /\ seen'[p] = files[c] /\ files[c].status = "rejected"
           /\ \/ pc'[p] = "purge_finalize" /\ files[c].path = NoPath
              \/ pc'[p] = "purge_unlink"
    BY <1>0, <1>4, SMT DEF PurgeStart, EndAtOnce, Begin, Purgeable, Idle
  <2>. QED
    BY <1>1, <1>2, <2>1, QuietSettles DEF KnowsRight, RowKnown, DestKnown, Untaken, Idle,
       FoundUnknown, AcceptSteps, MoveToRejectedSteps, Unrecorded
<1>5. CASE RejectStart(p, c) \/ TrashStart(p, c)
  <2>1. job'[p].sha = c
    BY <1>0, <1>5, SMT DEF RejectStart, TrashStart, Begin
  <2>2. \/ pc'[p] \in {"trash_unlink", "reject_noop"}
        \/ pc'[p] \in {"unknown_choose", "unknown_row"} /\ files[c].status = "unknown"
        \/ pc'[p] = "reject_read" /\ files[c].status \in {"pending", "accepted", "purged"}
    BY <1>0, <1>5 DEF RejectStart, TrashStart, RejectBranch, Begin, Known, Row, Statuses
  <2>3. dest'[p] = NoPath
    BY <1>1 DEF Inv, ProcsOK, LocalOK
  <2>. QED
    BY <1>1, <1>2, <2>1, <2>2, <2>3, QuietSettles DEF KnowsRight, RowKnown, DestKnown, Untaken,
       Idle, FoundUnknown, AcceptSteps, MoveToRejectedSteps, Unrecorded
<1>. QED
  BY <1>3, <1>4, <1>5

\* The steps of an operator command that look and choose.
LEMMA QuietOperator ==
    ASSUME Inv, NEW p \in Procs, AgreesBut(p), KnowsRight(p),
           AcceptChoose(p) \/ RejectNoop(p) \/ UnknownChoose(p) \/ UnknownAudit(p)
             \/ RejectRead(p) \/ RejectCheck(p) \/ RejectChoose(p) \/ TrashUnlink(p)
    PROVE  AgreesBut(p)' /\ KnowsRight(p)'
<1>0. /\ pc \in [Procs -> Steps] /\ seen \in [Procs -> Row] /\ files \in [Contents -> Row]
      /\ disk \in [Paths -> Contents \union {NoFile}]
  BY DEF Inv, ProcsOK, ProcTypeOK, RowsOK, RegistryTypeOK, DiskOK
<1>1. CASE AcceptChoose(p)
  <2>1. /\ UNCHANGED <<files, disk>> /\ pc[p] = "accept_choose" /\ pc'[p] \in {"accept_move", "idle"}
        /\ pc'[p] = "accept_move" => UNCHANGED <<job, seen>> /\ dest'[p].root = "accepted"
    BY <1>1, ChooseRoot DEF AcceptChoose
  <2>2. pc[p] \notin Unsettled \union Unrecorded
    BY <2>1 DEF Unsettled, Unrecorded
  <2>. QED
    BY <2>1, <2>2, QuietSettles DEF KnowsRight, RowKnown, DestKnown, Untaken, Idle,
       FoundUnknown, AcceptSteps, MoveToRejectedSteps, Unrecorded
<1>2. CASE RejectNoop(p) \/ UnknownAudit(p) \/ TrashUnlink(p)
  <2>1. /\ UNCHANGED <<files, disk>> /\ pc[p] \in {"reject_noop", "unknown_audit", "trash_unlink"}
        /\ pc'[p] \in {"idle", "trash_unlink"}
    BY <1>0, <1>2 DEF RejectNoop, UnknownAudit, TrashUnlink, RejectReturn, AppendAuditEvent, Goto,
       End, registryVars
  <2>2. pc[p] \notin Unsettled \union Unrecorded /\ pc'[p] \in PlainSteps
    BY <2>1 DEF Unsettled, Unrecorded, PlainSteps
  <2>. QED
    BY <2>1, <2>2, QuietSettles, PlainKnows
<1>3. CASE UnknownChoose(p)
  <2>1. /\ UNCHANGED <<files, disk>> /\ pc[p] = "unknown_choose"
        /\ \/ pc'[p] = "idle"
           \/ pc'[p] = "unknown_move" /\ UNCHANGED job /\ dest'[p].root = "rejected"
           \/ pc'[p] = "unknown_row" /\ UNCHANGED <<job, dest>>
    <3>1. CASE Choose(p, "unknown_choose", "rejected", "unknown_move")
      BY <3>1, ChooseRoot
    <3>2. CASE Goto(p, "unknown_choose", "unknown_row")
      BY <1>0, <1>3, <3>2 DEF UnknownChoose, Choose, Goto, End, registryVars
    <3>. QED
      BY <1>3, <3>1, <3>2 DEF UnknownChoose
  <2>2. /\ pc[p] \notin Unsettled \union Unrecorded
        /\ dest[p] = NoPath /\ files[job[p].sha].status = "unknown"
    BY <2>1 DEF Unsettled, Unrecorded, Inv, ProcsOK, LocalOK, KnowsRight, RowKnown, Idle,
       FoundUnknown
  <2>. QED
    BY <2>1, <2>2, QuietSettles DEF KnowsRight, RowKnown, DestKnown, Untaken, Idle,
       FoundUnknown, AcceptSteps, MoveToRejectedSteps, Unrecorded
<1>4. CASE RejectRead(p)
  <2>1. /\ UNCHANGED <<files, disk, job>> /\ pc[p] = "reject_read" /\ seen'[p] = files[job[p].sha]
        /\ pc'[p] = IF files[job[p].sha].path = NoPath THEN "reject_status" ELSE "reject_check"
    BY <1>0, <1>4 DEF RejectRead, Goto, registryVars
  <2>2. /\ pc[p] \notin Unsettled \union Unrecorded /\ job[p].sha \in Contents
        /\ files[job[p].sha].status \in {"pending", "accepted", "purged"}
    BY <2>1 DEF Unsettled, Unrecorded, Inv, ProcsOK, LocalOK, KnowsRight, RowKnown, Idle
  <2>3. pc'[p] = "reject_check" => files[job[p].sha].status \in {"pending", "accepted"}
    BY <2>1, <2>2 DEF AgreesBut, Settled
  <2>. QED
    BY <2>1, <2>2, <2>3, QuietSettles DEF KnowsRight, RowKnown, DestKnown, Untaken, Idle,
       FoundUnknown, AcceptSteps, MoveToRejectedSteps, Unrecorded
<1>5. CASE RejectCheck(p) \/ RejectChoose(p)
  <2>1. pc[p] \in {"reject_check", "reject_choose"}
    BY <1>5 DEF RejectCheck, RejectChoose, Choose, Goto, End
  <2>2. /\ pc[p] \notin Unsettled \union Unrecorded /\ job[p].sha \in Contents
        /\ files[job[p].sha] = seen[p] /\ seen[p].status \in {"pending", "accepted"}
    BY <2>1 DEF Unsettled, Unrecorded, Inv, ProcsOK, LocalOK, KnowsRight, RowKnown, Idle,
       MoveToRejectedSteps
  <2>3. Exists(disk, seen[p].path)
    BY <2>2 DEF AgreesBut, Settled, WithinRoot, Exists
  <2>4. /\ UNCHANGED <<files, disk>>
        /\ \/ pc'[p] = "idle"
           \/ pc'[p] = "reject_choose" /\ UNCHANGED <<job, seen>>
           \/ pc'[p] = "reject_move" /\ UNCHANGED <<job, seen>> /\ dest'[p].root = "rejected"
    <3>1. CASE Choose(p, "reject_choose", "rejected", "reject_move")
      BY <3>1, ChooseRoot
    <3>2. CASE RejectCheck(p)
      BY <1>0, <2>3, <3>2 DEF RejectCheck, Goto, End, registryVars
    <3>. QED
      BY <1>5, <2>3, <3>1, <3>2 DEF RejectChoose
  <2>. QED
    BY <2>2, <2>4, QuietSettles DEF KnowsRight, RowKnown, DestKnown, Untaken, Idle,
       FoundUnknown, AcceptSteps, MoveToRejectedSteps, Unrecorded
<1>. QED
  BY <1>1, <1>2, <1>3, <1>4, <1>5

\* A new file and its row: ingest_commit, ingest_stat and ingest_finalize.
LEMMA IngestLocated ==
    ASSUME Inv, NameIsFree, NEW p \in Procs, AgreesBut(p), KnowsRight(p),
           IngestCommit(p) \/ IngestStat(p) \/ IngestFinalize(p)
    PROVE  AgreesBut(p)' /\ KnowsRight(p)'
<1>0. pc \in [Procs -> Steps] /\ pc[p] \in {"ingest_commit", "ingest_stat", "ingest_finalize"}
  BY DEF Inv, ProcsOK, ProcTypeOK, IngestCommit, IngestStat, IngestFinalize, Goto, End
<1>1. PICK c \in Contents : c = job[p].sha
  BY <1>0 DEF Inv, ProcsOK, LocalOK
<1>2. PICK dst \in Paths : dst = dest[p]
  BY <1>0 DEF Inv, ProcsOK, LocalOK, HasDest, Renders
<1>3. /\ files[c].status = "unknown" /\ dst.root = "pending"
      /\ pc[p] # "ingest_commit" => disk[dst] = c
  BY <1>0, <1>1, <1>2 DEF KnowsRight, RowKnown, DestKnown, Idle, FoundUnknown, Unrecorded
<1>4. \A d \in Contents : Settled(d)
  BY <1>0 DEF AgreesBut, Unsettled
<1>5. CASE IngestCommit(p)
  <2>1. /\ UNCHANGED <<files, job, dest>> /\ pc[p] = "ingest_commit" /\ pc'[p] = "ingest_stat"
        /\ disk' = CopyTo(disk, c, dst)
    BY <1>0, <1>1, <1>2, <1>5 DEF IngestCommit, Goto, registryVars
  <2>2. disk[dst] = NoFile /\ \A path \in Paths : Recorded(path)
    BY <1>2, <2>1 DEF NameIsFree, Moving, AgreesBut, Unrecorded
  <2>3. /\ \A d \in Contents : Settled(d)'
        /\ \A path \in Paths : Recorded(path)' \/ path = dst
        /\ disk'[dst] = c
    BY <1>4, <2>1, <2>2, CopySettles
  <2>4. AgreesBut(p)'
    BY <1>2, <2>1, <2>3 DEF AgreesBut, Unrecorded
  <2>5. KnowsRight(p)'
    BY <1>1, <1>2, <1>3, <2>1, <2>3 DEF KnowsRight, RowKnown, DestKnown, Untaken, Idle,
       FoundUnknown, AcceptSteps, MoveToRejectedSteps, Unrecorded
  <2>. QED
    BY <2>4, <2>5
<1>6. CASE IngestStat(p)
  <2>1. /\ UNCHANGED <<files, disk, job, dest>>
        /\ pc[p] = "ingest_stat" /\ pc'[p] = "ingest_finalize"
    BY <1>0, <1>2, <1>3, <1>6 DEF IngestStat, Exists, Goto, End, registryVars
  <2>2. AgreesBut(p)'
    BY <2>1 DEF AgreesBut, Settled, Recorded, Unsettled, Unrecorded
  <2>3. KnowsRight(p)'
    BY <1>1, <1>2, <1>3, <2>1 DEF KnowsRight, RowKnown, DestKnown, Untaken, Idle,
       FoundUnknown, AcceptSteps, MoveToRejectedSteps, Unrecorded
  <2>. QED
    BY <2>2, <2>3
<1>7. CASE IngestFinalize(p)
  <2>1. UNCHANGED disk /\ pc[p] = "ingest_finalize" /\ pc'[p] = "idle" /\ SetRow(c, "pending", dst)
    BY <1>0, <1>1, <1>2, <1>7 DEF IngestFinalize, FinalizeUnknownIngest, End
  <2>2. /\ \A path \in Paths : disk[path] # c => Recorded(path)
        /\ \A path \in Paths : disk[path] = c => path = dst
    BY <1>2, <1>3, <1>4, <2>1, SMT DEF AgreesBut, Settled, Recorded
  <2>3. /\ \A d \in Contents \ {c} : Settled(d)'
        /\ \A path \in Paths : Recorded(path)'
        /\ files'[c] = [status |-> "pending", path |-> dst]
    BY <1>4, <2>1, <2>2, RowSettles, SMT
  <2>4. Settled(c)'
    BY <1>3, <2>1, <2>3, SMT DEF Settled, WithinRoot
  <2>5. KnowsRight(p)'
    BY <2>1, PlainKnows DEF PlainSteps
  <2>. QED
    BY <2>3, <2>4, <2>5 DEF AgreesBut
<1>. QED
  BY <1>5, <1>6, <1>7

\* accept_sha256 moves the file and then its row.
LEMMA AcceptLocated ==
    ASSUME Inv, NameIsFree, NEW p \in Procs, AgreesBut(p), KnowsRight(p),
           AcceptMove(p) \/ AcceptUnlink(p) \/ AcceptFinalize(p)
    PROVE  AgreesBut(p)' /\ KnowsRight(p)'
<1>0. pc \in [Procs -> Steps] /\ pc[p] \in {"accept_move", "accept_unlink", "accept_finalize"}
  BY DEF Inv, ProcsOK, ProcTypeOK, AcceptMove, AcceptUnlink, AcceptFinalize, Goto, End
<1>1. PICK c \in Contents : c = job[p].sha
  BY <1>0 DEF Inv, ProcsOK, LocalOK
<1>2. PICK dst \in Paths : dst = dest[p]
  BY <1>0 DEF Inv, ProcsOK, LocalOK, HasDest, Renders
<1>3. PICK src \in Paths : src = seen[p].path
  BY <1>0 DEF Inv, ProcsOK, LocalOK, HasSource, Renders
<1>4. /\ files[c] = seen[p] /\ files[c].status = "pending" /\ files[c].path = src
      /\ dst.root = "accepted"
      /\ pc[p] # "accept_move" => disk[dst] = c
      /\ pc[p] = "accept_finalize" => disk[src] = NoFile
  BY <1>0, <1>1, <1>2, <1>3
     DEF KnowsRight, RowKnown, DestKnown, Idle, AcceptSteps, Unrecorded
<1>5. pc[p] # "accept_finalize" =>
        /\ \A d \in Contents : Settled(d)
        /\ disk[src] = c /\ src.root = "pending"
  BY <1>0, <1>4 DEF AgreesBut, Unsettled, Settled, WithinRoot
<1>6. CASE AcceptMove(p)
  <2>0. pc[p] = "accept_move" /\ disk[dst] = NoFile /\ \A path \in Paths : Recorded(path)
    BY <1>2, <1>6 DEF AcceptMove, Goto, End, NameIsFree, Moving, AgreesBut, Unrecorded
  <2>1. /\ UNCHANGED <<files, job, seen, dest>>
        /\ \/ disk' = Rename(disk, src, dst) /\ pc'[p] = "accept_finalize"
           \/ disk' = CopyTo(disk, c, dst) /\ pc'[p] = "accept_unlink"
    BY <1>0, <1>2, <1>3, <1>5, <1>6, <2>0 DEF AcceptMove, Exists, Goto, registryVars
  <2>2. CASE disk' = Rename(disk, src, dst) /\ pc'[p] = "accept_finalize"
    <3>1. /\ \A d \in Contents \ {c} : Settled(d)'
          /\ \A path \in Paths : Recorded(path)' \/ path = dst
          /\ disk'[dst] = c /\ disk'[src] = NoFile
      BY <1>5, <2>0, <2>1, <2>2, RenameSettles, SMT
    <3>2. AgreesBut(p)'
      BY <1>1, <1>2, <2>1, <2>2, <3>1 DEF AgreesBut, Unsettled, Unrecorded
    <3>3. KnowsRight(p)'
      BY <1>1, <1>2, <1>4, <2>1, <2>2, <3>1 DEF KnowsRight, RowKnown, DestKnown, Untaken, Idle,
         FoundUnknown, AcceptSteps, MoveToRejectedSteps, Unrecorded
    <3>. QED
      BY <3>2, <3>3
  <2>3. CASE disk' = CopyTo(disk, c, dst) /\ pc'[p] = "accept_unlink"
    <3>1. /\ \A d \in Contents : Settled(d)'
          /\ \A path \in Paths : Recorded(path)' \/ path = dst
          /\ disk'[dst] = c
      BY <1>5, <2>0, <2>1, <2>3, CopySettles
    <3>2. AgreesBut(p)'
      BY <1>2, <2>1, <2>3, <3>1 DEF AgreesBut, Unrecorded
    <3>3. KnowsRight(p)'
      BY <1>1, <1>2, <1>4, <2>1, <2>3, <3>1 DEF KnowsRight, RowKnown, DestKnown, Untaken, Idle,
         FoundUnknown, AcceptSteps, MoveToRejectedSteps, Unrecorded
    <3>. QED
      BY <3>2, <3>3
  <2>. QED
    BY <2>1, <2>2, <2>3
<1>7. CASE AcceptUnlink(p)
  <2>1. /\ UNCHANGED <<files, job, seen, dest>> /\ pc[p] = "accept_unlink"
        /\ pc'[p] = "accept_finalize" /\ disk' = Unlink(disk, src)
    BY <1>0, <1>3, <1>7 DEF AcceptUnlink, Goto, registryVars
  <2>2. /\ \A d \in Contents \ {c} : Settled(d)'
        /\ \A path \in Paths : Recorded(path) => Recorded(path)'
        /\ disk'[src] = NoFile /\ disk'[dst] = c
    BY <1>4, <1>5, <2>1, UnlinkSettles
  <2>3. AgreesBut(p)'
    BY <1>1, <2>1, <2>2 DEF AgreesBut, Unsettled, Unrecorded
  <2>4. KnowsRight(p)'
    BY <1>1, <1>2, <1>4, <2>1, <2>2 DEF KnowsRight, RowKnown, DestKnown, Untaken, Idle,
       FoundUnknown, AcceptSteps, MoveToRejectedSteps, Unrecorded
  <2>. QED
    BY <2>3, <2>4
<1>8. CASE AcceptFinalize(p)
  <2>1. /\ UNCHANGED disk /\ pc[p] = "accept_finalize" /\ pc'[p] = "idle"
        /\ SetRow(c, "accepted", dst)
    BY <1>0, <1>1, <1>2, <1>4, <1>8 DEF AcceptFinalize, FinalizeAcceptFromPending, End
  <2>2. /\ \A d \in Contents \ {c} : Settled(d)
        /\ \A path \in Paths : disk[path] # c => Recorded(path)
        /\ \A path \in Paths : disk[path] = c => path = dst
    BY <1>1, <1>2, <1>4, <2>1 DEF AgreesBut, Recorded
  <2>3. /\ \A d \in Contents \ {c} : Settled(d)'
        /\ \A path \in Paths : Recorded(path)'
        /\ files'[c] = [status |-> "accepted", path |-> dst]
    BY <2>1, <2>2, RowSettles, SMT
  <2>4. Settled(c)'
    BY <1>4, <2>1, <2>3, SMT DEF Settled, WithinRoot
  <2>5. KnowsRight(p)'
    BY <2>1, PlainKnows DEF PlainSteps
  <2>. QED
    BY <2>3, <2>4, <2>5 DEF AgreesBut
<1>. QED
  BY <1>6, <1>7, <1>8

\* purge_sha256 removes the file and then its row's path.
LEMMA PurgeLocated ==
    ASSUME Inv, NEW p \in Procs, AgreesBut(p), KnowsRight(p), PurgeUnlink(p) \/ PurgeFinalize(p)
    PROVE  AgreesBut(p)' /\ KnowsRight(p)'
<1>0. pc \in [Procs -> Steps] /\ pc[p] \in {"purge_unlink", "purge_finalize"}
  BY DEF Inv, ProcsOK, ProcTypeOK, PurgeUnlink, PurgeFinalize, Goto, End
<1>1. PICK c \in Contents : c = job[p].sha
  BY <1>0 DEF Inv, ProcsOK, LocalOK
<1>2. /\ files[c].status = "rejected"
      /\ pc[p] = "purge_unlink" => files[c] = seen[p]
      /\ pc[p] = "purge_finalize" => files[c].path = NoPath \/ disk[files[c].path] = NoFile
  BY <1>0, <1>1 DEF KnowsRight, RowKnown, Idle
<1>3. CASE PurgeUnlink(p)
  <2>0. pc[p] = "purge_unlink"
    BY <1>3 DEF PurgeUnlink, Goto
  <2>1. PICK src \in Paths : src = seen[p].path
    BY <2>0 DEF Inv, ProcsOK, LocalOK, HasSource, Renders
  <2>2. /\ UNCHANGED <<files, job>> /\ pc'[p] = "purge_finalize" /\ disk' = Unlink(disk, src)
    BY <1>0, <1>3, <2>1 DEF PurgeUnlink, Goto, registryVars
  <2>3. /\ \A d \in Contents : Settled(d)
        /\ \A path \in Paths : Recorded(path)
        /\ files[c].path = src /\ disk[src] = c
    BY <1>2, <2>0, <2>1 DEF AgreesBut, Unsettled, Unrecorded, Settled
  <2>4. /\ \A d \in Contents \ {c} : Settled(d)'
        /\ \A path \in Paths : Recorded(path)'
        /\ disk'[src] = NoFile
    BY <2>2, <2>3, UnlinkSettles
  <2>5. AgreesBut(p)'
    BY <1>1, <2>2, <2>4 DEF AgreesBut, Unsettled
  <2>6. KnowsRight(p)'
    BY <1>1, <1>2, <2>2, <2>3, <2>4 DEF KnowsRight, RowKnown, DestKnown, Untaken, Idle,
       FoundUnknown, AcceptSteps, MoveToRejectedSteps, Unrecorded
  <2>. QED
    BY <2>5, <2>6
<1>4. CASE PurgeFinalize(p)
  <2>1. /\ UNCHANGED disk /\ pc[p] = "purge_finalize" /\ pc'[p] = "idle"
        /\ SetRow(c, "purged", NoPath)
    BY <1>0, <1>1, <1>2, <1>4 DEF PurgeFinalize, FinalizePurgeFromRejected, End
  <2>2. /\ \A d \in Contents \ {c} : Settled(d)
        /\ \A path \in Paths : Recorded(path)
    BY <1>1, <2>1 DEF AgreesBut, Unrecorded
  <2>3. \A path \in Paths : disk[path] # c
    BY <1>2, <2>1, <2>2 DEF Recorded
  <2>4. /\ \A d \in Contents \ {c} : Settled(d)'
        /\ \A path \in Paths : Recorded(path)'
        /\ files'[c] = [status |-> "purged", path |-> NoPath]
    BY <2>1, <2>2, <2>3, RowSettles, SMT
  <2>5. Settled(c)'
    BY <2>4, SMT DEF Settled
  <2>6. KnowsRight(p)'
    BY <2>1, PlainKnows DEF PlainSteps
  <2>. QED
    BY <2>4, <2>5, <2>6 DEF AgreesBut
<1>. QED
  BY <1>3, <1>4

\* Rejecting an unknown content retains the trash file, if there is one, and
\* writes a row that points at it.
LEMMA UnknownLocated ==
    ASSUME Inv, NameIsFree, NEW p \in Procs, AgreesBut(p), KnowsRight(p),
           UnknownMove(p) \/ UnknownRow(p)
    PROVE  AgreesBut(p)' /\ KnowsRight(p)'
<1>0. pc \in [Procs -> Steps] /\ pc[p] \in {"unknown_move", "unknown_row"}
  BY DEF Inv, ProcsOK, ProcTypeOK, UnknownMove, UnknownRow, Goto, End
<1>1. PICK c \in Contents : c = job[p].sha
  BY <1>0 DEF Inv, ProcsOK, LocalOK
<1>2. files[c].status = "unknown" /\ \A d \in Contents : Settled(d)
  BY <1>0, <1>1 DEF KnowsRight, RowKnown, Idle, FoundUnknown, AgreesBut, Unsettled
<1>3. CASE UnknownMove(p)
  <2>0. pc[p] = "unknown_move"
    BY <1>3 DEF UnknownMove, Goto, End
  <2>1. PICK dst \in Paths : dst = dest[p]
    BY <2>0 DEF Inv, ProcsOK, LocalOK, HasDest, Renders
  <2>2. /\ disk[dst] = NoFile /\ dst.root = "rejected" /\ \A path \in Paths : Recorded(path)
        /\ pc[p] \notin Unsettled \union Unrecorded
    BY <2>0, <2>1 DEF NameIsFree, Moving, AgreesBut, Unsettled, Unrecorded, KnowsRight, DestKnown, Idle
  <2>3. CASE UNCHANGED <<files, disk>> /\ pc'[p] = "idle"
    BY <2>2, <2>3, QuietSettles, PlainKnows DEF PlainSteps
  <2>4. CASE /\ UNCHANGED <<files, job, dest>> /\ pc'[p] = "unknown_row"
             /\ disk' = CopyTo(disk, c, dst)
    <3>1. /\ \A d \in Contents : Settled(d)'
          /\ \A path \in Paths : Recorded(path)' \/ path = dst
          /\ disk'[dst] = c
      BY <1>2, <2>2, <2>4, CopySettles
    <3>2. AgreesBut(p)'
      BY <2>1, <2>4, <3>1 DEF AgreesBut, Unrecorded
    <3>3. KnowsRight(p)'
      BY <1>1, <1>2, <2>1, <2>2, <2>4, <3>1 DEF KnowsRight, RowKnown, DestKnown, Untaken, Idle,
         FoundUnknown, AcceptSteps, MoveToRejectedSteps, Unrecorded, WithinRoot
    <3>. QED
      BY <3>2, <3>3
  <2>. QED
    BY <1>0, <1>1, <1>3, <2>1, <2>3, <2>4 DEF UnknownMove, Goto, End, registryVars
<1>4. CASE UnknownRow(p)
  <2>1. PICK dst \in Paths \union {NoPath} : dst = dest[p]
    BY DEF Inv, ProcsOK, ProcTypeOK
  <2>2. /\ UNCHANGED disk /\ pc[p] = "unknown_row" /\ pc'[p] = "unknown_audit"
        /\ SetRow(c, "rejected", dst)
    BY <1>0, <1>1, <1>4, <2>1 DEF UnknownRow, CreateOrUpdateFile, Goto
  <2>3. dst # NoPath => dst.root = "rejected" /\ disk[dst] = c
    BY <1>1, <2>1, <2>2 DEF KnowsRight, DestKnown, Idle, WithinRoot
  <2>4. /\ \A path \in Paths : disk[path] # c => Recorded(path)
        /\ \A path \in Paths : disk[path] = c => path = dst
    BY <1>2, <2>1, <2>2, <2>3, SMT DEF AgreesBut, Settled, Recorded
  <2>5. /\ \A d \in Contents \ {c} : Settled(d)'
        /\ \A path \in Paths : Recorded(path)'
        /\ files'[c] = [status |-> "rejected", path |-> dst]
    BY <1>2, <2>2, <2>4, RowSettles, SMT
  <2>6. Settled(c)'
    BY <2>2, <2>3, <2>5, SMT DEF Settled, WithinRoot
  <2>7. KnowsRight(p)'
    BY <2>2, PlainKnows DEF PlainSteps
  <2>. QED
    BY <2>5, <2>6, <2>7 DEF AgreesBut
<1>. QED
  BY <1>3, <1>4

\* Rejecting a known content moves its file, then its path, then its status.
LEMMA RejectLocated ==
    ASSUME Inv, NameIsFree, NEW p \in Procs, AgreesBut(p), KnowsRight(p),
           RejectMove(p) \/ RejectPath(p) \/ RejectStatus(p)
    PROVE  AgreesBut(p)' /\ KnowsRight(p)'
<1>0. pc \in [Procs -> Steps] /\ pc[p] \in {"reject_move", "reject_path", "reject_status"}
  BY DEF Inv, ProcsOK, ProcTypeOK, RejectMove, RejectPath, RejectStatus, RejectReturn, Goto, End
<1>1. PICK c \in Contents : c = job[p].sha
  BY <1>0 DEF Inv, ProcsOK, LocalOK
<1>2. files \in [Contents -> Row]
  BY DEF Inv, RowsOK, RegistryTypeOK
<1>3. CASE RejectMove(p)
  <2>0. pc[p] = "reject_move"
    BY <1>3 DEF RejectMove, Goto, End
  <2>1. PICK dst \in Paths : dst = dest[p]
    BY <2>0 DEF Inv, ProcsOK, LocalOK, HasDest, Renders
  <2>2. PICK src \in Paths : src = seen[p].path
    BY <2>0 DEF Inv, ProcsOK, LocalOK, HasSource, Renders
  <2>3. /\ disk[dst] = NoFile /\ dst.root = "rejected" /\ \A path \in Paths : Recorded(path)
        /\ pc[p] \notin Unsettled \union Unrecorded
        /\ \A d \in Contents : Settled(d)
    BY <2>0, <2>1 DEF NameIsFree, Moving, AgreesBut, Unsettled, Unrecorded, KnowsRight, DestKnown, Idle
  <2>4. files[c] = seen[p] /\ files[c].status \in {"pending", "accepted"} /\ files[c].path = src
    BY <1>1, <2>0, <2>2 DEF KnowsRight, RowKnown, Idle, MoveToRejectedSteps
  <2>5. disk[src] = c
    BY <2>3, <2>4 DEF Settled
  <2>6. CASE UNCHANGED <<files, disk>> /\ pc'[p] = "idle"
    BY <2>3, <2>6, QuietSettles, PlainKnows DEF PlainSteps
  <2>7. CASE /\ UNCHANGED <<files, job, seen, dest>> /\ pc'[p] = "reject_path"
             /\ disk' = Rename(disk, src, dst)
    <3>1. /\ \A d \in Contents \ {c} : Settled(d)'
          /\ \A path \in Paths : Recorded(path)' \/ path = dst
          /\ disk'[dst] = c /\ disk'[src] = NoFile
      BY <2>3, <2>5, <2>7, RenameSettles
    <3>2. AgreesBut(p)'
      BY <1>1, <2>1, <2>7, <3>1 DEF AgreesBut, Unsettled, Unrecorded
    <3>3. KnowsRight(p)'
      BY <1>1, <2>1, <2>3, <2>4, <2>7, <3>1 DEF KnowsRight, RowKnown, DestKnown, Untaken, Idle,
         FoundUnknown, AcceptSteps, MoveToRejectedSteps, Unrecorded
    <3>. QED
      BY <3>2, <3>3
  <2>. QED
    BY <1>0, <1>3, <2>1, <2>2, <2>6, <2>7 DEF RejectMove, Goto, End, registryVars
<1>4. CASE RejectPath(p)
  <2>0. pc[p] = "reject_path"
    BY <1>4 DEF RejectPath, Goto
  <2>1. PICK dst \in Paths : dst = dest[p]
    BY <2>0 DEF Inv, ProcsOK, LocalOK, HasDest, Renders
  <2>s. PICK s : s = files[c].status
    OBVIOUS
  <2>2. /\ UNCHANGED <<disk, job>> /\ pc'[p] = "reject_status"
        /\ SetRow(c, s, dst)
    BY <1>0, <1>1, <1>4, <2>1, <2>s DEF RejectPath, UpdateCurrentPath, Goto
  <2>3. /\ dst.root = "rejected" /\ disk[dst] = c
        /\ files[c].path = NoPath \/ disk[files[c].path] = NoFile
    BY <1>1, <2>0, <2>1 DEF KnowsRight, RowKnown, DestKnown, Idle, Unrecorded
  <2>4. /\ \A d \in Contents \ {c} : Settled(d)
        /\ \A path \in Paths : disk[path] # c => Recorded(path)
        /\ \A path \in Paths : disk[path] = c => path = dst
    BY <1>1, <2>0, <2>1, <2>3 DEF AgreesBut, Recorded
  <2>5. /\ \A d \in Contents \ {c} : Settled(d)'
        /\ \A path \in Paths : Recorded(path)'
        /\ files'[c] = [status |-> s, path |-> dst]
    BY <2>2, <2>4, RowSettles, SMT
  <2>6. AgreesBut(p)'
    BY <1>1, <2>2, <2>5 DEF AgreesBut, Unsettled
  <2>7. files'[c].path = dst /\ WithinRoot(dst, "rejected") /\ disk'[dst] = c /\ job'[p].sha = c
    BY <1>1, <2>2, <2>3, <2>5, SMT DEF WithinRoot, StorageAssumption
  <2>8. RowKnown(p)' /\ DestKnown(p)'
    BY <2>2, <2>7 DEF RowKnown, DestKnown, FoundUnknown, AcceptSteps, MoveToRejectedSteps, Unrecorded
  <2>9. KnowsRight(p)'
    BY <2>2, <2>8 DEF KnowsRight, Untaken
  <2>. QED
    BY <2>6, <2>9
<1>5. CASE RejectStatus(p)
  <2>0. pc[p] = "reject_status"
    BY <1>5 DEF RejectStatus, RejectReturn, Goto, End
  <2>1. PICK dst \in Paths \union {NoPath} : dst = files[c].path
    BY <1>2 DEF Row
  <2>2. UNCHANGED disk /\ pc'[p] \in {"idle", "trash_unlink"} /\ SetRow(c, "rejected", dst)
    BY <1>0, <1>1, <1>5, <2>1 DEF RejectStatus, RejectReturn, TransitionStatus, Goto, End
  <2>3. dst # NoPath => dst.root = "rejected" /\ disk[dst] = c
    BY <1>1, <2>0, <2>1 DEF KnowsRight, RowKnown, Idle, WithinRoot
  <2>4. /\ \A d \in Contents \ {c} : Settled(d)
        /\ \A path \in Paths : Recorded(path)
    BY <1>1, <2>0 DEF AgreesBut, Unrecorded
  <2>5. \A path \in Paths : disk[path] = c => path = dst
    BY <2>1, <2>4 DEF Recorded
  <2>6. /\ \A d \in Contents \ {c} : Settled(d)'
        /\ \A path \in Paths : Recorded(path)'
        /\ files'[c] = [status |-> "rejected", path |-> dst]
    BY <2>2, <2>4, <2>5, RowSettles, SMT
  <2>7. Settled(c)'
    BY <2>2, <2>3, <2>6, SMT DEF Settled, WithinRoot
  <2>8. KnowsRight(p)'
    BY <2>2, PlainKnows DEF PlainSteps
  <2>. QED
    BY <2>6, <2>7, <2>8 DEF AgreesBut
<1>. QED
  BY <1>3, <1>4, <1>5

\* A step of the one command keeps rows and files in agreement.
LEMMA CommandLocated ==
    ASSUME Inv, NameIsFree, NEW p \in Procs, AgreesBut(p), KnowsRight(p), blocked_rules = {},
           IngestNext(p) \/ OperatorNext(p)
    PROVE  AgreesBut(p)' /\ KnowsRight(p)'
<1>1. ~ RejectClear(p)
  BY DEF RejectClear, Goto, KnowsRight, Untaken
<1>2. CASE IngestNext(p)
  BY <1>2, IngestLocated, QuietIngest
<1>3. CASE OperatorNext(p)
  BY <1>1, <1>3, QuietStart, QuietOperator, AcceptLocated, PurgeLocated, UnknownLocated,
     RejectLocated DEF OperatorNext
<1>. QED
  BY <1>2, <1>3

\* No step of a process changes the block rules.
LEMMA RulesKept ==
    ASSUME NEW p \in Procs, IngestNext(p) \/ OperatorNext(p) PROVE UNCHANGED blocked_rules
<1>1. CASE IngestNext(p)
  BY <1>1 DEF IngestNext, IngestDrop, IngestPrefilter, IngestHash, EndAtOnce, IngestRules,
     IngestLookup, IngestKnown, FinalizeKnownIngest, IngestChoose, Choose, IngestCommit, IngestStat,
     IngestFinalize, FinalizeUnknownIngest, BlockRow, CreateOrUpdateFile, BlockIndex,
     UpsertMetadataIndex, BlockOrigin, UpsertFileOrigin, BlockAudit, AppendAuditEvent, registryVars
<1>2. CASE OperatorNext(p)
  BY <1>2 DEF OperatorNext, AcceptStart, PurgeStart, RejectStart, TrashStart, EndAtOnce,
     AcceptChoose, AcceptMove, AcceptUnlink, AcceptFinalize, FinalizeAcceptFromPending, PurgeUnlink,
     PurgeFinalize, FinalizePurgeFromRejected, RejectNoop, UnknownChoose, UnknownMove, UnknownRow,
     CreateOrUpdateFile, UnknownAudit, AppendAuditEvent, RejectRead, RejectCheck, RejectClear,
     RejectChoose, RejectMove, RejectPath, UpdateCurrentPath, RejectStatus, TransitionStatus,
     TrashUnlink, Choose, registryVars
<1>. QED
  BY <1>1, <1>2

\* The empty queue agrees with the empty registry.
LEMMA LocatedInit ==
    Init => /\ \A c \in Contents : Settled(c)
            /\ \A path \in Paths : Recorded(path)
            /\ blocked_rules = {}
            /\ \A p \in Procs : AgreesBut(p) /\ KnowsRight(p)
<1> SUFFICES ASSUME Init PROVE /\ \A c \in Contents : Settled(c)
                               /\ \A path \in Paths : Recorded(path)
                               /\ blocked_rules = {}
                               /\ \A p \in Procs : AgreesBut(p) /\ KnowsRight(p)
  OBVIOUS
<1>1. \A c \in Contents : Settled(c)
  BY DEF Init, RegistryInit, NoRow, Settled
<1>2. \A path \in Paths : Recorded(path)
  BY DEF Init, Recorded
<1>3. ASSUME NEW p \in Procs PROVE KnowsRight(p)
  BY DEF Init, KnowsRight, Idle, Untaken
<1>. QED
  BY <1>1, <1>2, <1>3 DEF Init, RegistryInit, AgreesBut

\* The invariant of commands that run one at a time: rows and files agree but for
\* what the command at work is about to record.
LocationOK ==
    /\ blocked_rules = {}
    /\ \A p \in Procs : AgreesBut(p) /\ KnowsRight(p)
    /\ (\A p \in Procs : Idle(p)) => /\ \A c \in Contents : Settled(c)
                                     /\ \A path \in Paths : Recorded(path)

\* Commands that run to their end one at a time keep rows and files in agreement.
LEMMA LocationInvariance ==
    ASSUME Serial, Env \subseteq {"trash_copy"} PROVE Spec => []LocationOK
<1>1. Init => LocationOK
  BY LocatedInit DEF LocationOK
<1>2. ASSUME Inv, NameIsFree, LocationOK, [Next]_vars PROVE LocationOK'
  <2>0. /\ blocked_rules = {}
        /\ \A p \in Procs : AgreesBut(p) /\ KnowsRight(p)
        /\ (\A p \in Procs : Idle(p)) => /\ \A c \in Contents : Settled(c)
                                         /\ \A path \in Paths : Recorded(path)
    BY <1>2 DEF LocationOK
  <2>1. ASSUME NEW p \in Procs, IngestNext(p) \/ OperatorNext(p) PROVE LocationOK'
    <3>1. AgreesBut(p)' /\ KnowsRight(p)'
      BY <1>2, <2>0, <2>1, CommandLocated
    <3>2. pc'[p] = "idle" => /\ \A c \in Contents : Settled(c)'
                             /\ \A path \in Paths : Recorded(path)'
      BY <3>1 DEF AgreesBut, Unsettled, Unrecorded
    <3>3. blocked_rules' = {}
      BY <1>2, <2>0, <2>1, RulesKept
    <3>. QED
      BY <2>1, <3>1, <3>2, <3>3, OneProcess DEF Idle, LocationOK
  <2>2. CASE UNCHANGED <<files, disk, blocked_rules, procVars>>
    <3>1. ASSUME NEW p \in Procs PROVE AgreesBut(p)'
      BY <2>0, <2>2 DEF AgreesBut, Settled, Recorded, procVars
    <3>2. ASSUME NEW p \in Procs PROVE KnowsRight(p)'
      BY <2>0, <2>2 DEF KnowsRight, RowKnown, DestKnown, Idle, procVars
    <3>. QED
      BY <2>0, <2>2, <3>1, <3>2 DEF Settled, Recorded, Idle, procVars, LocationOK
  <2>3. CASE EnvNext
    BY <2>2, <2>3 DEF EnvNext, Crash, CopyToTrash, MoveToTrash, MoveToLibrary, Triage,
       ChangeBlockRules, registryVars
  <2>. QED
    BY <1>2, <2>1, <2>2, <2>3 DEF Next, vars, registryVars
<1>. QED
  BY <1>1, <1>2, Invariance, ChosenNamesStayFree, PTL DEF Spec

\* Commands that run to their end one at a time keep the state table of the
\* registry: when none is running, every content is where its status says and
\* every file on disk has a row that points at it, for any template, any layout of
\* filesystems and any copies dropped into the trash directory.
THEOREM EverythingIsInItsPlace ==
    ASSUME Serial, Env \subseteq {"trash_copy"}
    PROVE  Spec => []LocationMatchesStatus
<1>1. LocationOK => LocationMatchesStatus
  BY DEF LocationOK, LocationMatchesStatus, Settled, Recorded
<1>. QED
  BY <1>1, LocationInvariance, PTL

-----------------------------------------------------------------------------
(* Commands touch their own files, whatever the names *)

\* Steps that take a file away from where its row says it is.
Taking == {"accept_move", "accept_unlink", "reject_move", "purge_unlink"}

\* The path a command follows still leads to the content it was asked for.
LEMMA SourceIsOwn ==
    ASSUME Inv, LocationOK, NEW p \in Procs, pc[p] \in Taking
    PROVE  /\ job[p].sha \in Contents /\ seen[p].path \in Paths
           /\ disk[seen[p].path] = job[p].sha
<1>1. job[p].sha \in Contents /\ seen[p].path \in Paths /\ seen[p].path # NoPath
  BY DEF Inv, ProcsOK, LocalOK, HasSource, Taking, Renders
<1>2. /\ files[job[p].sha] = seen[p]
      /\ seen[p].status \in {"pending", "accepted", "rejected"}
  BY DEF LocationOK, KnowsRight, RowKnown, Idle, Taking, AcceptSteps, MoveToRejectedSteps
<1>3. Settled(job[p].sha)
  BY <1>1 DEF LocationOK, AgreesBut, Taking, Unsettled
<1>. QED
  BY <1>1, <1>2, <1>3 DEF Settled

\* A file that a step of a command takes away is its own, and unless the step is
\* the unlink of a purge another copy is there now.
LEMMA TakesItsOwn ==
    ASSUME Inv, NameIsFree, LocationOK, NEW p \in Procs, IngestNext(p) \/ OperatorNext(p),
           NEW path \in Paths, disk[path] # NoFile, disk'[path] # disk[path]
    PROVE  /\ disk[path] = job[p].sha
           /\ pc[p] = "purge_unlink" \/ Held(disk', disk[path])
<1>0. disk \in [Paths -> Contents \union {NoFile}]
  BY DEF Inv, DiskOK
<1>1. ASSUME pc[p] \in Moving PROVE dest[p] \in Paths /\ disk[dest[p]] = NoFile
  BY <1>1 DEF Inv, ProcsOK, LocalOK, HasDest, Moving, Renders, NameIsFree
<1>2. CASE IngestCommit(p)
  BY <1>0, <1>1, <1>2 DEF IngestCommit, Goto, Moving, CopyTo
<1>3. CASE UnknownMove(p)
  BY <1>0, <1>1, <1>3 DEF UnknownMove, Goto, Moving, CopyTo
<1>4. CASE AcceptMove(p)
  <2>1. pc[p] = "accept_move"
    BY <1>4 DEF AcceptMove, Goto, End
  <2>2. CASE disk' = Rename(disk, seen[p].path, dest[p])
    <3>1. path = seen[p].path /\ disk[path] = job[p].sha
      BY <1>0, <1>1, <2>1, <2>2, SourceIsOwn DEF Moving, Taking, Rename
    <3>2. disk'[dest[p]] = disk[path]
      BY <1>0, <1>1, <2>1, <2>2, <3>1 DEF Moving, Rename
    <3>. QED
      BY <1>1, <2>1, <3>1, <3>2 DEF Moving, Held
  <2>3. CASE disk' = CopyTo(disk, disk[seen[p].path], dest[p])
    BY <1>0, <1>1, <2>1, <2>3 DEF Moving, CopyTo
  <2>. QED
    BY <1>4, <2>2, <2>3 DEF AcceptMove
<1>5. CASE RejectMove(p)
  <2>1. pc[p] = "reject_move" /\ disk' = Rename(disk, seen[p].path, dest[p])
    BY <1>5 DEF RejectMove, Goto, End
  <2>2. path = seen[p].path /\ disk[path] = job[p].sha
    BY <1>0, <1>1, <2>1, SourceIsOwn DEF Moving, Taking, Rename
  <2>3. disk'[dest[p]] = disk[path]
    BY <1>0, <1>1, <2>1, <2>2 DEF Moving, Rename
  <2>. QED
    BY <1>1, <2>1, <2>2, <2>3 DEF Moving, Held
<1>6. CASE AcceptUnlink(p)
  <2>1. pc[p] = "accept_unlink" /\ disk' = Unlink(disk, seen[p].path)
    BY <1>6 DEF AcceptUnlink, Goto
  <2>2. path = seen[p].path /\ disk[path] = job[p].sha
    BY <1>0, <2>1, SourceIsOwn DEF Taking, Unlink
  <2>3. dest[p] \in Paths /\ disk[dest[p]] = job[p].sha /\ dest[p] # seen[p].path
    <3>1. Renders(dest[p], job[p].sha) /\ seen[p].path.root = "pending"
      BY <2>1 DEF Inv, ProcsOK, LocalOK, HasDest
    <3>2. dest[p].root = "accepted" /\ disk[dest[p]] = job[p].sha
      BY <2>1 DEF LocationOK, KnowsRight, DestKnown, Idle, Unrecorded
    <3>. QED
      BY <3>1, <3>2 DEF Renders
  <2>. QED
    BY <1>0, <2>1, <2>2, <2>3 DEF Unlink, Held
<1>7. CASE PurgeUnlink(p)
  BY <1>0, <1>7, SourceIsOwn DEF PurgeUnlink, Goto, Taking, Unlink
<1>8. CASE ~ (IngestCommit(p) \/ UnknownMove(p) \/ AcceptMove(p) \/ RejectMove(p)
              \/ AcceptUnlink(p) \/ PurgeUnlink(p))
  <2>1. CASE IngestNext(p)
    BY <1>8, <2>1 DEF IngestNext, IngestDrop, IngestPrefilter, IngestHash, EndAtOnce,
       IngestRules, IngestLookup, IngestKnown, IngestChoose, Choose, IngestStat,
       IngestFinalize, BlockRow, BlockIndex, BlockOrigin, BlockAudit
  <2>2. CASE OperatorNext(p)
    BY <1>8, <2>2 DEF OperatorNext, AcceptStart, PurgeStart, RejectStart, TrashStart,
       EndAtOnce, AcceptChoose, Choose, AcceptFinalize, PurgeFinalize, RejectNoop,
       UnknownChoose, UnknownRow, UnknownAudit, RejectRead, RejectCheck,
       RejectClear, RejectChoose, RejectPath, RejectStatus, TrashUnlink
  <2>. QED
    BY <2>1, <2>2
<1>. QED
  BY <1>2, <1>3, <1>4, <1>5, <1>6, <1>7, <1>8

\* Around the processes, copies are dropped into the trash directory only.
LEMMA EnvKeepsProcesses ==
    ASSUME Env \subseteq {"trash_copy"}, EnvNext PROVE UNCHANGED <<disk, procVars>>
  BY DEF EnvNext, Crash, CopyToTrash, MoveToTrash, MoveToLibrary, Triage, ChangeBlockRules

\* Commands that run to their end one at a time move and unlink no file but those
\* of the content they were asked for, although they never hash what they find:
\* for any template, the default one that renders many contents under one name
\* included, and any layout of filesystems.
THEOREM CommandsTouchTheirOwn ==
    ASSUME Serial, Env \subseteq {"trash_copy"} PROVE Spec => OwnFilesOnly
<1> DEFINE Own == \A p \in Procs, path \in Paths :
                     /\ pc'[p] # pc[p]
                     /\ disk[path] # NoFile
                     /\ disk'[path] # disk[path]
                     => disk[path] = job[p].sha
<1>1. ASSUME Inv, NameIsFree, LocationOK, [Next]_vars, NEW p \in Procs, NEW path \in Paths,
             pc'[p] # pc[p], disk[path] # NoFile, disk'[path] # disk[path]
      PROVE  disk[path] = job[p].sha
  <2>1. ASSUME NEW q \in Procs, IngestNext(q) \/ OperatorNext(q) PROVE disk[path] = job[p].sha
    BY <1>1, <2>1, TakesItsOwn, OneProcess
  <2>. QED
    BY <1>1, <2>1, EnvKeepsProcesses DEF Next, vars
<1>2. Inv /\ NameIsFree /\ LocationOK /\ [Next]_vars => [Own]_vars
  BY <1>1
<1> HIDE DEF Own
<1>. QED
  BY <1>2, Invariance, ChosenNamesStayFree, LocationInvariance, PTL DEF Spec, OwnFilesOnly, Own

\* Nor do they destroy the last copy of a content, but for the purge of that
\* content: what NothingIsLost says of concurrent commands under names of their
\* own holds of commands in turn for any template and any layout of filesystems.
THEOREM NothingIsLostInTurn ==
    ASSUME Serial, Env \subseteq {"trash_copy"} PROVE Spec => NothingLost
<1> DEFINE Loss(c) == Held(disk, c) /\ ~ Held(disk', c) /\ pc' # pc
           Purges(c) == \E p \in Procs : pc[p] = "purge_unlink" /\ job[p].sha = c
<1>1. ASSUME Inv, NameIsFree, LocationOK, [Next]_vars, NEW c \in Contents, Loss(c)
      PROVE  Purges(c)
  <2>1. PICK path \in Paths : disk[path] = c /\ disk'[path] # c
    BY <1>1 DEF Held
  <2>2. ASSUME NEW p \in Procs, IngestNext(p) \/ OperatorNext(p) PROVE Purges(c)
    BY <1>1, <2>1, <2>2, TakesItsOwn
  <2>. QED
    BY <1>1, <2>1, <2>2, EnvKeepsProcesses DEF Next, vars
<1>2. Inv /\ NameIsFree /\ LocationOK /\ [Next]_vars
        => [\A c \in Contents : Loss(c) => Purges(c)]_vars
  BY <1>1
<1> HIDE DEF Loss, Purges
<1>. QED
  BY <1>2, Invariance, ChosenNamesStayFree, LocationInvariance, PTL
     DEF Spec, NothingLost, Loss, Purges

=============================================================================
