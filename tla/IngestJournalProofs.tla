------------------------ MODULE IngestJournalProofs ------------------------
(***************************************************************************)
(* Proofs about IngestJournal, for any items, contents and journal limit   *)
(* and any number of crashes: types, that nothing committed vanishes, that *)
(* the cursor passes only what is recorded or dropped, and that replay is  *)
(* complete when it clears the journal.                                    *)
(*                                                                         *)
(* Each has an invariant of its own: what is staged is what the service    *)
(* delivers (StagedInv), files are under the names rendered for them       *)
(* (NamesInv), an item of the page is somewhere (PageInv), and what replay *)
(* has done so far (ReplayInv).                                            *)
(***************************************************************************)
EXTENDS IngestJournal, WellFoundedInduction, TLAPS

\* Zenon finds most leaves; the ones about records and arithmetic ask for SMT.
USE Zenon

-----------------------------------------------------------------------------
(* Operators: the oldest operation, the latest record, append *)

\* A set of numbers that is not empty has a least one.
LEMMA LeastExists ==
    ASSUME NEW T \in SUBSET Nat, T # {}
    PROVE  \E n \in T : \A m \in T : n <= m
<1>1. PICK x \in T : \A y \in T : ~ (<<y, x>> \in OpToRel(<, Nat))
  BY NatLessThanWellFounded, WFMin
<1>2. \A y \in T : <<y, x>> \in OpToRel(<, Nat) <=> y < x
  BY SMT DEF OpToRel
<1>3. \A y \in T : ~ (y < x)
  BY <1>1, <1>2
<1> QED
  BY <1>3, SMT

\* Replay takes the operations one by one.
LEMMA OldestIsOne ==
    ASSUME NEW ids \in SUBSET Nat, ids # {}
    PROVE  Oldest(ids) \in ids
  BY LeastExists DEF Oldest

\* A set of positions that is not empty has a last one.
LEMMA LastExists ==
    ASSUME NEW n \in Nat, NEW T \in SUBSET (1..n), T # {}
    PROVE  \E k \in T : \A j \in T : j <= k
<1> DEFINE D == {n - k : k \in T}
<1>1. \A k \in T : n - k \in Nat
  BY SMT
<1>2. D \in SUBSET Nat /\ D # {}
  BY <1>1
<1>3. PICK d \in D : \A e \in D : d <= e
  BY <1>2, LeastExists
<1>4. PICK k \in T : d = n - k
  BY <1>3
<1>5. \A j \in T : n - k <= n - j
  BY <1>3, <1>4
<1>6. \A j \in T : j <= k
  BY <1>5, SMT
<1> QED
  BY <1>6

\* The last record of an operation that has one is a record of it.
LEMMA LatestIsRecord ==
    ASSUME journal \in Seq(Records), NEW id \in {r.op : r \in Range(journal)}
    PROVE  Latest(id) \in Records
<1> DEFINE mine == {k \in DOMAIN journal : journal[k].op = id}
<1>1. DOMAIN journal = 1..Len(journal) /\ Len(journal) \in Nat
  BY SMT
<1>2. mine \in SUBSET (1..Len(journal)) /\ mine # {}
  BY <1>1 DEF Range
<1> HIDE DEF mine
<1>3. \E k \in mine : \A j \in mine : j <= k
  BY <1>1, <1>2, LastExists
<1>4. (CHOOSE k \in mine : \A j \in mine : j <= k) \in mine
  BY <1>3
<1>5. \A k \in 1..Len(journal) : journal[k] \in Records
  BY SMT
<1>6. Latest(id) = journal[CHOOSE k \in mine : \A j \in mine : j <= k]
  BY DEF Latest, mine
<1> QED
  BY <1>2, <1>4, <1>5, <1>6

\* append rotates a full journal: what it leaves is never too long.
LEMMA AppendIsBounded ==
    ASSUME journal \in Seq(Records), Len(journal) <= MaxRecords,
           op' \in [id: Nat, item: Items, dest: Paths \union {NoPath}],
           NEW phase \in Phases, JournalAppend(phase)
    PROVE  journal' \in Seq(Records) /\ Len(journal') <= MaxRecords /\ journal' # <<>>
<1> DEFINE r == [op |-> op'.id, phase |-> phase, item |-> op'.item, dest |-> op'.dest]
<1>1. r \in Records
  BY SMT DEF Records
<1>2. MaxRecords \in Nat \ {0}
  BY JournalAssumption
<1>3. Rotated \in Seq(Records) /\ Len(Rotated) < MaxRecords
  BY <1>2, SMT DEF Rotated
<1>4. journal' = Append(Rotated, r)
  BY DEF JournalAppend
<1> HIDE DEF r
<1> QED
  BY <1>1, <1>2, <1>3, <1>4, SMT

-----------------------------------------------------------------------------
(* What changes what *)

\* Each variable is changed by these steps only.
LEMMA Frames ==
    ASSUME [Next]_jvars
    PROVE  /\ disk' = disk \/ Commit \/ ReplayDestination
           /\ orphans' = orphans \/ ReplayDestination
           /\ registryVars' = registryVars \/ KnownFinalize \/ FinalizeUnknown
           /\ op' = op \/ Start \/ Commit
           /\ due' = due \/ CloudChange \/ SaveCursor
           /\ todo' = todo \/ ReplayBegin \/ ReplayStaging \/ Crash
           /\ \/ journal' = journal \/ ReplayClear
              \/ \E phase \in Phases : JournalAppend(phase)
           /\ \/ staged' = staged \/ StagePage
              \/ \E i : staged' = [staged EXCEPT ![i] = NoContent]
<1> USE DEF Next, Work, ReplayBegin, ReplayDestination, ReplayStaging, ReplayClear, StagePage, SaveCursor,
       Start, MissingStaged, SizeMismatch, Drop, PrefilterDiscard, HashCompleted, Lookup, KnownUnlink,
       KnownFinalize, Commit, CommitUnlink, StorageCommitted, FinalizeUnknown, RegistryPersisted,
       CloudChange, StagedFileRemoved, Crash, Log, Unstage, jvars, pageVars, boundVars
<1>1. disk' = disk \/ Commit \/ ReplayDestination
  OBVIOUS
<1>2. orphans' = orphans \/ ReplayDestination
  OBVIOUS
<1>3. registryVars' = registryVars \/ KnownFinalize \/ FinalizeUnknown
  OBVIOUS
<1>4. op' = op \/ Start \/ Commit
  OBVIOUS
<1>5. due' = due \/ CloudChange \/ SaveCursor
  OBVIOUS
<1>6. todo' = todo \/ ReplayBegin \/ ReplayStaging \/ Crash
  OBVIOUS
<1>7. \/ journal' = journal \/ ReplayClear
      \/ \E phase \in Phases : JournalAppend(phase)
  BY DEF Phases
<1>8. \/ staged' = staged \/ StagePage
      \/ \E i : staged' = [staged EXCEPT ![i] = NoContent]
  OBVIOUS
<1> QED
  BY <1>1, <1>2, <1>3, <1>4, <1>5, <1>6, <1>7, <1>8
-----------------------------------------------------------------------------
(* Types *)

\* The registry transactions of the engine keep the tables typed.
LEMMA RegistryTypes ==
    ASSUME TypeOK, [Next]_jvars
    PROVE  RegistryTypeOK'
<1> USE DEF TypeOK, RegistryTypeOK
<1>1. Item \in Items /\ op.dest \in Paths \union {NoPath}
  BY SMT DEF Item
<1>2. Delivers[Item] \in Contents
  BY <1>1, JournalAssumption
<1> DEFINE row == [status |-> "pending", path |-> op.dest]
<1>3. row \in Row
  BY <1>1, SMT DEF Row, Statuses
<1>4. "pending" \in Statuses
  BY DEF Statuses
<1> HIDE DEF row
<1>5. ASSUME registryVars' = registryVars PROVE RegistryTypeOK'
  BY <1>5 DEF registryVars
<1>6. ASSUME KnownFinalize PROVE RegistryTypeOK'
  BY <1>6, <1>1, <1>2 DEF KnownFinalize, FinalizeKnownIngest
<1>7. ASSUME FinalizeUnknown PROVE RegistryTypeOK'
  <2> HIDE DEF TypeOK
  <2>1. files' = [files EXCEPT ![Delivers[Item]] = row]
    BY <1>7 DEF FinalizeUnknown, FinalizeUnknownIngest, SetRow, row
  <2>2. files' \in [Contents -> Row]
    BY <2>1, <1>3 DEF TypeOK
  <2>3. audit_log' \in [Contents -> Statuses \union {"unknown"}]
    BY <1>7, <1>4 DEF TypeOK, FinalizeUnknown, FinalizeUnknownIngest
  <2>4. /\ metadata_index' \in [Items -> Contents \union {NoContent}]
        /\ file_origins' \in [Items -> Contents \union {NoContent}]
    BY <1>7, <1>2 DEF TypeOK, FinalizeUnknown, FinalizeUnknownIngest
  <2>5. accepted_records' = accepted_records /\ blocked_rules' = blocked_rules
    BY <1>7 DEF FinalizeUnknown, FinalizeUnknownIngest
  <2> QED
    BY <2>2, <2>3, <2>4, <2>5 DEF TypeOK
<1> QED
  BY <1>5, <1>6, <1>7, Frames

\* The current operation names an item and a path.
LEMMA OpTypes ==
    ASSUME TypeOK, [Next]_jvars
    PROVE  op' \in [id: Nat, item: Items, dest: Paths \union {NoPath}]
<1> USE DEF TypeOK
<1>1. ASSUME Start PROVE op' \in [id: Nat, item: Items, dest: Paths \union {NoPath}]
  BY <1>1, SMT DEF Start
<1>2. ASSUME Commit PROVE op' \in [id: Nat, item: Items, dest: Paths \union {NoPath}]
  <2>1. PICK dest \in Paths : op' = [op EXCEPT !.dest = dest]
    BY <1>2 DEF Commit, ChooseDestination
  <2> QED
    BY <2>1, SMT
<1> QED
  BY <1>1, <1>2, Frames

\* What is staged comes from the service; at a commit it is still there.
StagedInv ==
    /\ \A i \in Items : staged[i] \in {Delivers[i], NoContent}
    /\ pc \in {"lookup", "commit"} => Sha = Delivers[Item]

\* Staged files are of their item's content from one step to the next.
LEMMA StagedStep ==
    ASSUME TypeOK, StagedInv, [Next]_jvars
    PROVE  StagedInv' /\ staged' \in [Items -> Contents \union {NoContent}]
<1>1. op.item \in Items
  BY SMT DEF TypeOK
<1>2. staged \in [Items -> Contents \union {NoContent}]
  BY DEF TypeOK
<1>3. \A i \in Items : Delivers[i] \in Contents
  BY JournalAssumption
<1>4. staged' \in [Items -> Contents \union {NoContent}] /\ \A i \in Items : staged'[i] \in {Delivers[i], NoContent}
  <2>1. CASE staged' = staged
    BY <2>1, <1>2 DEF StagedInv
  <2>2. CASE StagePage
    BY <2>2, <1>2, <1>3 DEF StagedInv, StagePage
  <2>3. CASE \E i : staged' = [staged EXCEPT ![i] = NoContent]
    BY <2>3, <1>2 DEF StagedInv
  <2> QED
    BY <2>1, <2>2, <2>3, Frames
<1>5. pc' = "lookup" => (HashCompleted \/ UNCHANGED jvars)
  BY DEF Next, Work, ReplayBegin, ReplayDestination, ReplayStaging, ReplayClear, StagePage, SaveCursor,
       Start, MissingStaged, SizeMismatch, Drop, PrefilterDiscard, Lookup, KnownUnlink,
       KnownFinalize, Commit, CommitUnlink, StorageCommitted, FinalizeUnknown, RegistryPersisted,
       CloudChange, StagedFileRemoved, Crash, Log, Unstage
<1>6. pc' = "commit" => (Lookup \/ UNCHANGED jvars)
  BY DEF Next, Work, ReplayBegin, ReplayDestination, ReplayStaging, ReplayClear, StagePage, SaveCursor,
       Start, MissingStaged, SizeMismatch, Drop, PrefilterDiscard, HashCompleted, KnownUnlink,
       KnownFinalize, Commit, CommitUnlink, StorageCommitted, FinalizeUnknown, RegistryPersisted,
       CloudChange, StagedFileRemoved, Crash, Log, Unstage
<1>7. ASSUME HashCompleted PROVE staged'[op'.item] = Delivers[op'.item]
  BY <1>7, <1>1 DEF HashCompleted, Log, Sha, Item, StagedInv
<1>8. ASSUME Lookup PROVE staged'[op'.item] = Delivers[op'.item]
  BY <1>8 DEF Lookup, StagedInv, Sha, Item
<1>9. ASSUME UNCHANGED jvars, pc \in {"lookup", "commit"} PROVE staged'[op'.item] = Delivers[op'.item]
  BY <1>9 DEF jvars, StagedInv, Sha, Item
<1>10. pc' \in {"lookup", "commit"} => staged'[op'.item] = Delivers[op'.item]
  BY <1>5, <1>6, <1>7, <1>8, <1>9 DEF jvars
<1> QED
  BY <1>4, <1>10 DEF StagedInv, Sha, Item

\* The engine and the replay move contents, and only contents.
LEMMA DiskTypes ==
    ASSUME TypeOK, StagedInv, [Next]_jvars
    PROVE  /\ disk' \in [Paths -> Contents \union {NoFile}]
           /\ orphans' \in [Paths -> Contents \union {NoFile}]
<1>1. /\ disk \in [Paths -> Contents \union {NoFile}]
      /\ orphans \in [Paths -> Contents \union {NoFile}]
  BY DEF TypeOK
<1>2. op.item \in Items
  BY SMT DEF TypeOK
<1>3. Delivers[Item] \in Contents
  BY <1>2, JournalAssumption DEF Item
<1>4. ASSUME Commit PROVE disk' \in [Paths -> Contents \union {NoFile}]
  <2>1. Sha = Delivers[Item]
    BY <1>4 DEF Commit, StagedInv
  <2>2. PICK dest \in Paths : disk' = [disk EXCEPT ![dest] = Delivers[Item]]
    BY <1>4, <2>1 DEF Commit, ChooseDestination, CopyTo
  <2> QED
    BY <2>2, <1>1, <1>3
<1>5. ASSUME ReplayDestination
      PROVE  /\ disk' \in [Paths -> Contents \union {NoFile}]
             /\ orphans' \in [Paths -> Contents \union {NoFile}]
  <2> DEFINE dest == Latest(Oldest(todo)).dest
  <2>1. CASE Exists(disk, dest)
    <3>1. orphans' = [orphans EXCEPT ![dest] = disk[dest]] /\ disk' = [disk EXCEPT ![dest] = NoFile]
      BY <1>5, <2>1 DEF ReplayDestination, Unlink
    <3> HIDE DEF dest
    <3>2. disk' \in [Paths -> Contents \union {NoFile}]
      BY <3>1, <1>1
    <3>3. orphans' \in [Paths -> Contents \union {NoFile}]
      BY <3>1, <1>1
    <3> QED
      BY <3>2, <3>3
  <2>2. CASE ~ Exists(disk, dest)
    BY <1>5, <2>2, <1>1 DEF ReplayDestination
  <2> QED
    BY <2>1, <2>2
<1> QED
  BY <1>1, <1>4, <1>5, Frames

\* Rotation bounds the journal, whatever is logged.
LEMMA JournalTypes ==
    ASSUME TypeOK, [Next]_jvars
    PROVE  journal' \in Seq(Records) /\ Len(journal') <= MaxRecords
<1>1. journal \in Seq(Records) /\ Len(journal) <= MaxRecords
  BY DEF TypeOK
<1>2. ASSUME ReplayClear PROVE journal' \in Seq(Records) /\ Len(journal') <= MaxRecords
  <2>1. journal' = <<>>
    BY <1>2 DEF ReplayClear
  <2>2. MaxRecords \in Nat
    BY JournalAssumption
  <2> QED
    BY <2>1, <2>2, SMT
<1>3. ASSUME NEW phase \in Phases, JournalAppend(phase)
      PROVE  journal' \in Seq(Records) /\ Len(journal') <= MaxRecords
  BY <1>1, <1>3, OpTypes, AppendIsBounded
<1> QED
  BY <1>1, <1>2, <1>3, Frames

\* The other variables: the page, the program counter, replay and the bounds.
LEMMA RestTypes ==
    ASSUME TypeOK, [Next]_jvars
    PROVE  /\ due' \subseteq Items /\ batch' \subseteq Items /\ dropped' \subseteq Items
           /\ pc' \in {"startup", "replay_dest", "replay_staging", "poll", "batch", "check",
                       "drop", "lookup", "known_unlink", "known_finalize", "commit", "unstage",
                       "log_committed", "finalize", "log_persisted"}
           /\ todo' \subseteq Nat
           /\ rounds' \in 0..MaxRounds /\ crashes' \in 0..MaxCrashes
<1> USE DEF Next, Work, ReplayBegin, ReplayDestination, ReplayStaging, ReplayClear, StagePage,
       SaveCursor, Start, MissingStaged, SizeMismatch, Drop, PrefilterDiscard, HashCompleted,
       Lookup, KnownUnlink, KnownFinalize, Commit, CommitUnlink, StorageCommitted,
       FinalizeUnknown, RegistryPersisted, CloudChange, StagedFileRemoved, Crash, Log, Unstage,
       jvars, pageVars, boundVars
<1>1. due' \subseteq Items
  BY DEF TypeOK
<1>2. batch' \subseteq Items
  BY DEF TypeOK
<1>3. dropped' = dropped \/ dropped' = {} \/ dropped' = dropped \union {Item}
  OBVIOUS
<1>4. op.item \in Items /\ dropped \subseteq Items
  BY SMT DEF TypeOK
<1>5. dropped' \subseteq Items
  BY <1>3, <1>4 DEF Item
<1>6. pc' \in {"startup", "replay_dest", "replay_staging", "poll", "batch", "check",
               "drop", "lookup", "known_unlink", "known_finalize", "commit", "unstage",
               "log_committed", "finalize", "log_persisted"}
  BY DEF TypeOK
<1>7. rounds' = rounds \/ (rounds < MaxRounds /\ rounds' = rounds + 1)
  OBVIOUS
<1>8. crashes' = crashes \/ (crashes < MaxCrashes /\ crashes' = crashes + 1)
  OBVIOUS
<1>9. todo' \subseteq todo \/ todo' \subseteq Interrupted
  OBVIOUS
<1> QED
  <2> USE DEF TypeOK
  <2> HIDE DEF Next, jvars
  <2>1. rounds' \in 0..MaxRounds
    <3>1. rounds \in 0..MaxRounds /\ MaxRounds \in Nat
      BY JournalAssumption
    <3> QED
      BY <3>1, <1>7, SMT
  <2>2. crashes' \in 0..MaxCrashes
    <3>1. crashes \in 0..MaxCrashes /\ MaxCrashes \in Nat
      BY JournalAssumption
    <3> QED
      BY <3>1, <1>8, SMT
  <2>3. Interrupted \subseteq Nat
    <3>1. \A r \in Range(journal) : r \in Records
      BY SMT DEF Range
    <3>2. \A r \in Records : r.op \in Nat
      BY SMT DEF Records
    <3> QED
      BY <3>1, <3>2 DEF Interrupted
  <2>4. todo' \subseteq Nat
    BY <1>9, <2>3
  <2> QED
    BY <1>1, <1>2, <1>5, <1>6, <2>1, <2>2, <2>4

\* Initially all tables, directories and the journal are empty.
LEMMA InitTypes == Init => TypeOK /\ StagedInv
<1> SUFFICES ASSUME Init PROVE TypeOK /\ StagedInv
  OBVIOUS
<1> USE DEF Init
<1>1. RegistryTypeOK
  <2>1. NoRow \in Row
    BY SMT DEF NoRow, Row
  <2> QED
    BY <2>1 DEF RegistryInit, RegistryTypeOK
<1>2. /\ disk \in [Paths -> Contents \union {NoFile}]
      /\ orphans \in [Paths -> Contents \union {NoFile}]
  OBVIOUS
<1>3. staged \in [Items -> Contents \union {NoContent}]
  OBVIOUS
<1>4. journal \in Seq(Records) /\ Len(journal) <= MaxRecords
  <2>1. journal = <<>>
    OBVIOUS
  <2>2. MaxRecords \in Nat
    BY JournalAssumption
  <2> QED
    BY <2>1, <2>2, SMT
<1>5. op \in [id: Nat, item: Items, dest: Paths \union {NoPath}]
  <2>1. (CHOOSE i \in Items : TRUE) \in Items
    BY JournalAssumption
  <2> DEFINE first == CHOOSE i \in Items : TRUE
  <2>2. op = [id |-> 0, item |-> first, dest |-> NoPath]
    OBVIOUS
  <2> HIDE DEF first, Init
  <2>3. first \in Items
    BY <2>1 DEF first
  <2> QED
    BY <2>2, <2>3, SMT
<1>6. rounds \in 0..MaxRounds /\ crashes \in 0..MaxCrashes
  <2>1. rounds = 0 /\ crashes = 0
    OBVIOUS
  <2>2. MaxRounds \in Nat /\ MaxCrashes \in Nat
    BY JournalAssumption
  <2> QED
    BY <2>1, <2>2, SMT
<1>7. due = {} /\ batch = {} /\ dropped = {} /\ todo = {} /\ pc = "startup"
  OBVIOUS
<1>8. TypeOK
  BY <1>1, <1>2, <1>3, <1>4, <1>5, <1>6, <1>7 DEF TypeOK
<1>9. StagedInv
  BY <1>7 DEF StagedInv
<1> QED
  BY <1>8, <1>9

\* TypeOK and StagedInv together are inductive: what a commit stores is a
\* content only because the staged file is still there.
LEMMA TypeInvariance == Spec => [](TypeOK /\ StagedInv)
<1>1. TypeOK /\ StagedInv /\ [Next]_jvars => (TypeOK /\ StagedInv)'
  <2> SUFFICES ASSUME TypeOK, StagedInv, [Next]_jvars PROVE TypeOK' /\ StagedInv'
    OBVIOUS
  <2>1. TypeOK'
    BY RegistryTypes, OpTypes, StagedStep, DiskTypes, JournalTypes, RestTypes DEF TypeOK
  <2> QED
    BY <2>1, StagedStep
<1> QED
  BY <1>1, InitTypes, PTL DEF Spec

\* TypeOK: the tables, the directories and the journal hold what they are
\* declared to hold, and rotation keeps the journal within its limit.
THEOREM JournalTypeCorrectness == Spec => []TypeOK
  BY TypeInvariance, PTL

-----------------------------------------------------------------------------
(* Nothing vanishes *)

\* A file is stored under a name rendered for its content.
NamesInv ==
    \A path \in Paths :
        /\ disk[path] # NoFile => path.name \in NamesOf[disk[path]]
        /\ orphans[path] # NoFile => path.name \in NamesOf[orphans[path]]

\* A commit writes a content to a free path with its name.
LEMMA CommitIsFree ==
    ASSUME TypeOK, StagedInv, Commit
    PROVE  \E dest \in Paths :
              /\ disk[dest] = NoFile /\ dest.name \in NamesOf[Delivers[Item]]
              /\ disk' = [disk EXCEPT ![dest] = Delivers[Item]]
  BY DEF Commit, StagedInv, ChooseDestination, CopyTo

\* Replay moves a file to the .orphaned path next to it, or leaves it.
LEMMA ReplayMoves ==
    ASSUME ReplayDestination
    PROVE  \/ disk' = disk /\ orphans' = orphans
           \/ \E dest : /\ disk[dest] # NoFile
                        /\ orphans' = [orphans EXCEPT ![dest] = disk[dest]]
                        /\ disk' = [disk EXCEPT ![dest] = NoFile]
  BY DEF ReplayDestination, Exists, Unlink

\* NamesInv is an invariant.
LEMMA NamesInvariance == Spec => []NamesInv
<1>1. Init => NamesInv
  BY DEF Init, NamesInv
<1>2. NamesInv /\ TypeOK /\ StagedInv /\ [Next]_jvars => NamesInv'
  <2> SUFFICES ASSUME NamesInv, TypeOK, StagedInv, [Next]_jvars PROVE NamesInv'
    OBVIOUS
  <2>1. /\ disk \in [Paths -> Contents \union {NoFile}]
        /\ orphans \in [Paths -> Contents \union {NoFile}]
    BY DEF TypeOK
  <2>2. CASE disk' = disk /\ orphans' = orphans
    BY <2>2 DEF NamesInv
  <2>3. CASE Commit
    <3>1. orphans' = orphans
      BY <2>3 DEF Commit
    <3> QED
      BY <2>3, <3>1, <2>1, CommitIsFree DEF NamesInv
  <2>4. CASE ReplayDestination
    <3>1. CASE \E dest : /\ disk[dest] # NoFile
                         /\ orphans' = [orphans EXCEPT ![dest] = disk[dest]]
                         /\ disk' = [disk EXCEPT ![dest] = NoFile]
      BY <3>1, <2>1 DEF NamesInv
    <3> QED
      BY <3>1, <2>2, <2>4, ReplayMoves
  <2> QED
    BY <2>2, <2>3, <2>4, Frames
<1> QED
  BY <1>1, <1>2, TypeInvariance, PTL DEF Spec

\* NothingVanishes: a commit takes a free path, and replay renames a file over
\* an .orphaned one only where both have the same rendered name.
THEOREM CommittedIsKept == Spec => NothingVanishes
<1> DEFINE Kept == UniqueNames => \A c \in Contents :
                      Held(disk, c) \/ Held(orphans, c) => Held(disk, c)' \/ Held(orphans, c)'
<1>1. NamesInv /\ TypeOK /\ StagedInv /\ [Next]_jvars => [Kept]_jvars
  <2> SUFFICES ASSUME NamesInv, TypeOK, StagedInv, [Next]_jvars, UniqueNames,
                      NEW c \in Contents, Held(disk, c) \/ Held(orphans, c)
               PROVE  Held(disk, c)' \/ Held(orphans, c)'
    OBVIOUS
  <2>1. /\ disk \in [Paths -> Contents \union {NoFile}]
        /\ orphans \in [Paths -> Contents \union {NoFile}]
    BY DEF TypeOK
  <2>2. c # NoFile
    BY StorageAssumption
  <2>3. CASE disk' = disk /\ orphans' = orphans
    BY <2>3 DEF Held
  <2>4. CASE Commit
    <3>1. orphans' = orphans
      BY <2>4 DEF Commit
    <3>2. PICK dest \in Paths : disk[dest] = NoFile /\ disk' = [disk EXCEPT ![dest] = Delivers[Item]]
      BY <2>4, CommitIsFree
    <3>3. \A path \in Paths : disk[path] = c => disk'[path] = c
      BY <3>2, <2>1, <2>2
    <3> QED
      BY <3>1, <3>3 DEF Held
  <2>5. CASE ReplayDestination
    <3>1. ASSUME NEW dest, disk[dest] # NoFile,
                 orphans' = [orphans EXCEPT ![dest] = disk[dest]],
                 disk' = [disk EXCEPT ![dest] = NoFile]
          PROVE  Held(disk, c)' \/ Held(orphans, c)'
      <4>1. ASSUME NEW path \in Paths, disk[path] = c PROVE Held(disk, c)' \/ Held(orphans, c)'
        BY <3>1, <4>1, <2>1 DEF Held
      <4>2. ASSUME NEW path \in Paths, orphans[path] = c PROVE Held(disk, c)' \/ Held(orphans, c)'
        <5>1. CASE path # dest
          BY <3>1, <4>2, <5>1, <2>1 DEF Held
        <5>2. CASE path = dest
          <6>1. disk[path] \in Contents /\ path.name \in NamesOf[disk[path]] /\ path.name \in NamesOf[c]
            BY <3>1, <4>2, <5>2, <2>1, <2>2 DEF NamesInv
          <6>2. disk[path] = c
            BY <6>1 DEF UniqueNames
          <6> QED
            BY <6>2, <4>1
        <5> QED
          BY <5>1, <5>2
      <4> QED
        BY <4>1, <4>2 DEF Held
    <3> QED
      BY <2>3, <2>5, <3>1, ReplayMoves
  <2> QED
    BY <2>3, <2>4, <2>5, Frames
<1> HIDE DEF Kept
<1> QED
  BY <1>1, TypeInvariance, NamesInvariance, PTL DEF Spec, NothingVanishes, Kept

-----------------------------------------------------------------------------
(* What the cursor passes *)

\* Where _process_one is at work on the current item.
Working == {"check", "drop", "lookup", "known_unlink", "known_finalize", "commit", "unstage",
            "log_committed", "finalize", "log_persisted"}

\* An item of the page is still to be processed, is dropped, is in the registry
\* or is the one at work.
PageInv ==
    /\ pc \in Working \union {"batch"} =>
          \A i \in due : \/ i \in batch \/ i \in dropped \/ Known(files[Delivers[i]])
                         \/ (i = Item /\ pc \in Working)
    /\ pc \in {"known_unlink", "known_finalize", "log_persisted"} => Known(files[Delivers[Item]])

\* A content that has a row keeps one.
LEMMA RowsStay ==
    ASSUME TypeOK, [Next]_jvars, NEW c \in Contents, Known(files[c])
    PROVE  Known(files'[c])
<1>1. files' = files \/ FinalizeUnknown
  BY Frames DEF registryVars, KnownFinalize, FinalizeKnownIngest
<1>2. ASSUME FinalizeUnknown PROVE Known(files'[c])
  <2> DEFINE row == [status |-> "pending", path |-> op.dest]
  <2>1. row.status # "unknown"
    BY SMT
  <2>2. files' = [files EXCEPT ![Delivers[Item]] = row] /\ files \in [Contents -> Row]
    BY <1>2 DEF FinalizeUnknown, FinalizeUnknownIngest, SetRow, TypeOK, RegistryTypeOK
  <2> HIDE DEF row
  <2> QED
    BY <2>1, <2>2 DEF Known
<1> QED
  BY <1>1, <1>2

\* FinalizeUnknown gives the content of the current item a row.
LEMMA FinalizeRecords ==
    ASSUME TypeOK, FinalizeUnknown
    PROVE  Known(files'[Delivers[Item]])
<1> DEFINE row == [status |-> "pending", path |-> op.dest]
<1>1. row.status # "unknown"
  BY SMT
<1>2. files' = [files EXCEPT ![Delivers[Item]] = row] /\ files \in [Contents -> Row]
  BY DEF FinalizeUnknown, FinalizeUnknownIngest, SetRow, TypeOK, RegistryTypeOK
<1>3. op.item \in Items
  BY SMT DEF TypeOK
<1>4. Delivers[Item] \in Contents
  BY <1>3, JournalAssumption DEF Item
<1> HIDE DEF row
<1> QED
  BY <1>1, <1>2, <1>4 DEF Known

\* Every step keeps PageInv.
LEMMA PageStep ==
    ASSUME PageInv, TypeOK, StagedInv, [Next]_jvars
    PROVE  PageInv'
<1>1. op.item \in Items /\ due \subseteq Items
  BY SMT DEF TypeOK
<1>2. \A i \in Items : Delivers[i] \in Contents
  BY JournalAssumption
<1>3. \A i \in Items : Known(files[Delivers[i]]) => Known(files'[Delivers[i]])
  BY <1>2, RowsStay
<1> USE DEF PageInv, Working, Item
<1>4. ASSUME pc' \in {"startup", "replay_dest", "replay_staging", "poll"} PROVE PageInv'
  BY <1>4
<1>5. CASE StagePage
  BY <1>5 DEF StagePage
<1>6. CASE Start
  <2>1. PICK i \in batch : batch' = batch \ {i} /\ op' = [id |-> op.id + 1, item |-> i, dest |-> NoPath]
    BY <1>6 DEF Start
  <2>2. op'.item = i
    BY <2>1, SMT
  <2>3. due' = due /\ dropped' = dropped /\ files' = files /\ pc = "batch" /\ pc' = "check"
    BY <1>6 DEF Start, registryVars
  <2> QED
    BY <2>1, <2>2, <2>3
<1>7. CASE MissingStaged
  BY <1>7, <1>1 DEF MissingStaged, registryVars
<1>8. CASE SizeMismatch
  BY <1>8 DEF SizeMismatch, Log, registryVars, pageVars
<1>9. CASE Drop
  BY <1>9 DEF Drop, registryVars
<1>10. CASE PrefilterDiscard
  <2>1. Sha = Delivers[op.item] /\ Known(files[Sha])
    BY <1>10, <1>1 DEF PrefilterDiscard, PrefilterHit, StagedInv, Sha
  <2> QED
    BY <1>10, <2>1 DEF PrefilterDiscard, Unstage, registryVars, pageVars
<1>11. CASE HashCompleted
  BY <1>11 DEF HashCompleted, Log, registryVars, pageVars
<1>12. CASE Lookup
  BY <1>12 DEF Lookup, registryVars, pageVars
<1>13. CASE KnownUnlink
  BY <1>13 DEF KnownUnlink, Unstage, registryVars, pageVars
<1>14. CASE KnownFinalize
  BY <1>14 DEF KnownFinalize, FinalizeKnownIngest, pageVars
<1>15. CASE Commit
  <2>1. PICK dest \in Paths : op' = [op EXCEPT !.dest = dest]
    BY <1>15 DEF Commit, ChooseDestination
  <2>2. op'.item = op.item
    BY <2>1, SMT DEF TypeOK
  <2>3. due' = due /\ batch' = batch /\ dropped' = dropped /\ files' = files
    BY <1>15 DEF Commit, registryVars, pageVars
  <2>4. pc = "commit" /\ pc' \in {"log_committed", "unstage"}
    BY <1>15 DEF Commit
  <2> QED
    BY <2>2, <2>3, <2>4
<1>16. CASE CommitUnlink
  BY <1>16 DEF CommitUnlink, Unstage, registryVars, pageVars
<1>17. CASE StorageCommitted
  BY <1>17 DEF StorageCommitted, Log, registryVars, pageVars
<1>18. CASE FinalizeUnknown
  <2>1. Known(files'[Delivers[op.item]])
    BY <1>18, FinalizeRecords
  <2>2. due' = due /\ batch' = batch /\ dropped' = dropped /\ op' = op /\ pc' = "log_persisted"
    BY <1>18 DEF FinalizeUnknown, pageVars
  <2>3. pc = "finalize"
    BY <1>18 DEF FinalizeUnknown
  <2> QED
    BY <2>1, <2>2, <2>3, <1>1, <1>3
<1>19. CASE RegistryPersisted
  BY <1>19 DEF RegistryPersisted, Log, registryVars, pageVars
<1>20. CASE StagedFileRemoved
  BY <1>20 DEF StagedFileRemoved, registryVars, pageVars
<1>21. CASE UNCHANGED jvars
  BY <1>21 DEF jvars, registryVars, pageVars
<1>22. CASE ReplayBegin \/ ReplayDestination \/ ReplayStaging \/ ReplayClear
  BY <1>4, <1>22 DEF ReplayBegin, ReplayDestination, ReplayStaging, ReplayClear
<1>23. CASE SaveCursor \/ CloudChange \/ Crash
  BY <1>4, <1>23 DEF SaveCursor, CloudChange, Crash
<1> HIDE DEF PageInv
<1> QED
  BY <1>5, <1>6, <1>7, <1>8, <1>9, <1>10, <1>11, <1>12, <1>13, <1>14, <1>15, <1>16, <1>17, <1>18,
     <1>19, <1>20, <1>21, <1>22, <1>23 DEF Next, Work

\* PageInv is an invariant.
LEMMA PageInvariance == Spec => []PageInv
<1>1. Init => PageInv
  BY DEF Init, PageInv, Working
<1>2. PageInv /\ TypeOK /\ StagedInv /\ [Next]_jvars => PageInv'
  BY PageStep
<1> QED
  BY <1>1, <1>2, TypeInvariance, PTL DEF Spec

\* PassedIsRecorded: the cursor moves when the page is used up, and then all
\* its items are dropped or in the registry.
THEOREM CursorPassesRecorded == Spec => PassedIsRecorded
<1> DEFINE Passed == \A i \in due \ due' : Known(files[Delivers[i]]) \/ i \in dropped
<1>1. PageInv /\ [Next]_jvars => [Passed]_jvars
  <2> SUFFICES ASSUME PageInv, [Next]_jvars PROVE Passed
    OBVIOUS
  <2>1. CASE SaveCursor
    BY <2>1 DEF SaveCursor, PageInv, Working
  <2>2. CASE CloudChange
    BY <2>2 DEF CloudChange
  <2> QED
    BY <2>1, <2>2, Frames
<1> HIDE DEF Passed
<1> QED
  BY <1>1, PageInvariance, PTL DEF Spec, PassedIsRecorded, Passed

-----------------------------------------------------------------------------
(* Replay *)

\* Nothing is left of an interrupted operation but its records.
Reconciled(id) == ~ Exists(disk, Latest(id).dest) /\ staged[Latest(id).item] = NoContent

\* What replay has done so far: the operations no longer to do are reconciled,
\* and the destination of the one at hand is gone before its staged file.
ReplayInv ==
    /\ pc \in {"replay_dest", "replay_staging"} =>
          todo \subseteq Interrupted /\ \A id \in Interrupted \ todo : Reconciled(id)
    /\ pc = "replay_staging" => todo # {} /\ ~ Exists(disk, Latest(Oldest(todo)).dest)

\* An interrupted operation has a last record, of an item and a path or none.
LEMMA InterruptedHasRecord ==
    ASSUME TypeOK, NEW id \in Interrupted
    PROVE  Latest(id).item \in Items /\ Latest(id).dest \in Paths \union {NoPath}
<1>1. Latest(id) \in Records
  BY LatestIsRecord DEF TypeOK, Interrupted
<1> QED
  BY <1>1, SMT DEF Records

\* Replay takes an operation that is in the journal.
LEMMA AtHand ==
    ASSUME TypeOK, todo \subseteq Interrupted, todo # {}
    PROVE  Oldest(todo) \in todo /\ Oldest(todo) \in Interrupted
  BY OldestIsOne DEF TypeOK

\* Without a change to the journal its operations and last records stay.
LEMMA SameJournal ==
    ASSUME journal' = journal
    PROVE  Interrupted' = Interrupted /\ \A id : Latest(id)' = Latest(id)
  BY DEF Interrupted, Latest, Range

\* Every step of the replay keeps ReplayInv.
LEMMA ReplayStep ==
    ASSUME ReplayInv, TypeOK, [Next]_jvars
    PROVE  ReplayInv'
<1>1. disk \in [Paths -> Contents \union {NoFile}] /\ staged \in [Items -> Contents \union {NoContent}]
  BY DEF TypeOK
<1>2. ASSUME pc' \notin {"replay_dest", "replay_staging"} PROVE ReplayInv'
  BY <1>2 DEF ReplayInv
<1>3. CASE ReplayBegin
  <2>1. journal' = journal /\ todo' = Interrupted /\ pc' = "replay_dest"
    BY <1>3 DEF ReplayBegin
  <2>2. Interrupted' = Interrupted
    BY <2>1, SameJournal
  <2> QED
    BY <2>1, <2>2 DEF ReplayInv
<1>4. CASE ReplayDestination
  <2> DEFINE dest == Latest(Oldest(todo)).dest
  <2>1. /\ journal' = journal /\ todo' = todo /\ staged' = staged /\ todo # {}
        /\ pc = "replay_dest" /\ pc' = "replay_staging"
    BY <1>4 DEF ReplayDestination
  <2>2. todo \subseteq Interrupted /\ \A id \in Interrupted \ todo : Reconciled(id)
    BY <2>1 DEF ReplayInv
  <2>3. Interrupted' = Interrupted /\ (\A id : Latest(id)' = Latest(id)) /\ Oldest(todo)' = Oldest(todo)
    BY <2>1, SameJournal DEF Oldest
  <2>4. dest \in Paths \union {NoPath}
    BY <2>1, <2>2, AtHand, InterruptedHasRecord
  <2>5. disk' = disk \/ disk' = [disk EXCEPT ![dest] = NoFile]
    BY <1>4 DEF ReplayDestination, Unlink
  <2>6. Exists(disk, dest) => disk' = [disk EXCEPT ![dest] = NoFile]
    BY <1>4 DEF ReplayDestination, Unlink
  <2>7. ~ Exists(disk, dest) => disk' = disk
    BY <1>4 DEF ReplayDestination
  <2> HIDE DEF dest
  <2>8. ~ Exists(disk', dest)
    BY <2>4, <2>6, <2>7, <1>1 DEF Exists
  <2>9. ASSUME NEW p \in Paths \union {NoPath}, ~ Exists(disk, p) PROVE ~ Exists(disk', p)
    BY <2>9, <2>5, <1>1 DEF Exists
  <2>10. ASSUME NEW id \in Interrupted \ todo PROVE Reconciled(id)'
    <3>1. Latest(id).dest \in Paths \union {NoPath} /\ Reconciled(id)
      BY <2>2, InterruptedHasRecord
    <3>2. ~ Exists(disk', Latest(id).dest) /\ staged'[Latest(id).item] = NoContent
      BY <3>1, <2>9, <2>1 DEF Reconciled
    <3>3. Latest(id)' = Latest(id)
      BY <2>3
    <3> QED
      BY <3>2, <3>3 DEF Reconciled
  <2>11. (Latest(Oldest(todo)).dest)' = dest
    <3>1. Latest(Oldest(todo))' = Latest(Oldest(todo))
      BY <2>1 DEF Latest, Oldest
    <3> QED
      BY <3>1 DEF dest
  <2>12. ~ Exists(disk, Latest(Oldest(todo)).dest)'
    BY <2>8, <2>11 DEF Exists
  <2> QED
    BY <2>1, <2>2, <2>3, <2>10, <2>12 DEF ReplayInv
<1>5. CASE ReplayStaging
  <2> DEFINE id0 == Oldest(todo)
  <2>1. /\ journal' = journal /\ todo' = todo \ {id0} /\ disk' = disk
        /\ staged' = [staged EXCEPT ![Latest(id0).item] = NoContent]
        /\ pc = "replay_staging" /\ pc' = "replay_dest"
    BY <1>5 DEF ReplayStaging
  <2>2. /\ todo \subseteq Interrupted /\ (\A id \in Interrupted \ todo : Reconciled(id))
        /\ todo # {} /\ ~ Exists(disk, Latest(id0).dest)
    BY <2>1 DEF ReplayInv
  <2>3. Interrupted' = Interrupted /\ \A id : Latest(id)' = Latest(id)
    BY <2>1, SameJournal
  <2>4. id0 \in Interrupted
    BY <2>2, AtHand
  <2> HIDE DEF id0
  <2>5. ASSUME NEW id \in Interrupted, id = id0 \/ Reconciled(id) PROVE Reconciled(id)'
    <3>1. Latest(id).item \in Items
      BY InterruptedHasRecord
    <3>2. staged'[Latest(id).item] = NoContent
      BY <2>1, <2>5, <3>1, <1>1 DEF Reconciled
    <3>3. ~ Exists(disk', Latest(id).dest)
      BY <2>1, <2>2, <2>5 DEF Reconciled
    <3>4. Latest(id)' = Latest(id)
      BY <2>3
    <3> QED
      BY <3>2, <3>3, <3>4 DEF Reconciled
  <2> QED
    BY <2>1, <2>2, <2>3, <2>5 DEF ReplayInv
<1>6. CASE UNCHANGED jvars
  <2>1. journal' = journal /\ todo' = todo /\ disk' = disk /\ staged' = staged /\ pc' = pc
    BY <1>6 DEF jvars
  <2>2. Interrupted' = Interrupted
    BY <2>1, SameJournal
  <2>3. ASSUME NEW id, Reconciled(id) PROVE Reconciled(id)'
    <3>1. Latest(id)' = Latest(id)
      BY <2>1, SameJournal
    <3> QED
      BY <2>1, <2>3, <3>1 DEF Reconciled
  <2>4. Latest(Oldest(todo))' = Latest(Oldest(todo))
    BY <2>1 DEF Latest, Oldest
  <2>5. ASSUME ~ Exists(disk, Latest(Oldest(todo)).dest)
        PROVE  ~ Exists(disk, Latest(Oldest(todo)).dest)'
    BY <2>1, <2>4, <2>5 DEF Exists
  <2> QED
    BY <2>1, <2>2, <2>3, <2>5 DEF ReplayInv
<1>7. ReplayBegin \/ ReplayDestination \/ ReplayStaging \/ UNCHANGED jvars
        \/ pc' \notin {"replay_dest", "replay_staging"}
  BY DEF Next, Work, ReplayClear, StagePage, SaveCursor, Start, MissingStaged, SizeMismatch, Drop,
       PrefilterDiscard, HashCompleted, Lookup, KnownUnlink, KnownFinalize, Commit, CommitUnlink,
       StorageCommitted, FinalizeUnknown, RegistryPersisted, CloudChange, StagedFileRemoved, Crash,
       Log, Unstage
<1> QED
  BY <1>2, <1>3, <1>4, <1>5, <1>6, <1>7

\* ReplayInv is an invariant.
LEMMA ReplayInvariance == Spec => []ReplayInv
<1>1. Init => ReplayInv
  BY DEF Init, ReplayInv
<1>2. ReplayInv /\ TypeOK /\ [Next]_jvars => ReplayInv'
  BY ReplayStep
<1> QED
  BY <1>1, <1>2, TypeInvariance, PTL DEF Spec

\* ReplayIsComplete: wherever earlier replays crashed, the journal is cleared
\* only when every operation in it is reconciled; append never empties it.
THEOREM ReplayCompletes == Spec => ReplayIsComplete
<1> DEFINE Complete == journal' = <<>> =>
                         \A id \in Interrupted :
                             /\ ~ Exists(disk, Latest(id).dest)
                             /\ staged[Latest(id).item] = NoContent
<1>1. ReplayInv /\ TypeOK /\ [Next]_jvars => [Complete]_jvars
  <2> SUFFICES ASSUME ReplayInv, TypeOK, [Next]_jvars, journal' = <<>>, NEW id \in Interrupted
               PROVE  Reconciled(id)
    BY DEF Reconciled
  <2>1. CASE ReplayClear
    BY <2>1 DEF ReplayClear, ReplayInv
  <2>2. CASE journal' = journal
    <3>1. Range(<<>>) = {}
      <4>1. DOMAIN <<>> = {}
        BY SMT
      <4> QED
        BY <4>1 DEF Range
    <3>2. Range(journal) = {}
      BY <2>2, <3>1
    <3> QED
      BY <3>2 DEF Interrupted
  <2>3. ASSUME NEW phase \in Phases, JournalAppend(phase) PROVE FALSE
    <3>1. journal \in Seq(Records) /\ Len(journal) <= MaxRecords
      BY DEF TypeOK
    <3> QED
      BY <2>3, <3>1, OpTypes, AppendIsBounded
  <2> QED
    BY <2>1, <2>2, <2>3, Frames
<1> HIDE DEF Complete
<1> QED
  BY <1>1, TypeInvariance, ReplayInvariance, PTL DEF Spec, ReplayIsComplete, Complete
=============================================================================
