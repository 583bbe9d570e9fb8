------------------------- MODULE MetricsPollerProofs -------------------------
(***************************************************************************)
(* Proofs, for any number of processes, retries, commits and faults, that  *)
(* what is committed for publication is data of the very run it is         *)
(* published as, that this run did not end with an exception, that         *)
(* retention spares the run the latest files show, and of the types.       *)
(*                                                                         *)
(* The argument: a run id is used by one process only and never again      *)
(* after its run has failed, so a manifest that says success is never of a *)
(* failed run; and while a publication is alone, no run can fail.          *)
(***************************************************************************)
EXTENDS MetricsPoller, FiniteSetTheorems, TLAPS

Label == [run : Nat, commit : Nat]
Work == [commit : Nat, bad : SUBSET Stages]

\* The types the argument needs
Types ==
    /\ head \in Nat
    /\ manifest \in [run : Nat, commit : Nat, ok : BOOLEAN]
    /\ metrics \in [run : Nat, bad : SUBSET Stages]
    /\ summary \in Label /\ data \in Label
    /\ pc \in [Processes -> Steps]
    /\ id \in [Processes -> Nat] /\ commit \in [Processes -> Nat]
    /\ work \in [Processes -> Work]
    /\ publishing \in [step : {"idle", "validate", "push"}, run : Nat, commit : Nat,
                       data : Nat, alone : BOOLEAN]
    /\ nextId \in Nat /\ failed \in SUBSET (1..nextId)

\* A run under way has an id that was given out, has not failed and is its own.
IdsAreOwn ==
    /\ \A p \in Processes : pc[p] \in Running => id[p] \in 1..nextId /\ id[p] \notin failed
    /\ \A p, q \in Processes : pc[p] \in Running /\ pc[q] \in Running /\ p # q => id[p] # id[q]

\* A manifest that says success is of no failed run.
ManifestTells == manifest.ok => manifest.run \notin failed

\* A publication that is alone is of no failed run.
PublishAlone ==
    publishing.step # "idle" /\ publishing.alone =>
        /\ \A p \in Processes : pc[p] = "idle"
        /\ publishing.run \notin failed

Inv == Types /\ IdsAreOwn /\ ManifestTells /\ PublishAlone /\ PublishedIsSound

-----------------------------------------------------------------------------

\* The rest of the invariant, when the types are preserved: a step of one
\* process to another place of the same run, or to no run, with a manifest that
\* stays or is of this run.
LEMMA SameRun ==
    ASSUME Inv, Types', NEW p \in Processes,
           pc[p] # "idle",
           \A q \in Processes : q # p => pc'[q] = pc[q] /\ id'[q] = id[q],
           pc'[p] \in Running => pc[p] \in Running /\ id'[p] = id[p],
           failed' = failed, nextId' = nextId, publishing' = publishing,
           \/ manifest' = manifest
           \/ pc[p] \in Running /\ manifest'.run = id[p]
    PROVE  Inv'
<1>1. IdsAreOwn'
  BY DEF Inv, IdsAreOwn
<1>2. ManifestTells'
  BY DEF Inv, IdsAreOwn, ManifestTells
<1>3. ~ (publishing.step # "idle" /\ publishing.alone)
  BY DEF Inv, PublishAlone
<1>4. PublishAlone'
  BY <1>3 DEF PublishAlone
<1>5. PublishedIsSound'
  BY DEF Inv, PublishedIsSound
<1> QED
  BY <1>1, <1>2, <1>4, <1>5 DEF Inv

\* A process gets a run id that nobody had before.
LEMMA NewRun ==
    ASSUME Inv, Types', NEW p \in Processes,
           pc[p] # "idle",
           \A q \in Processes : q # p => pc'[q] = pc[q] /\ id'[q] = id[q],
           nextId' = nextId + 1, id'[p] = nextId + 1,
           publishing' = publishing,
           \/ failed' = failed /\ manifest' = manifest
           \/ pc[p] \in Running /\ failed' = failed \union {id[p]} /\ ~ manifest'.ok
    PROVE  Inv'
<1>1. IdsAreOwn'
  BY DEF Inv, IdsAreOwn, Types
<1>2. ManifestTells'
  BY DEF Inv, ManifestTells
<1>3. ~ (publishing.step # "idle" /\ publishing.alone)
  BY DEF Inv, PublishAlone
<1>4. PublishAlone'
  BY <1>3 DEF PublishAlone
<1>5. PublishedIsSound'
  BY <1>3 DEF Inv, PublishedIsSound
<1> QED
  BY <1>1, <1>2, <1>4, <1>5 DEF Inv

\* A process leaves its run, which has failed.
LEMMA RunFails ==
    ASSUME Inv, Types', NEW p \in Processes,
           pc[p] \in Running, pc[p] # "idle", pc'[p] = "idle",
           \A q \in Processes : q # p => pc'[q] = pc[q] /\ id'[q] = id[q],
           nextId' = nextId, publishing' = publishing,
           failed' = failed \union {id[p]}, ~ manifest'.ok
    PROVE  Inv'
<1>1. IdsAreOwn'
  BY DEF Inv, IdsAreOwn, Running
<1>2. ManifestTells'
  BY DEF ManifestTells
<1>3. ~ (publishing.step # "idle" /\ publishing.alone)
  BY DEF Inv, PublishAlone
<1>4. PublishAlone'
  BY <1>3 DEF PublishAlone
<1>5. PublishedIsSound'
  BY <1>3 DEF Inv, PublishedIsSound
<1> QED
  BY <1>1, <1>2, <1>4, <1>5 DEF Inv

\* The ends of a run and the beginning of the next attempt keep the types.
LEMMA LocalTypes ==
    ASSUME Types, NEW p \in Processes, NEW n,
           (Idle(p) /\ nextId' = nextId) \/ Attempt(p, n)
    PROVE  /\ pc' \in [Processes -> Steps] /\ id' \in [Processes -> Nat]
           /\ work' \in [Processes -> Work]
           /\ nextId' \in Nat /\ nextId <= nextId'
           /\ \A q \in Processes : q # p => pc'[q] = pc[q] /\ id'[q] = id[q]
<1>1. NoWork \in Work
  BY DEF NoWork, Work
<1>2. {"idle", "metrics_backend"} \subseteq Steps
  BY DEF Steps
<1>3. CASE Idle(p) /\ nextId' = nextId
  BY <1>1, <1>2, <1>3 DEF Types, Idle, Goto
<1>4. CASE Attempt(p, n)
  BY <1>1, <1>2, <1>4 DEF Types, Attempt, Goto
<1> QED
  BY <1>3, <1>4

\* TakeLock: the first attempt
LEMMA TakeLockPreserves ==
    ASSUME Inv, NEW p \in Processes, TakeLock(p)
    PROVE  Inv'
<1>1. Types /\ Attempt(p, 1)
  BY DEF Inv, TakeLock
<1>a. 1..nextId \subseteq 1..nextId'
  BY <1>1 DEF Types, Attempt
<1>b. failed' \in SUBSET (1..nextId')
  BY <1>1, <1>a DEF Types, TakeLock
<1>2. Types'
  BY <1>1, <1>b, LocalTypes DEF Types, TakeLock, latest
<1>3. \A q \in Processes : q # p => pc'[q] = pc[q] /\ id'[q] = id[q]
  BY <1>1, LocalTypes
<1>4. nextId' = nextId + 1 /\ id'[p] = nextId + 1
  BY <1>1 DEF Types, Attempt
<1>5. pc[p] # "idle" /\ failed' = failed /\ manifest' = manifest /\ publishing' = publishing
  BY DEF TakeLock, latest
<1> QED
  BY <1>2, <1>3, <1>4, <1>5, NewRun

\* LockTaken, Finish and Dies: the process has no run any more.
LEMMA LeavePreserves ==
    ASSUME Inv, NEW p \in Processes, LockTaken(p) \/ Finish(p) \/ Dies(p)
    PROVE  Inv'
<1>1. Types /\ Idle(p) /\ nextId' = nextId
  BY DEF Inv, LockTaken, Finish, Dies
<1>2. pc[p] # "idle" /\ failed' = failed /\ publishing' = publishing
  BY DEF LockTaken, Finish, Dies
<1>3. head' = head /\ data' = data /\ latest' = latest
  BY DEF LockTaken, Finish, Dies, latest
<1>4. commit' \in [Processes -> Nat]
  BY <1>1 DEF Types, Idle
<1>5. Types'
  BY <1>1, <1>2, <1>3, <1>4, LocalTypes DEF Types, latest
<1>6. \A q \in Processes : q # p => pc'[q] = pc[q] /\ id'[q] = id[q]
  BY <1>1, LocalTypes
<1>7. pc'[p] \notin Running
  BY <1>1 DEF Types, Idle, Goto, Running
<1> QED
  BY <1>1, <1>2, <1>3, <1>5, <1>6, <1>7, SameRun DEF latest

\* The except clause of run_now: another attempt, or the run has failed.
LEMMA RecoverPreserves ==
    ASSUME Inv, NEW p \in Processes, pc[p] \in Running, Recover(p), head' = head
    PROVE  Inv'
<1>1. Types /\ id[p] \in 1..nextId
  BY DEF Inv, IdsAreOwn
<1>2. pc[p] # "idle" /\ ~ manifest'.ok /\ manifest' \in [run : Nat, commit : Nat, ok : BOOLEAN]
  BY <1>1 DEF Recover, FailureManifest, Running, Types
<1>3. failed' = failed \union {id[p]} /\ publishing' = publishing
      /\ metrics' = metrics /\ summary' = summary /\ data' = data
  BY DEF Recover
<1>4. CASE Attempt(p, attempt[p] + 1) /\ commit' = commit
  <2>1. nextId' = nextId + 1 /\ id'[p] = nextId + 1
    BY <1>1, <1>4 DEF Types, Attempt
  <2>a. 1..nextId \subseteq 1..nextId'
    BY <1>1, <2>1 DEF Types
  <2>2. failed' \in SUBSET (1..nextId')
    BY <1>1, <1>3, <2>a DEF Types
  <2>3. Types'
    BY <1>1, <1>2, <1>3, <1>4, <2>2, LocalTypes DEF Types
  <2>4. \A q \in Processes : q # p => pc'[q] = pc[q] /\ id'[q] = id[q]
    BY <1>1, <1>4, LocalTypes
  <2> QED
    BY <1>2, <1>3, <2>1, <2>3, <2>4, NewRun
<1>5. CASE LeaveFailed(p)
  <2>1. Idle(p) /\ nextId' = nextId
    BY <1>5 DEF LeaveFailed
  <2>2. commit' \in [Processes -> Nat] /\ pc'[p] = "idle"
    BY <1>1, <2>1 DEF Types, Idle, Goto
  <2>3. failed' \in SUBSET (1..nextId')
    BY <1>1, <1>3, <2>1 DEF Types
  <2>4. Types'
    BY <1>1, <1>2, <1>3, <2>1, <2>2, <2>3, LocalTypes DEF Types
  <2>5. \A q \in Processes : q # p => pc'[q] = pc[q] /\ id'[q] = id[q]
    BY <1>1, <2>1, LocalTypes
  <2> QED
    BY <1>2, <1>3, <2>1, <2>2, <2>4, <2>5, RunFails
<1> QED
  BY <1>4, <1>5 DEF Recover

\* A stage writes one of its files.  A manifest it writes is of this run.
LEMMA StagePreserves ==
    ASSUME Inv, NEW p \in Processes,
           \/ CollectBackend(p) \/ CollectFrontend(p)
           \/ Aggregate(p) \/ Summarise(p) \/ GenerateDashboard(p)
           \/ Retain(p) \/ RecordProcessed(p)
    PROVE  Inv'
<1> DEFINE Moves(from, to) ==
        /\ from \in Running /\ to \in Steps
        /\ pc[p] = from /\ Goto(p, to)
        /\ id' = id /\ commit' = commit /\ head' = head /\ nextId' = nextId
        /\ failed' = failed /\ publishing' = publishing
<1>1. Types /\ head \in Nat /\ id[p] \in Nat /\ work[p] \in Work
      /\ metrics.bad \in SUBSET Stages /\ summary \in Label
  BY DEF Inv, Types
<1>2. NoWork \in Work
  BY DEF NoWork, Work
<1>3. ASSUME NEW from, NEW to, Moves(from, to),
             manifest' = manifest
               \/ \E w \in Work : manifest' = Manifest(id[p], w),
             metrics' \in [run : Nat, bad : SUBSET Stages],
             summary' \in Label, data' \in Label,
             work' \in [Processes -> Work]
      PROVE  Inv'
  <2>1. manifest' \in [run : Nat, commit : Nat, ok : BOOLEAN]
        /\ (manifest' = manifest \/ manifest'.run = id[p])
    <3>1. CASE manifest' = manifest
      BY <1>1, <3>1 DEF Types
    <3>2. CASE \E w \in Work : manifest' = Manifest(id[p], w)
      <4>1. PICK w \in Work : manifest' = Manifest(id[p], w)
        BY <3>2
      <4>2. w.commit \in Nat /\ (w.bad = {}) \in BOOLEAN
        BY DEF Work
      <4>3. manifest' = [run |-> id[p], commit |-> w.commit, ok |-> (w.bad = {})]
        BY <4>1 DEF Manifest
      <4> QED
        BY <1>1, <4>2, <4>3
    <3> QED
      BY <1>3, <3>1, <3>2
  <2>2. pc' \in [Processes -> Steps]
    BY <1>1, <1>3 DEF Types, Goto
  <2>3. Types'
    BY <1>1, <1>3, <2>1, <2>2 DEF Types
  <2>4. pc[p] \in Running /\ pc[p] # "idle"
        /\ \A q \in Processes : q # p => pc'[q] = pc[q]
    BY <1>1, <1>3 DEF Types, Goto, Running
  <2> QED
    BY <1>3, <2>1, <2>3, <2>4, SameRun
<1>4. ASSUME NEW s \in Stages, CollectMetrics(p, s)
      PROVE  Inv'
  <2>1. PICK bad \in CollectionStatus(s) :
          /\ metrics' = [run |-> id[p], bad |-> (metrics.bad \ {s}) \union bad]
          /\ work' = [work EXCEPT ![p] = [commit |-> head, bad |-> bad]]
    BY <1>4 DEF CollectMetrics
  <2>2. bad \in SUBSET Stages
    BY DEF CollectionStatus
  <2>3. metrics' \in [run : Nat, bad : SUBSET Stages]
    BY <1>1, <2>1, <2>2
  <2>4. [commit |-> head, bad |-> bad] \in Work
    BY <1>1, <2>2 DEF Work
  <2>5. work' \in [Processes -> Work]
    BY <1>1, <2>1, <2>4 DEF Types
  <2>6. Moves(MetricsStep[s], ManifestStep[s])
    BY <1>4 DEF CollectMetrics, MetricsStep, ManifestStep, Stages, Running, Steps
  <2>7. manifest' = manifest /\ summary' = summary /\ data' = data
    BY <1>4 DEF CollectMetrics
  <2> QED
    BY <1>1, <1>3, <2>3, <2>5, <2>6, <2>7 DEF Types
<1>5. ASSUME NEW s \in Stages, CollectManifest(p, s)
      PROVE  Inv'
  <2>1. Moves(ManifestStep[s], AfterStep[s])
    BY <1>5 DEF CollectManifest, ManifestStep, AfterStep, Stages, Running, Steps
  <2>2. manifest' = Manifest(id[p], work[p]) /\ work' \in [Processes -> Work]
        /\ metrics' = metrics /\ summary' = summary /\ data' = data
    BY <1>1, <1>2, <1>5 DEF CollectManifest, Types
  <2> QED
    BY <1>1, <1>3, <2>1, <2>2 DEF Types
<1>6. CASE Aggregate(p)
  <2> DEFINE w == [commit |-> head, bad |-> metrics.bad]
  <2>1. w \in Work
    BY <1>1 DEF Work
  <2>2. Moves("aggregate", "summary")
    BY <1>6 DEF Aggregate, Running, Steps
  <2>3. manifest' = Manifest(id[p], w) /\ work' = [work EXCEPT ![p] = w]
    BY <1>6 DEF Aggregate
  <2>4. work' \in [Processes -> Work]
    BY <1>1, <2>1, <2>3 DEF Types
  <2>5. metrics' \in [run : Nat, bad : SUBSET Stages]
    BY <1>1, <1>6 DEF Aggregate, Types
  <2>6. summary' \in Label /\ data' \in Label
    BY <1>1, <1>6 DEF Aggregate, Types
  <2> HIDE DEF w
  <2> QED
    BY <1>3, <2>1, <2>2, <2>3, <2>4, <2>5, <2>6
<1>7. CASE Summarise(p)
  <2>1. Moves("summary", "dashboard")
    BY <1>7 DEF Summarise, Running, Steps
  <2>2. summary' \in Label /\ work' \in [Processes -> Work]
    BY <1>1, <1>2, <1>7 DEF Summarise, Types, Label, Work
  <2>3. manifest' = manifest /\ metrics' = metrics /\ data' = data
    BY <1>7 DEF Summarise
  <2> QED
    BY <1>1, <1>3, <2>1, <2>2, <2>3 DEF Types
<1>8. CASE GenerateDashboard(p)
  <2>1. Moves("dashboard", "retain")
    BY <1>8 DEF GenerateDashboard, Running, Steps
  <2>2. latest' = latest /\ data' = summary /\ work' = work
    BY <1>8 DEF GenerateDashboard, latest
  <2> QED
    BY <1>1, <1>3, <2>1, <2>2 DEF Types, latest
<1>9. CASE Retain(p) \/ RecordProcessed(p)
  <2>1. Moves("retain", "record") \/ Moves("record", "leave")
    BY <1>9 DEF Retain, RecordProcessed, Running, Steps
  <2>2. latest' = latest /\ data' = data /\ work' = work
    BY <1>9 DEF Retain, RecordProcessed, latest
  <2> QED
    BY <1>1, <1>3, <2>1, <2>2 DEF Types, latest
<1> QED
  BY <1>4, <1>5, <1>6, <1>7, <1>8, <1>9 DEF CollectBackend, CollectFrontend, Stages

\* Start: whatever is being published is not alone any more.
LEMMA StartPreserves ==
    ASSUME Inv, NEW p \in Processes, Start(p)
    PROVE  Inv'
<1>1. Types
  BY DEF Inv
<1>2. publishing' \in [step : {"idle", "validate", "push"}, run : Nat, commit : Nat,
                       data : Nat, alone : BOOLEAN]
      /\ ~ publishing'.alone
  BY <1>1 DEF Types, Start
<1>3. pc' = [pc EXCEPT ![p] = "read"] /\ commit' \in [Processes -> Nat]
  BY <1>1 DEF Types, Start, Goto
<1>4. pc' \in [Processes -> Steps]
  BY <1>1, <1>3 DEF Types, Steps
<1>5. Types'
  BY <1>1, <1>2, <1>3, <1>4 DEF Types, Start, latest
<1>6. \A q \in Processes : pc'[q] \in Running => pc'[q] = pc[q]
  BY <1>1, <1>3 DEF Types, Running
<1>7. IdsAreOwn'
  BY <1>6 DEF Inv, IdsAreOwn, Start
<1>8. ManifestTells'
  BY DEF Inv, ManifestTells, Start, latest
<1>9. PublishAlone' /\ PublishedIsSound'
  BY <1>2 DEF PublishAlone, PublishedIsSound
<1> QED
  BY <1>5, <1>7, <1>8, <1>9 DEF Inv

\* Commit and Cleanup: a cleanup leaves no manifest that says success.
LEMMA RepositoryPreserves ==
    ASSUME Inv, Commit \/ Cleanup
    PROVE  Inv'
<1>1. pc' = pc /\ id' = id /\ commit' = commit /\ work' = work
      /\ publishing' = publishing /\ failed' = failed /\ nextId' = nextId
  BY DEF Commit, Cleanup, locals
<1>2. CASE Commit
  <2>1. head' = head + 1 /\ manifest' = manifest /\ metrics' = metrics
        /\ summary' = summary /\ data' = data
    BY <1>2 DEF Commit, latest
  <2> QED
    BY <1>1, <2>1 DEF Inv, Types, IdsAreOwn, ManifestTells, PublishAlone, PublishedIsSound
<1>3. CASE Cleanup
  <2>1. /\ head' = head
        /\ manifest' \in [run : Nat, commit : Nat, ok : BOOLEAN] /\ ~ manifest'.ok
        /\ metrics' \in [run : Nat, bad : SUBSET Stages]
        /\ summary' \in Label /\ data' \in Label
    BY <1>3 DEF Cleanup, NoManifest, NoMetrics, NoSummary, Label
  <2> QED
    BY <1>1, <2>1 DEF Inv, Types, IdsAreOwn, ManifestTells, PublishAlone, PublishedIsSound
<1> QED
  BY <1>2, <1>3

\* The publish command
LEMMA PublicationPreserves ==
    ASSUME Inv, Publish \/ EndPublish
    PROVE  Inv'
<1> USE DEF Inv
<1>1. /\ pc' = pc /\ id' = id /\ commit' = commit /\ work' = work /\ head' = head
      /\ manifest' = manifest /\ metrics' = metrics /\ summary' = summary
      /\ failed' = failed /\ nextId' = nextId /\ data' \in {data, summary}
  BY DEF Publish, EndPublish, CommitPublication, PublishAborts, Push, locals, latest
<1>2. IdsAreOwn' /\ ManifestTells'
  BY <1>1 DEF IdsAreOwn, ManifestTells
<1>3. ASSUME publishing' \in [step : {"idle", "validate", "push"}, run : Nat, commit : Nat,
                              data : Nat, alone : BOOLEAN]
      PROVE  Types'
  BY <1>1, <1>3 DEF Types
<1>4. CASE Publish
  <2>1. /\ publishing'.step = "validate" /\ publishing'.run = manifest.run /\ manifest.ok
        /\ publishing'.alone => \A p \in Processes : pc[p] = "idle"
    BY <1>4 DEF Publish, Publishable
  <2>2. Types'
    BY <1>3, <1>4 DEF Publish, Types
  <2>3. PublishAlone' /\ PublishedIsSound'
    BY <1>1, <2>1 DEF PublishAlone, PublishedIsSound, ManifestTells
  <2> QED
    BY <1>2, <2>2, <2>3
<1>5. CASE CommitPublication
  <2>1. /\ publishing.step = "validate" /\ publishing'.run = publishing.run
        /\ publishing'.alone = publishing.alone /\ publishing'.data = publishing.run
    BY <1>5 DEF CommitPublication, PayloadMatches, Types
  <2>2. Types'
    BY <1>3, <1>5 DEF CommitPublication, Types, Label
  <2>3. PublishAlone' /\ PublishedIsSound'
    BY <1>1, <2>1 DEF PublishAlone, PublishedIsSound
  <2> QED
    BY <1>2, <2>2, <2>3
<1>6. CASE PublishAborts \/ Push
  <2>1. publishing' = NotPublishing
    BY <1>6 DEF PublishAborts, Push
  <2>2. Types'
    BY <1>3, <2>1 DEF NotPublishing
  <2>3. PublishAlone' /\ PublishedIsSound'
    BY <2>1 DEF PublishAlone, PublishedIsSound, NotPublishing
  <2> QED
    BY <1>2, <2>2, <2>3
<1> QED
  BY <1>4, <1>5, <1>6 DEF EndPublish

\* Every step keeps the invariant.
LEMMA Invariance == Spec => []Inv
<1>1. Init => Inv
  <2> SUFFICES ASSUME Init PROVE Inv
    OBVIOUS
  <2>1. Types
    BY DEF Init, Types, NoManifest, NoMetrics, NoSummary, NoWork, NotPublishing, Label, Work,
           Steps
  <2>2. IdsAreOwn /\ ManifestTells /\ PublishAlone /\ PublishedIsSound
    BY DEF Init, IdsAreOwn, ManifestTells, PublishAlone, PublishedIsSound, NoManifest,
           NotPublishing, Running
  <2> QED
    BY <2>1, <2>2 DEF Inv
<1>2. Inv /\ [Next]_vars => Inv'
  <2> SUFFICES ASSUME Inv, [Next]_vars PROVE Inv'
    OBVIOUS
  <2>1. ASSUME NEW p \in Processes, StageRaises(p) \/ FileMissing(p)
        PROVE  Inv'
    <3>1. pc[p] \in Running /\ Recover(p) /\ head' = head
      BY <2>1 DEF StageRaises, FileMissing, Running, Recover
    <3> QED
      BY <3>1, RecoverPreserves
  <2>2. ASSUME NEW p \in Processes, Start(p) \/ Advance(p) \/ Dies(p)
        PROVE  Inv'
    BY <2>1, <2>2, StartPreserves, TakeLockPreserves, LeavePreserves, StagePreserves
       DEF Advance
  <2>3. CASE Commit \/ Cleanup \/ Publish \/ EndPublish
    BY <2>3, RepositoryPreserves, PublicationPreserves
  <2>4. CASE UNCHANGED vars
    BY <2>4 DEF vars, latest, locals, Inv, Types, IdsAreOwn, ManifestTells, PublishAlone,
                PublishedIsSound
  <2> QED
    BY <2>1, <2>2, <2>3, <2>4 DEF Next
<1> QED
  BY <1>1, <1>2, PTL DEF Spec

\* What publish_metrics commits is data of the run it is published as, and that
\* run did not end with an exception, whatever died or failed before and
\* however the runs overlapped: PublishedIsSound is an invariant.
THEOREM PublicationSoundness == Spec => []PublishedIsSound
<1>1. Inv => PublishedIsSound
  BY DEF Inv
<1> QED
  BY <1>1, Invariance, PTL

-----------------------------------------------------------------------------
(* Retention.  Until a lock file is cleaned up under a run, the lock lets  *)
(* one run at a time through, so the run that applies the retention policy *)
(* has the newest id.                                                      *)

\* A run under way holds the one lock and has the newest id.
RunHasLock ==
    /\ \A p \in Processes : pc[p] \in Running => p \in lock /\ id[p] = nextId
    /\ \A p, q \in lock : p = q

\* Steps after which manifest.json is of the run itself
Labelled == {"summary", "dashboard", "retain", "record", "leave"}

\* The manifest is of a run with a history, and of the run itself once that has
\* aggregated.
HistoryTells ==
    /\ history \subseteq 1..nextId
    /\ manifest.run # 0 => manifest.run \in history
    /\ \A p \in Processes : /\ pc[p] \in {"manifest_backend", "manifest_frontend"} =>
                                   id[p] \in history
                            /\ pc[p] \in Labelled => manifest.run = id[p]

HistoryInv == cleaned \/ (RunHasLock /\ HistoryTells)

\* While a process runs, no other does.
LEMMA RunsAlone ==
    ASSUME RunHasLock, NEW p \in Processes, NEW q \in Processes,
           pc[p] \in Running, pc[q] \in Running
    PROVE  q = p
  BY DEF RunHasLock

\* apply_retention_policy keeps the newest run.
LEMMA NewestIsRetained ==
    ASSUME NEW n \in Nat, NEW runs \in SUBSET (1..n), n \in runs
    PROVE  n \in Retained(runs) /\ Retained(runs) \subseteq runs
<1>1. {q \in runs : q > n} = {}
  <2>1. \A q \in runs : q \in Nat /\ q <= n
    OBVIOUS
  <2>2. \A q \in runs : ~ (q > n)
    BY <2>1
  <2>. QED
    BY <2>2, Zenon
<1>2. Cardinality({q \in runs : q > n}) = 0
  BY <1>1, FS_EmptySet
<1>3. 0 < MaxHistory
  BY MetricsPollerAssumption
<1>. QED
  BY <1>2, <1>3 DEF Retained

\* A step of a process that has no run, or leaves it, and touches neither the
\* manifest nor the history.
LEMMA OutsideKeeps ==
    ASSUME Types, RunHasLock, HistoryTells, NEW p \in Processes,
           LockTaken(p) \/ Finish(p) \/ Dies(p) \/ Start(p)
    PROVE  RunHasLock' /\ HistoryTells'
<1>1. /\ pc'[p] \notin Running
      /\ \A q \in Processes : q # p => pc'[q] = pc[q] /\ id'[q] = id[q]
      /\ lock' \in {lock, lock \ {p}}
      /\ history' = history /\ manifest' = manifest /\ nextId' = nextId
  BY DEF Types, LockTaken, Finish, Dies, Start, Idle, Goto, Running, latest
<1>2. RunHasLock'
  BY <1>1 DEF RunHasLock
<1>3. HistoryTells'
  BY <1>1 DEF HistoryTells, Running, Labelled
<1>. QED
  BY <1>2, <1>3

\* The lock is free, so nobody runs, and the new id is the newest.
LEMMA TakeLockKeeps ==
    ASSUME Types, RunHasLock, HistoryTells, NEW p \in Processes, TakeLock(p)
    PROVE  RunHasLock' /\ HistoryTells'
<1>1. /\ pc'[p] = "metrics_backend" /\ id'[p] = nextId'
      /\ \A q \in Processes : q # p => pc'[q] = pc[q] /\ id'[q] = id[q]
      /\ lock = {} /\ lock' = {p}
      /\ history' = history /\ manifest' = manifest /\ nextId' = nextId + 1
  BY DEF Types, TakeLock, LockFree, Attempt, Goto, latest
<1>2. \A q \in Processes : pc[q] \notin Running
  BY <1>1 DEF RunHasLock
<1>3. RunHasLock'
  BY <1>1, <1>2 DEF RunHasLock
<1>4. history' \subseteq 1..nextId'
  BY <1>1 DEF Types, HistoryTells
<1>5. HistoryTells'
  BY <1>1, <1>2, <1>4 DEF HistoryTells, Running, Labelled
<1>. QED
  BY <1>3, <1>5

\* A run goes on: its manifest is written when it has a history.
LEMMA StageKeeps ==
    ASSUME Types, IdsAreOwn, RunHasLock, HistoryTells, NEW p \in Processes,
           \/ CollectBackend(p) \/ CollectFrontend(p)
           \/ Aggregate(p) \/ Summarise(p) \/ GenerateDashboard(p) \/ RecordProcessed(p)
    PROVE  RunHasLock' /\ HistoryTells'
<1>1. /\ pc[p] \in Running /\ pc'[p] \in Running
      /\ \A q \in Processes : q # p => pc'[q] = pc[q]
      /\ id' = id /\ lock' = lock /\ nextId' = nextId
  BY DEF Types, CollectBackend, CollectFrontend, CollectMetrics, CollectManifest, Aggregate,
         Summarise, GenerateDashboard, RecordProcessed, MetricsStep, ManifestStep, AfterStep, Goto, Running
<1>2. RunHasLock'
  BY <1>1 DEF RunHasLock
<1>3. \A q \in Processes : q # p => pc'[q] \notin Running
  BY <1>1, RunsAlone
<1>4. id[p] \in 1..nextId
  BY <1>1 DEF IdsAreOwn
<1>5. ASSUME history' \in {history, history \union {id[p]}},
             \/ manifest' = manifest
             \/ manifest'.run = id[p] /\ id[p] \in history',
             pc'[p] \in {"manifest_backend", "manifest_frontend"} => id[p] \in history',
             pc'[p] \in Labelled => manifest'.run = id[p]
      PROVE  HistoryTells'
  BY <1>1, <1>3, <1>4, <1>5 DEF HistoryTells, Running, Labelled
<1>6. ASSUME NEW s \in Stages, CollectMetrics(p, s) PROVE HistoryTells'
  <2>1. history' = history \union {id[p]} /\ manifest' = manifest /\ pc'[p] \notin Labelled
    BY <1>6 DEF Types, CollectMetrics, Goto, ManifestStep, Stages, Labelled
  <2>2. id[p] \in history'
    BY <2>1
  <2>. QED
    BY <1>5, <2>1, <2>2, Zenon
<1>7. ASSUME NEW s \in Stages, CollectManifest(p, s) PROVE HistoryTells'
  <2>1. /\ history' = history /\ manifest'.run = id[p]
        /\ pc[p] \in {"manifest_backend", "manifest_frontend"}
    BY <1>7 DEF CollectManifest, Manifest, ManifestStep, Stages
  <2>2. id[p] \in history
    BY <2>1 DEF HistoryTells
  <2>. QED
    BY <1>5, <2>1, <2>2, Zenon
<1>8. ASSUME Aggregate(p) PROVE HistoryTells'
  <2>1. history' = history \union {id[p]} /\ manifest'.run = id[p]
    BY <1>8 DEF Aggregate, Manifest
  <2>2. id[p] \in history'
    BY <2>1
  <2>. QED
    BY <1>5, <2>1, <2>2, Zenon
<1>9. ASSUME Summarise(p) \/ GenerateDashboard(p) \/ RecordProcessed(p) PROVE HistoryTells'
  <2>1. /\ history' = history /\ manifest' = manifest /\ pc[p] \in Labelled
        /\ pc'[p] \notin {"manifest_backend", "manifest_frontend"}
    BY <1>9 DEF Types, Summarise, GenerateDashboard, RecordProcessed, Goto, Labelled, latest
  <2>2. manifest.run = id[p]
    BY <2>1 DEF HistoryTells
  <2>. QED
    BY <1>5, <2>1, <2>2, Zenon
<1>10. HistoryTells'
  BY <1>6, <1>7, <1>8, <1>9 DEF CollectBackend, CollectFrontend, Stages
<1>. QED
  BY <1>2, <1>10

\* The run that applies the retention policy is the newest and keeps its history.
LEMMA RetainKeeps ==
    ASSUME Types, IdsAreOwn, RunHasLock, HistoryTells, NEW p \in Processes, Retain(p)
    PROVE  RunHasLock' /\ HistoryTells'
<1>1. /\ pc[p] = "retain" /\ pc'[p] = "record"
      /\ \A q \in Processes : q # p => pc'[q] = pc[q]
      /\ id' = id /\ lock' = lock /\ nextId' = nextId /\ manifest' = manifest
      /\ history' = Retained(history)
  BY DEF Types, Retain, Goto, latest
<1>2. \A q \in Processes : q # p => pc'[q] \notin Running
  BY <1>1, RunsAlone DEF Running
<1>3. manifest.run = nextId /\ nextId \in 1..nextId /\ id[p] = nextId
  BY <1>1 DEF HistoryTells, Labelled, RunHasLock, IdsAreOwn, Running
<1>4. nextId \in history /\ history \in SUBSET (1..nextId) /\ nextId \in Nat
  BY <1>3 DEF HistoryTells, Types
<1>5. nextId \in history' /\ history' \subseteq history
  BY <1>1, <1>4, NewestIsRetained
<1>6. RunHasLock'
  BY <1>1, <1>2 DEF RunHasLock, Running
<1>7. HistoryTells'
  BY <1>1, <1>2, <1>3, <1>4, <1>5 DEF HistoryTells, Running, Labelled
<1>. QED
  BY <1>6, <1>7

\* A run that fails leaves a history and a failure manifest.
LEMMA RecoverKeeps ==
    ASSUME Types, IdsAreOwn, RunHasLock, HistoryTells, NEW p \in Processes, pc[p] \in Running,
           Recover(p)
    PROVE  RunHasLock' /\ HistoryTells'
<1>1. /\ manifest'.run = id[p] /\ history' = history \union {id[p]} /\ id[p] \in 1..nextId
      /\ \A q \in Processes : q # p => pc'[q] = pc[q] /\ id'[q] = id[q]
  BY DEF Types, Recover, FailureManifest, Attempt, LeaveFailed, Idle, Goto, IdsAreOwn
<1>2. \A q \in Processes : q # p => pc'[q] \notin Running
  BY <1>1, RunsAlone
<1>3. \/ /\ pc'[p] = "metrics_backend" /\ id'[p] = nextId' /\ nextId' = nextId + 1 /\ lock' = lock
      \/ pc'[p] = "idle" /\ nextId' = nextId /\ lock' = lock \ {p}
  BY DEF Types, Recover, Attempt, LeaveFailed, Idle, Goto
<1>4. RunHasLock'
  BY <1>1, <1>2, <1>3 DEF RunHasLock, Running
<1>5. history' \subseteq 1..nextId'
  <2>1. 1..nextId \subseteq 1..nextId'
    BY <1>3 DEF Types
  <2>. QED
    BY <1>1, <2>1 DEF HistoryTells
<1>6. HistoryTells'
  BY <1>1, <1>2, <1>3, <1>5 DEF HistoryTells, Running, Labelled
<1>. QED
  BY <1>4, <1>6

\* However runs fail, die or are retried, apply_retention_policy never takes the
\* history of the run the latest manifest names, as long as no lock file was
\* cleaned up under a run: LatestHasHistory is an invariant.
THEOREM RetentionSparesLatest == Spec => []LatestHasHistory
<1>1. Init => HistoryInv
  BY DEF Init, HistoryInv, RunHasLock, HistoryTells, NoManifest, Running, Labelled
<1>2. ASSUME Inv, HistoryInv, [Next]_vars PROVE HistoryInv'
  <2>1. CASE cleaned'
    BY <2>1 DEF HistoryInv
  <2>2. CASE ~ cleaned'
    <3>1. ~ cleaned
      BY <1>2, <2>2 DEF Next, vars, Start, Advance, TakeLock, LockTaken, CollectBackend,
            CollectFrontend, CollectMetrics, CollectManifest, Aggregate, Summarise,
            GenerateDashboard, Retain, RecordProcessed, Finish, FileMissing, StageRaises,
            Recover, Dies, Commit, Cleanup, Publish, EndPublish, CommitPublication, PublishAborts, Push
    <3>2. Types /\ IdsAreOwn /\ RunHasLock /\ HistoryTells
      BY <1>2, <3>1 DEF Inv, HistoryInv
    <3>3. ASSUME NEW p \in Processes, StageRaises(p) \/ FileMissing(p)
          PROVE  RunHasLock' /\ HistoryTells'
      <4>1. pc[p] \in Running /\ Recover(p)
        BY <3>3 DEF StageRaises, FileMissing, Running
      <4>. QED
        BY <3>2, <4>1, RecoverKeeps
    <3>4. ASSUME NEW p \in Processes, Start(p) \/ Advance(p) \/ Dies(p)
          PROVE  RunHasLock' /\ HistoryTells'
      BY <3>2, <3>3, <3>4, OutsideKeeps, TakeLockKeeps, StageKeeps, RetainKeeps DEF Advance
    <3>5. CASE Commit \/ Publish \/ EndPublish \/ UNCHANGED vars
      <4>1. UNCHANGED <<pc, id, lock, history, manifest, nextId>>
        BY <3>5 DEF Commit, Publish, EndPublish, CommitPublication, PublishAborts, Push, vars,
                    locals, latest
      <4>2. RunHasLock'
        BY <3>2, <4>1, Zenon DEF RunHasLock
      <4>3. HistoryTells'
        BY <3>2, <4>1 DEF HistoryTells
      <4>. QED
        BY <4>2, <4>3 DEF HistoryInv
    <3>6. ~ Cleanup
      BY <2>2 DEF Cleanup
    <3>. QED
      BY <1>2, <3>3, <3>4, <3>5, <3>6 DEF Next, HistoryInv
  <2>. QED
    BY <2>1, <2>2
<1>3. HistoryInv => LatestHasHistory
  BY DEF HistoryInv, HistoryTells, LatestHasHistory, Complete
<1>. QED
  BY <1>1, <1>2, <1>3, Invariance, PTL DEF Spec

-----------------------------------------------------------------------------
(* Types, with the bounds of the run ids, commits, attempts and the lock *)

\* Zenon finds most leaves from here on.
USE Zenon

\* What a step of a process may do to each variable.
ProcessMoves(p) ==
    /\ head' = head
    /\ processed' = processed \/ processed' = commit[p]
    /\ lock' = lock \/ (lock = {} /\ lock' = lock \union {p}) \/ lock' = lock \ {p}
    /\ \/ manifest' = manifest \/ manifest' = Manifest(id[p], work[p])
       \/ manifest' = Manifest(id[p], [commit |-> head, bad |-> metrics.bad])
       \/ manifest' = [run |-> id[p], commit |-> commit[p], ok |-> FALSE]
    /\ \/ metrics' = metrics \/ metrics' = [metrics EXCEPT !.run = id[p]]
       \/ \E s \in Stages : \E bad \in CollectionStatus(s) :
             metrics' = [run |-> id[p], bad |-> (metrics.bad \ {s}) \union bad]
    /\ summary' = summary \/ summary' = [run |-> id[p], commit |-> work[p].commit]
    /\ \/ history' = history \/ history' = Retained(history)
       \/ pc[p] \in Running /\ history' = history \union {id[p]}
    /\ data' = data \/ data' = summary
    /\ \E s \in Steps : pc' = [pc EXCEPT ![p] = s]
    /\ \/ attempt' = attempt \/ attempt' = [attempt EXCEPT ![p] = 0]
       \/ attempt' = [attempt EXCEPT ![p] = 1]
       \/ attempt[p] <= MaxRetries /\ attempt' = [attempt EXCEPT ![p] = attempt[p] + 1]
    /\ \/ nextId' = nextId /\ (id' = id \/ id' = [id EXCEPT ![p] = 0])
       \/ nextId' = nextId + 1 /\ id' = [id EXCEPT ![p] = nextId + 1]
    /\ \/ commit' = commit \/ commit' = [commit EXCEPT ![p] = 0]
       \/ commit' = [commit EXCEPT ![p] = head]
    /\ \/ work' = work \/ work' = [work EXCEPT ![p] = NoWork]
       \/ work' = [work EXCEPT ![p] = [commit |-> head, bad |-> metrics.bad]]
       \/ \E s \in Stages : \E bad \in CollectionStatus(s) :
             work' = [work EXCEPT ![p] = [commit |-> head, bad |-> bad]]
    /\ publishing' = publishing \/ publishing' = [publishing EXCEPT !.alone = FALSE]
    /\ failed' = failed \/ (pc[p] \in Running /\ failed' = failed \union {id[p]})
    /\ cleaned' = cleaned
    /\ manual' = manual \/ (manual < MaxManual /\ manual' = manual + 1)
    /\ \/ faults' = faults \/ (faults < MaxFaults /\ faults' = faults + 1)
       \/ \E s \in Stages : \E bad \in CollectionStatus(s) :
             faults + Cardinality(bad) <= MaxFaults /\ faults' = faults + Cardinality(bad)

\* Every step of a process is such a move.
LEMMA ProcessStepMoves ==
    ASSUME TypeOK, NEW p \in Processes, Start(p) \/ Advance(p) \/ StageRaises(p) \/ Dies(p)
    PROVE  ProcessMoves(p)
<1> USE DEF ProcessMoves, latest, Goto
<1>0. pc \in [Processes -> Steps]
  BY DEF TypeOK
<1>1. CASE Start(p)
  BY <1>1 DEF Start, Steps
<1>2. CASE TakeLock(p)
  BY <1>2 DEF TakeLock, Attempt, Steps, LockFree
<1>3. CASE LockTaken(p)
  BY <1>3 DEF LockTaken, Idle, Steps
<1>4. ASSUME NEW s \in Stages, CollectMetrics(p, s) PROVE ProcessMoves(p)
  <2>1. pc[p] \in Running /\ ManifestStep[s] \in Steps
    BY <1>4, SMT DEF CollectMetrics, Running, Steps, Stages, ManifestStep, MetricsStep
  <2> QED
    BY <1>4, <2>1 DEF CollectMetrics
<1>5. ASSUME NEW s \in Stages, CollectManifest(p, s) PROVE ProcessMoves(p)
  <2>1. AfterStep[s] \in Steps
    BY SMT DEF Steps, Stages, AfterStep
  <2> QED
    BY <1>5, <2>1 DEF CollectManifest
<1>6. CASE Aggregate(p)
  BY <1>6 DEF Aggregate, Steps, Running
<1>7. CASE Summarise(p)
  BY <1>7 DEF Summarise, Steps
<1>8. CASE GenerateDashboard(p)
  BY <1>8 DEF GenerateDashboard, Steps
<1>9. CASE Retain(p) \/ RecordProcessed(p) \/ Finish(p)
  BY <1>9 DEF Retain, RecordProcessed, Finish, Idle, Steps
<1>10. ASSUME pc[p] \in Running, Recover(p),
              faults' = faults \/ (faults < MaxFaults /\ faults' = faults + 1)
       PROVE  ProcessMoves(p)
  BY <1>10 DEF Recover, FailureManifest, Attempt, LeaveFailed, Idle, Steps
<1>11. CASE StageRaises(p) \/ FileMissing(p)
  BY <1>10, <1>11 DEF StageRaises, FileMissing, Running
<1>12. CASE Dies(p)
  BY <1>12 DEF Dies, Idle, Steps
<1> HIDE DEF ProcessMoves
<1> QED
  BY <1>1, <1>2, <1>3, <1>4, <1>5, <1>6, <1>7, <1>8, <1>9, <1>11, <1>12
     DEF Advance, CollectBackend, CollectFrontend, Stages

\* The lock is that of one process or of none.
OneLock == lock = {} \/ \E p \in Processes : lock = {p}

\* Such a lock is what its type says.
LEMMA OneLockType ==
    ASSUME NEW l, l = {} \/ \E p \in Processes : l = {p}
    PROVE  l \in SUBSET Processes /\ Cardinality(l) <= 1
<1>1. CASE l = {}
  <2>1. Cardinality(l) = 0
    BY <1>1, FS_EmptySet
  <2> QED
    BY <1>1, <2>1, SMT
<1>2. ASSUME NEW p \in Processes, l = {p}
      PROVE  l \in SUBSET Processes /\ Cardinality(l) <= 1
  <2>1. Cardinality(l) = 1
    BY <1>2, FS_Singleton
  <2> QED
    BY <1>2, <2>1, SMT
<1> QED
  BY <1>1, <1>2

\* Run ids are only given out.
LEMMA IdsGrow ==
    ASSUME TypeOK, nextId' = nextId \/ nextId' = nextId + 1
    PROVE  /\ nextId' \in Nat /\ 0 \in 0..nextId' /\ 0..nextId \subseteq 0..nextId'
           /\ 1..nextId \subseteq 1..nextId' /\ (nextId' = nextId + 1 => nextId + 1 \in 0..nextId')
<1>1. nextId \in Nat
  BY DEF TypeOK
<1>2. nextId' \in Nat /\ nextId <= nextId' /\ 0 \in 0..nextId'
  BY <1>1, SMT
<1>3. \A r \in 0..nextId : r \in 0..nextId'
  BY <1>1, <1>2, SMT
<1>4. \A r \in 1..nextId : r \in 1..nextId'
  BY <1>1, <1>2, SMT
<1>5. nextId' = nextId + 1 => nextId + 1 \in 0..nextId'
  BY <1>1, SMT
<1> QED
  BY <1>2, <1>3, <1>4, <1>5

\* The failed modules of a stage are a set of stages, and one fault at most.
LEMMA StatusTypes ==
    ASSUME NEW s \in Stages, NEW bad \in CollectionStatus(s)
    PROVE  bad \in SUBSET Stages /\ Cardinality(bad) \in Nat
<1>1. CASE bad = {}
  BY <1>1, FS_EmptySet, SMT
<1>2. CASE bad = {s}
  <2>1. Cardinality(bad) = 1
    BY <1>2, FS_Singleton
  <2> QED
    BY <1>2, <2>1, SMT
<1> QED
  BY <1>1, <1>2 DEF CollectionStatus

Labels(n) == [run : 0..n, commit : Commits \union {0}]
Works == [commit : Commits \union {0}, bad : SUBSET Stages]

\* Moves of a process keep the types.
LEMMA ProcessTypes ==
    ASSUME TypeOK, OneLock, IdsAreOwn, NEW p \in Processes, ProcessMoves(p)
    PROVE  TypeOK' /\ OneLock'
<1> USE DEF ProcessMoves
<1>a. /\ head \in Commits /\ processed \in Commits \union {0} /\ commit \in [Processes -> Commits \union {0}]
      /\ id \in [Processes -> 0..nextId] /\ pc \in [Processes -> Steps]
      /\ attempt \in [Processes -> 0..(MaxRetries + 1)] /\ work \in [Processes -> Works]
      /\ cleaned \in BOOLEAN /\ history \subseteq 1..nextId /\ failed \subseteq 1..nextId
  BY DEF TypeOK, Works
<1>b. /\ nextId' \in Nat /\ 0 \in 0..nextId' /\ 0..nextId \subseteq 0..nextId'
      /\ 1..nextId \subseteq 1..nextId' /\ (nextId' = nextId + 1 => nextId + 1 \in 0..nextId')
  BY IdsGrow
<1>c. id[p] \in 0..nextId' /\ commit[p] \in Commits \union {0} /\ work[p] \in Works
  BY <1>a, <1>b
<1>d. work[p].commit \in Commits \union {0} /\ work[p].bad \in SUBSET Stages
  BY <1>c, SMT DEF Works
<1>e. metrics.bad \in SUBSET Stages
  BY SMT DEF TypeOK
<1>1. head' \in Commits /\ processed' \in Commits \union {0}
  BY <1>a, <1>c
<1>2. OneLock'
  <2>1. CASE lock' = lock
    BY <2>1 DEF OneLock
  <2>2. CASE lock = {} /\ lock' = lock \union {p}
    BY <2>2 DEF OneLock
  <2>3. CASE lock' = lock \ {p}
    <3>1. lock = {} => lock' = {}
      BY <2>3
    <3>2. ASSUME NEW q \in Processes, lock = {q} PROVE lock' = {} \/ lock' = {q}
      BY <2>3, <3>2
    <3> QED
      BY <3>1, <3>2 DEF OneLock
  <2> QED
    BY <2>1, <2>2, <2>3
<1>3. lock' \in SUBSET Processes /\ Cardinality(lock') <= 1
  BY <1>2, OneLockType DEF OneLock
<1>4. manifest' \in [run : 0..nextId', commit : Commits \union {0}, ok : BOOLEAN]
  <2>1. CASE manifest' = manifest
    <3>1. manifest \in [run : 0..nextId, commit : Commits \union {0}, ok : BOOLEAN]
      BY DEF TypeOK
    <3> QED
      BY <1>b, <2>1, <3>1
  <2>2. ASSUME NEW r \in 0..nextId', NEW c \in Commits \union {0}, NEW o \in BOOLEAN,
               manifest' = [run |-> r, commit |-> c, ok |-> o]
        PROVE  manifest' \in [run : 0..nextId', commit : Commits \union {0}, ok : BOOLEAN]
    BY <2>2
  <2>3. CASE manifest' = Manifest(id[p], work[p])
    BY <1>c, <1>d, <2>2, <2>3 DEF Manifest
  <2>4. CASE manifest' = Manifest(id[p], [commit |-> head, bad |-> metrics.bad])
    <3>1. [commit |-> head, bad |-> metrics.bad].commit \in Commits \union {0}
      BY <1>a
    <3> QED
      BY <1>c, <2>2, <2>4, <3>1 DEF Manifest
  <2>5. CASE manifest' = [run |-> id[p], commit |-> commit[p], ok |-> FALSE]
    BY <1>c, <2>2, <2>5
  <2> QED
    BY <2>1, <2>3, <2>4, <2>5
<1>5. metrics' \in [run : 0..nextId', bad : SUBSET Stages]
  <2>1. metrics \in [run : 0..nextId, bad : SUBSET Stages]
    BY DEF TypeOK
  <2>2. metrics \in [run : 0..nextId', bad : SUBSET Stages]
    BY <1>b, <2>1
  <2>3. CASE metrics' = [metrics EXCEPT !.run = id[p]]
    BY <1>c, <2>2, <2>3
  <2>4. ASSUME NEW s \in Stages, NEW bad \in CollectionStatus(s),
               metrics' = [run |-> id[p], bad |-> (metrics.bad \ {s}) \union bad]
        PROVE  metrics' \in [run : 0..nextId', bad : SUBSET Stages]
    <3>1. (metrics.bad \ {s}) \union bad \in SUBSET Stages
      BY <1>e, StatusTypes
    <3> QED
      BY <1>c, <2>4, <3>1
  <2> QED
    BY <2>2, <2>3, <2>4
<1>6. summary' \in Labels(nextId') /\ data' \in Labels(nextId')
  <2>1. summary \in Labels(nextId) /\ data \in Labels(nextId)
    BY DEF TypeOK, Labels
  <2>2. summary \in Labels(nextId') /\ data \in Labels(nextId')
    BY <1>b, <2>1 DEF Labels
  <2>3. [run |-> id[p], commit |-> work[p].commit] \in Labels(nextId')
    BY <1>c, <1>d DEF Labels
  <2> QED
    BY <2>2, <2>3
<1>7. history' \subseteq 1..nextId' /\ failed' \subseteq 1..nextId'
  <2>1. pc[p] \in Running => id[p] \in 1..nextId'
    BY <1>b DEF IdsAreOwn
  <2>2. Retained(history) \subseteq history
    BY DEF Retained
  <2> QED
    BY <1>a, <1>b, <2>1, <2>2
<1>8. pc' \in [Processes -> Steps]
  BY <1>a
<1>9. attempt' \in [Processes -> 0..(MaxRetries + 1)]
  <2>1. 0 \in 0..(MaxRetries + 1) /\ 1 \in 0..(MaxRetries + 1)
    BY MetricsPollerAssumption, SMT
  <2>2. attempt[p] <= MaxRetries => attempt[p] + 1 \in 0..(MaxRetries + 1)
    <3>1. attempt[p] \in 0..(MaxRetries + 1)
      BY <1>a
    <3> QED
      BY <3>1, MetricsPollerAssumption, SMT
  <2> QED
    BY <1>a, <2>1, <2>2
<1>10. id' \in [Processes -> 0..nextId']
  BY <1>a, <1>b
<1>11. commit' \in [Processes -> Commits \union {0}]
  BY <1>a
<1>12. work' \in [Processes -> Works]
  <2>1. NoWork \in Works
    BY SMT DEF NoWork, Works
  <2>2. [commit |-> head, bad |-> metrics.bad] \in Works
    BY <1>a, <1>e DEF Works
  <2>3. \A s \in Stages : \A bad \in CollectionStatus(s) : [commit |-> head, bad |-> bad] \in Works
    BY <1>a, StatusTypes DEF Works
  <2>4. ASSUME NEW w \in Works, work' = [work EXCEPT ![p] = w]
        PROVE  work' \in [Processes -> Works]
    BY <1>a, <2>4
  <2>5. CASE work' = work
    BY <1>a, <2>5
  <2>6. CASE work' = [work EXCEPT ![p] = NoWork]
    BY <2>1, <2>4, <2>6
  <2>7. CASE work' = [work EXCEPT ![p] = [commit |-> head, bad |-> metrics.bad]]
    BY <2>2, <2>4, <2>7
  <2>8. ASSUME NEW s \in Stages, NEW bad \in CollectionStatus(s),
               work' = [work EXCEPT ![p] = [commit |-> head, bad |-> bad]]
        PROVE  work' \in [Processes -> Works]
    BY <2>3, <2>4, <2>8
  <2> QED
    BY <2>5, <2>6, <2>7, <2>8
<1>13. publishing' \in [step : {"idle", "validate", "push"}, run : 0..nextId',
                       commit : Commits \union {0}, data : 0..nextId', alone : BOOLEAN]
  <2>1. publishing \in [step : {"idle", "validate", "push"}, run : 0..nextId,
                       commit : Commits \union {0}, data : 0..nextId, alone : BOOLEAN]
    BY DEF TypeOK
  <2>2. publishing \in [step : {"idle", "validate", "push"}, run : 0..nextId',
                       commit : Commits \union {0}, data : 0..nextId', alone : BOOLEAN]
    BY <1>b, <2>1
  <2>3. [publishing EXCEPT !.alone = FALSE]
            \in [step : {"idle", "validate", "push"}, run : 0..nextId',
                 commit : Commits \union {0}, data : 0..nextId', alone : BOOLEAN]
    BY <2>2
  <2> QED
    BY <2>2, <2>3
<1>14. manual' \in 0..MaxManual
  <2>1. manual \in 0..MaxManual
    BY DEF TypeOK
  <2>2. manual' = manual \/ (manual < MaxManual /\ manual' = manual + 1)
    OBVIOUS
  <2> QED
    BY <2>1, <2>2, MetricsPollerAssumption, SMT
<1>15. faults' \in 0..MaxFaults
  <2>1. faults \in 0..MaxFaults
    BY DEF TypeOK
  <2>2. CASE faults' = faults \/ (faults < MaxFaults /\ faults' = faults + 1)
    BY <2>1, <2>2, MetricsPollerAssumption, SMT
  <2>3. ASSUME NEW n \in Nat, faults + n <= MaxFaults, faults' = faults + n
        PROVE  faults' \in 0..MaxFaults
    BY <2>1, <2>3, MetricsPollerAssumption, SMT
  <2> QED
    BY <2>2, <2>3, StatusTypes
<1>16. cleaned' \in BOOLEAN
  BY <1>a
<1> HIDE DEF ProcessMoves
<1>17. TypeOK'
  BY <1>1, <1>3, <1>4, <1>5, <1>6, <1>7, <1>8, <1>9, <1>10, <1>11, <1>12, <1>13, <1>14, <1>15,
     <1>16, <1>b DEF TypeOK, Labels, Works
<1> QED
  BY <1>2, <1>17

\* So do the developers, the cleanup and the publish command.
LEMMA OutsideTypes ==
    ASSUME TypeOK, OneLock, Commit \/ Cleanup \/ Publish \/ EndPublish \/ UNCHANGED vars
    PROVE  TypeOK' /\ OneLock'
<1>a. locals' = locals /\ failed' = failed /\ nextId' = nextId
  BY DEF Commit, Cleanup, Publish, EndPublish, CommitPublication, PublishAborts, Push, vars
<1>b. 0 \in 0..nextId
  BY SMT DEF TypeOK
<1>1. head' \in Commits
  <2>1. head \in 1..MaxCommits /\ (head' = head \/ (head < MaxCommits /\ head' = head + 1))
    BY DEF TypeOK, Commits, Commit, Cleanup, Publish, EndPublish, CommitPublication, PublishAborts,
           Push, vars
  <2> QED
    BY <2>1, MetricsPollerAssumption, SMT DEF Commits
<1>2. processed' = processed \/ processed' = 0
  BY DEF Commit, Cleanup, Publish, EndPublish, CommitPublication, PublishAborts, Push, vars
<1>3. lock' = lock \/ lock' = {}
  BY DEF Commit, Cleanup, Publish, EndPublish, CommitPublication, PublishAborts, Push, vars
<1>4. latest' = latest \/ (manifest' = NoManifest /\ metrics' = NoMetrics /\ summary' = NoSummary)
  BY DEF Commit, Cleanup, Publish, EndPublish, CommitPublication, PublishAborts, Push, vars
<1>5. history' \in {history, {}} /\ data' \in {data, summary, NoSummary}
  BY DEF Commit, Cleanup, Publish, EndPublish, CommitPublication, PublishAborts, Push, vars
<1>6. cleaned' \in BOOLEAN
  BY DEF TypeOK, Commit, Cleanup, Publish, EndPublish, CommitPublication, PublishAborts, Push, vars
<1>7. manual' \in 0..MaxManual
  <2>1. manual \in 0..MaxManual
    BY DEF TypeOK
  <2>2. manual' = manual \/ (manual < MaxManual /\ manual' = manual + 1)
    BY DEF Commit, Cleanup, Publish, EndPublish, CommitPublication, PublishAborts, Push, vars
  <2> QED
    BY <2>1, <2>2, MetricsPollerAssumption, SMT
<1>8. faults' \in 0..MaxFaults
  <2>1. faults \in 0..MaxFaults
    BY DEF TypeOK
  <2>2. faults' = faults \/ (faults < MaxFaults /\ faults' = faults + 1)
    BY DEF Commit, Cleanup, Publish, EndPublish, CommitPublication, PublishAborts, Push, vars
  <2> QED
    BY <2>1, <2>2, MetricsPollerAssumption, SMT
<1>9. manifest' \in [run : 0..nextId, commit : Commits \union {0}, ok : BOOLEAN]
  <2>1. NoManifest \in [run : 0..nextId, commit : Commits \union {0}, ok : BOOLEAN]
    BY <1>b, SMT DEF NoManifest
  <2> QED
    BY <1>4, <2>1 DEF TypeOK, latest
<1>10. metrics' \in [run : 0..nextId, bad : SUBSET Stages]
  <2>1. NoMetrics \in [run : 0..nextId, bad : SUBSET Stages]
    BY <1>b, SMT DEF NoMetrics
  <2> QED
    BY <1>4, <2>1 DEF TypeOK, latest
<1>11. summary' \in Labels(nextId) /\ data' \in Labels(nextId)
  <2>1. NoSummary \in Labels(nextId)
    BY <1>b, SMT DEF NoSummary, Labels
  <2>2. summary \in Labels(nextId) /\ data \in Labels(nextId)
    BY DEF TypeOK, Labels
  <2> QED
    BY <1>4, <1>5, <2>1, <2>2 DEF latest
<1>12. publishing' \in [step : {"idle", "validate", "push"}, run : 0..nextId,
                        commit : Commits \union {0}, data : 0..nextId, alone : BOOLEAN]
  <2> DEFINE P == [step : {"idle", "validate", "push"}, run : 0..nextId,
                   commit : Commits \union {0}, data : 0..nextId, alone : BOOLEAN]
  <2>1. publishing \in P
    BY DEF TypeOK
  <2>2. NotPublishing \in P
    BY <1>b, SMT DEF NotPublishing
  <2>3. CASE Publish
    <3> DEFINE quiet == \A p \in Processes : pc[p] = "idle"
    <3>1. publishing' = [step |-> "validate", run |-> manifest.run, commit |-> manifest.commit,
                         data |-> 0, alone |-> quiet]
      BY <2>3 DEF Publish
    <3>2. manifest.run \in 0..nextId /\ manifest.commit \in Commits \union {0} /\ quiet \in BOOLEAN
      <4>1. manifest.run \in 0..nextId /\ manifest.commit \in Commits \union {0}
        BY SMT DEF TypeOK
      <4> QED
        BY <4>1
    <3> HIDE DEF quiet
    <3> QED
      BY <1>b, <3>1, <3>2
  <2>4. CASE CommitPublication
    <3>1. publishing' = [publishing EXCEPT !.step = "push", !.data = data.run]
      BY <2>4 DEF CommitPublication
    <3>2. data.run \in 0..nextId
      BY SMT DEF TypeOK
    <3> QED
      BY <2>1, <3>1, <3>2
  <2>5. publishing' \in {publishing, NotPublishing} \/ Publish \/ CommitPublication
    BY DEF Commit, Cleanup, EndPublish, PublishAborts, Push, vars
  <2> HIDE DEF P
  <2> QED
    BY <2>1, <2>2, <2>3, <2>4, <2>5 DEF P
<1>13. OneLock'
  BY <1>3 DEF OneLock
<1>14. lock' \in SUBSET Processes /\ Cardinality(lock') <= 1
  BY <1>13, OneLockType DEF OneLock
<1>15. TypeOK'
  <2>1. processed' \in Commits \union {0} /\ history' \subseteq 1..nextId
    BY <1>2, <1>5 DEF TypeOK
  <2> QED
    BY <2>1, <1>a, <1>1, <1>6, <1>7, <1>8, <1>9, <1>10, <1>11, <1>12, <1>14 DEF TypeOK, Labels, locals
<1> QED
  BY <1>13, <1>15

\* Whatever the processes, the developers and the operator do, the variables keep
\* their types: run ids are given out before they are written, attempts stay
\* within the retries, and the lock is that of one process or of none.
THEOREM MetricsTypeCorrectness == Spec => []TypeOK
<1>1. Init => TypeOK /\ OneLock
  <2> SUFFICES ASSUME Init PROVE TypeOK /\ OneLock
    OBVIOUS
  <2>1. nextId = 0 /\ 0 \in 0..nextId /\ 0 \in 0..MaxManual /\ 0 \in 0..MaxFaults
        /\ 0 \in 0..(MaxRetries + 1) /\ 1 \in Commits /\ 0 \in Nat
    BY MetricsPollerAssumption, SMT DEF Init, Commits
  <2>2. NoManifest \in [run : 0..nextId, commit : Commits \union {0}, ok : BOOLEAN]
        /\ NoMetrics \in [run : 0..nextId, bad : SUBSET Stages] /\ NoSummary \in Labels(nextId)
    BY <2>1, SMT DEF NoManifest, NoMetrics, NoSummary, Labels
  <2>3. NotPublishing \in [step : {"idle", "validate", "push"}, run : 0..nextId,
                           commit : Commits \union {0}, data : 0..nextId, alone : BOOLEAN]
    BY <2>1, SMT DEF NotPublishing
  <2>4. NoWork \in Works
    BY SMT DEF NoWork, Works
  <2>5. pc \in [Processes -> Steps] /\ attempt \in [Processes -> 0..(MaxRetries + 1)]
        /\ id \in [Processes -> 0..nextId] /\ commit \in [Processes -> Commits \union {0}]
        /\ work \in [Processes -> Works]
    BY <2>1, <2>4 DEF Init, Steps
  <2>6. Cardinality(lock) <= 1
    <3>1. Cardinality(lock) = 0
      BY FS_EmptySet DEF Init
    <3> QED
      BY <3>1, SMT
  <2> QED
    BY <2>1, <2>2, <2>3, <2>5, <2>6 DEF Init, TypeOK, OneLock, Labels, Works
<1>2. TypeOK /\ OneLock /\ Inv /\ [Next]_vars => TypeOK' /\ OneLock'
  <2> SUFFICES ASSUME TypeOK, OneLock, Inv, [Next]_vars PROVE TypeOK' /\ OneLock'
    OBVIOUS
  <2>1. ASSUME NEW p \in Processes, Start(p) \/ Advance(p) \/ StageRaises(p) \/ Dies(p)
        PROVE  TypeOK' /\ OneLock'
    BY <2>1, ProcessStepMoves, ProcessTypes DEF Inv
  <2> QED
    BY <2>1, OutsideTypes DEF Next
<1> QED
  BY <1>1, <1>2, Invariance, PTL DEF Spec
=============================================================================
