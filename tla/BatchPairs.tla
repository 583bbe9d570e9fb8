----------------------------- MODULE BatchPairs -----------------------------
(***************************************************************************)
(* An ingest batch (process_batch of domain/ingest.py) with live photo     *)
(* pairing (live_photo.py), the registry's live_photo_pairs, and the       *)
(* rejection of pairs (_apply_reject of reject.py).  Other commands and    *)
(* web triage, which know nothing of pairs, change members meanwhile.      *)
(*                                                                         *)
(* Candidates are processed by a pool of threads, the largest first, and   *)
(* recorded in the order of the batch: for each the pair it completes, if  *)
(* any, and its terminal event, each in a transaction of its own.  What    *)
(* processing and moving one file do step by step is in Ingest and         *)
(* Operator; here each is one step, and one batch runs at a time.  A       *)
(* candidate's id stands for its content.  Pairing is on, which it is in   *)
(* the tests: `poll` passes no heuristics and records no pairs.            *)
(***************************************************************************)
EXTENDS Naturals, Sequences, FiniteSets, Functions, TLC

CONSTANTS
    N,              \* number of items; a higher number is of a larger file that
                    \* was captured one unit of time later
    Stems,          \* an account and a file stem
    Tolerance,      \* capture_tolerance_seconds
    Workers,        \* worker_count
    Rejecters,      \* processes that run reject
    MaxCommands,    \* bound: batches and operator commands
    MaxFaults       \* bound: candidates without a result, and processes that die

ASSUME BatchPairsAssumption ==
    /\ N \in Nat /\ Tolerance \in Nat
    /\ Workers \in Nat \ {0} /\ MaxCommands \in Nat /\ MaxFaults \in Nat

VARIABLES
    item,       \* the name of each item: its extension and its stem
    batch,      \* the candidates of the batch under way, in order
    phase,      \* "idle", "processing", "pair", "event" or "return"
    sha,        \* candidates: open, or finished with a SHA-256 or none
    raised,     \* some thread raised
    queue,      \* DeferredPairQueue
    formed,     \* pairs the queue has returned in this batch
    events,     \* ingest_terminal_audit of this batch, by sequence_no
    status,     \* files.status
    place,      \* the root that current_path is in
    reopened,   \* items triage has taken back since they were last rejected
                \* (no program variable)
    pairs,      \* live_photo_pairs: status by photo and video
    job,        \* of each rejecter
    commands, faults

batchVars == <<batch, phase, sha, raised, queue, formed, events>>
fileVars == <<status, place, reopened>>
vars == <<item, batchVars, fileVars, pairs, job, commands, faults>>

Items == 1..N
Pair == Items \X Items
NoJob == [step |-> "idle", photo |-> 0, video |-> 0]
Steps == {"idle", "move_photo", "move_video", "photo", "video", "pair", "move", "status"}

TypeOK ==
    /\ item \in [Items -> [kind : {"photo", "video", "other"}, stem : Stems]]
    /\ IsInjective(batch) /\ Range(batch) \subseteq Items
    /\ phase \in {"idle", "processing", "pair", "event", "return"}
    /\ sha \in [Items -> {"open", "known", "none"}]
    /\ raised \in BOOLEAN
    /\ IsInjective(queue) /\ Range(queue) \subseteq Items
    /\ formed \subseteq Pair /\ Len(events) <= Len(batch)
    /\ status \in [Items -> {"unknown", "pending", "accepted", "rejected", "purged"}]
    /\ place \in [Items -> {"nowhere", "pending", "accepted", "rejected"}]
    /\ reopened \subseteq Items
    /\ pairs \in [Pair -> {"no row", "paired", "rejected"}]
    /\ \A p \in Pair : pairs[p] # "no row" => item[p[1]].kind = "photo" /\ item[p[2]].kind = "video"
    /\ job \in [Rejecters -> [step : Steps, photo : Items \union {0}, video : Items \union {0}]]
    /\ commands \in 0..MaxCommands /\ faults \in 0..MaxFaults

Init ==
    /\ item \in [Items -> [kind : {"photo", "video", "other"}, stem : Stems]]
    /\ {"photo", "video"} \subseteq {item[i].kind : i \in Items}
    /\ batch = <<>> /\ phase = "idle" /\ raised = FALSE
    /\ sha = [i \in Items |-> "open"]
    /\ queue = <<>> /\ formed = {} /\ events = <<>>
    /\ status = [i \in Items |-> "unknown"] /\ place = [i \in Items |-> "nowhere"]
    /\ reopened = {} /\ pairs = [p \in Pair |-> "no row"]
    /\ job = [r \in Rejecters |-> NoJob]
    /\ commands = 0 /\ faults = 0

-----------------------------------------------------------------------------
(* process_batch: the threads *)

ResetBatch(b) ==
    /\ batch' = b
    /\ raised' = FALSE
    /\ sha' = [i \in Items |-> "open"]
    /\ queue' = <<>> /\ formed' = {} /\ events' = <<>>

\* Any candidates: items come again after a crash, and in another order.
BatchBegins(b) ==
    /\ phase = "idle" /\ commands < MaxCommands
    /\ ResetBatch(b)
    /\ phase' = "processing"
    /\ commands' = commands + 1
    /\ UNCHANGED <<item, fileVars, pairs, job, faults>>

\* With one worker there is no pool, and an exception leaves the loop at once.
BrokenOff == Workers = 1 /\ raised

\* Candidates are taken up by size, so the threads are at the largest of the
\* open ones.
InThread(i) ==
    /\ ~ BrokenOff
    /\ i \in Range(batch) /\ sha[i] = "open"
    /\ Cardinality({j \in Range(batch) : sha[j] = "open" /\ j > i}) < Workers

ThreadEnds(i, s) ==
    /\ phase = "processing" /\ InThread(i)
    /\ sha' = [sha EXCEPT ![i] = s]
    /\ UNCHANGED <<item, batch, phase, queue, formed, events, pairs, job, commands>>

\* Unknown content is stored as pending, known content discarded.
Processed(i) ==
    /\ ThreadEnds(i, "known")
    /\ IF status[i] = "unknown"
       THEN /\ status' = [status EXCEPT ![i] = "pending"]
            /\ place' = [place EXCEPT ![i] = "pending"]
            /\ UNCHANGED reopened
       ELSE UNCHANGED fileVars
    /\ UNCHANGED <<raised, faults>>

\* No SHA-256: the staged file is missing, of the wrong size or empty; or the
\* thread raises.
NotProcessed(i) ==
    /\ ThreadEnds(i, "none")
    /\ faults < MaxFaults /\ faults' = faults + 1
    /\ raised' \in {raised, TRUE}
    /\ UNCHANGED fileVars

\* Mutant: the results are recorded in the order of processing.
RecordOrderAsProcessed ==
    [k \in DOMAIN batch |-> CHOOSE i \in Range(batch) : Cardinality({j \in Range(batch) : j > i}) = k - 1]

\* The results are sorted back into the order of the batch.
RecordOrder == batch

\* All threads have ended: the results are recorded, or the exception ends it.
AllProcessed ==
    /\ phase = "processing"
    /\ BrokenOff \/ \A i \in Range(batch) : sha[i] # "open"
    /\ phase' = IF raised THEN "return" ELSE "pair"
    /\ UNCHANGED <<item, batch, sha, raised, queue, formed, events, fileVars, pairs, job, commands, faults>>

-----------------------------------------------------------------------------
(* process_batch: recording; DeferredPairQueue.ingest *)

Gap(i, j) == IF i > j THEN i - j ELSE j - i

\* Mutant: the tolerance itself is out of tolerance.
WithinToleranceStrictly(i, j) == Gap(i, j) < Tolerance

WithinTolerance(i, j) == Gap(i, j) <= Tolerance

\* Two components of one live photo
Counterparts(i, j) ==
    /\ item[i].stem = item[j].stem
    /\ {item[i].kind, item[j].kind} = {"photo", "video"}
    /\ Gap(i, j) <= Tolerance

\* Where in the queue a counterpart waits
Eligible(i) ==
    {k \in DOMAIN queue : LET j == queue[k] IN
        /\ item[i].stem = item[j].stem
        /\ {item[i].kind, item[j].kind} = {"photo", "video"}
        /\ WithinTolerance(i, j)}

\* min: the nearest, and the first of those
Nearest(i) ==
    CHOOSE k \in Eligible(i) : \A l \in Eligible(i) :
        \/ Gap(i, queue[k]) < Gap(i, queue[l])
        \/ Gap(i, queue[k]) = Gap(i, queue[l]) /\ k <= l

\* list.remove
Without(q, k) == SubSeq(q, 1, k - 1) \o SubSeq(q, k + 1, Len(q))

\* Mutant: the newcomer is taken for the photo.
AsPairNewcomerFirst(i, j) == <<i, j>>

AsPair(i, j) == IF item[i].kind = "photo" THEN <<i, j>> ELSE <<j, i>>

\* upsert_live_photo_pair: an existing row becomes "paired" again.
Upsert(p) ==
    pairs' = IF sha[p[1]] = "known" /\ sha[p[2]] = "known"
             THEN [pairs EXCEPT ![p] = "paired"] ELSE pairs

IsNext(i) == Len(events) < Len(RecordOrder) /\ i = RecordOrder[Len(events) + 1]

\* The candidate waits for its counterpart, completes a pair or is no component.
IngestIntoQueue(i) ==
    /\ phase = "pair" /\ IsNext(i)
    /\ phase' = "event"
    /\ \/ /\ item[i].kind = "other"
          /\ UNCHANGED <<queue, formed, pairs>>
       \/ /\ item[i].kind # "other" /\ Eligible(i) = {}
          /\ queue' = Append(queue, i)
          /\ UNCHANGED <<formed, pairs>>
       \/ /\ item[i].kind # "other" /\ Eligible(i) # {}
          /\ LET k == Nearest(i)
                 p == AsPair(i, queue[k]) IN
               /\ queue' = Without(queue, k)
               /\ formed' = formed \union {p}
               /\ Upsert(p)
    /\ UNCHANGED <<item, batch, sha, raised, events, fileVars, job, commands, faults>>

AppendTerminalEvent(i) ==
    /\ phase = "event" /\ IsNext(i)
    /\ events' = Append(events, [item |-> i, sha |-> sha[i]])
    /\ phase' = IF Len(events) + 1 = Len(batch) THEN "return" ELSE "pair"
    /\ UNCHANGED <<item, batch, sha, raised, queue, formed, fileVars, pairs, job, commands, faults>>

\* The queue is dropped with the batch.
BatchReturns ==
    /\ phase = "return"
    /\ phase' = "idle"
    /\ ResetBatch(<<>>)
    /\ UNCHANGED <<item, fileVars, pairs, job, commands, faults>>

\* The poll process dies; what it has committed stays.
BatchDies ==
    /\ phase # "idle"
    /\ faults < MaxFaults /\ faults' = faults + 1
    /\ phase' = "idle"
    /\ ResetBatch(<<>>)
    /\ UNCHANGED <<item, fileVars, pairs, job, commands>>

-----------------------------------------------------------------------------
(* _apply_reject, and the other commands *)

Goto(r, s) == job' = [job EXCEPT ![r].step = s]
EndReject(r) == job' = [job EXCEPT ![r] = NoJob]

\* get_live_photo_pair_for_member: a pair the content is a member of (LIMIT 1)
PairsOf(i) == {p \in Pair : i \in {p[1], p[2]} /\ pairs[p] # "no row"}

\* The pair branch
RejectPair(r, i) ==
    /\ \E p \in PairsOf(i) :
         /\ pairs[p] # "rejected"
         /\ job' = [job EXCEPT ![r] = [step |-> "move_photo", photo |-> p[1], video |-> p[2]]]

\* The single file: nothing to do, or to be moved.
RejectSingle(r, i) ==
    /\ PairsOf(i) = {} \/ \E p \in PairsOf(i) : pairs[p] = "rejected"
    /\ job' = [job EXCEPT ![r] =
                 IF status[i] = "rejected" THEN NoJob ELSE [step |-> "move", photo |-> i, video |-> 0]]

\* Content without a row: it is recorded as rejected, with the file of the
\* trash if it came from there.
RejectUnknown(i) ==
    /\ status' = [status EXCEPT ![i] = "rejected"]
    /\ \E p \in {"nowhere", "rejected"} : place' = [place EXCEPT ![i] = p]
    /\ UNCHANGED reopened

Reject(r, i) ==
    /\ job[r].step = "idle" /\ commands < MaxCommands
    /\ commands' = commands + 1
    /\ \/ status[i] = "unknown" /\ RejectUnknown(i) /\ UNCHANGED job
       \/ status[i] # "unknown" /\ (RejectPair(r, i) \/ RejectSingle(r, i)) /\ UNCHANGED fileVars
    /\ UNCHANGED <<item, batchVars, pairs, faults>>

\* _move_to_rejected_folder: the file may be gone from current_path, by hand or
\* by another command's move, or go once it has been found there; one that is
\* under rejected/ already, or cannot be moved, is an error.
MoveToRejected(r, from, i, to) ==
    /\ job[r].step = from
    /\ \/ /\ place[i] \in {"pending", "accepted"}
          /\ place' = [place EXCEPT ![i] = "rejected"]
          /\ Goto(r, to)
       \/ place' = [place EXCEPT ![i] = "nowhere"] /\ Goto(r, to)
       \/ place[i] \in {"pending", "accepted"} /\ Goto(r, to) /\ UNCHANGED place
       \/ place[i] # "nowhere" /\ EndReject(r) /\ UNCHANGED place
    /\ UNCHANGED <<item, batchVars, status, reopened, pairs, commands, faults>>

TransitionStatus(r, from, i, to) ==
    /\ job[r].step = from
    /\ status' = [status EXCEPT ![i] = "rejected"]
    /\ reopened' = reopened \ {i}
    /\ IF to = "idle" THEN EndReject(r) ELSE Goto(r, to)
    /\ UNCHANGED <<item, batchVars, place, pairs, commands, faults>>

\* Mutant: the pair's row is written after the photo's.
ApplyPairStatusEarly(r) ==
    \/ TransitionStatus(r, "photo", job[r].photo, "pair")
    \/ TransitionStatus(r, "video", job[r].video, "idle")
    \/ /\ job[r].step = "pair"
       /\ pairs' = [pairs EXCEPT ![<<job[r].photo, job[r].video>>] = "rejected"]
       /\ Goto(r, "video")
       /\ UNCHANGED <<item, batchVars, fileVars, commands, faults>>

\* apply_live_photo_pair_status: three transactions
ApplyPairStatus(r) ==
    \/ TransitionStatus(r, "photo", job[r].photo, "video")
    \/ TransitionStatus(r, "video", job[r].video, "pair")
    \/ /\ job[r].step = "pair"
       /\ pairs' = [pairs EXCEPT ![<<job[r].photo, job[r].video>>] = "rejected"]
       /\ EndReject(r)
       /\ UNCHANGED <<item, batchVars, fileVars, commands, faults>>

RejectStep(r) ==
    \/ MoveToRejected(r, "move_photo", job[r].photo, "move_video")
    \/ MoveToRejected(r, "move_video", job[r].video, "photo")
    \/ ApplyPairStatus(r)
    \/ MoveToRejected(r, "move", job[r].photo, "status")
    \/ TransitionStatus(r, "status", job[r].photo, "idle")

RejectDies(r) ==
    /\ job[r].step # "idle"
    /\ faults < MaxFaults /\ faults' = faults + 1
    /\ EndReject(r)
    /\ UNCHANGED <<item, batchVars, fileVars, pairs, commands>>

\* accept_sha256 and purge_sha256 know nothing of pairs.  Their transactions
\* look at the status again, whatever the command has read before.
Accept(i) ==
    /\ commands < MaxCommands /\ commands' = commands + 1
    /\ status[i] = "pending" /\ place[i] = "pending"
    /\ status' = [status EXCEPT ![i] = "accepted"]
    /\ place' = [place EXCEPT ![i] = "accepted"]
    /\ UNCHANGED <<item, batchVars, reopened, pairs, job, faults>>

Purge(i) ==
    /\ commands < MaxCommands /\ commands' = commands + 1
    /\ status[i] = "rejected" /\ place[i] \in {"nowhere", "rejected"}
    /\ status' = [status EXCEPT ![i] = "purged"]
    /\ place' = [place EXCEPT ![i] = "nowhere"]
    /\ UNCHANGED <<item, batchVars, reopened, pairs, job, faults>>

\* Triage through the web API: the status alone, from any to any.
Triage(i, s) ==
    /\ commands < MaxCommands /\ commands' = commands + 1
    /\ status[i] # "unknown"
    /\ status' = [status EXCEPT ![i] = s]
    /\ reopened' = IF s = "rejected" THEN reopened \ {i} ELSE reopened \union {i}
    /\ UNCHANGED <<item, batchVars, place, pairs, job, faults>>

-----------------------------------------------------------------------------

Batches == {b \in UNION {[1..n -> Items] : n \in 1..N} : IsInjective(b)}

Next ==
    \/ \E b \in Batches : BatchBegins(b)
    \/ \E i \in Items : \/ Processed(i) \/ NotProcessed(i)
                        \/ IngestIntoQueue(i) \/ AppendTerminalEvent(i)
                        \/ Accept(i) \/ Purge(i)
                        \/ \E s \in {"accepted", "rejected", "pending"} : Triage(i, s)
    \/ AllProcessed \/ BatchReturns \/ BatchDies
    \/ \E r \in Rejecters : RejectStep(r) \/ RejectDies(r) \/ \E i \in Items : Reject(r, i)

Symmetry == Permutations(Rejecters)

Spec == Init /\ [][Next]_vars

-----------------------------------------------------------------------------

\* Pairing does not depend on arrival order to find a partner: a photo and a
\* video that belong together never wait in the queue both, and no file is a
\* member of two pairs of a batch.
PairingIsComplete ==
    /\ \A i, j \in Range(queue) : ~ Counterparts(i, j)
    /\ \A p, q \in formed : p # q => {p[1], p[2]} \intersect {q[1], q[2]} = {}
    /\ \A p \in formed : {p[1], p[2]} \intersect Range(queue) = {}

\* The terminal events of a batch tell its candidates in the order in which
\* they came, although threads finish in any order, and each one's result.
EventsFollowBatch ==
    \A k \in DOMAIN events :
        /\ k \in DOMAIN batch /\ events[k].item = batch[k]
        /\ events[k].sha = sha[batch[k]] /\ events[k].sha # "open"

\* Rejected or purged, unless triage has taken the item back since.
Settled(i) == status[i] \in {"rejected", "purged"} \/ i \in reopened

\* A pair is recorded as rejected only when both members are, and a member of
\* such a pair comes back into review by web triage alone, which changes a
\* member's status and not the pair's row: not although the three rows of a
\* rejection are written one by one, commands overlap and die, batches record
\* the pair anew, and members are accepted and purged separately.
RejectedPairIsRejected ==
    \A p \in Pair : pairs[p] = "rejected" => Settled(p[1]) /\ Settled(p[2])

=============================================================================
