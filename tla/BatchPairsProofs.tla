-------------------------- MODULE BatchPairsProofs --------------------------
(***************************************************************************)
(* Proofs, for any number of files, threads, commands and faults, that a   *)
(* member of a pair recorded as rejected is, unless triage has taken it    *)
(* back, that the events of a batch follow its order, and that pairs are   *)
(* found whatever that is.                                                 *)
(*                                                                         *)
(* A rejection writes its three rows in the order photo, video, pair.  The *)
(* invariant says of a command between two of its transactions that what   *)
(* it has written is still there, unless triage has undone it: from        *)
(* rejected or purged a status goes nowhere else but by triage.            *)
(***************************************************************************)
EXTENDS BatchPairs, WellFoundedInduction, TLAPS

\* Zenon finds many leaves; the ones about records and arithmetic ask for SMT.
USE Zenon

\* Settled in the next state
SettledNext(i) == status'[i] \in {"rejected", "purged"} \/ i \in reopened'

Statuses == {"unknown", "pending", "accepted", "rejected", "purged"}

\* The types the argument needs
Types ==
    /\ status \in [Items -> Statuses]
    /\ reopened \subseteq Items
    /\ pairs \in [Pair -> {"no row", "paired", "rejected"}]
    /\ job \in [Rejecters -> [step : Steps, photo : Items \union {0}, video : Items \union {0}]]

PairSteps == {"move_photo", "move_video", "photo", "video", "pair"}

\* A command that rejects a pair is about two files that have a row together ...
JobIsPair ==
    \A r \in Rejecters : job[r].step \in PairSteps =>
        /\ job[r].photo \in Items /\ job[r].video \in Items
        /\ pairs[<<job[r].photo, job[r].video>>] # "no row"

\* ... and what it has written stays.
JobInv ==
    \A r \in Rejecters :
        /\ job[r].step \in {"video", "pair"} => Settled(job[r].photo)
        /\ job[r].step = "pair" => Settled(job[r].video)

Inv == Types /\ JobIsPair /\ JobInv /\ RejectedPairIsRejected

-----------------------------------------------------------------------------

\* A step that leaves the commands alone, makes no pair rejected and takes no
\* file out of the final statuses preserves the invariant: so do the steps of
\* a batch, accept_sha256 and purge_sha256.
LEMMA QuietStep ==
    ASSUME Inv, job' = job,
           status' \in [Items -> Statuses], reopened' \subseteq Items,
           pairs' \in [Pair -> {"no row", "paired", "rejected"}],
           \A i \in Items : Settled(i) => SettledNext(i),
           \A p \in Pair : pairs'[p] = pairs[p] \/ pairs'[p] = "paired"
    PROVE  Inv'
<1>1. Types'
  BY DEF Inv, Types
<1>2. JobIsPair'
  <2>1. \A i, j \in Items : <<i, j>> \in Pair
    BY DEF Pair
  <2> QED
    BY <2>1 DEF Inv, JobIsPair
<1>3. JobInv'
  BY DEF Inv, JobInv, JobIsPair, PairSteps, Settled, SettledNext
<1>4. RejectedPairIsRejected'
  BY DEF Inv, RejectedPairIsRejected, Settled, SettledNext, Pair
<1> QED
  BY <1>1, <1>2, <1>3, <1>4 DEF Inv

\* A step of one command that writes no pair, where the command says no more
\* about what it has written than is there.
LEMMA JobStep ==
    ASSUME Inv, NEW r \in Rejecters,
           NEW j \in [step : Steps, photo : Items \union {0}, video : Items \union {0}],
           job' = [job EXCEPT ![r] = j],
           pairs' = pairs,
           status' \in [Items -> Statuses], reopened' \subseteq Items,
           \A i \in Items : Settled(i) => SettledNext(i),
           j.step \in PairSteps =>
              j.photo \in Items /\ j.video \in Items /\ pairs[<<j.photo, j.video>>] # "no row",
           j.step \in {"video", "pair"} => SettledNext(j.photo),
           j.step = "pair" => SettledNext(j.video)
    PROVE  Inv'
<1>1. Types'
  BY DEF Inv, Types
<1>2. \A q \in Rejecters : job'[q] = IF q = r THEN j ELSE job[q]
  BY DEF Inv, Types
<1>3. JobIsPair'
  BY <1>2 DEF Inv, JobIsPair
<1>4. JobInv'
  BY <1>2 DEF Inv, JobInv, JobIsPair, PairSteps, Settled, SettledNext
<1>5. RejectedPairIsRejected'
  BY DEF Inv, RejectedPairIsRejected, Settled, SettledNext, Pair
<1> QED
  BY <1>1, <1>3, <1>4, <1>5 DEF Inv

-----------------------------------------------------------------------------

\* A step that leaves the statuses alone takes no file out of the final ones.
LEMMA SameStatus ==
    ASSUME Inv, status' = status, reopened' = reopened
    PROVE  /\ status' \in [Items -> Statuses] /\ reopened' \subseteq Items
           /\ \A i \in Items : Settled(i) <=> SettledNext(i)
  BY DEF Inv, Types, Settled, SettledNext

\* process_batch preserves the invariant: it stores what is unknown, and a pair
\* it records is paired.
LEMMA BatchStep ==
    ASSUME Inv,
           \/ \E b \in Batches : BatchBegins(b)
           \/ \E i \in Items : \/ Processed(i) \/ NotProcessed(i)
                               \/ IngestIntoQueue(i) \/ AppendTerminalEvent(i)
           \/ AllProcessed \/ BatchReturns \/ BatchDies
    PROVE  Inv'
<1> USE DEF fileVars, batchVars
<1>1. CASE \E b \in Batches : BatchBegins(b)
  BY <1>1, SameStatus, QuietStep DEF BatchBegins, Inv, Types
<1>2. ASSUME NEW i \in Items, Processed(i) PROVE Inv'
  <2>1. job' = job /\ pairs' = pairs
    BY <1>2 DEF Processed, ThreadEnds
  <2>2. /\ reopened' = reopened
        /\ status' = status \/ (status[i] = "unknown" /\ status' = [status EXCEPT ![i] = "pending"])
    BY <1>2 DEF Processed
  <2>3. status' \in [Items -> Statuses] /\ reopened' \subseteq Items /\ \A k \in Items : Settled(k) => SettledNext(k)
    BY <1>2, <2>2 DEF Inv, Types, Statuses, Settled, SettledNext
  <2> QED
    BY <2>1, <2>3, QuietStep DEF Inv, Types
<1>3. ASSUME NEW i \in Items, NotProcessed(i) PROVE Inv'
  BY <1>3, SameStatus, QuietStep DEF NotProcessed, ThreadEnds, Inv, Types
<1>4. ASSUME NEW i \in Items, IngestIntoQueue(i) PROVE Inv'
  <2>1. job' = job /\ status' = status /\ reopened' = reopened
    BY <1>4 DEF IngestIntoQueue
  <2>2. pairs' = pairs \/ \E p : pairs' = [pairs EXCEPT ![p] = "paired"]
    BY <1>4 DEF IngestIntoQueue, Upsert
  <2>3. /\ pairs' \in [Pair -> {"no row", "paired", "rejected"}]
        /\ \A p \in Pair : pairs'[p] = pairs[p] \/ pairs'[p] = "paired"
    BY <2>2 DEF Inv, Types
  <2> QED
    BY <2>1, <2>3, SameStatus, QuietStep DEF Inv, Types
<1>5. ASSUME NEW i \in Items, AppendTerminalEvent(i) PROVE Inv'
  BY <1>5, SameStatus, QuietStep DEF AppendTerminalEvent, Inv, Types
<1>6. CASE AllProcessed
  BY <1>6, SameStatus, QuietStep DEF AllProcessed, Inv, Types
<1>7. CASE BatchReturns
  BY <1>7, SameStatus, QuietStep DEF BatchReturns, Inv, Types
<1>8. CASE BatchDies
  BY <1>8, SameStatus, QuietStep DEF BatchDies, Inv, Types
<1> QED
  BY <1>1, <1>2, <1>3, <1>4, <1>5, <1>6, <1>7, <1>8

\* accept_sha256 and purge_sha256 preserve the invariant: their transactions
\* look at the status.  Triage does too: what it takes back it has reopened.
LEMMA OtherCommands ==
    ASSUME Inv, NEW i \in Items,
           \/ Accept(i) \/ Purge(i)
           \/ \E s \in {"accepted", "rejected", "pending"} : Triage(i, s)
    PROVE  Inv'
<1>1. job' = job /\ pairs' = pairs
  BY DEF Accept, Purge, Triage
<1>2. \/ status[i] = "pending" /\ status' = [status EXCEPT ![i] = "accepted"] /\ reopened' = reopened
      \/ status[i] = "rejected" /\ status' = [status EXCEPT ![i] = "purged"] /\ reopened' = reopened
      \/ status' = [status EXCEPT ![i] = "rejected"] /\ reopened' = reopened \ {i}
      \/ \E s \in {"accepted", "pending"} :
            status' = [status EXCEPT ![i] = s] /\ reopened' = reopened \union {i}
  BY DEF Accept, Purge, Triage
<1>3. status' \in [Items -> Statuses] /\ reopened' \subseteq Items /\ \A k \in Items : Settled(k) => SettledNext(k)
  BY <1>2 DEF Inv, Types, Statuses, Settled, SettledNext
<1> QED
  BY <1>1, <1>3, QuietStep DEF Inv, Types

\* _apply_reject up to its first write of a known content preserves the
\* invariant; content without a row gets the status rejected.
LEMMA RejectBegins ==
    ASSUME Inv, NEW r \in Rejecters, NEW i \in Items, Reject(r, i)
    PROVE  Inv'
<1> USE DEF fileVars
<1>0. pairs' = pairs
  BY DEF Reject
<1>1. CASE RejectUnknown(i) /\ UNCHANGED job
  <2>1. status' \in [Items -> Statuses] /\ reopened' \subseteq Items /\ \A k \in Items : Settled(k) => SettledNext(k)
    BY <1>1 DEF RejectUnknown, Inv, Types, Statuses, Settled, SettledNext
  <2> QED
    BY <1>0, <1>1, <2>1, QuietStep DEF Inv, Types
<1>2. CASE RejectPair(r, i) /\ UNCHANGED fileVars
  <2>1. PICK p \in Pair : /\ pairs[p] # "no row"
                          /\ job' = [job EXCEPT ![r] = [step |-> "move_photo", photo |-> p[1], video |-> p[2]]]
    BY <1>2 DEF RejectPair, PairsOf
  <2>2. p[1] \in Items /\ p[2] \in Items /\ p = <<p[1], p[2]>>
    BY SMT DEF Pair
  <2> DEFINE j == [step |-> "move_photo", photo |-> p[1], video |-> p[2]]
  <2>3. /\ j \in [step : Steps, photo : Items \union {0}, video : Items \union {0}]
        /\ j.step = "move_photo" /\ j.photo \in Items /\ j.video \in Items
        /\ pairs[<<j.photo, j.video>>] # "no row"
    BY <2>1, <2>2 DEF Steps
  <2>4. job' = [job EXCEPT ![r] = j] /\ status' = status /\ reopened' = reopened
    BY <1>2, <2>1
  <2> HIDE DEF j
  <2> QED
    BY <1>0, <2>3, <2>4, SameStatus, JobStep
<1>3. CASE RejectSingle(r, i) /\ UNCHANGED fileVars
  <2>1. PICK j \in {NoJob, [step |-> "move", photo |-> i, video |-> 0]} : job' = [job EXCEPT ![r] = j]
    BY <1>3 DEF RejectSingle
  <2>2. /\ j \in [step : Steps, photo : Items \union {0}, video : Items \union {0}]
        /\ j.step \in {"idle", "move"}
    BY SMT DEF NoJob, Steps
  <2> QED
    BY <1>0, <1>3, <2>1, <2>2, SameStatus, JobStep DEF PairSteps
<1> QED
  BY <1>1, <1>2, <1>3 DEF Reject

-----------------------------------------------------------------------------

\* _move_to_rejected_folder writes no status, and its command goes on to a step
\* that has written nothing yet.
LEMMA MovePreserves ==
    ASSUME Inv, NEW r \in Rejecters, NEW i,
           \/ MoveToRejected(r, "move_photo", i, "move_video")
           \/ MoveToRejected(r, "move_video", i, "photo")
           \/ MoveToRejected(r, "move", i, "status")
    PROVE  Inv'
<1>1. pairs' = pairs /\ status' = status /\ reopened' = reopened
  BY DEF MoveToRejected, batchVars
<1>2. CASE EndReject(r)
  <2>1. /\ NoJob \in [step : Steps, photo : Items \union {0}, video : Items \union {0}]
        /\ NoJob.step = "idle"
    BY DEF NoJob, Steps
  <2> QED
    BY <1>1, <1>2, <2>1, SameStatus, JobStep DEF EndReject, PairSteps
<1>3. ASSUME NEW f \in {"move_photo", "move_video"}, NEW t \in {"move_video", "photo"},
             job[r].step = f, Goto(r, t)
      PROVE  Inv'
  <2> DEFINE j == [job[r] EXCEPT !.step = t]
  <2>1. /\ job[r].photo \in Items /\ job[r].video \in Items
        /\ pairs[<<job[r].photo, job[r].video>>] # "no row"
    BY <1>3 DEF Inv, JobIsPair, PairSteps
  <2>2. /\ j \in [step : Steps, photo : Items \union {0}, video : Items \union {0}]
        /\ j.step = t /\ j.photo = job[r].photo /\ j.video = job[r].video
    BY DEF Inv, Types, Steps
  <2>3. job' = [job EXCEPT ![r] = j]
    BY <1>3 DEF Goto, Inv, Types
  <2> HIDE DEF j
  <2> QED
    BY <1>1, <2>1, <2>2, <2>3, SameStatus, JobStep
<1>4. CASE job[r].step = "move" /\ Goto(r, "status")
  <2> DEFINE j == [job[r] EXCEPT !.step = "status"]
  <2>1. /\ j \in [step : Steps, photo : Items \union {0}, video : Items \union {0}]
        /\ j.step = "status"
    BY DEF Inv, Types, Steps
  <2>2. job' = [job EXCEPT ![r] = j]
    BY <1>4 DEF Goto, Inv, Types
  <2> HIDE DEF j
  <2> QED
    BY <1>1, <2>1, <2>2, SameStatus, JobStep DEF PairSteps
<1> QED
  BY <1>2, <1>3, <1>4 DEF MoveToRejected

\* transition_status makes a status final.
LEMMA TransitionIsFinal ==
    ASSUME Inv, NEW r, NEW from, NEW i, NEW to, TransitionStatus(r, from, i, to)
    PROVE  /\ pairs' = pairs
           /\ status' \in [Items -> Statuses] /\ reopened' \subseteq Items
           /\ \A k \in Items : Settled(k) => SettledNext(k)
           /\ i \in Items => SettledNext(i)
  BY DEF TransitionStatus, Inv, Types, Statuses, Settled, SettledNext

\* apply_live_photo_pair_status preserves the invariant: the pair's row is
\* written when both members' rows are.
LEMMA PairStatusPreserves ==
    ASSUME Inv, NEW r \in Rejecters, ApplyPairStatus(r)
    PROVE  Inv'
<1>1. CASE TransitionStatus(r, "photo", job[r].photo, "video")
  <2> DEFINE j == [job[r] EXCEPT !.step = "video"]
  <2>1. /\ job[r].photo \in Items /\ job[r].video \in Items
        /\ pairs[<<job[r].photo, job[r].video>>] # "no row"
    BY <1>1 DEF TransitionStatus, Inv, JobIsPair, PairSteps
  <2>2. /\ j \in [step : Steps, photo : Items \union {0}, video : Items \union {0}]
        /\ j.step = "video" /\ j.photo = job[r].photo /\ j.video = job[r].video
    BY DEF Inv, Types, Steps
  <2>3. job' = [job EXCEPT ![r] = j]
    BY <1>1 DEF TransitionStatus, Goto, Inv, Types
  <2> HIDE DEF j
  <2> QED
    BY <1>1, <2>1, <2>2, <2>3, TransitionIsFinal, JobStep
<1>2. CASE TransitionStatus(r, "video", job[r].video, "pair")
  <2> DEFINE j == [job[r] EXCEPT !.step = "pair"]
  <2>1. /\ job[r].photo \in Items /\ job[r].video \in Items /\ Settled(job[r].photo)
        /\ pairs[<<job[r].photo, job[r].video>>] # "no row"
    BY <1>2 DEF TransitionStatus, Inv, JobIsPair, JobInv, PairSteps
  <2>2. /\ j \in [step : Steps, photo : Items \union {0}, video : Items \union {0}]
        /\ j.step = "pair" /\ j.photo = job[r].photo /\ j.video = job[r].video
    BY DEF Inv, Types, Steps
  <2>3. job' = [job EXCEPT ![r] = j]
    BY <1>2 DEF TransitionStatus, Goto, Inv, Types
  <2> HIDE DEF j
  <2> QED
    BY <1>2, <2>1, <2>2, <2>3, TransitionIsFinal, JobStep
<1>3. CASE /\ job[r].step = "pair"
           /\ pairs' = [pairs EXCEPT ![<<job[r].photo, job[r].video>>] = "rejected"]
           /\ EndReject(r)
           /\ UNCHANGED fileVars
  <2>0. status' = status /\ reopened' = reopened
    BY <1>3 DEF fileVars
  <2>1. /\ job[r].photo \in Items /\ job[r].video \in Items
        /\ Settled(job[r].photo) /\ Settled(job[r].video)
    BY <1>3 DEF Inv, JobIsPair, JobInv, PairSteps
  <2>2. /\ NoJob \in [step : Steps, photo : Items \union {0}, video : Items \union {0}]
        /\ NoJob.step = "idle"
    BY DEF NoJob, Steps
  <2>3. Types'
    BY <1>3, <2>0, <2>1, <2>2 DEF Inv, Types, EndReject, Pair
  <2>4. \A q \in Rejecters : job'[q] = IF q = r THEN NoJob ELSE job[q]
    BY <1>3 DEF EndReject, Inv, Types
  <2>5. JobIsPair'
    <3>1. \A p \in Pair : pairs[p] # "no row" => pairs'[p] # "no row"
      BY <1>3 DEF Inv, Types
    <3>2. \A i, j \in Items : <<i, j>> \in Pair
      BY DEF Pair
    <3> QED
      BY <2>2, <2>4, <3>1, <3>2 DEF Inv, JobIsPair, PairSteps
  <2>6. JobInv'
    BY <2>0, <2>2, <2>4 DEF Inv, JobInv, Settled
  <2>7. RejectedPairIsRejected'
    <3> DEFINE it == <<job[r].photo, job[r].video>>
    <3>1. it \in Pair /\ it[1] = job[r].photo /\ it[2] = job[r].video
      BY <2>1 DEF Pair
    <3>2. \A p \in Pair : p # it => pairs'[p] = pairs[p]
      BY <1>3, <3>1 DEF Inv, Types
    <3> SUFFICES ASSUME NEW p \in Pair, pairs'[p] = "rejected"
                 PROVE  Settled(p[1]) /\ Settled(p[2])
      BY <2>0 DEF RejectedPairIsRejected, Settled
    <3>3. CASE p = it
      BY <2>1, <3>1, <3>3
    <3>4. CASE p # it
      BY <3>2, <3>4 DEF Inv, RejectedPairIsRejected
    <3> QED
      BY <3>3, <3>4
  <2> QED
    BY <2>3, <2>5, <2>6, <2>7 DEF Inv
<1> QED
  BY <1>1, <1>2, <1>3 DEF ApplyPairStatus

\* Every step of a reject command, and its death, preserve the invariant.
LEMMA RejectPreserves ==
    ASSUME Inv, NEW r \in Rejecters, RejectStep(r) \/ RejectDies(r)
    PROVE  Inv'
<1>0. /\ NoJob \in [step : Steps, photo : Items \union {0}, video : Items \union {0}]
      /\ NoJob.step = "idle"
  BY DEF NoJob, Steps
<1>1. CASE TransitionStatus(r, "status", job[r].photo, "idle")
  <2>1. job' = [job EXCEPT ![r] = NoJob]
    BY <1>1 DEF TransitionStatus, EndReject
  <2> QED
    BY <1>0, <1>1, <2>1, TransitionIsFinal, JobStep DEF PairSteps
<1>2. CASE RejectDies(r)
  BY <1>0, <1>2, SameStatus, JobStep DEF RejectDies, EndReject, fileVars, PairSteps
<1> QED
  BY <1>1, <1>2, MovePreserves, PairStatusPreserves DEF RejectStep

-----------------------------------------------------------------------------

\* Inv is an invariant.
LEMMA RejectionInvariance == Spec => []Inv
<1>1. Init => Inv
  <2> SUFFICES ASSUME Init PROVE Inv
    OBVIOUS
  <2>1. Types
    BY DEF Init, Types, Statuses, NoJob, Steps
  <2>2. JobIsPair /\ JobInv
    BY DEF Init, JobIsPair, JobInv, NoJob, PairSteps
  <2>3. RejectedPairIsRejected
    BY DEF Init, RejectedPairIsRejected
  <2> QED
    BY <2>1, <2>2, <2>3 DEF Inv
<1>2. Inv /\ [Next]_vars => Inv'
  <2> SUFFICES ASSUME Inv, [Next]_vars PROVE Inv'
    OBVIOUS
  <2>1. CASE \E i \in Items : \/ Accept(i) \/ Purge(i)
                              \/ \E s \in {"accepted", "rejected", "pending"} : Triage(i, s)
    BY <2>1, OtherCommands
  <2>2. CASE \E r \in Rejecters : RejectStep(r) \/ RejectDies(r) \/ \E i \in Items : Reject(r, i)
    BY <2>2, RejectPreserves, RejectBegins
  <2>3. CASE UNCHANGED vars
    BY <2>3, SameStatus, QuietStep DEF vars, fileVars, Inv, Types
  <2> QED
    BY <2>1, <2>2, <2>3, BatchStep DEF Next
<1> QED
  BY <1>1, <1>2, PTL DEF Spec

\* A pair that is recorded as rejected has no member that is not, but for those
\* that triage has taken back since: whatever the number of files, threads and
\* commands, and wherever batches and rejections overlap or die.
THEOREM PairRejection == Spec => []RejectedPairIsRejected
<1>1. Inv => RejectedPairIsRejected
  BY DEF Inv
<1> QED
  BY <1>1, RejectionInvariance, PTL

-----------------------------------------------------------------------------
(* Operators: the least of some numbers, list.remove and min *)

\* A set of numbers that is not empty has a least one.
LEMMA NatMin ==
    ASSUME NEW T \in SUBSET Nat, T # {}
    PROVE  \E n \in T : \A m \in T : n <= m
<1>1. PICK x \in T : \A y \in T : ~ (<<y, x>> \in OpToRel(<, Nat))
  BY NatLessThanWellFounded, WFMin
<1>2. \A y \in T : <<y, x>> \in OpToRel(<, Nat) <=> y < x
  BY DEF OpToRel
<1>3. \A y \in T : ~ (y < x)
  BY <1>1, <1>2
<1> QED
  BY <1>3, SMT

\* list.remove of a queue without duplicates: the element is gone, the others
\* stay.
LEMMA WithoutRemoves ==
    ASSUME NEW S, NEW s \in Seq(S), IsInjective(s), NEW k \in 1..Len(s)
    PROVE  /\ Without(s, k) \in Seq(S)
           /\ IsInjective(Without(s, k))
           /\ Range(Without(s, k)) = Range(s) \ {s[k]}
<1> DEFINE t == Without(s, k)
           u == SubSeq(s, 1, k - 1)
           v == SubSeq(s, k + 1, Len(s))
<1>u. u \in Seq(S) /\ Len(u) = k - 1 /\ \A n \in 1..(k - 1) : u[n] = s[n]
  BY SMT
<1>v. v \in Seq(S) /\ Len(v) = Len(s) - k /\ \A n \in 1..(Len(s) - k) : v[n] = s[k + n]
  <2>1. Len(v) = Len(s) - k
    BY SMT
  <2>2. \A n \in 1..(Len(s) - k) : v[n] = s[k + n]
    BY SMT
  <2> QED
    BY <2>1, <2>2, SMT
<1>t. t = u \o v
  BY DEF Without
<1> HIDE DEF t, u, v
<1>1. t \in Seq(S)
  BY <1>u, <1>v, <1>t, SMT
<1>2. Len(t) = Len(s) - 1
  <2>0. u \in Seq(S) /\ v \in Seq(S)
    BY <1>u, <1>v
  <2>1. Len(u \o v) = Len(u) + Len(v)
    BY <2>0, SMT
  <2>2. Len(s) \in Nat /\ k \in Nat
    BY SMT
  <2>3. Len(u) = k - 1 /\ Len(v) = Len(s) - k
    BY <1>u, <1>v
  <2>4. (k - 1) + (Len(s) - k) = Len(s) - 1
    BY <2>2, SMT
  <2> QED
    BY <2>1, <2>3, <2>4, <1>t
<1>3. \A n \in 1..Len(t) : t[n] = IF n < k THEN s[n] ELSE s[n + 1]
  <2> SUFFICES ASSUME NEW n \in 1..(Len(s) - 1) PROVE t[n] = IF n < k THEN s[n] ELSE s[n + 1]
    BY <1>2
  <2>1. t[n] = IF n <= Len(u) THEN u[n] ELSE v[n - Len(u)]
    BY <1>u, <1>v, <1>t, SMT
  <2>2. CASE n < k
    BY <2>1, <2>2, <1>u, SMT
  <2>3. CASE n >= k
    <3>1. n - Len(u) \in 1..(Len(s) - k) /\ k + (n - Len(u)) = n + 1
      BY <2>3, <1>u, SMT
    <3> QED
      BY <2>1, <2>3, <3>1, <1>u, <1>v, SMT
  <2> QED
    BY <2>2, <2>3, SMT
<1>4. IsInjective(t)
  <2>1. \A a, b \in 1..Len(s) : s[a] = s[b] => a = b
    BY SMT DEF IsInjective
  <2> SUFFICES ASSUME NEW a \in 1..Len(t), NEW b \in 1..Len(t), t[a] = t[b] PROVE a = b
    BY <1>1, SMT DEF IsInjective
  <2> QED
    BY <1>2, <1>3, <2>1, SMT
<1>5. Range(t) \subseteq Range(s) \ {s[k]}
  <2> SUFFICES ASSUME NEW n \in 1..Len(t) PROVE t[n] \in Range(s) /\ t[n] # s[k]
    BY <1>1, SMT DEF Range
  <2>1. \A a, b \in 1..Len(s) : s[a] = s[b] => a = b
    BY SMT DEF IsInjective
  <2>2. PICK m \in 1..Len(s) : t[n] = s[m] /\ m # k
    BY <1>2, <1>3, SMT
  <2> QED
    BY <2>1, <2>2, SMT DEF Range
<1>6. Range(s) \ {s[k]} \subseteq Range(t)
  <2> SUFFICES ASSUME NEW m \in 1..Len(s), m # k PROVE s[m] \in Range(t)
    BY SMT DEF Range
  <2>1. PICK n \in 1..Len(t) : t[n] = s[m]
    <3>1. CASE m < k
      <4>1. m \in 1..Len(t) /\ t[m] = s[m]
        BY <1>2, <1>3, <3>1, SMT
      <4> QED
        BY <4>1
    <3>2. CASE m > k
      <4>1. m - 1 \in 1..Len(t) /\ t[m - 1] = s[m]
        BY <1>2, <1>3, <3>2, SMT
      <4> QED
        BY <4>1
    <3> QED
      BY <3>1, <3>2, SMT
  <2> QED
    BY <1>1, <2>1, SMT DEF Range
<1> QED
  BY <1>1, <1>4, <1>5, <1>6 DEF t

\* min finds a counterpart where there is one.
LEMMA NearestIsEligible ==
    ASSUME queue \in Seq(Items), NEW i \in Items, Eligible(i) # {}
    PROVE  Nearest(i) \in Eligible(i)
<1>0. N \in Nat
  BY BatchPairsAssumption
<1> DEFINE E == Eligible(i)
           d(k) == Gap(i, queue[k])
<1>1. E \in SUBSET Nat /\ E \subseteq 1..Len(queue)
  BY SMT DEF Eligible
<1>2. \A k \in E : d(k) \in Nat
  BY <1>0, <1>1, SMT DEF Gap, Items
<1> HIDE DEF d, E
<1>3. PICK g \in {d(k) : k \in E} : \A m \in {d(k) : k \in E} : g <= m
  <2>1. {d(k) : k \in E} \in SUBSET Nat /\ {d(k) : k \in E} # {}
    BY <1>2 DEF E
  <2> QED
    BY <2>1, NatMin
<1>4. PICK k \in {l \in E : d(l) = g} : \A m \in {l \in E : d(l) = g} : k <= m
  <2>1. {l \in E : d(l) = g} \in SUBSET Nat /\ {l \in E : d(l) = g} # {}
    BY <1>1, <1>3
  <2> QED
    BY <2>1, NatMin
<1>5. \A l \in E : d(k) < d(l) \/ (d(k) = d(l) /\ k <= l)
  <2> SUFFICES ASSUME NEW l \in E PROVE d(k) < d(l) \/ (d(k) = d(l) /\ k <= l)
    OBVIOUS
  <2>1. d(k) = g /\ g <= d(l) /\ g \in Nat /\ d(l) \in Nat
    BY <1>2, <1>3, <1>4
  <2>2. d(l) = g => k <= l
    BY <1>4
  <2> QED
    BY <2>1, <2>2, SMT
<1>6. k \in Eligible(i) /\ \A l \in Eligible(i) :
        \/ Gap(i, queue[k]) < Gap(i, queue[l])
        \/ Gap(i, queue[k]) = Gap(i, queue[l]) /\ k <= l
  BY <1>4, <1>5 DEF E, d
<1> QED
  BY <1>6 DEF Nearest
-----------------------------------------------------------------------------

BatchTypes ==
    /\ batch \in Seq(Items) /\ IsInjective(batch)
    /\ events \in Seq([item : Items, sha : {"known", "none"}])
    /\ sha \in [Items -> {"open", "known", "none"}]
    /\ phase \in {"idle", "processing", "pair", "event", "return"}

\* The events so far are of the first candidates of the batch, with their
\* results, which nothing changes any more.
EventsInv ==
    /\ BatchTypes
    /\ Len(events) <= Len(batch)
    /\ \A k \in 1..Len(events) :
         events[k].item = batch[k] /\ events[k].sha = sha[batch[k]] /\ sha[batch[k]] # "open"
    /\ phase \in {"idle", "processing"} => events = <<>>
    /\ phase # "idle" => batch # <<>>
    /\ phase \in {"pair", "event"} =>
         Len(events) < Len(batch) /\ \A k \in 1..Len(batch) : sha[batch[k]] # "open"

\* The commands leave the batch alone.
LEMMA OutsideBatch ==
    ASSUME \/ \E i \in Items : Accept(i) \/ Purge(i) \/ \E s \in {"accepted", "rejected", "pending"} : Triage(i, s)
           \/ \E r \in Rejecters : RejectStep(r) \/ RejectDies(r) \/ \E i \in Items : Reject(r, i)
           \/ UNCHANGED vars
    PROVE  item' = item /\ batchVars' = batchVars
<1>1. \A i, s : Accept(i) \/ Purge(i) \/ Triage(i, s) => UNCHANGED <<item, batchVars>>
  BY DEF Accept, Purge, Triage
<1>2. \A r, f, i, t : MoveToRejected(r, f, i, t) \/ TransitionStatus(r, f, i, t) => UNCHANGED <<item, batchVars>>
  BY DEF MoveToRejected, TransitionStatus
<1>3. \A r : RejectStep(r) => UNCHANGED <<item, batchVars>>
  BY <1>2 DEF RejectStep, ApplyPairStatus
<1>4. \A r, i : RejectDies(r) \/ Reject(r, i) => UNCHANGED <<item, batchVars>>
  BY DEF RejectDies, Reject
<1>5. CASE UNCHANGED vars
  BY <1>5 DEF vars
<1> QED
  BY <1>1, <1>3, <1>4, <1>5

\* A batch that begins or ends has no events.
LEMMA ResetKeeps ==
    ASSUME NEW b \in Batches \union {<<>>}, ResetBatch(b), phase' \in {"idle", "processing"},
           b = <<>> => phase' = "idle"
    PROVE  EventsInv'
<1>1. b \in Seq(Items) /\ IsInjective(b)
  <2>1. CASE b = <<>>
    BY <2>1, SMT DEF IsInjective
  <2>2. ASSUME NEW n \in 1..N, b \in [1..n -> Items] PROVE b \in Seq(Items)
    <3>1. n \in Nat
      BY BatchPairsAssumption, SMT
    <3> QED
      BY <2>2, <3>1, SMT
  <2> QED
    BY <2>1, <2>2 DEF Batches
<1>2. BatchTypes'
  BY <1>1, SMT DEF ResetBatch, BatchTypes
<1>3. events' = <<>> /\ batch' = b
  BY DEF ResetBatch
<1>4. Len(events') = 0 /\ Len(batch') \in Nat
  BY <1>1, <1>3, SMT
<1> QED
  BY <1>2, <1>3, <1>4, SMT DEF EventsInv

\* A thread that ends belongs to a candidate that was open.
LEMMA ThreadKeeps ==
    ASSUME EventsInv, NEW i \in Items, NEW s \in {"known", "none"}, ThreadEnds(i, s)
    PROVE  EventsInv'
<1>1. phase = "processing" /\ phase' = phase /\ batch' = batch /\ events' = events
  BY DEF ThreadEnds
<1>2. events' = <<>> /\ Len(events') = 0
  BY <1>1 DEF EventsInv
<1>3. sha' \in [Items -> {"open", "known", "none"}]
  BY DEF ThreadEnds, EventsInv, BatchTypes
<1>4. BatchTypes'
  BY <1>1, <1>3 DEF EventsInv, BatchTypes
<1> QED
  BY <1>1, <1>2, <1>4, SMT DEF EventsInv

\* The results are recorded when no candidate is open.
LEMMA AllProcessedKeeps ==
    ASSUME EventsInv, AllProcessed
    PROVE  EventsInv'
<1>1. /\ phase = "processing" /\ phase' \in {"return", "pair"}
      /\ batch' = batch /\ events' = events /\ sha' = sha
      /\ phase' = "pair" => \A i \in Range(batch) : sha[i] # "open"
  BY DEF AllProcessed, BrokenOff
<1>2. BatchTypes'
  BY <1>1 DEF EventsInv, BatchTypes
<1>3. events = <<>> /\ batch # <<>> /\ batch \in Seq(Items)
  BY <1>1 DEF EventsInv, BatchTypes
<1>4. Len(events) = 0 /\ Len(events) < Len(batch)
  BY <1>3, SMT
<1>5. phase' = "pair" => \A k \in 1..Len(batch) : sha[batch[k]] # "open"
  BY <1>1, <1>3, SMT DEF Range
<1> QED
  BY <1>1, <1>2, <1>4, <1>5 DEF EventsInv

\* append_ingest_terminal_event is about the next candidate.
LEMMA AppendKeeps ==
    ASSUME EventsInv, NEW i \in Items, AppendTerminalEvent(i)
    PROVE  EventsInv'
<1> DEFINE e == [item |-> i, sha |-> sha[i]]
           n == Len(events)
<1>1. /\ phase = "event" /\ phase' = IF n + 1 = Len(batch) THEN "return" ELSE "pair"
      /\ i = batch[n + 1] /\ n < Len(batch)
      /\ batch' = batch /\ events' = Append(events, e) /\ sha' = sha
  BY DEF AppendTerminalEvent, IsNext, RecordOrder
<1>2. n \in Nat /\ Len(batch) \in Nat /\ n + 1 \in 1..Len(batch)
  BY <1>1, SMT DEF EventsInv, BatchTypes
<1>3. \A k \in 1..Len(batch) : sha[batch[k]] # "open"
  BY <1>1 DEF EventsInv
<1>4. e \in [item : Items, sha : {"known", "none"}] /\ e.item = i /\ e.sha = sha[i]
  BY <1>1, <1>2, <1>3 DEF EventsInv, BatchTypes
<1>5. BatchTypes'
  BY <1>1, <1>4, SMT DEF EventsInv, BatchTypes
<1>6. Len(events') = n + 1 /\ \A k \in 1..(n + 1) : events'[k] = IF k = n + 1 THEN e ELSE events[k]
  BY <1>1, SMT DEF EventsInv, BatchTypes
<1>7. \A k \in 1..Len(events') :
        events'[k].item = batch[k] /\ events'[k].sha = sha[batch[k]] /\ sha[batch[k]] # "open"
  <2> SUFFICES ASSUME NEW k \in 1..(n + 1)
               PROVE events'[k].item = batch[k] /\ events'[k].sha = sha[batch[k]] /\ sha[batch[k]] # "open"
    BY <1>6
  <2>1. CASE k = n + 1
    BY <2>1, <1>1, <1>2, <1>3, <1>4, <1>6
  <2>2. CASE k # n + 1
    <3>1. k \in 1..n
      BY <2>2, <1>2, SMT
    <3> QED
      BY <2>2, <3>1, <1>6 DEF EventsInv
  <2> QED
    BY <2>1, <2>2
<1>8. Len(events') <= Len(batch) /\ (phase' = "pair" => Len(events') < Len(batch)) /\ phase' \in {"pair", "return"}
  BY <1>1, <1>2, <1>6, SMT
<1>9. batch # <<>>
  BY <1>1 DEF EventsInv
<1> HIDE DEF n, e
<1> QED
  BY <1>1, <1>3, <1>5, <1>7, <1>8, <1>9 DEF EventsInv

\* EventsInv is an invariant.
LEMMA EventsInvariance == Spec => []EventsInv
<1>1. Init => EventsInv
  <2> SUFFICES ASSUME Init PROVE EventsInv
    OBVIOUS
  <2>1. batch = <<>> /\ events = <<>> /\ phase = "idle" /\ sha = [i \in Items |-> "open"]
    BY DEF Init
  <2>2. Len(events) = 0 /\ Len(batch) = 0 /\ batch \in Seq(Items) /\ IsInjective(batch)
    BY <2>1, SMT DEF IsInjective
  <2> QED
    BY <2>1, <2>2, SMT DEF EventsInv, BatchTypes
<1>2. EventsInv /\ [Next]_vars => EventsInv'
  <2> SUFFICES ASSUME EventsInv, [Next]_vars PROVE EventsInv'
    OBVIOUS
  <2>1. ASSUME batchVars' = batchVars PROVE EventsInv'
    BY <2>1 DEF EventsInv, BatchTypes, batchVars
  <2>2. CASE \/ \E i \in Items : Accept(i) \/ Purge(i) \/ \E s \in {"accepted", "rejected", "pending"} : Triage(i, s)
             \/ \E r \in Rejecters : RejectStep(r) \/ RejectDies(r) \/ \E i \in Items : Reject(r, i)
             \/ UNCHANGED vars
    BY <2>1, <2>2, OutsideBatch
  <2>3. ASSUME NEW b \in Batches, BatchBegins(b) PROVE EventsInv'
    <3>1. b # <<>>
      BY SMT DEF Batches
    <3> QED
      BY <2>3, <3>1, ResetKeeps DEF BatchBegins
  <2>4. CASE BatchReturns \/ BatchDies
    BY <2>4, ResetKeeps DEF BatchReturns, BatchDies
  <2>5. ASSUME NEW i \in Items, Processed(i) \/ NotProcessed(i) PROVE EventsInv'
    BY <2>5, ThreadKeeps DEF Processed, NotProcessed
  <2>6. ASSUME NEW i \in Items, IngestIntoQueue(i) PROVE EventsInv'
    <3>1. phase = "pair" /\ phase' = "event" /\ batch' = batch /\ events' = events /\ sha' = sha
      BY <2>6 DEF IngestIntoQueue
    <3> QED
      BY <3>1 DEF EventsInv, BatchTypes
  <2> QED
    BY <2>2, <2>3, <2>4, <2>5, <2>6, AllProcessedKeeps, AppendKeeps DEF Next
<1> QED
  BY <1>1, <1>2, PTL DEF Spec

\* The terminal events tell the candidates in their order.
THEOREM EventsAreInOrder == Spec => []EventsFollowBatch
<1>1. EventsInv => EventsFollowBatch
  <2> SUFFICES ASSUME EventsInv PROVE EventsFollowBatch
    OBVIOUS
  <2>1. DOMAIN events = 1..Len(events) /\ DOMAIN batch = 1..Len(batch)
    BY SMT DEF EventsInv, BatchTypes
  <2>2. 1..Len(events) \subseteq 1..Len(batch)
    BY SMT DEF EventsInv, BatchTypes
  <2> QED
    BY <2>1, <2>2 DEF EventsFollowBatch, EventsInv
<1> QED
  BY <1>1, EventsInvariance, PTL
-----------------------------------------------------------------------------

\* The candidates the pair queue has seen
Seen == {batch[k] : k \in 1..(IF phase = "event" THEN Len(events) + 1 ELSE Len(events))}

\* What waits and what is paired has been seen: a newcomer is neither.
PairingInv ==
    /\ queue \in Seq(Items) /\ IsInjective(queue)
    /\ formed \subseteq Pair
    /\ Range(queue) \subseteq Seen
    /\ \A p \in formed : {p[1], p[2]} \subseteq Seen
    /\ PairingIsComplete

\* A candidate whose turn it is has not been seen.
LEMMA NewcomerIsNew ==
    ASSUME EventsInv, NEW i \in Items, IngestIntoQueue(i)
    PROVE  i \notin Seen /\ Seen' = Seen \union {i}
<1> DEFINE n == Len(events)
<1>1. /\ phase = "pair" /\ phase' = "event" /\ batch' = batch /\ events' = events
      /\ i = batch[n + 1] /\ n < Len(batch)
  BY DEF IngestIntoQueue, IsNext, RecordOrder
<1>2. n \in Nat /\ Len(batch) \in Nat /\ DOMAIN batch = 1..Len(batch)
  BY SMT DEF EventsInv, BatchTypes
<1>3. \A k \in 1..n : batch[k] # batch[n + 1]
  <2>1. \A a, b \in 1..Len(batch) : batch[a] = batch[b] => a = b
    BY <1>2 DEF EventsInv, BatchTypes, IsInjective
  <2> QED
    BY <1>1, <1>2, <2>1, SMT
<1>4. Seen = {batch[k] : k \in 1..n} /\ Seen' = {batch[k] : k \in 1..(n + 1)}
  BY <1>1 DEF Seen
<1>5. 1..(n + 1) = (1..n) \union {n + 1}
  BY <1>2, SMT
<1> HIDE DEF n
<1> QED
  BY <1>1, <1>3, <1>4, <1>5

\* To be counterparts is mutual, and between two files.
LEMMA CounterpartsAreTwo ==
    /\ \A i, j \in Items : Counterparts(i, j) => Counterparts(j, i)
    /\ \A i : ~ Counterparts(i, i)
<1>1. \A i, j \in Items : Gap(i, j) = Gap(j, i)
  BY BatchPairsAssumption, SMT DEF Gap, Items
<1>2. \A i, j : {item[i].kind, item[j].kind} = {item[j].kind, item[i].kind}
  OBVIOUS
<1>3. ASSUME NEW i, NEW j, i \in Items, j \in Items, Counterparts(i, j) PROVE Counterparts(j, i)
  BY <1>1, <1>2, <1>3 DEF Counterparts
<1>4. \A i : ~ Counterparts(i, i)
  BY SMT DEF Counterparts
<1> QED
  BY <1>3, <1>4

\* The newcomer waits: nothing in the queue is its counterpart.
LEMMA WaitingKeeps ==
    ASSUME EventsInv, PairingInv, NEW i \in Items, IngestIntoQueue(i), item' = item,
           Eligible(i) = {}, queue' = Append(queue, i), formed' = formed
    PROVE  PairingInv'
<1>1. i \notin Seen /\ Seen' = Seen \union {i}
  BY NewcomerIsNew
<1>2. Range(queue') = Range(queue) \union {i} /\ queue' \in Seq(Items)
  <2>1. queue \in Seq(Items)
    BY DEF PairingInv
  <2>2. DOMAIN queue' = DOMAIN queue \union {Len(queue) + 1} /\ queue' \in Seq(Items)
    BY <2>1, SMT
  <2>3. \A k \in DOMAIN queue : queue'[k] = queue[k]
    BY <2>1, SMT
  <2>4. queue'[Len(queue) + 1] = i
    BY <2>1, SMT
  <2> QED
    BY <2>2, <2>3, <2>4, SMT DEF Range
<1>3. IsInjective(queue')
  <2>1. queue \in Seq(Items) /\ Len(queue) \in Nat
    BY SMT DEF PairingInv
  <2>2. \A a, b \in 1..Len(queue) : queue[a] = queue[b] => a = b
    BY <2>1, SMT DEF PairingInv, IsInjective
  <2>3. \A k \in 1..Len(queue) : queue[k] # i
    BY <1>1, <2>1, SMT DEF PairingInv, Range
  <2>4. DOMAIN queue' = 1..(Len(queue) + 1)
    BY <2>1, SMT
  <2>5. \A k \in 1..(Len(queue) + 1) : queue'[k] = IF k = Len(queue) + 1 THEN i ELSE queue[k]
    BY <2>1, SMT
  <2> SUFFICES ASSUME NEW a \in 1..(Len(queue) + 1), NEW b \in 1..(Len(queue) + 1), queue'[a] = queue'[b]
               PROVE  a = b
    BY <2>4 DEF IsInjective
  <2> QED
    BY <2>1, <2>2, <2>3, <2>5, SMT
<1>4. \A j \in Range(queue) : ~ Counterparts(i, j) /\ j \in Items
  <2> SUFFICES ASSUME NEW k \in DOMAIN queue PROVE ~ Counterparts(i, queue[k]) /\ queue[k] \in Items
    BY DEF Range
  <2>1. k \notin Eligible(i)
    OBVIOUS
  <2>2. queue[k] \in Items
    BY SMT DEF PairingInv
  <2> QED
    BY <2>1, <2>2 DEF Eligible, Counterparts, WithinTolerance
<1>5. \A a, b \in Range(queue') : ~ Counterparts(a, b)
  <2> SUFFICES ASSUME NEW a \in Range(queue) \union {i}, NEW b \in Range(queue) \union {i} PROVE ~ Counterparts(a, b)
    BY <1>2
  <2>1. CASE a = i
    BY <2>1, <1>4, CounterpartsAreTwo
  <2>2. CASE b = i
    BY <2>2, <1>4, CounterpartsAreTwo
  <2>3. CASE a \in Range(queue) /\ b \in Range(queue)
    BY <2>3 DEF PairingInv, PairingIsComplete
  <2> QED
    BY <2>1, <2>2, <2>3
<1>6. (\A a, b \in Range(queue) : ~ Counterparts(a, b))'
  BY <1>5 DEF Counterparts, Gap
<1>7. \A p \in formed : {p[1], p[2]} \intersect Range(queue') = {}
  <2>1. \A p \in formed : i \notin {p[1], p[2]}
    BY <1>1 DEF PairingInv
  <2> QED
    BY <1>2, <2>1 DEF PairingInv, PairingIsComplete
<1>8. PairingIsComplete'
  BY <1>6, <1>7 DEF PairingInv, PairingIsComplete
<1>9. formed' \subseteq Pair' /\ Range(queue') \subseteq Seen' /\ \A p \in formed' : {p[1], p[2]} \subseteq Seen'
  BY <1>1, <1>2 DEF PairingInv, Pair
<1> QED
  BY <1>2, <1>3, <1>8, <1>9 DEF PairingInv

\* The newcomer and the candidate it finds become a pair and wait no longer.
LEMMA PairingKeeps ==
    ASSUME EventsInv, PairingInv, NEW i \in Items, IngestIntoQueue(i), item' = item,
           NEW k \in DOMAIN queue, queue' = Without(queue, k),
           formed' = formed \union {AsPair(i, queue[k])}
    PROVE  PairingInv'
<1> DEFINE j == queue[k]
           p == AsPair(i, j)
<1>1. i \notin Seen /\ Seen' = Seen \union {i}
  BY NewcomerIsNew
<1>2. queue' \in Seq(Items) /\ IsInjective(queue') /\ Range(queue') = Range(queue) \ {j}
  <2>1. queue \in Seq(Items) /\ IsInjective(queue) /\ k \in 1..Len(queue)
    BY SMT DEF PairingInv
  <2> QED
    BY <2>1, WithoutRemoves
<1>3. j \in Items /\ j \in Range(queue) /\ j \in Seen
  BY SMT DEF PairingInv, Range
<1>4. p \in Pair /\ {p[1], p[2]} = {i, j}
  BY <1>3 DEF AsPair, Pair
<1> HIDE DEF j, p
<1>5. formed' = formed \union {p}
  BY DEF p, j
<1>6. \A q \in formed : i \notin {q[1], q[2]} /\ j \notin {q[1], q[2]}
  BY <1>1, <1>3 DEF PairingInv, PairingIsComplete
<1>7. \A q \in formed : {q[1], q[2]} \intersect {p[1], p[2]} = {}
  BY <1>4, <1>6
<1>8. \A q, r \in formed' : q # r => {q[1], q[2]} \intersect {r[1], r[2]} = {}
  BY <1>5, <1>7 DEF PairingInv, PairingIsComplete
<1>9. i \notin Range(queue)
  BY <1>1 DEF PairingInv
<1>10. \A q \in formed' : {q[1], q[2]} \intersect Range(queue') = {}
  <2>1. \A q \in formed : {q[1], q[2]} \intersect Range(queue') = {}
    BY <1>2 DEF PairingInv, PairingIsComplete
  <2>2. {p[1], p[2]} \intersect Range(queue') = {}
    BY <1>2, <1>4, <1>9
  <2> QED
    BY <1>5, <2>1, <2>2
<1>11. (\A a, b \in Range(queue) : ~ Counterparts(a, b))'
  BY <1>2 DEF PairingInv, PairingIsComplete, Counterparts, Gap
<1>12. PairingIsComplete'
  BY <1>8, <1>10, <1>11 DEF PairingIsComplete
<1>13. formed' \subseteq Pair' /\ Range(queue') \subseteq Seen'
  BY <1>1, <1>2, <1>4, <1>5 DEF PairingInv, Pair
<1>14. \A q \in formed' : {q[1], q[2]} \subseteq Seen'
  BY <1>1, <1>3, <1>4, <1>5 DEF PairingInv
<1> QED
  BY <1>2, <1>12, <1>13, <1>14 DEF PairingInv

\* DeferredPairQueue.ingest keeps it.
LEMMA IngestKeeps ==
    ASSUME EventsInv, PairingInv, NEW i \in Items, IngestIntoQueue(i)
    PROVE  PairingInv'
<1>1. item' = item
  BY DEF IngestIntoQueue
<1>2. Seen' = Seen \union {i}
  BY NewcomerIsNew
<1>3. CASE UNCHANGED <<queue, formed>>
  <2>1. PairingIsComplete'
    BY <1>1, <1>3 DEF PairingInv, PairingIsComplete, Counterparts, Gap
  <2> QED
    BY <1>2, <1>3, <2>1 DEF PairingInv, Pair
<1>4. CASE Eligible(i) = {} /\ queue' = Append(queue, i) /\ formed' = formed
  BY <1>1, <1>4, WaitingKeeps
<1>5. CASE /\ Eligible(i) # {} /\ queue' = Without(queue, Nearest(i))
           /\ formed' = formed \union {AsPair(i, queue[Nearest(i)])}
  <2>1. Nearest(i) \in DOMAIN queue
    <3>1. Nearest(i) \in Eligible(i)
      BY <1>5, NearestIsEligible DEF PairingInv
    <3> QED
      BY <3>1 DEF Eligible
  <2> QED
    BY <1>1, <1>5, <2>1, PairingKeeps
<1> QED
  BY <1>3, <1>4, <1>5 DEF IngestIntoQueue

\* PairingInv is an invariant.
LEMMA PairingInvariance == Spec => []PairingInv
<1>0. ASSUME queue = <<>>, formed = {} PROVE PairingInv
  BY <1>0, SMT DEF PairingInv, PairingIsComplete, Range, IsInjective
<1>1. Init => PairingInv
  BY <1>0 DEF Init
<1>2. EventsInv /\ EventsInv' /\ PairingInv /\ [Next]_vars => PairingInv'
  <2> SUFFICES ASSUME EventsInv, EventsInv', PairingInv, [Next]_vars PROVE PairingInv'
    OBVIOUS
  <2>0. ASSUME queue' = queue, formed' = formed, item' = item, Seen' = Seen PROVE PairingInv'
    <3>1. PairingIsComplete'
      BY <2>0 DEF PairingInv, PairingIsComplete, Counterparts, Gap
    <3> QED
      BY <2>0, <3>1 DEF PairingInv, Pair
  <2>1. ASSUME NEW b, ResetBatch(b) PROVE PairingInv'
    <3>1. queue' = <<>> /\ formed' = {}
      BY <2>1 DEF ResetBatch
    <3> QED
      BY <3>1, SMT DEF PairingInv, PairingIsComplete, Range, IsInjective
  <2>2. CASE \/ \E i \in Items : Accept(i) \/ Purge(i) \/ \E s \in {"accepted", "rejected", "pending"} : Triage(i, s)
             \/ \E r \in Rejecters : RejectStep(r) \/ RejectDies(r) \/ \E i \in Items : Reject(r, i)
             \/ UNCHANGED vars
    <3>1. item' = item /\ batchVars' = batchVars
      BY <2>2, OutsideBatch
    <3> QED
      BY <2>0, <3>1 DEF batchVars, Seen
  <2>3. CASE (\E b \in Batches : BatchBegins(b)) \/ BatchReturns \/ BatchDies
    BY <2>1, <2>3 DEF BatchBegins, BatchReturns, BatchDies
  <2>4. CASE (\E i \in Items : Processed(i) \/ NotProcessed(i)) \/ AllProcessed
    <3>1. UNCHANGED <<queue, formed, item, batch, events>> /\ phase # "event" /\ phase' # "event"
      BY <2>4 DEF Processed, NotProcessed, ThreadEnds, AllProcessed
    <3> QED
      BY <2>0, <3>1 DEF Seen
  <2>5. ASSUME NEW i \in Items, AppendTerminalEvent(i) PROVE PairingInv'
    <3>1. UNCHANGED <<queue, formed, item, batch>> /\ phase = "event" /\ phase' # "event"
      BY <2>5 DEF AppendTerminalEvent
    <3>2. Len(events') = Len(events) + 1
      BY <2>5, SMT DEF AppendTerminalEvent, EventsInv, BatchTypes
    <3> QED
      BY <2>0, <3>1, <3>2 DEF Seen
  <2> QED
    BY <2>2, <2>3, <2>4, <2>5, IngestKeeps DEF Next
<1> QED
  BY <1>1, <1>2, EventsInvariance, PTL DEF Spec

\* DeferredPairQueue finds a partner whatever the order of the batch: two files
\* that belong together never both wait, and no file is in two pairs.
THEOREM PairingCompleteness == Spec => []PairingIsComplete
<1>1. PairingInv => PairingIsComplete
  BY DEF PairingInv
<1> QED
  BY <1>1, PairingInvariance, PTL

-----------------------------------------------------------------------------
(* Types *)

\* What the other invariants do not say of the types: in a row of
\* live_photo_pairs the photo is a photo and the video a video, whichever of
\* them came first.
RestTypes ==
    /\ item \in [Items -> [kind : {"photo", "video", "other"}, stem : Stems]]
    /\ raised \in BOOLEAN
    /\ place \in [Items -> {"nowhere", "pending", "accepted", "rejected"}]
    /\ \A p \in Pair : pairs[p] # "no row" => item[p[1]].kind = "photo" /\ item[p[2]].kind = "video"
    /\ commands \in 0..MaxCommands /\ faults \in 0..MaxFaults

\* Counters stay within their bounds.
LEMMA CountersKeep ==
    ASSUME RestTypes, Next
    PROVE  commands' \in 0..MaxCommands /\ faults' \in 0..MaxFaults
<1>0. MaxCommands \in Nat /\ MaxFaults \in Nat
  BY BatchPairsAssumption
<1>1. commands' = commands \/ (commands < MaxCommands /\ commands' = commands + 1)
  BY DEF Next, BatchBegins, Processed, NotProcessed, ThreadEnds, IngestIntoQueue, AppendTerminalEvent,
         Accept, Purge, Triage, AllProcessed, BatchReturns, BatchDies, RejectStep, ApplyPairStatus, MoveToRejected,
         TransitionStatus, RejectDies, Reject
<1>2. faults' = faults \/ (faults < MaxFaults /\ faults' = faults + 1)
  BY DEF Next, BatchBegins, Processed, NotProcessed, ThreadEnds, IngestIntoQueue, AppendTerminalEvent,
         Accept, Purge, Triage, AllProcessed, BatchReturns, BatchDies, RejectStep, ApplyPairStatus, MoveToRejected,
         TransitionStatus, RejectDies, Reject
<1>3. commands \in 0..MaxCommands /\ faults \in 0..MaxFaults
  BY DEF RestTypes
<1>4. commands' \in 0..MaxCommands
  BY <1>0, <1>1, <1>3, SMT
<1>5. faults' \in 0..MaxFaults
  BY <1>0, <1>2, <1>3, SMT
<1> QED
  BY <1>4, <1>5

\* No step leaves a file in an unknown place or renames an item.
LEMMA PlacesKeep ==
    ASSUME RestTypes, Next
    PROVE  /\ item' = item
           /\ raised' \in BOOLEAN
           /\ place' \in [Items -> {"nowhere", "pending", "accepted", "rejected"}]
<1> DEFINE Places == {"nowhere", "pending", "accepted", "rejected"}
<1>1. item' = item
  BY DEF Next, BatchBegins, Processed, NotProcessed, ThreadEnds, IngestIntoQueue, AppendTerminalEvent,
         Accept, Purge, Triage, AllProcessed, BatchReturns, BatchDies, RejectStep, ApplyPairStatus, MoveToRejected,
         TransitionStatus, RejectDies, Reject
<1>2. raised' \in {raised, TRUE, FALSE}
  BY DEF Next, BatchBegins, Processed, NotProcessed, ThreadEnds, IngestIntoQueue, AppendTerminalEvent,
         Accept, Purge, Triage, AllProcessed, BatchReturns, BatchDies, RejectStep, ApplyPairStatus, MoveToRejected,
         TransitionStatus, RejectDies, Reject, ResetBatch, batchVars
<1>3. place' = place \/ \E i, q : q \in Places /\ place' = [place EXCEPT ![i] = q]
  <2>1. \A i, s : Processed(i) \/ Accept(i) \/ Purge(i) \/ Triage(i, s) =>
          place' = place \/ \E q \in Places : place' = [place EXCEPT ![i] = q]
    BY DEF Processed, Accept, Purge, Triage, fileVars
  <2>2. \A r, f, i, t : MoveToRejected(r, f, i, t) \/ TransitionStatus(r, f, i, t) =>
          place' = place \/ \E q \in Places : place' = [place EXCEPT ![i] = q]
    BY DEF MoveToRejected, TransitionStatus
  <2>3. \A r \in Rejecters : RejectStep(r) => place' = place \/ \E i, q : q \in Places /\ place' = [place EXCEPT ![i] = q]
    BY <2>2 DEF RejectStep, ApplyPairStatus, fileVars
  <2>4. \A r, i : Reject(r, i) => place' = place \/ \E q \in Places : place' = [place EXCEPT ![i] = q]
    BY DEF Reject, RejectUnknown, fileVars
  <2>5. \A i : NotProcessed(i) \/ IngestIntoQueue(i) \/ AppendTerminalEvent(i) => place' = place
    BY DEF NotProcessed, IngestIntoQueue, AppendTerminalEvent, fileVars
  <2>6. (\A b : BatchBegins(b) => place' = place) /\ (\A r : RejectDies(r) => place' = place)
    BY DEF BatchBegins, RejectDies, fileVars
  <2>7. AllProcessed \/ BatchReturns \/ BatchDies => place' = place
    BY DEF AllProcessed, BatchReturns, BatchDies, fileVars
  <2> HIDE DEF Places
  <2> QED
    BY <2>1, <2>3, <2>4, <2>5, <2>6, <2>7 DEF Next
<1>4. place' \in [Items -> Places]
  BY <1>3 DEF RestTypes
<1> QED
  BY <1>1, <1>2, <1>4 DEF RestTypes

\* The pair of two counterparts names the photo first.
LEMMA PairIsOriented ==
    ASSUME RestTypes, queue \in Seq(Items), NEW i \in Items, NEW k \in Eligible(i), NEW p, p = AsPair(i, queue[k])
    PROVE  p \in Pair /\ item[p[1]].kind = "photo" /\ item[p[2]].kind = "video"
<1> DEFINE j == queue[k]
<1>1. j \in Items
  BY SMT DEF Eligible
<1>2. {item[i].kind, item[j].kind} = {"photo", "video"}
  BY DEF Eligible
<1> HIDE DEF j
<1>3. CASE item[i].kind = "photo"
  <2>1. p = <<i, j>> /\ item[j].kind = "video"
    BY <1>2, <1>3 DEF AsPair, j
  <2> QED
    BY <1>1, <1>3, <2>1, SMT DEF Pair
<1>4. CASE item[i].kind # "photo"
  <2>1. p = <<j, i>> /\ item[j].kind = "photo" /\ item[i].kind = "video"
    BY <1>2, <1>4 DEF AsPair, j
  <2> QED
    BY <1>1, <2>1, SMT DEF Pair
<1> QED
  BY <1>3, <1>4

\* upsert_live_photo_pair and apply_live_photo_pair_status keep the kinds of the
\* members.
LEMMA KindsKeep ==
    ASSUME Inv, PairingInv, RestTypes, Next
    PROVE  \A p \in Pair : pairs'[p] # "no row" => item[p[1]].kind = "photo" /\ item[p[2]].kind = "video"
<1> DEFINE Right(p) == item[p[1]].kind = "photo" /\ item[p[2]].kind = "video"
<1>1. ASSUME NEW i \in Items, IngestIntoQueue(i)
      PROVE  pairs' = pairs \/ \E p \in Pair : Right(p) /\ pairs' = [pairs EXCEPT ![p] = "paired"]
  <2>1. CASE UNCHANGED pairs
    BY <2>1
  <2>2. CASE Eligible(i) # {} /\ Upsert(AsPair(i, queue[Nearest(i)]))
    <3>1. Nearest(i) \in Eligible(i)
      BY <2>2, NearestIsEligible DEF PairingInv
    <3>2. AsPair(i, queue[Nearest(i)]) \in Pair /\ Right(AsPair(i, queue[Nearest(i)]))
      BY <3>1, PairIsOriented DEF PairingInv
    <3> QED
      BY <2>2, <3>2 DEF Upsert
  <2> QED
    BY <1>1, <2>1, <2>2 DEF IngestIntoQueue
<1>2. ASSUME NEW r \in Rejecters, RejectStep(r)
      PROVE  pairs' = pairs \/ \E p \in Pair : pairs[p] # "no row" /\ pairs' = [pairs EXCEPT ![p] = "rejected"]
  <2>1. \A f, i, t : MoveToRejected(r, f, i, t) \/ TransitionStatus(r, f, i, t) => pairs' = pairs
    BY DEF MoveToRejected, TransitionStatus
  <2> DEFINE it == <<job[r].photo, job[r].video>>
  <2>2. job[r].step = "pair" => pairs[it] # "no row" /\ it \in Pair
    BY DEF Inv, JobIsPair, PairSteps, Pair
  <2> HIDE DEF it
  <2>3. CASE job[r].step = "pair" /\ pairs' = [pairs EXCEPT ![it] = "rejected"]
    BY <2>2, <2>3
  <2> QED
    BY <1>2, <2>1, <2>3 DEF RejectStep, ApplyPairStatus, it
<1>3. /\ \A b : BatchBegins(b) => pairs' = pairs
      /\ \A i : Processed(i) \/ NotProcessed(i) \/ AppendTerminalEvent(i) => pairs' = pairs
      /\ \A i, s : Accept(i) \/ Purge(i) \/ Triage(i, s) => pairs' = pairs
      /\ AllProcessed \/ BatchReturns \/ BatchDies => pairs' = pairs
      /\ \A r, i : RejectDies(r) \/ Reject(r, i) => pairs' = pairs
  BY DEF BatchBegins, Processed, NotProcessed, ThreadEnds, AppendTerminalEvent, Accept, Purge, Triage,
         AllProcessed, BatchReturns, BatchDies, RejectDies, Reject
<1>4. \/ pairs' = pairs
      \/ \E p \in Pair : Right(p) /\ pairs' = [pairs EXCEPT ![p] = "paired"]
      \/ \E p \in Pair : pairs[p] # "no row" /\ pairs' = [pairs EXCEPT ![p] = "rejected"]
  <2> HIDE DEF Right
  <2>1. CASE \E i \in Items : IngestIntoQueue(i)
    BY <1>1, <2>1
  <2>2. CASE \E r \in Rejecters : RejectStep(r)
    BY <1>2, <2>2
  <2>3. CASE ~ (\E i \in Items : IngestIntoQueue(i)) /\ ~ (\E r \in Rejecters : RejectStep(r))
    BY <1>3, <2>3 DEF Next
  <2> QED
    BY <2>1, <2>2, <2>3
<1>5. \A p \in Pair : pairs[p] # "no row" => Right(p)
  BY DEF RestTypes
<1> HIDE DEF Right
<1>6. \A p \in Pair : pairs'[p] # "no row" => Right(p)
  BY <1>4, <1>5 DEF Inv, Types
<1> QED
  BY <1>6 DEF Right

\* Types are kept; of a pair's row, the photo is a photo and the video a video.
THEOREM BatchTypeCorrectness == Spec => []TypeOK
<1>1. Init => RestTypes
  <2> SUFFICES ASSUME Init PROVE RestTypes
    OBVIOUS
  <2>0. commands = 0 /\ faults = 0
    BY DEF Init
  <2>1. commands \in 0..MaxCommands /\ faults \in 0..MaxFaults
    BY <2>0, BatchPairsAssumption, SMT
  <2>2. \A p \in Pair : pairs[p] = "no row"
    BY DEF Init
  <2>3. place \in [Items -> {"nowhere", "pending", "accepted", "rejected"}]
    BY DEF Init
  <2> QED
    BY <2>1, <2>2, <2>3 DEF Init, RestTypes
<1>2. Inv /\ PairingInv /\ RestTypes /\ [Next]_vars => RestTypes'
  <2> SUFFICES ASSUME Inv, PairingInv, RestTypes, [Next]_vars PROVE RestTypes'
    OBVIOUS
  <2>1. CASE Next
    BY <2>1, CountersKeep, PlacesKeep, KindsKeep DEF RestTypes, Pair
  <2>2. CASE UNCHANGED vars
    BY <2>2 DEF vars, batchVars, fileVars, RestTypes, Pair
  <2> QED
    BY <2>1, <2>2
<1>3. Inv /\ EventsInv /\ PairingInv /\ RestTypes => TypeOK
  <2> SUFFICES ASSUME Inv, EventsInv, PairingInv, RestTypes PROVE TypeOK
    OBVIOUS
  <2>1. Range(batch) \subseteq Items /\ Range(queue) \subseteq Items
    BY SMT DEF EventsInv, BatchTypes, PairingInv, Range
  <2> QED
    BY <2>1 DEF TypeOK, Inv, Types, Statuses, EventsInv, BatchTypes, PairingInv, RestTypes
<1> QED
  BY <1>1, <1>2, <1>3, RejectionInvariance, EventsInvariance, PairingInvariance, PTL DEF Spec

=============================================================================
