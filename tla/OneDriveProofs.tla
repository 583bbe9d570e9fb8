--------------------------- MODULE OneDriveProofs ---------------------------
(***************************************************************************)
(* Proofs about the OneDrive adapter: Download and DeltaPoll.              *)
(*                                                                         *)
(* Download, for any page, retry policy, Retry-After values and number of  *)
(* runs: only whole files get a final name, nothing is left behind but     *)
(* what a crash or a failed unlink left, and a candidate costs no more     *)
(* than four rounds of attempts.                                           *)
(*                                                                         *)
(* DeltaPoll, for every page size, limit and threshold, every feed and     *)
(* every pattern of faults: type correctness, and that no event behind the *)
(* saved cursor has been skipped.  The saved cursor alone is not           *)
(* inductive.  What the loop relies on is that every link it holds (the    *)
(* cursor, the links walked in this run, the next one) has everything      *)
(* behind it dealt with, and that while a page is being processed all      *)
(* those links are at or before the page, so that nothing the page changes *)
(* is behind any of them.                                                  *)
(***************************************************************************)
EXTENDS Download, DeltaPoll, FiniteSetTheorems, TLAPS

\* Zenon finds most leaves; the ones about records and arithmetic ask for SMT.
USE Zenon

-----------------------------------------------------------------------------
(* DOWNLOAD *)

\* What is about to be published is whole, or its size is not known.
PublishIsWhole == phase = "publish" => tmp[cand] = "complete" \/ ~ sized

\* A candidate is in hand whenever one is worked on.
InHand ==
    /\ phase \in {"resolve", "download", "write", "publish"} => cand \in Page
    /\ phase = "next" => cand \in 1..(N + 1)

FileInv == DownloadTypeOK /\ InHand /\ PublishIsWhole /\ FinalIsComplete /\ NothingLeftBehind

-----------------------------------------------------------------------------
(* The waits *)

\* A capped delay is a number of seconds, and no more than the cap.
LEMMA CappedIsCapped ==
    ASSUME NEW delay \in Nat
    PROVE  Capped(delay) \in Nat /\ Capped(delay) <= MaxDelay
  BY DownloadAssumption, SMT DEF Capped

\* compute_delay never exceeds the policy's cap.
LEMMA DelayIsCapped ==
    ASSUME NEW n \in 1..MaxAttempts, NEW hint \in BOOLEAN, NEW d \in ComputeDelays(n, hint)
    PROVE  d \in Nat /\ d <= MaxDelay
<1>1. CASE hint
  <2>1. PICK r \in RetryAfters : d = Capped(r)
    BY <1>1 DEF ComputeDelays
  <2> QED
    BY <2>1, CappedIsCapped, DownloadAssumption
<1>2. CASE ~ hint
  <2>1. PICK j \in Jitters : d = Capped(BaseDelay * 2^(n - 1) + j)
    BY <1>2 DEF ComputeDelays
  <2>2. 2^(n - 1) \in Nat /\ BaseDelay \in Nat /\ j \in Nat /\ MaxDelay \in Nat
    BY BackoffAssumption, DownloadAssumption
  <2> DEFINE p == 2^(n - 1)
  <2>3. p \in Nat
    BY <2>2
  <2> HIDE DEF p
  <2>4. BaseDelay * p + j \in Nat
    BY <2>2, <2>3, SMT
  <2>5. d = Capped(BaseDelay * p + j)
    BY <2>1 DEF p
  <2> QED
    BY <2>2, <2>4, <2>5, CappedIsCapped
<1> QED
  BY <1>1, <1>2

\* A retry uses up an attempt and waits no longer than the cap.
LEMMA RetryStep ==
    ASSUME DownloadTypeOK, NEW hint \in BOOLEAN, Retry(hint)
    PROVE  /\ attempt < MaxAttempts /\ attempt' = attempt + 1
           /\ waited' \in Nat /\ waited' <= waited + MaxDelay
<1>1. attempt \in 1..MaxAttempts /\ waited \in Nat /\ MaxDelay \in Nat
  BY DownloadAssumption DEF DownloadTypeOK
<1>2. PICK d \in ComputeDelays(attempt, hint) : waited' = waited + d
  BY DEF Retry
<1>3. d \in Nat /\ d <= MaxDelay
  BY <1>1, <1>2, DelayIsCapped
<1> QED
  BY <1>1, <1>2, <1>3, SMT DEF Retry

\* So does a short body that is noticed.
LEMMA ShortStep ==
    ASSUME DownloadTypeOK, BodyShort, phase' = "download"
    PROVE  /\ phase = "write" /\ sized /\ CleanUp /\ attempt < MaxAttempts /\ attempt' = attempt + 1
           /\ waited' \in Nat /\ waited' <= waited + MaxDelay
           /\ UNCHANGED <<final, cand, sized, second, refreshed, handed, skipped, requests, runs>>
<1>1. attempt \in 1..MaxAttempts /\ waited \in Nat /\ MaxDelay \in Nat
  BY DownloadAssumption DEF DownloadTypeOK
<1>2. /\ Step("write", "download") /\ sized /\ CleanUp /\ attempt < MaxAttempts
      /\ attempt' = attempt + 1
      /\ \E d \in ComputeDelays(attempt, FALSE) : waited' = waited + d
      /\ UNCHANGED <<final, cand, sized, second, refreshed, handed, skipped, requests, runs>>
  BY DEF BodyShort, Step
<1>3. PICK d \in ComputeDelays(attempt, FALSE) : waited' = waited + d
  BY <1>2
<1>4. d \in Nat /\ d <= MaxDelay
  BY <1>1, <1>3, DelayIsCapped
<1> QED
  BY <1>1, <1>2, <1>3, <1>4, SMT DEF Step

-----------------------------------------------------------------------------
(* The files *)

\* A step that ends the run, with the files kept or the .tmp file removed
LEMMA EndPreserves ==
    ASSUME FileInv, FetchEnds, strict' = strict, final' = final,
           requests' \in Nat, waited' \in Nat,
           \/ tmp' = tmp /\ torn' = torn /\ phase \notin {"write", "publish"}
           \/ tmp' = tmp /\ torn' = torn \union ({cand} \intersect Page)
           \/ CleanUp /\ cand \in Page
    PROVE  FileInv'
<1>1. DownloadTypeOK'
  BY DownloadAssumption, SMT DEF FileInv, DownloadTypeOK, FetchEnds, CleanUp, TmpGone, FileStates
<1>2. InHand' /\ PublishIsWhole'
  BY DEF FetchEnds, InHand, PublishIsWhole
<1>3. FinalIsComplete'
  BY DEF FileInv, FinalIsComplete, FetchEnds
<1>4. NothingLeftBehind'
  <2>1. ASSUME NEW i \in Page, tmp'[i] # "none" PROVE i \in torn'
    BY <2>1 DEF FileInv, DownloadTypeOK, NothingLeftBehind, CleanUp, TmpGone
  <2>2. cand' = 0 /\ 1..(cand' - 1) = {}
    BY SMT DEF FetchEnds
  <2> QED
    BY <2>1, <2>2 DEF NothingLeftBehind
<1> QED
  BY <1>1, <1>2, <1>3, <1>4 DEF FileInv

\* A step that stays with the candidate before its body is written, or begins
\* to write it
LEMMA StayPreserves ==
    ASSUME FileInv, strict' = strict, cand \in Page,
           phase \in {"resolve", "download", "write"},
           phase' \in {"resolve", "download", "write"},
           UNCHANGED <<final, cand, sized, handed, skipped, runs>>,
           second' \in BOOLEAN, refreshed' \in BOOLEAN, attempt' \in 1..MaxAttempts,
           requests' \in Nat, waited' \in Nat,
           \/ CleanUp
           \/ tmp' = tmp /\ torn' = torn /\ phase # "write"
           \/ tmp' = [tmp EXCEPT ![cand] = "partial"] /\ torn' = torn /\ phase' = "write"
    PROVE  FileInv'
<1>1. DownloadTypeOK'
  BY DEF FileInv, DownloadTypeOK, CleanUp, TmpGone, FileStates
<1>2. InHand' /\ PublishIsWhole'
  BY DEF FileInv, InHand, PublishIsWhole
<1>3. FinalIsComplete'
  BY DEF FileInv, FinalIsComplete
<1>4. NothingLeftBehind'
  BY DEF FileInv, DownloadTypeOK, NothingLeftBehind, CleanUp, TmpGone
<1> QED
  BY <1>1, <1>2, <1>3, <1>4 DEF FileInv

\* A step past the candidate, which leaves no .tmp file of its own behind
LEMMA PassPreserves ==
    ASSUME FileInv, strict' = strict, cand \in Page, phase' = "next", cand' = cand + 1,
           UNCHANGED <<sized, second, attempt, refreshed, runs>>,
           requests' \in Nat, waited' \in Nat,
           TmpGone \/ (tmp' = tmp /\ torn' = torn /\ phase \notin {"write", "publish"}),
           \/ skipped' = skipped \union {cand} /\ UNCHANGED <<final, handed>>
           \/ /\ final' = [final EXCEPT ![cand] = "complete"] /\ handed' = handed \union {cand}
              /\ skipped' = skipped
    PROVE  FileInv'
<1>1. cand \in Nat /\ cand >= 1 /\ cand <= N /\ N \in Nat
  BY DownloadAssumption, SMT DEF Page
<1>2. DownloadTypeOK'
  <2>1. cand' \in 0..(N + 1)
    BY <1>1, SMT
  <2>2. tmp' \in [Page -> FileStates] /\ final' \in [Page -> FileStates]
    BY DEF FileInv, DownloadTypeOK, CleanUp, TmpGone, FileStates
  <2>3. torn' \subseteq Page
    BY DEF FileInv, DownloadTypeOK, TmpGone
  <2> QED
    BY <2>1, <2>2, <2>3 DEF FileInv, DownloadTypeOK
<1>3. InHand' /\ PublishIsWhole'
  BY <1>1, SMT DEF InHand, PublishIsWhole
<1>4. FinalIsComplete'
  BY DEF FileInv, DownloadTypeOK, FinalIsComplete
<1>5. ASSUME NEW i \in 1..(cand' - 1) PROVE i \in handed' \union skipped'
  <2>1. i = cand \/ i \in 1..(cand - 1)
    BY <1>1, SMT
  <2> QED
    BY <2>1 DEF FileInv, NothingLeftBehind
<1>6. ASSUME NEW i \in Page, tmp'[i] # "none" PROVE i \in torn'
  BY <1>6 DEF FileInv, DownloadTypeOK, NothingLeftBehind, CleanUp, TmpGone
<1>7. NothingLeftBehind'
  BY <1>5, <1>6 DEF NothingLeftBehind
<1> QED
  BY <1>2, <1>3, <1>4, <1>7 DEF FileInv

\* The body is in the .tmp file, whole or of unknown size.
LEMMA BodyPreserves ==
    ASSUME FileInv, strict' = strict, Step("write", "publish"),
           NEW s \in {"complete", "short"}, s = "complete" \/ ~ sized,
           tmp' = [tmp EXCEPT ![cand] = s],
           UNCHANGED <<final, cand, sized, second, attempt, refreshed, handed, skipped, torn,
                       counters, runs>>
    PROVE  FileInv'
<1>1. cand \in Page
  BY DEF FileInv, InHand, Step
<1>2. DownloadTypeOK'
  BY DEF FileInv, DownloadTypeOK, FileStates, Step, counters
<1>3. InHand' /\ PublishIsWhole'
  BY <1>1 DEF FileInv, DownloadTypeOK, InHand, PublishIsWhole, Step
<1>4. FinalIsComplete'
  BY DEF FileInv, FinalIsComplete
<1>5. NothingLeftBehind'
  BY <1>1 DEF FileInv, DownloadTypeOK, NothingLeftBehind, Step
<1> QED
  BY <1>2, <1>3, <1>4, <1>5 DEF FileInv

\* Every step of the program keeps the invariant of the files.
LEMMA FilesPreserved == FileInv /\ [DownloadNext]_downloadVars => FileInv'
<1> SUFFICES ASSUME FileInv, [DownloadNext]_downloadVars PROVE FileInv'
  OBVIOUS
<1>0. CASE UNCHANGED downloadVars
  BY <1>0 DEF downloadVars, files, counters, FileInv, DownloadTypeOK, InHand, PublishIsWhole, FinalIsComplete,
              NothingLeftBehind
<1> SUFFICES ASSUME DownloadNext PROVE FileInv'
  BY <1>0
<1>a. /\ strict' = strict /\ DownloadTypeOK /\ requests \in Nat /\ waited \in Nat
      /\ attempt \in 1..MaxAttempts /\ refreshed \in BOOLEAN /\ second \in BOOLEAN
      /\ MaxAttempts \in Nat \ {0} /\ 1 \in 1..MaxAttempts
  BY DownloadAssumption, SMT DEF DownloadNext, FileInv, DownloadTypeOK
<1>b. phase \in {"resolve", "download", "write", "publish"} => cand \in Page
  BY DEF FileInv, InHand
<1>1. CASE RunBegins
  <2>1. DownloadTypeOK'
    BY <1>1, <1>a, DownloadAssumption, SMT DEF RunBegins, Step, FileInv, DownloadTypeOK,
       FileStates, counters
  <2>2. InHand' /\ PublishIsWhole'
    BY <1>1, DownloadAssumption, SMT DEF RunBegins, Step, InHand, PublishIsWhole
  <2>3. FinalIsComplete'
    BY <1>1 DEF RunBegins, FileInv, FinalIsComplete
  <2>4. 1..(cand' - 1) = {}
    BY <1>1, SMT DEF RunBegins
  <2>5. ASSUME NEW i \in Page, tmp'[i] # "none" PROVE i \in torn'
    BY <1>1, <2>5 DEF RunBegins, Step, FileInv, NothingLeftBehind
  <2>6. NothingLeftBehind'
    BY <2>4, <2>5 DEF NothingLeftBehind
  <2> QED
    BY <2>1, <2>2, <2>3, <2>6 DEF FileInv
<1>2. CASE PageEnds
  BY <1>2, <1>a, EndPreserves DEF PageEnds, files, counters
<1>3. CASE NextCandidate
  <2>1. cand \in Page
    BY <1>3, DownloadAssumption, SMT DEF NextCandidate, FileInv, InHand, Page
  <2>2. sized' \in BOOLEAN /\ phase' \in {"download", "resolve"}
    BY <1>3 DEF NextCandidate
  <2>3. DownloadTypeOK'
    BY <1>3, <1>a, <2>2 DEF NextCandidate, DownloadTypeOK, files
  <2>4. InHand' /\ PublishIsWhole'
    BY <1>3, <2>1, <2>2 DEF NextCandidate, InHand, PublishIsWhole
  <2>5. FinalIsComplete' /\ NothingLeftBehind'
    BY <1>3 DEF NextCandidate, FileInv, FinalIsComplete, NothingLeftBehind, files
  <2> QED
    BY <2>3, <2>4, <2>5 DEF FileInv
<1>4. CASE BlockUnsized
  <2>1. cand \in Page
    BY <1>4, DownloadAssumption, SMT DEF BlockUnsized, FileInv, InHand, Page
  <2> QED
    BY <1>4, <1>a, <2>1, PassPreserves DEF BlockUnsized, files, counters
<1>5. CASE Publish
  <2>1. sized => tmp[cand] = "complete"
    BY <1>5 DEF Publish, Step, FileInv, PublishIsWhole
  <2> QED
    BY <1>5, <1>a, <1>b, <2>1, PassPreserves DEF Publish, Step, counters
<1>6. CASE ResolveRetry
  <2>1. PICK hint \in BOOLEAN : Retry(hint)
    BY <1>6 DEF ResolveRetry
  <2>2. attempt' \in 1..MaxAttempts /\ waited' \in Nat
    BY <1>a, <2>1, RetryStep, SMT
  <2> QED
    BY <1>6, <1>a, <1>b, <2>1, <2>2, StayPreserves, SMT DEF ResolveRetry, Retry, Sent, files
<1>7. CASE ResolveRefresh
  BY <1>7, <1>a, <1>b, StayPreserves, SMT DEF ResolveRefresh, Sent, files
<1>8. CASE ResolveFails
  BY <1>8, <1>a, EndPreserves, SMT DEF ResolveFails, Sent, files
<1>9. CASE ResolveGhost
  BY <1>9, <1>a, <1>b, PassPreserves, SMT DEF ResolveGhost, Ghost, Sent
<1>10. CASE ResolveUrl
  BY <1>10, <1>a, <1>b, StayPreserves, SMT DEF ResolveUrl, Step, Sent, files
<1>11. CASE DownloadRetry
  <2>1. PICK hint \in BOOLEAN : Retry(hint)
    BY <1>11 DEF DownloadRetry
  <2>2. attempt' \in 1..MaxAttempts /\ waited' \in Nat
    BY <1>a, <2>1, RetryStep, SMT
  <2> QED
    BY <1>11, <1>a, <1>b, <2>1, <2>2, StayPreserves, SMT DEF DownloadRetry, Retry, Sent
<1>12. CASE DownloadFails
  BY <1>12, <1>a, <1>b, EndPreserves, SMT DEF DownloadFails, Sent
<1>13. CASE DownloadRefused
  <2>1. /\ phase = "download" /\ phase' = "resolve" /\ CleanUp
        /\ second' = TRUE /\ refreshed' = FALSE /\ attempt' = 1
        /\ requests' = requests + 1 /\ waited' = waited
        /\ UNCHANGED <<final, cand, sized, handed, skipped, runs>>
    BY <1>13, Zenon DEF DownloadRefused, CleanUp, Step, Sent
  <2>2. second' \in BOOLEAN /\ refreshed' \in BOOLEAN
    BY <2>1, Zenon
  <2>3. attempt' \in 1..MaxAttempts /\ requests' \in Nat /\ waited' \in Nat
    BY <1>a, <2>1, SMT
  <2> QED
    BY <1>a, <1>b, <2>1, <2>2, <2>3, StayPreserves
<1>14. CASE DownloadGhost
  BY <1>14, <1>a, <1>b, PassPreserves, SMT DEF DownloadGhost, Ghost, Sent
<1>15. CASE BodyBegins
  BY <1>15, <1>a, <1>b, StayPreserves, SMT DEF BodyBegins, Step, Sent
<1>16. CASE BodyComplete
  BY <1>16, <1>a, BodyPreserves DEF BodyComplete
<1>17. CASE BodyShort
  <2>1. CASE phase' = "download"
    <3>1. attempt' \in 1..MaxAttempts /\ waited' \in Nat /\ requests' \in Nat
      BY <1>17, <1>a, <2>1, ShortStep, SMT
    <3> QED
      BY <1>17, <1>a, <1>b, <2>1, <3>1, ShortStep, StayPreserves
  <2>2. CASE phase' # "download"
    BY <1>17, <1>a, <2>2, BodyPreserves DEF BodyShort, Step
  <2> QED
    BY <2>1, <2>2
<1>18. CASE WriteFails
  BY <1>18, <1>a, <1>b, EndPreserves DEF WriteFails, counters
<1>19. CASE FetchCrash
  BY <1>19, <1>a, EndPreserves DEF FetchCrash, files, counters
<1> QED
  BY <1>1, <1>2, <1>3, <1>4, <1>5, <1>6, <1>7, <1>8, <1>9, <1>10, <1>11, <1>12, <1>13, <1>14,
     <1>15, <1>16, <1>17, <1>18, <1>19 DEF DownloadNext

\* The invariant of the files holds to begin with.
LEMMA FilesInit == DownloadInit => FileInv
<1> SUFFICES ASSUME DownloadInit PROVE FileInv
  OBVIOUS
<1>0. 1 \in 1..MaxAttempts /\ 0 \in 0..(N + 1) /\ 0 \in 0..MaxRuns
  BY DownloadAssumption, SMT
<1>1. DownloadTypeOK
  BY <1>0 DEF DownloadInit, DownloadTypeOK, FileStates
<1>2. InHand /\ PublishIsWhole /\ FinalIsComplete
  BY DEF DownloadInit, InHand, PublishIsWhole, FinalIsComplete
<1>3. 1..(cand - 1) = {}
  BY SMT DEF DownloadInit
<1>4. NothingLeftBehind
  BY <1>3 DEF DownloadInit, NothingLeftBehind
<1> QED
  BY <1>1, <1>2, <1>4 DEF FileInv

\* No request loop takes an attempt beyond max_attempts, and no candidate one
\* beyond the page: TypeOK is an invariant of download_candidates.
THEOREM DownloadTypeCorrectness == DownloadSpec => []DownloadTypeOK
<1>1. FileInv => DownloadTypeOK
  BY DEF FileInv
<1> QED
  BY <1>1, FilesInit, FilesPreserved, PTL DEF DownloadSpec

\* Crashes, retries and short answers notwithstanding, download_candidates
\* gives a final name to whole files only: FinalIsComplete is an invariant.
THEOREM OnlyWholeFiles == DownloadSpec => []FinalIsComplete
<1>1. FileInv => FinalIsComplete
  BY DEF FileInv
<1> QED
  BY <1>1, FilesInit, FilesPreserved, PTL DEF DownloadSpec

\* Every .tmp file is being written or was left by a crash or a failed unlink,
\* and every candidate passed has its row or its reason: NothingLeftBehind is an
\* invariant.
THEOREM StagingIsClean == DownloadSpec => []NothingLeftBehind
<1>1. FileInv => NothingLeftBehind
  BY DEF FileInv
<1> QED
  BY <1>1, FilesInit, FilesPreserved, PTL DEF DownloadSpec

-----------------------------------------------------------------------------
(* The effort *)

\* The longest waits before attempt n of a round
Waits(n) == (n - 1) * MaxDelay

\* r rounds are used up, and n requests and the waits of the current one.
Spent(r, n) ==
    /\ requests <= r * MaxAttempts + n
    /\ waited <= r * Waits(MaxAttempts) + Waits(attempt)

\* Resolve and download are a round each, before and after a refusal.
RoundsCounted ==
    /\ ~ second => /\ phase = "resolve" => Spent(0, attempt - 1)
                   /\ phase = "download" => Spent(1, attempt - 1)
                   /\ phase = "write" => Spent(1, attempt)
    /\ second => /\ phase = "resolve" => Spent(2, attempt - 1)
                 /\ phase = "download" => Spent(3, attempt - 1)
                 /\ phase = "write" => Spent(3, attempt)

WithinFour == requests <= 4 * MaxAttempts /\ waited <= 4 * Waits(MaxAttempts)

EffortInv == RoundsCounted /\ WithinFour

\* Waits grow by the cap with every attempt.
LEMMA WaitsGrow ==
    /\ Waits(1) = 0
    /\ Waits(MaxAttempts) \in Nat
    /\ \A n \in 1..MaxAttempts : /\ Waits(n) \in Nat /\ Waits(n) <= Waits(MaxAttempts)
                                 /\ Waits(n + 1) = Waits(n) + MaxDelay
<1>1. MaxDelay \in Nat /\ MaxAttempts \in Nat \ {0}
  BY DownloadAssumption
<1>2. ASSUME NEW a \in Nat, NEW b \in Nat, NEW m \in Nat, a <= b
      PROVE  a * m \in Nat /\ a * m <= b * m /\ (a + 1) * m = a * m + m
  <2>1. a * m \in Nat /\ (a + 1) * m = a * m + m
    BY SMT
  <2>2. a * m <= b * m
    BY <1>2, SMTT(30)
  <2> QED
    BY <2>1, <2>2
<1>3. ASSUME NEW n \in 1..MaxAttempts
      PROVE  /\ Waits(n) \in Nat /\ Waits(n) <= Waits(MaxAttempts)
             /\ Waits(n + 1) = Waits(n) + MaxDelay
  <2>1. n - 1 \in Nat /\ MaxAttempts - 1 \in Nat /\ n - 1 <= MaxAttempts - 1
        /\ (n - 1) + 1 = (n + 1) - 1
    BY <1>1, SMT
  <2> QED
    BY <1>1, <1>2, <2>1 DEF Waits
<1>4. Waits(1) = 0
  BY <1>1, SMT DEF Waits
<1>5. MaxAttempts \in 1..MaxAttempts
  BY <1>1, SMT
<1> QED
  BY <1>3, <1>4, <1>5

\* WithinFour is EffortBounded.
LEMMA FourRounds == WithinFour => EffortBounded
<1>1. MaxDelay \in Nat /\ MaxAttempts - 1 \in Nat
  BY DownloadAssumption, SMT
<1>2. ASSUME NEW a \in Nat, NEW m \in Nat PROVE 4 * a * m = 4 * (a * m)
  BY SMT
<1>3. 4 * (MaxAttempts - 1) * MaxDelay = 4 * Waits(MaxAttempts)
  BY <1>1, <1>2 DEF Waits
<1> QED
  BY <1>3 DEF WithinFour, EffortBounded

\* Every step of the program keeps the rounds counted.
LEMMA EffortPreserved == FileInv /\ EffortInv /\ [DownloadNext]_downloadVars => EffortInv'
<1> SUFFICES ASSUME FileInv, EffortInv, [DownloadNext]_downloadVars PROVE EffortInv'
  OBVIOUS
<1>a. /\ DownloadTypeOK /\ requests \in Nat /\ waited \in Nat /\ attempt \in 1..MaxAttempts
      /\ MaxAttempts \in Nat \ {0} /\ MaxDelay \in Nat /\ 1 \in 1..MaxAttempts
      /\ second \in BOOLEAN
  BY DownloadAssumption, SMT DEF FileInv, DownloadTypeOK
<1>b. /\ Waits(1) = 0 /\ Waits(MaxAttempts) \in Nat
      /\ Waits(attempt) \in Nat /\ Waits(attempt) <= Waits(MaxAttempts)
      /\ Waits(attempt + 1) = Waits(attempt) + MaxDelay
  BY <1>a, WaitsGrow
<1>0. CASE UNCHANGED <<phase, second, attempt, counters>>
  BY <1>0 DEF EffortInv, RoundsCounted, WithinFour, Spent, counters, Waits
<1>1. CASE /\ phase' \in {"idle", "next", "publish"} /\ requests' = requests /\ waited' = waited
  BY <1>1 DEF EffortInv, RoundsCounted, WithinFour, Waits
<1>2. CASE /\ phase \in {"resolve", "download"} /\ phase' \in {"idle", "next"}
           /\ requests' = requests + 1 /\ waited' = waited
  <2>1. requests' <= 4 * MaxAttempts
    BY <1>2, <1>a, SMT DEF EffortInv, RoundsCounted, Spent
  <2> QED
    BY <1>2, <2>1 DEF EffortInv, RoundsCounted, WithinFour, Waits
<1>3. CASE NextCandidate
  <2>1. /\ requests' = 0 /\ waited' = 0 /\ attempt' = 1 /\ second' = FALSE
        /\ phase' \in {"download", "resolve"}
    BY <1>3 DEF NextCandidate
  <2>2. WithinFour'
    BY <1>a, <1>b, <2>1, SMT DEF WithinFour, Waits
  <2>3. (Spent(0, attempt - 1))' /\ (Spent(1, attempt - 1))'
    <3>1. /\ 0 <= 0 * MaxAttempts + (1 - 1) /\ 0 <= 1 * MaxAttempts + (1 - 1)
          /\ 0 <= 0 * Waits(MaxAttempts) + Waits(1) /\ 0 <= 1 * Waits(MaxAttempts) + Waits(1)
      BY <1>a, <1>b, SMT
    <3> QED
      BY <2>1, <3>1 DEF Spent, Waits
  <2> QED
    BY <2>1, <2>2, <2>3 DEF EffortInv, RoundsCounted
<1>4. CASE /\ phase \in {"resolve", "download"} /\ phase' = phase /\ second' = second
           /\ attempt < MaxAttempts /\ attempt' = attempt + 1
           /\ requests' = requests + 1 /\ waited' \in Nat /\ waited' <= waited + MaxDelay
  <2>0. Waits(attempt') = Waits(attempt) + MaxDelay /\ Waits(attempt') <= Waits(MaxAttempts)
        /\ Waits(attempt)' = Waits(attempt') /\ Waits(MaxAttempts)' = Waits(MaxAttempts)
    BY <1>4, <1>a, <1>b, WaitsGrow, SMT DEF Waits
  <2> QED
    BY <1>4, <1>a, <1>b, <2>0, SMT DEF EffortInv, RoundsCounted, WithinFour, Spent
<1>5. CASE ResolveUrl \/ DownloadRefused
  <2>1. /\ \/ phase = "resolve" /\ phase' = "download" /\ second' = second
           \/ phase = "download" /\ phase' = "resolve" /\ ~ second /\ second' = TRUE
        /\ attempt' = 1 /\ requests' = requests + 1 /\ waited' = waited
    BY <1>5, Zenon DEF ResolveUrl, DownloadRefused, Step, Sent
  <2>2. Waits(attempt)' = 0 /\ Waits(MaxAttempts)' = Waits(MaxAttempts)
    BY <1>b, <2>1 DEF Waits
  <2> QED
    BY <1>a, <1>b, <2>1, <2>2, SMT DEF EffortInv, RoundsCounted, WithinFour, Spent
<1>6. CASE BodyBegins
  <2>1. /\ phase = "download" /\ phase' = "write" /\ second' = second /\ attempt' = attempt
        /\ requests' = requests + 1 /\ waited' = waited
    BY <1>6 DEF BodyBegins, Step, Sent
  <2>2. Waits(attempt)' = Waits(attempt) /\ Waits(MaxAttempts)' = Waits(MaxAttempts)
    BY <2>1 DEF Waits
  <2> QED
    BY <1>a, <1>b, <2>1, <2>2, SMT DEF EffortInv, RoundsCounted, WithinFour, Spent
<1>7. CASE BodyShort /\ phase' = "download"
  <2>1. /\ phase = "write" /\ second' = second /\ attempt < MaxAttempts /\ attempt' = attempt + 1
        /\ requests' = requests /\ waited' \in Nat /\ waited' <= waited + MaxDelay
    BY <1>7, <1>a, ShortStep
  <2>2. Waits(attempt)' = Waits(attempt) + MaxDelay /\ Waits(attempt)' <= Waits(MaxAttempts)
        /\ Waits(MaxAttempts)' = Waits(MaxAttempts)
    BY <1>a, <1>b, <2>1, WaitsGrow, SMT DEF Waits
  <2> QED
    BY <1>7, <1>a, <1>b, <2>1, <2>2, SMT DEF EffortInv, RoundsCounted, WithinFour, Spent
<1>8. CASE RunBegins \/ PageEnds \/ BlockUnsized \/ Publish \/ BodyComplete \/ WriteFails \/ FetchCrash
           \/ (BodyShort /\ phase' # "download")
  BY <1>1, <1>8 DEF RunBegins, PageEnds, BlockUnsized, Publish, BodyComplete, WriteFails, FetchCrash,
                    BodyShort, FetchEnds, Step, counters
<1>9. CASE ResolveFails \/ ResolveGhost \/ DownloadFails \/ DownloadGhost
  BY <1>2, <1>9 DEF ResolveFails, ResolveGhost, DownloadFails, DownloadGhost, FetchEnds, Ghost, Sent
<1>10. CASE ResolveRetry \/ DownloadRetry
  <2>1. PICK hint \in BOOLEAN : Retry(hint)
    BY <1>10 DEF ResolveRetry, DownloadRetry
  <2>2. /\ attempt < MaxAttempts /\ attempt' = attempt + 1
        /\ waited' \in Nat /\ waited' <= waited + MaxDelay
    BY <1>a, <2>1, RetryStep
  <2> QED
    BY <1>4, <1>10, <2>1, <2>2 DEF ResolveRetry, DownloadRetry, Retry, Sent
<1>11. CASE ResolveRefresh
  BY <1>4, <1>11, <1>a, SMT DEF ResolveRefresh, Sent
<1>12. CASE UNCHANGED downloadVars
  BY <1>0, <1>12 DEF downloadVars
<1> QED
  BY <1>3, <1>5, <1>6, <1>7, <1>8, <1>9, <1>10, <1>11, <1>12 DEF DownloadNext

\* However the two request loops restart each other, a candidate costs at most
\* four rounds of max_attempts requests and the capped waits between them:
\* EffortBounded is an invariant.
THEOREM EffortIsBounded == DownloadSpec => []EffortBounded
<1>1. DownloadInit => EffortInv
  <2> SUFFICES ASSUME DownloadInit PROVE EffortInv
    OBVIOUS
  <2>1. RoundsCounted
    BY DEF DownloadInit, RoundsCounted
  <2>2. Waits(MaxAttempts) \in Nat /\ MaxAttempts \in Nat
    BY WaitsGrow, DownloadAssumption
  <2>3. WithinFour
    BY <2>2, SMT DEF DownloadInit, WithinFour
  <2> QED
    BY <2>1, <2>3 DEF EffortInv
<1>2. FileInv /\ EffortInv => EffortBounded
  BY FourRounds DEF EffortInv
<1> QED
  BY <1>1, <1>2, FilesInit, FilesPreserved, EffortPreserved, PTL DEF DownloadSpec

-----------------------------------------------------------------------------
(* THE DELTA TRAVERSAL *)

\* Everything up to p is in the feed and dealt with.
Behind(p) == p <= Len(feed) /\ DealtWith(p)

\* The links walked in this run, and the cursor.
Walked == seen_links \union {cursor}

WalkedOK == \A l \in Walked : Behind(l.pos)

\* Between pages next_url has everything behind it, and is either the newest
\* link or one that was walked already.
BetweenPages ==
    pc \in {"loop", "save", "unmark"} /\ next_url # None =>
        /\ Behind(next_url.pos)
        /\ next_url \in seen_links \/ \A l \in Walked : l.pos <= next_url.pos

Fetching ==
    pc = "fetch" =>
        /\ next_url # None
        /\ Behind(next_url.pos)
        /\ \A l \in Walked : l.pos <= next_url.pos

\* Position k of a page that ends at position t needs no more work.
Done(k, t) ==
    /\ fate[k] # "none"
    /\ fate[k] = "ignored" =>
          \/ feed[k].kind # "file"
          \/ \E j \in (k + 1)..t :
                feed[j].item = feed[k].item /\ feed[j].kind # "other"

\* The page is b+1..t, with every walked link at or before b.
PageFrom(b, t) ==
    /\ t <= Len(feed) /\ b <= t
    /\ page = (b + 1)..t
    /\ DealtWith(b)
    /\ \A l \in Walked : l.pos <= b
    /\ next_url # None => next_url \in seen_links \/ next_url.pos = t
    /\ delta_link # None => delta_link.pos = t
    /\ staged \subseteq page
    /\ pc = "handoff" => \A k \in page : k \in staged \/ Done(k, t)

InPage ==
    pc \in {"download", "handoff"} => \E b, t \in 0..MaxEvents : PageFrom(b, t)

\* The delta link is set by the last page only.
DeltaOK ==
    /\ delta_link # None /\ pc \notin {"download", "handoff"} => Behind(delta_link.pos)
    /\ delta_link # None => next_url = None
    /\ pc \in {"loop", "save"} => next_url # None
    /\ pc = "idle" => seen_links = {} /\ delta_link = None
    /\ pc # "handoff" => staged = {}

DeltaInv ==
    TypeOK /\ WalkedOK /\ BetweenPages /\ Fetching /\ InPage /\ DeltaOK

-----------------------------------------------------------------------------

\* Initially nothing is behind the cursor.
LEMMA DeltaInitInv == Init => DeltaInv
<1> SUFFICES ASSUME Init PROVE DeltaInv
    OBVIOUS
<1> USE DeltaAssumption DEF DeltaAssumption
<1>1. TypeOK
    <2>1. feed \in Seq(Events) /\ Len(feed) = 0
        BY SMT DEF Init
    <2>2. cursor \in Links
        BY SMT DEF Init, InitialUrl, Links
    <2>3. fate \in [Positions -> Fates]
        BY DEF Init, Fates
    <2>4. marker \in BOOLEAN /\ cooldown \in BOOLEAN
        BY DEF Init
    <2>5. faults \in 0..MaxFaults /\ loop_incidents \in Nat
        BY SMT DEF Init
    <2>6. QED
        BY <2>1, <2>2, <2>3, <2>4, <2>5, SMT DEF Init, TypeOK
<1>2. QED
    BY <1>1, SMT DEF Init, DeltaInv, InitialUrl, WalkedOK, Walked, Behind, DealtWith,
                BetweenPages, Fetching, InPage, DeltaOK

\* A run that ends leaves an invariant state if the cursor is kept.
LEMMA RunEndsInv ==
    ASSUME DeltaInv, RunEnds, UNCHANGED <<feed, epoch, cursor, fate>>,
           marker' \in BOOLEAN, cooldown' \in BOOLEAN, faults' \in 0..MaxFaults,
           loop_incidents' \in Nat
    PROVE  DeltaInv'
<1>1. TypeOK'
    BY DEF DeltaInv, RunEnds, TypeOK
<1>2. WalkedOK'
    BY DEF DeltaInv, RunEnds, WalkedOK, Walked, Behind, DealtWith
<1>3. QED
    BY <1>1, <1>2 DEF DeltaInv, RunEnds, BetweenPages, Fetching, InPage, DeltaOK

\* The service adds an event after everything the poller has seen.
LEMMA CloudChangeInv == DeltaInv /\ CloudChange => DeltaInv'
<1> SUFFICES ASSUME DeltaInv, CloudChange PROVE DeltaInv'
    OBVIOUS
<1> USE DeltaAssumption DEF DeltaAssumption
<1>1. /\ feed' \in Seq(Events) /\ Len(feed') = Len(feed) + 1 /\ Len(feed) \in Nat
      /\ Len(feed') <= MaxEvents
      /\ \A k \in 1..Len(feed) : feed'[k] = feed[k]
    BY SMT DEF DeltaInv, TypeOK, CloudChange
<1>2. ASSUME NEW p \in Nat, p <= Len(feed), DealtWith(p) PROVE DealtWith(p)'
    <2>1. \A j \in 1..p : j \in 1..Len(feed)
        BY <1>1, <1>2, SMT
    <2>2. QED
        BY <1>1, <1>2, <2>1, SMT DEF DealtWith, CloudChange
<1>3. TypeOK'
    BY <1>1 DEF DeltaInv, TypeOK, CloudChange, durableVars, runVars
<1>4. ASSUME NEW p \in Nat, Behind(p) PROVE Behind(p)'
    BY <1>1, <1>2, <1>4, SMT DEF Behind
<1>5. /\ cursor.pos \in Nat /\ \A l \in Walked : l.pos \in Nat
      /\ next_url # None => next_url.pos \in Nat
      /\ delta_link # None => delta_link.pos \in Nat
    BY SMT DEF DeltaInv, TypeOK, Walked, Links
<1>6. WalkedOK' /\ BetweenPages' /\ Fetching' /\ DeltaOK'
    BY <1>4, <1>5 DEF DeltaInv, WalkedOK, Walked, BetweenPages, Fetching, DeltaOK,
        CloudChange, durableVars, runVars
<1>7. InPage'
    <2> SUFFICES ASSUME pc \in {"download", "handoff"}
                 PROVE  \E b, t \in 0..MaxEvents : PageFrom(b, t)'
        BY DEF InPage, CloudChange, runVars
    <2>1. PICK b, t \in 0..MaxEvents : PageFrom(b, t)
        BY DEF DeltaInv, InPage
    <2>2. DealtWith(b)' /\ t <= Len(feed')
        BY <1>1, <1>2, <2>1, SMT DEF PageFrom
    <2>3. ASSUME NEW k \in page, Done(k, t) PROVE Done(k, t)'
        <3>1. k \in 1..Len(feed) /\ \A j \in (k + 1)..t : j \in 1..Len(feed)
            BY <1>1, <2>1, SMT DEF PageFrom
        <3>2. QED
            BY <1>1, <2>3, <3>1 DEF Done, CloudChange
    <2>4. PageFrom(b, t)'
        BY <2>1, <2>2, <2>3 DEF PageFrom, Walked, CloudChange, durableVars, runVars
    <2>5. QED
        BY <2>4
<1>8. QED
    BY <1>3, <1>6, <1>7 DEF DeltaInv

\* How many entries of a page are about items seen before is a number.
LEMMA ReplayedType ==
    ASSUME NEW from \in Nat, NEW to \in Nat
    PROVE  Cardinality(Replayed(from, to)) \in Nat
<1>1. IsFiniteSet((from + 1)..to)
    BY FS_Interval, SMT
<1>2. Replayed(from, to) \subseteq (from + 1)..to
    BY DEF Replayed
<1>3. QED
    BY <1>1, <1>2, FS_Subset, FS_CardinalityType

\* TakePage starts the page right behind the link it was requested with.
LEMMA TakePageInv ==
    ASSUME DeltaInv, pc = "fetch", NEW to \in 0..MaxEvents, TakePage(to),
           faults' \in 0..MaxFaults,
           \/ /\ delta_link' = delta_link
              /\ next_url' \in Links
              /\ next_url' \in seen_links \/ next_url'.pos = to
           \/ /\ next_url' = None
              /\ delta_link' \in {delta_link, [epoch |-> epoch, pos |-> to]},
           delta_link = None
    PROVE  DeltaInv'
<1> USE DeltaAssumption DEF DeltaAssumption
<1>0. /\ next_url \in Links /\ next_url.pos \in 0..MaxEvents
      /\ Len(feed) \in Nat /\ Len(feed) <= MaxEvents
    <2>1. next_url \in Links
        BY DEF DeltaInv, Fetching, TypeOK
    <2>2. QED
        BY <2>1, SMT DEF DeltaInv, TypeOK, Links
<1>1. PICK from \in 0..MaxEvents :
        /\ from = next_url.pos /\ Behind(from)
        /\ \A l \in Walked : l.pos <= from
        /\ to \in from..Len(feed) /\ Len(feed) \in Nat /\ Len(feed) <= MaxEvents
    BY <1>0 DEF DeltaInv, Fetching, TakePage
<1>a. /\ page' = (from + 1)..to
      /\ page_count' = page_count + 1
      /\ stale' = stale + Cardinality(Replayed(from, to))
      /\ UNCHANGED <<feed, epoch, seen_links, cursor, fate>>
    BY <1>1, Zenon DEF TakePage, durableVars
<1>2. [epoch |-> epoch, pos |-> to] \in Links
    BY DEF DeltaInv, TypeOK, Links
<1>3. \A k \in (from + 1)..to : k \in 1..Len(feed) /\ feed[k].item \in Items
    <2>1. feed \in [1..Len(feed) -> Events]
        BY SMT DEF DeltaInv, TypeOK
    <2>2. \A k \in (from + 1)..to : k \in 1..Len(feed)
        BY <1>1, SMT
    <2>3. QED
        BY <2>1, <2>2 DEF Events
<1>4. TypeOK'
    <2>1. Cardinality(Replayed(from, to)) \in Nat
        <3>1. from \in Nat /\ to \in Nat
            BY SMT
        <3>2. QED
            BY <3>1, ReplayedType
    <2>2. stale' \in Nat /\ page_count' \in Nat
        <3>1. stale \in Nat /\ page_count \in Nat
            BY DEF DeltaInv, TypeOK
        <3>2. QED
            BY <1>a, <2>1, <3>1, SMT
    <2>3. page' \subseteq Positions
        <3>1. \A k \in (from + 1)..to : k \in 1..MaxEvents
            BY SMT
        <3>2. QED
            BY <1>a, <3>1, Zenon DEF Positions
    <2>4. seen_items' \subseteq Items
        BY <1>1, <1>3 DEF DeltaInv, TypeOK, TakePage
    <2>5. next_url' \in Links \union {None} /\ delta_link' \in Links \union {None}
        BY <1>2
    <2>6. QED
        BY <2>2, <2>3, <2>4, <2>5 DEF DeltaInv, TypeOK, TakePage, durableVars
<1>5. WalkedOK'
    BY <1>a DEF DeltaInv, WalkedOK, Walked, Behind, DealtWith
<1>6. PageFrom(from, to)'
    BY <1>1, SMT DEF PageFrom, Behind, DealtWith, Walked, TakePage, durableVars, DeltaInv,
                DeltaOK
<1>7. InPage'
    BY <1>6 DEF InPage
<1>8. QED
    BY <1>1, <1>4, <1>5, <1>7
       DEF DeltaInv, BetweenPages, Fetching, DeltaOK, TakePage

\* The ways a run ends early: limits, a forced resync, 410, failures and crashes.
LEMMA EndingInv ==
    DeltaInv /\ (\/ RuntimeLimit \/ PageLimit \/ ResetIncidents \/ ResyncRequired
                 \/ FetchFails \/ PageFails \/ MissingDeltaLink \/ PollEnd \/ Crash)
    => DeltaInv'
<1> SUFFICES ASSUME DeltaInv,
                    \/ RuntimeLimit \/ PageLimit \/ ResetIncidents \/ ResyncRequired
                    \/ FetchFails \/ PageFails \/ MissingDeltaLink \/ PollEnd \/ Crash
             PROVE  DeltaInv'
    OBVIOUS
<1> USE DeltaAssumption DEF DeltaAssumption
<1>1. RunEnds /\ UNCHANGED <<feed, epoch, cursor, fate>>
    BY DEF RuntimeLimit, PageLimit, ResetIncidents, ResyncRequired, FetchFails, PageFails,
        MissingDeltaLink, PollEnd, Crash, serviceVars, durableVars
<1>2. faults' \in 0..MaxFaults
    BY SMT DEF DeltaInv, TypeOK, Fault, RuntimeLimit, PageLimit, ResetIncidents, ResyncRequired,
        FetchFails, PageFails, MissingDeltaLink, PollEnd, Crash, serviceVars
<1>3. marker' \in BOOLEAN
    BY DEF DeltaInv, TypeOK, RuntimeLimit, PageLimit, ResetIncidents, ResyncRequired,
        FetchFails, PageFails, MissingDeltaLink, PollEnd, Crash, durableVars
<1>4. cooldown' \in BOOLEAN
    BY DEF DeltaInv, TypeOK, RuntimeLimit, PageLimit, ResetIncidents, ResyncRequired,
        FetchFails, PageFails, MissingDeltaLink, PollEnd, Crash, durableVars
<1>5. loop_incidents' \in Nat
    BY SMT DEF DeltaInv, TypeOK, RuntimeLimit, PageLimit, ResetIncidents, ResyncRequired,
        FetchFails, PageFails, MissingDeltaLink, PollEnd, Crash, durableVars
<1>6. QED
    BY <1>1, <1>2, <1>3, <1>4, <1>5, RunEndsInv

\* Steps between pages that touch neither the feed, the fates nor the page:
\* starting, forcing a resync, requesting, saving, clearing the marker, stopping for the budget.
LEMMA BetweenInv ==
    DeltaInv /\ (\/ PollStart \/ BudgetReached \/ ForceResync \/ RequestPage \/ SaveNextLink
                 \/ SaveDeltaLink \/ HaltedForBudget \/ ClearMarker)
    => DeltaInv'
<1> SUFFICES ASSUME DeltaInv,
                    \/ PollStart \/ BudgetReached \/ ForceResync \/ RequestPage \/ SaveNextLink
                    \/ SaveDeltaLink \/ HaltedForBudget \/ ClearMarker
             PROVE  DeltaInv'
    OBVIOUS
<1> USE DEF serviceVars, durableVars
<1>1. /\ UNCHANGED <<feed, epoch, faults, fate, delta_link, page, staged>>
      /\ pc \notin {"fetch", "download", "handoff"}
      /\ pc' \notin {"idle", "download", "handoff"}
    BY DEF PollStart, BudgetReached, ForceResync, RequestPage, SaveNextLink, SaveDeltaLink,
        HaltedForBudget, ClearMarker
<1>2. TypeOK'
    BY DEF DeltaInv, DeltaOK, TypeOK, PollStart, BudgetReached, ForceResync, RequestPage,
        SaveNextLink, SaveDeltaLink, HaltedForBudget, ClearMarker
<1>3. ASSUME NEW p, Behind(p) PROVE Behind(p)'
    BY <1>1, <1>3 DEF Behind, DealtWith
<1>a. cursor # None /\ cursor.pos \in Int /\ (next_url # None => next_url.pos \in Int)
    BY DeltaAssumption, SMT DEF DeltaInv, TypeOK, Links
<1>4. CASE PollStart
    BY <1>1, <1>a, <1>2, <1>3, <1>4, SMT DEF PollStart, DeltaInv, WalkedOK, Walked,
        BetweenPages, Fetching, InPage, DeltaOK
<1>5. CASE BudgetReached \/ ForceResync \/ HaltedForBudget
    BY <1>1, <1>2, <1>3, <1>5 DEF BudgetReached, ForceResync, HaltedForBudget, DeltaInv, WalkedOK,
        Walked, BetweenPages, Fetching, InPage, DeltaOK
<1>6. CASE RequestPage
    BY <1>1, <1>a, <1>2, <1>3, <1>6, SMT DEF RequestPage, DeltaInv, WalkedOK, Walked,
        BetweenPages, Fetching, InPage, DeltaOK
<1>7. CASE SaveNextLink
    BY <1>1, <1>a, <1>2, <1>3, <1>7, SMT DEF SaveNextLink, DeltaInv, WalkedOK, Walked,
        BetweenPages, Fetching, InPage, DeltaOK
<1>8. CASE SaveDeltaLink
    BY <1>1, <1>2, <1>3, <1>8 DEF SaveDeltaLink, DeltaInv, WalkedOK, Walked,
        BetweenPages, Fetching, InPage, DeltaOK
<1>9. CASE ClearMarker
    BY <1>1, <1>2, <1>3, <1>9 DEF ClearMarker, DeltaInv, WalkedOK, Walked,
        BetweenPages, Fetching, InPage, DeltaOK
<1>10. QED
    BY <1>4, <1>5, <1>6, <1>7, <1>8, <1>9

\* A link walked before: the run ends, or goes on to force a resync.
LEMMA CycleInv == DeltaInv /\ LinkCycle => DeltaInv'
<1> SUFFICES ASSUME DeltaInv, LinkCycle PROVE DeltaInv'
    OBVIOUS
<1>1. /\ UNCHANGED <<feed, epoch, faults, cursor, marker, cooldown, fate>>
      /\ pc = "loop" /\ loop_incidents' = loop_incidents + 1
      /\ \/ RunEnds
         \/ /\ pc' = "resync"
            /\ UNCHANGED <<next_url, delta_link, seen_links, seen_items, page_count, downloaded,
                           stale, ghosts, page, staged>>
    BY DEF LinkCycle, serviceVars
<1>2. loop_incidents' \in Nat
    BY <1>1, SMT DEF DeltaInv, TypeOK
<1>3. CASE RunEnds
    BY <1>1, <1>2, <1>3, RunEndsInv DEF DeltaInv, TypeOK
<1>4. CASE pc' = "resync" /\ UNCHANGED <<next_url, delta_link, seen_links, seen_items,
                        page_count, downloaded, stale, ghosts, page, staged>>
    <2>1. TypeOK'
        BY <1>1, <1>2, <1>4 DEF DeltaInv, TypeOK
    <2>2. ASSUME NEW p, Behind(p) PROVE Behind(p)'
        BY <1>1, <2>2 DEF Behind, DealtWith
    <2>3. QED
        BY <1>1, <1>4, <2>1, <2>2 DEF DeltaInv, WalkedOK, Walked, BetweenPages, Fetching,
            InPage, DeltaOK
<1>5. QED
    BY <1>1, <1>3, <1>4

\* A page arrives, with the links it should carry or without.
LEMMA FetchInv == DeltaInv /\ (FetchPage \/ FetchBadPage) => DeltaInv'
<1> SUFFICES ASSUME DeltaInv, FetchPage \/ FetchBadPage PROVE DeltaInv'
    OBVIOUS
<1> USE DeltaAssumption DEF DeltaAssumption
<1>1. pc = "fetch" /\ delta_link = None /\ epoch \in Nat
    BY DEF DeltaInv, Fetching, DeltaOK, TypeOK, FetchPage, FetchBadPage
<1>2. CASE FetchPage
    <2>1. PICK to \in 0..MaxEvents :
            /\ TakePage(to)
            /\ \/ /\ next_url' = [epoch |-> epoch, pos |-> to]
                  /\ UNCHANGED delta_link
               \/ /\ next_url' = None
                  /\ delta_link' = [epoch |-> epoch, pos |-> to]
        BY <1>2 DEF FetchPage
    <2>2. [epoch |-> epoch, pos |-> to] \in Links
        BY <1>1 DEF Links
    <2>3. faults' \in 0..MaxFaults
        BY <1>2 DEF FetchPage, DeltaInv, TypeOK
    <2>4. QED
        BY <1>1, <2>1, <2>2, <2>3, TakePageInv, SMT
<1>3. CASE FetchBadPage
    <2>1. PICK to \in 0..MaxEvents : TakePage(to)
        BY <1>3 DEF FetchBadPage
    <2>2. faults' \in 0..MaxFaults
        BY <1>3, SMT DEF FetchBadPage, Fault, DeltaInv, TypeOK
    <2>3. delta_link' = delta_link /\ (next_url' \in seen_links \/ next_url' = None)
        BY <1>3 DEF FetchBadPage
    <2>4. seen_links \subseteq Links
        BY DEF DeltaInv, TypeOK
    <2>5. QED
        BY <1>1, <2>1, <2>2, <2>3, <2>4, TakePageInv
<1>4. QED
    BY <1>2, <1>3

\* Downloading settles every entry of the page but the staged ones, and
\* changes nothing outside the page.
LEMMA DownloadInv == DeltaInv /\ DownloadCandidates => DeltaInv'
<1> SUFFICES ASSUME DeltaInv, DownloadCandidates PROVE DeltaInv'
    OBVIOUS
<1> USE DeltaAssumption DEF DeltaAssumption, serviceVars, durableVars
<1>1. PICK unreachable \in SUBSET WithinBudget, unlisted \in SUBSET WithinBudget :
        /\ ghosts' = ghosts + Cardinality(unreachable) + Cardinality(unlisted)
        /\ staged' = WithinBudget \ unreachable
        /\ downloaded' = downloaded + Cardinality(WithinBudget \ unreachable)
        /\ fate' = [k \in Positions |->
                      IF k \in unreachable THEN "ghost"
                      ELSE IF k \in Candidates \ WithinBudget THEN "cut"
                      ELSE IF k \in page \ Candidates THEN "ignored"
                      ELSE fate[k]]
    BY DEF DownloadCandidates
<1>2. pc = "download" /\ pc' = "handoff"
      /\ UNCHANGED <<feed, epoch, faults, cursor, marker, loop_incidents, cooldown,
                     next_url, delta_link, seen_links, seen_items, page_count, stale,
                     page>>
    BY DEF DownloadCandidates
<1>3. PICK b, t \in 0..MaxEvents : PageFrom(b, t)
    BY <1>2 DEF DeltaInv, InPage
<1>4. /\ WithinBudget \subseteq Candidates /\ Candidates \subseteq page
      /\ page \subseteq Positions /\ page = (b + 1)..t
    BY <1>3 DEF WithinBudget, Candidates, DeltaInv, TypeOK, PageFrom
<1>5. TypeOK'
    <2>1. IsFiniteSet(page)
        BY <1>4, FS_Interval, SMT
    <2>2. /\ Cardinality(unreachable) \in Nat /\ Cardinality(unlisted) \in Nat
          /\ Cardinality(WithinBudget \ unreachable) \in Nat
        <3>1. /\ unreachable \subseteq page /\ unlisted \subseteq page
              /\ WithinBudget \ unreachable \subseteq page
            BY <1>4
        <3>2. QED
            BY <2>1, <3>1, FS_Subset, FS_CardinalityType
    <2>3. ghosts' \in Nat /\ downloaded' \in Nat
        BY <1>1, <2>2, SMT DEF DeltaInv, TypeOK
    <2>4. fate' \in [Positions -> Fates]
        BY <1>1 DEF DeltaInv, TypeOK, Fates
    <2>5. staged' \subseteq Positions
        BY <1>1, <1>4
    <2>6. QED
        BY <1>2, <2>3, <2>4, <2>5 DEF DeltaInv, TypeOK
<1>6. \A k \in 1..b : k \in Positions /\ k \notin page
    BY <1>4, SMT DEF Positions
<1>7. \A k \in 1..b : fate'[k] = fate[k]
    BY <1>1, <1>4, <1>6
<1>8. \A p \in 0..b : DealtWith(p) => DealtWith(p)'
    BY <1>2, <1>7, SMT DEF DealtWith
<1>9. \A l \in Walked : l.pos \in 0..b
    BY <1>3, SMT DEF PageFrom, Walked, DeltaInv, TypeOK, Links
<1>10. WalkedOK'
    BY <1>2, <1>8, <1>9 DEF DeltaInv, WalkedOK, Walked, Behind
<1>11. \A k \in page : k \in staged' \/ Done(k, t)'
    <2> SUFFICES ASSUME NEW k \in page, k \notin staged' PROVE Done(k, t)'
        OBVIOUS
    <2>1. CASE k \in unreachable \/ k \in Candidates \ WithinBudget
        BY <1>1, <1>4, <2>1 DEF Done
    <2>2. CASE k \notin Candidates
        <3>1. fate'[k] = "ignored"
            BY <1>1, <1>4, <2>2
        <3>2. \/ feed[k].kind # "file"
              \/ \E j \in page : j > k /\ feed[j].item = feed[k].item
                                 /\ feed[j].kind # "other"
            BY <2>2 DEF Candidates
        <3>3. \/ feed[k].kind # "file"
              \/ \E j \in (k + 1)..t : feed[j].item = feed[k].item
                                      /\ feed[j].kind # "other"
            BY <1>4, <3>2, SMT
        <3>4. QED
            BY <1>2, <3>1, <3>3 DEF Done
    <2>3. QED
        BY <1>1, <2>1, <2>2
<1>12. PageFrom(b, t)'
    <2>1. DealtWith(b)'
        BY <1>3, <1>8, SMT DEF PageFrom
    <2>2. staged' \subseteq page'
        BY <1>1, <1>2, <1>4
    <2>3. QED
        BY <1>2, <1>3, <1>11, <2>1, <2>2 DEF PageFrom, Walked
<1>13. InPage'
    BY <1>12 DEF InPage
<1>14. QED
    BY <1>2, <1>5, <1>10, <1>13 DEF DeltaInv, BetweenPages, Fetching, DeltaOK

\* Handing a row over settles its entry, which lies on the page.
LEMMA HandOffInv == DeltaInv /\ HandOff => DeltaInv'
<1> SUFFICES ASSUME DeltaInv, HandOff PROVE DeltaInv'
    OBVIOUS
<1> USE DeltaAssumption DEF DeltaAssumption, serviceVars, durableVars
<1>1. PICK h \in staged : /\ staged' = staged \ {h}
                          /\ fate' = [fate EXCEPT ![h] = "handed"]
    BY DEF HandOff
<1>2. pc = "handoff" /\ pc' = "handoff"
      /\ UNCHANGED <<feed, epoch, faults, cursor, marker, loop_incidents, cooldown,
                     next_url, delta_link, seen_links, seen_items, page_count,
                     downloaded, stale, ghosts, page>>
    BY DEF HandOff
<1>3. PICK b, t \in 0..MaxEvents : PageFrom(b, t)
    BY <1>2 DEF DeltaInv, InPage
<1>4. h \in page /\ page = (b + 1)..t /\ page \subseteq Positions
      /\ fate \in [Positions -> Fates]
    BY <1>3 DEF PageFrom, DeltaInv, TypeOK
<1>5. TypeOK'
    <2>1. fate' \in [Positions -> Fates]
        BY <1>1, <1>4 DEF Fates
    <2>2. QED
        BY <1>1, <1>2, <2>1 DEF DeltaInv, TypeOK
<1>6. \A k \in 1..b : k \in Positions /\ k # h
    BY <1>4, SMT DEF Positions
<1>7. \A p \in 0..b : DealtWith(p) => DealtWith(p)'
    BY <1>1, <1>2, <1>4, <1>6, SMT DEF DealtWith
<1>8. \A l \in Walked : l.pos \in 0..b
    BY <1>3, SMT DEF PageFrom, Walked, DeltaInv, TypeOK, Links
<1>9. WalkedOK'
    BY <1>2, <1>7, <1>8 DEF DeltaInv, WalkedOK, Walked, Behind
<1>10. \A k \in page : k \in staged' \/ Done(k, t)'
    <2> SUFFICES ASSUME NEW k \in page, k \notin staged' PROVE Done(k, t)'
        OBVIOUS
    <2>1. CASE k = h
        BY <1>1, <1>4, <2>1 DEF Done
    <2>2. CASE k # h
        <3>1. Done(k, t)
            BY <1>1, <1>2, <1>3, <2>2 DEF PageFrom
        <3>2. fate'[k] = fate[k]
            BY <1>1, <1>4, <2>2
        <3>3. QED
            BY <1>2, <3>1, <3>2 DEF Done
    <2>3. QED
        BY <2>1, <2>2
<1>11. PageFrom(b, t)'
    <2>1. DealtWith(b)'
        BY <1>3, <1>7, SMT DEF PageFrom
    <2>2. QED
        BY <1>1, <1>2, <1>3, <1>10, <2>1 DEF PageFrom, Walked
<1>12. InPage'
    BY <1>11 DEF InPage
<1>13. QED
    BY <1>2, <1>5, <1>9, <1>12 DEF DeltaInv, BetweenPages, Fetching, DeltaOK

\* Once all rows are handed over, everything up to the end of the page, and so
\* behind the link that follows it, is dealt with.
LEMMA PageDoneInv == DeltaInv /\ PageDone => DeltaInv'
<1> SUFFICES ASSUME DeltaInv, PageDone PROVE DeltaInv'
    OBVIOUS
<1> USE DeltaAssumption DEF DeltaAssumption, serviceVars, durableVars
<1>1. pc = "handoff" /\ staged = {} /\ page' = {}
      /\ pc' = (IF next_url # None THEN "save" ELSE "finish")
      /\ UNCHANGED <<feed, epoch, faults, cursor, marker, loop_incidents, cooldown,
                     next_url, delta_link, seen_links, seen_items, page_count,
                     downloaded, stale, ghosts, staged, fate>>
    BY DEF PageDone
<1>2. PICK b, t \in 0..MaxEvents : PageFrom(b, t)
    BY <1>1 DEF DeltaInv, InPage
<1>3. DealtWith(t)
    <2> SUFFICES ASSUME NEW k \in 1..t PROVE Done(k, t)
        BY DEF DealtWith, Done
    <2>1. CASE k \in 1..b
        <3>1. Done(k, b) /\ b <= t
            BY <1>2, <2>1 DEF PageFrom, DealtWith, Done
        <3>2. (k + 1)..b \subseteq (k + 1)..t
            BY <3>1, SMT
        <3>3. QED
            BY <3>1, <3>2 DEF Done
    <2>2. CASE k \in (b + 1)..t
        BY <1>1, <1>2, <2>2 DEF PageFrom
    <2>3. QED
        BY <2>1, <2>2, SMT
<1>4. Behind(t)
    BY <1>2, <1>3 DEF PageFrom, Behind
<1>5. TypeOK'
    BY <1>1 DEF DeltaInv, TypeOK
<1>6. ASSUME NEW p, Behind(p) PROVE Behind(p)'
    BY <1>1, <1>6 DEF Behind, DealtWith
<1>7. WalkedOK'
    BY <1>1, <1>6 DEF DeltaInv, WalkedOK, Walked
<1>8. BetweenPages'
    <2> SUFFICES ASSUME next_url # None
                 PROVE  /\ Behind(next_url.pos)
                        /\ \/ next_url \in seen_links
                           \/ \A l \in Walked : l.pos <= next_url.pos
        BY <1>1, <1>6 DEF BetweenPages, Walked
    <2>1. \A l \in Walked : Behind(l.pos)
        BY DEF DeltaInv, WalkedOK
    <2>2. CASE next_url \in seen_links
        BY <2>1, <2>2 DEF Walked
    <2>3. CASE next_url \notin seen_links
        <3>1. next_url.pos = t /\ b <= t /\ \A l \in Walked : l.pos <= b
            BY <1>2, <2>3 DEF PageFrom
        <3>2. \A l \in Walked : l.pos \in Int
            BY SMT DEF Walked, DeltaInv, TypeOK, Links
        <3>3. QED
            BY <1>4, <3>1, <3>2, SMT
    <2>4. QED
        BY <2>2, <2>3
<1>9. DeltaOK'
    BY <1>1, <1>2, <1>4, <1>6 DEF DeltaInv, DeltaOK, PageFrom
<1>10. QED
    BY <1>1, <1>5, <1>7, <1>8, <1>9 DEF DeltaInv, Fetching, InPage

\* Tokens expiring, the cooldown elapsing, and stuttering.
LEMMA OutsideInv ==
    DeltaInv /\ (Expire \/ CooldownElapses \/ UNCHANGED vars) => DeltaInv'
<1> SUFFICES ASSUME DeltaInv, Expire \/ CooldownElapses \/ UNCHANGED vars
             PROVE  DeltaInv'
    OBVIOUS
<1> USE DEF serviceVars, durableVars, runVars
<1>1. UNCHANGED <<feed, fate, cursor, marker, loop_incidents, runVars>>
    BY DEF Expire, CooldownElapses, vars
<1>2. TypeOK'
    <2>1. cooldown' \in BOOLEAN
        BY DEF DeltaInv, TypeOK, Expire, CooldownElapses, vars
    <2>2. epoch' \in Nat /\ faults' \in 0..MaxFaults
        BY DeltaAssumption
          , SMT DEF DeltaAssumption, DeltaInv, TypeOK, Expire, Fault, CooldownElapses, vars
    <2>3. QED
        BY <1>1, <2>1, <2>2 DEF DeltaInv, TypeOK
<1>3. ASSUME NEW p, Behind(p) PROVE Behind(p)'
    BY <1>1, <1>3 DEF Behind, DealtWith
<1>4. WalkedOK' /\ BetweenPages' /\ Fetching' /\ DeltaOK'
    BY <1>1, <1>3 DEF DeltaInv, WalkedOK, Walked, BetweenPages, Fetching, DeltaOK
<1>5. InPage'
    BY <1>1, SMT DEF DeltaInv, InPage, PageFrom, DealtWith, Done, Walked
<1>6. QED
    BY <1>2, <1>4, <1>5 DEF DeltaInv

\* Every step of DeltaPoll keeps the invariant.
THEOREM DeltaInvariance == Spec => []DeltaInv
<1>1. DeltaInv /\ [Next]_vars => DeltaInv'
    BY CloudChangeInv, EndingInv, BetweenInv, CycleInv, FetchInv, DownloadInv, HandOffInv,
       PageDoneInv, OutsideInv
       DEF Next, PollStep, FaultStep
<1>2. QED
    BY <1>1, DeltaInitInv, PTL DEF Spec

\* The variables keep their types for every value of the constants.
THEOREM DeltaTypeCorrectness == Spec => []TypeOK
<1>1. DeltaInv => TypeOK
    BY DEF DeltaInv
<1>2. QED
    BY <1>1, DeltaInvariance, PTL

\* Whatever the page size, the limits and the faults, every event behind the
\* saved cursor was handed to ingest or deliberately left out.
THEOREM CursorSafety == Spec => []CursorBehindIngest
<1>1. DeltaInv => CursorBehindIngest
    BY DEF DeltaInv, WalkedOK, Walked, Behind, CursorBehindIngest
<1>2. QED
    BY <1>1, DeltaInvariance, PTL
=============================================================================
