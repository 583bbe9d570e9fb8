----------------------------- MODULE Download -----------------------------
(***************************************************************************)
(* How the candidates of a page are fetched into staging:                  *)
(* download_candidates of adapters/onedrive/client.py with the two request *)
(* loops under it, download_with_retry and, to resolve a download URL,     *)
(* _graph_get_json, under the retry policy of adapters/onedrive/retry.py.  *)
(* DeltaPoll takes this as one step with the outcomes shown possible here. *)
(*                                                                         *)
(* A candidate is its index on the page.  The program may crash anywhere;  *)
(* the page is then fetched again by a later run.  The names of candidates *)
(* do not end in .tmp.                                                     *)
(***************************************************************************)
EXTENDS Naturals

CONSTANTS
    N,              \* candidates on the page
    CanRefresh,     \* refresh_access_token is given
    MaxAttempts,    \* RetryPolicy.max_attempts
    BaseDelay,      \* RetryPolicy.base_delay
    MaxDelay,       \* RetryPolicy.max_delay
    Jitters,        \* what jitter_fn returns
    RetryAfters,    \* Retry-After values the service sends
    MaxRuns         \* bound: runs that fetch the page

ASSUME DownloadAssumption ==
    /\ N \in Nat /\ MaxAttempts \in Nat \ {0} /\ MaxRuns \in Nat
    /\ BaseDelay \in Nat /\ MaxDelay \in Nat
    /\ Jitters \subseteq Nat /\ RetryAfters \subseteq Nat
    /\ CanRefresh \in BOOLEAN

\* A fact of arithmetic, which the provers do not know of ^
ASSUME BackoffAssumption == \A n \in 1..MaxAttempts : 2^(n - 1) \in Nat

VARIABLES
    strict,     \* integrity_mode = "strict", otherwise "tolerant"
    tmp,        \* <base>.tmp of each candidate
    final,      \* its final staging file
    phase,
    cand,       \* the candidate being fetched
    sized,      \* its size is known
    second,     \* its URL has been refreshed after a refusal
    attempt, refreshed,
    handed,     \* rows to hand over
    skipped,    \* ghosts, blocked and quarantined candidates
    torn,       \* candidates whose .tmp file a crash or a failed unlink left
                \* (no program variable)
    requests,   \* requests sent for the candidate (no program variable)
    waited,     \* seconds slept for the candidate (no program variable)
    runs

files == <<tmp, final>>
counters == <<requests, waited>>
downloadVars == <<strict, files, phase, cand, sized, second, attempt, refreshed, handed,
                  skipped, torn, counters, runs>>

Page == 1..N
FileStates == {"none", "partial", "short", "complete"}

DownloadTypeOK ==
    /\ strict \in BOOLEAN
    /\ tmp \in [Page -> FileStates] /\ final \in [Page -> FileStates]
    /\ phase \in {"idle", "next", "resolve", "download", "write", "publish"}
    /\ cand \in 0..(N + 1)
    /\ sized \in BOOLEAN /\ second \in BOOLEAN /\ refreshed \in BOOLEAN
    /\ attempt \in 1..MaxAttempts
    /\ handed \subseteq Page /\ skipped \subseteq Page /\ torn \subseteq Page
    /\ requests \in Nat /\ waited \in Nat
    /\ runs \in 0..MaxRuns

DownloadInit ==
    /\ strict \in BOOLEAN
    /\ tmp = [i \in Page |-> "none"] /\ final = [i \in Page |-> "none"]
    /\ phase = "idle" /\ cand = 0
    /\ sized = TRUE /\ second = FALSE /\ attempt = 1 /\ refreshed = FALSE
    /\ handed = {} /\ skipped = {} /\ torn = {}
    /\ requests = 0 /\ waited = 0
    /\ runs = 0

-----------------------------------------------------------------------------
(* The retry policy *)

Capped(delay) == IF delay < MaxDelay THEN delay ELSE MaxDelay

\* Mutant: the server's wish is not capped.
ComputeDelaysUncapped(n, hint) ==
    IF hint THEN RetryAfters
            ELSE {Capped(BaseDelay * 2^(n - 1) + j) : j \in Jitters}

\* The delays compute_delay may return after attempt n, with and without a
\* Retry-After header.
ComputeDelays(n, hint) ==
    IF hint THEN {Capped(r) : r \in RetryAfters}
            ELSE {Capped(BaseDelay * 2^(n - 1) + j) : j \in Jitters}

-----------------------------------------------------------------------------
(* download_candidates *)

Step(from, to) == phase = from /\ phase' = to

\* The run raises, or its process dies: the page will be fetched again.
FetchEnds ==
    /\ phase' = "idle" /\ cand' = 0
    /\ handed' = {} /\ skipped' = {}
    /\ UNCHANGED <<sized, second, attempt, refreshed, runs>>

\* A run begins; .tmp files older than the TTL are moved to quarantine.
RunBegins ==
    /\ Step("idle", "next")
    /\ runs < MaxRuns
    /\ runs' = runs + 1
    /\ cand' = 1
    /\ \E old \in SUBSET {i \in Page : tmp[i] # "none"} :
          /\ tmp' = [i \in Page |-> IF i \in old THEN "none" ELSE tmp[i]]
          /\ torn' = torn \ old
    /\ UNCHANGED <<final, sized, second, attempt, refreshed, handed, skipped, counters>>

\* The page is done and its rows are handed over.
PageEnds ==
    /\ phase = "next" /\ cand > N
    /\ FetchEnds
    /\ UNCHANGED <<files, torn, counters>>

\* A candidate: its size may be missing from the listing, and its URL.
NextCandidate ==
    /\ phase = "next" /\ cand <= N
    /\ \E s \in BOOLEAN : \E listed \in BOOLEAN :
          /\ s \/ ~ strict
          /\ sized' = s
          /\ phase' = IF listed THEN "download" ELSE "resolve"
    /\ second' = FALSE /\ attempt' = 1 /\ refreshed' = FALSE
    /\ requests' = 0 /\ waited' = 0
    /\ UNCHANGED <<files, cand, handed, skipped, torn, runs>>

\* Strict mode blocks a candidate without a size.
BlockUnsized ==
    /\ phase = "next" /\ cand <= N
    /\ strict
    /\ skipped' = skipped \union {cand}
    /\ cand' = cand + 1
    /\ UNCHANGED <<files, phase, sized, second, attempt, refreshed, handed, torn, counters,
                   runs>>

\* The candidate is a ghost: on to the next.
Ghost ==
    /\ phase' = "next"
    /\ skipped' = skipped \union {cand}
    /\ cand' = cand + 1
    /\ UNCHANGED <<final, sized, second, attempt, refreshed, handed, runs>>

\* The candidate's .tmp file is removed or renamed.
TmpGone == tmp' = [tmp EXCEPT ![cand] = "none"] /\ torn' = torn \ {cand}

\* Publish: without a known size into quarantine, else under the final name.
Publish ==
    /\ Step("publish", "next")
    /\ TmpGone
    /\ IF sized
       THEN final' = [final EXCEPT ![cand] = tmp[cand]] /\ handed' = handed \union {cand}
            /\ UNCHANGED skipped
       ELSE skipped' = skipped \union {cand} /\ UNCHANGED <<final, handed>>
    /\ cand' = cand + 1
    /\ UNCHANGED <<sized, second, attempt, refreshed, counters, runs>>

-----------------------------------------------------------------------------
(* Requests *)

Sent == requests' = requests + 1

\* Mutant: attempts are not counted against the policy.
RetryForever(hint) ==
    /\ attempt' = attempt + 1
    /\ \E d \in ComputeDelays(attempt, hint) : waited' = waited + d
    /\ UNCHANGED <<phase, cand, sized, second, handed, skipped, runs>>

\* Sleep and try again, if the policy has an attempt left.
Retry(hint) ==
    /\ attempt < MaxAttempts
    /\ attempt' = attempt + 1
    /\ \E d \in ComputeDelays(attempt, hint) : waited' = waited + d
    /\ UNCHANGED <<phase, cand, sized, second, handed, skipped, runs>>

\* Mutant: the partial file stays.
CleanUpForgotten == UNCHANGED <<tmp, torn>>

\* _cleanup_partial, which may fail and says nothing of it: the .tmp file then
\* stays, to be overwritten or cleaned up by a later attempt.
CleanUp ==
    \/ TmpGone
    \/ tmp[cand] # "none" /\ torn' = torn \union {cand} /\ UNCHANGED tmp

\* _graph_get_json: a transport error or a transient status.
ResolveRetry ==
    /\ phase = "resolve"
    /\ Sent
    /\ Retry(FALSE) \/ Retry(TRUE)
    /\ UNCHANGED <<files, refreshed, torn>>

\* 401 or 403: the token is refreshed once, which uses up an attempt.
ResolveRefresh ==
    /\ phase = "resolve"
    /\ CanRefresh /\ ~ refreshed
    /\ attempt < MaxAttempts
    /\ Sent
    /\ refreshed' = TRUE
    /\ attempt' = attempt + 1
    /\ UNCHANGED <<files, phase, cand, sized, second, handed, skipped, torn, waited, runs>>

\* The request fails for good: attempts used up (on the last one a refreshed
\* token is not tried any more), 401 or 403 again, no refresh possible, 410,
\* another status, or no JSON.
ResolveFails ==
    /\ phase = "resolve"
    /\ Sent
    /\ FetchEnds
    /\ UNCHANGED <<files, torn, waited>>

\* The item is gone (404) or has no download URL.
ResolveGhost ==
    /\ phase = "resolve"
    /\ Sent
    /\ Ghost
    /\ UNCHANGED <<tmp, torn, waited>>

ResolveUrl ==
    /\ Step("resolve", "download")
    /\ Sent
    /\ attempt' = 1
    /\ UNCHANGED <<files, cand, sized, second, refreshed, handed, skipped, torn, waited,
                   runs>>

\* download_with_retry: a transport error or a transient status.
DownloadRetry ==
    /\ phase = "download"
    /\ Sent
    /\ CleanUp
    /\ Retry(FALSE) \/ Retry(TRUE)
    /\ UNCHANGED <<final, refreshed>>

\* Attempts used up, a status that is neither transient nor a refusal, or a
\* .tmp file that cannot be unlinked.
DownloadFails ==
    /\ phase = "download"
    /\ Sent
    /\ CleanUp
    /\ FetchEnds
    /\ UNCHANGED <<final, waited>>

\* 401, 403 or 404: the caller unlinks the .tmp file itself (when that fails the
\* run raises, as in DownloadFails) and resolves the URL anew, the first time.
DownloadRefused ==
    /\ Step("download", "resolve")
    /\ ~ second
    /\ Sent
    /\ TmpGone
    /\ second' = TRUE /\ attempt' = 1 /\ refreshed' = FALSE
    /\ UNCHANGED <<final, cand, sized, handed, skipped, waited, runs>>

\* The second time it is a ghost.
DownloadGhost ==
    /\ phase = "download"
    /\ second
    /\ Sent
    /\ TmpGone
    /\ Ghost
    /\ UNCHANGED waited

\* The service answers with a body, which is written to the .tmp file ...
BodyBegins ==
    /\ Step("download", "write")
    /\ Sent
    /\ tmp' = [tmp EXCEPT ![cand] = "partial"]
    /\ UNCHANGED <<final, cand, sized, second, attempt, refreshed, handed, skipped, torn, waited,
                   runs>>

\* ... in full ...
BodyComplete ==
    /\ Step("write", "publish")
    /\ tmp' = [tmp EXCEPT ![cand] = "complete"]
    /\ UNCHANGED <<final, cand, sized, second, attempt, refreshed, handed, skipped, torn,
                   counters, runs>>

\* Mutant: the byte count is not compared with the listed size.
BodyShortUnnoticed ==
    /\ Step("write", "publish")
    /\ tmp' = [tmp EXCEPT ![cand] = "short"]
    /\ UNCHANGED <<final, cand, sized, second, attempt, refreshed, handed, skipped, torn,
                   counters, runs>>

\* ... or not: noticed only when the size is known.
BodyShort ==
    \/ /\ Step("write", "publish")
       /\ ~ sized
       /\ tmp' = [tmp EXCEPT ![cand] = "short"]
       /\ UNCHANGED <<final, cand, sized, second, attempt, refreshed, handed, skipped, torn,
                      counters, runs>>
    \/ /\ Step("write", "download")
       /\ sized
       /\ CleanUp
       /\ attempt < MaxAttempts
       /\ attempt' = attempt + 1
       /\ \E d \in ComputeDelays(attempt, FALSE) : waited' = waited + d
       /\ UNCHANGED <<final, cand, sized, second, refreshed, handed, skipped, requests, runs>>

\* The disk is full, or the last attempt was short as well.
WriteFails ==
    /\ phase = "write"
    /\ CleanUp
    /\ FetchEnds
    /\ UNCHANGED <<final, counters>>

\* The process dies, or publishing fails: what is on disk stays.
FetchCrash ==
    /\ phase # "idle"
    /\ FetchEnds
    /\ torn' = torn \union ({cand} \intersect Page)
    /\ UNCHANGED <<files, counters>>

-----------------------------------------------------------------------------

DownloadNext ==
    /\ \/ RunBegins \/ PageEnds \/ NextCandidate \/ BlockUnsized \/ Publish
       \/ ResolveRetry \/ ResolveRefresh \/ ResolveFails \/ ResolveGhost \/ ResolveUrl
       \/ DownloadRetry \/ DownloadFails \/ DownloadRefused \/ DownloadGhost
       \/ BodyBegins \/ BodyComplete \/ BodyShort \/ WriteFails \/ FetchCrash
    /\ UNCHANGED strict

DownloadSpec == DownloadInit /\ [][DownloadNext]_downloadVars

-----------------------------------------------------------------------------

\* "final filename only after the download is complete" (INV-ST01): no crash,
\* retry or short answer ever leaves a final staging file that is not the
\* whole file, and the rows handed over name such files.
FinalIsComplete ==
    /\ \A i \in Page : final[i] \in {"none", "complete"}
    /\ \A i \in handed : final[i] = "complete"

\* Whatever became of a candidate, a .tmp file is the one being written or
\* one a crash or a failed unlink left (which startup recovery moves away once
\* it is old), and a candidate the run has passed has its row or its reason for
\* having none.
NothingLeftBehind ==
    /\ \A i \in Page : tmp[i] # "none" =>
          i \in torn \/ (i = cand /\ phase \in {"write", "publish"})
    /\ \A i \in 1..(cand - 1) : i \in handed \union skipped

\* The two request loops nest and restart each other: resolve, download, and
\* after a refusal both once more.  One candidate costs at most four rounds of
\* max_attempts requests and the waits between them.
EffortBounded ==
    /\ requests <= 4 * MaxAttempts
    /\ waited <= 4 * (MaxAttempts - 1) * MaxDelay

=============================================================================
