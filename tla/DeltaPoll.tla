----------------------------- MODULE DeltaPoll -----------------------------
(***************************************************************************)
(* One account's delta traversal, poll_account_once of                     *)
(* adapters/onedrive/client.py: pages are fetched from the stored cursor,  *)
(* their candidates downloaded and handed to ingest, and the cursor saved  *)
(* page by page.                                                           *)
(*                                                                         *)
(* The service is a feed of events.  A link stands for a position in the   *)
(* feed and the epoch it was issued in; when the service expires its       *)
(* tokens, links of earlier epochs are answered 410 Gone.  Fetching,       *)
(* downloading and ingesting may fail in ways that end the poll run; how   *)
(* the requests themselves are retried is the subject of Download.         *)
(***************************************************************************)
EXTENDS Naturals, Sequences, FiniteSets

CONSTANTS
    Items,            \* item ids
    MaxEvents,        \* bound: length of the feed
    PageSize,         \* events on a page
    MaxDownloads,     \* account.max_downloads
    MaxPages,         \* max_delta_pages
    LoopThreshold,    \* delta_loop_resync_threshold
    GhostThreshold,   \* delta_breaker_ghost_threshold
    StaleThreshold,   \* delta_breaker_stale_page_threshold
    Faults,           \* what can go wrong, of FaultKinds
    MaxFaults,        \* bound: number of faults
    None              \* Python's None

FaultKinds == {"crash", "error", "runtime", "ghost", "cycle", "no_link", "expire"}

Links == [epoch: Nat, pos: 0..MaxEvents]

ASSUME DeltaAssumption ==
    /\ MaxEvents \in Nat /\ MaxFaults \in Nat
    /\ PageSize \in Nat \ {0} /\ MaxDownloads \in Nat \ {0}
    /\ MaxPages \in Nat \ {0} /\ LoopThreshold \in Nat \ {0}
    /\ GhostThreshold \in Nat /\ StaleThreshold \in Nat
    /\ Faults \subseteq FaultKinds
    /\ None \notin Links

VARIABLES
    \* the service
    feed,            \* the events so far
    epoch,           \* token generation; 0 is the initial URL, which never expires
    faults,          \* faults left to happen
    \* durable state of the poller
    cursor,          \* account.delta_cursor
    marker,          \* the resync marker file exists
    loop_incidents,  \* in the incident state file
    cooldown,        \* the breaker's cooldown has not elapsed
    \* the poll run
    pc,
    next_url, delta_link,
    seen_links,      \* seen_next_links
    seen_items,      \* seen_item_ids
    page_count, downloaded, stale, ghosts,
    page,            \* positions of the page being processed
    staged,          \* positions downloaded and not yet handed to ingest
    \* what became of each event (no variable of the program)
    fate

serviceVars == <<feed, epoch, faults>>
durableVars == <<cursor, marker, loop_incidents, cooldown>>
runVars == <<pc, next_url, delta_link, seen_links, seen_items, page_count,
             downloaded, stale, ghosts, page, staged>>
vars == <<serviceVars, durableVars, runVars, fate>>

Positions == 1..MaxEvents
\* A delta entry is a file, a tombstone, or something the reducer ignores (a
\* folder, an entry it cannot validate).
Events == [item: Items, kind: {"file", "deleted", "other"}]
Fates == {"none", "handed", "ignored", "ghost", "cut"}

InitialUrl == [epoch |-> 0, pos |-> 0]

TypeOK ==
    /\ feed \in Seq(Events) /\ Len(feed) <= MaxEvents
    /\ epoch \in Nat /\ faults \in 0..MaxFaults
    /\ cursor \in Links
    /\ marker \in BOOLEAN /\ cooldown \in BOOLEAN
    /\ loop_incidents \in Nat
    /\ pc \in {"idle", "loop", "resync", "reset", "fetch", "download", "handoff", "save",
               "unmark", "finish", "breaker"}
    /\ next_url \in Links \union {None} /\ delta_link \in Links \union {None}
    /\ seen_links \subseteq Links /\ seen_items \subseteq Items
    /\ page_count \in Nat /\ downloaded \in Nat /\ stale \in Nat /\ ghosts \in Nat
    /\ page \subseteq Positions /\ staged \subseteq Positions
    /\ fate \in [Positions -> Fates]

Init ==
    /\ feed = <<>> /\ epoch = 1 /\ faults = MaxFaults
    /\ cursor = InitialUrl     \* no cursor file
    /\ marker = FALSE /\ loop_incidents = 0 /\ cooldown = FALSE
    /\ pc = "idle"
    /\ next_url = None /\ delta_link = None
    /\ seen_links = {} /\ seen_items = {}
    /\ page_count = 0 /\ downloaded = 0 /\ stale = 0 /\ ghosts = 0
    /\ page = {} /\ staged = {}
    /\ fate = [k \in Positions |-> "none"]

-----------------------------------------------------------------------------
(* The service, and time *)

CloudChange ==
    /\ Len(feed) < MaxEvents
    /\ \E e \in Events : feed' = Append(feed, e)
    /\ UNCHANGED <<epoch, faults, durableVars, runVars, fate>>

\* A fault of kind f happens.
Fault(f) ==
    /\ f \in Faults
    /\ faults > 0
    /\ faults' = faults - 1

\* The service expires the tokens it has issued.
Expire ==
    /\ Fault("expire")
    /\ epoch' = epoch + 1
    /\ UNCHANGED <<feed, durableVars, runVars, fate>>

CooldownElapses ==
    /\ cooldown
    /\ cooldown' = FALSE
    /\ UNCHANGED <<serviceVars, cursor, marker, loop_incidents, runVars, fate>>

-----------------------------------------------------------------------------
(* poll_account_once *)

\* The run is over: its local state is gone.
RunEnds ==
    /\ pc' = "idle"
    /\ next_url' = None /\ delta_link' = None
    /\ seen_links' = {} /\ seen_items' = {}
    /\ page_count' = 0 /\ downloaded' = 0 /\ stale' = 0 /\ ghosts' = 0
    /\ page' = {} /\ staged' = {}

\* A run starts at the saved cursor, unless the breaker is cooling down.
PollStart ==
    /\ pc = "idle"
    /\ ~ cooldown
    /\ pc' = "loop"
    /\ next_url' = cursor
    /\ UNCHANGED <<serviceVars, durableVars, delta_link, seen_links, seen_items,
                   page_count, downloaded, stale, ghosts, page, staged, fate>>

\* The download budget is used up: stop before the next page.
BudgetReached ==
    /\ pc = "loop"
    /\ downloaded >= MaxDownloads
    /\ pc' = "finish"
    /\ UNCHANGED <<serviceVars, durableVars, next_url, delta_link, seen_links,
                   seen_items, page_count, downloaded, stale, ghosts, page, staged,
                   fate>>

RuntimeLimit ==
    /\ pc = "loop"
    /\ downloaded < MaxDownloads
    /\ Fault("runtime")
    /\ RunEnds
    /\ UNCHANGED <<feed, epoch, durableVars, fate>>

PageLimit ==
    /\ pc = "loop"
    /\ downloaded < MaxDownloads
    /\ page_count >= MaxPages
    /\ RunEnds
    /\ UNCHANGED <<serviceVars, durableVars, fate>>

\* The link was walked before in this run: an incident.  The run ends, or at the
\* threshold goes on to force a resync.
LinkCycle ==
    /\ pc = "loop"
    /\ downloaded < MaxDownloads
    /\ page_count < MaxPages
    /\ next_url \in seen_links
    /\ loop_incidents' = loop_incidents + 1
    /\ IF loop_incidents + 1 >= LoopThreshold
       THEN pc' = "resync" /\ UNCHANGED <<next_url, delta_link, seen_links, seen_items,
                page_count, downloaded, stale, ghosts, page, staged>>
       ELSE RunEnds
    /\ UNCHANGED <<serviceVars, cursor, marker, cooldown, fate>>

\* _mark_resync_required ...
ForceResync ==
    /\ pc = "resync"
    /\ marker' = TRUE
    /\ pc' = "reset"
    /\ UNCHANGED <<serviceVars, cursor, loop_incidents, cooldown, next_url, delta_link,
                   seen_links, seen_items, page_count, downloaded, stale, ghosts, page, staged,
                   fate>>

\* ... and _reset_loop_incidents
ResetIncidents ==
    /\ pc = "reset"
    /\ loop_incidents' = 0
    /\ RunEnds
    /\ UNCHANGED <<serviceVars, cursor, marker, cooldown, fate>>

RequestPage ==
    /\ pc = "loop"
    /\ downloaded < MaxDownloads
    /\ page_count < MaxPages
    /\ next_url \notin seen_links
    /\ pc' = "fetch"
    /\ seen_links' = seen_links \union {next_url}
    /\ UNCHANGED <<serviceVars, durableVars, next_url, delta_link, seen_items,
                   page_count, downloaded, stale, ghosts, page, staged, fate>>

\* 410 Gone: the marker is written and the run returns.
ResyncRequired ==
    /\ pc = "fetch"
    /\ next_url.epoch \notin {0, epoch}
    /\ marker' = TRUE
    /\ RunEnds
    /\ UNCHANGED <<serviceVars, cursor, loop_incidents, cooldown, fate>>

FetchFails ==
    /\ pc = "fetch"
    /\ Fault("error")
    /\ RunEnds
    /\ UNCHANGED <<feed, epoch, durableVars, fate>>

\* _count_replayed_item_ids: entries of the page about an item seen before.
Replayed(from, to) ==
    {k \in (from + 1)..to :
        \/ feed[k].item \in seen_items
        \/ \E j \in (from + 1)..(k - 1) : feed[j].item = feed[k].item}

\* The page answered for next_url ends at position to.
TakePage(to) ==
    LET from == next_url.pos
    IN  /\ next_url.epoch \in {0, epoch}
        /\ to \in from..Len(feed)
        /\ to <= from + PageSize
        /\ pc' = "download"
        /\ page' = (from + 1)..to
        /\ page_count' = page_count + 1
        /\ stale' = stale + Cardinality(Replayed(from, to))
        /\ seen_items' = seen_items \union {feed[k].item : k \in (from + 1)..to}
        /\ UNCHANGED <<feed, epoch, durableVars, seen_links, downloaded, ghosts,
                       staged, fate>>

\* A page with more after it carries a nextLink, the last one a deltaLink.
FetchPage ==
    /\ pc = "fetch"
    /\ \E to \in 0..MaxEvents :
          /\ TakePage(to)
          /\ \/ /\ to < Len(feed) /\ to > next_url.pos
                /\ next_url' = [epoch |-> epoch, pos |-> to]
                /\ UNCHANGED delta_link
             \/ /\ to = Len(feed)
                /\ next_url' = None
                /\ delta_link' = [epoch |-> epoch, pos |-> to]
    /\ UNCHANGED faults

\* The service answers a page whose nextLink was walked already, or that has
\* no link at all.
FetchBadPage ==
    /\ pc = "fetch"
    /\ \E to \in 0..MaxEvents : TakePage(to)
    /\ \/ Fault("cycle") /\ next_url' \in seen_links
       \/ Fault("no_link") /\ next_url' = None
    /\ UNCHANGED delta_link

\* _reduce_delta_page_candidates: the last file or tombstone event of an item
\* on the page wins; entries that are neither do not count.
Candidates ==
    {k \in page :
        /\ feed[k].kind = "file"
        /\ \A j \in page : j > k /\ feed[j].item = feed[k].item => feed[j].kind = "other"}

\* The first candidates, as many as the download budget has left.
WithinBudget ==
    {k \in Candidates :
        Cardinality({j \in Candidates : j < k}) < MaxDownloads - downloaded}

\* download_candidates.  Candidates that stay unreachable or have no size are
\* ghosts; one listed without a download URL is counted as one even when its
\* URL is then resolved.
DownloadCandidates ==
    /\ pc = "download"
    /\ \E unreachable \in SUBSET WithinBudget : \E unlisted \in SUBSET WithinBudget :
          /\ "ghost" \in Faults \/ (unreachable = {} /\ unlisted = {})
          /\ ghosts' = ghosts + Cardinality(unreachable) + Cardinality(unlisted)
          /\ staged' = WithinBudget \ unreachable
          /\ downloaded' = downloaded + Cardinality(WithinBudget \ unreachable)
          /\ fate' = [k \in Positions |->
                        IF k \in unreachable THEN "ghost"
                        ELSE IF k \in Candidates \ WithinBudget THEN "cut"
                        ELSE IF k \in page \ Candidates THEN "ignored"
                        ELSE fate[k]]
    /\ pc' = "handoff"
    /\ UNCHANGED <<serviceVars, durableVars, next_url, delta_link, seen_links,
                   seen_items, page_count, stale, page>>

\* page_handoff_processor: the rows are processed in order, in this process.
HandOff ==
    /\ pc = "handoff"
    /\ \E k \in staged :
          /\ \A j \in staged : k <= j
          /\ staged' = staged \ {k}
          /\ fate' = [fate EXCEPT ![k] = "handed"]
    /\ UNCHANGED <<serviceVars, durableVars, pc, next_url, delta_link, seen_links,
                   seen_items, page_count, downloaded, stale, ghosts, page>>

\* A download or the ingest of a row raises: the run fails.
PageFails ==
    /\ pc \in {"download", "handoff"}
    /\ Fault("error")
    /\ RunEnds
    /\ UNCHANGED <<feed, epoch, durableVars, fate>>

\* Mutant: the cursor may be saved before the rows are handed over.
PageDoneEarly ==
    /\ pc = "handoff"
    /\ pc' = IF next_url # None THEN "save" ELSE "finish"
    /\ page' = {}
    /\ staged' = {}
    /\ UNCHANGED <<serviceVars, durableVars, next_url, delta_link, seen_links,
                   seen_items, page_count, downloaded, stale, ghosts, fate>>

PageDone ==
    /\ pc = "handoff"
    /\ staged = {}
    /\ pc' = IF next_url # None THEN "save" ELSE "finish"
    /\ page' = {}
    /\ UNCHANGED <<serviceVars, durableVars, next_url, delta_link, seen_links,
                   seen_items, page_count, downloaded, stale, ghosts, staged, fate>>

\* Mutant: only the delta link at the end of the chain is saved.
SaveNextLinkNever ==
    /\ pc = "save"
    /\ pc' = "unmark"
    /\ UNCHANGED <<serviceVars, durableVars, next_url, delta_link, seen_links,
                   seen_items, page_count, downloaded, stale, ghosts, page, staged,
                   fate>>

\* _save_cursor(next_url)
SaveNextLink ==
    /\ pc = "save"
    /\ cursor' = next_url
    /\ pc' = "unmark"
    /\ UNCHANGED <<serviceVars, marker, loop_incidents, cooldown, next_url,
                   delta_link, seen_links, seen_items, page_count, downloaded, stale,
                   ghosts, page, staged, fate>>

\* Mutant: the missing delta link is not noticed.
SaveDeltaLinkUnchecked ==
    /\ pc = "finish"
    /\ cursor' = delta_link
    /\ pc' = "unmark"
    /\ UNCHANGED <<serviceVars, marker, loop_incidents, cooldown, next_url,
                   delta_link, seen_links, seen_items, page_count, downloaded, stale,
                   ghosts, page, staged, fate>>

\* After the loop: _save_cursor(delta_link).  Without a delta link the run
\* fails, unless it stopped for the budget.
SaveDeltaLink ==
    /\ pc = "finish"
    /\ delta_link # None
    /\ cursor' = delta_link
    /\ pc' = "unmark"
    /\ UNCHANGED <<serviceVars, marker, loop_incidents, cooldown, next_url,
                   delta_link, seen_links, seen_items, page_count, downloaded, stale,
                   ghosts, page, staged, fate>>

MissingDeltaLink ==
    /\ pc = "finish"
    /\ delta_link = None
    /\ next_url = None
    /\ RunEnds
    /\ UNCHANGED <<serviceVars, durableVars, fate>>

HaltedForBudget ==
    /\ pc = "finish"
    /\ delta_link = None
    /\ next_url # None
    /\ pc' = "breaker"
    /\ UNCHANGED <<serviceVars, durableVars, next_url, delta_link, seen_links,
                   seen_items, page_count, downloaded, stale, ghosts, page, staged,
                   fate>>

\* _clear_resync_marker
ClearMarker ==
    /\ pc = "unmark"
    /\ marker' = FALSE
    /\ pc' = IF next_url # None THEN "loop" ELSE "breaker"
    /\ UNCHANGED <<serviceVars, cursor, loop_incidents, cooldown, next_url,
                   delta_link, seen_links, seen_items, page_count, downloaded, stale,
                   ghosts, page, staged, fate>>

\* The run returns, arming the breaker on too many replayed items or ghosts.
PollEnd ==
    /\ pc = "breaker"
    /\ cooldown' = (stale >= StaleThreshold \/ ghosts >= GhostThreshold)
    /\ RunEnds
    /\ UNCHANGED <<serviceVars, cursor, marker, loop_incidents, fate>>

Crash ==
    /\ pc # "idle"
    /\ Fault("crash")
    /\ RunEnds
    /\ UNCHANGED <<feed, epoch, durableVars, fate>>

-----------------------------------------------------------------------------

\* The steps of the poller that are not faults.
PollStep ==
    \/ PollStart \/ BudgetReached \/ PageLimit \/ LinkCycle \/ ForceResync
    \/ ResetIncidents \/ RequestPage \/ ResyncRequired \/ FetchPage
    \/ DownloadCandidates \/ HandOff \/ PageDone
    \/ SaveNextLink \/ SaveDeltaLink \/ MissingDeltaLink \/ HaltedForBudget
    \/ ClearMarker \/ PollEnd

FaultStep ==
    \/ Expire \/ RuntimeLimit \/ FetchFails \/ FetchBadPage \/ PageFails \/ Crash

Next == PollStep \/ FaultStep \/ CloudChange \/ CooldownElapses

Spec == Init /\ [][Next]_vars

\* The poll timer keeps firing and a running poll keeps going; the cooldown
\* is a time interval and ends.  Faults and changes owe nothing.
FairSpec == Spec /\ WF_vars(PollStep) /\ WF_vars(CooldownElapses)

-----------------------------------------------------------------------------

\* The events up to position p are dealt with: each was handed to ingest,
\* given up as a ghost, cut by the budget, or ignored for a reason the feed
\* gives (it is no file, or a later event up to p is about the same item).
DealtWith(p) ==
    \A k \in 1..p :
        /\ fate[k] # "none"
        /\ fate[k] = "ignored" =>
              \/ feed[k].kind # "file"
              \/ \E j \in (k + 1)..p :
                    feed[j].item = feed[k].item /\ feed[j].kind # "other"

\* "Never advance cursor before page ingest side effects are durable"
\* (design/specs/ingest.md:41): whatever fails, and wherever a run stops,
\* every event behind the saved cursor has been dealt with.
CursorBehindIngest == DealtWith(cursor.pos)

\* With a service that fails finitely often, the poller gets to every event,
\* however runs are cut short by the budget, the page limit, the breaker or a
\* crash; only an expired cursor, which a 410 does not discard, stops it.
EventuallyDealtWith ==
    \A k \in Positions :
        Len(feed) >= k ~> (fate[k] # "none" \/ cursor.epoch \notin {0, epoch})

\* When the download limit is reached, "processing of the current page
\* completes" (error-taxonomy-and-resilience.md, section 7.1): the cursor never
\* passes an event the limit cut off.
BudgetCutsNothing == \A k \in 1..cursor.pos : fate[k] # "cut"

=============================================================================
