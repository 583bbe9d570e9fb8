---------------------------- MODULE WebControl ----------------------------
(***************************************************************************)
(* The web control plane: triage, the block rules, the idempotency keys    *)
(* both use, the audit rows of a triage request and the thumbnail cache    *)
(* (api/services, api/routers, api/audit_hook.py, api/auth.py).            *)
(*                                                                         *)
(* One process serves the requests and its handlers do not await, so they  *)
(* run one after another on one shared SQLite connection.  Between their   *)
(* transactions the command line, the poller and the thumbnail sweep run.  *)
(* A write may find the database locked by one of them.  A client may send *)
(* any request at any time, a repeated key included.                       *)
(***************************************************************************)
EXTENDS Naturals, FiniteSets

CONSTANTS
    Items,          \* contents, by SHA-256
    Keys,           \* idempotency keys
    Patterns,       \* patterns of block rules
    MaxRules,       \* bound: block rules ever created
    MaxLocked,      \* bound: writes that find the database locked
    MaxCrashes,     \* bound: crashes of the API process
    None

ASSUME WebAssumption ==
    MaxRules \in Nat /\ MaxLocked \in Nat /\ MaxCrashes \in Nat

VARIABLES
    status,     \* files.status
    moved,      \* items whose file is not at current_path
    thumb,      \* the thumbnail cache
    rules,      \* blocked_rules, by id
    created,    \* the AUTOINCREMENT counter of blocked_rules
    keys,       \* ui_action_idempotency
    unclosed,   \* triage_*_requested rows less triage_*_applied and _compensating
    pc, req,    \* the request being served and how far it is
    txn,        \* the transaction open on the shared connection
    view,       \* files.status as that transaction sees it
    stale,      \* another process has committed since it began to read
    sweep,      \* garbage_collect: the items read as pending, those to visit
    answered,   \* successful answers by key (no program variable)
    effects,    \* committed changes by key (no program variable)
    torn,       \* requests cut short, by item (no program variable)
    locked, crashes

db == <<status, rules, created, keys, unclosed>>
connection == <<txn, view, stale>>
ghosts == <<answered, effects, torn>>
bounds == <<locked, crashes>>
vars == <<db, moved, thumb, pc, req, connection, sweep, ghosts, bounds>>

Ids == 1..MaxRules
Status == {"absent", "pending", "accepted", "rejected", "purged"}
Rule == [pattern : Patterns, enabled : BOOLEAN]
TriageOps == {"accept", "reject", "defer"}

\* _ACTION_TO_STATE
StateOf == [accept |-> "accepted", reject |-> "rejected", defer |-> "pending"]

\* What a key stores: the operation, what it was applied to and the answer.
Stored == [op : TriageOps, target : Items, body : Status]
          \union [op : {"create"}, target : Patterns, body : Ids \X Rule]
          \union [op : {"update"}, target : Ids, body : Ids \X Rule]
          \union [op : {"delete"}, target : Ids, body : {"deleted"}]

\* No stored answer can be taken for a key that is not there.
ASSUME NoneAssumption == None \notin Stored

Request == [key : Keys, op : TriageOps \union {"create", "update", "delete"},
            target : Items \union Patterns \union Ids]

TypeOK ==
    /\ status \in [Items -> Status] /\ moved \subseteq Items
    /\ thumb \in [Items -> {"none", "image", "marker"}]
    /\ rules \in [Ids -> Rule \union {None}] /\ created \in 0..MaxRules
    /\ keys \in [Keys -> Stored \union {None}]
    /\ unclosed \in [Items -> Nat] /\ torn \in [Items -> Nat]
    /\ pc \in {"idle", "mutate", "compensate", "answer", "generate"}
    /\ req \in Request \union Items \union {None}
    /\ txn \in {"none", "open", "read"} /\ view \in [Items -> Status]
    /\ stale \in BOOLEAN
    /\ sweep \in [on : BOOLEAN, pending : SUBSET Items, todo : SUBSET Items]
    /\ answered \in [Keys -> SUBSET Stored] /\ effects \in [Keys -> 0..2]
    /\ locked \in 0..MaxLocked /\ crashes \in 0..MaxCrashes

Init ==
    /\ status \in [Items -> {"absent", "pending"}] /\ moved = {}
    /\ thumb = [i \in Items |-> "none"]
    /\ rules = [r \in Ids |-> None] /\ created = 0
    /\ keys = [k \in Keys |-> None]
    /\ unclosed = [i \in Items |-> 0] /\ torn = [i \in Items |-> 0]
    /\ pc = "idle" /\ req = None
    /\ txn = "none" /\ view = status /\ stale = FALSE
    /\ sweep = [on |-> FALSE, pending |-> {}, todo |-> {}]
    /\ answered = [k \in Keys |-> {}] /\ effects = [k \in Keys |-> 0]
    /\ locked = 0 /\ crashes = 0

-----------------------------------------------------------------------------
(* The shared connection (external: sqlite3 and SQLite in WAL mode).  A    *)
(* write opens a transaction by itself; when it fails nothing closes that. *)
(* The first read in it fixes what it sees; once another process has       *)
(* committed, no write in it can succeed any more.                         *)

Close == txn' = "none" /\ view' = status' /\ stale' = FALSE

Seen == IF txn = "read" THEN view ELSE status

Read ==
    /\ txn' = IF txn = "open" THEN "read" ELSE txn
    /\ view' = IF txn = "open" THEN status ELSE view
    /\ UNCHANGED stale

\* A read and then a write that fails.
ReadThenLocked ==
    /\ stale \/ locked < MaxLocked
    /\ locked' = IF stale THEN locked ELSE locked + 1
    /\ txn' = IF txn = "none" THEN "open" ELSE "read"
    /\ view' = IF txn = "open" THEN status ELSE view
    /\ UNCHANGED stale

\* Another process commits: status changes for item i.
ForeignCommit(i, s) ==
    /\ status' = [status EXCEPT ![i] = s]
    /\ stale' = (txn = "read")
    /\ view' = IF txn = "read" THEN view ELSE status'
    /\ UNCHANGED <<txn, rules, created, keys, unclosed>>

-----------------------------------------------------------------------------
(* Idempotency keys *)

\* Mutant: only the key and the operation are compared.
ConflictsByOpOnly(k, op, target) == keys[k] # None /\ keys[k].op # op

\* The key was used for something else.
Conflicts(k, op, target) ==
    keys[k] # None /\ (keys[k].op # op \/ keys[k].target # target)

\* The key row, written by the transaction that makes the change.
PersistIdempotency(k, op, target, body) ==
    /\ keys' = [keys EXCEPT ![k] = [op |-> op, target |-> target, body |-> body]]
    /\ effects' = [effects EXCEPT ![k] = IF @ = 2 THEN 2 ELSE @ + 1]

\* A request whose key is known: 409, or the stored answer again.
ReplayIfPresent(k, op, target) ==
    /\ keys[k] # None
    /\ Read
    /\ answered' = IF Conflicts(k, op, target) THEN answered
                   ELSE [answered EXCEPT ![k] = @ \union
                            {[op |-> op, target |-> target, body |-> keys[k].body]}]
    /\ UNCHANGED <<db, moved, thumb, pc, req, sweep, effects, torn, bounds>>

-----------------------------------------------------------------------------
(* TriageService.execute *)

Idle == pc' = "idle" /\ req' = None

\* The audit rows of a request: one opens it, one closes it.
WriteRequestedEvent(i) == unclosed' = [unclosed EXCEPT ![i] = @ + 1]
WriteCompensatingEvent(i) == unclosed' = [unclosed EXCEPT ![i] = @ - 1]

\* A new key: the requested row is written and committed by itself.
TriageRequested(k, op, i) ==
    /\ keys[k] = None
    /\ ~ stale
    /\ WriteRequestedEvent(i)
    /\ pc' = "mutate" /\ req' = [key |-> k, op |-> op, target |-> i]
    /\ UNCHANGED status /\ Close
    /\ UNCHANGED <<rules, created, keys, moved, thumb, sweep, ghosts, bounds>>

\* That write fails: 500, and the transaction it opened stays open.
TriageRequestLocked(k, op, i) ==
    /\ keys[k] = None
    /\ ReadThenLocked
    /\ UNCHANGED <<db, moved, thumb, pc, req, sweep, ghosts, crashes>>

\* The transaction: status, applied row and key together.
TriageApplied ==
    /\ pc = "mutate"
    /\ status[req.target] # "absent"
    /\ status' = [status EXCEPT ![req.target] = StateOf[req.op]]
    /\ unclosed' = [unclosed EXCEPT ![req.target] = @ - 1]
    /\ PersistIdempotency(req.key, req.op, req.target, StateOf[req.op])
    /\ Close
    /\ pc' = "answer"
    /\ UNCHANGED <<rules, created, moved, thumb, req, sweep, answered, torn, bounds>>

\* No such item, or the database is locked: rolled back.
TriageFails ==
    /\ pc = "mutate"
    /\ \/ status[req.target] = "absent" /\ UNCHANGED locked
       \/ locked < MaxLocked /\ locked' = locked + 1
    /\ pc' = "compensate"
    /\ UNCHANGED <<db, moved, thumb, req, connection, sweep, ghosts, crashes>>

\* Mutant: a request for an unknown item is answered without closing its row.
TriageCompensatedIfKnown ==
    /\ pc = "compensate"
    /\ unclosed' = [unclosed EXCEPT ![req.target] =
                       IF status[req.target] = "absent" THEN @ ELSE @ - 1]
    /\ Idle
    /\ UNCHANGED <<status, rules, created, keys, moved, thumb, connection, sweep, ghosts,
                   bounds>>

\* The compensating row: 404 or 500.
TriageCompensated ==
    /\ pc = "compensate"
    /\ WriteCompensatingEvent(req.target)
    /\ Idle
    /\ UNCHANGED <<status, rules, created, keys, moved, thumb, connection, sweep, ghosts,
                   bounds>>

\* It cannot be written either.
TriageCompensationLocked ==
    /\ pc = "compensate"
    /\ ReadThenLocked
    /\ torn' = [torn EXCEPT ![req.target] = @ + 1]
    /\ Idle
    /\ UNCHANGED <<db, moved, thumb, sweep, answered, effects, crashes>>

PurgeCacheEntry(i) == thumb' = [thumb EXCEPT ![i] = "none"]

\* The answer leaves; before it, an accepted or rejected item loses its
\* thumbnail, if it can be removed.
Answer ==
    /\ pc = "answer"
    /\ answered' = [answered EXCEPT ![req.key] = @ \union {keys[req.key]}]
    /\ \/ UNCHANGED thumb
       \/ req.op \in {"accept", "reject"} /\ PurgeCacheEntry(req.target)
    /\ Idle
    /\ UNCHANGED <<db, moved, connection, sweep, effects, torn, bounds>>

-----------------------------------------------------------------------------
(* BlocklistService.  What the three operations do to the rules: new is    *)
(* blocked_rules afterwards, body the answer.                              *)

Free(p, id) == \A r \in Ids \ {id} : rules[r] # None => rules[r].pattern # p

Change(k, op, target, new, body) ==
    /\ rules' = new
    /\ PersistIdempotency(k, op, target, body)
    /\ pc' = "answer" /\ req' = [key |-> k, op |-> op, target |-> target]
    /\ UNCHANGED <<status, unclosed, moved, thumb, connection, sweep, answered, torn, bounds>>

\* BEGIN succeeds only outside a transaction.
CreateRule(k, rule) ==
    /\ keys[k] = None /\ txn = "none"
    /\ Free(rule.pattern, 0)
    /\ created < MaxRules
    /\ created' = created + 1
    /\ Change(k, "create", rule.pattern, [rules EXCEPT ![created'] = rule],
              <<created', rule>>)

\* A PATCH leaves out the fields it does not change.
UpdateRule(k, id, rule) ==
    /\ keys[k] = None /\ txn = "none"
    /\ rules[id] # None
    /\ Free(rule.pattern, id)
    /\ Change(k, "update", id, [rules EXCEPT ![id] = rule], <<id, rule>>)
    /\ UNCHANGED created

DeleteRule(k, id) ==
    /\ keys[k] = None /\ txn = "none"
    /\ rules[id] # None
    /\ Change(k, "delete", id, [rules EXCEPT ![id] = None], "deleted")
    /\ UNCHANGED created

\* 404, 409 for a taken pattern, 500 for a lock or an open transaction: the
\* rules stay, but the key's row and the rule have been read.
RuleRefused(k) ==
    /\ keys[k] = None
    /\ Read
    /\ UNCHANGED <<db, moved, thumb, pc, req, sweep, ghosts, bounds>>

-----------------------------------------------------------------------------
(* verify_api_token: a request without a valid token is answered 401 and   *)
(* leaves an auth_failure row, once a minute for the same client and path. *)

AuthFailure ==
    \/ /\ ~ stale
       /\ UNCHANGED status /\ Close
       /\ UNCHANGED <<rules, created, keys, unclosed, locked>>
    \/ /\ stale \/ locked < MaxLocked
       /\ locked' = IF stale THEN locked ELSE locked + 1
       /\ txn' = IF txn = "none" THEN "open" ELSE txn
       /\ UNCHANGED <<db, view, stale>>

RefuseToken ==
    /\ AuthFailure
    /\ UNCHANGED <<moved, thumb, pc, req, sweep, ghosts, crashes>>

-----------------------------------------------------------------------------
(* ThumbnailService *)

\* The row, as the connection sees it, says pending.
PendingSource(i) == Seen[i] = "pending"

\* The row says pending, nothing is cached and the file is there.
ThumbnailMissing(i) ==
    /\ Read
    /\ PendingSource(i) /\ thumb[i] = "none" /\ i \notin moved
    /\ pc' = "generate" /\ req' = i
    /\ UNCHANGED <<db, moved, thumb, sweep, ghosts, bounds>>

\* Any other request for a thumbnail changes nothing but the transaction.
ThumbnailServed ==
    /\ Read
    /\ UNCHANGED <<db, moved, thumb, pc, req, sweep, ghosts, bounds>>

WriteZeroMarker(i) == thumb' = [thumb EXCEPT ![i] = "marker"]

\* The file is opened and decoded.  If that fails, because it is no image or
\* cannot be read, or has been moved by now, an empty marker is cached.  A
\* thumbnail or a marker may fail to be written.
GenerateThumbnail ==
    /\ pc = "generate"
    /\ \/ UNCHANGED thumb
       \/ WriteZeroMarker(req)
       \/ req \notin moved /\ thumb' = [thumb EXCEPT ![req] = "image"]
    /\ Idle
    /\ UNCHANGED <<db, moved, connection, sweep, ghosts, bounds>>

\* metricsctl thumbnail-gc, in a process of its own: the pending items are
\* read, then the cache is walked.
SweepBegins ==
    /\ ~ sweep.on
    /\ sweep' = [on |-> TRUE, pending |-> {i \in Items : status[i] = "pending"},
                 todo |-> Items]
    /\ UNCHANGED <<db, moved, thumb, pc, req, connection, ghosts, bounds>>

\* Mutant: empty files are not looked at.
SweepVisitImages(i) ==
    /\ i \in sweep.todo
    /\ sweep' = [sweep EXCEPT !.todo = @ \ {i}]
    /\ thumb' = IF i \notin sweep.pending /\ thumb[i] = "image"
                THEN [thumb EXCEPT ![i] = "none"] ELSE thumb
    /\ UNCHANGED <<db, moved, pc, req, connection, ghosts, bounds>>

SweepVisit(i) ==
    /\ i \in sweep.todo
    /\ sweep' = [sweep EXCEPT !.todo = @ \ {i}]
    /\ IF i \notin sweep.pending THEN PurgeCacheEntry(i) ELSE UNCHANGED thumb
    /\ UNCHANGED <<db, moved, pc, req, connection, ghosts, bounds>>

\* It is through, or it is stopped before.
SweepEnds ==
    /\ sweep.on
    /\ sweep' = [on |-> FALSE, pending |-> {}, todo |-> {}]
    /\ UNCHANGED <<db, moved, thumb, pc, req, connection, ghosts, bounds>>

-----------------------------------------------------------------------------
(* The other processes: ingest adds an item; accept, reject and purge move *)
(* the file first and commit the row, with its new path, afterwards.       *)

Ingested(i) ==
    /\ status[i] = "absent"
    /\ ForeignCommit(i, "pending")
    /\ UNCHANGED moved

CommandMoves(i) ==
    /\ status[i] \in {"pending", "accepted", "rejected"} /\ i \notin moved
    /\ moved' = moved \union {i}
    /\ UNCHANGED <<db, connection>>

CommandCommits(i, s) ==
    /\ i \in moved
    /\ s \in {"accepted", "rejected", "purged"}
    /\ ForeignCommit(i, s)
    /\ moved' = moved \ {i}

OtherProcess ==
    /\ \E i \in Items : \/ Ingested(i) \/ CommandMoves(i)
                        \/ \E s \in Status : CommandCommits(i, s)
    /\ UNCHANGED <<thumb, pc, req, sweep, ghosts, bounds>>

\* The API process dies and is started again by systemd.
Crash ==
    /\ crashes < MaxCrashes
    /\ crashes' = crashes + 1
    /\ torn' = IF pc \in {"mutate", "compensate"}
               THEN [torn EXCEPT ![req.target] = @ + 1] ELSE torn
    /\ Idle
    /\ UNCHANGED status /\ Close
    /\ UNCHANGED <<rules, created, keys, unclosed, moved, thumb, sweep, answered, effects,
                   locked>>

-----------------------------------------------------------------------------

TriageRequest(k, op, i) ==
    ReplayIfPresent(k, op, i) \/ TriageRequested(k, op, i) \/ TriageRequestLocked(k, op, i)

BlocklistRequest(k) ==
    \/ \E rule \in Rule : ReplayIfPresent(k, "create", rule.pattern) \/ CreateRule(k, rule)
    \/ \E id \in Ids : \/ ReplayIfPresent(k, "update", id) \/ ReplayIfPresent(k, "delete", id)
                       \/ \E rule \in Rule : UpdateRule(k, id, rule)
                       \/ DeleteRule(k, id)
    \/ RuleRefused(k)

\* What the server does next with the request in hand.
Serve ==
    \/ TriageApplied \/ TriageFails \/ TriageCompensated \/ TriageCompensationLocked
    \/ Answer \/ GenerateThumbnail

Sweep == SweepBegins \/ SweepEnds \/ \E i \in Items : SweepVisit(i)

Next ==
    \/ /\ pc = "idle"
       /\ \/ \E k \in Keys : \E op \in TriageOps : \E i \in Items : TriageRequest(k, op, i)
          \/ \E k \in Keys : BlocklistRequest(k)
          \/ RefuseToken \/ ThumbnailServed \/ \E i \in Items : ThumbnailMissing(i)
    \/ Serve \/ Sweep \/ OtherProcess \/ Crash

\* A request in hand is carried on with.  Nothing in the repository schedules
\* the sweep.
Fairness == WF_vars(Serve)

Spec == Init /\ [][Next]_vars /\ Fairness

-----------------------------------------------------------------------------

\* Whatever is repeated, interrupted, refused or conflicting: a key makes at
\* most one change, a success is answered only after its change, and every
\* success under a key is the same answer to the same operation on the same
\* target (_replay_if_present and _persist_idempotency of both services).
ReplaySafe ==
    \A k \in Keys :
       /\ effects[k] <= 1
       /\ \A a \in answered[k] : a = keys[k] /\ effects[k] = 1

\* The two-phase audit of TriageService.execute: each requested row is closed
\* by exactly one applied or compensating row, but for the request in hand
\* and those that a crash or a locked database cut short after the first row.
AuditClosed ==
    \A i \in Items :
       unclosed[i] = torn[i] +
          (IF pc \in {"mutate", "compensate"} /\ req.target = i THEN 1 ELSE 0)

\* As long as sweeps are run, and get through, again and again: thumbnails and
\* markers of an item that is out of triage for good, in the registry and in
\* what the API's connection still sees of it, do not stay in the cache.
\* Missed purges, crashes and thumbnails finished late by a request that still
\* read the item as pending are swept.
ThumbnailsSwept ==
    \A i \in Items :
       /\ []<>(sweep.on /\ sweep.todo = {}) /\ []<>(~ sweep.on)
       /\ <>[](status[i] # "pending" /\ Seen[i] # "pending")
       => <>[](thumb[i] = "none")

=============================================================================
