-------------------------- MODULE WebControlProofs --------------------------
(***************************************************************************)
(* Proofs, for any items, keys, rules, locked writes and crashes, that an  *)
(* idempotency key takes effect once and is answered the same ever after,  *)
(* and that the audit rows of a triage request come in pairs.              *)
(*                                                                         *)
(* The change, the key and the answer it stores are one transaction, and   *)
(* the request in hand keeps every other request out between its lookup of *)
(* the key and that transaction.                                           *)
(***************************************************************************)
EXTENDS WebControl, Integers, TLAPS

\* The types the argument needs
Types ==
    /\ keys \in [Keys -> Stored \union {None}]
    /\ answered \in [Keys -> SUBSET Stored]
    /\ effects \in [Keys -> Nat]
    /\ created \in 0..MaxRules

\* A key is stored if and only if it has taken effect, and what was answered is
\* what is stored.
KeysTell ==
    \A k \in Keys :
        /\ keys[k] = None => effects[k] = 0
        /\ keys[k] # None => effects[k] = 1
        /\ \A x \in answered[k] : x = keys[k] /\ effects[k] = 1

\* The key of the triage request in hand is still unused before its
\* transaction, and stored after it.
RequestInHand ==
    /\ pc = "mutate" => req \in [key : Keys, op : TriageOps, target : Items] /\ keys[req.key] = None
    /\ pc = "answer" => req.key \in Keys /\ keys[req.key] # None

Inv == Types /\ KeysTell /\ RequestInHand

-----------------------------------------------------------------------------

\* What is stored is its operation, its target and its answer.
LEMMA StoredIsRecord ==
    ASSUME NEW x \in Stored
    PROVE  x = [op |-> x.op, target |-> x.target, body |-> x.body]
  BY DEF Stored

\* A step that touches no key, and leaves the request in hand or ends it.
LEMMA QuietStep ==
    ASSUME Inv, keys' = keys, answered' = answered, effects' = effects, created' = created,
           \/ pc' = pc /\ req' = req
           \/ pc' \notin {"mutate", "answer"}
    PROVE  Inv'
  BY DEF Inv, Types, KeysTell, RequestInHand

\* The transaction that stores a key
LEMMA PersistPreserves ==
    ASSUME Inv, NEW k \in Keys, NEW op, NEW target, NEW body,
           [op |-> op, target |-> target, body |-> body] \in Stored,
           keys[k] = None,
           PersistIdempotency(k, op, target, body),
           answered' = answered, created' \in 0..MaxRules,
           pc' = "answer", req'.key = k
    PROVE  Inv'
<1> DEFINE x == [op |-> op, target |-> target, body |-> body]
<1>1. x \in Stored /\ x # None
  BY NoneAssumption
<1>2. keys' = [keys EXCEPT ![k] = x]
  BY DEF PersistIdempotency
<1>3. effects[k] = 0 /\ answered[k] = {}
  BY DEF Inv, KeysTell, Types
<1>4. effects' = [effects EXCEPT ![k] = 1]
  BY <1>3 DEF PersistIdempotency, Inv, Types
<1> HIDE DEF x
<1>5. Types'
  BY <1>1, <1>2, <1>4 DEF Inv, Types
<1>6. KeysTell'
  BY <1>1, <1>2, <1>3, <1>4 DEF Inv, Types, KeysTell
<1>7. RequestInHand'
  BY <1>1, <1>2 DEF Inv, Types, RequestInHand
<1> QED
  BY <1>5, <1>6, <1>7 DEF Inv

\* A success is answered: with what is stored.
LEMMA AnswerPreserves ==
    ASSUME Inv, NEW k \in Keys, keys[k] # None,
           keys' = keys, effects' = effects, created' = created,
           answered' = [answered EXCEPT ![k] = @ \union {keys[k]}],
           \/ pc' = pc /\ req' = req
           \/ pc' \notin {"mutate", "answer"}
    PROVE  Inv'
<1>1. keys[k] \in Stored
  BY DEF Inv, Types
<1>2. Types'
  BY <1>1 DEF Inv, Types
<1>3. KeysTell'
  BY DEF Inv, Types, KeysTell
<1>4. RequestInHand'
  BY DEF Inv, RequestInHand
<1> QED
  BY <1>2, <1>3, <1>4 DEF Inv

\* A request with a key that is known
LEMMA ReplayPreserves ==
    ASSUME Inv, NEW k \in Keys, NEW op, NEW target, ReplayIfPresent(k, op, target)
    PROVE  Inv'
<1>1. keys[k] # None /\ keys' = keys /\ effects' = effects /\ created' = created
      /\ pc' = pc /\ req' = req
  BY DEF ReplayIfPresent, db
<1>2. CASE Conflicts(k, op, target)
  BY <1>1, <1>2, QuietStep DEF ReplayIfPresent
<1>3. CASE ~ Conflicts(k, op, target)
  <2>1. keys[k] \in Stored /\ keys[k].op = op /\ keys[k].target = target
    BY <1>1, <1>3 DEF Inv, Types, Conflicts
  <2>2. [op |-> op, target |-> target, body |-> keys[k].body] = keys[k]
    BY <2>1, StoredIsRecord
  <2>3. answered' = [answered EXCEPT ![k] = @ \union {keys[k]}]
    BY <1>3, <2>2 DEF ReplayIfPresent
  <2> QED
    BY <1>1, <2>3, AnswerPreserves
<1> QED
  BY <1>2, <1>3

\* Triage: the request, its transaction and its failure
LEMMA TriagePreserves ==
    ASSUME Inv,
           \/ pc = "idle" /\ \E k \in Keys : \E op \in TriageOps : \E i \in Items : TriageRequest(k, op, i)
           \/ TriageApplied
    PROVE  Inv'
<1>1. ASSUME NEW k \in Keys, NEW op \in TriageOps, NEW i \in Items, TriageRequested(k, op, i)
      PROVE  Inv'
  <2>1. /\ keys[k] = None /\ keys' = keys /\ answered' = answered /\ effects' = effects
        /\ created' = created /\ pc' = "mutate" /\ req' = [key |-> k, op |-> op, target |-> i]
    BY <1>1 DEF TriageRequested, ghosts
  <2> QED
    BY <2>1 DEF Inv, Types, KeysTell, RequestInHand
<1>2. ASSUME NEW k \in Keys, NEW op \in TriageOps, NEW i \in Items, TriageRequestLocked(k, op, i)
      PROVE  Inv'
  BY <1>2, QuietStep DEF TriageRequestLocked, db, ghosts
<1>3. CASE TriageApplied
  <2>1. /\ req.key \in Keys /\ req.op \in TriageOps /\ req.target \in Items
        /\ keys[req.key] = None
    BY <1>3 DEF TriageApplied, Inv, RequestInHand
  <2>2. StateOf[req.op] \in Status
    BY <2>1 DEF StateOf, TriageOps, Status
  <2>3. [op |-> req.op, target |-> req.target, body |-> StateOf[req.op]] \in Stored
    BY <2>1, <2>2 DEF Stored
  <2>4. /\ PersistIdempotency(req.key, req.op, req.target, StateOf[req.op])
        /\ answered' = answered /\ created' = created /\ pc' = "answer" /\ req' = req
    BY <1>3 DEF TriageApplied
  <2>5. created' \in 0..MaxRules
    BY <2>4 DEF Inv, Types
  <2> QED
    BY <2>1, <2>3, <2>4, <2>5, PersistPreserves
<1> QED
  BY <1>1, <1>2, <1>3, ReplayPreserves DEF TriageRequest

\* Block rules: each change is one transaction with its key.
LEMMA BlocklistPreserves ==
    ASSUME Inv, NEW k \in Keys, BlocklistRequest(k)
    PROVE  Inv'
<1>1. ASSUME NEW op, NEW target, NEW new, NEW body, Change(k, op, target, new, body),
             [op |-> op, target |-> target, body |-> body] \in Stored,
             keys[k] = None, created' \in 0..MaxRules
      PROVE  Inv'
  <2>1. /\ PersistIdempotency(k, op, target, body) /\ answered' = answered
        /\ pc' = "answer" /\ req'.key = k
    BY <1>1 DEF Change
  <2> QED
    BY <1>1, <2>1, PersistPreserves
<1>2. created \in 0..MaxRules
  BY DEF Inv, Types
<1>3. ASSUME NEW rule \in Rule, CreateRule(k, rule)
      PROVE  Inv'
  <2>1. created' \in Ids /\ created' \in 0..MaxRules
    BY <1>2, <1>3, WebAssumption DEF CreateRule, Ids
  <2>2. rule.pattern \in Patterns
    BY DEF Rule
  <2>3. [op |-> "create", target |-> rule.pattern, body |-> <<created', rule>>] \in Stored
    BY <2>1, <2>2 DEF Stored
  <2> QED
    BY <1>1, <1>3, <2>1, <2>3 DEF CreateRule
<1>4. ASSUME NEW id \in Ids, NEW rule \in Rule, UpdateRule(k, id, rule)
      PROVE  Inv'
  <2>1. [op |-> "update", target |-> id, body |-> <<id, rule>>] \in Stored
    BY DEF Stored
  <2> QED
    BY <1>1, <1>2, <1>4, <2>1 DEF UpdateRule
<1>5. ASSUME NEW id \in Ids, DeleteRule(k, id)
      PROVE  Inv'
  <2>1. [op |-> "delete", target |-> id, body |-> "deleted"] \in Stored
    BY DEF Stored
  <2> QED
    BY <1>1, <1>2, <1>5, <2>1 DEF DeleteRule
<1>6. CASE RuleRefused(k)
  BY <1>6, QuietStep DEF RuleRefused, db, ghosts
<1> QED
  BY <1>3, <1>4, <1>5, <1>6, ReplayPreserves DEF BlocklistRequest

\* Whatever is repeated, interrupted, refused or conflicting, a key of
\* _persist_idempotency takes effect once and _replay_if_present repeats one
\* and the same answer: ReplaySafe is an invariant.
THEOREM KeysTakeEffectOnce == Spec => []ReplaySafe
<1>1. Init => Inv
  <2> SUFFICES ASSUME Init PROVE Inv
    OBVIOUS
  <2>1. Types
    BY WebAssumption DEF Init, Types
  <2>2. KeysTell /\ RequestInHand
    BY DEF Init, KeysTell, RequestInHand
  <2> QED
    BY <2>1, <2>2 DEF Inv
<1>2. Inv /\ [Next]_vars => Inv'
  <2> SUFFICES ASSUME Inv, [Next]_vars PROVE Inv'
    OBVIOUS
  <2>1. CASE /\ pc = "idle"
             /\ RefuseToken \/ ThumbnailServed \/ \E i \in Items : ThumbnailMissing(i)
    BY <2>1, QuietStep DEF RefuseToken, AuthFailure, ThumbnailServed, ThumbnailMissing, db, ghosts
  <2>2. CASE Answer
    <3>1. req.key \in Keys /\ keys[req.key] # None
      BY <2>2 DEF Answer, Inv, RequestInHand
    <3> QED
      BY <2>2, <3>1, AnswerPreserves DEF Answer, Idle, db
  <2>3. CASE TriageFails \/ TriageCompensated \/ TriageCompensationLocked \/ GenerateThumbnail
    BY <2>3, QuietStep DEF TriageFails, TriageCompensated, TriageCompensationLocked,
                           GenerateThumbnail, Idle, db, ghosts
  <2>4. CASE Sweep
    BY <2>4, QuietStep DEF Sweep, SweepBegins, SweepVisit, SweepEnds, db, ghosts
  <2>5. CASE OtherProcess
    BY <2>5, QuietStep DEF OtherProcess, Ingested, CommandMoves, CommandCommits, ForeignCommit,
                           db, ghosts
  <2>6. CASE Crash
    BY <2>6, QuietStep DEF Crash, Idle
  <2>7. CASE UNCHANGED vars
    BY <2>7, QuietStep DEF vars, db, ghosts
  <2> QED
    BY <2>1, <2>2, <2>3, <2>4, <2>5, <2>6, <2>7, TriagePreserves, BlocklistPreserves
       DEF Next, Serve
<1>3. Inv => ReplaySafe
  BY DEF Inv, Types, KeysTell, ReplaySafe
<1> QED
  BY <1>1, <1>2, <1>3, PTL DEF Spec

-----------------------------------------------------------------------------
(* The two-phase audit of a triage request *)

\* A triage request is in hand between its first audit row and the second.
Opened == pc \in {"mutate", "compensate"}

\* The rows are counted, and a request in hand is a triage of an item.
AuditTypes ==
    /\ unclosed \in [Items -> Int] /\ torn \in [Items -> Nat]
    /\ Opened => req.target \in Items

\* A step that writes no audit row and cuts no request short.
LEMMA AuditQuiet ==
    ASSUME AuditTypes, AuditClosed, UNCHANGED <<unclosed, torn>>,
           \/ Opened /\ Opened' /\ req' = req
           \/ ~ Opened /\ ~ Opened'
    PROVE  AuditTypes' /\ AuditClosed'
<1>1. AuditTypes'
  BY DEF AuditTypes
<1>2. ASSUME NEW i \in Items
      PROVE  unclosed'[i] = torn'[i] + (IF Opened' /\ req'.target = i THEN 1 ELSE 0)
  BY DEF AuditClosed, Opened
<1>. QED
  BY <1>1, <1>2 DEF AuditClosed, Opened

\* The request in hand ends: its second row is written, or it is torn.
LEMMA AuditEnds ==
    ASSUME AuditTypes, AuditClosed, Opened, ~ Opened',
           \/ unclosed' = [unclosed EXCEPT ![req.target] = @ - 1] /\ UNCHANGED torn
           \/ torn' = [torn EXCEPT ![req.target] = @ + 1] /\ UNCHANGED unclosed
    PROVE  AuditTypes' /\ AuditClosed'
<1>1. req.target \in Items
  BY DEF AuditTypes
<1>2. AuditTypes'
  BY <1>1 DEF AuditTypes
<1>3. ASSUME NEW i \in Items PROVE unclosed'[i] = torn'[i]
  BY <1>1 DEF AuditTypes, AuditClosed, Opened
<1>. QED
  BY <1>2, <1>3 DEF AuditTypes, AuditClosed, Opened

\* TriageService.execute closes every requested row with one applied or
\* compensating row, whatever is locked, refused or killed in between, except
\* the row of the request in hand and those of requests cut short: AuditClosed
\* is an invariant.
THEOREM EveryRequestIsClosed == Spec => []AuditClosed
<1>1. Init => AuditTypes /\ AuditClosed
  BY DEF Init, AuditTypes, AuditClosed, Opened
<1>2. ASSUME AuditTypes, AuditClosed, [Next]_vars PROVE AuditTypes' /\ AuditClosed'
  <2>1. ASSUME NEW k \in Keys, NEW op \in TriageOps, NEW i \in Items, pc = "idle",
               TriageRequested(k, op, i)
        PROVE  AuditTypes' /\ AuditClosed'
    <3>1. /\ ~ Opened /\ pc' = "mutate" /\ req'.target = i /\ UNCHANGED torn
          /\ unclosed' = [unclosed EXCEPT ![i] = @ + 1]
      BY <2>1 DEF TriageRequested, WriteRequestedEvent, Opened, ghosts
    <3>2. AuditTypes'
      BY <1>2, <3>1 DEF AuditTypes
    <3>3. ASSUME NEW j \in Items
          PROVE  unclosed'[j] = torn'[j] + (IF j = i THEN 1 ELSE 0)
      BY <1>2, <3>1 DEF AuditTypes, AuditClosed, Opened
    <3>. QED
      BY <3>1, <3>2, <3>3 DEF AuditClosed
  <2>2. ASSUME NEW k \in Keys, pc = "idle",
               \/ \E op \in TriageOps : \E i \in Items : ReplayIfPresent(k, op, i)
                                                         \/ TriageRequestLocked(k, op, i)
               \/ BlocklistRequest(k)
        PROVE  AuditTypes' /\ AuditClosed'
    <3>1. UNCHANGED <<unclosed, torn>> /\ ~ Opened /\ ~ Opened'
      BY <2>2 DEF BlocklistRequest, ReplayIfPresent, TriageRequestLocked, CreateRule, UpdateRule,
                  DeleteRule, Change, RuleRefused, db, ghosts, Opened
    <3>. QED
      BY <1>2, <3>1, AuditQuiet
  <2>3. CASE /\ pc = "idle"
             /\ RefuseToken \/ ThumbnailServed \/ \E i \in Items : ThumbnailMissing(i)
    <3>1. UNCHANGED <<unclosed, torn>> /\ ~ Opened /\ ~ Opened'
      BY <2>3 DEF RefuseToken, AuthFailure, ThumbnailServed, ThumbnailMissing, db, ghosts, Opened
    <3>. QED
      BY <1>2, <3>1, AuditQuiet
  <2>4. CASE TriageApplied \/ TriageCompensated \/ TriageCompensationLocked
    <3>1. Opened /\ ~ Opened'
      BY <2>4 DEF TriageApplied, TriageCompensated, TriageCompensationLocked, Idle, Opened
    <3>2. \/ unclosed' = [unclosed EXCEPT ![req.target] = @ - 1] /\ UNCHANGED torn
          \/ torn' = [torn EXCEPT ![req.target] = @ + 1] /\ UNCHANGED unclosed
      BY <2>4 DEF TriageApplied, TriageCompensated, WriteCompensatingEvent,
                  TriageCompensationLocked, db, ghosts
    <3>. QED
      BY <1>2, <3>1, <3>2, AuditEnds
  <2>5. CASE TriageFails
    <3>1. UNCHANGED <<unclosed, torn>> /\ Opened /\ Opened' /\ req' = req
      BY <2>5 DEF TriageFails, db, ghosts, Opened
    <3>. QED
      BY <1>2, <3>1, AuditQuiet
  <2>6. CASE Answer \/ GenerateThumbnail
    <3>1. UNCHANGED <<unclosed, torn>> /\ ~ Opened /\ ~ Opened'
      BY <2>6 DEF Answer, GenerateThumbnail, Idle, db, ghosts, Opened
    <3>. QED
      BY <1>2, <3>1, AuditQuiet
  <2>7. CASE Sweep \/ OtherProcess \/ UNCHANGED vars
    <3>1. UNCHANGED <<unclosed, torn, pc, req>>
      BY <2>7 DEF Sweep, SweepBegins, SweepVisit, SweepEnds, OtherProcess, Ingested, CommandMoves,
                  CommandCommits, ForeignCommit, vars, db, ghosts
    <3>. QED
      BY <1>2, <3>1, AuditQuiet DEF Opened
  <2>8. CASE Crash
    <3>1. ~ Opened' /\ UNCHANGED unclosed
      BY <2>8 DEF Crash, Idle, Opened
    <3>2. torn' = IF Opened THEN [torn EXCEPT ![req.target] = @ + 1] ELSE torn
      BY <2>8 DEF Crash, Opened
    <3>. QED
      BY <1>2, <3>1, <3>2, AuditEnds, AuditQuiet
  <2>. QED
    BY <1>2, <2>1, <2>2, <2>3, <2>4, <2>5, <2>6, <2>7, <2>8 DEF Next, Serve, TriageRequest
<1>. QED
  BY <1>1, <1>2, PTL DEF Spec

=============================================================================
