------------------------------ MODULE Registry ------------------------------
(***************************************************************************)
(* The SQLite registry (domain/registry.py).  Every action below is one    *)
(* BEGIN IMMEDIATE ... COMMIT transaction of the code and says what it      *)
(* does to every table.                                                    *)
(*                                                                         *)
(* audit_log is abstracted to the status its latest transition row names   *)
(* for each content: the rows that report no transition (discards,         *)
(* prefilter hits, rejects of what is rejected already) do not change it.  *)
(***************************************************************************)
EXTENDS Storage

CONSTANTS
    Items,        \* (account, onedrive_id) pairs
    NoContent     \* "no row for this item"

ASSUME RegistryAssumption == NoContent \notin Contents

VARIABLES
    files,             \* files: status and current_path of each content
    metadata_index,    \* item -> content it was last indexed with
    file_origins,      \* item -> content it last delivered
    accepted_records,  \* contents with an acceptance record
    audit_log,         \* content -> status named by its latest transition row
    blocked_rules      \* file names some enabled block rule matches

registryVars ==
    <<files, metadata_index, file_origins, accepted_records, audit_log,
      blocked_rules>>

Statuses == {"pending", "accepted", "rejected", "purged"}

\* A content without a row in files has status "unknown".
Row == [status: Statuses \union {"unknown"}, path: Paths \union {NoPath}]

NoRow == [status |-> "unknown", path |-> NoPath]

Known(row) == row.status # "unknown"

RegistryTypeOK ==
    /\ files \in [Contents -> Row]
    /\ metadata_index \in [Items -> Contents \union {NoContent}]
    /\ file_origins \in [Items -> Contents \union {NoContent}]
    /\ accepted_records \subseteq Contents
    /\ audit_log \in [Contents -> Statuses \union {"unknown"}]
    /\ blocked_rules \subseteq Names

RegistryInit ==
    /\ files = [c \in Contents |-> NoRow]
    /\ metadata_index = [i \in Items |-> NoContent]
    /\ file_origins = [i \in Items |-> NoContent]
    /\ accepted_records = {}
    /\ audit_log = [c \in Contents |-> "unknown"]
    /\ blocked_rules = {}

-----------------------------------------------------------------------------
(* Reads *)

\* get_accept_context returns a row: some item still points at the content.
HasAcceptContext(c) == \E i \in Items : file_origins[i] = c

\* _prefilter_status may report the item as known: it is indexed, and its size
\* and modification time can be those it was indexed with.  An item whose
\* content changed has a new modification time, so the index entry never
\* matches another content; an item that was only touched does not match
\* either, so even for the same content the prefilter may miss.
PrefilterHit(i, c) == metadata_index[i] = c /\ Known(files[c])

-----------------------------------------------------------------------------
(* Transactions *)

SetRow(c, status, path) ==
    files' = [files EXCEPT ![c] = [status |-> status, path |-> path]]

CreateOrUpdateFile(c, status, path) ==
    /\ SetRow(c, status, path)
    /\ UNCHANGED <<metadata_index, file_origins, accepted_records, audit_log,
                   blocked_rules>>

UpsertMetadataIndex(i, c) ==
    /\ metadata_index' = [metadata_index EXCEPT ![i] = c]
    /\ UNCHANGED <<files, file_origins, accepted_records, audit_log, blocked_rules>>

UpsertFileOrigin(i, c) ==
    /\ file_origins' = [file_origins EXCEPT ![i] = c]
    /\ UNCHANGED <<files, metadata_index, accepted_records, audit_log, blocked_rules>>

AppendAuditEvent(c, action) ==
    /\ audit_log' = [audit_log EXCEPT ![c] = action]
    /\ UNCHANGED <<files, metadata_index, file_origins, accepted_records, blocked_rules>>

\* The upsert sets status 'pending' whatever the row held before.
FinalizeUnknownIngest(i, c, path) ==
    /\ SetRow(c, "pending", path)
    /\ metadata_index' = [metadata_index EXCEPT ![i] = c]
    /\ file_origins' = [file_origins EXCEPT ![i] = c]
    /\ audit_log' = [audit_log EXCEPT ![c] = "pending"]
    /\ UNCHANGED <<accepted_records, blocked_rules>>

FinalizeKnownIngest(i, c) ==
    /\ metadata_index' = [metadata_index EXCEPT ![i] = c]
    /\ file_origins' = [file_origins EXCEPT ![i] = c]
    /\ UNCHANGED <<files, accepted_records, audit_log, blocked_rules>>

FinalizeAcceptFromPending(c, path) ==
    /\ files[c].status = "pending"
    /\ SetRow(c, "accepted", path)
    /\ accepted_records' = accepted_records \union {c}
    /\ audit_log' = [audit_log EXCEPT ![c] = "accepted"]
    /\ UNCHANGED <<metadata_index, file_origins, blocked_rules>>

\* Mutant: a status that is not one of the schema's.
FinalizePurgeAsDeleted(c) ==
    /\ files[c].status = "rejected"
    /\ SetRow(c, "deleted", NoPath)
    /\ audit_log' = [audit_log EXCEPT ![c] = "deleted"]
    /\ UNCHANGED <<metadata_index, file_origins, accepted_records, blocked_rules>>

\* Mutant: no audit row.
FinalizePurgeUnaudited(c) ==
    /\ files[c].status = "rejected"
    /\ SetRow(c, "purged", NoPath)
    /\ UNCHANGED <<metadata_index, file_origins, accepted_records, audit_log,
                   blocked_rules>>

FinalizePurgeFromRejected(c) ==
    /\ files[c].status = "rejected"
    /\ SetRow(c, "purged", NoPath)
    /\ audit_log' = [audit_log EXCEPT ![c] = "purged"]
    /\ UNCHANGED <<metadata_index, file_origins, accepted_records, blocked_rules>>

\* clear_current_path and update_current_path
UpdateCurrentPath(c, path) ==
    /\ SetRow(c, files[c].status, path)
    /\ UNCHANGED <<metadata_index, file_origins, accepted_records, audit_log,
                   blocked_rules>>

\* transition_status: any status to any status, the row must exist.
TransitionStatus(c, status) ==
    /\ Known(files[c])
    /\ SetRow(c, status, files[c].path)
    /\ audit_log' = [audit_log EXCEPT ![c] = status]
    /\ UNCHANGED <<metadata_index, file_origins, accepted_records, blocked_rules>>

\* Triage through the web API: the status alone, from any status, in one
\* transaction with its audit row (api/services/triage_service.py).
TriageStatus(c, status) == TransitionStatus(c, status)

\* A block rule is created, enabled, disabled or deleted through the API.
SetBlockRules(rules) ==
    /\ blocked_rules' = rules
    /\ UNCHANGED <<files, metadata_index, file_origins, accepted_records,
                   audit_log>>

=============================================================================
