---------------------------- MODULE ReviewQueue ----------------------------
(***************************************************************************)
(* What the ingress promises a reviewer, with no word about processes,     *)
(* paths, transactions or crashes: the status each content may go through  *)
(* and that what is pending or accepted is kept.                           *)
(***************************************************************************)
CONSTANTS
    Contents   \* distinct file contents

VARIABLES
    status,    \* content -> review status
    kept       \* contents of which the queue directories hold a copy

queueVars == <<status, kept>>

Init ==
    /\ status = [c \in Contents |-> "unknown"]
    /\ kept = {}

\* Bytes of an unknown content reach the queue directories.
Arrive(c) ==
    /\ status[c] = "unknown"
    /\ kept' = kept \union {c}
    /\ UNCHANGED status

SetStatus(c, s) ==
    /\ status' = [status EXCEPT ![c] = s]
    /\ UNCHANGED kept

\* Ingest queues an unknown content for review; it is there to be reviewed.
Discover(c) ==
    /\ status[c] = "unknown"
    /\ c \in kept
    /\ SetStatus(c, "pending")

\* Only a pending content is accepted, and only if it is there.
Accept(c) ==
    /\ status[c] = "pending"
    /\ c \in kept
    /\ SetStatus(c, "accepted")

\* Anything can be rejected, even what was never seen.
Reject(c) == SetStatus(c, "rejected")

\* Bytes are destroyed only while the content is rejected.
Destroy(c) ==
    /\ status[c] = "rejected"
    /\ kept' = kept \ {c}
    /\ UNCHANGED status

Purge(c) ==
    /\ status[c] = "rejected"
    /\ SetStatus(c, "purged")

Next ==
    \E c \in Contents :
        \/ Arrive(c)
        \/ Discover(c)
        \/ Accept(c)
        \/ Reject(c)
        \/ Destroy(c)
        \/ Purge(c)

Spec == Init /\ [][Next]_queueVars

\* What awaits review or was accepted is kept.
KeptWhileWanted ==
    \A c \in Contents : status[c] \in {"pending", "accepted"} => c \in kept

=============================================================================
