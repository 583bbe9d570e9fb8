----------------------------- MODULE MCJournal -----------------------------
(***************************************************************************)
(* Small instances of IngestJournal.                                       *)
(***************************************************************************)
EXTENDS IngestJournal

CONSTANTS c1

\* The two items are copies of one photo.
CopiesOfOne == [i \in Items |-> c1]

OneName == [c \in Contents |-> {"img"}]

OneDevice == [r \in Roots \union {"trash"} |-> "pool"]

=============================================================================
