----------------------------- MODULE MCCustody -----------------------------
(***************************************************************************)
(* Small instances of Custody.                                             *)
(***************************************************************************)
EXTENDS Custody, TLC

CONSTANTS c1, c2

\* c1 and c2 were taken in the same month under the same file name, and a copy
\* of c1 came under another one ...
SharedNames == [c \in Contents |-> IF c = c1 THEN {"img", "copy"} ELSE {"img"}]

\* ... or the templates render the hash into the name.
OwnName == [c \in Contents |-> IF c = c1 THEN {"img_c1"} ELSE {"img_c2"}]

OneDevice == [r \in Roots \union {"trash"} |-> "pool"]

\* The accepted queue and the trash directory are mounted from elsewhere.
TwoDevices == [r \in Roots \union {"trash"} |->
                  IF r \in {"accepted", "trash"} THEN "library" ELSE "pool"]

ProcSymmetry == Permutations(Procs)

\* accepted_records, audit_log and outcome are written and never read by a step.
\* States that differ in nothing else are one state to NothingLost.
WhatStepsRead == <<files, metadata_index, file_origins, blocked_rules,
                   disk, trash, pc, job, seen, dest>>

=============================================================================
