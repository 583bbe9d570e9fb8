------------------------------ MODULE Process ------------------------------
(***************************************************************************)
(* The processes that work on the queue: poll workers running the ingest   *)
(* engine and operator commands (one process per CLI invocation).  They    *)
(* share the registry and the disk and nothing else; in particular no lock *)
(* covers more than one registry transaction.  A step of a process is one  *)
(* registry transaction or one filesystem call.                            *)
(***************************************************************************)
EXTENDS Registry

CONSTANTS
    Procs,        \* processes that can run at the same time
    Ops           \* commands in use

Commands == {"ingest", "accept", "reject", "trash", "purge"}

ASSUME ProcessAssumption == Ops \subseteq Commands

VARIABLES
    disk,      \* the queue directories: path -> content
    trash,     \* contents of the files in the trash directory
    pc,        \* next step of each process
    job,       \* the command a process runs and its arguments
    seen,      \* the files row a process read, which it goes on using
    dest,      \* the destination path a process chose, before it moves
    outcome    \* whether the last command of a process raised an error

procVars == <<pc, job, seen, dest, outcome>>

vars == <<registryVars, disk, trash, procVars>>

NoJob == [op |-> "none", item |-> NoContent, sha |-> NoContent]

Jobs == [op: Commands, item: Items \union {NoContent}, sha: Contents]
            \union {NoJob}

Outcomes == {"ok", "error"}

Idle(p) == pc[p] = "idle"

\* A command starts: it reads a files row (or none yet) and goes to step l.
Begin(p, op, i, c, row, l) ==
    /\ op \in Ops
    /\ Idle(p)
    /\ pc' = [pc EXCEPT ![p] = l]
    /\ job' = [job EXCEPT ![p] = [op |-> op, item |-> i, sha |-> c]]
    /\ seen' = [seen EXCEPT ![p] = row]
    /\ outcome' = [outcome EXCEPT ![p] = "ok"]
    /\ UNCHANGED dest

\* A command that ends in its first step, having changed nothing.
EndAtOnce(p, op, result) ==
    /\ op \in Ops
    /\ Idle(p)
    /\ outcome' = [outcome EXCEPT ![p] = result]
    /\ UNCHANGED <<registryVars, disk, trash, pc, job, seen, dest>>

\* Process p goes from step l to step m.
Goto(p, l, m) ==
    /\ pc[p] = l
    /\ pc' = [pc EXCEPT ![p] = m]
    /\ UNCHANGED <<job, outcome>>

\* Process p ends its command at step l; its local state is gone.
End(p, l, result) ==
    /\ pc[p] = l
    /\ pc' = [pc EXCEPT ![p] = "idle"]
    /\ outcome' = [outcome EXCEPT ![p] = result]
    /\ seen' = [seen EXCEPT ![p] = NoRow]
    /\ dest' = [dest EXCEPT ![p] = NoPath]
    /\ job' = [job EXCEPT ![p] = NoJob]

\* choose_collision_safe_destination at step l for the process's content.  The
\* path is only known to be free now: nothing reserves it.  An error when the
\* name rendered has no free suffix.
Choose(p, l, root, m) ==
    LET free == ChooseDestination(disk, root, job[p].sha) IN
    /\ pc[p] = l
    /\ \/ \E path \in free :
             /\ Goto(p, l, m)
             /\ dest' = [dest EXCEPT ![p] = path]
             /\ UNCHANGED seen
       \/ /\ \E name \in NamesOf[job[p].sha] : \A path \in free : path.name # name
          /\ End(p, l, "error")
    /\ UNCHANGED <<registryVars, disk, trash>>

=============================================================================
