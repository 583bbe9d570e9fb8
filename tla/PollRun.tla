------------------------------ MODULE PollRun ------------------------------
(***************************************************************************)
(* A poll invocation: poll_accounts and _poll_single_account of            *)
(* adapters/onedrive/client.py under the global poll lock and the          *)
(* per-account singleton locks, as called by _cmd_poll of cli.py.  What    *)
(* polling one account does is DeltaPoll; here it ends well, with a        *)
(* warning (the runtime limit or the drift threshold) or with an error.    *)
(* The tokens come from TokenCache, where auth-setup runs concurrently.    *)
(*                                                                         *)
(* Accounts are polled in the order of the configuration, one after the    *)
(* other or by a pool of threads.  The singleton lock is a file in the     *)
(* directory of the token cache, which accounts may share.                 *)
(***************************************************************************)
EXTENDS TokenCache

CONSTANTS
    Processes,      \* poll processes: the timer's and a manual one
    Budget,         \* max_poll_runtime_seconds, in ticks
    MaxStarts,      \* bound: poll invocations
    None

ASSUME PollRunAssumption ==
    /\ N \in Nat \ {0} /\ Budget \in Nat \ {0} /\ MaxStarts \in Nat
    /\ MaxSetups \in Nat /\ MaxTears \in Nat
    /\ None \notin Processes

VARIABLES
    workers,    \* account_worker_count, but at most one per account
    dir,        \* the directory of each account's token cache
    lock,       \* the holder of the poll lock
    runtime,    \* the holders of the singleton locks, by directory
    pc,
    task,       \* what has become of each account in the process's run
    left,       \* ticks to the deadline of the run that holds the lock
    first,      \* the exception that run will end with
    outcome,    \* what the process is about to report of its run
    starts

config == <<workers, dir>>
runVars == <<lock, runtime, pc, task, left, first, outcome, starts>>
vars == <<config, runVars, tokenVars>>

Active == {"token", "polling"}
Final == {"ok", "skipped", "warn", "failed"}
Errors == {"warn", "failed"}
Reports == {"none", "healthy", "degraded", "ingest_error"}
Untouched == [a \in Accounts |-> "none"]

TypeOK ==
    /\ TokenTypeOK
    /\ workers \in Accounts /\ dir \in [Accounts -> Accounts]
    /\ lock \in Processes \union {None}
    /\ runtime \in [Accounts -> Processes \union {None}]
    /\ pc \in [Processes -> {"idle", "waiting", "polling", "report"}]
    /\ task \in [Processes -> [Accounts -> {"none", "queued"} \union Active \union Final]]
    /\ left \in 0..Budget
    /\ first \in {"none"} \union Errors
    /\ outcome \in [Processes -> Reports]
    /\ starts \in 0..MaxStarts

Init ==
    /\ TokenInit
    /\ workers \in Accounts
    /\ dir \in {[a \in Accounts |-> a], [a \in Accounts |-> 1]}
    /\ lock = None /\ runtime = [d \in Accounts |-> None]
    /\ pc = [p \in Processes |-> "idle"] /\ task = [p \in Processes |-> Untouched]
    /\ left = 0 /\ first = "none"
    /\ outcome = [p \in Processes |-> "none"]
    /\ starts = 0

-----------------------------------------------------------------------------

Sequential == workers = 1
Raised == first # "none"
SetTask(p, a, s) == task' = [task EXCEPT ![p][a] = s]

Invoke(p) ==
    /\ pc[p] = "idle" /\ starts < MaxStarts
    /\ starts' = starts + 1
    /\ pc' = [pc EXCEPT ![p] = "waiting"]
    /\ UNCHANGED <<lock, runtime, task, left, first, outcome, tokenVars>>

\* An error before the lock: the configuration, the registry or the account
\* asked for.
Refuse(p) ==
    /\ pc[p] = "idle" /\ starts < MaxStarts
    /\ starts' = starts + 1
    /\ pc' = [pc EXCEPT ![p] = "report"]
    /\ outcome' = [outcome EXCEPT ![p] = "ingest_error"]
    /\ UNCHANGED <<lock, runtime, task, left, first, tokenVars>>

\* The blocking global lock.
Enter(p) ==
    /\ pc[p] = "waiting" /\ lock = None
    /\ lock' = p
    /\ pc' = [pc EXCEPT ![p] = "polling"]
    /\ left' = Budget /\ first' = "none"
    /\ UNCHANGED <<runtime, task, outcome, starts, tokenVars>>

\* The next account: called, or submitted to the pool unless time is up.  What
\* is less than a second counts as time here and not in _poll_single_account.
Submit(p, a) ==
    /\ pc[p] = "polling"
    /\ task[p][a] = "none"
    /\ \A b \in 1..(a - 1) : task[p][b] # "none"
    /\ Sequential => \A b \in 1..(a - 1) : task[p][b] \in {"ok", "skipped"}
    /\ \/ SetTask(p, a, "queued")
       \/ ~ Sequential /\ left = 0 /\ SetTask(p, a, "skipped")
    /\ UNCHANGED <<lock, runtime, pc, left, first, outcome, starts, tokenVars>>

\* An account is taken up, the earliest first, by a free thread.
TakesUp(p, a) ==
    /\ task[p][a] = "queued"
    /\ \A b \in 1..(a - 1) : task[p][b] # "queued"
    /\ Cardinality({b \in Accounts : task[p][b] \in Active}) < workers

SkipForBudget(p, a) ==
    /\ TakesUp(p, a) /\ left = 0
    /\ SetTask(p, a, "skipped")
    /\ UNCHANGED <<lock, runtime, pc, left, first, outcome, starts, tokenVars>>

LockAccount(p, a) ==
    /\ TakesUp(p, a) /\ left > 0
    /\ runtime[dir[a]] = None
    /\ runtime' = [runtime EXCEPT ![dir[a]] = p]
    /\ SetTask(p, a, "token")
    /\ UNCHANGED <<lock, pc, left, first, outcome, starts, tokenVars>>

\* The account's task ends; a failure is an exception of the run.  The first
\* to be collected counts, and futures done before as_completed is called are
\* collected in any order.
Ends(p, a, s) ==
    /\ SetTask(p, a, s)
    /\ first' \in IF s \in Errors THEN {s, first} \ {"none"} ELSE {first}
    /\ UNCHANGED <<lock, pc, left, outcome, starts>>

Unlock(a) == runtime' = [runtime EXCEPT ![dir[a]] = None]

\* account_singleton_lock_busy
AccountBusy(p, a) ==
    /\ TakesUp(p, a) /\ left > 0
    /\ runtime[dir[a]] # None
    /\ Ends(p, a, "failed")
    /\ UNCHANGED <<runtime, tokenVars>>

GetToken(p, a) ==
    /\ task[p][a] = "token"
    /\ Acquire(a)
    /\ SetTask(p, a, "polling")
    /\ UNCHANGED <<lock, runtime, pc, left, first, outcome, starts>>

\* refresh_access_token, when Graph answers 401 or 403
RefreshToken(p, a) ==
    /\ task[p][a] = "polling"
    /\ Acquire(a)
    /\ UNCHANGED runVars

NoToken(p, a) ==
    /\ task[p][a] \in Active
    /\ AcquireFails(a)
    /\ Ends(p, a, "failed")
    /\ Unlock(a)

\* poll_account_once returns or raises, the drift threshold is evaluated.
AccountPolled(p, a, s) ==
    /\ task[p][a] = "polling"
    /\ Ends(p, a, s)
    /\ Unlock(a)
    /\ UNCHANGED tokenVars

\* Mutant: the pool is not waited for once an account has failed.
ReturnsAtOnce(p) ==
    \/ \A a \in Accounts : task[p][a] \in Final
    \/ Raised

\* The loop is over, or broken off by an exception; a pool runs empty first.
Returns(p) ==
    \/ \A a \in Accounts : task[p][a] \in Final
    \/ Sequential /\ Raised

\* Mutant: only the last account's exception counts.
ResultOfLast(p) ==
    CASE task[p][N] = "failed" -> "ingest_error"
      [] task[p][N] = "warn"   -> "degraded"
      [] OTHER                 -> "healthy"

\* _cmd_poll: the state it will report
Result(p) ==
    CASE first = "none"   -> "healthy"
      [] first = "warn"   -> "degraded"
      [] first = "failed" -> "ingest_error"

\* A thread that was not waited for would go on.
StillRunning(p) == [a \in Accounts |-> IF task[p][a] \in Active THEN task[p][a] ELSE "none"]

\* Mutant: the lock is not released when the run raises.
LeaveUnlessRaised(p) ==
    /\ pc[p] = "polling" /\ Returns(p)
    /\ lock' = IF Raised THEN lock ELSE None
    /\ pc' = [pc EXCEPT ![p] = "report"]
    /\ outcome' = [outcome EXCEPT ![p] = Result(p)]
    /\ task' = [task EXCEPT ![p] = StillRunning(p)]
    /\ left' = 0 /\ first' = "none"
    /\ UNCHANGED <<runtime, starts, tokenVars>>

\* poll_accounts returns or raises, and the lock is released.
Leave(p) ==
    /\ pc[p] = "polling" /\ Returns(p)
    /\ lock' = None
    /\ pc' = [pc EXCEPT ![p] = "report"]
    /\ outcome' = [outcome EXCEPT ![p] = Result(p)]
    /\ task' = [task EXCEPT ![p] = StillRunning(p)]
    /\ left' = 0 /\ first' = "none"
    /\ UNCHANGED <<runtime, starts, tokenVars>>

\* The status is written, while others may have the lock, and the process ends.
\* The file is not kept here: every command of the program overwrites it.
Report(p) ==
    /\ pc[p] = "report"
    /\ pc' = [pc EXCEPT ![p] = "idle"]
    /\ outcome' = [outcome EXCEPT ![p] = "none"]
    /\ UNCHANGED <<lock, runtime, task, left, first, starts, tokenVars>>

\* Time passes; what is left of the budget is never negative.
Tick ==
    /\ left > 0
    /\ left' = left - 1
    /\ UNCHANGED <<lock, runtime, pc, task, first, outcome, starts, tokenVars>>

\* The process dies, and its locks with it; a thread may have been writing.  An
\* exception that _cmd_poll does not catch ends an account like any error, and
\* then the process, without a report.
Dies(p) ==
    /\ pc[p] # "idle"
    /\ pc' = [pc EXCEPT ![p] = "idle"]
    /\ outcome' = [outcome EXCEPT ![p] = "none"]
    /\ task' = [task EXCEPT ![p] = Untouched]
    /\ runtime' = [d \in Accounts |-> IF runtime[d] = p THEN None ELSE runtime[d]]
    /\ IF lock = p THEN lock' = None /\ left' = 0 /\ first' = "none"
                   ELSE UNCHANGED <<lock, left, first>>
    /\ UNCHANGED starts
    /\ \/ UNCHANGED tokenVars
       \/ \E a \in Accounts : task[p][a] \in Active /\ AcquireDies(a)

-----------------------------------------------------------------------------

\* One step of a run towards its end.
Advance(p) ==
    \/ Enter(p) \/ Leave(p) \/ Report(p)
    \/ \E a \in Accounts :
          \/ Submit(p, a) \/ SkipForBudget(p, a) \/ LockAccount(p, a) \/ AccountBusy(p, a)
          \/ GetToken(p, a) \/ NoToken(p, a)
          \/ \E s \in {"ok"} \union Errors : AccountPolled(p, a, s)

\* auth-setup and discover-paths
Command ==
    /\ \E a \in Accounts :
          \/ SetupBegins(a) \/ SetupEnds(a) \/ Acquire(a) \/ AcquireFails(a) \/ AcquireDies(a)
          \/ \E i \in Identities : SetupDies(a, i)
    /\ UNCHANGED runVars

Next ==
    /\ \/ \E p \in Processes : \/ Invoke(p) \/ Refuse(p) \/ Advance(p) \/ Dies(p)
                               \/ \E a \in Accounts : RefreshToken(p, a)
       \/ Tick \/ Command
    /\ UNCHANGED config

\* A run goes on, and whoever is asked to sign in does, declines or lets the
\* device code expire.
Fairness ==
    /\ \A p \in Processes : WF_vars(Advance(p) /\ UNCHANGED config)
    /\ \A a \in Accounts : WF_vars(SetupEnds(a) /\ UNCHANGED <<runVars, config>>)

Spec == Init /\ [][Next]_vars /\ Fairness

-----------------------------------------------------------------------------

\* The poll lock covers a run's threads to the last: whoever polls an account
\* belongs to the run that holds the lock and has its singleton lock, also
\* when another account has failed, so runs never overlap on an account.
PollingIsCovered ==
    \A p \in Processes : \A a \in Accounts :
       task[p][a] \in Active => lock = p /\ runtime[dir[a]] = p

\* Every account was polled, but for those that come last and that were skipped
\* because the time was up.
PolledInTime(p) ==
    /\ \A a \in Accounts : task[p][a] \in {"ok", "skipped"}
    /\ \A a \in Accounts : task[p][a] = "skipped" =>
         left = 0 /\ \A b \in Accounts : a < b => task[p][b] = "skipped"

\* Some account ended with s; of a sequential run, the accounts before it were
\* polled well and those after it not touched.
EndedBy(p, s) ==
    \E a \in Accounts :
        /\ task[p][a] = s
        /\ Sequential => \A b \in Accounts :
             (b < a => task[p][b] = "ok") /\ (a < b => task[p][b] = "none")

\* The state a run reports tells its accounts: healthy only if every one was
\* polled without an error, or left out because the time was up before any
\* later one was begun; degraded or ingest_error if an account ended so, which
\* was the last to be touched in a sequential run (or, for ingest_error, if
\* the run was refused before it began).
OutcomeIsHonest ==
    [][\A p \in Processes : outcome'[p] # outcome[p] =>
         CASE outcome'[p] = "none"         -> TRUE
           [] outcome'[p] = "healthy"      -> PolledInTime(p)
           [] outcome'[p] = "degraded"     -> EndedBy(p, "warn")
           [] outcome'[p] = "ingest_error" -> EndedBy(p, "failed") \/ pc[p] = "idle"]_vars

\* Blocking on the poll lock and on a cache lock that auth-setup holds while
\* a user signs in, every invocation gets its turn and comes to an end.
RunsFinish == \A p \in Processes : pc[p] = "waiting" ~> pc[p] = "idle"

=============================================================================
