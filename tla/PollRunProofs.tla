--------------------------- MODULE PollRunProofs ---------------------------
(***************************************************************************)
(* Proofs, for any number of accounts, threads and poll processes, that    *)
(* whoever polls an account belongs to the run that holds the poll lock    *)
(* and has the account's singleton lock, so that runs never overlap, that  *)
(* the status a run leaves is true of its accounts, and that auth-setup    *)
(* repairs an account's token files.                                       *)
(*                                                                         *)
(* The lock is released when a run returns, and what has to be shown is    *)
(* that no thread is at work then.  A pool has run empty; a sequential run *)
(* is broken off by an exception, and then the account that raised it is   *)
(* the last that was touched.                                              *)
(***************************************************************************)
EXTENDS PollRun, TLAPS

\* Zenon finds many leaves; the ones about records and arithmetic ask for SMT.
USE Zenon DEF Errors

States == {"none", "queued"} \union Active \union Final

\* The types the argument needs
Types ==
    /\ dir \in [Accounts -> Accounts]
    /\ runtime \in [Accounts -> Processes \union {None}]
    /\ pc \in [Processes -> {"idle", "waiting", "polling", "report"}]
    /\ task \in [Processes -> [Accounts -> States]]

\* A run holds the lock, and only a run has tasks.
RunIsLocked ==
    /\ \A p \in Processes : pc[p] = "polling" => lock = p
    /\ \A p \in Processes : \A a \in Accounts : task[p][a] # "none" => pc[p] = "polling"

\* A sequential run takes up an account when those before it are done.
InOrder ==
    Sequential => \A p \in Processes : \A a, b \in Accounts :
        b < a /\ task[p][a] # "none" => task[p][b] \in {"ok", "skipped"}

\* An exception is that of an account of the run that holds the lock.
RaisedTells ==
    Raised => \E p \in Processes : lock = p /\ \E a \in Accounts : task[p][a] \in Errors

\* Accounts that are polled at the same time have directories of their own.
OwnDirectories ==
    \A p \in Processes : \A a, b \in Accounts :
        a # b /\ task[p][a] \in Active /\ task[p][b] \in Active => dir[a] # dir[b]

Inv == Types /\ RunIsLocked /\ InOrder /\ RaisedTells /\ OwnDirectories /\ PollingIsCovered

-----------------------------------------------------------------------------

\* A step of one account's task in a run, with the singleton lock kept, taken
\* or released as the task requires.
LEMMA TaskStep ==
    ASSUME Inv, config' = config, pc' = pc, lock' = lock,
           NEW p \in Processes, NEW a \in Accounts, NEW s \in States \ {"none"},
           SetTask(p, a, s), pc[p] = "polling", task[p][a] \notin Final,
           Sequential => \A b \in Accounts : b < a => task[p][b] \in {"ok", "skipped"},
           first' = first \/ s \in Errors,
           \/ s \notin Active /\ task[p][a] \notin Active /\ runtime' = runtime
           \/ s \in Active /\ task[p][a] \in Active /\ runtime' = runtime
           \/ /\ s \in Active /\ runtime[dir[a]] = None
              /\ runtime' = [runtime EXCEPT ![dir[a]] = p]
           \/ s \notin Active /\ task[p][a] \in Active /\ Unlock(a)
    PROVE  Inv'
<1>1. Types /\ dir' = dir /\ workers' = workers /\ dir[a] \in Accounts
  BY DEF Inv, Types, config
<1>2. task' \in [Processes -> [Accounts -> States]]
  BY <1>1 DEF Types, SetTask
<1>3. /\ task'[p][a] = s
      /\ \A b \in Accounts : b # a => task'[p][b] = task[p][b]
      /\ \A q \in Processes : q # p => task'[q] = task[q]
  BY <1>1 DEF Types, SetTask
<1>4. Types'
  BY <1>1, <1>2, SMT DEF Types, Unlock
<1>5. RunIsLocked'
  BY <1>3, SMT DEF Inv, RunIsLocked
<1>6. lock = p /\ \A q \in Processes : \A b \in Accounts : q # p => task[q][b] = "none"
  BY DEF Inv, RunIsLocked
<1>7. InOrder'
  <2> SUFFICES ASSUME Sequential, NEW q \in Processes, NEW c \in Accounts, NEW b \in Accounts,
                      b < c, task'[q][c] # "none"
               PROVE  task'[q][b] \in {"ok", "skipped"}
    BY <1>1 DEF InOrder, Sequential
  <2>1. CASE q # p
    BY <1>3, <1>6, <2>1, SMT
  <2>2. CASE q = p /\ c = a
    BY <1>3, <2>2, SMT DEF Accounts
  <2>3. CASE q = p /\ c # a
    <3>1. task[p][b] \in {"ok", "skipped"}
      BY <1>3, <2>3 DEF Inv, InOrder
    <3>2. b # a
      BY <3>1 DEF Final
    <3> QED
      BY <1>3, <2>3, <3>1, <3>2
  <2> QED
    BY <2>1, <2>2, <2>3
<1>8. RaisedTells'
  <2>1. CASE s \in Errors
    BY <1>3, <1>6, <2>1 DEF RaisedTells
  <2>2. CASE s \notin Errors
    BY <1>3, <1>6, <2>2, SMT DEF Inv, RaisedTells, Raised, Final
  <2> QED
    BY <2>1, <2>2
<1>9. ASSUME NEW b \in Accounts, b # a, task[p][b] \in Active
      PROVE  /\ s \in Active => dir[a] # dir[b]
             /\ task[p][a] \in Active => dir[a] # dir[b]
             /\ runtime[dir[b]] = p
             /\ runtime[dir[a]] = None => dir[a] # dir[b]
  <2>1. runtime[dir[b]] = p /\ p # None
    BY <1>9, PollRunAssumption DEF Inv, PollingIsCovered
  <2>2. task[p][a] \in Active => dir[a] # dir[b]
    BY <1>9 DEF Inv, OwnDirectories
  <2> QED
    BY <2>1, <2>2
<1>10. OwnDirectories'
  <2> SUFFICES ASSUME NEW q \in Processes, NEW b \in Accounts, NEW c \in Accounts, b # c,
                      task'[q][b] \in Active, task'[q][c] \in Active
               PROVE  dir[b] # dir[c]
    BY <1>1 DEF OwnDirectories
  <2>1. q = p
    BY <1>3, <1>6 DEF Active
  <2>2. CASE b # a /\ c # a
    BY <1>3, <2>1, <2>2 DEF Inv, OwnDirectories
  <2>3. CASE b = a
    BY <1>3, <1>9, <2>1, <2>3
  <2>4. CASE c = a
    BY <1>3, <1>9, <2>1, <2>4
  <2> QED
    BY <2>2, <2>3, <2>4
<1>11. PollingIsCovered'
  <2> SUFFICES ASSUME NEW b \in Accounts, task'[p][b] \in Active
               PROVE  runtime'[dir[b]] = p
    BY <1>1, <1>3, <1>6 DEF PollingIsCovered, Active
  <2>1. dir[b] \in Accounts
    BY <1>1 DEF Types
  <2>2. CASE b = a
    <3>1. task[p][a] \in Active => runtime[dir[a]] = p
      BY DEF Inv, PollingIsCovered
    <3> QED
      BY <1>1, <1>3, <2>2, <3>1 DEF Types
  <2>3. CASE b # a
    <3>1. task[p][b] \in Active
      BY <1>3, <2>3
    <3> QED
      BY <1>1, <1>9, <2>1, <2>3, <3>1 DEF Types, Unlock
  <2> QED
    BY <2>2, <2>3
<1> QED
  BY <1>4, <1>5, <1>7, <1>8, <1>10, <1>11 DEF Inv

\* The steps of one account: submitted, skipped, locked, busy, polled
LEMMA AccountStep ==
    ASSUME Inv, config' = config, NEW p \in Processes, NEW a \in Accounts,
           \/ Submit(p, a) \/ SkipForBudget(p, a) \/ LockAccount(p, a) \/ AccountBusy(p, a)
           \/ GetToken(p, a) \/ NoToken(p, a)
           \/ \E s \in {"ok"} \union Errors : AccountPolled(p, a, s)
    PROVE  Inv'
<1> USE DEF Active, Final, States
<1>1. CASE Submit(p, a)
  <2>1. PICK s \in {"skipped", "queued"} : SetTask(p, a, s)
    BY <1>1 DEF Submit
  <2>2. Sequential => \A b \in Accounts : b < a => task[p][b] \in {"ok", "skipped"}
    BY <1>1, SMT DEF Submit, Accounts
  <2> QED
    BY <1>1, <2>1, <2>2, TaskStep DEF Submit
<1>2. ASSUME task[p][a] \in {"queued"} \union Active
      PROVE  /\ pc[p] = "polling" /\ task[p][a] \notin Final
             /\ Sequential => \A b \in Accounts : b < a => task[p][b] \in {"ok", "skipped"}
  BY <1>2 DEF Inv, RunIsLocked, InOrder
<1>3. CASE SkipForBudget(p, a)
  BY <1>2, <1>3, TaskStep DEF SkipForBudget, TakesUp
<1>4. CASE LockAccount(p, a)
  BY <1>2, <1>4, TaskStep DEF LockAccount, TakesUp
<1>5. CASE AccountBusy(p, a)
  BY <1>2, <1>5, TaskStep DEF AccountBusy, TakesUp, Ends
<1>6. CASE GetToken(p, a)
  BY <1>2, <1>6, TaskStep DEF GetToken
<1>7. CASE NoToken(p, a)
  BY <1>2, <1>7, TaskStep DEF NoToken, Ends
<1>8. ASSUME NEW s \in {"ok"} \union Errors, AccountPolled(p, a, s)
      PROVE  Inv'
  <2>1. first' = first \/ s \in Errors
    BY <1>8 DEF AccountPolled, Ends
  <2> QED
    BY <1>2, <1>8, <2>1, TaskStep DEF AccountPolled, Ends
<1> QED
  BY <1>1, <1>3, <1>4, <1>5, <1>6, <1>7, <1>8

\* Before the lock and after it a process has no tasks, and a run begins with
\* the lock and without tasks.
LEMMA BeginPreserves ==
    ASSUME Inv, config' = config, NEW p \in Processes, Invoke(p) \/ Refuse(p) \/ Enter(p) \/ Report(p)
    PROVE  Inv'
<1>1. Types /\ dir' = dir /\ workers' = workers /\ runtime' = runtime /\ task' = task
  BY DEF Inv, config, Invoke, Refuse, Enter, Report
<1>2. InOrder' /\ OwnDirectories' /\ Types'
  <2>1. \E s \in {"idle", "waiting", "polling", "report"} : pc' = [pc EXCEPT ![p] = s]
    BY DEF Invoke, Refuse, Enter, Report
  <2>2. pc' \in [Processes -> {"idle", "waiting", "polling", "report"}]
    BY <1>1, <2>1 DEF Types
  <2> QED
    BY <1>1, <2>2, SMT DEF Inv, InOrder, Sequential, OwnDirectories, Types
<1>3. \A a \in Accounts : task[p][a] = "none"
  BY DEF Inv, RunIsLocked, Invoke, Refuse, Enter, Report
<1>4. CASE Invoke(p) \/ Refuse(p) \/ Report(p)
  <2>1. PICK s \in {"idle", "waiting", "report"} :
          lock' = lock /\ first' = first /\ pc' = [pc EXCEPT ![p] = s]
    BY <1>4 DEF Invoke, Refuse, Report
  <2> QED
    BY <1>1, <1>2, <1>3, <2>1 DEF Inv, Types, RunIsLocked, RaisedTells, Raised, PollingIsCovered
<1>5. CASE Enter(p)
  <2>1. lock = None /\ lock' = p /\ first' = "none" /\ pc' = [pc EXCEPT ![p] = "polling"]
    BY <1>5 DEF Enter
  <2>2. \A q \in Processes : pc[q] # "polling" /\ \A a \in Accounts : task[q][a] = "none"
    BY <2>1, PollRunAssumption DEF Inv, RunIsLocked
  <2>3. RunIsLocked'
    BY <1>1, <2>1, <2>2 DEF Types, RunIsLocked
  <2>4. RaisedTells' /\ PollingIsCovered'
    BY <1>1, <2>1, <2>2 DEF RaisedTells, Raised, PollingIsCovered, Active
  <2> QED
    BY <1>2, <2>3, <2>4 DEF Inv
<1> QED
  BY <1>4, <1>5

\* A run that returns has no thread at work, and a process that dies has no
\* thread at all: nothing of the process's tasks is left.
LEMMA EndClears ==
    ASSUME Inv, NEW p \in Processes, Leave(p) \/ Dies(p)
    PROVE  task' = [task EXCEPT ![p] = [a \in Accounts |-> "none"]]
<1>1. ASSUME Leave(p), NEW a \in Accounts
      PROVE  task[p][a] \notin Active
  <2>1. CASE \A b \in Accounts : task[p][b] \in Final
    BY <2>1 DEF Active, Final
  <2>2. CASE Sequential /\ Raised
    <3>1. lock = p
      BY <1>1 DEF Leave, Inv, RunIsLocked
    <3>2. PICK b \in Accounts : task[p][b] \in Errors
      BY <2>2, <3>1 DEF Inv, RaisedTells
    <3>3. a < b => task[p][a] \in {"ok", "skipped"}
      BY <2>2, <3>2 DEF Inv, InOrder
    <3>4. b < a => task[p][a] = "none"
      BY <2>2, <3>2 DEF Inv, InOrder
    <3>5. a < b \/ b < a \/ a = b
      BY PollRunAssumption, SMT DEF Accounts
    <3> QED
      BY <3>2, <3>3, <3>4, <3>5 DEF Active
  <2> QED
    BY <1>1, <2>1, <2>2 DEF Leave, Returns
<1>2. CASE Leave(p)
  <2>1. StillRunning(p) = [a \in Accounts |-> "none"]
    BY <1>1, <1>2 DEF StillRunning
  <2> QED
    BY <1>2, <2>1 DEF Leave
<1>3. CASE Dies(p)
  BY <1>3 DEF Dies, Untouched
<1> QED
  BY <1>2, <1>3

\* Leave and Dies: no task of the process is left, and the lock is released
\* if it was its own.
LEMMA EndPreserves ==
    ASSUME Inv, config' = config, NEW p \in Processes, Leave(p) \/ Dies(p)
    PROVE  Inv'
<1>1. Types /\ dir' = dir /\ workers' = workers
  BY DEF Inv, config
<1>3. task' = [task EXCEPT ![p] = [a \in Accounts |-> "none"]]
  BY EndClears
<1>4. \E s \in {"idle", "report"} : pc' = [pc EXCEPT ![p] = s]
  BY DEF Leave, Dies
<1>5. /\ \A a \in Accounts : task'[p][a] = "none"
      /\ \A q \in Processes : q # p => task'[q] = task[q] /\ pc'[q] = pc[q]
      /\ pc'[p] # "polling"
  BY <1>1, <1>3, <1>4 DEF Types
<1>6. runtime' \in [Accounts -> Processes \union {None}]
      /\ \A d \in Accounts : runtime[d] # p => runtime'[d] = runtime[d]
  BY <1>1 DEF Types, Leave, Dies
<1>7. \/ lock = p /\ first' = "none"
      \/ lock # p /\ lock' = lock /\ first' = first
  BY DEF Leave, Dies, Inv, RunIsLocked
<1>8. Types'
  <2>1. task' \in [Processes -> [Accounts -> States]]
    BY <1>1, <1>3 DEF Types, States
  <2>2. pc' \in [Processes -> {"idle", "waiting", "polling", "report"}]
    BY <1>1, <1>4 DEF Types
  <2> QED
    BY <1>1, <1>6, <2>1, <2>2 DEF Types
<1>9. RunIsLocked'
  BY <1>5, <1>7 DEF Inv, RunIsLocked
<1>10. InOrder'
  BY <1>1, <1>5, SMT DEF Inv, InOrder, Sequential
<1>11. RaisedTells'
  BY <1>5, <1>7 DEF Inv, RaisedTells, Raised
<1>12. OwnDirectories'
  BY <1>1, <1>5 DEF Inv, OwnDirectories, Active
<1>13. PollingIsCovered'
  <2> SUFFICES ASSUME NEW q \in Processes, NEW a \in Accounts, task'[q][a] \in Active
               PROVE  lock' = q /\ runtime'[dir[a]] = q
    BY <1>1 DEF PollingIsCovered
  <2>1. q # p /\ task[q][a] \in Active
    BY <1>5 DEF Active
  <2>2. lock = q /\ runtime[dir[a]] = q /\ dir[a] \in Accounts
    BY <1>1, <2>1 DEF Inv, PollingIsCovered, Types
  <2> QED
    BY <1>6, <1>7, <2>1, <2>2
<1> QED
  BY <1>8, <1>9, <1>10, <1>11, <1>12, <1>13 DEF Inv

\* Inv is an invariant.
LEMMA RunInvariance == Spec => []Inv
<1>1. Init => Inv
  <2> SUFFICES ASSUME Init PROVE Inv
    OBVIOUS
  <2>1. 1 \in Accounts
    BY PollRunAssumption, SMT DEF Accounts
  <2>2. Types
    BY <2>1 DEF Init, Types, Untouched, States
  <2>3. \A p \in Processes : pc[p] = "idle" /\ \A a \in Accounts : task[p][a] = "none"
    BY DEF Init, Untouched
  <2>4. RunIsLocked /\ InOrder /\ OwnDirectories /\ PollingIsCovered
    BY <2>3 DEF RunIsLocked, InOrder, OwnDirectories, PollingIsCovered, Active
  <2>5. RaisedTells
    BY DEF Init, RaisedTells, Raised
  <2> QED
    BY <2>2, <2>4, <2>5 DEF Inv
<1>2. Inv /\ [Next]_vars => Inv'
  <2> SUFFICES ASSUME Inv, [Next]_vars PROVE Inv'
    OBVIOUS
  <2>1. ASSUME config' = config, runtime' = runtime, task' = task, pc' = pc, lock' = lock,
               first' = first
        PROVE  Inv'
    BY <2>1, SMT DEF Inv, Types, RunIsLocked, InOrder, Sequential, RaisedTells, Raised,
                OwnDirectories, PollingIsCovered, config
  <2>2. ASSUME config' = config, NEW p \in Processes, Invoke(p) \/ Refuse(p) \/ Advance(p) \/ Dies(p)
        PROVE  Inv'
    BY <2>2, AccountStep, BeginPreserves, EndPreserves DEF Advance
  <2>3. ASSUME config' = config, NEW p \in Processes, NEW a \in Accounts, RefreshToken(p, a)
        PROVE  Inv'
    BY <2>1, <2>3 DEF RefreshToken, runVars
  <2>4. ASSUME config' = config, Tick \/ Command
        PROVE  Inv'
    BY <2>1, <2>4 DEF Tick, Command, runVars
  <2>5. CASE UNCHANGED vars
    BY <2>1, <2>5 DEF vars, runVars
  <2> QED
    BY <2>2, <2>3, <2>4, <2>5 DEF Next
<1> QED
  BY <1>1, <1>2, PTL DEF Spec

\* Runs never overlap on an account, also when another account has failed, a
\* process dies, or accounts share a directory: PollingIsCovered is an
\* invariant of poll_accounts under its locks.
THEOREM RunsDoNotOverlap == Spec => []PollingIsCovered
<1>1. Inv => PollingIsCovered
  BY DEF Inv
<1> QED
  BY <1>1, RunInvariance, PTL

-----------------------------------------------------------------------------
(* The outcome of a run *)

\* The exception a run will end with is that of one of its accounts, and there
\* is one as soon as an account has failed or warned.
FirstTells ==
    /\ first \in {"none", "warn", "failed"}
    /\ \A p \in Processes : pc[p] = "polling" =>
         IF first = "none" THEN \A a \in Accounts : task[p][a] \notin Errors
                           ELSE \E a \in Accounts : task[p][a] = first

\* The accounts are begun in order, and an account is skipped when the time is
\* up: no later one is begun then.
Idle == {"none", "queued", "skipped"}
BegunInOrder ==
    /\ \A p \in Processes : \A a, b \in Accounts : a < b =>
         /\ task[p][a] = "none" => task[p][b] = "none"
         /\ task[p][a] \in Idle => task[p][b] \in Idle
    /\ \A p \in Processes : \A a \in Accounts : task[p][a] = "skipped" => left = 0

OutcomeInv ==
    /\ FirstTells /\ BegunInOrder
    /\ outcome \in [Processes -> Reports]

\* A task that ends changes the exception only to its own.
LEMMA TaskTells ==
    ASSUME Inv, FirstTells, NEW p \in Processes, NEW a \in Accounts, NEW s \in States,
           pc[p] = "polling", task[p][a] \notin Final, SetTask(p, a, s), pc' = pc,
           first' \in IF s \in Errors THEN {s, first} \ {"none"} ELSE {first}
    PROVE  FirstTells'
<1>1. /\ task'[p][a] = s
      /\ \A b \in Accounts : b # a => task'[p][b] = task[p][b]
  BY DEF Inv, Types, SetTask
<1>2. \A q \in Processes : pc[q] = "polling" => q = p
  BY DEF Inv, RunIsLocked
<1>3. task[p][a] \notin Errors
  BY DEF Final
<1>4. first' \in {"none", "warn", "failed"}
  BY DEF FirstTells
<1>5. CASE first' = "none"
  <2>1. first = "none" /\ s \notin Errors
    BY <1>5
  <2>2. \A b \in Accounts : task'[p][b] \notin Errors
    BY <1>1, <2>1 DEF FirstTells
  <2> QED
    BY <1>2, <1>5, <2>2 DEF FirstTells
<1>6. CASE first' # "none"
  <2>1. \E b \in Accounts : task'[p][b] = first'
    <3>1. CASE first' = s
      BY <1>1, <3>1
    <3>2. CASE first' = first
      <4>1. PICK b \in Accounts : task[p][b] = first
        BY <1>6, <3>2 DEF FirstTells
      <4>2. b # a
        BY <1>3, <1>6, <3>2, <4>1 DEF FirstTells
      <4> QED
        BY <1>1, <3>2, <4>1, <4>2
    <3> QED
      BY <3>1, <3>2
  <2> QED
    BY <1>2, <1>4, <1>6, <2>1 DEF FirstTells
<1> QED
  BY <1>5, <1>6

\* What one account's step does to its task, the outcome and the exception
LEMMA AccountChanges ==
    ASSUME Inv, NEW p \in Processes, NEW a \in Accounts,
           \/ Submit(p, a) \/ SkipForBudget(p, a) \/ LockAccount(p, a) \/ AccountBusy(p, a)
           \/ GetToken(p, a) \/ NoToken(p, a)
           \/ \E s \in {"ok"} \union Errors : AccountPolled(p, a, s)
    PROVE  /\ pc' = pc /\ outcome' = outcome
           /\ pc[p] = "polling" /\ task[p][a] \notin Final
           /\ \E s \in States :
                /\ SetTask(p, a, s)
                /\ first' \in IF s \in Errors THEN {s, first} \ {"none"} ELSE {first}
           /\ task[p][a] = "none" => Submit(p, a)
<1> USE DEF Active, Final, States
<1>1. CASE Submit(p, a)
  <2>1. PICK s \in {"skipped", "queued"} : SetTask(p, a, s)
    BY <1>1 DEF Submit
  <2> QED
    BY <1>1, <2>1 DEF Submit
<1>2. ASSUME task[p][a] \in {"queued"} \union Active
      PROVE  pc[p] = "polling" /\ task[p][a] \notin Final /\ task[p][a] # "none"
  BY <1>2 DEF Inv, RunIsLocked
<1>3. CASE SkipForBudget(p, a)
  BY <1>2, <1>3, SMT DEF SkipForBudget, TakesUp
<1>4. CASE LockAccount(p, a)
  BY <1>2, <1>4, SMT DEF LockAccount, TakesUp
<1>5. CASE AccountBusy(p, a)
  BY <1>2, <1>5 DEF AccountBusy, TakesUp, Ends
<1>6. CASE GetToken(p, a)
  BY <1>2, <1>6 DEF GetToken
<1>7. CASE NoToken(p, a)
  BY <1>2, <1>7 DEF NoToken, Ends
<1>8. ASSUME NEW s \in {"ok"} \union Errors, AccountPolled(p, a, s)
      PROVE  /\ task[p][a] \in Active /\ SetTask(p, a, s) /\ pc' = pc /\ outcome' = outcome
             /\ first' \in IF s \in Errors THEN {s, first} \ {"none"} ELSE {first}
  BY <1>8 DEF AccountPolled, Ends
<1> QED
  BY <1>1, <1>2, <1>3, <1>4, <1>5, <1>6, <1>7, <1>8

\* A step of one account's task keeps the order in which they are begun.
LEMMA TaskInOrder ==
    ASSUME Inv, BegunInOrder, NEW p \in Processes, NEW a \in Accounts,
           \/ Submit(p, a) \/ SkipForBudget(p, a) \/ LockAccount(p, a) \/ AccountBusy(p, a)
           \/ GetToken(p, a) \/ NoToken(p, a)
           \/ \E s \in {"ok"} \union Errors : AccountPolled(p, a, s)
    PROVE  BegunInOrder'
<1>1. left' = left
  BY DEF Submit, SkipForBudget, LockAccount, AccountBusy, GetToken, NoToken, AccountPolled, Ends
<1>2. PICK s \in States : /\ SetTask(p, a, s) /\ s # "none"
                          /\ s = "skipped" => left = 0
                          /\ s \in Idle => task[p][a] \in Idle
                          /\ s \notin Idle => task[p][a] \in Active \/ (TakesUp(p, a) /\ left > 0)
                          /\ task[p][a] = "none" => Submit(p, a)
  <2> USE DEF Active, Final, States, Idle
  <2>1. CASE Submit(p, a)
    BY <2>1 DEF Submit
  <2>2. CASE SkipForBudget(p, a)
    BY <2>2 DEF SkipForBudget, TakesUp
  <2>3. CASE LockAccount(p, a)
    BY <2>3 DEF LockAccount, TakesUp
  <2>4. CASE AccountBusy(p, a)
    BY <2>4 DEF AccountBusy, TakesUp, Ends
  <2>5. CASE GetToken(p, a)
    BY <2>5 DEF GetToken
  <2>6. CASE NoToken(p, a)
    BY <2>6 DEF NoToken, Ends
  <2>7. ASSUME NEW s \in {"ok"} \union Errors, AccountPolled(p, a, s)
        PROVE  task[p][a] \in Active /\ SetTask(p, a, s)
    BY <2>7 DEF AccountPolled, Ends
  <2> QED
    BY <2>1, <2>2, <2>3, <2>4, <2>5, <2>6, <2>7
<1>3. /\ task'[p][a] = s
      /\ \A b \in Accounts : b # a => task'[p][b] = task[p][b]
      /\ \A q \in Processes : q # p => task'[q] = task[q]
  BY <1>2 DEF Inv, Types, SetTask
<1>4. ASSUME NEW b \in Accounts, b < a PROVE task[p][b] # "none"
  <2>1. b \in 1..(a - 1)
    BY <1>4, PollRunAssumption, SMT DEF Accounts
  <2>2. CASE task[p][a] = "none"
    BY <1>2, <2>1, <2>2 DEF Submit
  <2>3. CASE task[p][a] # "none"
    BY <1>4, <2>3 DEF BegunInOrder
  <2> QED
    BY <2>2, <2>3
<1>5. ASSUME NEW b \in Accounts, b < a, s \notin Idle PROVE task[p][b] \notin Idle
  <2>1. CASE task[p][a] \in Active
    BY <1>5, <2>1 DEF BegunInOrder, Active, Idle
  <2>2. CASE TakesUp(p, a) /\ left > 0
    <3>1. b \in 1..(a - 1) /\ left # 0
      BY <1>5, <2>2, PollRunAssumption, SMT DEF Accounts
    <3> QED
      BY <1>4, <1>5, <2>2, <3>1 DEF TakesUp, BegunInOrder, Idle
  <2> QED
    BY <1>2, <1>5, <2>1, <2>2
<1>6. \A b, c \in Accounts : b < c => b # c
  BY PollRunAssumption, SMT DEF Accounts
<1>7. ASSUME NEW q \in Processes, NEW b \in Accounts, NEW c \in Accounts, b < c
      PROVE  /\ task'[q][b] = "none" => task'[q][c] = "none"
             /\ task'[q][b] \in Idle => task'[q][c] \in Idle
  <2>1. CASE q # p \/ (b # a /\ c # a)
    <3>1. task'[q][b] = task[q][b] /\ task'[q][c] = task[q][c]
      BY <1>3, <2>1
    <3> QED
      BY <1>7, <3>1 DEF BegunInOrder
  <2>2. CASE q = p /\ b = a
    BY <1>2, <1>3, <1>6, <1>7, <2>2 DEF BegunInOrder
  <2>3. CASE q = p /\ c = a
    BY <1>3, <1>4, <1>5, <1>6, <1>7, <2>3
  <2> QED
    BY <2>1, <2>2, <2>3
<1>8. \A q \in Processes : \A b \in Accounts : task'[q][b] = "skipped" => left' = 0
  <2> SUFFICES ASSUME NEW q \in Processes, NEW b \in Accounts, task'[q][b] = "skipped"
               PROVE  left = 0
    BY <1>1
  <2>1. CASE q = p /\ b = a
    BY <1>2, <1>3, <2>1
  <2>2. CASE ~ (q = p /\ b = a)
    <3>1. task'[q][b] = task[q][b]
      BY <1>3, <2>2
    <3> QED
      BY <3>1 DEF BegunInOrder
  <2> QED
    BY <2>1, <2>2
<1> QED
  BY <1>7, <1>8 DEF BegunInOrder

\* The steps of a run keep the exception that of one of its accounts, and the
\* order.
LEMMA OutcomeInvariance == Spec => []OutcomeInv
<1>1. Init => OutcomeInv
  <2> SUFFICES ASSUME Init PROVE OutcomeInv
    OBVIOUS
  <2>1. \A p \in Processes : \A a \in Accounts : task[p][a] = "none"
    BY DEF Init, Untouched
  <2> QED
    BY <2>1 DEF Init, OutcomeInv, FirstTells, BegunInOrder, Reports
<1>2. Inv /\ Inv' /\ OutcomeInv /\ [Next]_vars => OutcomeInv'
  <2> SUFFICES ASSUME Inv, Inv', OutcomeInv, [Next]_vars PROVE OutcomeInv'
    OBVIOUS
  <2>1. ASSUME task' = task, pc' = pc, first' = first, outcome' = outcome, left' = left \/ Tick
        PROVE  OutcomeInv'
    <3>1. left = 0 => left' = 0
      BY <2>1, SMT DEF Tick
    <3> QED
      BY <2>1, <3>1 DEF OutcomeInv, FirstTells, BegunInOrder
  <2>2. CASE UNCHANGED vars \/ Tick \/ Command
    BY <2>1, <2>2 DEF vars, runVars, Tick, Command
  <2>3. ASSUME NEW p \in Processes, NEW a \in Accounts, RefreshToken(p, a) PROVE OutcomeInv'
    BY <2>1, <2>3 DEF RefreshToken, runVars
  <2>4. ASSUME NEW p \in Processes, NEW a \in Accounts,
               \/ Submit(p, a) \/ SkipForBudget(p, a) \/ LockAccount(p, a) \/ AccountBusy(p, a)
               \/ GetToken(p, a) \/ NoToken(p, a)
               \/ \E s \in {"ok"} \union Errors : AccountPolled(p, a, s)
        PROVE  OutcomeInv'
    BY <2>4, AccountChanges, TaskTells, TaskInOrder DEF OutcomeInv
  <2>5. ASSUME NEW p \in Processes, Invoke(p) \/ Refuse(p) \/ Report(p) PROVE OutcomeInv'
    <3>1. PICK s \in {"idle", "waiting", "report"} : pc' = [pc EXCEPT ![p] = s]
      BY <2>5 DEF Invoke, Refuse, Report
    <3>2. UNCHANGED <<task, first, left>> /\ outcome' \in [Processes -> Reports]
      BY <2>5 DEF Invoke, Refuse, Report, OutcomeInv, Reports
    <3>3. \A q \in Processes : pc'[q] = "polling" => pc[q] = "polling"
      BY <3>1 DEF Inv, Types
    <3> QED
      BY <3>2, <3>3 DEF OutcomeInv, FirstTells, BegunInOrder
  <2>6. ASSUME NEW p \in Processes, Enter(p) PROVE OutcomeInv'
    <3>1. lock = None /\ first' = "none" /\ task' = task /\ outcome' = outcome
      BY <2>6 DEF Enter
    <3>2. \A q \in Processes : \A a \in Accounts : task[q][a] = "none"
      BY <3>1, PollRunAssumption, SMT DEF Inv, RunIsLocked
    <3> QED
      BY <3>1, <3>2 DEF OutcomeInv, FirstTells, BegunInOrder
  <2>7. ASSUME NEW p \in Processes, Leave(p) \/ Dies(p) PROVE OutcomeInv'
    <3>1. /\ task' = [task EXCEPT ![p] = [a \in Accounts |-> "none"]]
          /\ \E s \in {"idle", "report"} : pc' = [pc EXCEPT ![p] = s]
      BY <2>7, EndClears DEF Leave, Dies
    <3>2. \A q \in Processes : pc'[q] = "polling" => q # p /\ pc[q] = "polling" /\ task'[q] = task[q]
      BY <3>1 DEF Inv, Types
    <3>3. (\E q \in Processes : pc'[q] = "polling") => first' = first
      BY <2>7, <3>2 DEF Leave, Dies, Inv, RunIsLocked
    <3>4. first' \in {first, "none"} /\ left' \in {left, 0}
      BY <2>7 DEF Leave, Dies
    <3>5. FirstTells'
      BY <3>2, <3>3, <3>4 DEF OutcomeInv, FirstTells
    <3>6. BegunInOrder'
      <4>1. \A q \in Processes : \A a \in Accounts : task'[q][a] = IF q = p THEN "none" ELSE task[q][a]
        BY <3>1 DEF Inv, Types
      <4> QED
        BY <3>4, <4>1, SMT DEF OutcomeInv, BegunInOrder, Idle
    <3>7. outcome' \in [Processes -> Reports]
      <4>1. Result(p) \in Reports
        BY DEF Result, Reports, OutcomeInv, FirstTells
      <4> QED
        BY <2>7, <4>1 DEF Leave, Dies, OutcomeInv, Reports
    <3> QED
      BY <3>5, <3>6, <3>7 DEF OutcomeInv
  <2> QED
    BY <2>2, <2>3, <2>4, <2>5, <2>6, <2>7 DEF Next, Advance
<1> QED
  BY <1>1, <1>2, RunInvariance, PTL DEF Spec

\* An error a run ends with is that of one of its accounts; of a sequential run,
\* the last that was touched.
LEMMA ErrorEndsRun ==
    ASSUME Inv, OutcomeInv, NEW p \in Processes, NEW a \in Accounts, task[p][a] \in Errors
    PROVE  EndedBy(p, task[p][a])
<1> SUFFICES ASSUME Sequential, NEW b \in Accounts
             PROVE  (b < a => task[p][b] = "ok") /\ (a < b => task[p][b] = "none")
  BY DEF EndedBy
<1>1. ASSUME b < a PROVE task[p][b] = "ok"
  <2>1. task[p][b] \in {"ok", "skipped"}
    BY <1>1 DEF Inv, InOrder
  <2>2. task[p][b] # "skipped"
    BY <1>1 DEF OutcomeInv, BegunInOrder, Idle
  <2> QED
    BY <2>1, <2>2
<1>2. ASSUME a < b PROVE task[p][b] = "none"
  BY <1>2 DEF Inv, InOrder
<1> QED
  BY <1>1, <1>2

\* What a run that leaves says of itself is true of its accounts.
LEMMA LeaveIsHonest ==
    ASSUME Inv, OutcomeInv, NEW p \in Processes, Leave(p)
    PROVE  /\ outcome'[p] = "healthy" => PolledInTime(p)
           /\ outcome'[p] = "degraded" => EndedBy(p, "warn")
           /\ outcome'[p] = "ingest_error" => EndedBy(p, "failed")
<1>1. pc[p] = "polling" /\ Returns(p) /\ outcome'[p] = Result(p)
  BY DEF Leave, OutcomeInv
<1>2. CASE first = "none"
  <2>1. \A a \in Accounts : task[p][a] \in {"ok", "skipped"}
    BY <1>1, <1>2 DEF Returns, Raised, OutcomeInv, FirstTells, Final
  <2>2. Result(p) = "healthy"
    BY <1>2 DEF Result
  <2>3. PolledInTime(p)
    BY <2>1 DEF PolledInTime, OutcomeInv, BegunInOrder, Idle
  <2> QED
    BY <1>1, <2>2, <2>3
<1>3. CASE first # "none"
  <2>1. PICK a \in Accounts : task[p][a] = first
    BY <1>1, <1>3 DEF OutcomeInv, FirstTells
  <2>2. first \in Errors
    BY <1>3 DEF OutcomeInv, FirstTells
  <2>3. EndedBy(p, first)
    BY <2>1, <2>2, ErrorEndsRun
  <2> QED
    BY <1>1, <2>2, <2>3 DEF Result
<1> QED
  BY <1>2, <1>3

\* What _cmd_poll reports is true of the accounts: whatever their number, with
\* one thread or several, however their errors come together and whenever the
\* time is up.
THEOREM StatusIsHonest == Spec => OutcomeIsHonest
<1> DEFINE Honest(p) ==
      CASE outcome'[p] = "none"         -> TRUE
        [] outcome'[p] = "healthy"      -> PolledInTime(p)
        [] outcome'[p] = "degraded"     -> EndedBy(p, "warn")
        [] outcome'[p] = "ingest_error" -> EndedBy(p, "failed") \/ pc[p] = "idle"
<1>1. ASSUME Inv, OutcomeInv, OutcomeInv', [Next]_vars, NEW p \in Processes, outcome'[p] # outcome[p]
      PROVE  Honest(p)
  <2>1. CASE outcome'[p] = "none"
    BY <2>1
  <2>2. ASSUME outcome'[p] # "none" PROVE Leave(p) \/ Refuse(p)
    <3>1. ASSUME NEW q \in Processes, NEW a \in Accounts,
                 \/ Submit(q, a) \/ SkipForBudget(q, a) \/ LockAccount(q, a) \/ AccountBusy(q, a)
                 \/ GetToken(q, a) \/ NoToken(q, a)
                 \/ \E s \in {"ok"} \union Errors : AccountPolled(q, a, s)
          PROVE  outcome' = outcome
      BY <1>1, <3>1, AccountChanges
    <3>2. ASSUME NEW q \in Processes, Invoke(q) \/ Enter(q) \/ \E c \in Accounts : RefreshToken(q, c)
          PROVE  outcome' = outcome
      BY <3>2 DEF Invoke, Enter, RefreshToken, runVars
    <3>3. ASSUME NEW q \in Processes, Report(q) \/ Dies(q)
          PROVE  FALSE
      <4>1. outcome' = [outcome EXCEPT ![q] = "none"]
        BY <3>3 DEF Report, Dies
      <4> QED
        BY <1>1, <2>2, <4>1 DEF OutcomeInv
    <3>4. ASSUME NEW q \in Processes, Leave(q) \/ Refuse(q)
          PROVE  q = p
      BY <1>1, <3>4 DEF Leave, Refuse, OutcomeInv
    <3>5. Tick \/ Command \/ UNCHANGED vars => outcome' = outcome
      BY DEF Tick, Command, vars, runVars
    <3> QED
      BY <1>1, <3>1, <3>2, <3>3, <3>4, <3>5 DEF Next, Advance
  <2>3. CASE outcome'[p] # "none" /\ Leave(p)
    <3>1. outcome'[p] \in {"healthy", "degraded", "ingest_error"}
      BY <1>1, <2>3 DEF OutcomeInv, Reports
    <3> QED
      BY <1>1, <2>3, <3>1, LeaveIsHonest
  <2>4. CASE Refuse(p)
    BY <1>1, <2>4 DEF Refuse, OutcomeInv
  <2> QED
    BY <2>1, <2>2, <2>3, <2>4
<1> HIDE DEF Honest
<1>2. Inv /\ OutcomeInv /\ OutcomeInv' /\ [Next]_vars =>
        [\A p \in Processes : outcome'[p] # outcome[p] => Honest(p)]_vars
  BY <1>1
<1> QED
  BY <1>2, RunInvariance, OutcomeInvariance, PTL DEF Spec, OutcomeIsHonest, Honest

-----------------------------------------------------------------------------
(* auth-setup *)

CacheFile == [kind : {"missing", "torn", "ok"}, ids : Seq(Identities)]
PinFile == [kind : {"missing", "torn", "ok"}, id : Identities \union {""}]

\* The types of the token files
FileTypes ==
    /\ cache \in [Accounts -> CacheFile]
    /\ pin \in [Accounts -> PinFile]
    /\ loose \in [Accounts -> SUBSET {"cache", "pin"}]

\* Files as auth-setup leaves them: private and whole, the pinned identity one
\* of those in the cache.
Sound(a) ==
    /\ loose[a] = {} /\ cache[a].kind = "ok" /\ pin[a].kind = "ok"
    /\ cache[a].ids # <<>> /\ pin[a].id \in Members(cache[a].ids)

TokenInv == FileTypes /\ \A a \in healed : a \in Accounts /\ Sound(a)

\* Files that are missing or torn
LEMMA NoFiles == Missing \in CacheFile /\ Torn \in CacheFile /\ NoPin \in PinFile /\ TornPin \in PinFile
<1>1. <<>> \in Seq(Identities)
  BY SMT
<1> QED
  BY <1>1 DEF Missing, Torn, NoPin, TornPin, CacheFile, PinFile

\* The first identity of a cache that is not empty
LEMMA FirstMember ==
    ASSUME NEW ids \in Seq(Identities), ids # <<>>
    PROVE  ids[1] \in Identities /\ ids[1] \in Members(ids)
<1>1. Len(ids) \in Nat /\ Len(ids) # 0
  BY SMT
<1>2. 1 \in 1..Len(ids)
  BY <1>1, SMT
<1> QED
  BY <1>2, SMT DEF Members

\* A step that touches the files of one account only
LEMMA OneAccount ==
    ASSUME TokenInv, FileTypes', NEW a \in Accounts,
           \A b \in Accounts : b # a => cache'[b] = cache[b] /\ pin'[b] = pin[b] /\ loose'[b] = loose[b],
           healed' \subseteq healed \union {a},
           a \in healed' => Sound(a)'
    PROVE  TokenInv'
  BY DEF TokenInv, Sound

\* acquire_access_token writes the identity anew, and leaves a sound cache.
LEMMA AcquirePreserves ==
    ASSUME TokenInv, NEW a \in Accounts, Acquire(a) \/ AcquireFails(a) \/ AcquireDies(a)
    PROVE  TokenInv'
<1>1. FileTypes /\ cache[a].ids \in Seq(Identities)
  BY DEF TokenInv, FileTypes, CacheFile
<1>2. CASE Acquire(a)
  <2>1. cache[a].ids[1] \in Identities /\ cache[a].ids[1] \in Members(cache[a].ids)
    BY <1>1, <1>2, FirstMember DEF Acquire, Selects
  <2>2. /\ pin' = [pin EXCEPT ![a] = [kind |-> "ok", id |-> cache[a].ids[1]]]
        /\ loose' = [loose EXCEPT ![a] = @ \ {"pin"}]
        /\ cache' = cache /\ healed' = healed
    BY <1>2 DEF Acquire, PersistIdentity
  <2>3. FileTypes'
    BY <1>1, <2>1, <2>2 DEF FileTypes, PinFile
  <2>4. a \in healed => Sound(a)'
    BY <1>1, <2>1, <2>2 DEF TokenInv, FileTypes, Sound
  <2> QED
    BY <1>1, <2>2, <2>3, <2>4, OneAccount DEF FileTypes
<1>3. CASE AcquireFails(a)
  <2>1. pin' = pin /\ loose' = loose /\ healed' = healed
        /\ cache' \in {cache, [cache EXCEPT ![a] = Missing]}
        /\ (cache[a].kind = "ok" => cache' = cache)
    BY <1>3 DEF AcquireFails, Quarantine
  <2>2. FileTypes'
    BY <1>1, <2>1, NoFiles DEF FileTypes
  <2>3. a \in healed => Sound(a)'
    BY <2>1 DEF TokenInv, Sound
  <2> QED
    BY <1>1, <2>1, <2>2, <2>3, OneAccount DEF FileTypes
<1>4. CASE AcquireDies(a)
  <2>1. /\ cache' \in {cache, [cache EXCEPT ![a] = Torn]}
        /\ pin' \in {pin, [pin EXCEPT ![a] = TornPin]}
        /\ loose' \in {loose, [loose EXCEPT ![a] = @ \union {"pin"}]}
        /\ healed' = healed \ {a}
    BY <1>4 DEF AcquireDies
  <2>2. FileTypes'
    BY <1>1, <2>1, NoFiles, SMT DEF FileTypes
  <2> QED
    BY <1>1, <2>1, <2>2, OneAccount DEF FileTypes
<1> QED
  BY <1>2, <1>3, <1>4

\* auth-setup opens what it can, and writes both files.
LEMMA SetupPreserves ==
    ASSUME TokenInv, NEW a \in Accounts,
           SetupBegins(a) \/ SetupEnds(a) \/ \E i \in Identities : SetupDies(a, i)
    PROVE  TokenInv'
<1>1. FileTypes /\ cache[a].ids \in Seq(Identities)
  BY DEF TokenInv, FileTypes, CacheFile
<1>2. CASE SetupBegins(a)
  <2>1. pin' = pin /\ loose' = loose /\ healed' = healed
        /\ cache' \in {cache, [cache EXCEPT ![a] = Missing]}
        /\ (cache[a].kind = "ok" => cache' = cache)
    BY <1>2 DEF SetupBegins, Quarantine
  <2>2. FileTypes'
    BY <1>1, <2>1, NoFiles DEF FileTypes
  <2>3. a \in healed => Sound(a)'
    BY <2>1 DEF TokenInv, Sound
  <2> QED
    BY <1>1, <2>1, <2>2, <2>3, OneAccount DEF FileTypes
<1>3. CASE SetupGivesUp(a)
  BY <1>3 DEF SetupGivesUp, files, TokenInv, FileTypes, Sound
<1>4. ASSUME NEW i \in Identities
      PROVE  SignedIn(a, i) \in Seq(Identities) /\ SignedIn(a, i) # <<>>
  <2>1. CASE i \in Members(cache[a].ids)
    <3>1. cache[a].ids # <<>>
      BY <2>1, SMT DEF Members
    <3> QED
      BY <1>1, <2>1, <3>1 DEF SignedIn
  <2>2. CASE i \notin Members(cache[a].ids)
    <3>1. Append(cache[a].ids, i) \in Seq(Identities) /\ Append(cache[a].ids, i) # <<>>
      BY <1>1, SMT
    <3> QED
      BY <2>2, <3>1 DEF SignedIn
  <2> QED
    BY <2>1, <2>2
<1>5. ASSUME NEW i \in Identities, SetupDone(a, i)
      PROVE  TokenInv'
  <2> DEFINE ids == SignedIn(a, i)
  <2>1. ids \in Seq(Identities) /\ ids # <<>>
    BY <1>4
  <2>2. /\ cache' = [cache EXCEPT ![a] = [kind |-> "ok", ids |-> ids]]
        /\ pin' = [pin EXCEPT ![a] = [kind |-> "ok", id |-> ids[1]]]
        /\ loose' = [loose EXCEPT ![a] = {}]
        /\ healed' = healed \union {a}
    BY <1>5 DEF SetupDone, SaveCache, PersistIdentity
  <2> HIDE DEF ids
  <2>3. ids[1] \in Identities /\ ids[1] \in Members(ids)
    BY <2>1, FirstMember
  <2>4. FileTypes'
    BY <1>1, <2>1, <2>2, <2>3 DEF FileTypes, CacheFile, PinFile
  <2>5. Sound(a)'
    BY <1>1, <2>1, <2>2, <2>3 DEF FileTypes, Sound
  <2> QED
    BY <1>1, <2>2, <2>4, <2>5, OneAccount DEF FileTypes
<1>6. ASSUME NEW i \in Identities, SetupDies(a, i)
      PROVE  TokenInv'
  <2> DEFINE ids == SignedIn(a, i)
  <2>1. ids \in Seq(Identities)
    BY <1>4
  <2>2. /\ cache' \in {[cache EXCEPT ![a] = [kind |-> "ok", ids |-> ids]], [cache EXCEPT ![a] = Torn]}
        /\ pin' \in {pin, [pin EXCEPT ![a] = TornPin]}
        /\ loose' \in {loose, [loose EXCEPT ![a] = @ \union {"cache"}],
                       [loose EXCEPT ![a] = @ \union {"pin"}]}
        /\ healed' = healed \ {a}
    BY <1>6 DEF SetupDies, SaveCache
  <2> HIDE DEF ids
  <2>3. FileTypes'
    <3>1. [kind |-> "ok", ids |-> ids] \in CacheFile
      BY <2>1 DEF CacheFile
    <3> QED
      BY <1>1, <2>2, <3>1, NoFiles, SMT DEF FileTypes
  <2> QED
    BY <1>1, <2>2, <2>3, OneAccount DEF FileTypes
<1> QED
  BY <1>2, <1>3, <1>5, <1>6 DEF SetupEnds

\* Once auth-setup has completed for an account, no token request fails for
\* what is on disk until a process dies while it writes there: SetupHeals is
\* an invariant, for any accounts, identities, commands and crashes.
THEOREM SetupRepairs == Spec => []SetupHeals
<1>1. Init => TokenInv
  BY NoFiles, SMT DEF Init, TokenInit, TokenInv, FileTypes
<1>2. TokenInv /\ [Next]_vars => TokenInv'
  <2> SUFFICES ASSUME TokenInv, [Next]_vars PROVE TokenInv'
    OBVIOUS
  <2>1. ASSUME UNCHANGED tokenVars
        PROVE  TokenInv'
    BY <2>1 DEF tokenVars, files, TokenInv, FileTypes, Sound
  <2>2. ASSUME NEW p \in Processes, Invoke(p) \/ Refuse(p) \/ Advance(p) \/ Dies(p)
        PROVE  TokenInv'
    <3>1. UNCHANGED tokenVars
          \/ \E a \in Accounts : Acquire(a) \/ AcquireFails(a) \/ AcquireDies(a)
      BY <2>2 DEF Invoke, Refuse, Report, Advance, Dies, Enter, Leave, Submit, SkipForBudget, LockAccount,
                  AccountBusy, GetToken, NoToken, AccountPolled
    <3> QED
      BY <2>1, <3>1, AcquirePreserves
  <2>3. ASSUME NEW p \in Processes, NEW a \in Accounts, RefreshToken(p, a)
        PROVE  TokenInv'
    BY <2>3, AcquirePreserves DEF RefreshToken
  <2>4. CASE Command
    BY <2>4, AcquirePreserves, SetupPreserves DEF Command
  <2>5. CASE Tick \/ UNCHANGED vars
    BY <2>1, <2>5 DEF Tick, vars
  <2> QED
    BY <2>2, <2>3, <2>4, <2>5 DEF Next
<1>3. TokenInv => SetupHeals
  BY DEF TokenInv, SetupHeals, Sound, Opens, OwnerOnly, Selects, IdentityLoads
<1> QED
  BY <1>1, <1>2, <1>3, PTL DEF Spec

=============================================================================
