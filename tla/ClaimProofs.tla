---------------------------- MODULE ClaimProofs ----------------------------
(***************************************************************************)
(* What concurrent requests keep of the task queue: a task is handed out   *)
(* once (ClaimedOnce), retried once and within its budget (RetryLineage),  *)
(* no retry is forgotten while the server is up (RetryOwed), and           *)
(* max_concurrent_tasks is exceeded by no more than the claims that        *)
(* overlap (OvercommitBound).  Each is an agreement between the table and  *)
(* the local variables of all goroutines, so the steps are first sorted by *)
(* what they do to those variables (GoroutineStep, RememberStep).          *)
(***************************************************************************)
EXTENDS TaskQueueProofs, FiniteSetTheorems

USE WorkersFinite

Handling == {"retry", "check", "reset"}             \* HandleFailedTasks
PastCount == {"claim_snapshot", "claim_commit"}     \* past the capacity check
InClaim == PastCount \cup {"claim_count", "claim_status"}

\* A step gives goroutine v nothing new: no failed rows, no claimed row, no
\* pass of the capacity check.
Calm(v) ==
  /\ loc'[v].pc \in Handling => loc[v].pc \in Handling /\ loc'[v].rows \subseteq loc[v].rows
  /\ loc'[v].pc = "claim_status" => loc[v].pc = "claim_status" /\ loc'[v].rows = loc[v].rows
  /\ loc'[v].pc \in PastCount => loc[v].pc \in PastCount /\ loc'[v].agent = loc[v].agent
  /\ loc'[v].pc = "claim_commit" => loc[v].pc = "claim_commit" /\ loc'[v].rows = loc[v].rows
  /\ loc'[v].pc \in InClaim => loc[v].pc \in InClaim \/ v \in Handlers

Quiet == row' = row /\ held' \subseteq held /\ \A v \in Workers : Calm(v)

\* A statement of w fails the rows T, which were in flight.
FailsRows(w, T, why) ==
  /\ T \subseteq AllInFlight /\ why \in Retryable
  /\ FailRows(w, T, why) /\ held' = held

Failing    == \E w \in Workers, T \in SUBSET Tasks, why \in Retryable : FailsRows(w, T, why)
Adding     == \E w \in Workers : InsertRow(w) \/ \E t \in Tasks : HandleRetry(w, t)
Counting   == \E w \in Workers, a \in Agents : ClaimCount(w, a)
Committing == \E w \in Workers : ClaimSnapshot(w) \/ \E t \in Tasks : ClaimCommit(w, t)
Answering  == \E w \in Workers : ClaimStatus(w)

-----------------------------------------------------------------------------
(* The inductive invariants. *)

\* A task is known to a daemon, or to the goroutine that claimed it, only after
\* it has left the queue.
ClaimsInv ==
  /\ \A t \in held : status[t] \notin {"none", "queued"}
  /\ \A w \in Workers : loc[w].pc = "claim_status" =>
       /\ \A t \in loc[w].rows : status[t] # "queued"
       /\ loc[w].rows \cap held = {}
       /\ \A v \in Workers \ {w} : loc[v].pc = "claim_status" => loc[v].rows \cap loc[w].rows = {}

Childless(t) == \A u \in Tasks : row[u].parent # t

\* The rows HandleFailedTasks has still to look at have failed for a reason that
\* may be retried, have no retry yet, and are in nobody else's hands.
FailedRowsInv ==
  \A w \in Workers : loc[w].pc \in Handling =>
    /\ \A t \in loc[w].rows : status[t] = "failed" /\ reason[t] \in Retryable /\ Childless(t)
    /\ \A v \in Workers \ {w} : loc[v].pc \in Handling => loc[v].rows \cap loc[w].rows = {}

\* The claims for agent a that are past the capacity check.
Claimers(a) == {w \in Handlers : loc[w].pc \in PastCount /\ loc[w].agent = a}

Load(a) == Cardinality(TasksOf(a, InFlight)) + Cardinality(Claimers(a))

\* Each of them may add one task, one that it selected among the agent's, and
\* the last of them saw a free place.
CapacityInv ==
  /\ \A w \in Workers : loc[w].pc \in InClaim => w \in Handlers
  /\ \A w \in Workers : loc[w].pc = "claim_commit" =>
       \A t \in loc[w].rows : row[t].agent = loc[w].agent
  /\ \A a \in Agents : Load(a) <= MaxConcurrent + Cardinality(Handlers) - 1

-----------------------------------------------------------------------------
(* The steps, by what they give to a goroutine.                              *)

LEMMA OneCalm ==
  ASSUME Locals, NEW w \in Workers, NEW l, loc' = [loc EXCEPT ![w] = l],
         l.pc \notin Handling \cup InClaim
  PROVE  \A v \in Workers : Calm(v)
BY DEF Locals, Calm, Handling, PastCount, InClaim

LEMMA GoroutineStep ==
  Locals /\ Next => Quiet \/ Failing \/ Adding \/ Counting \/ Committing \/ Answering
<1> SUFFICES ASSUME Locals, Next
             PROVE  Quiet \/ Failing \/ Adding \/ Counting \/ Committing \/ Answering
  OBVIOUS
<1>b. loc \in [Workers -> Goroutine]
  BY DEF Locals
<1>1. ASSUME NEW w \in Workers, NEW a \in Agents, NEW s \in Subjects, EnqueueBegin(w, a, s) PROVE Quiet
  <2>1. loc' = [loc EXCEPT ![w] = loc'[w]] /\ loc'[w].pc \notin Handling \cup InClaim
    BY <1>1, <1>b DEF EnqueueBegin, Idle, Handling, PastCount, InClaim
  <2> QED
    BY <1>1, <2>1, OneCalm DEF EnqueueBegin, Quiet, table, daemons
<1>2. ASSUME NEW w \in Workers, InsertConflict(w) PROVE Quiet
  <2>1. loc' = [loc EXCEPT ![w] = loc'[w]] /\ loc'[w].pc \notin Handling \cup InClaim
    BY <1>2, <1>b DEF InsertConflict, Idle, Handling, PastCount, InClaim
  <2> QED
    BY <1>2, <2>1, OneCalm DEF InsertConflict, Quiet, table, daemons
<1>3. ASSUME NEW w \in Workers, EnqueueAfterCancel(w) PROVE Quiet
  <2>1. loc' = [loc EXCEPT ![w] = loc'[w]] /\ loc'[w].pc \notin Handling \cup InClaim
    BY <1>3, <1>b DEF EnqueueAfterCancel, Idle, Handling, PastCount, InClaim
  <2> QED
    BY <1>3, <2>1, OneCalm DEF EnqueueAfterCancel, Quiet, table, daemons
<1>4. ASSUME NEW w \in Workers, NEW t \in Tasks, CancelTask(w, t) PROVE Quiet
  <2>1. loc' = [loc EXCEPT ![w] = loc'[w]] /\ loc'[w].pc \notin Handling \cup InClaim
    BY <1>4, <1>b DEF CancelTask, AfterCancel, Idle, Handling, PastCount, InClaim
  <2> QED
    BY <1>4, <2>1, OneCalm DEF CancelTask, Quiet, table, daemons, AfterCancel
<1>5. ASSUME NEW w \in Workers, NEW i \in Issues, NEW st \in IssueMoves, UpdateIssueStatus(w, i, st) PROVE Quiet
  <2>1. loc' = [loc EXCEPT ![w] = loc'[w]] /\ loc'[w].pc \notin Handling \cup InClaim
    BY <1>5, <1>b DEF UpdateIssueStatus, Idle, Handling, PastCount, InClaim
  <2> QED
    BY <1>5, <2>1, OneCalm DEF UpdateIssueStatus, Quiet, table, daemons
<1>6. ASSUME NEW w \in Workers, NEW i \in Issues, NEW a \in Agents, Assign(w, i, a) PROVE Quiet
  <2>1. loc' = [loc EXCEPT ![w] = loc'[w]] /\ loc'[w].pc \notin Handling \cup InClaim
    BY <1>6, <1>b DEF Assign, Idle, Handling, PastCount, InClaim
  <2> QED
    BY <1>6, <2>1, OneCalm DEF Assign, Quiet, table, daemons
<1>7. ASSUME NEW w \in Workers, CancelTasksForIssue(w) PROVE Quiet
  <2>1. loc' = [loc EXCEPT ![w] = loc'[w]] /\ loc'[w].pc \notin Handling \cup InClaim
    BY <1>7, <1>b DEF CancelTasksForIssue, AfterCancel, Idle, Handling, PastCount, InClaim
  <2> QED
    BY <1>7, <2>1, OneCalm DEF CancelTasksForIssue, Quiet, table, daemons, AfterCancel
<1>8. ASSUME NEW w \in Workers, NEW i \in Issues, NEW a \in Agents, RerunIssue(w, i, a) PROVE Quiet
  <2>1. loc' = [loc EXCEPT ![w] = loc'[w]] /\ loc'[w].pc \notin Handling \cup InClaim
    BY <1>8, <1>b DEF RerunIssue, AfterCancel, Idle, Handling, PastCount, InClaim
  <2> QED
    BY <1>8, <2>1, OneCalm DEF RerunIssue, Quiet, table, daemons, AfterCancel
<1>9. ASSUME NEW w \in Workers, NEW a \in Agents, Archive(w, a) PROVE Quiet
  <2>1. loc' = [loc EXCEPT ![w] = loc'[w]] /\ loc'[w].pc \notin Handling \cup InClaim
    BY <1>9, <1>b DEF Archive, Idle, Handling, PastCount, InClaim
  <2> QED
    BY <1>9, <2>1, OneCalm DEF Archive, Quiet, table, daemons
<1>10. ASSUME NEW w \in Workers, ArchiveCancel(w) PROVE Quiet
  <2>1. loc' = [loc EXCEPT ![w] = loc'[w]] /\ loc'[w].pc \notin Handling \cup InClaim
    BY <1>10, <1>b DEF ArchiveCancel, Idle, Handling, PastCount, InClaim
  <2> QED
    BY <1>10, <2>1, OneCalm DEF ArchiveCancel, Quiet, table, daemons
<1>11. ASSUME NEW w \in Workers, NEW t \in Tasks, CompleteTask(w, t) PROVE Quiet
  <2>1. loc' = [loc EXCEPT ![w] = loc'[w]] /\ loc'[w].pc \notin Handling \cup InClaim
    BY <1>11, <1>b DEF CompleteTask, Idle, Handling, PastCount, InClaim
  <2> QED
    BY <1>11, <2>1, OneCalm DEF CompleteTask, Quiet, table, daemons
<1>12. ASSUME NEW w \in Workers, NEW t \in Tasks, FailTask(w, t) PROVE Quiet
  <2>1. loc' = [loc EXCEPT ![w] = loc'[w]] /\ loc'[w].pc \notin Handling \cup InClaim
    BY <1>12, <1>b DEF FailTask, Idle, Handling, PastCount, InClaim
  <2> QED
    BY <1>12, <2>1, OneCalm DEF FailTask, Quiet, table, daemons
<1>13. ASSUME NEW w \in Workers, NEW R \in SUBSET Runtimes, SweepRuntimes(w, R) PROVE Quiet
  <2>1. loc' = [loc EXCEPT ![w] = loc'[w]] /\ loc'[w].pc \notin Handling \cup InClaim
    BY <1>13, <1>b DEF SweepRuntimes, Idle, Handling, PastCount, InClaim
  <2> QED
    BY <1>13, <2>1, OneCalm DEF SweepRuntimes, Quiet, table, daemons
<1>14. ASSUME NEW w \in Workers, NEW a \in Agents, ReconcileCount(w, a) PROVE Quiet
  BY <1>14, <1>b DEF ReconcileCount, Quiet, Calm, Goroutine, Idle, Handling, PastCount, InClaim, pc, table, daemons
<1>15. ASSUME NEW w \in Workers, ReconcileWrite(w) PROVE Quiet
  BY <1>15, <1>b DEF ReconcileWrite, Quiet, Calm, Goroutine, Idle, Handling, PastCount, InClaim, pc, table, daemons
<1>16. ASSUME NEW w \in Handlers, NEW rt \in Runtimes, ClaimBegin(w, rt) PROVE Quiet
  BY <1>16, <1>b DEF ClaimBegin, Quiet, Calm, Idle, Handling, PastCount, InClaim, table, daemons
<1>17. ASSUME NEW w \in Workers, ClaimMiss(w) PROVE Quiet
  BY <1>17, <1>b DEF ClaimMiss, NextAgent, Quiet, Calm, Idle, Handling, PastCount, InClaim, pc, table, daemons
<1>18. ASSUME NEW w \in Workers, HandleCheck(w) PROVE Quiet
  <2> DEFINE i == loc[w].subject
             look == issueStatus[i] = "in_progress" /\ i \notin loc[w].skip
             l == [loc[w] EXCEPT !.skip = IF look THEN @ \cup {i} ELSE @]
             reset == [l EXCEPT !.pc = "reset"]
  <2>1. loc[w] \in Goroutine /\ loc[w].pc = "check" /\ i \in Issues
    BY <1>18, <1>b DEF HandleCheck, pc, Locals, LocalOK
  <2>2. l \in Goroutine /\ l.rows = loc[w].rows
    BY <2>1 DEF Goroutine
  <2>3. loc' = [loc EXCEPT ![w] = reset] \/ loc' = [loc EXCEPT ![w] = NextRow(l)]
    BY <1>18 DEF HandleCheck
  <2> HIDE DEF l
  <2>4. reset.pc = "reset" /\ reset.rows = loc[w].rows
    BY <2>2 DEF Goroutine
  <2>5. NextRow(l).pc \in {"count", "retry"} /\ NextRow(l).rows = loc[w].rows
    BY <2>2 DEF Goroutine, NextRow
  <2>6. \A v \in Workers : Calm(v)
    BY <1>b, <2>1, <2>3, <2>4, <2>5 DEF Calm, Handling, PastCount, InClaim
  <2> QED
    BY <1>18, <2>6 DEF HandleCheck, Quiet, table, daemons
<1>19. ASSUME NEW w \in Workers, HandleReset(w) PROVE Quiet
  <2>1. NextRow(loc[w]).pc \in {"count", "retry"} /\ NextRow(loc[w]).rows = loc[w].rows
    BY <1>b DEF Goroutine, NextRow
  <2> QED
    BY <1>19, <1>b, <2>1 DEF HandleReset, Quiet, Calm, Handling, PastCount, InClaim, pc, table, daemons
<1>20. ASSUME NEW t \in Tasks, StartTask(t) PROVE Quiet
  BY <1>20 DEF StartTask, Quiet, Calm, daemons
<1>21. ASSUME NEW a \in Agents, Restore(a) PROVE Quiet
  BY <1>21 DEF Restore, Quiet, Calm, table, daemons
<1>22. ASSUME NEW a \in Agents, NEW rt \in Runtimes,
                  NEW st \in StatusEdits \cup {agentStatus[a]}, UpdateAgent(a, rt, st)
           PROVE Quiet
  BY <1>22 DEF UpdateAgent, Quiet, Calm, table, daemons
<1>23. ASSUME NEW rt \in Runtimes, Heartbeat(rt) PROVE Quiet
  BY <1>23 DEF Heartbeat, Quiet, Calm, table, daemons
<1>24. ASSUME NEW rt \in Runtimes, DaemonStart(rt) PROVE Quiet
  BY <1>24 DEF DaemonStart, Quiet, Calm, table, daemons
<1>25. ASSUME NEW rt \in Runtimes, RecoverLost(rt) PROVE Quiet
  BY <1>25 DEF RecoverLost, Quiet, Calm, table, daemons
<1>26. ASSUME NEW rt \in Runtimes, DaemonStop(rt) PROVE Quiet
  <2>1. ASSUME NEW v \in Workers
        PROVE  loc'[v].pc = loc[v].pc /\ loc'[v].rows = loc[v].rows /\ loc'[v].agent = loc[v].agent
    BY <1>26, <1>b DEF DaemonStop, Goroutine
  <2> QED
    BY <1>26, <2>1 DEF DaemonStop, Quiet, Calm, table, daemons
<1>27. ASSUME ServerRestart PROVE Quiet
  BY <1>27 DEF ServerRestart, Quiet, Calm, Idle, Handling, PastCount, InClaim, table, daemons
<1>28. ASSUME NEW w \in Workers, SweepOffline(w) PROVE Failing
  <2>1. PICK T \in SUBSET Tasks : T \subseteq AllInFlight /\ FailRows(w, T, "runtime_offline")
    BY <1>28 DEF SweepOffline, AllInFlight
  <2> QED
    BY <1>28, <2>1 DEF SweepOffline, Failing, FailsRows, Retryable, daemons
<1>29. ASSUME NEW w \in Workers, NEW T \in SUBSET Tasks, SweepTasks(w, T) PROVE Failing
  BY <1>29 DEF SweepTasks, Failing, FailsRows, Retryable, daemons
<1>30. ASSUME NEW w \in Workers, NEW rt \in Runtimes, RecoverOrphans(w, rt) PROVE Failing
  <2>1. PICK T \in SUBSET Tasks : T \subseteq AllInFlight /\ FailRows(w, T, "runtime_recovery")
    BY <1>30 DEF RecoverOrphans, AllInFlight
  <2> QED
    BY <1>30, <2>1 DEF RecoverOrphans, Failing, FailsRows, Retryable
<1> QED
  BY <1>1, <1>2, <1>3, <1>4, <1>5, <1>6, <1>7, <1>8, <1>9, <1>10, <1>11, <1>12, <1>13, <1>14,
     <1>15, <1>16, <1>17, <1>18, <1>19, <1>20, <1>21, <1>22, <1>23, <1>24, <1>25, <1>26,
     <1>27, <1>28, <1>29, <1>30
  DEF Next, Request, Sweep, Continue, Environment, Workers, Adding, Counting, Committing, Answering

\* Rows that have left the queue do not return to it, and failed rows stay as
\* they are.
LEMMA RowsAge ==
  ASSUME Locals, Next, NEW t \in Tasks
  PROVE  /\ status[t] \notin {"none", "queued"} => status'[t] \notin {"none", "queued"}
         /\ status[t] = "failed" =>
              status'[t] = "failed" /\ reason'[t] = reason[t] /\ row'[t] = row[t]
<1>1. CASE Keeping
  BY <1>1 DEF Keeping, Keeps, Active, Terminal
<1>2. CASE Starting
  BY <1>2 DEF Starting, StartTask, SetStatus
<1>3. CASE Creating
  BY <1>3 DEF Creating, CreateTask, IsFresh, Locals, StoreOK, StoreTypeOK
<1>4. CASE Claiming
  BY <1>4 DEF Claiming, ClaimSnapshot, ClaimCommit, SetStatus, table
<1> QED
  BY <1>1, <1>2, <1>3, <1>4, TableStep

\* A row that exists stays what it is.
LEMMA RowsStay ==
  ASSUME Locals, Next, NEW t \in Tasks, status[t] # "none"
  PROVE  status'[t] # "none" /\ row'[t] = row[t]
<1>1. CASE Keeping
  BY <1>1 DEF Keeping, Keeps, Terminal
<1>2. CASE Starting
  BY <1>2 DEF Starting, StartTask, SetStatus
<1>3. CASE Creating
  BY <1>3 DEF Creating, CreateTask, IsFresh, Locals, StoreOK, StoreTypeOK
<1>4. CASE Claiming
  BY <1>4 DEF Claiming, ClaimSnapshot, ClaimCommit, SetStatus, table
<1> QED
  BY <1>1, <1>2, <1>3, <1>4, TableStep

-----------------------------------------------------------------------------
(* A task is handed out once.                                                *)

LEMMA ClaimsInit == Init => ClaimsInv
BY DEF Init, ClaimsInv, Idle

LEMMA ClaimsNext == Locals /\ ClaimsInv /\ Next => ClaimsInv'
<1> SUFFICES ASSUME Locals, ClaimsInv, Next PROVE ClaimsInv'
  OBVIOUS
<1>a. loc \in [Workers -> Goroutine] /\ held \subseteq Tasks
  BY DEF Locals, StoreOK, StoreTypeOK
<1>b. \A v \in Workers : loc[v].rows \subseteq Tasks
  BY <1>a DEF Goroutine
<1>c. \A t \in Tasks : status[t] \notin {"none", "queued"} => status'[t] \notin {"none", "queued"}
  BY RowsAge
<1>d. \A t \in held : status[t] \notin {"none", "queued"}
  BY DEF ClaimsInv
<1>e. \A w \in Workers, t \in Tasks :
        loc[w].pc = "claim_status" /\ t \in loc[w].rows => status[t] \notin {"none", "queued"}
  BY DEF ClaimsInv, Locals
\* Nobody gets a claimed row.
<1>q. ASSUME held' \subseteq held,
             \A v \in Workers : loc'[v].pc = "claim_status" =>
               loc[v].pc = "claim_status" /\ loc'[v].rows = loc[v].rows
      PROVE  ClaimsInv'
  <2>1. \A t \in held' : status'[t] \notin {"none", "queued"}
    BY <1>q, <1>a, <1>c, <1>d
  <2>2. ASSUME NEW w \in Workers, loc'[w].pc = "claim_status"
        PROVE  /\ \A t \in loc'[w].rows : status'[t] # "queued"
               /\ loc'[w].rows \cap held' = {}
               /\ \A v \in Workers \ {w} : loc'[v].pc = "claim_status" =>
                    loc'[v].rows \cap loc'[w].rows = {}
    <3>1. loc[w].pc = "claim_status" /\ loc'[w].rows = loc[w].rows
      BY <1>q, <2>2
    <3>2. \A t \in loc[w].rows : status'[t] # "queued"
      BY <3>1, <1>b, <1>c, <1>e
    <3> QED
      BY <3>1, <3>2, <1>q DEF ClaimsInv
  <2> QED
    BY <2>1, <2>2 DEF ClaimsInv
<1>1. CASE Quiet
  BY <1>1, <1>q DEF Quiet, Calm
<1>2. CASE Failing
  <2>1. PICK w \in Workers, T \in SUBSET Tasks, why \in Retryable : FailsRows(w, T, why)
    BY <1>2 DEF Failing
  <2> QED
    BY <2>1, <1>a, <1>q DEF FailsRows, FailRows, Idle
<1>3. CASE Adding
  <2>1. PICK w \in Workers : InsertRow(w) \/ \E t \in Tasks : HandleRetry(w, t)
    BY <1>3 DEF Adding
  <2>2. CASE InsertRow(w)
    BY <2>2, <1>a, <1>q DEF InsertRow, Idle, daemons
  <2>3. ASSUME NEW t \in Tasks, HandleRetry(w, t) PROVE ClaimsInv'
    <3>1. /\ held' = held /\ loc'[w].pc # "claim_status"
          /\ \A v \in Workers \ {w} : loc'[v] = loc[v]
      BY <2>3, <1>a DEF HandleRetry, NextRow, Goroutine, daemons
    <3> QED
      BY <3>1, <1>q
  <2> QED
    BY <2>1, <2>2, <2>3
<1>4. CASE Counting
  BY <1>4, <1>a, <1>q DEF Counting, ClaimCount, NextAgent, Idle, Goroutine, daemons
<1>5. CASE Committing
  <2>1. PICK w \in Workers : ClaimSnapshot(w) \/ \E t \in Tasks : ClaimCommit(w, t)
    BY <1>5 DEF Committing
  <2>2. CASE ClaimSnapshot(w)
    BY <2>2, <1>a, <1>q DEF ClaimSnapshot, NextAgent, Idle, Goroutine, daemons
  <2>3. ASSUME NEW t \in Tasks, ClaimCommit(w, t) PROVE ClaimsInv'
    <3>1. /\ status[t] = "queued" /\ status'[t] = "dispatched" /\ held' = held
          /\ loc'[w].pc = "claim_status" /\ loc'[w].rows = {t}
          /\ \A v \in Workers \ {w} : loc'[v] = loc[v]
      BY <2>3, <1>a DEF ClaimCommit, SetStatus, Goroutine, daemons
    <3>2. t \notin held
      BY <3>1, <1>d
    <3>3. \A v \in Workers : loc[v].pc = "claim_status" => t \notin loc[v].rows
      BY <3>1 DEF ClaimsInv
    <3>4. \A u \in held' : status'[u] \notin {"none", "queued"}
      BY <3>1, <1>a, <1>c, <1>d
    <3>5. ASSUME NEW v \in Workers, loc'[v].pc = "claim_status"
          PROVE  /\ \A u \in loc'[v].rows : status'[u] # "queued"
                 /\ loc'[v].rows \cap held' = {}
                 /\ \A x \in Workers \ {v} : loc'[x].pc = "claim_status" =>
                      loc'[x].rows \cap loc'[v].rows = {}
      <4>1. CASE v = w
        BY <4>1, <3>1, <3>2, <3>3
      <4>2. CASE v # w
        <5>1. loc'[v] = loc[v] /\ loc[v].pc = "claim_status"
          BY <4>2, <3>1, <3>5
        <5>2. \A u \in loc[v].rows : status'[u] # "queued"
          BY <5>1, <1>b, <1>c, <1>e
        <5> QED
          BY <5>1, <5>2, <3>1, <3>3 DEF ClaimsInv
      <4> QED
        BY <4>1, <4>2
    <3> QED
      BY <3>4, <3>5 DEF ClaimsInv
  <2> QED
    BY <2>1, <2>2, <2>3
<1>6. CASE Answering
  <2>1. PICK w \in Workers : ClaimStatus(w)
    BY <1>6 DEF Answering
  <2>2. /\ loc[w].pc = "claim_status" /\ loc'[w].pc # "claim_status"
        /\ \A v \in Workers \ {w} : loc'[v] = loc[v]
        /\ held' \subseteq held \cup loc[w].rows
    <3>1. NextAgent(loc[w]).pc # "claim_status" /\ Idle.pc # "claim_status"
      BY DEF NextAgent, Idle
    <3>2. loc' = [loc EXCEPT ![w] = Idle] \/ loc' = [loc EXCEPT ![w] = NextAgent(loc[w])]
      BY <2>1 DEF ClaimStatus
    <3>3. loc[w].pc = "claim_status" /\ held' \subseteq held \cup loc[w].rows
      BY <2>1 DEF ClaimStatus, pc
    <3> QED
      BY <3>1, <3>2, <3>3, <1>a
  <2>3. \A t \in held' : status'[t] \notin {"none", "queued"}
    BY <2>2, <1>a, <1>b, <1>c, <1>d, <1>e
  <2>4. ASSUME NEW v \in Workers, loc'[v].pc = "claim_status"
        PROVE  /\ \A u \in loc'[v].rows : status'[u] # "queued"
               /\ loc'[v].rows \cap held' = {}
               /\ \A x \in Workers \ {v} : loc'[x].pc = "claim_status" =>
                    loc'[x].rows \cap loc'[v].rows = {}
    <3>1. v # w /\ loc'[v] = loc[v] /\ loc[v].pc = "claim_status"
      BY <2>2, <2>4
    <3>2. \A u \in loc[v].rows : status'[u] # "queued"
      BY <3>1, <1>b, <1>c, <1>e
    <3>3. loc[v].rows \cap held = {} /\ loc[v].rows \cap loc[w].rows = {}
      BY <3>1, <2>2 DEF ClaimsInv
    <3> QED
      BY <3>1, <3>2, <3>3, <2>2 DEF ClaimsInv
  <2> QED
    BY <2>3, <2>4 DEF ClaimsInv
<1> QED
  BY <1>1, <1>2, <1>3, <1>4, <1>5, <1>6, GoroutineStep

\* Two claims never return the same task, and none returns a task that a daemon
\* has already: FOR UPDATE looks at the status of the row it has locked again.
THEOREM HandedOutOnce == Spec => []ClaimedOnce
<1>1. Locals /\ ClaimsInv /\ [Next]_vars => ClaimsInv'
  <2>1. ClaimsInv /\ UNCHANGED vars => ClaimsInv'
    BY DEF ClaimsInv, vars, table, daemons
  <2> QED
    BY <2>1, ClaimsNext
<1>2. ClaimsInv => ClaimedOnce
  BY DEF ClaimsInv, ClaimedOnce, pc
<1> QED
  BY LocalsInit, LocalsNext, ClaimsInit, <1>1, <1>2, PTL DEF Spec

-----------------------------------------------------------------------------
(* A task is retried once, within its budget.                                *)

LEMMA RetryInit == Init => RetryLineage /\ FailedRowsInv
BY DEF Init, RetryLineage, FailedRowsInv, Handling, Idle, NoRow

\* Failed rows that lose no parent and gain no child keep FailedRowsInv, as long
\* as nobody is given failed rows.
LEMMA NoNewRows ==
  ASSUME Locals, FailedRowsInv, Next,
         \A t \in Tasks : status[t] = "failed" /\ Childless(t) => Childless(t)',
         \A v \in Workers : loc'[v].pc \in Handling =>
           loc[v].pc \in Handling /\ loc'[v].rows \subseteq loc[v].rows
  PROVE  FailedRowsInv'
<1>1. \A v \in Workers : loc[v].rows \subseteq Tasks
  BY DEF Locals, Goroutine
<1>2. ASSUME NEW w \in Workers, loc'[w].pc \in Handling
      PROVE  /\ \A t \in loc'[w].rows :
                  status'[t] = "failed" /\ reason'[t] \in Retryable /\ Childless(t)'
             /\ \A v \in Workers \ {w} : loc'[v].pc \in Handling =>
                  loc'[v].rows \cap loc'[w].rows = {}
  <2>1. loc[w].pc \in Handling /\ loc'[w].rows \subseteq loc[w].rows
    BY <1>2
  <2>2. ASSUME NEW t \in loc'[w].rows
        PROVE  status'[t] = "failed" /\ reason'[t] \in Retryable /\ Childless(t)'
    <3>1. t \in Tasks /\ status[t] = "failed" /\ reason[t] \in Retryable /\ Childless(t)
      BY <2>1, <1>1 DEF FailedRowsInv
    <3>2. status'[t] = "failed" /\ reason'[t] = reason[t]
      BY <3>1, RowsAge
    <3> QED
      BY <3>1, <3>2
  <2>3. \A v \in Workers \ {w} : loc'[v].pc \in Handling => loc'[v].rows \cap loc'[w].rows = {}
    BY <2>1 DEF FailedRowsInv
  <2> QED
    BY <2>2, <2>3
<1> QED
  BY <1>2 DEF FailedRowsInv

\* While no row is created the children are those there were, and their parents
\* stay failed.
LEMMA LineageKept ==
  ASSUME Locals, RetryLineage, Next, row' = row
  PROVE  RetryLineage'
<1> SUFFICES ASSUME NEW t \in Tasks, row[t].parent # 0
             PROVE  LET p == row[t].parent IN
                      /\ status'[p] = "failed" /\ reason'[p] \in Retryable
                      /\ Same(t, p)' /\ row[t].subject \notin Runs
                      /\ row[t].attempt = row[p].attempt + 1
                      /\ \A u \in Tasks \ {t} : row[u].parent # p
  BY DEF RetryLineage
<1> DEFINE p == row[t].parent
<1>1. p \in Tasks
  BY DEF Locals, StoreOK, StoreTypeOK, Row, Tasks
<1>2. /\ status[p] = "failed" /\ reason[p] \in Retryable /\ Same(t, p)
      /\ row[t].subject \notin Runs /\ row[t].attempt = row[p].attempt + 1
      /\ \A u \in Tasks \ {t} : row[u].parent # p
  BY DEF RetryLineage
<1>3. status'[p] = "failed" /\ reason'[p] = reason[p]
  BY <1>1, <1>2, RowsAge
<1> QED
  BY <1>2, <1>3 DEF Same

\* A row that does not exist is nobody's parent.
LEMMA NoParentYet ==
  ASSUME RetryLineage, NEW n \in Tasks, status[n] = "none"
  PROVE  \A t \in Tasks : row[t].parent # n
BY DEF RetryLineage, Tasks

LEMMA RetryNext == Locals /\ RetryLineage /\ FailedRowsInv /\ Next => RetryLineage' /\ FailedRowsInv'
<1> SUFFICES ASSUME Locals, RetryLineage, FailedRowsInv, Next
             PROVE  RetryLineage' /\ FailedRowsInv'
  OBVIOUS
<1>a. loc \in [Workers -> Goroutine] /\ \A v \in Workers : loc[v].rows \subseteq Tasks
  BY DEF Locals, Goroutine
<1>r. status \in [Tasks -> Status] /\ row \in [Tasks -> Row]
  BY DEF Locals, StoreOK, StoreTypeOK
<1>b. row' = row => \A t \in Tasks : Childless(t) => Childless(t)'
  BY DEF Childless
<1>1. CASE Quiet
  BY <1>1, <1>b, NoNewRows, LineageKept DEF Quiet, Calm
<1>2. CASE Failing
  <2>1. PICK w \in Workers, T \in SUBSET Tasks, why \in Retryable : FailsRows(w, T, why)
    BY <1>2 DEF Failing
  <2>2. /\ row' = row /\ T \subseteq AllInFlight
        /\ \A t \in T : status'[t] = "failed" /\ reason'[t] = why
        /\ \A v \in Workers \ {w} : loc'[v] = loc[v]
        /\ loc'[w].pc \in Handling => loc'[w].rows = T
    BY <2>1, <1>a DEF FailsRows, FailRows, SetStatus, Idle, Handling
  <2>3. RetryLineage'
    BY <2>2, LineageKept
  <2>4. \A t \in T : status[t] # "failed" /\ Childless(t)
    BY <2>2 DEF AllInFlight, InFlight, Childless, RetryLineage, Tasks
  <2>5. \A v \in Workers \ {w} : loc[v].pc \in Handling => loc[v].rows \cap T = {}
    BY <2>4 DEF FailedRowsInv
  <2>6. ASSUME NEW v \in Workers, loc'[v].pc \in Handling
        PROVE  /\ \A t \in loc'[v].rows :
                    status'[t] = "failed" /\ reason'[t] \in Retryable /\ Childless(t)'
               /\ \A x \in Workers \ {v} : loc'[x].pc \in Handling =>
                    loc'[x].rows \cap loc'[v].rows = {}
    <3>1. CASE v = w
      BY <3>1, <2>2, <2>4, <2>5, <2>6, <1>b
    <3>2. CASE v # w
      <4>1. loc'[v] = loc[v] /\ loc[v].pc \in Handling
        BY <3>2, <2>2, <2>6
      <4>2. ASSUME NEW t \in loc[v].rows
            PROVE  status'[t] = "failed" /\ reason'[t] \in Retryable /\ Childless(t)'
        <5>1. t \in Tasks /\ status[t] = "failed" /\ reason[t] \in Retryable /\ Childless(t)
          BY <4>1, <1>a DEF FailedRowsInv
        <5> QED
          BY <5>1, <2>2, <1>b, RowsAge
      <4>3. \A x \in Workers \ {v} : loc'[x].pc \in Handling => loc'[x].rows \cap loc[v].rows = {}
        BY <4>1, <2>2, <2>5, <3>2 DEF FailedRowsInv
      <4> QED
        BY <4>1, <4>2, <4>3
    <3> QED
      BY <3>1, <3>2
  <2> QED
    BY <2>3, <2>6 DEF FailedRowsInv
<1>3. ASSUME NEW w \in Workers, InsertRow(w) PROVE RetryLineage' /\ FailedRowsInv'
  <2>1. PICK n \in Tasks : CreateTask(n, loc[w].agent, loc[w].subject, loc[w].rt, 1, 0)
    BY <1>3 DEF InsertRow
  <2>2. /\ status[n] = "none" /\ row'[n].parent = 0 /\ reason' = reason
        /\ \A t \in Tasks : row[t].parent # n
        /\ \A t \in Tasks \ {n} : row'[t] = row[t] /\ status'[t] = status[t]
    BY <2>1, <1>r, NoParentYet DEF CreateTask, IsFresh
  <2>3. \A t \in Tasks : Childless(t) => Childless(t)'
    BY <2>2 DEF Childless, Tasks
  <2>4. FailedRowsInv'
    BY <2>3, <1>3, <1>a, NoNewRows DEF InsertRow, Idle, Handling
  <2>5. RetryLineage'
    <3> SUFFICES ASSUME NEW t \in Tasks, row'[t].parent # 0
                 PROVE  LET p == row'[t].parent IN
                          /\ status'[p] = "failed" /\ reason'[p] \in Retryable
                          /\ row'[t].agent = row'[p].agent /\ row'[t].subject = row'[p].subject
                          /\ row'[t].subject \notin Runs
                          /\ row'[t].attempt = row'[p].attempt + 1
                          /\ \A u \in Tasks \ {t} : row'[u].parent # p
      BY DEF RetryLineage, Same
    <3>1. t # n /\ row'[t] = row[t] /\ row[t].parent # n /\ row[t].parent \in Tasks
      BY <2>2 DEF Locals, StoreOK, StoreTypeOK, Row, Tasks
    <3> QED
      BY <3>1, <2>2 DEF RetryLineage, Same
  <2> QED
    BY <2>4, <2>5
<1>4. ASSUME NEW w \in Workers, NEW t \in Tasks, HandleRetry(w, t) PROVE RetryLineage' /\ FailedRowsInv'
  <2> DEFINE s == row[t].subject
             made == MayRetry(t) /\ ~ IndexConflict(row[t].agent, s)
  <2>1. /\ loc[w].pc \in Handling /\ t \in loc[w].rows
        /\ status[t] = "failed" /\ reason[t] \in Retryable /\ Childless(t)
        /\ \A v \in Workers \ {w} : loc[v].pc \in Handling => t \notin loc[v].rows
    BY <1>4 DEF HandleRetry, pc, Handling, FailedRowsInv
  <2>2. loc'[w].rows = loc[w].rows \ {t} /\ \A v \in Workers \ {w} : loc'[v] = loc[v]
    <3> DEFINE l == [loc[w] EXCEPT !.rows = @ \ {t},
                                   !.skip = IF made THEN @ \cup (Issues \cap {s}) ELSE @]
    <3>1. l.rows = loc[w].rows \ {t} /\ l \in Goroutine
      BY <1>a DEF Goroutine
    <3>2. loc' = [loc EXCEPT ![w] = IF s \in Issues THEN [l EXCEPT !.pc = "check", !.subject = s]
                                    ELSE NextRow(l)]
      BY <1>4 DEF HandleRetry
    <3> HIDE DEF l
    <3>3. [l EXCEPT !.pc = "check", !.subject = s].rows = l.rows /\ NextRow(l).rows = l.rows
      BY <3>1 DEF Goroutine, NextRow
    <3> QED
      BY <3>1, <3>2, <3>3, <1>a
  <2>3. CASE ~ made
    <3>1. row' = row
      BY <1>4, <2>3 DEF HandleRetry, table
    <3> QED
      BY <3>1, <2>1, <2>2, <1>b, LineageKept, NoNewRows
  <2>4. CASE made
    <3>1. PICK n \in Tasks : CreateTask(n, row[t].agent, s, row[t].runtime, row[t].attempt + 1, t)
      BY <1>4, <2>4 DEF HandleRetry
    <3>2. /\ status[n] = "none" /\ reason' = reason
          /\ row'[n].parent = t /\ row'[n].agent = row[t].agent /\ row'[n].subject = s
          /\ row'[n].attempt = row[t].attempt + 1
          /\ \A u \in Tasks : row[u].parent # n
          /\ \A u \in Tasks \ {n} : row'[u] = row[u] /\ status'[u] = status[u]
      BY <3>1, <1>r, NoParentYet DEF CreateTask, IsFresh
    <3>3. n # t
      BY <3>2, <2>1
    <3>4. \A u \in Tasks \ {t} : Childless(u) => Childless(u)'
      BY <3>2 DEF Childless
    <3>5. FailedRowsInv'
      <4>1. ASSUME NEW v \in Workers, loc'[v].pc \in Handling
            PROVE  /\ \A u \in loc'[v].rows :
                        status'[u] = "failed" /\ reason'[u] \in Retryable /\ Childless(u)'
                   /\ \A x \in Workers \ {v} : loc'[x].pc \in Handling =>
                        loc'[x].rows \cap loc'[v].rows = {}
        <5>1. /\ loc[v].pc \in Handling /\ loc'[v].rows \subseteq loc[v].rows /\ t \notin loc'[v].rows
              /\ \A x \in Workers : loc'[x].pc \in Handling =>
                   loc[x].pc \in Handling /\ loc'[x].rows \subseteq loc[x].rows
          BY <4>1, <2>1, <2>2
        <5>2. ASSUME NEW u \in loc'[v].rows
              PROVE  status'[u] = "failed" /\ reason'[u] \in Retryable /\ Childless(u)'
          <6>1. u \in Tasks \ {t} /\ status[u] = "failed" /\ reason[u] \in Retryable /\ Childless(u)
            BY <5>1, <1>a DEF FailedRowsInv
          <6> QED
            BY <6>1, <3>2, <3>4
        <5> QED
          BY <5>1, <5>2 DEF FailedRowsInv
      <4> QED
        BY <4>1 DEF FailedRowsInv
    <3>6. RetryLineage'
      <4> SUFFICES ASSUME NEW u \in Tasks, row'[u].parent # 0
                   PROVE  LET p == row'[u].parent IN
                            /\ status'[p] = "failed" /\ reason'[p] \in Retryable
                            /\ row'[u].agent = row'[p].agent /\ row'[u].subject = row'[p].subject
                            /\ row'[u].subject \notin Runs
                            /\ row'[u].attempt = row'[p].attempt + 1
                            /\ \A x \in Tasks \ {u} : row'[x].parent # p
        BY DEF RetryLineage, Same
      <4>1. CASE u = n
        <5>1. row'[t] = row[t] /\ status'[t] = status[t]
          BY <3>2, <3>3
        <5>2. \A x \in Tasks \ {n} : row'[x].parent # t
          BY <3>2, <2>1 DEF Childless
        <5> QED
          BY <4>1, <5>1, <5>2, <3>2, <2>1, <2>4 DEF Same, MayRetry
      <4>2. CASE u # n
        <5>1. row'[u] = row[u] /\ row[u].parent \in Tasks \ {n}
          BY <4>2, <3>2 DEF Locals, StoreOK, StoreTypeOK, Row, Tasks
        <5>2. row[u].parent # t
          BY <2>1 DEF Childless
        <5>3. row'[n].parent # row[u].parent
          BY <5>2, <3>2
        <5> QED
          BY <5>1, <5>3, <3>2 DEF RetryLineage, Same
      <4> QED
        BY <4>1, <4>2
    <3> QED
      BY <3>5, <3>6
  <2> QED
    BY <2>3, <2>4
<1>5. ASSUME row' = row, \A v \in Workers : loc'[v].pc \in Handling => loc'[v] = loc[v]
      PROVE  RetryLineage' /\ FailedRowsInv'
  BY <1>5, <1>b, NoNewRows, LineageKept
<1>6. CASE Counting
  BY <1>6, <1>5, <1>a DEF Counting, ClaimCount, NextAgent, Idle, Goroutine, Handling, table
<1>7. CASE Committing
  <2>1. PICK w \in Workers : ClaimSnapshot(w) \/ \E t \in Tasks : ClaimCommit(w, t)
    BY <1>7 DEF Committing
  <2>2. NextAgent(loc[w]).pc \notin Handling
    BY DEF NextAgent, Idle, Handling
  <2>3. /\ row' = row /\ loc'[w].pc \notin Handling
        /\ \A v \in Workers \ {w} : loc'[v] = loc[v]
    <3>1. CASE ClaimSnapshot(w)
      <4> DEFINE l == [loc[w] EXCEPT !.pc = "claim_commit", !.rows = Claimable(loc[w].agent)]
      <4>1. l.pc = "claim_commit"
        BY <1>a DEF Goroutine
      <4>2. loc' = [loc EXCEPT ![w] = NextAgent(loc[w])] \/ loc' = [loc EXCEPT ![w] = l]
        BY <3>1 DEF ClaimSnapshot
      <4> HIDE DEF l
      <4> QED
        BY <3>1, <4>1, <4>2, <2>2, <1>a DEF ClaimSnapshot, Handling, table
    <3>2. ASSUME NEW t \in Tasks, ClaimCommit(w, t)
          PROVE  /\ row' = row /\ loc'[w].pc = "claim_status"
                 /\ \A v \in Workers \ {w} : loc'[v] = loc[v]
      BY <3>2, <1>a DEF ClaimCommit, Goroutine
    <3> QED
      BY <2>1, <3>1, <3>2 DEF Handling
  <2> QED
    BY <2>3, <1>5
<1>8. CASE Answering
  <2>1. PICK w \in Workers : ClaimStatus(w)
    BY <1>8 DEF Answering
  <2>2. NextAgent(loc[w]).pc \notin Handling /\ Idle.pc \notin Handling
    BY DEF NextAgent, Idle, Handling
  <2>3. loc' = [loc EXCEPT ![w] = Idle] \/ loc' = [loc EXCEPT ![w] = NextAgent(loc[w])]
    BY <2>1 DEF ClaimStatus
  <2>4. row' = row
    BY <2>1 DEF ClaimStatus, table
  <2> QED
    BY <2>2, <2>3, <2>4, <1>5, <1>a
<1> QED
  <2>1. CASE Adding
    BY <2>1, <1>3, <1>4 DEF Adding
  <2> QED
    BY <2>1, <1>1, <1>2, <1>6, <1>7, <1>8, GoroutineStep

\* Every retry has a parent that failed for a retryable reason with budget left,
\* and is its only child, whoever handled the failure and whatever ran in between.
THEOREM RetriedOnce == Spec => []RetryLineage
<1>1. RetryLineage /\ FailedRowsInv /\ UNCHANGED vars => RetryLineage' /\ FailedRowsInv'
  BY DEF RetryLineage, FailedRowsInv, Childless, Same, vars, table
<1>2. Locals /\ RetryLineage /\ FailedRowsInv /\ [Next]_vars => RetryLineage' /\ FailedRowsInv'
  BY <1>1, RetryNext
<1> QED
  BY LocalsInit, LocalsNext, RetryInit, <1>2, PTL DEF Spec

-----------------------------------------------------------------------------
(* No retry is forgotten.                                                    *)

\* Some goroutine has the failed row t on its list.
Handed(t) == \E w \in Workers : loc[w].pc \in Handling /\ t \in loc[w].rows

\* A step that keeps row t on the list it is on, and puts it on one when it
\* fails it for an infrastructure reason.
Remembers(t) ==
  /\ crashes' = crashes
  /\ Handed(t) => Handed(t)'
  /\ status'[t] = "failed" => status[t] = "failed" \/ reason'[t] = "agent_error" \/ Handed(t)'

\* A step of goroutine w, which is not handling failed rows.
Alone(w) ==
  /\ loc[w].pc \notin Handling
  /\ \A v \in Workers \ {w} : loc'[v] = loc[v]

\* What the other goroutines have on their lists stays there.
LEMMA OnlyOne ==
  ASSUME NEW w \in Workers, NEW t \in Tasks, Alone(w)
  PROVE  Handed(t) => Handed(t)'
BY DEF Alone, Handed

LEMMA OneHands ==
  ASSUME Locals, NEW w \in Workers, NEW t \in Tasks, NEW l, loc' = [loc EXCEPT ![w] = l],
         t \in loc[w].rows => l.pc \in Handling /\ t \in l.rows
  PROVE  Handed(t) => Handed(t)'
BY DEF Locals, Handed

LEMMA ListKept ==
  ASSUME NEW t \in Tasks, crashes' = crashes, status' = status,
         \A w \in Workers : loc[w].pc \in Handling =>
           loc'[w].pc \in Handling /\ loc'[w].rows = loc[w].rows
  PROVE  Remembers(t)
BY DEF Remembers, Handed

\* A statement that fails the rows T hands them on.
LEMMA FailedHanded ==
  ASSUME Locals, NEW w \in Workers, NEW T \in SUBSET Tasks, NEW why \in Retryable,
         FailRows(w, T, why), loc[w].pc \notin Handling, crashes' = crashes, NEW t \in Tasks
  PROVE  Remembers(t)
<1>a. loc \in [Workers -> Goroutine]
  BY DEF Locals
<1>1. Alone(w)
  BY <1>a DEF FailRows, Alone
<1>2. ASSUME t \in T PROVE Handed(t)'
  <2> DEFINE l == [Idle EXCEPT !.pc = "retry", !.rows = T, !.agents = AgentsOf(T)]
  <2>1. l.pc = "retry" /\ l.rows = T
    BY DEF Idle
  <2>2. loc'[w] = l
    BY <1>2, <1>a DEF FailRows
  <2> QED
    BY <1>2, <2>1, <2>2 DEF Handed, Handling
<1>3. t \notin T => status'[t] = status[t]
  BY DEF FailRows, SetStatus
<1> QED
  BY <1>1, <1>2, <1>3, OnlyOne DEF Remembers

\* The list of failed rows shrinks in HandleFailedTasks and in a restart of the
\* server only, and every statement that fails rows for an infrastructure reason
\* fills one.
LEMMA RememberStep ==
  ASSUME Locals, Next, NEW t \in Tasks
  PROVE  ServerRestart \/ (\E w \in Workers : HandleRetry(w, t)) \/ Remembers(t)
<1>a. /\ loc \in [Workers -> Goroutine]
      /\ status \in [Tasks -> Status] /\ reason \in [Tasks -> Reasons]
  BY DEF Locals, StoreOK, StoreTypeOK
<1>1. ASSUME NEW w \in Workers, NEW a \in Agents, NEW s \in Subjects, EnqueueBegin(w, a, s) PROVE Remembers(t)
  BY <1>1, <1>a, OnlyOne DEF EnqueueBegin, table, Remembers, Alone, Handling, bounds, pc
<1>2. ASSUME NEW w \in Workers, InsertRow(w) PROVE Remembers(t)
  BY <1>2, <1>a, OnlyOne DEF InsertRow, CreateTask, Remembers, Alone, Handling, bounds, pc
<1>3. ASSUME NEW w \in Workers, InsertConflict(w) PROVE Remembers(t)
  BY <1>3, <1>a, OnlyOne DEF InsertConflict, table, Remembers, Alone, Handling, bounds, pc
<1>4. ASSUME NEW w \in Workers, EnqueueAfterCancel(w) PROVE Remembers(t)
  BY <1>4, <1>a, OnlyOne DEF EnqueueAfterCancel, table, Remembers, Alone, Handling, bounds, pc
<1>5. ASSUME NEW w \in Workers, NEW u \in Tasks, CancelTask(w, u) PROVE Remembers(t)
  BY <1>5, <1>a, OnlyOne DEF CancelTask, AfterCancel, SetStatus, Remembers, Alone, Handling, bounds, pc
<1>6. ASSUME NEW w \in Workers, NEW i \in Issues, NEW st \in IssueMoves, UpdateIssueStatus(w, i, st) PROVE Remembers(t)
  BY <1>6, <1>a, OnlyOne DEF UpdateIssueStatus, table, Remembers, Alone, Handling, bounds, pc
<1>7. ASSUME NEW w \in Workers, NEW i \in Issues, NEW a \in Agents, Assign(w, i, a) PROVE Remembers(t)
  BY <1>7, <1>a, OnlyOne DEF Assign, table, Remembers, Alone, Handling, bounds, pc
<1>8. ASSUME NEW w \in Workers, CancelTasksForIssue(w) PROVE Remembers(t)
  BY <1>8, <1>a, OnlyOne DEF CancelTasksForIssue, AfterCancel, SetStatus, Remembers, Alone, Handling, bounds, pc
<1>9. ASSUME NEW w \in Workers, NEW i \in Issues, NEW a \in Agents, RerunIssue(w, i, a) PROVE Remembers(t)
  BY <1>9, <1>a, OnlyOne DEF RerunIssue, AfterCancel, SetStatus, Remembers, Alone, Handling, bounds, pc
<1>10. ASSUME NEW w \in Workers, NEW a \in Agents, Archive(w, a) PROVE Remembers(t)
  BY <1>10, <1>a, OnlyOne DEF Archive, table, Remembers, Alone, Handling, bounds, pc
<1>11. ASSUME NEW w \in Workers, ArchiveCancel(w) PROVE Remembers(t)
  BY <1>11, <1>a, OnlyOne DEF ArchiveCancel, SetStatus, Remembers, Alone, Handling, bounds, pc
<1>12. ASSUME NEW w \in Workers, NEW u \in Tasks, CompleteTask(w, u) PROVE Remembers(t)
  BY <1>12, <1>a, OnlyOne DEF CompleteTask, SetStatus, Remembers, Alone, Handling, bounds, pc
<1>13. ASSUME NEW w \in Workers, NEW u \in Tasks, FailTask(w, u) PROVE Remembers(t)
  BY <1>13, <1>a, OnlyOne DEF FailTask, SetStatus, Remembers, Alone, Handling, bounds, pc
<1>14. ASSUME NEW w \in Workers, NEW R \in SUBSET Runtimes, SweepRuntimes(w, R) PROVE Remembers(t)
  BY <1>14, <1>a, OnlyOne DEF SweepRuntimes, table, Remembers, Alone, Handling, bounds, pc
<1>15. ASSUME NEW w \in Workers, NEW a \in Agents, ReconcileCount(w, a) PROVE Remembers(t)
  BY <1>15, <1>a, OnlyOne DEF ReconcileCount, table, Remembers, Alone, Handling, bounds, pc
<1>16. ASSUME NEW w \in Workers, ReconcileWrite(w) PROVE Remembers(t)
  BY <1>16, <1>a, OnlyOne DEF ReconcileWrite, table, Remembers, Alone, Handling, bounds, pc
<1>17. ASSUME NEW w \in Handlers, NEW rt \in Runtimes, ClaimBegin(w, rt) PROVE Remembers(t)
  BY <1>17, <1>a, OnlyOne DEF ClaimBegin, table, Remembers, Alone, Handling, bounds, pc, Workers
<1>18. ASSUME NEW w \in Workers, NEW a \in Agents, ClaimCount(w, a) PROVE Remembers(t)
  BY <1>18, <1>a, OnlyOne DEF ClaimCount, table, Remembers, Alone, Handling, bounds, pc
<1>19. ASSUME NEW w \in Workers, ClaimSnapshot(w) PROVE Remembers(t)
  BY <1>19, <1>a, OnlyOne DEF ClaimSnapshot, table, Remembers, Alone, Handling, bounds, pc
<1>20. ASSUME NEW w \in Workers, NEW u \in Tasks, ClaimCommit(w, u) PROVE Remembers(t)
  BY <1>20, <1>a, OnlyOne DEF ClaimCommit, SetStatus, Remembers, Alone, Handling, bounds, pc
<1>21. ASSUME NEW w \in Workers, ClaimMiss(w) PROVE Remembers(t)
  BY <1>21, <1>a, OnlyOne DEF ClaimMiss, table, Remembers, Alone, Handling, bounds, pc
<1>22. ASSUME NEW w \in Workers, ClaimStatus(w) PROVE Remembers(t)
  BY <1>22, <1>a, OnlyOne DEF ClaimStatus, table, Remembers, Alone, Handling, bounds, pc
<1>23. ASSUME NEW w \in Workers, HandleCheck(w) PROVE Remembers(t)
  <2> DEFINE i == loc[w].subject
             look == issueStatus[i] = "in_progress" /\ i \notin loc[w].skip
             l == [loc[w] EXCEPT !.skip = IF look THEN @ \cup {i} ELSE @]
             reset == [l EXCEPT !.pc = "reset"]
  <2>1. loc[w] \in Goroutine /\ i \in Issues
    BY <1>23, <1>a DEF HandleCheck, pc, Locals, LocalOK
  <2>2. l \in Goroutine /\ l.rows = loc[w].rows
    BY <2>1 DEF Goroutine
  <2>3. loc' = [loc EXCEPT ![w] = reset] \/ loc' = [loc EXCEPT ![w] = NextRow(l)]
    BY <1>23 DEF HandleCheck
  <2>4. crashes' = crashes /\ status' = status
    BY <1>23 DEF HandleCheck, bounds, table
  <2> HIDE DEF l
  <2>5. reset.pc = "reset" /\ reset.rows = loc[w].rows
    BY <2>2 DEF Goroutine
  <2>6. NextRow(l).rows = loc[w].rows /\ (t \in loc[w].rows => NextRow(l).pc = "retry")
    BY <2>2 DEF Goroutine, NextRow
  <2> QED
    BY <2>3, <2>4, <2>5, <2>6, OneHands DEF Handling, Remembers
<1>24. ASSUME NEW w \in Workers, HandleReset(w) PROVE Remembers(t)
  <2>1. /\ NextRow(loc[w]).rows = loc[w].rows
        /\ t \in loc[w].rows => NextRow(loc[w]).pc = "retry"
    BY <1>a DEF Goroutine, NextRow
  <2> QED
    BY <1>24, <2>1, OneHands DEF HandleReset, Handling, Remembers, bounds, table
<1>25. ASSUME NEW u \in Tasks, StartTask(u) PROVE Remembers(t)
  BY <1>25 DEF StartTask, SetStatus, Remembers, Handed, bounds
<1>26. ASSUME NEW a \in Agents, Restore(a) PROVE Remembers(t)
  BY <1>26, ListKept DEF Restore, bounds, table
<1>27. ASSUME NEW a \in Agents, NEW rt \in Runtimes,
                  NEW st \in StatusEdits \cup {agentStatus[a]}, UpdateAgent(a, rt, st)
           PROVE Remembers(t)
  BY <1>27, ListKept DEF UpdateAgent, bounds, table
<1>28. ASSUME NEW rt \in Runtimes, Heartbeat(rt) \/ DaemonStart(rt) \/ RecoverLost(rt)
       PROVE  Remembers(t)
  BY <1>28, ListKept DEF Heartbeat, DaemonStart, RecoverLost, bounds, table
<1>29. ASSUME NEW rt \in Runtimes, DaemonStop(rt) PROVE Remembers(t)
  <2>1. \A v \in Workers : loc'[v].pc = loc[v].pc /\ loc'[v].rows = loc[v].rows
    BY <1>29, <1>a DEF DaemonStop, Goroutine
  <2> QED
    BY <1>29, <2>1, ListKept DEF DaemonStop, table
<1>30. ASSUME NEW w \in Workers, SweepOffline(w) PROVE Remembers(t)
  <2>1. PICK T \in SUBSET Tasks : FailRows(w, T, "runtime_offline")
    BY <1>30 DEF SweepOffline, AllInFlight
  <2> QED
    BY <1>30, <2>1, FailedHanded DEF SweepOffline, Retryable, Handling, bounds, pc
<1>31. ASSUME NEW w \in Workers, NEW T \in SUBSET Tasks, SweepTasks(w, T) PROVE Remembers(t)
  BY <1>31, FailedHanded DEF SweepTasks, Retryable, Handling, bounds, pc
<1>32. ASSUME NEW w \in Workers, NEW rt \in Runtimes, RecoverOrphans(w, rt) PROVE Remembers(t)
  <2>1. PICK T \in SUBSET Tasks : FailRows(w, T, "runtime_recovery")
    BY <1>32 DEF RecoverOrphans, AllInFlight
  <2> QED
    BY <1>32, <2>1, FailedHanded DEF RecoverOrphans, Retryable, Handling, bounds, pc
<1>33. ASSUME NEW w \in Workers, NEW u \in Tasks \ {t}, HandleRetry(w, u) PROVE Remembers(t)
  <2> DEFINE s == row[u].subject
             made == MayRetry(u) /\ ~ IndexConflict(row[u].agent, s)
             l == [loc[w] EXCEPT !.rows = @ \ {u},
                                 !.skip = IF made THEN @ \cup (Issues \cap {s}) ELSE @]
             check == [l EXCEPT !.pc = "check", !.subject = s]
  <2>1. l.rows = loc[w].rows \ {u} /\ check.rows = loc[w].rows \ {u} /\ check.pc = "check"
    BY <1>a DEF Goroutine
  <2>2. loc' = [loc EXCEPT ![w] = check] \/ loc' = [loc EXCEPT ![w] = NextRow(l)]
    BY <1>33 DEF HandleRetry
  <2>3. crashes' = crashes
    BY <1>33 DEF HandleRetry, bounds
  <2>4. status'[t] = "failed" => status[t] = "failed"
    <3>1. CASE made
      BY <1>33, <3>1, <1>a DEF HandleRetry, CreateTask
    <3>2. CASE ~ made
      BY <1>33, <3>2 DEF HandleRetry, table
    <3> QED
      BY <3>1, <3>2
  <2>5. NextRow(l).rows = l.rows /\ (t \in l.rows => NextRow(l).pc = "retry")
    <3>1. l \in Goroutine
      <4> DEFINE skip == IF made THEN loc[w].skip \cup (Issues \cap {s}) ELSE loc[w].skip
      <4>1. loc[w] \in Goroutine
        BY <1>a
      <4>2. skip \in SUBSET Issues /\ loc[w].rows \ {u} \in SUBSET Tasks
        BY <4>1 DEF Goroutine
      <4>3. l = [loc[w] EXCEPT !.rows = loc[w].rows \ {u}, !.skip = skip]
        OBVIOUS
      <4> HIDE DEF skip
      <4> QED
        BY <4>1, <4>2, <4>3 DEF Goroutine
    <3> HIDE DEF l
    <3> QED
      BY <3>1 DEF Goroutine, NextRow
  <2> HIDE DEF l
  <2>6. t \in loc[w].rows => t \in l.rows /\ t \in check.rows
    BY <2>1, <1>33
  <2> QED
    BY <2>1, <2>2, <2>3, <2>4, <2>5, <2>6, OneHands DEF Handling, Remembers
<1> QED
  BY <1>1, <1>2, <1>3, <1>4, <1>5, <1>6, <1>7, <1>8, <1>9, <1>10, <1>11, <1>12, <1>13, <1>14, <1>15, <1>16, <1>17, <1>18, <1>19, <1>20, <1>21, <1>22, <1>23, <1>24, <1>25, <1>26, <1>27, <1>28, <1>29, <1>30, <1>31, <1>32, <1>33
  DEF Next, Request, Sweep, Continue, Environment, Workers

\* Rows are created in order, and one that has a later row of its agent and
\* issue behind it is not pending: the index would have refused the later row.
InOrder ==
  \A t, u \in Tasks : t < u /\ status[u] # "none" =>
    /\ status[t] # "none"
    /\ Same(t, u) /\ row[u].subject \in Issues => status[t] \notin Pending

LEMMA OrderInit == Init => InOrder
BY DEF Init, InOrder

LEMMA OrderNext == Locals /\ InOrder /\ Next => InOrder'
<1> SUFFICES ASSUME Locals, InOrder, Next PROVE InOrder'
  OBVIOUS
<1>a. status \in [Tasks -> Status] /\ row \in [Tasks -> Row] /\ Tasks \subseteq Nat
  BY DEF Locals, StoreOK, StoreTypeOK, Tasks
\* A step that creates no row changes no row, and makes none pending.
<1>k. ASSUME row' = row,
             \A t \in Tasks : /\ status'[t] = "none" <=> status[t] = "none"
                              /\ status'[t] \in Pending => status[t] \in Pending
      PROVE  InOrder'
  BY <1>k DEF InOrder, Same
<1>1. CASE Keeping
  <2>1. \A t \in Tasks : Keeps(t)
    BY <1>1 DEF Keeping
  <2>2. \A t \in Tasks : /\ row'[t] = row[t]
                         /\ status'[t] = "none" <=> status[t] = "none"
                         /\ status'[t] \in Pending => status[t] \in Pending
    BY <2>1 DEF Keeps, Active, Terminal, Pending
  <2> QED
    BY <2>2 DEF InOrder, Same
<1>2. CASE Starting
  <2>1. PICK u \in Tasks : StartTask(u)
    BY <1>2 DEF Starting
  <2> QED
    BY <2>1, <1>a, <1>k DEF StartTask, SetStatus, Pending
<1>3. CASE Claiming
  <2>1. PICK w \in Workers : ClaimSnapshot(w) \/ \E t \in Tasks : ClaimCommit(w, t)
    BY <1>3 DEF Claiming
  <2>2. CASE ClaimSnapshot(w)
    BY <2>2, <1>k DEF ClaimSnapshot, table
  <2>3. ASSUME NEW u \in Tasks, ClaimCommit(w, u) PROVE InOrder'
    <3>1. /\ row' = row /\ status[u] = "queued" /\ status'[u] = "dispatched"
          /\ \A t \in Tasks \ {u} : status'[t] = status[t]
      BY <2>3 DEF ClaimCommit, SetStatus
    <3> QED
      BY <3>1, <1>k DEF Pending
  <2> QED
    BY <2>1, <2>2, <2>3
<1>4. CASE Creating
  <2>1. PICK n \in Tasks, a \in Agents, s \in Subjects, rt \in Runtimes, k \in Nat, p \in Nat :
          CreateTask(n, a, s, rt, k, p) /\ ~ IndexConflict(a, s)
    BY <1>4 DEF Creating
  <2>2. /\ status[n] = "none" /\ \A t \in Tasks : status[t] = "none" => n <= t
        /\ status'[n] = "queued" /\ row'[n].agent = a /\ row'[n].subject = s
        /\ \A t \in Tasks \ {n} : status'[t] = status[t] /\ row'[t] = row[t]
    BY <2>1, <1>a DEF CreateTask, IsFresh
  <2> SUFFICES ASSUME NEW t \in Tasks, NEW u \in Tasks, t < u, status'[u] # "none"
               PROVE  /\ status'[t] # "none"
                      /\ Same(t, u)' /\ row'[u].subject \in Issues => status'[t] \notin Pending
    BY DEF InOrder
  <2>3. CASE u = n
    <3>1. t # n /\ status[t] # "none"
      BY <2>2, <2>3, <1>a
    <3>2. row[t].agent = a /\ row[t].subject = s /\ s \in Issues => status[t] \notin Pending
      BY <2>1 DEF IndexConflict, TasksOf, On
    <3> QED
      BY <3>1, <3>2, <2>2, <2>3 DEF Same
  <2>4. CASE u # n
    <3>1. status[u] # "none" /\ status[t] # "none" /\ t # n
      BY <2>2, <2>4 DEF InOrder
    <3> QED
      BY <3>1, <2>2, <2>4 DEF InOrder, Same
  <2> QED
    BY <2>3, <2>4
<1> QED
  BY <1>1, <1>2, <1>3, <1>4, TableStep

\* HandleFailedTasks leaves a row it has looked at with another one behind it:
\* the retry it created, or the pending row that the index found.
LEMMA RetryFollows ==
  ASSUME Locals, InOrder, NEW w \in Workers, NEW t \in Tasks, HandleRetry(w, t),
         status[t] = "failed", MayRetry(t)
  PROVE  Followed(t)'
<1>a. status \in [Tasks -> Status] /\ row \in [Tasks -> Row] /\ Tasks \subseteq Nat
  BY DEF Locals, StoreOK, StoreTypeOK, Tasks
<1>1. CASE IndexConflict(row[t].agent, row[t].subject)
  <2>1. PICK u \in Tasks : /\ row[u].agent = row[t].agent /\ row[u].subject = row[t].subject
                           /\ status[u] \in Pending /\ row[t].subject \in Issues
    BY <1>1 DEF IndexConflict, TasksOf, On
  <2>2. u # t /\ ~ (u < t)
    BY <2>1 DEF InOrder, Same, Pending
  <2>3. u > t
    BY <2>2, <1>a
  <2>4. UNCHANGED table
    BY <1>1 DEF HandleRetry
  <2> QED
    BY <2>1, <2>3, <2>4 DEF Followed, Same, Pending, table
<1>2. CASE ~ IndexConflict(row[t].agent, row[t].subject)
  <2>1. PICK u \in Tasks : CreateTask(u, row[t].agent, row[t].subject, row[t].runtime,
                                      row[t].attempt + 1, t)
    BY <1>2 DEF HandleRetry
  <2>2. /\ status[u] = "none" /\ status'[u] = "queued"
        /\ row'[u].agent = row[t].agent /\ row'[u].subject = row[t].subject
        /\ \A x \in Tasks \ {u} : row'[x] = row[x]
    BY <2>1, <1>a DEF CreateTask, IsFresh
  <2>3. u # t /\ ~ (u < t)
    BY <2>2 DEF InOrder
  <2>4. u > t
    BY <2>3, <1>a
  <2> QED
    BY <2>2, <2>3, <2>4 DEF Followed, Same
<1> QED
  BY <1>1, <1>2

LEMMA OwedNext == Locals /\ FailedRowsInv /\ InOrder /\ RetryOwed /\ Next => RetryOwed'
<1> SUFFICES ASSUME Locals, FailedRowsInv, InOrder, RetryOwed, Next, crashes' = 0,
                    NEW t \in Tasks, status'[t] = "failed", MayRetry(t)'
             PROVE  Followed(t)' \/ Handed(t)'
  BY DEF RetryOwed, Handed, Handling, pc
<1>a. ~ ServerRestart
  BY DEF ServerRestart, Locals, StoreOK, StoreTypeOK
<1>b. Followed(t) /\ status[t] # "none" => Followed(t)'
  BY RowsStay DEF Followed, Same
<1>1. ASSUME NEW w \in Workers, HandleRetry(w, t) PROVE Followed(t)'
  <2>1. status[t] = "failed"
    BY <1>1 DEF HandleRetry, FailedRowsInv, Handling, pc
  <2>2. reason'[t] = reason[t] /\ row'[t] = row[t]
    BY <2>1, RowsAge
  <2> QED
    BY <1>1, <2>1, <2>2, RetryFollows DEF MayRetry
<1>2. CASE Remembers(t)
  <2>1. crashes = 0 /\ reason'[t] # "agent_error"
    BY <1>2 DEF Remembers, MayRetry, Retryable
  <2>2. CASE status[t] = "failed"
    <3>1. reason'[t] = reason[t] /\ row'[t] = row[t]
      BY <2>2, RowsAge
    <3>2. Followed(t) \/ Handed(t)
      BY <3>1, <2>1, <2>2 DEF RetryOwed, Handed, Handling, pc, MayRetry
    <3> QED
      BY <3>2, <2>2, <1>b, <1>2 DEF Remembers
  <2>3. CASE status[t] # "failed"
    BY <2>1, <2>3, <1>2 DEF Remembers
  <2> QED
    BY <2>2, <2>3
<1> QED
  BY <1>a, <1>1, <1>2, RememberStep

\* While the server is up no retry is forgotten: a task that failed for an
\* infrastructure reason with budget left has another task of its agent and
\* subject behind it, or HandleFailedTasks has still to look at it, whichever of
\* the sweeps and recoveries run at the same time.
THEOREM RetriesRemembered == Spec => []RetryOwed
<1>1. Init => InOrder /\ RetryOwed
  BY OrderInit DEF Init, RetryOwed
<1>2. Locals /\ FailedRowsInv /\ InOrder /\ RetryOwed /\ [Next]_vars => InOrder' /\ RetryOwed'
  <2>1. InOrder /\ RetryOwed /\ UNCHANGED vars => InOrder' /\ RetryOwed'
    BY DEF InOrder, RetryOwed, Followed, MayRetry, Same, vars, table, bounds, pc
  <2> QED
    BY <2>1, OrderNext, OwedNext
<1>3. Locals /\ RetryLineage /\ FailedRowsInv /\ [Next]_vars => RetryLineage' /\ FailedRowsInv'
  <2>1. RetryLineage /\ FailedRowsInv /\ UNCHANGED vars => RetryLineage' /\ FailedRowsInv'
    BY DEF RetryLineage, FailedRowsInv, Childless, Same, vars, table
  <2> QED
    BY <2>1, RetryNext
<1> QED
  BY LocalsInit, LocalsNext, RetryInit, <1>1, <1>2, <1>3, PTL DEF Spec

-----------------------------------------------------------------------------
(* The capacity of an agent.                                                 *)

USE ConstantsAssumption

LEMMA Finite ==
  ASSUME Locals, NEW a \in Agents
  PROVE  /\ IsFiniteSet(TasksOf(a, InFlight)) /\ Cardinality(TasksOf(a, InFlight)) \in Nat
         /\ IsFiniteSet(Claimers(a)) /\ Cardinality(Claimers(a)) \in Nat
         /\ IsFiniteSet(Handlers) /\ Cardinality(Handlers) \in Nat
         /\ Cardinality(Claimers(a)) <= Cardinality(Handlers)
<1>1. IsFiniteSet(Tasks)
  <2>1. 1 \in Int /\ MaxTasks \in Int
    OBVIOUS
  <2> QED
    BY <2>1, FS_Interval DEF Tasks
<1>2. TasksOf(a, InFlight) \in SUBSET Tasks /\ Claimers(a) \in SUBSET Handlers /\ Handlers \in SUBSET Workers
  BY DEF TasksOf, Claimers, Workers
<1>3. IsFiniteSet(TasksOf(a, InFlight)) /\ IsFiniteSet(Handlers)
  BY <1>1, <1>2, FS_Subset
<1>4. IsFiniteSet(Claimers(a)) /\ Cardinality(Claimers(a)) <= Cardinality(Handlers)
  BY <1>2, <1>3, FS_Subset
<1> QED
  BY <1>3, <1>4, FS_CardinalityType

LEMMA LoadType == ASSUME Locals, NEW a \in Agents PROVE Load(a) \in Int /\ Cardinality(Handlers) \in Int
BY Finite DEF Load

\* As long as no agent gets a task in flight or a claim past its count, the load
\* does not grow.
LEMMA LoadFalls ==
  ASSUME Locals, NEW a \in Agents,
         TasksOf(a, InFlight)' \subseteq TasksOf(a, InFlight), Claimers(a)' \subseteq Claimers(a)
  PROVE  Load(a)' <= Load(a) /\ Load(a)' \in Int
<1> DEFINE T == TasksOf(a, InFlight)
           C == Claimers(a)
<1>1. IsFiniteSet(T) /\ Cardinality(T) \in Nat /\ IsFiniteSet(C) /\ Cardinality(C) \in Nat
  BY Finite
<1>2. T' \in SUBSET T /\ C' \in SUBSET C
  OBVIOUS
<1> HIDE DEF T, C
<1>3. Cardinality(T') <= Cardinality(T) /\ Cardinality(T') \in Nat
  BY <1>1, <1>2, FS_Subset, FS_CardinalityType
<1>4. Cardinality(C') <= Cardinality(C) /\ Cardinality(C') \in Nat
  BY <1>1, <1>2, FS_Subset, FS_CardinalityType
<1>5. Cardinality(T') + Cardinality(C') <= Cardinality(T) + Cardinality(C)
  BY <1>1, <1>3, <1>4
<1> QED
  BY <1>3, <1>4, <1>5 DEF Load, T, C

\* A claim takes one task and gives up its place among the claimers.
LEMMA LoadMoves ==
  ASSUME Locals, NEW a \in Agents, NEW w \in Claimers(a), NEW t \in Tasks,
         TasksOf(a, InFlight)' \subseteq TasksOf(a, InFlight) \cup {t},
         Claimers(a)' \subseteq Claimers(a) \ {w}
  PROVE  Load(a)' <= Load(a) /\ Load(a)' \in Int
<1> DEFINE T == TasksOf(a, InFlight)
           C == Claimers(a)
<1>1. IsFiniteSet(T) /\ Cardinality(T) \in Nat /\ IsFiniteSet(C) /\ Cardinality(C) \in Nat
  BY Finite
<1>2. T' \in SUBSET (T \cup {t}) /\ C' \in SUBSET (C \ {w}) /\ w \in C
  OBVIOUS
<1> HIDE DEF T, C
<1>3. IsFiniteSet(T \cup {t}) /\ Cardinality(T \cup {t}) <= Cardinality(T) + 1
      /\ Cardinality(T \cup {t}) \in Nat
  <2>1. /\ IsFiniteSet(T \cup {t})
        /\ Cardinality(T \cup {t}) = IF t \in T THEN Cardinality(T) ELSE Cardinality(T) + 1
    BY <1>1, FS_AddElement
  <2> QED
    BY <2>1, <1>1
<1>4. IsFiniteSet(C \ {w}) /\ Cardinality(C \ {w}) = Cardinality(C) - 1
      /\ Cardinality(C \ {w}) \in Nat
  BY <1>1, <1>2, FS_RemoveElement, FS_CardinalityType
<1>5. Cardinality(T') <= Cardinality(T \cup {t}) /\ Cardinality(T') \in Nat
  BY <1>2, <1>3, FS_Subset, FS_CardinalityType
<1>6. Cardinality(C') <= Cardinality(C \ {w}) /\ Cardinality(C') \in Nat
  BY <1>2, <1>4, FS_Subset, FS_CardinalityType
<1>7. Cardinality(T') + Cardinality(C') <= Cardinality(T) + Cardinality(C)
  BY <1>1, <1>3, <1>4, <1>5, <1>6
<1> QED
  BY <1>5, <1>6, <1>7 DEF Load, T, C

\* A claim that saw a free place: the load is bounded whatever the others do.
LEMMA LoadCounted ==
  ASSUME Locals, NEW a \in Agents, ~ AtCapacity(a),
         TasksOf(a, InFlight)' \subseteq TasksOf(a, InFlight)
  PROVE  Load(a)' <= MaxConcurrent + Cardinality(Handlers) - 1
<1> DEFINE T == TasksOf(a, InFlight)
           C == Claimers(a)
<1>1. IsFiniteSet(T) /\ Cardinality(T) \in Nat /\ Cardinality(T) < MaxConcurrent
      /\ IsFiniteSet(Handlers) /\ Cardinality(Handlers) \in Nat
  BY Finite DEF AtCapacity
<1>2. T' \in SUBSET T /\ C' \in SUBSET Handlers
  BY DEF Claimers
<1> HIDE DEF T, C
<1>3. Cardinality(T') <= Cardinality(T) /\ Cardinality(T') \in Nat
  BY <1>1, <1>2, FS_Subset, FS_CardinalityType
<1>4. Cardinality(C') <= Cardinality(Handlers) /\ Cardinality(C') \in Nat
  BY <1>1, <1>2, FS_Subset, FS_CardinalityType
<1>5. Cardinality(T') + Cardinality(C') <= MaxConcurrent + Cardinality(Handlers) - 1
  BY <1>1, <1>3, <1>4
<1> QED
  BY <1>5 DEF Load, T, C

LEMMA CapacityInit == Init => CapacityInv
<1> SUFFICES ASSUME Init PROVE CapacityInv
  OBVIOUS
<1>1. ASSUME NEW a \in Agents
      PROVE  Load(a) <= MaxConcurrent + Cardinality(Handlers) - 1
  <2>1. TasksOf(a, InFlight) = {} /\ Claimers(a) = {}
    BY DEF Init, TasksOf, InFlight, Claimers, Idle, PastCount, Workers
  <2>2. Load(a) = 0
    BY <2>1, FS_EmptySet DEF Load
  <2>3. IsFiniteSet(Handlers) /\ Cardinality(Handlers) \in Nat
    BY LocalsInit, Finite
  <2>4. Cardinality(Handlers) # 0
    BY <2>3, FS_EmptySet
  <2> QED
    BY <2>2, <2>3, <2>4
<1>2. \A w \in Workers : loc[w].pc \notin InClaim
  BY DEF Init, Idle, InClaim, PastCount
<1> QED
  BY <1>1, <1>2 DEF CapacityInv, InClaim, PastCount

\* Only the commit of a claim puts a task in flight.
LEMMA InFlightFalls ==
  ASSUME Locals, Next, ~ \E w \in Workers, t \in Tasks : ClaimCommit(w, t)
  PROVE  \A a \in Agents : TasksOf(a, InFlight)' \subseteq TasksOf(a, InFlight)
<1>1. CASE Keeping
  BY <1>1 DEF Keeping, Keeps, TasksOf, InFlight, Terminal
<1>2. CASE Starting
  BY <1>2 DEF Starting, StartTask, SetStatus, TasksOf, InFlight
<1>3. CASE Creating
  BY <1>3 DEF Creating, CreateTask, TasksOf, InFlight, Locals, StoreOK, StoreTypeOK
<1>4. CASE Claiming
  <2>1. status' = status /\ row' = row
    BY <1>4 DEF Claiming, ClaimSnapshot, table
  <2> QED
    BY <2>1 DEF TasksOf
<1> QED
  BY <1>1, <1>2, <1>3, <1>4, TableStep

\* The tasks a claim selected stay tasks of its agent.
LEMMA SelectedKept ==
  ASSUME Locals, Next, CapacityInv, NEW v \in Workers,
         loc[v].pc = "claim_commit", loc'[v].rows = loc[v].rows, loc'[v].agent = loc[v].agent
  PROVE  \A t \in loc'[v].rows : row'[t].agent = loc'[v].agent
<1>1. ASSUME NEW t \in loc[v].rows PROVE row'[t] = row[t]
  <2>1. t \in Tasks /\ status[t] # "none"
    BY DEF Locals, Goroutine
  <2>2. CASE Keeping
    BY <2>1, <2>2 DEF Keeping, Keeps
  <2>3. CASE Starting
    BY <2>3 DEF Starting, StartTask
  <2>4. CASE Creating
    BY <2>1, <2>4 DEF Creating, CreateTask, IsFresh, Locals, StoreOK, StoreTypeOK
  <2>5. CASE Claiming
    BY <2>5 DEF Claiming, ClaimSnapshot, ClaimCommit, table
  <2> QED
    BY <2>2, <2>3, <2>4, <2>5, TableStep
<1> QED
  BY <1>1 DEF CapacityInv

\* A step in which nobody passes the count or takes a task.
LEMMA CapacityKept ==
  ASSUME Locals, Next, CapacityInv, ~ \E w \in Workers, t \in Tasks : ClaimCommit(w, t),
         \A v \in Workers :
           /\ loc'[v].pc \in PastCount => loc[v].pc \in PastCount /\ loc'[v].agent = loc[v].agent
           /\ loc'[v].pc = "claim_commit" => loc[v].pc = "claim_commit" /\ loc'[v].rows = loc[v].rows
           /\ loc'[v].pc \in InClaim => loc[v].pc \in InClaim \/ v \in Handlers
  PROVE  CapacityInv'
<1>1. \A w \in Workers : loc'[w].pc \in InClaim => w \in Handlers
  BY DEF CapacityInv
<1>2. \A w \in Workers : loc'[w].pc = "claim_commit" =>
        \A t \in loc'[w].rows : row'[t].agent = loc'[w].agent
  BY SelectedKept DEF PastCount
<1>3. ASSUME NEW a \in Agents PROVE Load(a)' <= MaxConcurrent + Cardinality(Handlers) - 1
  <2>1. Claimers(a)' \subseteq Claimers(a)
    BY DEF Claimers, Workers
  <2>2. TasksOf(a, InFlight)' \subseteq TasksOf(a, InFlight)
    BY InFlightFalls
  <2>3. Load(a)' <= Load(a) /\ Load(a)' \in Int
    BY <2>1, <2>2, LoadFalls
  <2> QED
    BY <2>3, LoadType DEF CapacityInv
<1> QED
  BY <1>1, <1>2, <1>3 DEF CapacityInv

LEMMA CapacityNext == Locals /\ CapacityInv /\ Next => CapacityInv'
<1> SUFFICES ASSUME Locals, CapacityInv, Next PROVE CapacityInv'
  OBVIOUS
<1>a. loc \in [Workers -> Goroutine]
  BY DEF Locals
<1>n. ASSUME NEW l PROVE NextAgent(l).pc \in {"idle", "claim_count"}
  BY DEF NextAgent, Idle
<1>1. CASE ~ \E w \in Workers, t \in Tasks : ClaimCommit(w, t)
  \* A goroutine that is in none of the steps after the count.
  <2>q. ASSUME NEW w \in Workers, \A v \in Workers \ {w} : loc'[v] = loc[v],
               loc'[w].pc \notin PastCount,
               loc'[w].pc \in InClaim => loc[w].pc \in InClaim
        PROVE  CapacityInv'
    BY <2>q, <1>1, CapacityKept DEF PastCount
  <2>1. CASE Quiet
    BY <2>1, <1>1, CapacityKept DEF Quiet, Calm
  <2>2. CASE Failing
    <3>1. PICK w \in Workers, T \in SUBSET Tasks, why \in Retryable : FailsRows(w, T, why)
      BY <2>2 DEF Failing
    <3> QED
      BY <3>1, <1>a, <2>q DEF FailsRows, FailRows, Idle, PastCount, InClaim
  <2>3. ASSUME NEW w \in Workers, InsertRow(w) PROVE CapacityInv'
    BY <2>3, <1>a, <2>q DEF InsertRow, Idle, PastCount, InClaim
  <2>4. ASSUME NEW w \in Workers, NEW t \in Tasks, HandleRetry(w, t) PROVE CapacityInv'
    <3>1. /\ loc'[w].pc \in {"check", "retry", "count"}
          /\ \A v \in Workers \ {w} : loc'[v] = loc[v]
      BY <2>4, <1>a DEF HandleRetry, NextRow, Goroutine
    <3> QED
      BY <3>1, <2>q DEF PastCount, InClaim
  <2>5. ASSUME NEW w \in Workers, NEW a \in Agents, ClaimCount(w, a) PROVE CapacityInv'
    <3>1. loc[w].pc = "claim_count" /\ w \in Handlers
      BY <2>5 DEF ClaimCount, pc, CapacityInv, InClaim
    <3>2. CASE AtCapacity(a)
      <4>1. /\ loc'[w].pc \in {"idle", "claim_count"}
            /\ \A v \in Workers \ {w} : loc'[v] = loc[v]
        BY <2>5, <3>2, <1>a, <1>n DEF ClaimCount
      <4> QED
        BY <3>1, <4>1, <2>q DEF PastCount, InClaim
    <3>3. CASE ~ AtCapacity(a)
      <4>1. /\ loc'[w].pc = "claim_snapshot" /\ loc'[w].agent = a
            /\ \A v \in Workers \ {w} : loc'[v] = loc[v]
        BY <2>5, <3>3, <1>a DEF ClaimCount, Goroutine
      <4>2. \A v \in Workers : loc'[v].pc \in InClaim => v \in Handlers
        BY <3>1, <4>1 DEF CapacityInv
      <4>3. \A v \in Workers : loc'[v].pc = "claim_commit" =>
              \A t \in loc'[v].rows : row'[t].agent = loc'[v].agent
        BY <4>1, SelectedKept
      <4>4. ASSUME NEW b \in Agents PROVE Load(b)' <= MaxConcurrent + Cardinality(Handlers) - 1
        <5>1. TasksOf(b, InFlight)' \subseteq TasksOf(b, InFlight)
          BY <1>1, InFlightFalls
        <5>2. CASE b = a
          BY <5>1, <5>2, <3>3, LoadCounted
        <5>3. CASE b # a
          <6>1. Claimers(b)' \subseteq Claimers(b)
            BY <5>3, <4>1 DEF Claimers, Workers
          <6>2. Load(b)' <= Load(b) /\ Load(b)' \in Int
            BY <5>1, <6>1, LoadFalls
          <6> QED
            BY <6>2, LoadType DEF CapacityInv
        <5> QED
          BY <5>2, <5>3
      <4> QED
        BY <4>2, <4>3, <4>4 DEF CapacityInv
    <3> QED
      BY <3>2, <3>3
  <2>6. ASSUME NEW w \in Workers, ClaimSnapshot(w) PROVE CapacityInv'
    <3> DEFINE l == [loc[w] EXCEPT !.pc = "claim_commit", !.rows = Claimable(loc[w].agent)]
    <3>1. loc[w].pc = "claim_snapshot" /\ status' = status /\ row' = row
      BY <2>6 DEF ClaimSnapshot, pc, table
    <3>2. l.pc = "claim_commit" /\ l.rows = Claimable(loc[w].agent) /\ l.agent = loc[w].agent
      BY <1>a DEF Goroutine
    <3>3. loc' = [loc EXCEPT ![w] = NextAgent(loc[w])] \/ loc' = [loc EXCEPT ![w] = l]
      BY <2>6 DEF ClaimSnapshot
    <3> HIDE DEF l
    <3>4. CASE loc' = [loc EXCEPT ![w] = NextAgent(loc[w])]
      <4>1. loc'[w].pc \in {"idle", "claim_count"} /\ \A v \in Workers \ {w} : loc'[v] = loc[v]
        BY <3>4, <1>a, <1>n
      <4> QED
        BY <3>1, <4>1, <2>q DEF PastCount, InClaim
    <3>5. CASE loc' = [loc EXCEPT ![w] = l]
      <4>1. loc'[w] = l /\ \A v \in Workers \ {w} : loc'[v] = loc[v]
        BY <3>5, <1>a
      <4>2. \A v \in Workers : loc'[v].pc \in InClaim => v \in Handlers
        BY <3>1, <4>1 DEF CapacityInv, InClaim, PastCount
      <4>3. \A v \in Workers : loc'[v].pc = "claim_commit" =>
              \A t \in loc'[v].rows : row'[t].agent = loc'[v].agent
        BY <3>1, <3>2, <4>1 DEF CapacityInv, Claimable, TasksOf
      <4>4. ASSUME NEW b \in Agents PROVE Load(b)' <= MaxConcurrent + Cardinality(Handlers) - 1
        <5>1. TasksOf(b, InFlight)' \subseteq TasksOf(b, InFlight)
          BY <1>1, InFlightFalls
        <5>2. Claimers(b)' \subseteq Claimers(b)
          BY <3>1, <3>2, <4>1 DEF Claimers, Workers, PastCount
        <5>3. Load(b)' <= Load(b) /\ Load(b)' \in Int
          BY <5>1, <5>2, LoadFalls
        <5> QED
          BY <5>3, LoadType DEF CapacityInv
      <4> QED
        BY <4>2, <4>3, <4>4 DEF CapacityInv
    <3> QED
      BY <3>3, <3>4, <3>5
  <2>7. ASSUME NEW w \in Workers, ClaimStatus(w) PROVE CapacityInv'
    <3>1. loc' = [loc EXCEPT ![w] = Idle] \/ loc' = [loc EXCEPT ![w] = NextAgent(loc[w])]
      BY <2>7 DEF ClaimStatus
    <3>2. loc[w].pc = "claim_status" /\ Idle.pc = "idle"
      BY <2>7 DEF ClaimStatus, pc, Idle
    <3>3. loc'[w].pc \in {"idle", "claim_count"} /\ \A v \in Workers \ {w} : loc'[v] = loc[v]
      BY <3>1, <3>2, <1>a, <1>n
    <3> QED
      BY <3>2, <3>3, <2>q DEF PastCount, InClaim
  <2> QED
    BY <1>1, <2>1, <2>2, <2>3, <2>4, <2>5, <2>6, <2>7, GoroutineStep
    DEF Adding, Counting, Committing, Answering
<1>2. ASSUME NEW w \in Workers, NEW t \in Tasks, ClaimCommit(w, t) PROVE CapacityInv'
  <2>1. /\ loc[w].pc = "claim_commit" /\ t \in loc[w].rows
        /\ row' = row /\ status'[t] = "dispatched"
        /\ \A u \in Tasks \ {t} : status'[u] = status[u]
        /\ loc'[w].pc = "claim_status" /\ \A v \in Workers \ {w} : loc'[v] = loc[v]
    BY <1>2, <1>a DEF ClaimCommit, SetStatus, Goroutine, pc
  <2>2. w \in Handlers /\ row[t].agent = loc[w].agent
    BY <2>1 DEF CapacityInv, InClaim, PastCount
  <2>3. \A v \in Workers : loc'[v].pc \in InClaim => v \in Handlers
    BY <2>1, <2>2 DEF CapacityInv
  <2>4. \A v \in Workers : loc'[v].pc = "claim_commit" =>
          \A u \in loc'[v].rows : row'[u].agent = loc'[v].agent
    BY <2>1 DEF CapacityInv
  <2>5. ASSUME NEW b \in Agents PROVE Load(b)' <= MaxConcurrent + Cardinality(Handlers) - 1
    <3>1. Claimers(b)' \subseteq Claimers(b) \ {w}
      BY <2>1 DEF Claimers, Workers, PastCount
    <3>2. CASE b = row[t].agent
      <4>1. w \in Claimers(b)
        BY <3>2, <2>1, <2>2 DEF Claimers, PastCount
      <4>2. TasksOf(b, InFlight)' \subseteq TasksOf(b, InFlight) \cup {t}
        BY <2>1 DEF TasksOf
      <4>3. Load(b)' <= Load(b) /\ Load(b)' \in Int
        BY <3>1, <4>1, <4>2, LoadMoves
      <4> QED
        BY <4>3, LoadType DEF CapacityInv
    <3>3. CASE b # row[t].agent
      <4>1. TasksOf(b, InFlight)' \subseteq TasksOf(b, InFlight)
        BY <3>3, <2>1 DEF TasksOf
      <4>2. Load(b)' <= Load(b) /\ Load(b)' \in Int
        BY <3>1, <4>1, LoadFalls
      <4> QED
        BY <4>2, LoadType DEF CapacityInv
    <3> QED
      BY <3>2, <3>3
  <2> QED
    BY <2>3, <2>4, <2>5 DEF CapacityInv
<1> QED
  BY <1>1, <1>2

\* However many claims overlap, an agent has at most max_concurrent_tasks tasks
\* in flight and one more for every other goroutine: each claim that has passed
\* the count takes one task at most, and the last to pass saw a free place.
THEOREM CapacityExceededLittle == Spec => []OvercommitBound
<1>1. Locals /\ CapacityInv /\ [Next]_vars => CapacityInv'
  <2>1. CapacityInv /\ UNCHANGED vars => CapacityInv'
    BY DEF CapacityInv, Load, Claimers, TasksOf, vars, table
  <2> QED
    BY <2>1, CapacityNext
<1>2. Locals /\ CapacityInv => OvercommitBound
  <2> SUFFICES ASSUME Locals, CapacityInv, NEW a \in Agents
               PROVE  Cardinality(TasksOf(a, InFlight)) <= MaxConcurrent + Cardinality(Handlers) - 1
    BY DEF OvercommitBound
  <2>1. Load(a) <= MaxConcurrent + Cardinality(Handlers) - 1
    BY DEF CapacityInv
  <2> QED
    BY <2>1, Finite DEF Load
<1> QED
  BY LocalsInit, LocalsNext, CapacityInit, <1>1, <1>2, PTL DEF Spec
=============================================================================
