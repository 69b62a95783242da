----------------------------- MODULE TaskQueue -----------------------------
(***************************************************************************)
(* The server's task queue: the table agent_task_queue and the code of     *)
(* server/internal/service/task.go and its callers that writes it.         *)
(*                                                                         *)
(* The grain of atomicity is ONE SQL STATEMENT (or one transaction).  A    *)
(* request is served by a goroutine, a Handler, that runs a sequence of    *)
(* statements; every other goroutine may run between two of them.  The     *)
(* background goroutine of cmd/server/runtime_sweeper.go is a Sweeper.     *)
(* Both keep their local variables in "loc", lost when the server stops.   *)
(*                                                                         *)
(* Abstracted: a task is a number in order of creation; its subject is the *)
(* issue, the chat session or the run_only autopilot run it is for.  The   *)
(* priority of a task is chosen by users, so the order in which eligible   *)
(* tasks (and the agents of one runtime) are tried is left open.  Ages and *)
(* timeouts are nondeterministic: any heartbeat or task may be late.       *)
(***************************************************************************)
EXTENDS Naturals, FiniteSets

CONSTANTS Agents, Issues, Chats, Runs, \* Runs: run_only autopilot runs
          ChatAgent,      \* the agent of each chat session (chat_session.agent_id)
          Runtimes,       \* rows of agent_runtime
          Handlers,       \* goroutines serving HTTP requests
          Sweepers,       \* sweeper goroutines (one per server process)
          Archivable,     \* the agents that users archive and restore
          IssueMoves,     \* the statuses that users and agents give to issues
          StatusEdits,    \* the statuses that requests give to agents
          MaxAttempts,    \* column max_attempts
          MaxConcurrent,  \* column max_concurrent_tasks of every agent, never edited
          MaxTasks,       \* bound: rows of the table
          MaxEnqueues,    \* bound: requests that create a task
          MaxStops,       \* bound: stops of daemon processes
          MaxCrashes,     \* bound: restarts of the server
          None

Workers  == Handlers \cup Sweepers
Subjects == Issues \cup Chats \cup Runs
Tasks    == 1..MaxTasks

Status     == {"none", "queued", "dispatched", "running", "completed", "failed", "cancelled"}
Pending    == {"queued", "dispatched"}      \* the predicate of the unique index
InFlight   == {"dispatched", "running"}     \* what CountRunningTasks counts
Active     == {"queued", "dispatched", "running"}
Terminal   == {"completed", "failed", "cancelled"}
Retryable  == {"runtime_offline", "runtime_recovery", "timeout"}
Reasons    == Retryable \cup {"none", "agent_error"}
IssueState == {"todo", "in_progress", "done", "cancelled"} \* "done": every other status
AgentState == {"idle", "working"}           \* "idle": every status but 'working'

ASSUME ConstantsAssumption ==
  /\ MaxTasks \in Nat /\ MaxAttempts \in Nat \ {0} /\ MaxConcurrent \in Nat
  /\ MaxEnqueues \in Nat /\ MaxStops \in Nat /\ MaxCrashes \in Nat
  /\ ChatAgent \in [Chats -> Agents] /\ Archivable \subseteq Agents
  /\ IssueMoves \subseteq IssueState /\ StatusEdits \subseteq AgentState
ASSUME SubjectsDisjoint ==
  /\ Issues \cap Chats = {} /\ Issues \cap Runs = {} /\ Chats \cap Runs = {}
ASSUME NoneIsNothing == None \notin Agents \cup Subjects \cup Runtimes
ASSUME WorkersFinite == IsFiniteSet(Workers) /\ Handlers # {}

VARIABLES
  status,       \* [Tasks -> Status]; "none": no such row yet
  row,          \* the columns of a row that its life does not change
  reason,       \* column failure_reason
  agentStatus,  \* column agent.status
  archived,     \* agents with archived_at set
  agentRuntime, \* column agent.runtime_id
  byHand,       \* history: agents whose status a request has changed since the
                \* server last wrote it
  online,       \* runtimes whose status is 'online'
  issueStatus,  \* column issue.status
  held,         \* tasks some live daemon process received from a claim
  down,         \* runtimes whose daemon process is not running
  recovering,   \* runtimes whose restarted daemon has yet to call recover-orphans
  loc,          \* local variables of the server's goroutines
  enqs, stops, crashes \* counters for the bounds

table   == <<status, row, reason>>
agents  == <<agentStatus, archived, agentRuntime, byHand>>
daemons == <<online, held, down, recovering>>
bounds  == <<enqs, stops, crashes>>
vars    == <<table, agents, daemons, issueStatus, loc, bounds>>

NoRow == [agent |-> None, subject |-> None, runtime |-> None, attempt |-> 0, parent |-> 0]

\* The local variables of a goroutine between two requests.
Idle == [pc      |-> "idle",
         agent   |-> None,   \* agent claimed for, counted, archived or enqueued for
         to      |-> None,   \* agent to enqueue for once tasks are cancelled
         subject |-> None,   \* issue or chat the request is about
         rt      |-> None,   \* runtime claimed for, or read for an insert
         agents  |-> {},     \* agents still to try or to reconcile
         rows    |-> {},     \* claim: candidates of the snapshot; failure: rows to handle
         skip    |-> {},     \* retriedIssues and processedIssues
         busy    |-> FALSE,  \* CountRunningTasks returned more than 0
         lost    |-> FALSE]  \* the daemon that sent this claim is gone

pc(w) == loc[w].pc

PCs == {"idle", "insert", "enqueue", "cancel", "claim_count", "claim_snapshot",
        "claim_commit", "claim_status", "sweep_offline", "retry", "check", "reset",
        "count", "write", "archive"}

Goroutine ==
  [pc: PCs, agent: Agents \cup {None}, to: Agents \cup {None}, subject: Subjects \cup {None},
   rt: Runtimes \cup {None}, agents: SUBSET Agents, rows: SUBSET Tasks, skip: SUBSET Issues,
   busy: BOOLEAN, lost: BOOLEAN]

Row == [agent: Agents \cup {None}, subject: Subjects \cup {None},
        runtime: Runtimes \cup {None}, attempt: 0..MaxAttempts, parent: 0..MaxTasks]

StoreTypeOK ==
  /\ status \in [Tasks -> Status] /\ row \in [Tasks -> Row] /\ reason \in [Tasks -> Reasons]
  /\ agentStatus \in [Agents -> AgentState]
  /\ archived \subseteq Agents /\ byHand \subseteq Agents
  /\ agentRuntime \in [Agents -> Runtimes]
  /\ online \subseteq Runtimes
  /\ issueStatus \in [Issues -> IssueState]
  /\ held \subseteq Tasks
  /\ down \subseteq Runtimes /\ recovering \subseteq Runtimes
  /\ enqs \in 0..MaxEnqueues /\ stops \in 0..MaxStops /\ crashes \in 0..MaxCrashes

\* The types of the columns, and of a goroutine's variables; a retry never has
\* an attempt above max_attempts.
TypeOK == StoreTypeOK /\ loc \in [Workers -> Goroutine]

Init ==
  /\ status = [t \in Tasks |-> "none"]
  /\ row = [t \in Tasks |-> NoRow]
  /\ reason = [t \in Tasks |-> "none"]
  /\ agentStatus = [a \in Agents |-> "idle"]
  /\ archived = {} /\ byHand = {}
  /\ agentRuntime \in [Agents -> Runtimes]
  /\ online = Runtimes
  /\ issueStatus = [i \in Issues |-> "todo"]
  /\ held = {} /\ down = {} /\ recovering = {}
  /\ loc = [w \in Workers |-> Idle]
  /\ enqs = 0 /\ stops = 0 /\ crashes = 0

-----------------------------------------------------------------------------
(* Queries. *)

Same(t, u)  == row[t].agent = row[u].agent /\ row[t].subject = row[u].subject
TasksOf(a, S) == {t \in Tasks : row[t].agent = a /\ status[t] \in S}
On(s, S)    == {t \in Tasks : row[t].subject = s /\ status[t] \in S}
AgentsOf(T) == {row[t].agent : t \in T}

IndexConflictWhenQueued(a, s) == \* mutant: the index covers 'queued' only
  s \in Issues /\ TasksOf(a, {"queued"}) \cap On(s, {"queued"}) # {}

\* idx_one_pending_task_per_issue_agent refuses a second pending row; it has
\* no say on rows whose issue_id is NULL.
IndexConflict(a, s) == s \in Issues /\ TasksOf(a, Pending) \cap On(s, Pending) # {}

ClaimableAnyway(a) == TasksOf(a, {"queued"}) \* mutant: no NOT EXISTS
ClaimableChatsAnyway(a) ==                  \* mutant: NOT EXISTS for issues only
  {t \in TasksOf(a, {"queued"}) :
     row[t].subject \in Issues => TasksOf(a, InFlight) \cap On(row[t].subject, InFlight) = {}}

\* The rows the subquery of ClaimAgentTask selects.
Claimable(a) ==
  {t \in TasksOf(a, {"queued"}) :
     row[t].subject \in Issues \cup Chats =>
       TasksOf(a, InFlight) \cap On(row[t].subject, InFlight) = {}}

IsFresh(t) == status[t] = "none" /\ \A u \in Tasks : status[u] = "none" => t <= u

CreateTask(t, a, s, rt, attempt, parent) ==
  /\ IsFresh(t)
  /\ status' = [status EXCEPT ![t] = "queued"]
  /\ row' = [row EXCEPT ![t] = [agent |-> a, subject |-> s, runtime |-> rt,
                                attempt |-> attempt, parent |-> parent]]
  /\ UNCHANGED reason

SetStatus(T, s) == status' = [t \in Tasks |-> IF t \in T THEN s ELSE status[t]]

-----------------------------------------------------------------------------
(* Creating a task. *)

\* The checks before an insert: GetAgent says the agent is not archived and
\* which runtime it is on.  The caller's own HasPendingTask query only makes
\* an insert rarer, the index decides.
EnqueueBegin(w, a, s) ==
  /\ pc(w) = "idle" /\ enqs < MaxEnqueues
  /\ a \notin archived
  /\ s \in Chats => a = ChatAgent[s]
  /\ loc' = [loc EXCEPT ![w] = [Idle EXCEPT !.pc = "insert", !.agent = a, !.subject = s,
                                            !.rt = agentRuntime[a]]]
  /\ enqs' = enqs + 1
  /\ UNCHANGED <<table, agents, daemons, issueStatus, stops, crashes>>

InsertRow(w) ==
  /\ pc(w) = "insert"
  /\ ~ IndexConflict(loc[w].agent, loc[w].subject)
  /\ \E t \in Tasks : CreateTask(t, loc[w].agent, loc[w].subject, loc[w].rt, 1, 0)
  /\ loc' = [loc EXCEPT ![w] = Idle]
  /\ UNCHANGED <<agents, daemons, issueStatus, bounds>>

InsertConflict(w) ==
  /\ pc(w) = "insert"
  /\ IndexConflict(loc[w].agent, loc[w].subject)
  /\ loc' = [loc EXCEPT ![w] = Idle]
  /\ UNCHANGED <<table, agents, daemons, issueStatus, bounds>>

EnqueueAfterCancelAnyway(w) == \* mutant: no look at archived_at
  /\ pc(w) = "enqueue"
  /\ loc' = [loc EXCEPT ![w] = [Idle EXCEPT !.pc = "insert", !.agent = loc[w].to,
                                  !.subject = loc[w].subject, !.rt = agentRuntime[loc[w].to]]]
  /\ UNCHANGED <<table, agents, daemons, issueStatus, bounds>>

\* The second half of an assignment or a rerun, after the cancellation.
EnqueueAfterCancel(w) ==
  LET a == loc[w].to IN
  /\ pc(w) = "enqueue"
  /\ loc' = [loc EXCEPT ![w] = IF a \in archived THEN Idle
                ELSE [Idle EXCEPT !.pc = "insert", !.agent = a, !.subject = loc[w].subject,
                                  !.rt = agentRuntime[a]]]
  /\ UNCHANGED <<table, agents, daemons, issueStatus, bounds>>

-----------------------------------------------------------------------------
(* Cancelling. *)

AfterCancelSilently(w, T, i, to) == \* mutant: the cancelled rows are not reconciled
  loc' = [loc EXCEPT ![w] = IF to # None THEN [Idle EXCEPT !.pc = "enqueue", !.subject = i, !.to = to]
                            ELSE Idle]

\* What follows a cancellation: ReconcileAgentStatus for the agent of every
\* cancelled row, then the enqueue of an assignment or a rerun.
AfterCancel(w, T, i, to) ==
  loc' = [loc EXCEPT ![w] =
    IF T # {} THEN [Idle EXCEPT !.pc = "count", !.agents = AgentsOf(T), !.subject = i, !.to = to]
    ELSE IF to # None THEN [Idle EXCEPT !.pc = "enqueue", !.subject = i, !.to = to]
    ELSE Idle]

\* TaskService.CancelTask: a user stops one task.
CancelTask(w, t) ==
  /\ pc(w) = "idle"
  /\ status[t] \in Active
  /\ SetStatus({t}, "cancelled")
  /\ AfterCancel(w, {t}, None, None)
  /\ UNCHANGED <<row, reason, agents, daemons, issueStatus, bounds>>

\* UpdateIssue: a person, or an agent through the CLI, sets an issue's status;
\* "cancelled" goes on to cancel the issue's tasks.
UpdateIssueStatus(w, i, st) ==
  /\ pc(w) = "idle" /\ st # issueStatus[i]
  /\ issueStatus' = [issueStatus EXCEPT ![i] = st]
  /\ loc' = [loc EXCEPT ![w] = IF st = "cancelled" THEN [Idle EXCEPT !.pc = "cancel", !.subject = i]
                               ELSE Idle]
  /\ UNCHANGED <<table, agents, daemons, bounds>>

\* UpdateIssue: the issue gets agent a as its new assignee.
Assign(w, i, a) ==
  /\ pc(w) = "idle" /\ enqs < MaxEnqueues
  /\ loc' = [loc EXCEPT ![w] = [Idle EXCEPT !.pc = "cancel", !.subject = i, !.to = a]]
  /\ enqs' = enqs + 1
  /\ UNCHANGED <<table, agents, daemons, issueStatus, stops, crashes>>

\* CancelAgentTasksByIssue
CancelTasksForIssue(w) ==
  LET i == loc[w].subject IN
  /\ pc(w) = "cancel"
  /\ SetStatus(On(i, Active), "cancelled")
  /\ AfterCancel(w, On(i, Active), i, loc[w].to)
  /\ UNCHANGED <<row, reason, agents, daemons, issueStatus, bounds>>

\* RerunIssue for assignee a: only a's tasks on the issue are cancelled.
RerunIssue(w, i, a) ==
  LET T == TasksOf(a, Active) \cap On(i, Active) IN
  /\ pc(w) = "idle" /\ enqs < MaxEnqueues
  /\ SetStatus(T, "cancelled")
  /\ AfterCancel(w, T, i, a)
  /\ enqs' = enqs + 1
  /\ UNCHANGED <<row, reason, agents, daemons, issueStatus, stops, crashes>>

\* ArchiveAgent: the flag first, then CancelAgentTasksByAgent.  The agent's
\* status is not reconciled on this path.
Archive(w, a) ==
  /\ pc(w) = "idle" /\ a \in Archivable \ archived
  /\ archived' = archived \cup {a}
  /\ loc' = [loc EXCEPT ![w] = [Idle EXCEPT !.pc = "archive", !.agent = a]]
  /\ UNCHANGED <<table, agentStatus, agentRuntime, byHand, daemons, issueStatus, bounds>>

ArchiveCancel(w) ==
  /\ pc(w) = "archive"
  /\ SetStatus(TasksOf(loc[w].agent, Active), "cancelled")
  /\ loc' = [loc EXCEPT ![w] = Idle]
  /\ UNCHANGED <<row, reason, agents, daemons, issueStatus, bounds>>

Restore(a) ==
  /\ a \in archived
  /\ archived' = archived \ {a}
  /\ UNCHANGED <<table, agentStatus, agentRuntime, byHand, daemons, issueStatus, loc, bounds>>

\* UpdateAgent: one statement gives the agent the runtime and the status that
\* the request names, as it names them; rows already in the table keep their
\* runtime, and nothing is reconciled.  (One that changes neither is a stutter.)
UpdateAgent(a, rt, st) ==
  /\ rt # agentRuntime[a] \/ st # agentStatus[a]
  /\ agentRuntime' = [agentRuntime EXCEPT ![a] = rt]
  /\ agentStatus' = [agentStatus EXCEPT ![a] = st]
  /\ byHand' = IF st = agentStatus[a] THEN byHand ELSE byHand \cup {a}
  /\ UNCHANGED <<table, archived, daemons, issueStatus, loc, bounds>>

-----------------------------------------------------------------------------
(* Claiming: ClaimTaskForRuntime and, for each agent it tries, ClaimTask. *)

\* ListPendingTasksByRuntime: the agents to try, each once.
ClaimBegin(w, rt) ==
  LET A == AgentsOf({t \in Tasks : status[t] \in Pending /\ row[t].runtime = rt}) IN
  /\ pc(w) = "idle" /\ rt \notin down
  /\ A # {}
  /\ loc' = [loc EXCEPT ![w] = [Idle EXCEPT !.pc = "claim_count", !.rt = rt, !.agents = A]]
  /\ UNCHANGED <<table, agents, daemons, issueStatus, bounds>>

\* The loop tries the next agent or answers "no task".
NextAgent(l) ==
  IF l.agents = {} THEN Idle
  ELSE [Idle EXCEPT !.pc = "claim_count", !.rt = l.rt, !.agents = l.agents, !.lost = l.lost]

AtCapacityLate(a) == Cardinality(TasksOf(a, InFlight)) > MaxConcurrent \* mutant: off by one
AtCapacity(a) == Cardinality(TasksOf(a, InFlight)) >= MaxConcurrent

\* CountRunningTasks against max_concurrent_tasks.
ClaimCount(w, a) ==
  LET rest == loc[w].agents \ {a} IN
  /\ pc(w) = "claim_count" /\ a \in loc[w].agents
  /\ loc' = [loc EXCEPT ![w] =
       IF AtCapacity(a) THEN NextAgent([loc[w] EXCEPT !.agents = rest])
       ELSE [loc[w] EXCEPT !.pc = "claim_snapshot", !.agent = a, !.agents = rest]]
  /\ UNCHANGED <<table, agents, daemons, issueStatus, bounds>>

\* ClaimAgentTask is one statement, but under READ COMMITTED its subquery
\* reads the snapshot taken when it starts ...
ClaimSnapshot(w) ==
  LET C == Claimable(loc[w].agent) IN
  /\ pc(w) = "claim_snapshot"
  /\ loc' = [loc EXCEPT ![w] = IF C = {} THEN NextAgent(loc[w])
                               ELSE [loc[w] EXCEPT !.pc = "claim_commit", !.rows = C]]
  /\ UNCHANGED <<table, agents, daemons, issueStatus, bounds>>

ClaimCommitUnchecked(w, t) == \* mutant: the locked row is not checked again
  /\ pc(w) = "claim_commit" /\ t \in loc[w].rows
  /\ SetStatus({t}, "dispatched")
  /\ loc' = [loc EXCEPT ![w].pc = "claim_status", ![w].rows = {t}]
  /\ UNCHANGED <<row, reason, agents, daemons, issueStatus, bounds>>

\* ... and FOR UPDATE checks only the locked row itself again: it must still
\* be queued, while NOT EXISTS keeps the answer of the snapshot.
ClaimCommit(w, t) ==
  /\ pc(w) = "claim_commit"
  /\ t \in loc[w].rows /\ status[t] = "queued"
  /\ SetStatus({t}, "dispatched")
  /\ loc' = [loc EXCEPT ![w].pc = "claim_status", ![w].rows = {t}]
  /\ UNCHANGED <<row, reason, agents, daemons, issueStatus, bounds>>

\* No row: every candidate has left the queue, or is SKIPped because another
\* claim in progress has it LOCKED.
ClaimMiss(w) ==
  /\ pc(w) = "claim_commit"
  /\ \A t \in loc[w].rows : status[t] = "queued" =>
       \E v \in Workers \ {w} : pc(v) = "claim_commit" /\ t \in loc[v].rows
  /\ loc' = [loc EXCEPT ![w] = NextAgent(loc[w])]
  /\ UNCHANGED <<table, agents, daemons, issueStatus, bounds>>

\* updateAgentStatus "working", then the answer to the daemon: a task of
\* another runtime is dispatched already but not returned, and the answer may
\* be lost on its way.
ClaimStatus(w) ==
  /\ pc(w) = "claim_status"
  /\ agentStatus' = [agentStatus EXCEPT ![loc[w].agent] = "working"]
  /\ byHand' = byHand \ {loc[w].agent}
  /\ \/ /\ \A t \in loc[w].rows : row[t].runtime = loc[w].rt
        /\ loc' = [loc EXCEPT ![w] = Idle]
        /\ \/ held' = held
           \/ ~ loc[w].lost /\ held' = held \cup loc[w].rows
     \/ /\ \E t \in loc[w].rows : row[t].runtime # loc[w].rt
        /\ loc' = [loc EXCEPT ![w] = NextAgent(loc[w])]
        /\ UNCHANGED held
  /\ UNCHANGED <<table, archived, agentRuntime, online, down, recovering, issueStatus, bounds>>

-----------------------------------------------------------------------------
(* What the daemon reports.  It knows the tasks its claims returned; a call *)
(* about a row that is no longer in the right state changes nothing.        *)

StartTask(t) ==
  /\ t \in held /\ status[t] = "dispatched"
  /\ SetStatus({t}, "running")
  /\ UNCHANGED <<row, reason, agents, daemons, issueStatus, loc, bounds>>

CompleteTaskLate(w, t) == \* mutant: a late report overrides a cancellation
  /\ pc(w) = "idle"
  /\ t \in held /\ status[t] \in {"running", "cancelled"}
  /\ SetStatus({t}, "completed")
  /\ loc' = [loc EXCEPT ![w] = [Idle EXCEPT !.pc = "count", !.agents = {row[t].agent}]]
  /\ held' = held \ {t}
  /\ UNCHANGED <<row, reason, agents, online, down, recovering, issueStatus, bounds>>

CompleteTask(w, t) ==
  /\ pc(w) = "idle"
  /\ t \in held /\ status[t] = "running"
  /\ SetStatus({t}, "completed")
  /\ loc' = [loc EXCEPT ![w] = [Idle EXCEPT !.pc = "count", !.agents = {row[t].agent}]]
  /\ held' = held \ {t}
  /\ UNCHANGED <<row, reason, agents, online, down, recovering, issueStatus, bounds>>

\* The daemon always reports "agent_error", which is not retried.
FailTask(w, t) ==
  /\ pc(w) = "idle"
  /\ t \in held /\ status[t] \in InFlight
  /\ SetStatus({t}, "failed")
  /\ reason' = [reason EXCEPT ![t] = "agent_error"]
  /\ loc' = [loc EXCEPT ![w] = [Idle EXCEPT !.pc = "count", !.agents = {row[t].agent}]]
  /\ held' = held \ {t}
  /\ UNCHANGED <<row, agents, online, down, recovering, issueStatus, bounds>>

-----------------------------------------------------------------------------
(* Sweepers and recovery: a statement fails a set T of rows and hands them *)
(* to HandleFailedTasks.                                                    *)

FailRowsOnly(w, T, why) == \* mutant: the failed rows are not handed on
  /\ SetStatus(T, "failed")
  /\ reason' = [t \in Tasks |-> IF t \in T THEN why ELSE reason[t]]
  /\ loc' = [loc EXCEPT ![w] = IF T = {} THEN Idle
               ELSE [Idle EXCEPT !.pc = "count", !.agents = AgentsOf(T)]]
  /\ UNCHANGED row

FailRows(w, T, why) ==
  /\ SetStatus(T, "failed")
  /\ reason' = [t \in Tasks |-> IF t \in T THEN why ELSE reason[t]]
  /\ loc' = [loc EXCEPT ![w] = IF T = {} THEN Idle
               ELSE [Idle EXCEPT !.pc = "retry", !.rows = T, !.agents = AgentsOf(T)]]
  /\ UNCHANGED row

AllRunning == {t \in Tasks : status[t] = "running"} \* mutant: forgets 'dispatched'
AllUnfinished == {t \in Tasks : status[t] \in InFlight \cup {"failed"}} \* mutant: fails rows twice

AllInFlight == {t \in Tasks : status[t] \in InFlight}

\* MarkStaleRuntimesOffline: some online runtimes have missed their heartbeats.
SweepRuntimes(w, R) ==
  /\ pc(w) = "idle"
  /\ R # {} /\ R \subseteq online
  /\ online' = online \ R
  /\ loc' = [loc EXCEPT ![w] = [Idle EXCEPT !.pc = "sweep_offline"]]
  /\ UNCHANGED <<table, agents, held, down, recovering, issueStatus, bounds>>

\* FailTasksForOfflineRuntimes
SweepOffline(w) ==
  /\ pc(w) = "sweep_offline"
  /\ FailRows(w, {t \in AllInFlight : row[t].runtime \notin online}, "runtime_offline")
  /\ UNCHANGED <<agents, daemons, issueStatus, bounds>>

\* FailStaleTasks: the tasks T have been dispatched or running for too long.
SweepTasks(w, T) ==
  /\ pc(w) = "idle"
  /\ T # {} /\ T \subseteq AllInFlight
  /\ FailRows(w, T, "timeout")
  /\ UNCHANGED <<agents, daemons, issueStatus, bounds>>

\* RecoverOrphanedTasks, called once by a restarted daemon for each runtime.
RecoverOrphans(w, rt) ==
  /\ pc(w) = "idle" /\ rt \in recovering
  /\ recovering' = recovering \ {rt}
  /\ FailRows(w, {t \in AllInFlight : row[t].runtime = rt}, "runtime_recovery")
  /\ UNCHANGED <<agents, online, held, down, issueStatus, bounds>>

\* HandleFailedTasks, one row: MaybeRetryFailedTask ...
MayRetryAlways(t) == \* mutant: no budget
  reason[t] \in Retryable /\ row[t].subject \notin Runs
MayRetry(t) ==
  /\ reason[t] \in Retryable
  /\ row[t].attempt < MaxAttempts
  /\ row[t].subject \notin Runs

NextRow(l) == [l EXCEPT !.pc = IF l.rows = {} THEN "count" ELSE "retry", !.subject = None]

HandleRetry(w, t) ==
  LET s    == row[t].subject
      made == MayRetry(t) /\ ~ IndexConflict(row[t].agent, s)
      l    == [loc[w] EXCEPT !.rows = @ \ {t},
                             !.skip = IF made THEN @ \cup (Issues \cap {s}) ELSE @]
  IN
  /\ pc(w) = "retry" /\ t \in loc[w].rows
  /\ IF made
       THEN \E u \in Tasks : CreateTask(u, row[t].agent, s, row[t].runtime, row[t].attempt + 1, t)
       ELSE UNCHANGED table
  /\ loc' = [loc EXCEPT ![w] = IF s \in Issues THEN [l EXCEPT !.pc = "check", !.subject = s]
                               ELSE NextRow(l)]
  /\ UNCHANGED <<agents, daemons, issueStatus, bounds>>

HandleCheckBlind(w) == \* mutant: no HasActiveTaskForIssue
  LET i    == loc[w].subject
      look == issueStatus[i] = "in_progress" /\ i \notin loc[w].skip
  IN
  /\ pc(w) = "check"
  /\ loc' = [loc EXCEPT ![w] = IF look THEN [loc[w] EXCEPT !.skip = @ \cup {i}, !.pc = "reset"]
                               ELSE NextRow(loc[w])]
  /\ UNCHANGED <<table, agents, daemons, issueStatus, bounds>>

\* ... then GetIssue and HasActiveTaskForIssue (read in one step here; the
\* write below acts on what was read) ...
HandleCheck(w) ==
  LET i    == loc[w].subject
      look == issueStatus[i] = "in_progress" /\ i \notin loc[w].skip
      l    == [loc[w] EXCEPT !.skip = IF look THEN @ \cup {i} ELSE @]
  IN
  /\ pc(w) = "check"
  /\ loc' = [loc EXCEPT ![w] = IF look /\ On(i, Active) = {} THEN [l EXCEPT !.pc = "reset"]
                               ELSE NextRow(l)]
  /\ UNCHANGED <<table, agents, daemons, issueStatus, bounds>>

\* ... and the reset of a stuck issue to "todo", whatever its status is now.
HandleReset(w) ==
  /\ pc(w) = "reset"
  /\ issueStatus' = [issueStatus EXCEPT ![loc[w].subject] = "todo"]
  /\ loc' = [loc EXCEPT ![w] = NextRow(loc[w])]
  /\ UNCHANGED <<table, agents, daemons, bounds>>

-----------------------------------------------------------------------------
(* ReconcileAgentStatus: CountRunningTasks, then UpdateAgentStatus. *)

ReconcileCount(w, a) ==
  /\ pc(w) = "count" /\ a \in loc[w].agents
  /\ loc' = [loc EXCEPT ![w].pc = "write", ![w].agent = a,
                        ![w].agents = @ \ {a}, ![w].busy = TasksOf(a, InFlight) # {}]
  /\ UNCHANGED <<table, agents, daemons, issueStatus, bounds>>

ReconcileWrite(w) ==
  LET l == loc[w] IN
  /\ pc(w) = "write"
  /\ agentStatus' = [agentStatus EXCEPT ![l.agent] = IF l.busy THEN "working" ELSE "idle"]
  /\ byHand' = byHand \ {l.agent}
  /\ loc' = [loc EXCEPT ![w] =
       IF l.agents # {} THEN [l EXCEPT !.pc = "count", !.agent = None, !.busy = FALSE]
       ELSE IF l.to # None THEN [Idle EXCEPT !.pc = "enqueue", !.subject = l.subject, !.to = l.to]
       ELSE Idle]
  /\ UNCHANGED <<table, archived, agentRuntime, daemons, issueStatus, bounds>>

-----------------------------------------------------------------------------
(* Runtimes, daemons and the server process. *)

\* UpdateAgentRuntimeHeartbeat
Heartbeat(rt) ==
  /\ rt \notin online \cup down
  /\ online' = online \cup {rt}
  /\ UNCHANGED <<table, agents, held, down, recovering, issueStatus, loc, bounds>>

\* The daemon process of runtime rt stops and forgets what it was running.  A
\* graceful stop deregisters the runtime; neither touches the tasks.
DaemonStop(rt) ==
  /\ rt \notin down /\ stops < MaxStops
  /\ stops' = stops + 1
  /\ down' = down \cup {rt}
  /\ online' \in {online, online \ {rt}}
  /\ held' = {t \in held : row[t].runtime # rt}
  /\ recovering' = recovering \ {rt}
  /\ loc' = [w \in Workers |-> IF loc[w].rt = rt THEN [loc[w] EXCEPT !.lost = TRUE] ELSE loc[w]]
  /\ UNCHANGED <<table, agents, issueStatus, enqs, crashes>>

\* A new process registers.  Its poll loop may claim from the runtime before
\* recover-orphans is called: the runtime is published to it first.
DaemonStart(rt) ==
  /\ rt \in down
  /\ down' = down \ {rt}
  /\ online' = online \cup {rt}
  /\ recovering' = recovering \cup {rt}
  /\ UNCHANGED <<table, agents, held, issueStatus, loc, bounds>>

\* A failed recover-orphans call is logged and not repeated.
RecoverLost(rt) ==
  /\ rt \in recovering
  /\ recovering' = recovering \ {rt}
  /\ UNCHANGED <<table, agents, online, held, down, issueStatus, loc, bounds>>

\* The server stops and starts again: its goroutines are gone, the database stays.
ServerRestart ==
  /\ crashes < MaxCrashes
  /\ crashes' = crashes + 1
  /\ \E w \in Workers : pc(w) # "idle"
  /\ loc' = [w \in Workers |-> Idle]
  /\ UNCHANGED <<table, agents, daemons, issueStatus, enqs, stops>>

-----------------------------------------------------------------------------
Request(w) ==
  \/ \E a \in Agents, s \in Subjects : EnqueueBegin(w, a, s)
  \/ \E t \in Tasks : CancelTask(w, t) \/ CompleteTask(w, t) \/ FailTask(w, t)
  \/ \E i \in Issues : \/ \E st \in IssueMoves : UpdateIssueStatus(w, i, st)
                       \/ \E a \in Agents : Assign(w, i, a) \/ RerunIssue(w, i, a)
  \/ \E a \in Agents : Archive(w, a)
  \/ \E rt \in Runtimes : ClaimBegin(w, rt) \/ RecoverOrphans(w, rt)

Sweep(w) ==
  \/ \E R \in SUBSET Runtimes : SweepRuntimes(w, R)
  \/ \E T \in SUBSET Tasks : SweepTasks(w, T)

\* One more statement of a request in progress.
Continue(w) ==
  \/ InsertRow(w) \/ InsertConflict(w) \/ EnqueueAfterCancel(w)
  \/ CancelTasksForIssue(w) \/ ArchiveCancel(w)
  \/ \E a \in Agents : ClaimCount(w, a) \/ ReconcileCount(w, a)
  \/ ClaimSnapshot(w) \/ ClaimMiss(w) \/ ClaimStatus(w)
  \/ \E t \in Tasks : ClaimCommit(w, t) \/ HandleRetry(w, t)
  \/ SweepOffline(w) \/ HandleCheck(w) \/ HandleReset(w)
  \/ ReconcileWrite(w)

Environment ==
  \/ \E t \in Tasks : StartTask(t)
  \/ \E a \in Agents :
       \/ Restore(a)
       \/ \E rt \in Runtimes, st \in StatusEdits \cup {agentStatus[a]} : UpdateAgent(a, rt, st)
  \/ \E rt \in Runtimes : \/ Heartbeat(rt) \/ DaemonStop(rt)
                          \/ DaemonStart(rt) \/ RecoverLost(rt)
  \/ ServerRestart

Next ==
  \/ \E w \in Handlers : Request(w)
  \/ \E w \in Sweepers : Sweep(w)
  \/ \E w \in Workers : Continue(w)
  \/ Environment

Spec == Init /\ [][Next]_vars

\* A goroutine that has begun a request goes on with it.
Progress == \A w \in Workers : WF_vars(Continue(w))

\* Every task in flight is past its threshold sooner or later, at some tick of
\* the sweeper.  Nothing is assumed of daemons and users.
Sweeping ==
  \A t \in Tasks : SF_vars(\E w \in Sweepers, T \in SUBSET Tasks : t \in T /\ SweepTasks(w, T))

LiveSpec == Spec /\ Progress
FairSpec == Spec /\ Progress /\ Sweeping

-----------------------------------------------------------------------------
(* Safety under any interleaving. *)

\* Two tasks of one agent on one issue are never both handed out or running,
\* although a claim decides on a snapshot that is stale when it commits: the
\* agent never works twice on the same issue at the same time.
IssueSerial ==
  \A t, u \in Tasks :
    t # u /\ row[t].subject \in Issues /\ Same(t, u)
      => ~ (status[t] \in InFlight /\ status[u] \in InFlight)

\* A task is handed to one daemon, once: two claims never return the same task,
\* and none returns a task that a daemon already has.
ClaimedOnce ==
  \A w \in Workers : pc(w) = "claim_status" =>
    /\ loc[w].rows \cap held = {}
    /\ \A v \in Workers \ {w} : pc(v) = "claim_status" => loc[v].rows \cap loc[w].rows = {}

\* Every retry has a parent that failed for a retryable reason with budget left,
\* takes over its agent and subject, and is its only child, whichever of the
\* sweeps, recover-orphans and the daemon's own report came first.
RetryLineage ==
  \A t \in Tasks : row[t].parent # 0 =>
    LET p == row[t].parent IN
    /\ status[p] = "failed" /\ reason[p] \in Retryable
    /\ Same(t, p) /\ row[t].subject \notin Runs
    /\ row[t].attempt = row[p].attempt + 1
    /\ \A u \in Tasks \ {t} : row[u].parent # p

\* No retry is forgotten while the server is up: a task that failed for an
\* infrastructure reason with budget left is followed by another task for its
\* agent and subject (its retry, or the newer request whose waiting row made
\* the index refuse the retry), or some goroutine has it on its list still.
\* HandleFailedTasks keeps that list in memory only.
Followed(t) == \E u \in Tasks : u > t /\ status[u] # "none" /\ Same(t, u)
RetryOwed == crashes = 0 =>
  \A t \in Tasks : status[t] = "failed" /\ MayRetry(t) =>
    Followed(t) \/ \E w \in Workers : pc(w) \in {"retry", "check", "reset"} /\ t \in loc[w].rows

\* What max_concurrent_tasks is worth when claims run concurrently: the check
\* and the claim are two statements, so every other goroutine that claims at
\* the same time may add one task, and no more.
OvercommitBound ==
  \A a \in Agents :
    Cardinality(TasksOf(a, InFlight)) <= MaxConcurrent + Cardinality(Handlers) - 1

\* A finished task stays as it finished: late reports, sweeps, cancellations
\* and retries never rewrite its status or its failure reason.
FinishedForGood ==
  [][\A t \in Tasks : status[t] \in Terminal =>
       status'[t] = status[t] /\ reason'[t] = reason[t] /\ row'[t] = row[t]]_vars

\* Each (agent, issue) pair behaves as a coalescing queue: the task that waits,
\* queued or handed out, and the task that runs.
LaneSet == Agents \X Issues
InLane(l, st) == {t \in TasksOf(l[1], {st}) : row[t].subject = l[2]}
laneWaiting ==
  [l \in LaneSet |-> IF InLane(l, "queued") # {} THEN "queued"
                     ELSE IF InLane(l, "dispatched") # {} THEN "dispatched" ELSE "empty"]
laneWorking == [l \in LaneSet |-> InLane(l, "running") # {}]
Lane == INSTANCE IssueLanes WITH
  Lanes <- LaneSet, waiting <- laneWaiting, working <- laneWorking
LaneSpec == Lane!Spec

-----------------------------------------------------------------------------
(* Promises that hold when requests do not overlap (one goroutine). *)

Settled == \A w \in Workers : pc(w) = "idle"

\* Between requests the status the server wrote says whether the agent has work
\* in flight.  A request that sets the status itself takes effect as it stands,
\* until the next claim or reconciliation for the agent corrects it.
StatusSettled == Settled =>
  \A a \in Agents \ byHand : (agentStatus[a] = "working") <=> (TasksOf(a, InFlight) # {})

\* One chat session has one task in flight.
ChatSerial ==
  \A t, u \in Tasks :
    t # u /\ row[t].subject \in Chats /\ Same(t, u)
      => ~ (status[t] \in InFlight /\ status[u] \in InFlight)

\* Failure handling resets an issue to "todo" only when it is in progress and
\* no task, old or retried, is active on it.
ResetOnlyStuck ==
  [][\A w \in Workers : HandleReset(w) =>
       LET i == loc[w].subject IN issueStatus[i] = "in_progress" /\ On(i, Active) = {}]_vars

\* An archived agent has no task left to do.
ArchivedQuiet == Settled => \A a \in archived : TasksOf(a, Active) = {}

-----------------------------------------------------------------------------
(* Liveness. *)

\* A task handed out does not stay in flight for ever, even if the daemon never
\* got it, lost it or never reports: the sweeper ends it.
InFlightEnds == \A t \in Tasks : status[t] \in InFlight ~> status[t] \in Terminal

\* A task that failed for an infrastructure reason with budget left is followed
\* by another task for its agent and subject: its retry, or the newer request
\* whose waiting row made the unique index refuse the retry.
RetryHappens == \A t \in Tasks : status[t] = "failed" /\ MayRetry(t) ~> Followed(t)
=============================================================================
