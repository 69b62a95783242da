# Verification of ClickoPM

ClickoPM (a fork of Multica) is a project management tool in which issues are
assigned to people and to *agents*: external command-line programs that a
*daemon* on a user's machine runs. A Go server (`src/server`) keeps everything in
PostgreSQL; a web app, a desktop app and a command line (`src/apps`,
`src/packages`) are its clients. Five parts have a protocol that is hard to get
right and are modelled here:

- the **task queue** between users and daemons: the table `agent_task_queue`,
  written by concurrent requests and a sweeper with no lock held from one SQL
  statement to the next (`TaskQueue`, `IssueLanes`);
- the **requests for local skills**: records in Redis between a browser that polls,
  any of the server's nodes, and a daemon that can only be answered when it calls
  (`LocalSkillRequests`, `RequestHandoff`);
- the **desktop app's daemon manager**: asynchronous chains of steps that keep a
  local daemon running as the logged-in user (`DesktopDaemon`);
- the **desktop app's tabs**: groups of tabs, routers and counters that follow
  them, and overlays (`DesktopTabs`);
- the **clients' query cache**: optimistic mutations, fetches and websocket events
  that together must show what the server holds (`QueryCache`).

This directory holds TLA+ modules of these parts, TLC configurations that check
them on small instances, and theorems, checked by TLAPS, that hold for every
instance.

    tlc -workers 2 -config TaskQueue_lane.cfg MCTaskQueue      # a run
    tlc -workers 2 -config QueryCache_cache.cfg MCQueryCache
    tlapm TaskQueueProofs.tla                                  # the proofs
    tlapm LaneRefinement.tla
    tlapm ClaimProofs.tla
    tlapm SequentialProofs.tla
    tlapm DesktopDaemonProofs.tla
    tlapm DesktopTabsProofs.tla
    tlapm QueryCacheProofs.tla
    tlapm LocalSkillProofs.tla

Paths are relative to `src/server` where a section is about the server, and
otherwise to `src`.

## 1. Inventory

### Server

| component | code | state | operations |
|---|---|---|---|
| task queue | `internal/service/task.go`, `pkg/db/queries/agent.sql`, `internal/handler/task_lifecycle.go` | `agent_task_queue`, `agent.status` | enqueue, claim, start, complete, fail, cancel, rerun, recover orphans, retry, reset the issue, reconcile the agent's status |
| runtime sweeper | `cmd/server/runtime_sweeper.go`, `pkg/db/queries/runtime.sql` | `agent_runtime.status` | mark silent runtimes offline, fail their tasks, fail stale tasks, collect dead runtimes |
| daemon | `internal/daemon/daemon.go` | slots, active tasks, registered runtimes | register, poll and claim, run, watch for cancellation, report, restart for an update |
| daemon endpoints | `internal/handler/daemon.go` | rows of `agent_runtime` | register, deregister, heartbeat, claim, start, complete, fail |
| issue handlers | `internal/handler/issue.go`, `comment.go` | `issue` | assign, change status, mention, rerun, delete, batch |
| agent handlers | `internal/handler/agent.go` | `agent` | update, archive, restore |
| chat sessions | `internal/handler/chat.go` | `chat_session`, messages | send, resume pointer, archive |
| autopilot | `internal/service/autopilot.go`, `cmd/server/autopilot_scheduler.go` | triggers with `next_run_at`, runs | claim due triggers, dispatch, skip, sync a run with its issue or task |
| request stores | `internal/handler/runtime_local_skills.go`, `runtime_models.go`, `runtime_update.go` | requests with deadlines, in memory or in Redis | create, pop on heartbeat, complete, fail, time out |
| realtime | `internal/realtime/*.go` | clients, recent event ids, Redis streams | broadcast, relay, deduplicate, replay |
| event bus and listeners | `internal/events/bus.go`, `cmd/server/*_listeners.go` | inbox and activity rows | synchronous fan-out |
| repository cache | `internal/daemon/repocache/cache.go` | worktrees on disk | locks per repository |
| other schedulers | `cmd/server/cycle_sweeper.go`, `report_scheduler.go` | cycles, reports | periodic jobs |
| agent backends, CLI, CRUD handlers | `pkg/agent`, `cmd/multica`, `internal/handler` | none shared with the above | clients of the interface, or one statement per request |

### Clients

| component | code | state | operations |
|---|---|---|---|
| desktop daemon manager | `apps/desktop/src/main/daemon-manager.ts`, `version-decision.ts`, the effects of `App.tsx` | token file, sidecar naming its owner, guard, status, deferred restart; the daemon process | sync and clear the token, start, stop, restart, auto-start, version check, poll, install, quit |
| desktop tabs | `apps/desktop/src/renderer/src/stores/tab-store.ts`, `platform/navigation.tsx`, `hooks/use-tab-router-sync.ts` | a group of tabs per workspace, a router per tab, history counters, an overlay | navigate, open, close, activate, switch the workspace, validate, persist and merge |
| query cache and realtime sync | `packages/core/*/mutations.ts`, `queries.ts`, `realtime/*`, `api/ws-client.ts`, `issues/ws-updaters.ts` | cached queries and their marks, requests and calls under way, socket, timers | fetch, mutate, roll back, invalidate, handle an event, debounce, reconnect, change the workspace |
| client sessions | `packages/core/auth/store.ts`, `platform/auth-initializer.tsx` | user, token or cookie | boot, log in, log out |
| API client, views, landing pages, translations | `packages/core/api/client.ts`, `packages/views`, `apps/web` | none of their own, or of one component | one call per endpoint; rendering |

**How they interact.** A user's request (an assignment, a mention, a chat
message, a rerun, an autopilot run) inserts a `queued` row. A daemon polls
`ClaimTaskForRuntime` for each of its runtimes; the server picks one row,
makes it `dispatched` and returns it. The daemon reports `running`, then
`completed` or `failed`. The sweeper and a restarted daemon's `recover-orphans`
call fail rows that nobody will report on; `HandleFailedTasks` retries those as
new rows. Users cancel rows at any time. Each of these also writes
`agent.status`, by a count followed by an update. What a request writes the
server publishes as an event on the workspace's socket; the clients' cache patches
or refetches what the event names. The desktop app starts and stops the daemon
through the command line, with a token it keeps in a file that only the daemon's
start reads; logging in and out in its window starts these chains and waits for none.

**What is hard.** Everything below is a hazard of `PROJECT.json`, at its line.

- *Stale reads.* `ClaimAgentTask` decides by a `NOT EXISTS` over the other rows
  of the lane, evaluated on the statement's snapshot. The archive check, the
  capacity check, the "is anything active on this issue" check and the count
  behind `agent.status` are read by one statement and used by another. The daemon
  manager reads the token file, the sidecar and `/health` before an `await` and
  acts on them after it. A tab's path in the store is a copy.
- *Late or lost calls.* A report may arrive after the task was cancelled or
  swept; the answer to a claim may never arrive; an answer to a fetch may be
  older than an event; events are lost while the socket is down.
- *Several enders of one task.* The sweeper (twice: offline, stale), a restarted
  daemon, the daemon's own report, a user. Each may trigger the retry.
- *Crashes between statements*, of the server, of daemons and of the desktop app; and
  between a write to PostgreSQL and the write to Redis that should go with it.
- *Overlapping chains.* Some of the daemon manager's operations take a guard that
  refuses, others take none. Two optimistic mutations remember each other's patches.
- *Nobody ends it.* A row in flight of which no process will speak; a status that
  stays "starting"; a view that waits for a fetch that was cancelled.

**What makes it correct.** Task queue: an agent works on one issue once at a
time; a task is handed out once; a finished row stays finished; retries form
chains within the budget; whatever is in flight ends; capacity holds up to the
number of concurrent claims; when requests do not overlap, the status, the
archive flag and the issue's reset tell the truth. Daemon manager: once
settled, the daemon runs as the logged-in user or not at all, and the files tell
the truth about whose token they hold; logins end with a running daemon. Tabs:
groups are well formed, no window is without a way out (stray pushes apart), the back button is
honest, a navigation lands. Cache: once quiet, unmarked data is the server's, and
refused patches vanish. Local skills: a request is handed out once, is not lost
while it waits, is settled when the daemon stops reporting, and is completed
exactly if its skill exists. Not yet modelled: autopilot (a due trigger fires once
and becomes due again), realtime (each event once and in order), runtimes (a merge loses no task).

## 2. Plan

| order | module | what | status |
|---|---|---|---|
| 1 | `TaskQueue` | the queue, claims, sweeps, retries, crashes | done |
| 2 | `IssueLanes` | abstract: one (agent, issue) pair as a coalescing queue | done |
| 3 | `TaskQueueProofs`, `LaneRefinement`, `ClaimProofs`, `SequentialProofs` | the queue's safety: types, serial execution, finished for good, the refinement; claims, retries and capacity of concurrent requests; chats, resets, archive and status when requests do not overlap | done |
| 4 | `DesktopDaemon`, `DesktopDaemonProofs` | the desktop app as the keeper of a daemon; its safety proved for a patient user | done |
| 5 | `DesktopTabs`, `DesktopTabsProofs` | tabs, routers, overlays; all its properties proved | done |
| 6 | `QueryCache`, `QueryCacheProofs` | hooks, fetches, events, reconnection; its safety proved | done |
| 7 | `Autopilot` | triggers claimed by setting `next_run_at` to NULL, the schedule's recovery at a server start, runs and the issues or tasks they make | next |
| 8 | `LocalSkillRequests`, `RequestHandoff`, `LocalSkillProofs` | the Redis stores with their two deadlines against late answers, reports and imports; abstract: a request offered and taken once; its safety and the refinement proved. The update and model list stores are the same protocol in one process | done |
| 9 | `DaemonTask`, `RuntimeLiveness` | the daemon's slots and its watch for `cancelled`; register, merge, heartbeat | later |
| 10 | `IssueHandlers`, `ChatResume`, `RealtimeDelivery` | assignee, backlog, deletion and batch; the resume pointer and late pins; local fan-out, Redis loopback, 128 remembered ids | later |

Every safety property that a run checks is now a theorem; only liveness is left to TLC (section 5).
Worth proving next: what the daemon manager keeps of its user when acts overlap but no guarded
operation is under way (a weaker assumption than `Patient`), then the safety of the new modules.

## 3. The models

### TaskQueue: grain of atomicity

One action is one SQL statement, or one transaction where the code opens one,
together with what the goroutine does in memory before its next statement. A
goroutine is a member of `Handlers` (an HTTP request) or `Sweepers` (the ticker
of `runRuntimeSweeper`), `loc[w]` holds its local variables and `loc[w].pc` names
the statement it runs next. All the others may run in between. With one
goroutine requests do not overlap, which is how a single user
with a single daemon mostly sees the system.

A statement under PostgreSQL's READ COMMITTED, the server's isolation level, is
atomic except for one: `ClaimAgentTask`
(`pkg/db/queries/agent.sql:122`) is an `UPDATE` whose subquery selects
`FOR UPDATE SKIP LOCKED`. The subquery, with its `NOT EXISTS` over other rows,
runs on the snapshot taken when the statement starts. Locking a row that
another transaction changed in between makes PostgreSQL evaluate the condition
again for the new version of *that* row, but still with the snapshot's view of
all others. Hence three actions: `ClaimSnapshot` (the candidates), then
`ClaimCommit` (one of them that is still queued) or `ClaimMiss` (none is, or
another claim holds their locks).

### TaskQueue: correspondence

| code | model |
|---|---|
| `agent_task_queue.status`, the lifetime-constant columns, `failure_reason` | `status`, `row`, `reason` |
| `agent.status`, `archived_at`, `runtime_id` | `agentStatus`, `archived`, `agentRuntime` |
| `agent_runtime.status` | `online` |
| `issue.status` (`done` stands for every status but `todo`, `in_progress`, `cancelled`) | `issueStatus` |
| the daemon's memory of its tasks | `held`, `down`, `recovering` |
| `EnqueueTaskForIssue`, `EnqueueTaskForMention`, `EnqueueChatTask`, autopilot's insert | `EnqueueBegin`, `InsertRow`, `InsertConflict` |
| `UpdateIssue` with an assignee | `Assign`, `CancelTasksForIssue`, reconcile, `EnqueueAfterCancel`, insert |
| `UpdateIssue` with a status | `UpdateIssueStatus` (and the cancellation for `cancelled`) |
| `RerunIssue`, `CancelTask` | `RerunIssue`, `CancelTask` |
| `ArchiveAgent`, `RestoreAgent`, `UpdateAgent` with a runtime or a status | `Archive` and `ArchiveCancel`, `Restore`, `UpdateAgent` |
| `ClaimTaskForRuntime` and `ClaimTask` | `ClaimBegin`, `ClaimCount`, `ClaimSnapshot`, `ClaimCommit`, `ClaimMiss`, `ClaimStatus` |
| `StartTask`, `CompleteTask`, `FailTask` | the same names |
| `sweepStaleRuntimes`, `sweepStaleTasks` | `SweepRuntimes` and `SweepOffline`, `SweepTasks` |
| `RecoverOrphanedTasks` | `RecoverOrphans` |
| `HandleFailedTasks`, `MaybeRetryFailedTask` | `HandleRetry`, `HandleCheck`, `HandleReset`, then reconcile |
| `ReconcileAgentStatus` | `ReconcileCount`, `ReconcileWrite` |
| heartbeat, daemon stop and start, a failed recover-orphans call, a server restart | `Heartbeat`, `DaemonStop`, `DaemonStart`, `RecoverLost`, `ServerRestart` |
| `idx_one_pending_task_per_issue_agent` (migration 037) | `IndexConflict` |

Abstractions: a task's number is its order of creation; the order in which
eligible rows and agents are tried is free, because priorities are chosen by
users; every age and timeout is a free choice (a runtime may be found silent, a
task found stale, at any tick), so no property depends on the length of a
timeout. A daemon's late report is a call about a task in `held` whose row has
moved on; the statement then matches no row and nothing changes, so it needs no
action of its own. `GetIssue` and `HasActiveTaskForIssue` are one action, the
write that follows them is another: a change between two reads is no different
from one before both or one after both for the properties stated here.
`UpdateAgent` writes `agent.status` as the request has it (`handler/agent.go:581`,
`multica agent update --status`), whatever the agent is doing. `StatusEdits` bounds
what requests say ("idle" stands for every status but `working`), and the history
variable `byHand` keeps the agents whose status was last changed that way.

### IssueLanes, and why it matters

Nothing in the code says what a whole lane, an (agent, issue) pair, does.
`IssueLanes` says it in four actions: one waiting place (`queued` or
`dispatched`), one working place, a dispatch only when nothing works, the
waiting place free again when the task starts, and tasks that end at any time. So
a comment written while the agent works waits as exactly one follow-up task, and is
picked up after the current one. `TaskQueue` implements it under the mapping
`laneWaiting`, `laneWorking` (property `LaneSpec`): most of the queue's
statements map to a stutter or to `End`, an insert to `Enqueue`, `ClaimCommit` to
`Dispatch`, `StartTask` to `Start`.

### DesktopDaemon

The renderer's acts call the main process over IPC and wait for none of the
others; each call is a chain of asynchronous steps. `call[c].todo` is the list of
steps a chain still has to run, one action is one step between two `await`s, and
all chains interleave. A step may put further steps before the rest
(`ChooseToken` adds `mint`), start a chain of its own (`Switched`, the `void
restartDaemon()`) or end its chain (`TakeGuard` when refused, `Mint` when it throws).

| code | model |
|---|---|
| `config.json`'s token, `.desktop-user-id` | `token`, `sidecar` |
| `syncToken`, `mintPat` | `ReadConfig`, `ReadUserId`, `ChooseToken`, `Mint`, `WriteConfig`, `WriteUserId`, `Switched` |
| `clearToken` | `ClearRead`, `ClearWrite`, `ClearUserId` |
| `withGuard` | `TakeGuard`, `Release` |
| `startDaemon`, `stopDaemon`, `restartDaemon` and the commands `daemon start`, `daemon stop` | `StartDaemon`, `StartExec`, `StartWait`, `StopDaemon`, `StopExec`, the chain `RestartDaemon` |
| `daemon:auto-start`, `ensureRunningDaemonVersionMatches` | `AutoStart`, `CheckVersion` |
| `bootstrapCli`, `pollOnce` | `Bootstrap`, `PollBegin`, `PollEnd` |
| the Go process | `BootReadsToken`, `BootEnds`, `TaskBegins`, `TaskEnds` |
| the effects of `App.tsx`, the panel's buttons, quitting | `Login`, `Logout`, `PressStart`, `PressStop`, `RestartForWorkspace`, `RetryInstall`, `AppRestart` |

A logout runs `handleDaemonLogout` twice, because the navigation to `/login`
that follows it logs out again. One config object is one token: the other keys
of the file, the profile by server URL and the preferences (their
defaults hold) are left out.

### DesktopTabs

State is per workspace a group, per tab what the store keeps, its memory router
and the counters of `useTabRouterSync`. Actions are what the user, a late page or
the workspace list does, with the React effects that follow in the same commit:
`SyncVisible` (a tab that becomes visible copies its router's path) and the reset
of the counters of tabs that mount (`Store`). A page that pushes late, because its
tab has been hidden, closed or dropped when its answer arrives, closes the overlay
like any other push and asks for no list of workspaces: if its workspace is not the active one it is
`Navigate`, which may name a workspace the list does not have; if it is, `LatePush`
moves the router of a hidden tab, where Activity has unmounted the effect that
would count, or that of a tab that is gone, which shows nowhere. `AutoHeal` is the effect of
`WorkspaceRouteLayout` that drops the group of a slug the list does not have.
`unseen` remembers, for the properties only, which tabs moved while hidden, and `astray` that a push has named such a slug.
Tabs are a set: they can be dragged into any order, so "the first" is any of them.

### QueryCache

The module follows one cached query, whichever of `Keys`. Its data is the set of
writes it shows, the server's truth the set of writes committed; two writes
touch different rows or fields, so showing one is adding it. An event with a whole row is different: it puts back
what the row was at its own commit. `row` holds the writes to one row that events carry whole, and `RowOf` and `EventOf` say which writes an
event speaks for and which of them it shows; `bare` are the writes of labels, which the row in `issue:updated` lacks. Each of the 76 mutation hooks of `packages/core` that
touch a query (all but `useCreateFeedback`) is a record that says which queries its call changes on the server, which it
cancels, patches, drops, seeds and invalidates, and which event the server
publishes for it; `refreshMap`, `specificEvents` and `onReconnect` say what the
client does with events. `On` projects a hook to the query that is followed. `Elsewhere` is what the server and other
people write without a hook; `resetStuckIssue` is the reset of an issue by `HandleFailedTasks`, which publishes no event of the issue.

| code | model |
|---|---|
| `onMutate`; `mutationFn` at the server; `onSuccess` and `onError` with `onSettled` | `Mutate`; `Commit`; `Succeed`, `Fail` |
| `invalidateQueries`, `cancelQueries`, `setQueryData` | `Invalidate`, `Cancelled`, `Set`, `Patched` |
| a view's `useQuery`, `gcTime` | `Mount`, `Unmount`, `Collect` |
| `initialData` of an issue and its parent (`issue-detail.tsx:218`, `:299`) | `MountSeeded` |
| somebody else's call; a handler that publishes after its statements | `OthersWrite`; `Committed`, `Publish` |
| a fetch: the server reads, the answer arrives, it fails twice | `Read`, `Deliver`, `FetchFails` |
| `onmessage`, the handlers of an open issue, `debouncedRefresh` | `HandleEvent`, `PatchedToo`, `TimerFires` |
| `onAuthenticated`, `onclose`, `disconnect`, the effect of `WSProvider` | `Connect`, `Drop`, `SwitchAway`, `SwitchBack` |

The query library is external. What is relied on of it: `setQueryData` clears the
mark of an invalidation; `invalidateQueries` marks and, for a mounted query,
starts over a request under way if there is data and joins it if there is
none; a cancelled request restores the entry as it was when the request began.
A commit and its publication are two steps: handlers run other queries in between, so the events of two requests may be
published in either order. What a seeded detail shows is free: the list may show patches of this client's
calls that are out and lack what the client has heard of. `told` is what the client has heard of. `gaps` is a history variable: it names the ways in which the code is known to let
an entry be stale (section 4, known limits), so that `FreshWhenQuiet` says that
there is no other way.

### LocalSkillRequests

A server cannot call a daemon. A browser that wants to see the skills installed on
a runtime's machine, or to import one, creates a record in Redis and polls it; the
daemon's next heartbeat claims the oldest record; the daemon works and reports; the
report settles the record and, for an import, creates the skill in PostgreSQL. The
server is stateless, so each of these calls may reach another node.

One action is one Redis command, one Lua script or one transaction of PostgreSQL.
`loc[w]` is a goroutine of a node: the call it serves (`op`: a poll, a heartbeat's pop, a report,
and the `complete` or `fail` in which a report ends), the command it runs next, and what
it has loaded. `Kind` selects the store of listings or that of imports, which share
their code but for what they keep of `RunStartedAt`.

| code | model |
|---|---|
| the record, its TTL and times; the sorted set | `rec`, `clock`; `pending`, `score` |
| `Create`; `loadListRequest`, `loadImportRequest` | `Initiate`; `Load`, `PersistTimeout`, `UnlinkTimedOut` |
| `applyLocalSkillListTimeout`, `applyLocalSkillImportTimeout` | `TimedOut` |
| `resolveRuntimeLocalSkills`, `resolveRuntimeLocalSkillImport` | `Poll`, `Answer`, `StopPolling` |
| `HasPending` and `PopPending` in `DaemonHeartbeat` | `Heartbeat`, `Peek`, `Load`, `Drop`, `Claim` |
| `heartbeatLoop`, `reportLocalSkillResultWithRetry` | `Deliver`, `Report`, `Retried` |
| `ReportLocalSkillListResult`, `ReportLocalSkillImportResult` | `Load`, `Ignore`, `Accept`, `Load` again, `Persist`, `Rollback` |
| `createSkillWithFiles` | the third and fourth case of `Accept`, `DatabaseFails` |
| an error of Redis, of an unchecked `ZREM`, of PostgreSQL | `RedisFails`, `UnlinkFails`, `DatabaseFails` |
| the daemon's 30-second client timeout, a cancelled request context or a node that stops, a daemon that stops | `ClientGivesUp`, `Cut`, `DaemonStops` |

A command that fails was not executed unless `Unsure` holds: then Redis may have executed it
and only its answer is lost. Time is counted in ticks of 30 seconds, the browser's patience and
the pending timeout; the running timeout is two of them. The retention is three in the runs
and four in the code (2 minutes); all that matters is that it outlasts both timeouts, which is the
assumption the module states.

`RequestHandoff` is what the store promises of a request, without commands, clocks and goroutines:
it is offered once, taken at most once and only while it is on offer; the offer of one that is not settled is never
withdrawn; every other write settles it. The mapping: `life` is the record's status (a record that
is gone was settled), the offers are the members of the sorted set, and taken is what was claimed. One thing
it must allow is that a request settled by its timeout is still taken, once ("A timeout is not
final", known limits). `HandoffSpec` is checked in run `import` and proved.

The check that the runtime is online when a request is made, the TTL of the sorted set (it is
renewed by each creation and outlasts its members), the deletion of skills by users, and the
event published after an import are left out. All imports are for one name, so that any two of
them collide, and body and files of a skill are one write of one transaction.

## 4. Runs

Distinct states are those of the complete graph. The runs of the queue use module
`MCTaskQueue`, the others `DesktopDaemon`, `MCDesktopTabs`, `MCQueryCache` and, from
`import` on, `LocalSkillRequests`.

| run | properties | instance | states |
|---|---|---|---|
| lane | `TypeOK`, `IssueSerial`, `ClaimedOnce`, `RetryLineage`, `RetryOwed`, `LaneSpec`, `FinishedForGood` | 1 agent of capacity 1, an issue and an autopilot run, 2 goroutines that are handler and sweeper, 3 tasks, 2 attempts, one stop of the server | 1.1 M |
| sequential | `StatusSettled`, `ChatSerial`, `ResetOnlyStuck` | one goroutine, an issue and a chat, 3 tasks, retries, users move the issue and set the agent's status, one stop of the daemon with its recovery | 2.1 M |
| archive | `ArchivedQuiet`, `InFlightEnds` | one goroutine, archive and restore, two runtimes and an agent that moves between them; fairness `Progress` and `Sweeping` | 0.36 M |
| retry | `RetryHappens` | one handler and one sweeper that overlap, 4 tasks, 2 attempts; fairness `Progress` | 0.19 M |
| capacity | `OvercommitBound` | two goroutines, a chat and an autopilot run, three tasks for an agent of capacity 1 | 2.1 M |
| v_chat | `ChatSerial` is violated | two goroutines, one chat | |
| desktop | `TypeOK`, `DaemonIsUsers`, `SidecarTruthful`, `LoggedOutClean`, `LoginRuns`, `VersionCatchesUp`, `ShownSettles` | 2 users, 3 chains, 3 acts of a patient user, one failure of any kind (mint, kill, boot, slow start, no binary, a quit in the middle of something), one task, a daemon left by the last session, old or new | 0.27 M |
| v_logout | `DaemonIsUsers` is violated | 2 users, 3 acts that need not wait, no failure | |
| tabs | `TypeOK`, `GroupsSound`, `NeverStranded`, `BackIsHonest`, `PushLands` | 2 workspaces, 2 pages, 2 tabs, histories of 2, late pages push | 0.55 M |
| cache | `TypeOK`, `FreshWhenQuiet`, `NoPhantom`, `NeverWaits` | the queries `issue` and `subscribers`, all hooks, 2 writes by anyone, 2 failures (of fetches, calls or sockets) or visits elsewhere | 7.5 M |
| import | `TypeOK`, `HandedOnce`, `NotStranded`, `AckSettles`, `CompletedExists`, `RunningTimesOut`, `HandoffSpec` | one import, two goroutines, two attempts to report, three faults of any kind | 0.97 M |
| queue | `AckSettles`, `QueueDrains` | two listings, one goroutine, one fault, failed commands may be executed | 0.66 M |

**Why these bounds are enough.** The interesting steps need at most two
goroutines (a stale reader and a writer), a lane with one task of each kind
(working, waiting, and the one that is inserted) and one retry beyond the budget
(a chain of two attempts with room for a third row). In `lane` an agent of capacity 1 is given two
tasks of one issue only by claims that overlap, which is the case the check of the lane is for. In `capacity`
a third task waits beyond the two that two overlapping claims may take; the limit is a constant, so the bound is for an agent whose limit nobody edits meanwhile. In `sequential` three tasks are one that works,
one that waits and a retry or the other subject's; requests set the agent's status to either value at any time. In `archive` one goroutine means that what overlaps
with an archiving is only the daemon and the runtimes. A stop of the daemon beside two goroutines
was checked once with the safety properties of `lane` (5.9 M states, four minutes). Two different runtimes are needed
only where a row's runtime may differ from the agent's. The bounds on requests,
stops and crashes (`MaxEnqueues`, `MaxStops`, `MaxCrashes`) keep the graph finite; each
admits the event at any point of the behaviour. Goroutines are symmetric in the
safety runs; the runs with temporal properties use no symmetry. Deadlock is
checked in all runs of the queue: users may always change something or the goroutine goes on.
The theorems then remove the bounds for the properties they cover.

In `desktop` the acts of the user come when the app is quiet (`Patient`): a chain then
overlaps with its own detached restart, with polls, deferred version checks and the
daemon, and two chains of one logout overlap. The app may quit at any time: while it is quiet that is
an act, otherwise it is one of the failures, and the chains end where they are. The invariants were also
checked once with two failures (0.86 M states). Without patience the guard loses a
logout (`v_logout`) and the properties fail. Three acts are a login as one
user, a logout and a login as the other, or two logins with a restart or a quit;
a fourth chain never exists at once. In `tabs` two workspaces, two pages and two
tabs give a tab that is visible, one that is hidden or of the other workspace, a
path that is found and one that is not; a history of two has an end on each side. Late pages push in the run (`LateMoves`);
that they also replace is left to the theorems, which hold for both.
In `cache` two writes give every pair of calls or a call and somebody else's
write, with failures of both and their events in either order; `issue` is seeded from a list, replaced by events and patched by hooks, `subscribers` is
invalidated and patched by two handlers of one event and may begin from nothing. The other kinds of query
the code has, refreshed by debounced events (`labels`) or by direct ones with optimistic hooks (`inbox`),
take the same steps; the safety properties were also checked once over all queries (`AllKeys`, one failure, 10.1 M states), and the theorems hold for any. In `import` two goroutines are a poll or a heartbeat beside a report, or two
heartbeats, or a report beside its own retry; three faults are, for instance, an answer that is late, a
failed completion and a failed rollback. A second import of the same name does not fit into five
minutes with two goroutines; that a name is taken also happens with one import, whose retry
meets the skill of its first attempt. In `queue` the member at the head is expired, timed out or
claimed while the second is pending, and a pop has two turns, so that one which spends them all on dead members is rare: that `PopPending` gives up is modelled, that its five turns are enough is not the property. `cache`, the daemon runs and those of local skills do not
check deadlock: a client with its bounds used up and nothing under way, or a runtime
whose records are all gone, has nothing left to do.

**Fairness.** `Progress` is weak fairness of each goroutine's next statement: a
goroutine that has begun a request runs on unless the server stops (the runs of
liveness have no server stop). `Sweeping` is strong fairness, for each task, of a
sweep that includes it: `runRuntimeSweeper` ticks for as long as the server runs,
a task in flight passes the age limit of `FailStaleTasks` once and stays past it,
and between two ticks the sweeper's goroutine may be busy, hence strong. Nothing
is assumed of daemons and users. In `desktop` promises settle and the event
loop runs on (weak fairness of a step of some chain, for as long as one can go on; which one is not promised), the poll timer ticks, a booting daemon comes up or gives up, and tasks end. In `queue` a goroutine that serves a call goes on, unless it fails or is cut, both bounded by
`MaxFaults`; and heartbeats are strongly fair, because the daemon beats every 15 seconds and the
server starts a goroutine for each: that the model's few goroutines may be busy is not the code's doing.
Users act only as they please. Nothing is assumed of the cache, whose properties are safety.

**What the properties say beyond the code's comments.**

- `IssueSerial` holds although the claim's check is stale when it commits. The
  reason is the unique index: while a candidate of the snapshot is still queued
  no other row of its lane can be pending, so none can become in flight after
  the snapshot. Chats have no index, and there the same statement fails (`v_chat`).
- `OvercommitBound`: the capacity check is a separate statement, so it promises
  `max_concurrent_tasks` plus one for each other concurrent claim, and no more.
- `RetryHappens` is not "its retry exists": the index may refuse the retry
  because a newer request waits in the same lane, which then does the work.
- `RetryOwed` is its safety half, for concurrent goroutines of every kind: the list of failed rows lives in
  memory only, between the statement that failed them and the inserts of their retries, and no step in between
  but a stop of the server loses an entry (known limits).
- `InFlightEnds` covers answers that were lost and rows dispatched for a
  runtime that does not ask for them any more after an agent moved.
- `LoginRuns`: a login whose chain has come to its auto-start ends with a running daemon of the user, or one
  of the failures has hit; the polls, version checks and detached restarts beside it do not undo each other for ever.
- `DaemonIsUsers` covers the last chain to come: the detached restart after a
  change of user, a version restart that was put off, the restart for a first
  workspace and the auto-start all end with the same daemon.
- `SidecarTruthful`: the sidecar decides whether a cached token is reused. It tells the truth whichever
  single step fails. A quit between the write of the token and the write of its owner makes it lie,
  until the next start of the app runs the same login again and writes it; only if that start cannot
  mint a token does the lie stay, which is the one case excluded.
- `BackIsHonest` compares the store's copy with the router although the counters
  behind the copy start over whenever a workspace is shown again. The copy may
  then be too small (a button that is disabled too early) but never too large.
- `NoPhantom` holds although two overlapping calls roll back to snapshots that
  contain each other's patches: what saves the entry is that the last
  `onSettled` to come invalidates it. A hook without `onSettled` breaks it, and so does a detail seeded from a patched list.
- `FreshWhenQuiet` lets commits and their events come in different orders: a row that is older than what is shown does no lasting harm if the
  newer row's event is still to come, which is so unless that one came first.
- `NeverWaits`: `cancelQueries` in `onMutate` may cancel a first load, which nothing but the later invalidation starts
  again. In no state, however short, does a mounted query lack unmarked data without a request, or an `onSettled` that
  will start one, unless its last request failed.
- `HandoffSpec` says in one formula what no late answer, repeated report, failed command or expired deadline may do to a
  request: offer it again, withdraw the offer of one that still waits, or give it to two daemons.
- `NotStranded` is why a failed command is harmless: the claim removes the member and writes
  the record in one script, a timeout writes the record before it unlinks, and so a goroutine that
  stops anywhere in between leaves at worst a member whose record is settled, which the next heartbeat drops.
- `AckSettles` is about reports that meet a timeout: the first load of a report finds the record
  running, the second finds the deadline passed, writes `timeout`, and `Complete` overwrites it
  with `completed`. The daemon is told 200 only after one of the two.
- `CompletedExists` holds for a Redis whose errors mean that nothing was done; it does not hold otherwise (known limits).

### Findings

Two runs show a sentence of the repository that the code does not keep.

1. `v_chat`. The comment of `ClaimAgentTask` says chat tasks use the session for
   serialization. Two concurrent claims for the agent (two runtimes' polls, two
   server nodes, a poll retried while the first is served) both see two queued
   rows of the session and no task in flight, lock different rows and both
   commit: two tasks of one conversation run at once.
2. `v_logout`. A logout stops the daemon through `withGuard`, which refuses while a
   start or restart is under way, and nobody looks at the refusal: the daemon
   comes up with the credentials of the user who left. `clearToken` removes
   the sidecar, so the next user's `syncToken` sees no change of user and does not
   restart it either. `App.tsx:185` says a subsequent login never inherits the
   previous user's credentials.

### Known limits

These follow from the models too, without a run of their own.

Queue:

- *Agent status.* A request that sets the status (`handler/agent.go:581`) is believed, so `StatusSettled` is about the other
  agents: one that works is shown idle, or an idle one working, until its next claim or reconciliation. With two goroutines it fails without such a request: A counts no task in flight, B claims one
  and writes `working`, A writes `idle`, or the other way round with a completion. Nobody
  writes again until the agent's next event, the state `task.go:148` describes as repaired.
  Without overlap it fails too when the server stops between a change of a task and the reconciliation, and when an agent
  is archived: `ArchiveAgent` cancels its tasks and reconciles nothing. A stop between the flag and that
  cancellation leaves an archived agent with tasks (`ArchivedQuiet`).
- *Recovery of orphans.* `syncWorkspacesFromAPI` publishes a runtime to the poll loop
  before it calls recover-orphans for it. A task claimed in between is failed
  with `runtime_recovery` while its new process runs it, and is retried beside it.
- *Rollback of the issue.* `apps/docs/content/docs/tasks.mdx:93` promises that the issue of
  a failed task goes back to `todo`. Only failures found by a sweep or by
  recover-orphans do that; `FailTask`, the way of every failure the daemon
  reports, leaves the issue `in_progress`, although the comment of
  `HandleFailedTasks` (`task.go:689`) says it funnels through it.
- With two handlers `ResetOnlyStuck` (the issue got a task or was moved between
  check and write) and `ArchivedQuiet` (an enqueue that read the agent before the
  flag was set inserts after the cancellation) fail too. The bound of `OvercommitBound` is
  reached: two claims do exceed `max_concurrent_tasks`, which the comment of
  `ClaimTask` (`task.go:190`) says they respect. A request that lowers `max_concurrent_tasks` (`handler/agent.go:583`, not
  modelled) ends no task, and leaves as many in flight above the new limit.
- With `MaxCrashes = 1` `RetryHappens` fails, and `RetryOwed` says nothing after a crash: a server that stops between failing
  a row and retrying it never looks at the row again.
- No sweep looks at `queued` rows. `apps/docs/content/docs/assigning-issues.mdx:54`
  says a task of an offline agent fails after 5 minutes; it waits as long as
  the runtime is away.

Daemon manager: a failed mint or stop leaves the old daemon running until the next
act; the version restart may kill a task claimed after its check of `active_task_count`. A quit
in the middle of a chain is not always made good:

- between the two writes of `syncToken` for a new user, when the next start cannot mint: the sidecar goes on
  naming the old user beside the new user's token, and the old user's next login reuses that token
  (`SidecarTruthful` without its second conjunct);
- after the writes and before the detached restart: the next start sees no change of user, and the daemon runs
  on with the old user's credentials (`DaemonIsUsers` without `"quit"`). `daemon-manager.ts:536` calls
  this restart the critical path;
- in the middle of a logout: the token, the sidecar or the daemon is left, and a start of the app with nobody
  logged in clears none of them (`LoggedOutClean` without `"quit"`).

Local skills:

- *The clean slate.* `runtime_local_skills.go:684` rolls a created skill back when `Complete` fails, "so
  the retry lands on a clean slate". The rollback uses the request's context. If that context is the reason for
  the failure (the daemon's client gave up) or the node stops between the two writes, the skill
  stays, and the retry meets its name and settles the import as failed: "a skill with this name already exists".
- *An error is not a no.* With `Unsure = TRUE` the run `import` violates `CompletedExists`: Redis executes the
  completion, its answer is lost, the skill is deleted. The record says `completed`, the retry is ignored as
  stale, and the browser shows a skill that is gone.
- *A claimed listing has no deadline.* With `Kind = "list"` the run `import` violates `RunningTimesOut`. The store of
  listings marshals the request itself, in which `RunStartedAt` is tagged `json:"-"`; only imports have an
  envelope that keeps it. A listing that was claimed and never reported stays `running` until its TTL, although
  `runtime_local_skills.go:62` says a request is timed out past the running threshold. The unit tests of the
  deadline use the store in memory, which keeps the field.
- *A timeout is not final.* `runtime_local_skills_redis_store_test.go:210` says a timed-out request is not
  popped. A poll writes the timeout and unlinks the member by two commands; a heartbeat that has loaded the record
  just before the deadline claims it in between, and `running` overwrites `timeout`. The browser has
  already shown an error; the import goes on and creates the skill.

Tabs: a link inside a text may name another workspace; `openTab` puts its path into the group of
the active one, although `tab-store.ts:45` calls such a leak impossible by construction, and
the next start of the app drops the tab (`merge`). A page in a hidden tab that navigates truncates a history that nobody
counts (`unseen`), and one of a workspace that was left switches the window back to
it; if the list does not have this workspace any more, `NeverStranded` says nothing until a list arrives or, while there are
other workspaces, until the auto-heal has shown one of them (`astray`). Without other workspaces the window goes blank: a user's last
workspace is removed while a page of it waits for an answer (`autopilot-detail-page.tsx:320` pushes after one), its group is
dropped and the overlay for a new workspace opens; the late push closes the overlay (`navigation.tsx:77`) and makes a group
for the workspace that is gone (`navigation.tsx:91-98`); the new layout does not find the workspace and drops the group
(`workspace-route-layout.tsx:68-76`). The effect that opens the overlay (`App.tsx:105-116`) runs when the list changes only,
so nothing is shown until then, although `workspace-route-layout.tsx:28` says that a different workspace is rendered "or the
WindowOverlay takes over (zero valid workspaces)". A navigation
matches the store's copies of paths: if a tab hidden in the target workspace has moved, its
copy is stale and the navigation ends where that tab has gone to, which `PushLands` leaves out. A
refused leave of the last workspace leaves its tab at `/`.

Cache: the gaps of `FreshWhenQuiet`.

- `lost`, an answer that was read before a write and arrives after the write's patch or event. A
  call cancels and refetches; an event's patch does neither, and a first load is joined, not restarted.
- `lost`, an older row. `UpdateIssue` commits (`handler/issue.go:1397`), runs other queries and publishes the row it read at
  its commit (`:1424`); two requests may publish in the other order, and `ws-updaters.ts:50` puts the older row in place
  of the newer. The response it publishes has no labels, and `labels` is `null` rather than left out (`issue.go:46`): each such event erases the
  labels that are shown. The task service's events (`issueToMap`) do not touch them.
- `lost`, a write that reaches a query although its event refreshes it on no other client (a hook's `unheard`) and not even on the writer's
  (`lost`): completing or deleting a cycle and deleting a team, project or
  milestone leave issues as they were; deleting a pinned issue leaves the pin; replies, links and issues
  from a ticket leave the list of tickets; tickets, clients and SLA policies have no events, nor have
  creating and archiving chat sessions; `useSetIssueLabels` is published as `{id, labels}` while the handler
  wants `{issue}`; team-filtered lists are patched by no event; `teamKeys.members` is not under `teamKeys.all`. The server writes silently
  too: `HandleFailedTasks` resets an issue (`service/task.go:733`) and publishes `task:failed`, which
  `use-realtime-sync.ts:483` ignores for tasks of issues; an issue shows the name of its parent and milestone, and renaming these is no event of it.
- `missed`: events while the socket was not up, or while another workspace
  was shown (the new socket client counts as never connected, so its first
  connection refetches nothing). `use-realtime-sync.ts:536` says that a reconnection refetches all data; its
  handler names nine families of queries, and labels, pins, teams, cycles, milestones, the dashboard, chat
  sessions and the timelines of unmounted issues are not among them.
- `unmarked`: an event's `setQueryData` clears the mark of an unmounted query.
- `seeded`: `initialData` fills an issue's detail, or its parent's, from the list, after which it counts as fresh and nothing
  is fetched. The list may show a patch that its own rollback takes back, and only there: `useBatchUpdateIssues` patches the lists
  (`mutations.ts:321`) and its `onSettled` (`:348`) does not name the detail. It may lack what the client has heard of, or what the list's
  endpoint leaves out: `issue-detail.tsx:216` says that only an issue with a description is seeded, and does not do so for the parent (`:299`).
- Not in the model: `UpdateIssue` reads the issue's nullable columns by one statement and writes them back by another, so that of two
  overlapping requests one may undo the other on the server.
- Outside the instance: `useReorderPins` has no `onSettled`; it breaks the assumption
  `HooksSettle` and with it `NoPhantom`.

## 5. Proofs

### The queue

`TaskQueueProofs` and `LaneRefinement` assume only what `TaskQueue` assumes of its
constants: bounds are natural numbers, `max_attempts` is positive, a chat
session has an agent, subjects of different kinds and `None` are different, and
the goroutines are finitely many, with at least one handler of requests among them (the last two are
needed to count them). TLC evaluates these assumptions in every run.

| theorem | statement | checked by run |
|---|---|---|
| `TypeCorrect` | `Spec => []TypeOK` | lane |
| `SerialPerIssue` | `Spec => []IssueSerial` | lane |
| `FinishedStays` | `Spec => FinishedForGood` | lane |
| `RefinesLanes` | `Spec => LaneSpec` | lane |
| `WaitsWhileWorking` | `Spec => []Lane!OneAtATime` | through `LaneSpec` |
| `HandedOutOnce` | `Spec => []ClaimedOnce` | lane |
| `RetriedOnce` | `Spec => []RetryLineage` | lane |
| `RetriesRemembered` | `Spec => []RetryOwed` | lane |
| `CapacityExceededLittle` | `Spec => []OvercommitBound` | capacity |
| `ChatsTakeTurns` | `Spec => []ChatSerial`, if `NoOverlap` | sequential |
| `OnlyStuckReset` | `Spec => ResetOnlyStuck`, if `NoOverlap` | sequential |
| `ArchivedStaysQuiet` | `Spec => []ArchivedQuiet`, if `NoOverlap` and `MaxCrashes = 0` | archive |
| `StatusStaysSettled` | `Spec => []StatusSettled`, if `NoOverlap`, `MaxCrashes = 0` and `Archivable = {}` | sequential |

**The inductive invariant** is `Locals /\ Lanes`.

- `Locals` gives the columns and the goroutines' variables their types, says that a
  row which exists has an agent, a subject and a runtime, and, per `pc`, which local
  variables are set. `TypeOK` alone is not inductive: an insert needs to know that
  the agent it read is an agent, a retry that its row exists and that its attempt is
  below the budget.
- `Lanes` is `PendingUnique /\ IssueSerial /\ SnapshotOK`. `PendingUnique` is the
  index: two rows of one (agent, issue) pair are not both pending. `SnapshotOK`
  is what a stale snapshot still guarantees: if a candidate in `loc[w].rows`
  is still queued, no other row of its lane is in flight. It is the step from the
  index to `IssueSerial`: `ClaimCommit` dispatches a row of an old
  snapshot, and `SnapshotOK` says the snapshot's answer is still right. It is
  preserved because a row enters flight only from pending, and while the
  candidate is queued `PendingUnique` leaves no other pending row in the lane.

The steps of the specification are first sorted into four kinds of change to the
table (keeping or ending rows, starting one, creating one, claiming one; lemma
`TableStep`), and each kind is shown to preserve `Lanes` once. `LaneRefinement`
uses the same four kinds: the first maps to `End` or a stutter, the others to
`Start`, `Enqueue` (or a stutter, for a row that is not for an issue) and
`Dispatch`.

**Concurrent requests** (`ClaimProofs`). Each property says that the table and the local variables of all
goroutines agree, so lemma `GoroutineStep` first sorts the steps by what they give to a goroutine: failed
rows to handle, an addition to make, a place counted, a row committed, an answer. On top of `Locals`:

- `ClaimsInv` for `ClaimedOnce`: a row in the hands of a daemon, or of the goroutine that claimed it and
  has not answered yet, has left the queue for good, and no two of these hands hold the same row. `ClaimedOnce` speaks
  only of the moment of the claim and is silent on the rows in between.
- `FailedRowsInv` for `RetryLineage`: the rows that `HandleFailedTasks` has still to look at have failed
  for a retryable reason, have no retry, and are in no other goroutine's list. The last is what
  `RETURNING` promises: a row is returned by the one statement that failed it.
- `RetryOwed` is inductive beside `Locals`, `FailedRowsInv` and `InOrder`: rows are created in order, and a row with a later one of
  its agent and issue behind it is not pending. Lemma `RememberStep` sorts the steps: each keeps every failed row on the list it is on and
  puts it on one if it fails it for an infrastructure reason, but for a stop of the server and for `HandleRetry`, which takes a row off because its
  retry was inserted or refused. A refusal comes from a pending row of the same lane, and `InOrder` with `FailedRowsInv` says that this row is
  a later one.
- `CapacityInv` for `OvercommitBound`. The bound on the tasks in flight is not inductive, because a claim that has
  passed the capacity check adds its task later. What is bounded is the sum of both, `Load(a)`: a claim passes the
  check only when there is a free place, so that it brings the sum to the bound at most, and committing moves one unit from the
  second term to the first.

**Requests that do not overlap** (`SequentialProofs`). The theorems assume `NoOverlap`, one goroutine, as
the run `sequential` does; daemons, their runtimes and (for the first two) a stop of the server still come between its statements.
Each hypothesis is needed: TLC finds a counterexample to each of the four properties when any hypothesis of
its theorem is dropped (known limits). The inductive invariants say what the request under way
is still to do: `ChatSnapshotOK`, that a claim's candidates are still of idle chats; `StuckInv`, that nothing has happened to
the issue since it was found stuck; `ArchivedInv`, that an archived agent has tasks only until the second half
of its archiving and that no request is about to insert one or retry one for it; `StatusInv`, that the status is
right for every agent the request does not still owe a reconciliation (`Owed`) and whose status nobody has set by hand since the server
wrote it (`byHand`), and that the value it is about to write is right.

### Daemon manager

`DesktopDaemonProofs` proves, for any number of users, chains, acts, tasks and failures,

| theorem | statement |
|---|---|
| `DesktopTyped` | `Spec => []TypeOK` |
| `CachedTokenIsTheirs` | `Spec => []SidecarTruthful`, if `Patient` |
| `LogoutLeavesNothing` | `Spec => []LoggedOutClean`, if `Patient` |
| `NoStrangersDaemon` | `Spec => []DaemonIsUsers`, if `Patient` |

`Patient` is what run `v_logout` shows to be needed: without it the guard loses a logout. The chains are
sequences of steps, and the lemmas about them (`HeadsTell`, `OutTell`, `HoldingTail`, `Goes`) say what the proofs need of
these sequences: the step at the head of a chain tells what is left of it, and a chain past the guard
keeps its `release` to the end. Three invariants build on each other.

- `Typed` is `TypeOK` with the chains' records.
- `FilesInv` says whose chains there are: with a user, the one chain of a login or chains that work on the daemon
  (`LoggedIn`); with nobody, chains of a logout (`LoggedOut`). What a login's chain has read is still what the
  files say (`SyncInv`), since while it is under way nothing else is (`Alone`); the sidecar is wrong only while such
  a chain is about to write it (`TruthInv`); the guard is held by a chain that will release it (`GuardInv`). It is kept
  unless both a mint has failed and the app has quit in the middle of something (`Broken`), the case
  of the known limits.
- `DaemonInv` holds while no mint, stop or lookup of the binary has failed nor a quit left something undone
  (`Clean`). A daemon whose credentials are not the user's is about to be stopped: without a chain of a login, a chain with a `stopDaemon` ahead of
  any start exists (`OwnDaemon`); with one, the daemon's owner is the one the chain will find in the sidecar or has
  found there, so that it will know the change of user (`Inherited`); with nobody logged in, a chain stops
  the daemon or will get the guard in order to (`OutDaemon`, the step at which an impatient user's logout is lost).

### Tabs

`DesktopTabsProofs` proves `TypeCorrect`, `GroupsStaySound`, `NobodyStranded`,
`BackStaysHonest` and `NavigationLands` (`Spec => PushLands`) for any number of workspaces, pages and tabs and any depth of
history, from the assumption `TabsAssumption` alone. The inductive invariant is
`SessionType /\ ViewInv`: the types, `GroupsSound`, and `Counted`, which says what
the counters mean. For every open tab not in `unseen`, `ref`'s index and the store's
copy of it are below the router's position, and `ref` promises at most one entry
more, counting the one shown, than the router has from its position on. `BackIsHonest`
needs all of it: `Forward` is enabled by the store's copy, moves `ref`'s index up to
`ref`'s length, and `Follow` copies the result into the store, so a wrong length now
is a wrong back button a step later. `NobodyStranded` has an invariant of its own,
`Stranding`: `NeverStranded`, that no workspace is listed before a list has
been fetched, and that a user with workspaces has a group of one of them even while another slug is active, so that the auto-heal
has something to show. Since most actions
go through `Store`, one lemma says what `Store` preserves when its arguments are
sound, and each action supplies sound arguments. `NavigationLands` has `VisibleTrue`: the copy of the tab in front is
true, whatever the copies of hidden tabs are. A navigation looks for a tab at the path by the store's
copies, so this is why pressing a link to the page one is on never goes wrong, and why the property asks for true
copies of the tabs hidden in the target workspace only.

### Cache

`QueryCacheProofs` proves `PhantomsGo`, `Spec => []NoPhantom`, for any set of queries, any set
of hooks that satisfies `HooksSettle` (what a hook shows before it is confirmed, its
`onSettled` invalidates; TLC evaluates it for all hooks of the instance) and any
bounds. The inductive invariant `PhantomInv` says that every call that is out will
settle if it has a snapshot or shows more than it wrote (`CallsSettle`), that events, published or not, and the rows in them and answers speak
only of committed writes (`EventsTrue`, `RequestTrue`), that a cancelled request puts
back only a marked or an absent entry (`RequestTrue`), and that an unmarked entry which
shows a write that is not committed has either a call out that will
invalidate it, or a request under way (`Shows(entry) \/ Coming`), unless a mark was taken off or a list filled the entry (`Excused`). `NoPhantom` itself is not
inductive: it says nothing of the states with a call out, through which every rollback goes.

`CacheTyped` (`Spec => []TypeOK`) adds `ShapeInv`: answers, events, timers and what the client was told of speak of
committed writes only, a socket that is not up holds no events, and what is not cached bears no mark.

`FreshAtRest` is `Spec => []FreshWhenQuiet`. It assumes `HooksHeard` of the table of hooks: a call that writes settles, or is
published as an event with an effect on the query, or is one of those named as lost or unheard; TLC evaluates it for all
hooks of the instance. The inductive invariant is `FreshInv`, besides `CallsHeard`. While no gap was met, every committed write
is in an unmarked entry unless the client is still to hear of it (an event, a timer or an `onSettled` to come) or a
request is under way that will bring it (`ShownInv`); and the client has heard of every committed write or is still to (`HeardInv`), so that
an old answer, or an older row, that has what the client has heard of lacks only what is still to come. An event that comes
out of order therefore either loses something for good, and is the gap `lost`, or something whose own event is still under way.

`NoViewWaits` is `Spec => []NeverWaits`, for any set of queries and of hooks that satisfies `HooksSettle`: a hook that
cancels a request must settle. `NeverWaits` is inductive beside `PhantomInv`; its steps of interest are the cancellation of a first load, the
refusal of a call, the loss of the socket and the return to a workspace.

### Local skills

`LocalSkillProofs` proves `TypeCorrect`, `HandoffRefined`, `OfferedOnce`, `ClaimedOnce`, `NobodyStranded`, `AcknowledgedSettled`,
`CompletedIsTrue` (for Redis errors that mean that nothing was done) and `OldClaimsTimeOut` (for imports) for any number of requests and overlapping calls, any bounds, both stores, and, but for `CompletedIsTrue`, whether or not failed
commands were executed, from the module's assumptions. The inductive invariant is the types and

- `Kept`, per request: what record, member and count of claims say together. A record that does not exist has no
  member and no claim, a member is unclaimed, a pending record has its member;
- `Told`, per request: a job of the daemon belongs to a claimed request, an acknowledged one to a
  settled one, and one that may still report has an attempt left (without which `TypeOK` is not inductive);
- `Holds`, per goroutine: what it has loaded is still worth something. A record that was seen not pending is not
  pending, so `Drop` strands nothing; a record that a report saw settled or gone is so still, so `Ignore` may answer 200.

`Holds` survives the steps of the others because records move forward: lemma `StepMoves` sorts every
step into five changes of a record, and `Onward` is what they have in common (a record never returns to `pending`,
nor, once claimed, from settled to `running`). Note that an unclaimed `timeout` may return to
`running` (known limits), and that the proof has to allow for it.

`HandoffRefined` is `Spec => HandoffSpec`, the refinement of `RequestHandoff`. The same lemma gives the steps, and each of
its five changes maps to one step of the request: nothing to `Stay` or `Withdraw`, a creation to `Offer`, a claim to `Take`, the others to `Settle`. It needs
`Kept` (a claim finds the request on offer and untaken) and `RunningTaken`, that only a claim makes a record `running`.
`OfferedOnce` carries the abstract invariant over: a request is on offer until it is taken or settled, and never after it was taken.

`CompletedIsTrue` is `Spec => []CompletedExists` if `Unsure = FALSE`; with `Unsure` TLC refutes it (known limits). Its
inductive invariant `ExistsInv` says that at most one goroutine at a time is between the creation of the skill and the
`Complete` that makes it known, because the name is taken, and that while one is, nobody calls the import completed: only then
does its rollback take the skill from nobody. Whoever calls the import completed, the record, a
browser or a goroutine that has loaded the record, has its skill.

`OldClaimsTimeOut` is `Spec => RunningTimesOut` if `Kind = "import"`; a listing forgets when it was claimed (known
limits). Lemma `OnlyLoads` shows that no fault or overlapping call takes a goroutine past its first command with a
status it has not just decided on.

**Only model-checked:** the liveness properties `RetryHappens`, `InFlightEnds`, `LoginRuns`,
`VersionCatchesUp`, `ShownSettles` and `QueueDrains`, because fairness
and `ENABLED` are beyond the prover. Of `RetryHappens` the safety half is proved (`RetryOwed`): a retry that is still to come has somebody to make it.
That the answers `NeverWaits` counts on come is not stated: a network owes nobody that. That a hypothesis of a theorem is needed is TLC's finding too.

## 6. Not modelled

- Components without a module: autopilot, the stores of model lists and updates, realtime, runtime
  registration and merge (planned, section 2); the event bus and its listeners, which
  run in the publisher's goroutine and write rows no task decision reads;
  schedulers of cycles and reports; CRUD handlers with one statement per
  request; the agent backends and the CLI; the repository cache; client sessions.
- Inside the queue: the resume pointer (`session_id`, `work_dir`) and the comments
  and chat messages written at completion; task messages, usage and progress;
  broadcasts; the assignee and backlog columns of an issue (any agent may be
  enqueued for any issue); deletion of issues, agents and chats; the garbage
  collection of runtimes after 7 days.
- Database errors: a statement succeeds or the server stops. A failed statement
  in the middle of a request has the effect of a stop for that goroutine.
- Inside the local skills: the stores in memory, which the server uses without Redis (one
  process and one lock, so that no two commands interleave), and what section 3 leaves out.
- Inside the daemon manager: the profile chosen by server URL, preferences other than the
  defaults, the log tail, two downloads of the binary at once.
- Inside the tabs: the onboarding overlay (the user has onboarded), titles, icons, the
  migration of version 1 of the stored tabs.
- Inside the cache: lists of sub-issues and their progress, task and chat messages,
  load-more pages, the handlers that single pages register (except for the details of an issue), the
  navigation after a workspace is deleted.
- Most of the clients' lines are views, pages, texts and one-line API methods. They
  hold no protocol: a model of them would restate the code. The modelled share of
  the TypeScript code is therefore small, and is the part where orders and failures matter.
