-------------------------- MODULE TaskQueueProofs --------------------------
(***************************************************************************)
(* Proofs about the task queue for every number of agents, issues, chats,  *)
(* tasks, goroutines and restarts.  The inductive invariant has two parts: *)
(* Locals (types, and what the local variables of a goroutine say at each  *)
(* point of a request) and Lanes (at most one pending task per agent and   *)
(* issue, and what a claim's stale snapshot still guarantees).             *)
(***************************************************************************)
EXTENDS TaskQueue, TLAPS

USE ConstantsAssumption, SubjectsDisjoint, NoneIsNothing

\* A row that exists has an agent, a subject and a runtime.
StoreOK ==
  /\ StoreTypeOK
  /\ \A t \in Tasks : status[t] # "none" =>
       row[t].agent \in Agents /\ row[t].subject \in Subjects /\ row[t].runtime \in Runtimes

\* What a goroutine knows between two of its statements.
LocalOK(l) ==
  /\ l \in Goroutine
  /\ l.pc = "insert" => l.agent \in Agents /\ l.subject \in Subjects /\ l.rt \in Runtimes
  /\ l.pc = "enqueue" => l.to # None
  /\ l.to # None => l.subject \in Issues
  /\ l.pc \in {"cancel", "check", "reset"} => l.subject \in Issues
  /\ l.pc \in {"retry", "check", "reset"} => l.to = None

Locals ==
  /\ StoreOK
  /\ loc \in [Workers -> Goroutine]
  /\ \A w \in Workers : LocalOK(loc[w]) /\ \A t \in loc[w].rows : status[t] # "none"

LEMMA LocalsInit == Init => Locals
BY DEF Init, Locals, StoreOK, StoreTypeOK, LocalOK, Goroutine, Row, NoRow, Idle, PCs, Tasks,
       Status, Reasons, IssueState, AgentState, Retryable

\* A step of one goroutine needs a look at that goroutine only.
LEMMA OneGoroutine ==
  ASSUME Locals, StoreOK', NEW w \in Workers, NEW l, LocalOK(l),
         loc' = [loc EXCEPT ![w] = l],
         \A t \in l.rows : status'[t] # "none",
         \A t \in Tasks : status[t] # "none" => status'[t] # "none"
  PROVE  Locals'
BY DEF Locals, LocalOK, Goroutine

LEMMA NoGoroutine ==
  ASSUME Locals, StoreOK', loc' = loc,
         \A t \in Tasks : status[t] # "none" => status'[t] # "none"
  PROVE  Locals'
BY DEF Locals, LocalOK, Goroutine

\* The loops over agents and over failed rows leave a goroutine with sound
\* variables.
LEMMA NextAgentOK ==
  ASSUME NEW m, LocalOK(m)
  PROVE  LocalOK(NextAgent(m)) /\ NextAgent(m).rows = {}
<1>1. CASE m.agents = {}
  <2>1. NextAgent(m) = Idle
    BY <1>1 DEF NextAgent
  <2> QED
    BY <2>1 DEF LocalOK, Goroutine, PCs, Idle
<1>2. CASE m.agents # {}
  <2>1. m.rt \in Runtimes \cup {None} /\ m.agents \in SUBSET Agents /\ m.lost \in BOOLEAN
    BY DEF LocalOK, Goroutine
  <2> DEFINE n == [Idle EXCEPT !.pc = "claim_count", !.rt = m.rt, !.agents = m.agents, !.lost = m.lost]
  <2>2. NextAgent(m) = n
    BY <1>2 DEF NextAgent
  <2>3. n \in Goroutine
    BY <2>1 DEF Goroutine, PCs, Idle
  <2>4. n.pc = "claim_count" /\ n.to = None /\ n.rows = {}
    BY DEF Idle
  <2> HIDE DEF n
  <2> QED
    BY <2>2, <2>3, <2>4 DEF LocalOK
<1> QED
  BY <1>1, <1>2

LEMMA NextRowOK ==
  ASSUME NEW m, LocalOK(m), m.to = None
  PROVE  LocalOK(NextRow(m)) /\ NextRow(m).rows = m.rows
<1>1. m \in Goroutine
  BY DEF LocalOK
<1>2. NextRow(m) \in Goroutine
  <2>1. CASE m.rows = {}
    <3>1. NextRow(m) = [m EXCEPT !.pc = "count", !.subject = None]
      BY <2>1 DEF NextRow
    <3> QED
      BY <1>1, <3>1 DEF Goroutine, PCs
  <2>2. CASE m.rows # {}
    <3>1. NextRow(m) = [m EXCEPT !.pc = "retry", !.subject = None]
      BY <2>2 DEF NextRow
    <3> QED
      BY <1>1, <3>1 DEF Goroutine, PCs
  <2> QED
    BY <2>1, <2>2
<1>3. NextRow(m).pc \in {"count", "retry"} /\ NextRow(m).to = None /\ NextRow(m).rows = m.rows
  BY <1>1 DEF Goroutine, NextRow
<1> QED
  BY <1>2, <1>3 DEF LocalOK

\* A goroutine that has gone on to a statement which asks nothing of its
\* variables but their types.
LEMMA GoneOnOK ==
  ASSUME NEW m, LocalOK(m), NEW l \in Goroutine, l.to = m.to, l.subject = m.subject,
         l.pc \in {"claim_snapshot", "claim_commit", "claim_status", "count", "write"}
  PROVE  LocalOK(l)
BY DEF LocalOK

\* Every step keeps Locals: for each statement, the new variables of its
\* goroutine, then the tables.
LEMMA LocalsNext == Locals /\ [Next]_vars => Locals'
<1> SUFFICES ASSUME Locals, Next PROVE Locals'
  BY DEF Locals, StoreOK, StoreTypeOK, vars, table, agents, daemons, bounds
<1> DEFINE Kept == \A t \in Tasks : status[t] # "none" => status'[t] # "none"
<1>a. /\ agentRuntime \in [Agents -> Runtimes] /\ status \in [Tasks -> Status]
      /\ \A t \in Tasks : status[t] # "none" =>
           row[t].agent \in Agents /\ row[t].subject \in Subjects /\ row[t].runtime \in Runtimes
  BY DEF Locals, StoreOK, StoreTypeOK
<1>b. ASSUME NEW w \in Workers
      PROVE  LocalOK(loc[w]) /\ \A t \in loc[w].rows : status[t] # "none"
  BY DEF Locals
<1>c. LocalOK(Idle) /\ Idle.rows = {}
  BY DEF LocalOK, Goroutine, PCs, Idle
<1>1. ASSUME NEW w \in Workers, NEW a \in Agents, NEW s \in Subjects, EnqueueBegin(w, a, s) PROVE Locals'
  <2> DEFINE l == [Idle EXCEPT !.pc = "insert", !.agent = a, !.subject = s,
                             !.rt = agentRuntime[a]]
  <2>1. LocalOK(l) /\ l.rows = {}
    BY <1>a DEF LocalOK, Goroutine, PCs, Idle, Subjects
  <2>2. StoreOK' /\ Kept
    BY <1>1 DEF EnqueueBegin, Locals, StoreOK, StoreTypeOK, table, agents, daemons, bounds
  <2> QED
    BY <1>1, <1>c, <2>1, <2>2, OneGoroutine DEF EnqueueBegin
<1>2. ASSUME NEW w \in Workers, InsertRow(w) PROVE Locals'
  <2>1. LocalOK(loc[w]) /\ pc(w) = "insert"
    BY <1>2, <1>b DEF InsertRow
  <2>2. StoreOK' /\ Kept
    BY <1>2 DEF InsertRow, Locals, StoreOK, StoreTypeOK, table, agents, daemons, bounds,
       CreateTask, LocalOK, Goroutine, pc, Row, Status, Tasks
  <2> QED
    BY <1>2, <1>c, <2>1, <2>2, OneGoroutine DEF InsertRow, CreateTask
<1>3. ASSUME NEW w \in Workers, InsertConflict(w) PROVE Locals'
  <2>1. StoreOK' /\ Kept
    BY <1>3 DEF InsertConflict, Locals, StoreOK, StoreTypeOK, table, agents, daemons, bounds
  <2> QED
    BY <1>3, <1>c, <2>1, OneGoroutine DEF InsertConflict
<1>4. ASSUME NEW w \in Workers, EnqueueAfterCancel(w) PROVE Locals'
  <2> DEFINE l == [Idle EXCEPT !.pc = "insert", !.agent = loc[w].to, !.subject = loc[w].subject,
                             !.rt = agentRuntime[loc[w].to]]
  <2>1. loc[w].to \in Agents /\ loc[w].subject \in Issues
    BY <1>4, <1>b DEF EnqueueAfterCancel, pc, LocalOK, Goroutine
  <2>2. LocalOK(l) /\ l.rows = {}
    BY <2>1, <1>a DEF LocalOK, Goroutine, PCs, Idle, Subjects
  <2>3. StoreOK' /\ Kept
    BY <1>4 DEF EnqueueAfterCancel, Locals, StoreOK, StoreTypeOK, table, agents, daemons, bounds
  <2> QED
    BY <1>4, <1>c, <2>1, <2>2, <2>3, OneGoroutine DEF EnqueueAfterCancel
<1>5. ASSUME NEW w \in Workers, NEW t \in Tasks, CancelTask(w, t) PROVE Locals'
  <2> DEFINE T == {t}
  <2> DEFINE m == [Idle EXCEPT !.pc = "count", !.agents = AgentsOf(T), !.subject = None, !.to = None]
  <2> DEFINE e == [Idle EXCEPT !.pc = "enqueue", !.subject = None, !.to = None]
  <2>1. AgentsOf(T) \subseteq Agents
    BY <1>5, <1>a DEF AgentsOf, On, TasksOf, Active, CancelTask
  <2>2. LocalOK(m) /\ m.rows = {}
    BY <2>1 DEF LocalOK, Goroutine, PCs, Idle, Subjects
  <2>3. StoreOK' /\ Kept
    BY <1>5 DEF CancelTask, Locals, StoreOK, StoreTypeOK, table, agents, daemons, bounds,
       SetStatus, On, TasksOf, Active, Status
  <2> QED
    BY <1>5, <1>c, <2>1, <2>2, <2>3, OneGoroutine DEF CancelTask, AfterCancel
<1>6. ASSUME NEW w \in Workers, NEW i \in Issues, NEW st \in IssueMoves, UpdateIssueStatus(w, i, st) PROVE Locals'
  <2> DEFINE l == [Idle EXCEPT !.pc = "cancel", !.subject = i]
  <2>1. LocalOK(l) /\ l.rows = {}
    BY DEF LocalOK, Goroutine, PCs, Idle, Subjects
  <2>2. StoreOK' /\ Kept
    BY <1>6 DEF UpdateIssueStatus, Locals, StoreOK, StoreTypeOK, table, agents, daemons, bounds
  <2> QED
    BY <1>6, <1>c, <2>1, <2>2, OneGoroutine DEF UpdateIssueStatus
<1>7. ASSUME NEW w \in Workers, NEW i \in Issues, NEW a \in Agents, Assign(w, i, a) PROVE Locals'
  <2> DEFINE l == [Idle EXCEPT !.pc = "cancel", !.subject = i, !.to = a]
  <2>1. LocalOK(l) /\ l.rows = {}
    BY DEF LocalOK, Goroutine, PCs, Idle, Subjects
  <2>2. StoreOK' /\ Kept
    BY <1>7 DEF Assign, Locals, StoreOK, StoreTypeOK, table, agents, daemons, bounds
  <2> QED
    BY <1>7, <1>c, <2>1, <2>2, OneGoroutine DEF Assign
<1>8. ASSUME NEW w \in Workers, CancelTasksForIssue(w) PROVE Locals'
  <2> DEFINE T == On(loc[w].subject, Active)
  <2> DEFINE m == [Idle EXCEPT !.pc = "count", !.agents = AgentsOf(T), !.subject = loc[w].subject, !.to = loc[w].to]
  <2> DEFINE e == [Idle EXCEPT !.pc = "enqueue", !.subject = loc[w].subject, !.to = loc[w].to]
  <2>1. loc[w].subject \in Issues /\ loc[w].to \in Agents \cup {None}
    BY <1>8, <1>b DEF CancelTasksForIssue, pc, LocalOK, Goroutine
  <2>2. AgentsOf(T) \subseteq Agents
    BY <1>8, <1>a DEF AgentsOf, On, TasksOf, Active, CancelTasksForIssue
  <2>3. LocalOK(m) /\ m.rows = {}
    BY <2>1, <2>2 DEF LocalOK, Goroutine, PCs, Idle, Subjects
  <2>4. loc[w].to # None => LocalOK(e) /\ e.rows = {}
    BY <2>1 DEF LocalOK, Goroutine, PCs, Idle, Subjects
  <2>5. StoreOK' /\ Kept
    BY <1>8 DEF CancelTasksForIssue, Locals, StoreOK, StoreTypeOK, table, agents, daemons, bounds,
       SetStatus, On, TasksOf, Active, Status
  <2> QED
    BY <1>8, <1>c, <2>1, <2>2, <2>3, <2>4, <2>5, OneGoroutine DEF CancelTasksForIssue, AfterCancel
<1>9. ASSUME NEW w \in Workers, NEW i \in Issues, NEW a \in Agents, RerunIssue(w, i, a) PROVE Locals'
  <2> DEFINE T == TasksOf(a, Active) \cap On(i, Active)
  <2> DEFINE m == [Idle EXCEPT !.pc = "count", !.agents = AgentsOf(T), !.subject = i, !.to = a]
  <2> DEFINE e == [Idle EXCEPT !.pc = "enqueue", !.subject = i, !.to = a]
  <2>1. AgentsOf(T) \subseteq Agents
    BY <1>9, <1>a DEF AgentsOf, On, TasksOf, Active, RerunIssue
  <2>2. LocalOK(m) /\ m.rows = {}
    BY <2>1 DEF LocalOK, Goroutine, PCs, Idle, Subjects
  <2>3. a # None => LocalOK(e) /\ e.rows = {}
    BY DEF LocalOK, Goroutine, PCs, Idle, Subjects
  <2>4. StoreOK' /\ Kept
    BY <1>9 DEF RerunIssue, Locals, StoreOK, StoreTypeOK, table, agents, daemons, bounds,
       SetStatus, On, TasksOf, Active, Status
  <2> QED
    BY <1>9, <1>c, <2>1, <2>2, <2>3, <2>4, OneGoroutine DEF RerunIssue, AfterCancel
<1>10. ASSUME NEW w \in Workers, NEW a \in Agents, Archive(w, a) PROVE Locals'
  <2> DEFINE l == [Idle EXCEPT !.pc = "archive", !.agent = a]
  <2>1. LocalOK(l) /\ l.rows = {}
    BY DEF LocalOK, Goroutine, PCs, Idle, Subjects
  <2>2. StoreOK' /\ Kept
    BY <1>10 DEF Archive, Locals, StoreOK, StoreTypeOK, table, agents, daemons, bounds
  <2> QED
    BY <1>10, <1>c, <2>1, <2>2, OneGoroutine DEF Archive
<1>11. ASSUME NEW w \in Workers, ArchiveCancel(w) PROVE Locals'
  <2>1. StoreOK' /\ Kept
    BY <1>11 DEF ArchiveCancel, Locals, StoreOK, StoreTypeOK, table, agents, daemons, bounds,
       SetStatus, TasksOf, Active, Status
  <2> QED
    BY <1>11, <1>c, <2>1, OneGoroutine DEF ArchiveCancel
<1>12. ASSUME NEW w \in Workers, NEW rt \in Runtimes, ClaimBegin(w, rt) PROVE Locals'
  <2> DEFINE l == [Idle EXCEPT !.pc = "claim_count", !.rt = rt,
              !.agents = AgentsOf({t \in Tasks : status[t] \in Pending /\ row[t].runtime = rt})]
  <2>1. AgentsOf({t \in Tasks : status[t] \in Pending /\ row[t].runtime = rt}) \in SUBSET Agents
    BY <1>a DEF AgentsOf, Pending
  <2>2. LocalOK(l) /\ l.rows = {}
    BY <2>1 DEF LocalOK, Goroutine, PCs, Idle, Subjects
  <2>3. StoreOK' /\ Kept
    BY <1>12 DEF ClaimBegin, Locals, StoreOK, StoreTypeOK, table, agents, daemons, bounds
  <2> QED
    BY <1>12, <1>c, <2>1, <2>2, <2>3, OneGoroutine DEF ClaimBegin
<1>13. ASSUME NEW w \in Workers, NEW a \in Agents, ClaimCount(w, a) PROVE Locals'
  <2> DEFINE r == [loc[w] EXCEPT !.agents = loc[w].agents \ {a}]
  <2> DEFINE l == [loc[w] EXCEPT !.pc = "claim_snapshot", !.agent = a, !.agents = loc[w].agents \ {a}]
  <2>1. LocalOK(loc[w]) /\ \A t \in loc[w].rows : status[t] # "none"
    BY <1>b
  <2>2. r.to = loc[w].to /\ LocalOK(r)
    BY <2>1 DEF LocalOK, Goroutine, PCs
  <2>3. LocalOK(l) /\ l.rows = loc[w].rows
    <3>1. l \in Goroutine
      BY <2>1 DEF LocalOK, Goroutine, PCs
    <3>2. l.pc = "claim_snapshot" /\ l.to = loc[w].to /\ l.subject = loc[w].subject /\ l.rows = loc[w].rows
      BY <2>1 DEF LocalOK, Goroutine
    <3> HIDE DEF l
    <3> QED
      BY <2>1, <3>1, <3>2, GoneOnOK
  <2>4. ASSUME NEW m, LocalOK(m) PROVE LocalOK(NextAgent(m)) /\ NextAgent(m).rows = {}
    BY <2>4, NextAgentOK
  <2>5. StoreOK' /\ Kept
    BY <1>13 DEF ClaimCount, Locals, StoreOK, StoreTypeOK, table, agents, daemons, bounds
  <2> QED
    BY <1>13, <1>c, <2>1, <2>2, <2>3, <2>4, <2>5, OneGoroutine DEF ClaimCount, table
<1>14. ASSUME NEW w \in Workers, ClaimSnapshot(w) PROVE Locals'
  <2>1. LocalOK(loc[w])
    BY <1>b
  <2> DEFINE l == [loc[w] EXCEPT !.pc = "claim_commit", !.rows = Claimable(loc[w].agent)]
  <2>2. LocalOK(NextAgent(loc[w])) /\ NextAgent(loc[w]).rows = {}
    BY <2>1, NextAgentOK
  <2>3. Claimable(loc[w].agent) \in SUBSET Tasks
    BY DEF Claimable, TasksOf
  <2>4. \A t \in Claimable(loc[w].agent) : status[t] # "none"
    BY DEF Claimable, TasksOf
  <2>5. LocalOK(l) /\ l.rows = Claimable(loc[w].agent)
    <3>1. l \in Goroutine
      BY <2>1, <2>3 DEF LocalOK, Goroutine, PCs
    <3>2. l.pc = "claim_commit" /\ l.to = loc[w].to /\ l.subject = loc[w].subject /\ l.rows = Claimable(loc[w].agent)
      BY <2>1 DEF LocalOK, Goroutine
    <3> HIDE DEF l
    <3> QED
      BY <2>1, <3>1, <3>2, GoneOnOK
  <2>6. StoreOK' /\ Kept
    BY <1>14 DEF ClaimSnapshot, Locals, StoreOK, StoreTypeOK, table, agents, daemons, bounds
  <2> QED
    BY <1>14, <1>c, <2>1, <2>2, <2>3, <2>4, <2>5, <2>6, OneGoroutine DEF ClaimSnapshot, table
<1>15. ASSUME NEW w \in Workers, NEW t \in Tasks, ClaimCommit(w, t) PROVE Locals'
  <2> DEFINE l == [loc[w] EXCEPT !.pc = "claim_status", !.rows = {t}]
  <2>1. LocalOK(loc[w])
    BY <1>b
  <2>2. LocalOK(l) /\ l.rows = {t}
    <3>1. l \in Goroutine
      BY <2>1 DEF LocalOK, Goroutine, PCs
    <3>2. l.pc = "claim_status" /\ l.to = loc[w].to /\ l.subject = loc[w].subject /\ l.rows = {t}
      BY <2>1 DEF LocalOK, Goroutine
    <3> HIDE DEF l
    <3> QED
      BY <2>1, <3>1, <3>2, GoneOnOK
  <2>3. loc' = [loc EXCEPT ![w] = l]
    BY <1>15 DEF ClaimCommit, Locals
  <2>4. StoreOK' /\ Kept
    BY <1>15 DEF ClaimCommit, Locals, StoreOK, StoreTypeOK, table, agents, daemons, bounds,
       SetStatus, Status
  <2> QED
    BY <1>15, <1>c, <2>1, <2>2, <2>3, <2>4, OneGoroutine DEF ClaimCommit
<1>16. ASSUME NEW w \in Workers, ClaimMiss(w) PROVE Locals'
  <2>1. LocalOK(loc[w])
    BY <1>b
  <2>2. LocalOK(NextAgent(loc[w])) /\ NextAgent(loc[w]).rows = {}
    BY <2>1, NextAgentOK
  <2>3. StoreOK' /\ Kept
    BY <1>16 DEF ClaimMiss, Locals, StoreOK, StoreTypeOK, table, agents, daemons, bounds
  <2> QED
    BY <1>16, <1>c, <2>1, <2>2, <2>3, OneGoroutine DEF ClaimMiss, table
<1>17. ASSUME NEW w \in Workers, ClaimStatus(w) PROVE Locals'
  <2>1. LocalOK(loc[w])
    BY <1>b
  <2>2. LocalOK(NextAgent(loc[w])) /\ NextAgent(loc[w]).rows = {}
    BY <2>1, NextAgentOK
  <2>3. StoreOK' /\ Kept
    BY <1>17 DEF ClaimStatus, Locals, StoreOK, StoreTypeOK, AgentState, table, agents, daemons, bounds,
       LocalOK, Goroutine
  <2> QED
    BY <1>17, <1>c, <2>1, <2>2, <2>3, OneGoroutine DEF ClaimStatus
<1>18. ASSUME NEW w \in Workers, NEW t \in Tasks, CompleteTask(w, t) PROVE Locals'
  <2> DEFINE l == [Idle EXCEPT !.pc = "count", !.agents = {row[t].agent}]
  <2>1. {row[t].agent} \in SUBSET Agents
    BY <1>18, <1>a DEF CompleteTask
  <2>2. LocalOK(l) /\ l.rows = {}
    BY <2>1 DEF LocalOK, Goroutine, PCs, Idle, Subjects
  <2>3. StoreOK' /\ Kept
    BY <1>18 DEF CompleteTask, Locals, StoreOK, StoreTypeOK, table, agents, daemons, bounds,
       SetStatus, Status, Reasons
  <2> QED
    BY <1>18, <1>c, <2>1, <2>2, <2>3, OneGoroutine DEF CompleteTask
<1>19. ASSUME NEW w \in Workers, NEW t \in Tasks, FailTask(w, t) PROVE Locals'
  <2> DEFINE l == [Idle EXCEPT !.pc = "count", !.agents = {row[t].agent}]
  <2>1. {row[t].agent} \in SUBSET Agents
    BY <1>19, <1>a DEF FailTask, InFlight
  <2>2. LocalOK(l) /\ l.rows = {}
    BY <2>1 DEF LocalOK, Goroutine, PCs, Idle, Subjects
  <2>3. StoreOK' /\ Kept
    BY <1>19 DEF FailTask, Locals, StoreOK, StoreTypeOK, table, agents, daemons, bounds,
       SetStatus, Status, Reasons, InFlight
  <2> QED
    BY <1>19, <1>c, <2>1, <2>2, <2>3, OneGoroutine DEF FailTask
<1>20. ASSUME NEW w \in Workers, NEW R \in SUBSET Runtimes, SweepRuntimes(w, R) PROVE Locals'
  <2> DEFINE l == [Idle EXCEPT !.pc = "sweep_offline"]
  <2>1. LocalOK(l) /\ l.rows = {}
    BY DEF LocalOK, Goroutine, PCs, Idle, Subjects
  <2>2. StoreOK' /\ Kept
    BY <1>20 DEF SweepRuntimes, Locals, StoreOK, StoreTypeOK, table, agents, daemons, bounds
  <2> QED
    BY <1>20, <1>c, <2>1, <2>2, OneGoroutine DEF SweepRuntimes
<1>21. ASSUME NEW w \in Workers, SweepOffline(w) PROVE Locals'
  <2> DEFINE T == {t \in AllInFlight : row[t].runtime \notin online}
  <2> DEFINE l == [Idle EXCEPT !.pc = "retry", !.rows = T, !.agents = AgentsOf(T)]
  <2>1. T \in SUBSET Tasks /\ AgentsOf(T) \in SUBSET Agents
    BY <1>21, <1>a DEF AgentsOf, AllInFlight, InFlight
  <2>2. LocalOK(l) /\ l.rows = T
    BY <2>1 DEF LocalOK, Goroutine, PCs, Idle, Subjects
  <2>3. \A t \in T : status'[t] # "none"
    BY <1>21, <2>1 DEF SweepOffline, FailRows, SetStatus
  <2>4. StoreOK' /\ Kept
    BY <1>21 DEF SweepOffline, Locals, StoreOK, StoreTypeOK, table, agents, daemons, bounds,
       FailRows, SetStatus, AllInFlight, InFlight, Status, Reasons, Retryable
  <2> QED
    BY <1>21, <1>c, <2>1, <2>2, <2>3, <2>4, OneGoroutine DEF SweepOffline, FailRows
<1>22. ASSUME NEW w \in Workers, NEW T \in SUBSET Tasks, SweepTasks(w, T) PROVE Locals'
  <2> DEFINE l == [Idle EXCEPT !.pc = "retry", !.rows = T, !.agents = AgentsOf(T)]
  <2>1. AgentsOf(T) \in SUBSET Agents
    BY <1>22, <1>a DEF SweepTasks, AgentsOf, AllInFlight, InFlight
  <2>2. LocalOK(l) /\ l.rows = T
    BY <2>1 DEF LocalOK, Goroutine, PCs, Idle, Subjects
  <2>3. \A t \in T : status'[t] # "none"
    BY <1>22 DEF SweepTasks, FailRows, SetStatus
  <2>4. StoreOK' /\ Kept
    BY <1>22 DEF SweepTasks, Locals, StoreOK, StoreTypeOK, table, agents, daemons, bounds,
       FailRows, SetStatus, AllInFlight, InFlight, Status, Reasons, Retryable
  <2> QED
    BY <1>22, <1>c, <2>1, <2>2, <2>3, <2>4, OneGoroutine DEF SweepTasks, FailRows
<1>23. ASSUME NEW w \in Workers, NEW rt \in Runtimes, RecoverOrphans(w, rt) PROVE Locals'
  <2> DEFINE T == {t \in AllInFlight : row[t].runtime = rt}
  <2> DEFINE l == [Idle EXCEPT !.pc = "retry", !.rows = T, !.agents = AgentsOf(T)]
  <2>1. T \in SUBSET Tasks /\ AgentsOf(T) \in SUBSET Agents
    BY <1>23, <1>a DEF AgentsOf, AllInFlight, InFlight
  <2>2. LocalOK(l) /\ l.rows = T
    BY <2>1 DEF LocalOK, Goroutine, PCs, Idle, Subjects
  <2>3. \A t \in T : status'[t] # "none"
    BY <1>23, <2>1 DEF RecoverOrphans, FailRows, SetStatus
  <2>4. StoreOK' /\ Kept
    BY <1>23 DEF RecoverOrphans, Locals, StoreOK, StoreTypeOK, table, agents, daemons, bounds,
       FailRows, SetStatus, AllInFlight, InFlight, Status, Reasons, Retryable
  <2> QED
    BY <1>23, <1>c, <2>1, <2>2, <2>3, <2>4, OneGoroutine DEF RecoverOrphans, FailRows
<1>24. ASSUME NEW w \in Workers, NEW t \in Tasks, HandleRetry(w, t) PROVE Locals'
  <2> DEFINE s    == row[t].subject
             made == MayRetry(t) /\ ~ IndexConflict(row[t].agent, s)
             l    == [loc[w] EXCEPT !.rows = @ \ {t},
                                    !.skip = IF made THEN @ \cup (Issues \cap {s}) ELSE @]
  <2>1. LocalOK(loc[w]) /\ loc[w].pc = "retry" /\ t \in loc[w].rows /\ status[t] # "none"
        /\ \A u \in loc[w].rows : u \in Tasks /\ status[u] # "none"
    BY <1>24, <1>b DEF HandleRetry, pc, LocalOK, Goroutine
  <2>2. LocalOK(l) /\ l.rows \subseteq loc[w].rows /\ l.to = None
    BY <2>1 DEF LocalOK, Goroutine, PCs
  <2>3. StoreOK' /\ Kept
    <3>1. CASE made
      <4>1. PICK u \in Tasks : CreateTask(u, row[t].agent, s, row[t].runtime, row[t].attempt + 1, t)
        BY <1>24, <3>1 DEF HandleRetry
      <4>2. row[t].attempt + 1 \in 0..MaxAttempts /\ row[t] \in Row
        BY <3>1 DEF MayRetry, Locals, StoreOK, StoreTypeOK, Row
      <4>3. UNCHANGED <<agents, daemons, issueStatus, bounds>>
        BY <1>24 DEF HandleRetry
      <4>4. [agent |-> row[t].agent, subject |-> s, runtime |-> row[t].runtime,
             attempt |-> row[t].attempt + 1, parent |-> t] \in Row
        BY <4>2 DEF Row, Tasks
      <4>5. /\ status' = [status EXCEPT ![u] = "queued"] /\ reason' = reason
            /\ status[u] = "none"
            /\ row' = [row EXCEPT ![u] = [agent |-> row[t].agent, subject |-> s,
                 runtime |-> row[t].runtime, attempt |-> row[t].attempt + 1, parent |-> t]]
        BY <4>1 DEF CreateTask, IsFresh
      <4>6. status \in [Tasks -> Status] /\ row \in [Tasks -> Row] /\ reason \in [Tasks -> Reasons]
        BY DEF Locals, StoreOK, StoreTypeOK
      <4>7. /\ status' \in [Tasks -> Status] /\ row' \in [Tasks -> Row]
            /\ reason' \in [Tasks -> Reasons]
        BY <4>4, <4>5, <4>6 DEF Status
      <4>8. row[t].agent \in Agents /\ s \in Subjects /\ row[t].runtime \in Runtimes
        BY <2>1 DEF Locals, StoreOK
      <4>9. \A x \in Tasks : status'[x] # "none" =>
              row'[x].agent \in Agents /\ row'[x].subject \in Subjects /\ row'[x].runtime \in Runtimes
        BY <4>5, <4>6, <4>8 DEF Locals, StoreOK
      <4>10. \A x \in Tasks : status[x] # "none" => status'[x] # "none"
        BY <4>5, <4>6
      <4>11. StoreTypeOK'
        BY <4>3, <4>7 DEF Locals, StoreOK, StoreTypeOK, agents, daemons, bounds
      <4> QED
        BY <4>9, <4>10, <4>11, <1>a DEF StoreOK
    <3>2. CASE ~ made
      BY <1>24, <3>2 DEF HandleRetry, Locals, StoreOK, StoreTypeOK, table, agents, daemons, bounds
    <3> QED BY <3>1, <3>2
  <2> DEFINE checking == [l EXCEPT !.pc = "check", !.subject = s]
  <2>4. loc' = [loc EXCEPT ![w] = IF s \in Issues THEN checking ELSE NextRow(l)]
    BY <1>24 DEF HandleRetry
  <2> HIDE DEF l
  <2>5. s \in Issues => LocalOK(checking) /\ checking.rows = l.rows
    BY <2>2 DEF LocalOK, Goroutine, PCs, Subjects
  <2>6. LocalOK(NextRow(l)) /\ NextRow(l).rows = l.rows
    BY <2>2, NextRowOK
  <2>7. CASE s \in Issues
    BY <2>7, <2>1, <2>2, <2>3, <2>4, <2>5, OneGoroutine
  <2>8. CASE s \notin Issues
    BY <2>8, <2>1, <2>2, <2>3, <2>4, <2>6, OneGoroutine
  <2> QED
    BY <2>7, <2>8
<1>25. ASSUME NEW w \in Workers, HandleCheck(w) PROVE Locals'
  <2> DEFINE i    == loc[w].subject
             look == issueStatus[i] = "in_progress" /\ i \notin loc[w].skip
             l    == [loc[w] EXCEPT !.skip = IF look THEN @ \cup {i} ELSE @]
             reset == [l EXCEPT !.pc = "reset"]
  <2>1. LocalOK(loc[w]) /\ loc[w].pc = "check" /\ \A u \in loc[w].rows : status[u] # "none"
    BY <1>25, <1>b DEF HandleCheck, pc
  <2>2. LocalOK(l) /\ l.rows = loc[w].rows /\ l.to = None /\ l.subject \in Issues
    BY <2>1 DEF LocalOK, Goroutine, PCs
  <2>3. StoreOK' /\ Kept /\ status' = status
    BY <1>25 DEF HandleCheck, Locals, StoreOK, StoreTypeOK, table, agents, daemons, bounds
  <2>4. loc' = [loc EXCEPT ![w] = IF look /\ On(i, Active) = {} THEN reset ELSE NextRow(l)]
    BY <1>25 DEF HandleCheck
  <2> HIDE DEF l
  <2>5. LocalOK(reset) /\ reset.rows = l.rows
    BY <2>2 DEF LocalOK, Goroutine, PCs
  <2>6. LocalOK(NextRow(l)) /\ NextRow(l).rows = l.rows
    BY <2>2, NextRowOK
  <2> QED
    BY <2>1, <2>2, <2>3, <2>4, <2>5, <2>6, OneGoroutine
<1>26. ASSUME NEW w \in Workers, HandleReset(w) PROVE Locals'
  <2>1. LocalOK(loc[w]) /\ loc[w].pc = "reset" /\ \A u \in loc[w].rows : status[u] # "none"
    BY <1>26, <1>b DEF HandleReset, pc
  <2>2. LocalOK(NextRow(loc[w])) /\ NextRow(loc[w]).rows = loc[w].rows
    <3>1. loc[w].to = None
      BY <2>1 DEF LocalOK
    <3> QED
      BY <2>1, <3>1, NextRowOK
  <2>3. StoreOK' /\ Kept
    BY <1>26 DEF HandleReset, Locals, StoreOK, StoreTypeOK, table, agents, daemons, bounds,
       IssueState
  <2> QED
    BY <1>26, <1>c, <2>1, <2>2, <2>3, OneGoroutine DEF HandleReset, table
<1>27. ASSUME NEW w \in Workers, NEW a \in Agents, ReconcileCount(w, a) PROVE Locals'
  <2> DEFINE l == [loc[w] EXCEPT !.pc = "write", !.agent = a, !.agents = @ \ {a}, !.busy = TasksOf(a, InFlight) # {}]
  <2>1. LocalOK(loc[w]) /\ loc[w].pc = "count" /\ \A u \in loc[w].rows : status[u] # "none"
    BY <1>27, <1>b DEF ReconcileCount, pc
  <2>2. LocalOK(l) /\ l.rows = loc[w].rows
    BY <2>1 DEF LocalOK, Goroutine, PCs
  <2>3. loc' = [loc EXCEPT ![w] = l]
    BY <1>27 DEF ReconcileCount, Locals
  <2>4. StoreOK' /\ Kept
    BY <1>27 DEF ReconcileCount, Locals, StoreOK, StoreTypeOK, table, agents, daemons, bounds
  <2> QED
    BY <1>27, <1>c, <2>1, <2>2, <2>3, <2>4, OneGoroutine DEF ReconcileCount, table
<1>28. ASSUME NEW w \in Workers, ReconcileWrite(w) PROVE Locals'
  <2> DEFINE m == [loc[w] EXCEPT !.pc = "count", !.agent = None, !.busy = FALSE]
  <2> DEFINE e == [Idle EXCEPT !.pc = "enqueue", !.subject = loc[w].subject, !.to = loc[w].to]
  <2>1. LocalOK(loc[w]) /\ loc[w].pc = "write" /\ \A u \in loc[w].rows : status[u] # "none"
    BY <1>28, <1>b DEF ReconcileWrite, pc
  <2>2. LocalOK(m) /\ m.rows = loc[w].rows
    BY <2>1 DEF LocalOK, Goroutine, PCs
  <2>3. loc[w].to # None => LocalOK(e) /\ e.rows = {}
    BY <2>1 DEF LocalOK, Goroutine, PCs, Idle, Subjects
  <2>4. StoreOK' /\ Kept
    BY <1>28 DEF ReconcileWrite, Locals, StoreOK, StoreTypeOK, AgentState, table, agents, daemons, bounds
  <2> QED
    BY <1>28, <1>c, <2>1, <2>2, <2>3, <2>4, OneGoroutine DEF ReconcileWrite, table
<1>29. ASSUME NEW t \in Tasks, StartTask(t) PROVE Locals'
  <2>1. StoreOK' /\ Kept
    BY <1>29 DEF StartTask, SetStatus, Status, Locals, StoreOK, StoreTypeOK, table, agents,
       daemons, bounds
  <2> QED
    BY <1>29, <2>1, NoGoroutine DEF StartTask
<1>30. ASSUME NEW a \in Agents, Restore(a) PROVE Locals'
  BY <1>30, NoGoroutine DEF Restore, Locals, StoreOK, StoreTypeOK, table, agents, daemons, bounds
<1>31. ASSUME NEW a \in Agents, NEW rt \in Runtimes,
                  NEW st \in StatusEdits \cup {agentStatus[a]}, UpdateAgent(a, rt, st)
           PROVE Locals'
  BY <1>31, NoGoroutine DEF UpdateAgent, Locals, StoreOK, StoreTypeOK, table, agents, daemons, bounds
<1>32. ASSUME NEW rt \in Runtimes, Heartbeat(rt) PROVE Locals'
  BY <1>32, NoGoroutine DEF Heartbeat, Locals, StoreOK, StoreTypeOK, table, agents, daemons, bounds
<1>33. ASSUME NEW rt \in Runtimes, DaemonStop(rt) PROVE Locals'
  <2>1. StoreOK' /\ Kept /\ status' = status
    BY <1>33 DEF DaemonStop, Locals, StoreOK, StoreTypeOK, table, agents, daemons, bounds
  <2>2. ASSUME NEW l, LocalOK(l)
        PROVE  LocalOK([l EXCEPT !.lost = TRUE]) /\ [l EXCEPT !.lost = TRUE].rows = l.rows
    <3> DEFINE m == [l EXCEPT !.lost = TRUE]
    <3>1. l \in Goroutine
      BY <2>2 DEF LocalOK
    <3>2. m \in Goroutine
      BY <3>1 DEF Goroutine
    <3>3. /\ m.pc = l.pc /\ m.agent = l.agent /\ m.to = l.to /\ m.subject = l.subject
          /\ m.rt = l.rt /\ m.rows = l.rows
      BY <3>1 DEF Goroutine
    <3> HIDE DEF m
    <3>4. LocalOK(m) /\ m.rows = l.rows
      BY <2>2, <3>2, <3>3 DEF LocalOK
    <3> QED
      BY <3>4 DEF m
  <2>3. ASSUME NEW w \in Workers
        PROVE  LocalOK(loc'[w]) /\ loc'[w].rows = loc[w].rows
    BY <1>33, <1>b, <2>2 DEF DaemonStop
  <2>4. loc' \in [Workers -> Goroutine]
    BY <1>33, <2>3 DEF DaemonStop, LocalOK
  <2> QED
    BY <2>1, <2>3, <2>4, <1>b DEF Locals
<1>34. ASSUME NEW rt \in Runtimes, DaemonStart(rt) PROVE Locals'
  BY <1>34, NoGoroutine DEF DaemonStart, Locals, StoreOK, StoreTypeOK, table, agents, daemons,
     bounds
<1>35. ASSUME NEW rt \in Runtimes, RecoverLost(rt) PROVE Locals'
  BY <1>35, NoGoroutine DEF RecoverLost, Locals, StoreOK, StoreTypeOK, table, agents, daemons,
     bounds
<1>36. ASSUME ServerRestart PROVE Locals'
  <2>1. StoreOK' /\ loc' = [w \in Workers |-> Idle]
    BY <1>36 DEF ServerRestart, Locals, StoreOK, StoreTypeOK, table, agents, daemons, bounds
  <2> QED
    BY <2>1, <1>c DEF Locals, LocalOK
<1> QED
  BY <1>1, <1>2, <1>3, <1>4, <1>5, <1>6, <1>7, <1>8, <1>9, <1>10, <1>11, <1>12, <1>13, <1>14,
     <1>15, <1>16, <1>17, <1>18, <1>19, <1>20, <1>21, <1>22, <1>23, <1>24, <1>25, <1>26, <1>27,
     <1>28, <1>29, <1>30, <1>31, <1>32, <1>33, <1>34, <1>35, <1>36
  DEF Next, Request, Sweep, Continue, Environment, Workers

\* Every column and every local variable has its type; in particular no retry
\* has an attempt above max_attempts, whatever the interleaving.
THEOREM TypeCorrect == Spec => []TypeOK
<1>1. Locals => TypeOK
  BY DEF Locals, StoreOK, TypeOK
<1> QED
  BY LocalsInit, LocalsNext, <1>1, PTL DEF Spec

-----------------------------------------------------------------------------
(* Lanes: the tasks of one agent on one issue. *)

PendingUnique ==
  \A t, u \in Tasks :
    t # u /\ row[t].subject \in Issues /\ Same(t, u)
      => ~ (status[t] \in Pending /\ status[u] \in Pending)

\* A candidate of a claim's snapshot that is still queued when the claim
\* commits still has no task of its lane in flight: such a task would have
\* been pending next to it.
SnapshotOK ==
  \A w \in Workers : pc(w) = "claim_commit" =>
    \A t \in loc[w].rows : status[t] = "queued" /\ row[t].subject \in Issues =>
      \A u \in Tasks \ {t} : Same(t, u) => status[u] \notin InFlight

Lanes == PendingUnique /\ IssueSerial /\ SnapshotOK

\* What a step that does not create, claim or start a task does to row t: it
\* may end it.
Keeps(t) ==
  /\ row'[t] = row[t]
  /\ status'[t] # status[t] => status[t] \in Active /\ status'[t] \in Terminal
  /\ status[t] \in Terminal => reason'[t] = reason[t]

\* No claim takes a new snapshot in this step.
NoSnapshot ==
  \A v \in Workers : loc'[v].pc = "claim_commit" =>
    loc[v].pc = "claim_commit" /\ loc'[v].rows = loc[v].rows

Keeping  == (\A t \in Tasks : Keeps(t)) /\ NoSnapshot
Starting == \E t \in Tasks : StartTask(t)
Creating ==
  \E t \in Tasks, a \in Agents, s \in Subjects, rt \in Runtimes, k \in Nat, p \in Nat :
    CreateTask(t, a, s, rt, k, p) /\ ~ IndexConflict(a, s) /\ NoSnapshot
Claiming ==
  \E w \in Workers : ClaimSnapshot(w) \/ \E t \in Tasks : ClaimCommit(w, t)

\* Every step keeps the table as it is or ends some of its tasks, starts one,
\* creates one, or belongs to a claim.
LEMMA TableStep == Locals /\ Next => Keeping \/ Starting \/ Creating \/ Claiming
<1> SUFFICES ASSUME Locals, Next PROVE Keeping \/ Starting \/ Creating \/ Claiming
  OBVIOUS
<1>a. status \in [Tasks -> Status] /\ row \in [Tasks -> Row] /\ reason \in [Tasks -> Reasons]
  BY DEF Locals, StoreOK, StoreTypeOK
<1>b. loc \in [Workers -> Goroutine]
  BY DEF Locals
<1>1. ASSUME NEW w \in Workers, NEW a \in Agents, NEW s \in Subjects, EnqueueBegin(w, a, s) PROVE Keeping
  <2>1. \A x \in Tasks : Keeps(x)
    BY <1>1, <1>a DEF EnqueueBegin, Keeps, table
  <2>2. NoSnapshot
    BY <1>1, <1>b DEF EnqueueBegin, NoSnapshot, Idle
  <2> QED BY <2>1, <2>2 DEF Keeping
<1>2. ASSUME NEW w \in Workers, InsertConflict(w) PROVE Keeping
  <2>1. \A x \in Tasks : Keeps(x)
    BY <1>2, <1>a DEF InsertConflict, Keeps, table
  <2>2. NoSnapshot
    BY <1>2, <1>b DEF InsertConflict, NoSnapshot, Idle
  <2> QED BY <2>1, <2>2 DEF Keeping
<1>3. ASSUME NEW w \in Workers, EnqueueAfterCancel(w) PROVE Keeping
  <2>1. \A x \in Tasks : Keeps(x)
    BY <1>3, <1>a DEF EnqueueAfterCancel, Keeps, table
  <2>2. NoSnapshot
    BY <1>3, <1>b DEF EnqueueAfterCancel, NoSnapshot, Idle
  <2> QED BY <2>1, <2>2 DEF Keeping
<1>4. ASSUME NEW w \in Workers, NEW t \in Tasks, CancelTask(w, t) PROVE Keeping
  <2>1. \A x \in Tasks : Keeps(x)
    BY <1>4, <1>a DEF CancelTask, Keeps, table, SetStatus, Terminal, Active
  <2>2. NoSnapshot
    BY <1>4, <1>b DEF CancelTask, NoSnapshot, Idle, AfterCancel
  <2> QED BY <2>1, <2>2 DEF Keeping
<1>5. ASSUME NEW w \in Workers, NEW i \in Issues, NEW st \in IssueMoves, UpdateIssueStatus(w, i, st) PROVE Keeping
  <2>1. \A x \in Tasks : Keeps(x)
    BY <1>5, <1>a DEF UpdateIssueStatus, Keeps, table
  <2>2. NoSnapshot
    BY <1>5, <1>b DEF UpdateIssueStatus, NoSnapshot, Idle
  <2> QED BY <2>1, <2>2 DEF Keeping
<1>6. ASSUME NEW w \in Workers, NEW i \in Issues, NEW a \in Agents, Assign(w, i, a) PROVE Keeping
  <2>1. \A x \in Tasks : Keeps(x)
    BY <1>6, <1>a DEF Assign, Keeps, table
  <2>2. NoSnapshot
    BY <1>6, <1>b DEF Assign, NoSnapshot, Idle
  <2> QED BY <2>1, <2>2 DEF Keeping
<1>7. ASSUME NEW w \in Workers, CancelTasksForIssue(w) PROVE Keeping
  <2>1. \A x \in Tasks : Keeps(x)
    BY <1>7, <1>a DEF CancelTasksForIssue, Keeps, table, SetStatus, Terminal, Active, On
  <2>2. NoSnapshot
    BY <1>7, <1>b DEF CancelTasksForIssue, NoSnapshot, Idle, AfterCancel
  <2> QED BY <2>1, <2>2 DEF Keeping
<1>8. ASSUME NEW w \in Workers, NEW i \in Issues, NEW a \in Agents, RerunIssue(w, i, a) PROVE Keeping
  <2>1. \A x \in Tasks : Keeps(x)
    BY <1>8, <1>a DEF RerunIssue, Keeps, table, SetStatus, Terminal, Active, TasksOf, On
  <2>2. NoSnapshot
    BY <1>8, <1>b DEF RerunIssue, NoSnapshot, Idle, AfterCancel
  <2> QED BY <2>1, <2>2 DEF Keeping
<1>9. ASSUME NEW w \in Workers, NEW a \in Agents, Archive(w, a) PROVE Keeping
  <2>1. \A x \in Tasks : Keeps(x)
    BY <1>9, <1>a DEF Archive, Keeps, table
  <2>2. NoSnapshot
    BY <1>9, <1>b DEF Archive, NoSnapshot, Idle
  <2> QED BY <2>1, <2>2 DEF Keeping
<1>10. ASSUME NEW w \in Workers, ArchiveCancel(w) PROVE Keeping
  <2>1. \A x \in Tasks : Keeps(x)
    BY <1>10, <1>a DEF ArchiveCancel, Keeps, table, SetStatus, Terminal, Active, TasksOf
  <2>2. NoSnapshot
    BY <1>10, <1>b DEF ArchiveCancel, NoSnapshot, Idle
  <2> QED BY <2>1, <2>2 DEF Keeping
<1>11. ASSUME NEW w \in Workers, NEW rt \in Runtimes, ClaimBegin(w, rt) PROVE Keeping
  <2>1. \A x \in Tasks : Keeps(x)
    BY <1>11, <1>a DEF ClaimBegin, Keeps, table
  <2>2. NoSnapshot
    BY <1>11, <1>b DEF ClaimBegin, NoSnapshot, Idle
  <2> QED BY <2>1, <2>2 DEF Keeping
<1>12. ASSUME NEW w \in Workers, NEW a \in Agents, ClaimCount(w, a) PROVE Keeping
  <2>1. \A x \in Tasks : Keeps(x)
    BY <1>12, <1>a DEF ClaimCount, Keeps, table
  <2>2. NoSnapshot
    BY <1>12, <1>b DEF ClaimCount, NoSnapshot, Idle, NextAgent
  <2> QED BY <2>1, <2>2 DEF Keeping
<1>13. ASSUME NEW w \in Workers, ClaimMiss(w) PROVE Keeping
  <2>1. \A x \in Tasks : Keeps(x)
    BY <1>13, <1>a DEF ClaimMiss, Keeps, table
  <2>2. NoSnapshot
    BY <1>13, <1>b DEF ClaimMiss, NoSnapshot, Idle, NextAgent
  <2> QED BY <2>1, <2>2 DEF Keeping
<1>14. ASSUME NEW w \in Workers, ClaimStatus(w) PROVE Keeping
  <2>1. \A x \in Tasks : Keeps(x)
    BY <1>14, <1>a DEF ClaimStatus, Keeps, table
  <2>2. NextAgent(loc[w]).pc # "claim_commit" /\ Idle.pc # "claim_commit"
    BY DEF NextAgent, Idle
  <2>3. loc' = [loc EXCEPT ![w] = Idle] \/ loc' = [loc EXCEPT ![w] = NextAgent(loc[w])]
    BY <1>14 DEF ClaimStatus
  <2>4. NoSnapshot
    BY <1>b, <2>2, <2>3 DEF NoSnapshot
  <2> QED BY <2>1, <2>4 DEF Keeping
<1>15. ASSUME NEW w \in Workers, NEW t \in Tasks, CompleteTask(w, t) PROVE Keeping
  <2>1. \A x \in Tasks : Keeps(x)
    BY <1>15, <1>a DEF CompleteTask, Keeps, table, SetStatus, Terminal, Active
  <2>2. NoSnapshot
    BY <1>15, <1>b DEF CompleteTask, NoSnapshot, Idle
  <2> QED BY <2>1, <2>2 DEF Keeping
<1>16. ASSUME NEW w \in Workers, NEW t \in Tasks, FailTask(w, t) PROVE Keeping
  <2>1. \A x \in Tasks : Keeps(x)
    BY <1>16, <1>a DEF FailTask, Keeps, table, SetStatus, Terminal, Active, InFlight
  <2>2. NoSnapshot
    BY <1>16, <1>b DEF FailTask, NoSnapshot, Idle
  <2> QED BY <2>1, <2>2 DEF Keeping
<1>17. ASSUME NEW w \in Workers, NEW R \in SUBSET Runtimes, SweepRuntimes(w, R) PROVE Keeping
  <2>1. \A x \in Tasks : Keeps(x)
    BY <1>17, <1>a DEF SweepRuntimes, Keeps, table
  <2>2. NoSnapshot
    BY <1>17, <1>b DEF SweepRuntimes, NoSnapshot, Idle
  <2> QED BY <2>1, <2>2 DEF Keeping
<1>18. ASSUME NEW w \in Workers, SweepOffline(w) PROVE Keeping
  <2>1. \A x \in Tasks : Keeps(x)
    BY <1>18, <1>a DEF SweepOffline, Keeps, table, SetStatus, Terminal, Active, FailRows,
       AllInFlight, InFlight
  <2>2. NoSnapshot
    BY <1>18, <1>b DEF SweepOffline, NoSnapshot, Idle, FailRows
  <2> QED BY <2>1, <2>2 DEF Keeping
<1>19. ASSUME NEW w \in Workers, NEW T \in SUBSET Tasks, SweepTasks(w, T) PROVE Keeping
  <2>1. \A x \in Tasks : Keeps(x)
    BY <1>19, <1>a DEF SweepTasks, Keeps, table, SetStatus, Terminal, Active, FailRows,
       AllInFlight, InFlight
  <2>2. NoSnapshot
    BY <1>19, <1>b DEF SweepTasks, NoSnapshot, Idle, FailRows
  <2> QED BY <2>1, <2>2 DEF Keeping
<1>20. ASSUME NEW w \in Workers, NEW rt \in Runtimes, RecoverOrphans(w, rt) PROVE Keeping
  <2>1. \A x \in Tasks : Keeps(x)
    BY <1>20, <1>a DEF RecoverOrphans, Keeps, table, SetStatus, Terminal, Active, FailRows,
       AllInFlight, InFlight
  <2>2. NoSnapshot
    BY <1>20, <1>b DEF RecoverOrphans, NoSnapshot, Idle, FailRows
  <2> QED BY <2>1, <2>2 DEF Keeping
<1>21. ASSUME NEW w \in Workers, HandleCheck(w) PROVE Keeping
  <2>1. \A x \in Tasks : Keeps(x)
    BY <1>21, <1>a DEF HandleCheck, Keeps, table
  <2>2. NoSnapshot
    BY <1>21, <1>b DEF HandleCheck, NoSnapshot, Idle, NextRow, pc
  <2> QED BY <2>1, <2>2 DEF Keeping
<1>22. ASSUME NEW w \in Workers, HandleReset(w) PROVE Keeping
  <2>1. \A x \in Tasks : Keeps(x)
    BY <1>22, <1>a DEF HandleReset, Keeps, table
  <2>2. NoSnapshot
    BY <1>22, <1>b DEF HandleReset, NoSnapshot, Idle, NextRow, pc
  <2> QED BY <2>1, <2>2 DEF Keeping
<1>23. ASSUME NEW w \in Workers, NEW a \in Agents, ReconcileCount(w, a) PROVE Keeping
  <2>1. \A x \in Tasks : Keeps(x)
    BY <1>23, <1>a DEF ReconcileCount, Keeps, table
  <2>2. NoSnapshot
    BY <1>23, <1>b DEF ReconcileCount, NoSnapshot, Idle
  <2> QED BY <2>1, <2>2 DEF Keeping
<1>24. ASSUME NEW w \in Workers, ReconcileWrite(w) PROVE Keeping
  <2>1. \A x \in Tasks : Keeps(x)
    BY <1>24, <1>a DEF ReconcileWrite, Keeps, table
  <2>2. NoSnapshot
    BY <1>24, <1>b DEF ReconcileWrite, NoSnapshot, Idle, pc
  <2> QED BY <2>1, <2>2 DEF Keeping
<1>25. ASSUME NEW a \in Agents, Restore(a) PROVE Keeping
  BY <1>25, <1>a, <1>b DEF Restore, Keeping, Keeps, NoSnapshot, Idle, table
<1>26. ASSUME NEW a \in Agents, NEW rt \in Runtimes,
                  NEW st \in StatusEdits \cup {agentStatus[a]}, UpdateAgent(a, rt, st)
           PROVE Keeping
  BY <1>26, <1>a, <1>b DEF UpdateAgent, Keeping, Keeps, NoSnapshot, Idle, table
<1>27. ASSUME NEW rt \in Runtimes, Heartbeat(rt) PROVE Keeping
  BY <1>27, <1>a, <1>b DEF Heartbeat, Keeping, Keeps, NoSnapshot, Idle, table
<1>28. ASSUME NEW rt \in Runtimes, DaemonStop(rt) PROVE Keeping
  BY <1>28, <1>a, <1>b DEF DaemonStop, Keeping, Keeps, NoSnapshot, Idle, table
<1>29. ASSUME NEW rt \in Runtimes, DaemonStart(rt) PROVE Keeping
  BY <1>29, <1>a, <1>b DEF DaemonStart, Keeping, Keeps, NoSnapshot, Idle, table
<1>30. ASSUME NEW rt \in Runtimes, RecoverLost(rt) PROVE Keeping
  BY <1>30, <1>a, <1>b DEF RecoverLost, Keeping, Keeps, NoSnapshot, Idle, table
<1>31. ASSUME ServerRestart PROVE Keeping
  BY <1>31, <1>a, <1>b DEF ServerRestart, Keeping, Keeps, NoSnapshot, Idle, table
<1>32. ASSUME NEW w \in Workers, InsertRow(w) PROVE Creating
  <2>1. /\ loc[w].agent \in Agents /\ loc[w].subject \in Subjects /\ loc[w].rt \in Runtimes
        /\ NoSnapshot
    BY <1>32, <1>b DEF InsertRow, pc, Locals, LocalOK, NoSnapshot, Idle
  <2> QED
    BY <1>32, <2>1 DEF InsertRow, Creating
<1>33. ASSUME NEW w \in Workers, NEW t \in Tasks, HandleRetry(w, t) PROVE Keeping \/ Creating
  <2> DEFINE made == MayRetry(t) /\ ~ IndexConflict(row[t].agent, row[t].subject)
  <2>1. loc[w].pc = "retry" /\ status[t] # "none"
    BY <1>33 DEF HandleRetry, pc, Locals
  <2>2. /\ row[t].agent \in Agents /\ row[t].subject \in Subjects /\ row[t].runtime \in Runtimes
        /\ row[t].attempt \in Nat
    BY <2>1, <1>a DEF Locals, StoreOK, Row
  <2>3. NoSnapshot
    BY <1>33, <1>b, <2>1 DEF HandleRetry, NoSnapshot, NextRow
  <2>4. CASE made
    <3>1. PICK u \in Tasks : CreateTask(u, row[t].agent, row[t].subject, row[t].runtime,
                                        row[t].attempt + 1, t)
      BY <1>33, <2>4 DEF HandleRetry
    <3>2. t \in Nat /\ row[t].attempt + 1 \in Nat
      BY <2>2 DEF Tasks
    <3> QED
      BY <3>1, <3>2, <2>2, <2>3, <2>4 DEF Creating
  <2>5. CASE ~ made
    BY <1>33, <2>3, <2>5 DEF HandleRetry, Keeping, Keeps, table
  <2> QED
    BY <2>4, <2>5
<1> QED
  BY <1>1, <1>2, <1>3, <1>4, <1>5, <1>6, <1>7, <1>8, <1>9, <1>10, <1>11, <1>12, <1>13, <1>14,
     <1>15, <1>16, <1>17, <1>18, <1>19, <1>20, <1>21, <1>22, <1>23, <1>24, <1>25, <1>26, <1>27,
     <1>28, <1>29, <1>30, <1>31, <1>32, <1>33
  DEF Next, Request, Sweep, Continue, Environment, Workers, Claiming, Starting

LEMMA LanesInit == Init => Lanes
BY DEF Init, Lanes, PendingUnique, IssueSerial, SnapshotOK, pc, Idle, Pending, InFlight

\* Ending or starting tasks can only empty the places of a lane.
LEMMA LanesKept == Locals /\ Lanes /\ (Keeping \/ Starting) => Lanes'
<1> SUFFICES ASSUME Locals, Lanes, Keeping \/ Starting PROVE Lanes'
  OBVIOUS
<1>1. \A t, u \in Tasks : row'[t] = row[t] /\ (Same(t, u)' <=> Same(t, u))
  BY DEF Keeping, Keeps, Starting, StartTask, Same
<1>2. \A t \in Tasks : /\ status'[t] \in Pending => status[t] \in Pending
                       /\ status'[t] \in InFlight => status[t] \in InFlight
                       /\ status'[t] = "queued" => status[t] = "queued"
  BY DEF Keeping, Keeps, Starting, StartTask, SetStatus, Pending, InFlight, Terminal
<1>s. NoSnapshot
  BY DEF Keeping, Starting, StartTask, NoSnapshot
<1>3. PendingUnique' /\ IssueSerial'
  BY <1>1, <1>2 DEF Lanes, PendingUnique, IssueSerial
<1>4. SnapshotOK'
  <2> SUFFICES ASSUME NEW w \in Workers, loc'[w].pc = "claim_commit", NEW t \in loc'[w].rows,
                      status'[t] = "queued", row'[t].subject \in Issues,
                      NEW u \in Tasks \ {t}, Same(t, u)'
               PROVE  status'[u] \notin InFlight
    BY DEF SnapshotOK, pc
  <2>1. loc[w].pc = "claim_commit" /\ t \in loc[w].rows /\ t \in Tasks
    BY <1>s DEF NoSnapshot, Locals, Goroutine
  <2> QED
    BY <2>1, <1>1, <1>2 DEF Lanes, SnapshotOK, pc
<1> QED
  BY <1>3, <1>4 DEF Lanes

\* A new row is the only pending one of its lane, and it is not in flight.
LEMMA LanesCreate == Locals /\ Lanes /\ Creating => Lanes'
<1> SUFFICES ASSUME Locals, Lanes, NoSnapshot,
                    NEW n \in Tasks, NEW a \in Agents, NEW s \in Subjects, NEW rt \in Runtimes,
                    NEW k \in Nat, NEW p \in Nat,
                    CreateTask(n, a, s, rt, k, p), ~ IndexConflict(a, s)
             PROVE  Lanes'
  BY DEF Creating
<1>1. /\ status[n] = "none" /\ status'[n] = "queued"
      /\ row'[n].agent = a /\ row'[n].subject = s
      /\ \A t \in Tasks \ {n} : status'[t] = status[t] /\ row'[t] = row[t]
  BY DEF CreateTask, IsFresh, Locals, StoreOK, StoreTypeOK
<1>2. \A t \in Tasks \ {n} : s \in Issues /\ row[t].agent = a /\ row[t].subject = s
                              => status[t] \notin Pending
  BY DEF IndexConflict, TasksOf, On
<1>3. PendingUnique'
  BY <1>1, <1>2 DEF Lanes, PendingUnique, Same, Pending
<1>4. IssueSerial'
  BY <1>1 DEF Lanes, IssueSerial, Same, InFlight
<1>5. SnapshotOK'
  <2> SUFFICES ASSUME NEW w \in Workers, loc'[w].pc = "claim_commit", NEW t \in loc'[w].rows,
                      status'[t] = "queued", row'[t].subject \in Issues,
                      NEW u \in Tasks \ {t}, Same(t, u)'
               PROVE  status'[u] \notin InFlight
    BY DEF SnapshotOK, pc
  <2>1. loc[w].pc = "claim_commit" /\ t \in loc[w].rows /\ t \in Tasks /\ t # n
    BY <1>1 DEF NoSnapshot, Locals, Goroutine
  <2>2. CASE u = n
    BY <2>2, <1>1 DEF InFlight
  <2>3. CASE u # n
    BY <2>1, <2>3, <1>1 DEF Lanes, SnapshotOK, pc, Same
  <2> QED
    BY <2>2, <2>3
<1> QED
  BY <1>3, <1>4, <1>5 DEF Lanes

\* A claim that takes its snapshot leaves the table alone; a claim that commits
\* takes the only pending task of a lane with nothing in flight.
LEMMA LanesClaim == Locals /\ Lanes /\ Claiming => Lanes'
<1> SUFFICES ASSUME Locals, Lanes, NEW w \in Workers,
                    ClaimSnapshot(w) \/ \E t \in Tasks : ClaimCommit(w, t)
             PROVE  Lanes'
  BY DEF Claiming
<1>1. CASE ClaimSnapshot(w)
  <2>1. status' = status /\ row' = row
    BY <1>1 DEF ClaimSnapshot, table
  <2>2. PendingUnique' /\ IssueSerial'
    BY <2>1 DEF Lanes, PendingUnique, IssueSerial, Same
  <2>3. SnapshotOK'
    <3> SUFFICES ASSUME NEW v \in Workers, loc'[v].pc = "claim_commit", NEW t \in loc'[v].rows,
                        status[t] = "queued", row[t].subject \in Issues,
                        NEW u \in Tasks \ {t}, Same(t, u)
                 PROVE  status[u] \notin InFlight
      BY <2>1 DEF SnapshotOK, pc, Same
    <3>1. CASE v # w
      BY <3>1, <1>1 DEF ClaimSnapshot, Locals, Lanes, SnapshotOK, pc
    <3>2. CASE v = w
      <4>1. t \in Claimable(loc[w].agent)
        BY <3>2, <1>1 DEF ClaimSnapshot, Locals, Goroutine, NextAgent, Idle
      <4> QED
        BY <4>1 DEF Claimable, TasksOf, On, Same
    <3> QED
      BY <3>1, <3>2
  <2> QED
    BY <2>2, <2>3 DEF Lanes
<1>2. ASSUME NEW c \in Tasks, ClaimCommit(w, c) PROVE Lanes'
  <2>1. /\ pc(w) = "claim_commit" /\ c \in loc[w].rows /\ status[c] = "queued"
        /\ row' = row /\ status'[c] = "dispatched"
        /\ \A t \in Tasks \ {c} : status'[t] = status[t]
    BY <1>2 DEF ClaimCommit, SetStatus
  <2>2. \A v \in Workers : loc'[v].pc = "claim_commit" =>
          loc[v].pc = "claim_commit" /\ loc'[v].rows = loc[v].rows
    <3>1. loc' = [loc EXCEPT ![w] = [loc[w] EXCEPT !.pc = "claim_status", !.rows = {c}]]
      BY <1>2 DEF ClaimCommit, Locals
    <3>2. [loc[w] EXCEPT !.pc = "claim_status", !.rows = {c}].pc = "claim_status"
      BY DEF Locals, Goroutine
    <3> QED
      BY <3>1, <3>2 DEF Locals
  <2>3. PendingUnique'
    BY <2>1 DEF Lanes, PendingUnique, Same, Pending
  <2>4. \A u \in Tasks \ {c} : row[c].subject \in Issues /\ Same(c, u)
                                => status[u] \notin InFlight /\ status[u] \notin Pending
    BY <2>1 DEF Lanes, SnapshotOK, PendingUnique, Pending
  <2>5. IssueSerial'
    <3> SUFFICES ASSUME NEW t \in Tasks, NEW u \in Tasks, t # u, row[t].subject \in Issues,
                        Same(t, u), status'[t] \in InFlight, status'[u] \in InFlight
                 PROVE  FALSE
      BY <2>1 DEF IssueSerial, Same
    <3>1. CASE t # c /\ u # c
      BY <3>1, <2>1 DEF Lanes, IssueSerial
    <3>2. CASE t = c
      BY <3>2, <2>1, <2>4
    <3>3. CASE u = c
      BY <3>3, <2>1, <2>4 DEF Same
    <3> QED
      BY <3>1, <3>2, <3>3
  <2>6. SnapshotOK'
    <3> SUFFICES ASSUME NEW v \in Workers, loc'[v].pc = "claim_commit", NEW t \in loc'[v].rows,
                        status'[t] = "queued", row[t].subject \in Issues,
                        NEW u \in Tasks \ {t}, Same(t, u)
                 PROVE  status'[u] \notin InFlight
      BY <2>1 DEF SnapshotOK, pc, Same
    <3>1. t \in Tasks /\ loc[v].pc = "claim_commit" /\ t \in loc[v].rows /\ t # c
          /\ status[t] = "queued"
      BY <2>1, <2>2 DEF Locals, Goroutine
    <3>2. u # c
      BY <3>1, <2>1, <2>4 DEF Same, Pending
    <3> QED
      BY <3>1, <3>2, <2>1 DEF Lanes, SnapshotOK, pc
  <2> QED
    BY <2>3, <2>5, <2>6 DEF Lanes
<1> QED
  BY <1>1, <1>2

LEMMA Inductive == Locals /\ Lanes /\ [Next]_vars => Locals' /\ Lanes'
<1>1. Locals /\ Lanes /\ Next => Lanes'
  BY TableStep, LanesKept, LanesCreate, LanesClaim
<1>2. Lanes /\ UNCHANGED vars => Lanes'
  BY DEF Lanes, PendingUnique, IssueSerial, SnapshotOK, pc, Same, vars, table
<1> QED
  BY <1>1, <1>2, LocalsNext

\* One agent never has two tasks in flight on one issue: the stale snapshot of
\* ClaimAgentTask is made up for by the unique index.
THEOREM SerialPerIssue == Spec => []IssueSerial
<1>1. Lanes => IssueSerial
  BY DEF Lanes
<1> QED
  BY LocalsInit, LanesInit, Inductive, <1>1, PTL DEF Spec

\* No report, sweep, cancellation or retry rewrites a finished task.
THEOREM FinishedStays == Spec => FinishedForGood
<1> DEFINE Kept == \A t \in Tasks : status[t] \in Terminal =>
                     status'[t] = status[t] /\ reason'[t] = reason[t] /\ row'[t] = row[t]
<1>1. Locals /\ Keeping => Kept
  BY DEF Keeping, Keeps, Active, Terminal
<1>s. Locals /\ Starting => Kept
  BY DEF Starting, StartTask, SetStatus, Terminal
<1>2. Locals /\ Creating => Kept
  BY DEF Creating, CreateTask, IsFresh, Terminal, Locals, StoreOK, StoreTypeOK
<1>3. Locals /\ Claiming => Kept
  BY DEF Claiming, ClaimSnapshot, ClaimCommit, SetStatus, Terminal, table
<1>4. Locals /\ [Next]_vars => [Kept]_vars
  BY <1>1, <1>s, <1>2, <1>3, TableStep
<1> QED
  BY <1>4, LocalsInit, LocalsNext, PTL DEF Spec, FinishedForGood

=============================================================================
