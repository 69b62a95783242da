-------------------------- MODULE SequentialProofs --------------------------
(***************************************************************************)
(* What the task queue promises when one goroutine at a time is at work:   *)
(* requests do not overlap, while daemons and their runtimes go on between *)
(* the statements of a request.  A theorem for this case assumes NoOverlap *)
(* and names what else it needs: no restart of the server in the middle of *)
(* a request (ArchivedQuiet, StatusSettled) and no archived agents         *)
(* (StatusSettled).  These are the very things that break the promise: TLC *)
(* finds the counterexample as soon as one of them is dropped.             *)
(***************************************************************************)
EXTENDS TaskQueueProofs

USE ConstantsAssumption, SubjectsDisjoint, NoneIsNothing, WorkersFinite

NoOverlap == \A v, w \in Workers : v = w

Handling == {"retry", "check", "reset"} \* HandleFailedTasks

-----------------------------------------------------------------------------
(* One chat session has one task in flight.                                  *)

\* What a claim selected for a chat is still alone in its chat when the claim
\* commits.  (With overlapping claims only the unique index would see to that,
\* and it covers issues only.)
ChatSnapshotOK ==
  \A w \in Workers : loc[w].pc = "claim_commit" =>
    \A t \in loc[w].rows : status[t] = "queued" /\ row[t].subject \in Chats =>
      \A u \in Tasks \ {t} : Same(t, u) => status[u] \notin InFlight

LEMMA ChatsInit == Init => ChatSerial /\ ChatSnapshotOK
BY DEF Init, ChatSerial, ChatSnapshotOK, Idle, InFlight

LEMMA ChatsNext ==
  ASSUME NoOverlap, Locals, ChatSerial, ChatSnapshotOK, Next
  PROVE  ChatSerial' /\ ChatSnapshotOK'
<1>a. \A v \in Workers : loc[v].rows \subseteq Tasks /\ \A t \in loc[v].rows : status[t] # "none"
  BY DEF Locals, Goroutine
<1>1. CASE Keeping \/ Starting
  <2>1. \A t, u \in Tasks : row'[t] = row[t] /\ (Same(t, u)' <=> Same(t, u))
    BY <1>1 DEF Keeping, Keeps, Starting, StartTask, Same
  <2>2. \A t \in Tasks : /\ status'[t] \in InFlight => status[t] \in InFlight
                         /\ status'[t] = "queued" => status[t] = "queued"
    BY <1>1 DEF Keeping, Keeps, Starting, StartTask, SetStatus, InFlight, Terminal
  <2>3. NoSnapshot
    BY <1>1 DEF Keeping, Starting, StartTask, NoSnapshot
  <2>4. ChatSerial'
    BY <2>1, <2>2 DEF ChatSerial
  <2>5. ChatSnapshotOK'
    <3> SUFFICES ASSUME NEW w \in Workers, loc'[w].pc = "claim_commit", NEW t \in loc'[w].rows,
                        status'[t] = "queued", row'[t].subject \in Chats,
                        NEW u \in Tasks \ {t}, Same(t, u)'
                 PROVE  status'[u] \notin InFlight
      BY DEF ChatSnapshotOK
    <3>1. loc[w].pc = "claim_commit" /\ t \in loc[w].rows /\ t \in Tasks
      BY <2>3, <1>a DEF NoSnapshot
    <3> QED
      BY <3>1, <2>1, <2>2 DEF ChatSnapshotOK
  <2> QED
    BY <2>4, <2>5
<1>2. CASE Creating
  <2>1. PICK n \in Tasks : /\ status[n] = "none" /\ status'[n] = "queued"
                           /\ \A t \in Tasks \ {n} : status'[t] = status[t] /\ row'[t] = row[t]
                           /\ NoSnapshot
    BY <1>2 DEF Creating, CreateTask, IsFresh, Locals, StoreOK, StoreTypeOK
  <2>2. ChatSerial'
    BY <2>1 DEF ChatSerial, Same, InFlight
  <2>3. ChatSnapshotOK'
    <3> SUFFICES ASSUME NEW w \in Workers, loc'[w].pc = "claim_commit", NEW t \in loc'[w].rows,
                        status'[t] = "queued", row'[t].subject \in Chats,
                        NEW u \in Tasks \ {t}, Same(t, u)'
                 PROVE  status'[u] \notin InFlight
      BY DEF ChatSnapshotOK
    <3>1. loc[w].pc = "claim_commit" /\ t \in loc[w].rows /\ t \in Tasks /\ t # n
      BY <2>1, <1>a DEF NoSnapshot
    <3>2. CASE u = n
      BY <3>2, <2>1 DEF InFlight
    <3>3. CASE u # n
      BY <3>1, <3>3, <2>1 DEF ChatSnapshotOK, Same
    <3> QED
      BY <3>2, <3>3
  <2> QED
    BY <2>2, <2>3
<1>3. ASSUME NEW w \in Workers, ClaimSnapshot(w) PROVE ChatSerial' /\ ChatSnapshotOK'
  <2>1. status' = status /\ row' = row
    BY <1>3 DEF ClaimSnapshot, table
  <2>2. ChatSerial'
    BY <2>1 DEF ChatSerial, Same
  <2>3. loc'[w].pc = "claim_commit" => loc'[w].rows = Claimable(loc[w].agent)
    BY <1>3 DEF ClaimSnapshot, Locals, Goroutine, NextAgent, Idle
  <2>4. ChatSnapshotOK'
    BY <2>1, <2>3 DEF NoOverlap, ChatSnapshotOK, Claimable, TasksOf, On, Same
  <2> QED
    BY <2>2, <2>4
<1>4. ASSUME NEW w \in Workers, NEW c \in Tasks, ClaimCommit(w, c)
      PROVE  ChatSerial' /\ ChatSnapshotOK'
  <2>1. /\ loc[w].pc = "claim_commit" /\ c \in loc[w].rows /\ status[c] = "queued"
        /\ row' = row /\ status'[c] = "dispatched"
        /\ \A t \in Tasks \ {c} : status'[t] = status[t]
    BY <1>4 DEF ClaimCommit, SetStatus, pc
  <2>2. row[c].subject \in Chats => \A u \in Tasks \ {c} : Same(c, u) => status[u] \notin InFlight
    BY <2>1 DEF ChatSnapshotOK
  <2>3. ChatSerial'
    BY <2>1, <2>2 DEF ChatSerial, Same
  <2>4. loc'[w].pc = "claim_status"
    BY <1>4 DEF ClaimCommit, Locals, Goroutine
  <2>5. ChatSnapshotOK'
    BY <2>4 DEF NoOverlap, ChatSnapshotOK
  <2> QED
    BY <2>3, <2>5
<1> QED
  BY <1>1, <1>2, <1>3, <1>4, TableStep DEF Claiming

\* When no two claims overlap, one chat session has one task in flight: the
\* NOT EXISTS of ClaimAgentTask, which two overlapping claims get round (the
\* run v_chat), is enough for claims that follow one another, restarts of the
\* server included.
THEOREM ChatsTakeTurns ==
  ASSUME NoOverlap
  PROVE  Spec => []ChatSerial
<1>1. Locals /\ ChatSerial /\ ChatSnapshotOK /\ [Next]_vars => ChatSerial' /\ ChatSnapshotOK'
  <2>1. ChatSerial /\ ChatSnapshotOK /\ UNCHANGED vars => ChatSerial' /\ ChatSnapshotOK'
    BY DEF ChatSerial, ChatSnapshotOK, Same, vars, table
  <2> QED
    BY <2>1, ChatsNext
<1> QED
  BY LocalsInit, LocalsNext, ChatsInit, <1>1, PTL DEF Spec

-----------------------------------------------------------------------------
(* What daemons and users do outside the requests of the model.              *)

\* The goroutines keep what they know, but a claim may lose its daemon; tasks
\* start, and agents are restored, moved or given a status.
Outside ==
  /\ \A w \in Workers : loc'[w] = loc[w] \/ loc'[w] = [loc[w] EXCEPT !.lost = TRUE]
  /\ row' = row /\ issueStatus' = issueStatus
  /\ byHand \subseteq byHand'
  /\ \A a \in Agents \ byHand' : agentStatus'[a] = agentStatus[a]
  /\ archived' \subseteq archived
  /\ \A t \in Tasks : status'[t] = status[t] \/ {status[t], status'[t]} \subseteq InFlight

Acts(w) == Request(w) \/ Sweep(w) \/ Continue(w)

LEMMA Actors == Locals /\ Next => (\E w \in Workers : Acts(w)) \/ Outside \/ ServerRestart
<1> SUFFICES ASSUME Locals, Environment PROVE Outside \/ ServerRestart
  BY DEF Next, Acts, Workers
<1>1. ASSUME NEW t \in Tasks, StartTask(t) PROVE Outside
  BY <1>1 DEF StartTask, SetStatus, Outside, InFlight, agents
<1>2. ASSUME NEW a \in Agents, Restore(a) PROVE Outside
  BY <1>2 DEF Restore, Outside, table
<1>3. ASSUME NEW a \in Agents, NEW rt \in Runtimes,
                  NEW st \in StatusEdits \cup {agentStatus[a]}, UpdateAgent(a, rt, st)
           PROVE Outside
  <2>1. /\ UNCHANGED <<table, archived, issueStatus, loc>>
        /\ agentStatus' = [agentStatus EXCEPT ![a] = st]
        /\ byHand' = IF st = agentStatus[a] THEN byHand ELSE byHand \cup {a}
    BY <1>3 DEF UpdateAgent
  <2>2. agentStatus \in [Agents -> AgentState]
    BY DEF Locals, StoreOK, StoreTypeOK
  <2>3. byHand \subseteq byHand' /\ \A b \in Agents \ byHand' : agentStatus'[b] = agentStatus[b]
    BY <2>1, <2>2
  <2> QED
    BY <2>1, <2>3 DEF Outside, table
<1>4. ASSUME NEW rt \in Runtimes, Heartbeat(rt) \/ DaemonStart(rt) \/ RecoverLost(rt) PROVE Outside
  BY <1>4 DEF Heartbeat, DaemonStart, RecoverLost, Outside, table, agents
<1>5. ASSUME NEW rt \in Runtimes, DaemonStop(rt) PROVE Outside
  BY <1>5 DEF DaemonStop, Outside, table, agents
<1> QED
  BY <1>1, <1>2, <1>3, <1>4, <1>5 DEF Environment

\* A restart leaves every goroutine idle.
LEMMA Restarted == ServerRestart => UNCHANGED <<table, agents, issueStatus>> /\ \A w \in Workers : loc'[w] = Idle
BY DEF ServerRestart

\* Of a goroutine's variables only "lost" changes outside its requests.
LEMMA OutsideKeeps ==
  ASSUME Locals, Outside, NEW w \in Workers
  PROVE  /\ loc'[w].pc = loc[w].pc /\ loc'[w].agent = loc[w].agent /\ loc'[w].agents = loc[w].agents
         /\ loc'[w].subject = loc[w].subject /\ loc'[w].rows = loc[w].rows /\ loc'[w].busy = loc[w].busy
<1>1. loc[w] \in Goroutine
  BY DEF Locals
<1>2. loc'[w] = loc[w] \/ loc'[w] = [loc[w] EXCEPT !.lost = TRUE]
  BY DEF Outside
<1> QED
  BY <1>1, <1>2 DEF Goroutine

LEMMA OutsideSame ==
  ASSUME Outside, NEW a
  PROVE  /\ TasksOf(a, InFlight)' = TasksOf(a, InFlight) /\ TasksOf(a, Active)' = TasksOf(a, Active)
         /\ On(a, Active)' = On(a, Active)
BY DEF Outside, TasksOf, On, InFlight, Active

-----------------------------------------------------------------------------
(* The control flow of a goroutine: what leads to the statements that write  *)
(* what an earlier statement read.                                           *)

Fails(w) == SweepOffline(w) \/ (\E T \in SUBSET Tasks : SweepTasks(w, T)) \/ (\E rt \in Runtimes : RecoverOrphans(w, rt))

Turn(w) ==
  LET l == loc'[w] IN
  /\ \A v \in Workers \ {w} : loc'[v] = loc[v]
  /\ l.pc = "reset" => HandleCheck(w)
  /\ l.pc = "archive" => \E a \in Agents : Archive(w, a)
  /\ l.pc = "insert" => EnqueueAfterCancel(w) \/ \E a \in Agents, s \in Subjects : EnqueueBegin(w, a, s)
  /\ l.pc = "write" => \E a \in Agents : ReconcileCount(w, a)
  /\ l.pc = "claim_commit" => ClaimSnapshot(w)
  /\ l.pc = "claim_status" => \E t \in Tasks : ClaimCommit(w, t)
  /\ l.pc \in Handling => \/ loc[w].pc \in Handling /\ l.rows \subseteq loc[w].rows
                          \/ Fails(w)

LEMMA Turns ==
  ASSUME Locals, NEW w \in Workers, Acts(w)
  PROVE  Turn(w)
<1>a. loc \in [Workers -> Goroutine] /\ loc[w] \in Goroutine
  BY DEF Locals
<1>b. ASSUME loc' = [loc EXCEPT ![w] = loc'[w]],
             loc'[w].pc \notin Handling \cup {"archive", "insert", "write", "claim_commit", "claim_status"}
      PROVE  Turn(w)
  BY <1>a, <1>b DEF Turn, Handling
<1>c. \A l \in Goroutine : NextRow(l).pc \in {"count", "retry"} /\ NextRow(l).rows = l.rows
  BY DEF NextRow, Goroutine
<1>d. \A l : NextAgent(l).pc \in {"idle", "claim_count"}
  BY DEF NextAgent, Idle
<1>1. ASSUME NEW a \in Agents, NEW s \in Subjects, EnqueueBegin(w, a, s) PROVE Turn(w)
  BY <1>1, <1>a DEF EnqueueBegin, Idle, Turn, Handling
<1>2. CASE InsertRow(w) \/ InsertConflict(w)
  <2>1. loc' = [loc EXCEPT ![w] = loc'[w]] /\ loc'[w].pc = "idle"
    BY <1>2, <1>a DEF InsertRow, InsertConflict, Idle
  <2> QED
    BY <2>1, <1>b DEF Handling
<1>3. CASE EnqueueAfterCancel(w)
  BY <1>3, <1>a DEF EnqueueAfterCancel, Idle, Turn, Handling
<1>4. ASSUME NEW t \in Tasks, CancelTask(w, t) PROVE Turn(w)
  <2>1. loc' = [loc EXCEPT ![w] = loc'[w]] /\ loc'[w].pc \in {"idle", "count", "enqueue"}
    BY <1>4, <1>a DEF CancelTask, AfterCancel, Idle
  <2> QED
    BY <2>1, <1>b DEF Handling
<1>5. ASSUME NEW i \in Issues, NEW st \in IssueMoves, UpdateIssueStatus(w, i, st) PROVE Turn(w)
  <2>1. loc' = [loc EXCEPT ![w] = loc'[w]] /\ loc'[w].pc \in {"idle", "cancel"}
    BY <1>5, <1>a DEF UpdateIssueStatus, Idle
  <2> QED
    BY <2>1, <1>b DEF Handling
<1>6. ASSUME NEW i \in Issues, NEW a \in Agents, Assign(w, i, a) PROVE Turn(w)
  <2>1. loc' = [loc EXCEPT ![w] = loc'[w]] /\ loc'[w].pc \in {"idle", "cancel"}
    BY <1>6, <1>a DEF Assign, Idle
  <2> QED
    BY <2>1, <1>b DEF Handling
<1>7. CASE CancelTasksForIssue(w)
  <2>1. loc' = [loc EXCEPT ![w] = loc'[w]] /\ loc'[w].pc \in {"idle", "count", "enqueue"}
    BY <1>7, <1>a DEF CancelTasksForIssue, AfterCancel, Idle
  <2> QED
    BY <2>1, <1>b DEF Handling
<1>8. ASSUME NEW i \in Issues, NEW a \in Agents, RerunIssue(w, i, a) PROVE Turn(w)
  <2>1. loc' = [loc EXCEPT ![w] = loc'[w]] /\ loc'[w].pc \in {"idle", "count", "enqueue"}
    BY <1>8, <1>a DEF RerunIssue, AfterCancel, Idle
  <2> QED
    BY <2>1, <1>b DEF Handling
<1>9. ASSUME NEW a \in Agents, Archive(w, a) PROVE Turn(w)
  BY <1>9, <1>a DEF Archive, Idle, Turn, Handling
<1>10. CASE ArchiveCancel(w)
  <2>1. loc' = [loc EXCEPT ![w] = loc'[w]] /\ loc'[w].pc = "idle"
    BY <1>10, <1>a DEF ArchiveCancel, Idle
  <2> QED
    BY <2>1, <1>b DEF Handling
<1>11. ASSUME NEW rt \in Runtimes, ClaimBegin(w, rt) PROVE Turn(w)
  <2>1. loc' = [loc EXCEPT ![w] = loc'[w]] /\ loc'[w].pc \in {"idle", "claim_count"}
    BY <1>11, <1>a DEF ClaimBegin, Idle
  <2> QED
    BY <2>1, <1>b DEF Handling
<1>12. ASSUME NEW a \in Agents, ClaimCount(w, a) PROVE Turn(w)
  <2>1. [loc[w] EXCEPT !.pc = "claim_snapshot", !.agent = a, !.agents = loc[w].agents \ {a}].pc = "claim_snapshot"
    BY <1>a DEF Goroutine
  <2>2. loc' = [loc EXCEPT ![w] = loc'[w]] /\ loc'[w].pc \in {"idle", "claim_count", "claim_snapshot"}
    BY <1>12, <1>a, <1>d, <2>1 DEF ClaimCount
  <2> QED
    BY <2>2, <1>b DEF Handling
<1>13. CASE ClaimSnapshot(w)
  <2>1. CASE loc' = [loc EXCEPT ![w] = NextAgent(loc[w])]
    BY <2>1, <1>a, <1>b, <1>d DEF Handling
  <2>2. CASE loc' = [loc EXCEPT ![w] = [loc[w] EXCEPT !.pc = "claim_commit", !.rows = Claimable(loc[w].agent)]]
    BY <1>13, <2>2, <1>a DEF Goroutine, Turn, Handling
  <2> QED
    BY <1>13, <2>1, <2>2 DEF ClaimSnapshot
<1>14. ASSUME NEW t \in Tasks, ClaimCommit(w, t) PROVE Turn(w)
  <2>1. loc'[w].pc = "claim_status" /\ \A v \in Workers \ {w} : loc'[v] = loc[v]
    BY <1>14, <1>a DEF ClaimCommit, Goroutine
  <2> QED
    BY <1>14, <2>1 DEF Turn, Handling
<1>15. CASE ClaimMiss(w)
  <2>1. loc' = [loc EXCEPT ![w] = loc'[w]] /\ loc'[w].pc \in {"idle", "claim_count"}
    BY <1>15, <1>a, <1>d DEF ClaimMiss
  <2> QED
    BY <2>1, <1>b DEF Handling
<1>16. CASE ClaimStatus(w)
  <2>1. loc' = [loc EXCEPT ![w] = Idle] \/ loc' = [loc EXCEPT ![w] = NextAgent(loc[w])]
    BY <1>16 DEF ClaimStatus
  <2> QED
    BY <2>1, <1>a, <1>b, <1>d DEF Idle, Handling
<1>17. ASSUME NEW t \in Tasks, CompleteTask(w, t) \/ FailTask(w, t) PROVE Turn(w)
  <2>1. loc' = [loc EXCEPT ![w] = loc'[w]] /\ loc'[w].pc \in {"idle", "count"}
    BY <1>17, <1>a DEF CompleteTask, FailTask, Idle
  <2> QED
    BY <2>1, <1>b DEF Handling
<1>18. ASSUME NEW R \in SUBSET Runtimes, SweepRuntimes(w, R) PROVE Turn(w)
  <2>1. loc' = [loc EXCEPT ![w] = loc'[w]] /\ loc'[w].pc \in {"idle", "sweep_offline"}
    BY <1>18, <1>a DEF SweepRuntimes, Idle
  <2> QED
    BY <2>1, <1>b DEF Handling
<1>19. CASE Fails(w)
  <2>1. PICK T \in SUBSET Tasks : \E why \in Retryable : FailRows(w, T, why)
    BY <1>19 DEF Fails, SweepOffline, SweepTasks, RecoverOrphans, AllInFlight, Retryable
  <2>2. loc'[w].pc \in {"idle", "retry"} /\ \A v \in Workers \ {w} : loc'[v] = loc[v]
    BY <2>1, <1>a DEF FailRows, Idle
  <2> QED
    BY <1>19, <2>2 DEF Turn, Handling
<1>20. ASSUME NEW t \in Tasks, HandleRetry(w, t) PROVE Turn(w)
  <2> DEFINE s    == row[t].subject
             made == MayRetry(t) /\ ~ IndexConflict(row[t].agent, s)
             l    == [loc[w] EXCEPT !.rows = @ \ {t},
                                    !.skip = IF made THEN @ \cup (Issues \cap {s}) ELSE @]
             checking == [l EXCEPT !.pc = "check", !.subject = s]
  <2>1. loc[w].pc = "retry"
    BY <1>20 DEF HandleRetry, pc
  <2>2. l.rows \subseteq loc[w].rows /\ l \in Goroutine
    BY <1>a DEF Goroutine
  <2>3. loc' = [loc EXCEPT ![w] = checking] \/ loc' = [loc EXCEPT ![w] = NextRow(l)]
    BY <1>20 DEF HandleRetry
  <2> HIDE DEF l
  <2>4. checking.pc = "check" /\ checking.rows = l.rows
    BY <2>2 DEF Goroutine
  <2>5. loc'[w].pc \in {"check", "count", "retry"} /\ loc'[w].rows = l.rows
    BY <2>2, <2>3, <2>4, <1>a, <1>c
  <2> QED
    BY <2>1, <2>2, <2>3, <2>5, <1>a DEF Turn, Handling
<1>21. CASE HandleCheck(w)
  <2> DEFINE i == loc[w].subject
             look == issueStatus[i] = "in_progress" /\ i \notin loc[w].skip
             l == [loc[w] EXCEPT !.skip = IF look THEN @ \cup {i} ELSE @]
             reset == [l EXCEPT !.pc = "reset"]
  <2>1. loc[w].pc = "check" /\ i \in Issues
    BY <1>21 DEF HandleCheck, pc, Locals, LocalOK
  <2>2. l \in Goroutine /\ l.rows = loc[w].rows
    BY <2>1, <1>a DEF Goroutine
  <2>3. loc' = [loc EXCEPT ![w] = reset] \/ loc' = [loc EXCEPT ![w] = NextRow(l)]
    BY <1>21 DEF HandleCheck
  <2> HIDE DEF l
  <2>4. reset.pc = "reset" /\ reset.rows = loc[w].rows
    BY <2>2 DEF Goroutine
  <2>5. loc'[w].pc \in {"reset", "count", "retry"} /\ loc'[w].rows = loc[w].rows
    BY <2>2, <2>3, <2>4, <1>a, <1>c
  <2> QED
    BY <1>21, <2>1, <2>3, <2>5, <1>a DEF Turn, Handling
<1>22. CASE HandleReset(w)
  <2>1. loc' = [loc EXCEPT ![w] = NextRow(loc[w])] /\ loc[w].pc = "reset"
    BY <1>22 DEF HandleReset, pc
  <2> QED
    BY <2>1, <1>a, <1>c DEF Turn, Handling
<1>23. ASSUME NEW a \in Agents, ReconcileCount(w, a) PROVE Turn(w)
  <2>1. loc'[w].pc = "write" /\ \A v \in Workers \ {w} : loc'[v] = loc[v]
    BY <1>23, <1>a DEF ReconcileCount, Goroutine
  <2> QED
    BY <1>23, <2>1 DEF Turn, Handling
<1>24. CASE ReconcileWrite(w)
  <2>1. [loc[w] EXCEPT !.pc = "count", !.agent = None, !.busy = FALSE].pc = "count"
    BY <1>a DEF Goroutine
  <2>2. loc' = [loc EXCEPT ![w] = loc'[w]] /\ loc'[w].pc \in {"idle", "count", "enqueue"}
    BY <1>24, <1>a, <2>1 DEF ReconcileWrite, Idle
  <2> QED
    BY <2>2, <1>b DEF Handling
<1> QED
  BY <1>1, <1>2, <1>3, <1>4, <1>5, <1>6, <1>7, <1>8, <1>9, <1>10, <1>11, <1>12, <1>13, <1>14,
     <1>15, <1>16, <1>17, <1>18, <1>19, <1>20, <1>21, <1>22, <1>23, <1>24
  DEF Acts, Request, Sweep, Continue, Fails

-----------------------------------------------------------------------------
(* Only stuck issues are reset.                                              *)

Stuck(i) == issueStatus[i] = "in_progress" /\ On(i, Active) = {}

\* Between the check and the reset nothing happens to the issue.
StuckInv == \A w \in Workers : loc[w].pc = "reset" => Stuck(loc[w].subject)

LEMMA StuckNext ==
  ASSUME NoOverlap, Locals, StuckInv, Next
  PROVE  StuckInv'
<1>1. CASE Outside
  <2>1. \A w \in Workers : Stuck(loc[w].subject) => Stuck(loc[w].subject)'
    BY <1>1, OutsideKeeps DEF Stuck, On, Outside, InFlight, Active
  <2> QED
    BY <1>1, <2>1, OutsideKeeps DEF StuckInv
<1>2. CASE ServerRestart
  BY <1>2, Restarted DEF StuckInv, Idle
<1>3. ASSUME NEW w \in Workers, Acts(w) PROVE StuckInv'
  <2>1. SUFFICES ASSUME loc'[w].pc = "reset"
                 PROVE  Stuck(loc[w].subject)'
    BY DEF NoOverlap, StuckInv
  <2>2. HandleCheck(w)
    BY <1>3, <2>1, Turns DEF Turn
  <2> DEFINE i == loc[w].subject
             look == issueStatus[i] = "in_progress" /\ i \notin loc[w].skip
             l == [loc[w] EXCEPT !.skip = IF look THEN @ \cup {i} ELSE @]
             reset == [l EXCEPT !.pc = "reset"]
             stuck == look /\ On(i, Active) = {}
  <2>3. loc[w] \in Goroutine /\ loc \in [Workers -> Goroutine] /\ i \in Issues
    BY <2>2 DEF HandleCheck, pc, Locals, LocalOK
  <2>4. loc' = [loc EXCEPT ![w] = IF stuck THEN reset ELSE NextRow(l)]
    BY <2>2 DEF HandleCheck
  <2>5. l \in Goroutine /\ l.subject = i
    BY <2>3 DEF Goroutine
  <2> HIDE DEF l
  <2>6. NextRow(l).pc # "reset" /\ reset.subject = i
    BY <2>5 DEF NextRow, Goroutine
  <2>7. stuck /\ loc'[w].subject = i
    BY <2>1, <2>3, <2>4, <2>6
  <2>8. issueStatus' = issueStatus /\ status' = status /\ row' = row
    BY <2>2 DEF HandleCheck, table
  <2> QED
    BY <2>7, <2>8 DEF Stuck, On
<1> QED
  BY <1>1, <1>2, <1>3, Actors

\* Failure handling of requests that do not overlap takes an issue back to
\* "todo" only while it is in progress and nothing, old or retried, is active on
\* it.  GetIssue, HasActiveTaskForIssue and UpdateIssueStatus are three
\* statements; an overlapping request can start work between them.
THEOREM OnlyStuckReset ==
  ASSUME NoOverlap
  PROVE  Spec => ResetOnlyStuck
<1>1. Init => StuckInv
  BY DEF Init, StuckInv, Idle
<1>2. Locals /\ StuckInv /\ [Next]_vars => StuckInv'
  <2>1. StuckInv /\ UNCHANGED vars => StuckInv'
    BY DEF StuckInv, Stuck, On, vars, table
  <2> QED
    BY <2>1, StuckNext
<1> DEFINE Right == \A w \in Workers : HandleReset(w) =>
                      LET i == loc[w].subject IN issueStatus[i] = "in_progress" /\ On(i, Active) = {}
<1>3. StuckInv => Right
  BY DEF StuckInv, Stuck, HandleReset, pc
<1> QED
  BY LocalsInit, LocalsNext, <1>1, <1>2, <1>3, PTL DEF Spec, ResetOnlyStuck

-----------------------------------------------------------------------------
(* An archived agent has nothing to do.                                      *)

\* An archived agent has tasks only until the second half of its archiving, and
\* no request under way is about to give it one.
ArchivedInv ==
  /\ \A a \in archived, w \in Workers :
       TasksOf(a, Active) # {} => loc[w].pc = "archive" /\ loc[w].agent = a
  /\ \A w \in Workers : loc[w].pc = "insert" => loc[w].agent \notin archived
  /\ \A w \in Workers : loc[w].pc \in Handling =>
       \A t \in loc[w].rows : row[t].agent \notin archived

\* No agent is archived and no task becomes active.
Still(w) ==
  /\ loc[w].pc # "archive" /\ archived' = archived /\ row' = row
  /\ \A t \in Tasks : status'[t] \in Active => status[t] \in Active

LEMMA StillOrNot ==
  ASSUME Locals, NEW w \in Workers, Acts(w)
  PROVE  \/ Still(w) \/ InsertRow(w) \/ ArchiveCancel(w)
         \/ \E a \in Agents : Archive(w, a)
         \/ \E t \in Tasks : HandleRetry(w, t)
<1>1. ASSUME NEW a \in Agents, NEW s \in Subjects, EnqueueBegin(w, a, s) PROVE Still(w)
  BY <1>1 DEF EnqueueBegin, pc, Still, table, agents
<1>2. CASE InsertConflict(w) \/ EnqueueAfterCancel(w)
  BY <1>2 DEF InsertConflict, EnqueueAfterCancel, pc, Still, table, agents
<1>3. ASSUME NEW t \in Tasks, CancelTask(w, t) PROVE Still(w)
  BY <1>3 DEF CancelTask, SetStatus, pc, Still, agents, Active
<1>4. ASSUME NEW i \in Issues, NEW st \in IssueMoves, UpdateIssueStatus(w, i, st) PROVE Still(w)
  BY <1>4 DEF UpdateIssueStatus, pc, Still, table, agents
<1>5. ASSUME NEW i \in Issues, NEW a \in Agents, Assign(w, i, a) PROVE Still(w)
  BY <1>5 DEF Assign, pc, Still, table, agents
<1>6. CASE CancelTasksForIssue(w)
  BY <1>6 DEF CancelTasksForIssue, SetStatus, pc, Still, agents, Active
<1>7. ASSUME NEW i \in Issues, NEW a \in Agents, RerunIssue(w, i, a) PROVE Still(w)
  BY <1>7 DEF RerunIssue, SetStatus, pc, Still, agents, Active
<1>8. ASSUME NEW rt \in Runtimes, ClaimBegin(w, rt) PROVE Still(w)
  BY <1>8 DEF ClaimBegin, pc, Still, table, agents
<1>9. ASSUME NEW a \in Agents, ClaimCount(w, a) \/ ReconcileCount(w, a) PROVE Still(w)
  BY <1>9 DEF ClaimCount, ReconcileCount, pc, Still, table, agents
<1>10. CASE ClaimSnapshot(w) \/ ClaimMiss(w) \/ ClaimStatus(w)
  BY <1>10 DEF ClaimSnapshot, ClaimMiss, ClaimStatus, pc, Still, table, agents
<1>11. ASSUME NEW t \in Tasks, ClaimCommit(w, t) PROVE Still(w)
  BY <1>11 DEF ClaimCommit, SetStatus, pc, Still, agents, Active
<1>12. ASSUME NEW t \in Tasks, CompleteTask(w, t) \/ FailTask(w, t) PROVE Still(w)
  BY <1>12 DEF CompleteTask, FailTask, SetStatus, pc, Still, agents, Active
<1>13. ASSUME NEW R \in SUBSET Runtimes, SweepRuntimes(w, R) PROVE Still(w)
  BY <1>13 DEF SweepRuntimes, pc, Still, table, agents
<1>14. CASE Fails(w)
  BY <1>14 DEF Fails, SweepOffline, SweepTasks, RecoverOrphans, FailRows, SetStatus, pc, Still,
     agents, Active
<1>15. CASE HandleCheck(w) \/ HandleReset(w) \/ ReconcileWrite(w)
  BY <1>15 DEF HandleCheck, HandleReset, ReconcileWrite, pc, Still, table, agents
<1> QED
  BY <1>1, <1>2, <1>3, <1>4, <1>5, <1>6, <1>7, <1>8, <1>9, <1>10, <1>11, <1>12, <1>13, <1>14,
     <1>15
  DEF Acts, Request, Sweep, Continue, Fails

\* What the failing statements hand on was in flight.
LEMMA FailsInFlight ==
  ASSUME Locals, NEW w \in Workers, Fails(w)
  PROVE  /\ loc[w].pc \in {"idle", "sweep_offline"}
         /\ loc'[w].rows \subseteq AllInFlight
<1>1. PICK T \in SUBSET Tasks : T \subseteq AllInFlight /\ \E why \in Retryable : FailRows(w, T, why)
  BY DEF Fails, SweepOffline, SweepTasks, RecoverOrphans, AllInFlight, Retryable
<1>2. loc'[w].rows \in {{}, T}
  BY <1>1 DEF FailRows, Idle, Locals
<1> QED
  BY <1>1, <1>2 DEF Fails, SweepOffline, SweepTasks, RecoverOrphans, pc

\* An action of w keeps ArchivedInv when nobody is given a task that an archived
\* agent would have.
LEMMA ArchivedNext ==
  ASSUME NoOverlap, MaxCrashes = 0, Locals, ArchivedInv, Next
  PROVE  ArchivedInv'
<1>1. CASE Outside
  <2>1. \A a : TasksOf(a, Active)' = TasksOf(a, Active)
    BY <1>1, OutsideSame
  <2>2. \A w \in Workers : loc'[w].pc = loc[w].pc /\ loc'[w].agent = loc[w].agent /\ loc'[w].rows = loc[w].rows
    BY <1>1, OutsideKeeps
  <2> QED
    BY <1>1, <2>1, <2>2 DEF ArchivedInv, Outside
<1>2. ~ ServerRestart
  BY DEF ServerRestart, Locals, StoreOK, StoreTypeOK
<1>3. ASSUME NEW w \in Workers, Acts(w) PROVE ArchivedInv'
  <2>a. \A v \in Workers : v = w
    BY DEF NoOverlap
  <2>b. Turn(w)
    BY <1>3, Turns
  <2>c. loc \in [Workers -> Goroutine] /\ status \in [Tasks -> Status] /\ row \in [Tasks -> Row]
    BY DEF Locals, StoreOK, StoreTypeOK
  <2>d. loc[w].pc # "archive" => \A a \in archived, u \in Tasks : row[u].agent = a => status[u] \notin Active
    BY DEF ArchivedInv, TasksOf
  <2>e. ASSUME NEW a \in Agents, Archive(w, a)
        PROVE  loc'[w].pc = "archive" /\ loc'[w].agent = a
    BY <2>e, <2>c DEF Archive, Idle
  <2>1. ASSUME NEW a \in archived', NEW u \in Tasks, row'[u].agent = a, status'[u] \in Active
        PROVE  loc'[w].pc = "archive" /\ loc'[w].agent = a
    <3>1. CASE Still(w)
      BY <3>1, <2>1, <2>d DEF Still
    <3>2. CASE InsertRow(w)
      <4>1. PICK n \in Tasks : CreateTask(n, loc[w].agent, loc[w].subject, loc[w].rt, 1, 0)
        BY <3>2 DEF InsertRow
      <4>2. archived' = archived /\ loc[w].pc = "insert" /\ loc[w].agent \notin archived
        BY <3>2 DEF InsertRow, agents, pc, ArchivedInv
      <4>3. u # n
        BY <4>1, <4>2, <2>1, <2>c DEF CreateTask
      <4>4. row'[u] = row[u] /\ status'[u] = status[u]
        BY <4>1, <4>3, <2>c DEF CreateTask
      <4> QED
        BY <4>2, <4>4, <2>1, <2>d
    <3>3. CASE ArchiveCancel(w)
      <4>1. /\ archived' = archived /\ row' = row /\ status'[u] = status[u]
            /\ u \notin TasksOf(loc[w].agent, Active)
        BY <3>3, <2>1 DEF ArchiveCancel, SetStatus, agents, Active
      <4>2. u \in TasksOf(a, Active)
        BY <4>1, <2>1 DEF TasksOf
      <4> QED
        BY <4>1, <4>2 DEF ArchivedInv
    <3>4. ASSUME NEW b \in Agents, Archive(w, b) PROVE loc'[w].pc = "archive" /\ loc'[w].agent = a
      <4>1. archived' = archived \cup {b} /\ row' = row /\ status' = status /\ loc[w].pc = "idle"
        BY <3>4 DEF Archive, table, pc
      <4>2. a = b
        BY <4>1, <2>1, <2>d
      <4> QED
        BY <3>4, <4>2, <2>e
    <3>5. ASSUME NEW t \in Tasks, HandleRetry(w, t) PROVE FALSE
      <4>1. archived' = archived /\ loc[w].pc = "retry" /\ t \in loc[w].rows
        BY <3>5 DEF HandleRetry, agents, pc
      <4>2. row[t].agent \notin archived
        BY <4>1 DEF ArchivedInv, Handling
      <4>3. CASE UNCHANGED table
        BY <4>1, <4>3, <2>1, <2>d DEF table
      <4>4. ASSUME NEW n \in Tasks,
                   CreateTask(n, row[t].agent, row[t].subject, row[t].runtime, row[t].attempt + 1, t)
            PROVE  FALSE
        <5>1. u # n
          BY <4>1, <4>2, <4>4, <2>1, <2>c DEF CreateTask
        <5>2. row'[u] = row[u] /\ status'[u] = status[u]
          BY <4>4, <5>1, <2>c DEF CreateTask
        <5> QED
          BY <4>1, <5>2, <2>1, <2>d
      <4> QED
        BY <3>5, <4>3, <4>4 DEF HandleRetry
    <3> QED
      BY <1>3, <3>1, <3>2, <3>3, <3>4, <3>5, StillOrNot
  <2>2. ASSUME loc'[w].pc = "insert" PROVE loc'[w].agent \notin archived'
    <3>1. CASE EnqueueAfterCancel(w)
      BY <3>1, <2>2, <2>c DEF EnqueueAfterCancel, Idle, agents
    <3>2. ASSUME NEW a \in Agents, NEW s \in Subjects, EnqueueBegin(w, a, s)
          PROVE  loc'[w].agent \notin archived'
      BY <3>2, <2>c DEF EnqueueBegin, Idle, agents
    <3> QED
      BY <2>2, <2>b, <3>1, <3>2 DEF Turn
  <2>3. ASSUME loc'[w].pc \in Handling, NEW t \in loc'[w].rows PROVE row'[t].agent \notin archived'
    <3>1. CASE Fails(w)
      <4>1. loc[w].pc # "archive" /\ t \in Tasks /\ status[t] \in Active
        BY <3>1, <2>3, FailsInFlight DEF AllInFlight, InFlight, Active
      <4>2. row' = row /\ archived' = archived
        BY <3>1 DEF Fails, SweepOffline, SweepTasks, RecoverOrphans, FailRows, agents
      <4> QED
        BY <4>1, <4>2, <2>d
    <3>2. CASE loc[w].pc \in Handling /\ loc'[w].rows \subseteq loc[w].rows
      <4>1. t \in Tasks /\ status[t] # "none" /\ row[t].agent \notin archived
        BY <3>2, <2>3 DEF ArchivedInv, Locals, Goroutine
      <4>2. CASE Still(w)
        BY <4>1, <4>2 DEF Still
      <4>3. ASSUME NEW u \in Tasks, HandleRetry(w, u) PROVE row'[t].agent \notin archived'
        <5>1. archived' = archived
          BY <4>3 DEF HandleRetry, agents
        <5>2. row'[t] = row[t]
          BY <4>1, <4>3, <2>c DEF HandleRetry, CreateTask, IsFresh, table
        <5> QED
          BY <4>1, <5>1, <5>2
      <4> QED
        BY <1>3, <3>2, <4>2, <4>3, StillOrNot DEF InsertRow, ArchiveCancel, Archive, pc, Handling
    <3> QED
      BY <2>3, <2>b, <3>1, <3>2 DEF Turn
  <2> QED
    BY <2>a, <2>1, <2>2, <2>3 DEF ArchivedInv, TasksOf
<1> QED
  BY <1>1, <1>2, <1>3, Actors

\* With requests that do not overlap and are not cut short, an archived agent is
\* left without tasks.  ArchiveAgent sets the flag and cancels in two statements,
\* and a retry never looks at the flag: both are right only because nothing comes
\* between the statements of a request.
THEOREM ArchivedStaysQuiet ==
  ASSUME NoOverlap, MaxCrashes = 0
  PROVE  Spec => []ArchivedQuiet
<1>1. Init => ArchivedInv
  BY DEF Init, ArchivedInv, Handling, Idle
<1>2. Locals /\ ArchivedInv /\ [Next]_vars => ArchivedInv'
  <2>1. ArchivedInv /\ UNCHANGED vars => ArchivedInv'
    BY DEF ArchivedInv, TasksOf, vars, table, agents
  <2> QED
    BY <2>1, ArchivedNext
<1>3. ArchivedInv => ArchivedQuiet
  BY DEF ArchivedInv, ArchivedQuiet, Settled, pc, Workers
<1> QED
  BY LocalsInit, LocalsNext, <1>1, <1>2, <1>3, PTL DEF Spec

-----------------------------------------------------------------------------
(* An agent's status says whether it has work in flight.                     *)

Busy(a) == TasksOf(a, InFlight) # {}
Told(a) == a \in byHand \/ ((agentStatus[a] = "working") <=> Busy(a))

\* The agents whose status the goroutine has yet to write.
Owed(l) ==
  IF l.pc \in Handling \cup {"count"} THEN l.agents
  ELSE IF l.pc = "write" THEN l.agents \cup {l.agent}
  ELSE IF l.pc = "claim_status" THEN {l.agent} ELSE {}

\* The status is right for every other agent but those a request has given one,
\* and what is about to be written
\* is right as well.
StatusInv ==
  \A w \in Workers :
    /\ \A a \in Agents \ Owed(loc[w]) : Told(a)
    /\ loc[w].pc = "write" => (loc[w].busy <=> Busy(loc[w].agent))
    /\ loc[w].pc = "claim_commit" => \A t \in loc[w].rows : row[t].agent = loc[w].agent
    /\ loc[w].pc = "claim_status" => Busy(loc[w].agent)
    /\ loc[w].pc # "archive"

\* The step changes no agent's status, and the agents whose work in flight it
\* changes are those it goes on to reconcile.
Owing(w) ==
  /\ agentStatus' = agentStatus /\ byHand' = byHand
  /\ Owed(loc[w]) \subseteq Owed(loc'[w])
  /\ \A a \in Agents \ Owed(loc'[w]) : Busy(a)' <=> Busy(a)

\* Ending the tasks T changes what their agents have in flight, and no other's.
LEMMA EndingT ==
  ASSUME NEW T \in SUBSET Tasks, NEW s, s \notin InFlight, SetStatus(T, s), row' = row,
         NEW a \in Agents, a \notin AgentsOf(T)
  PROVE  Busy(a)' <=> Busy(a)
<1>1. \A t \in Tasks : row[t].agent = a => t \notin T
  BY DEF AgentsOf
<1> QED
  BY <1>1 DEF SetStatus, Busy, TasksOf

\* A new task is queued: nobody's work in flight changes.
LEMMA AddingOne ==
  ASSUME Locals, NEW n \in Tasks, status[n] = "none", status'[n] = "queued",
         \A t \in Tasks \ {n} : status'[t] = status[t] /\ row'[t] = row[t], NEW a
  PROVE  Busy(a)' <=> Busy(a)
BY DEF Busy, TasksOf, InFlight

LEMMA SameTable == ASSUME UNCHANGED table, NEW a PROVE Busy(a)' <=> Busy(a)
BY DEF table, Busy, TasksOf

LEMMA OwingOrPaying ==
  ASSUME Locals, NEW w \in Workers, Acts(w)
  PROVE  \/ Owing(w) \/ ReconcileWrite(w) \/ ClaimStatus(w) \/ ArchiveCancel(w)
         \/ \E t \in Tasks : ClaimCommit(w, t)
<1>a. loc \in [Workers -> Goroutine] /\ loc[w] \in Goroutine
  BY DEF Locals
<1>b. ASSUME loc[w].pc \notin Handling \cup {"count", "write", "claim_status"},
             agentStatus' = agentStatus, byHand' = byHand, UNCHANGED table
      PROVE  Owing(w)
  BY <1>b, SameTable DEF Owing, Owed
<1>c. ASSUME NEW T \in SUBSET Tasks, NEW s, s \notin InFlight, SetStatus(T, s), row' = row,
             agentStatus' = agentStatus, byHand' = byHand, AgentsOf(T) \subseteq Owed(loc'[w]),
             loc[w].pc \notin Handling \cup {"count", "write", "claim_status"}
      PROVE  Owing(w)
  <2>1. Owed(loc[w]) = {}
    BY <1>c DEF Owed
  <2> QED
    BY <1>c, <2>1, EndingT DEF Owing
<1>d. ASSUME NEW T \in SUBSET Tasks, NEW i, NEW to, AfterCancel(w, T, i, to)
      PROVE  AgentsOf(T) \subseteq Owed(loc'[w])
  <2>1. CASE T = {}
    BY <2>1 DEF AgentsOf
  <2>2. CASE T # {}
    <3>1. loc'[w].pc = "count" /\ loc'[w].agents = AgentsOf(T)
      BY <1>a, <1>d, <2>2 DEF AfterCancel, Idle
    <3> QED
      BY <3>1 DEF Owed
  <2> QED
    BY <2>1, <2>2
<1>1. ASSUME NEW a \in Agents, NEW s \in Subjects, EnqueueBegin(w, a, s) PROVE Owing(w)
  BY <1>1, <1>b DEF EnqueueBegin, pc, agents, Handling
<1>2. CASE InsertRow(w)
  <2>1. PICK n \in Tasks : CreateTask(n, loc[w].agent, loc[w].subject, loc[w].rt, 1, 0)
    BY <1>2 DEF InsertRow
  <2>2. /\ status[n] = "none" /\ status'[n] = "queued"
        /\ \A t \in Tasks \ {n} : status'[t] = status[t] /\ row'[t] = row[t]
    BY <2>1 DEF CreateTask, IsFresh, Locals, StoreOK, StoreTypeOK
  <2>3. \A a \in Agents : Busy(a)' <=> Busy(a)
    BY <2>2, AddingOne
  <2> QED
    BY <1>2, <2>3 DEF InsertRow, pc, agents, Owing, Owed, Handling
<1>3. CASE InsertConflict(w) \/ EnqueueAfterCancel(w)
  BY <1>3, <1>b DEF InsertConflict, EnqueueAfterCancel, pc, agents, Handling
<1>4. ASSUME NEW t \in Tasks, CancelTask(w, t) PROVE Owing(w)
  BY <1>4, <1>c, <1>d DEF CancelTask, pc, agents, Handling, InFlight
<1>5. ASSUME NEW i \in Issues, NEW st \in IssueMoves, UpdateIssueStatus(w, i, st) PROVE Owing(w)
  BY <1>5, <1>b DEF UpdateIssueStatus, pc, agents, Handling
<1>6. ASSUME NEW i \in Issues, NEW a \in Agents, Assign(w, i, a) PROVE Owing(w)
  BY <1>6, <1>b DEF Assign, pc, agents, Handling
<1>7. CASE CancelTasksForIssue(w)
  <2> DEFINE T == On(loc[w].subject, Active)
  <2>1. T \in SUBSET Tasks
    BY DEF On
  <2>2. /\ SetStatus(T, "cancelled") /\ AfterCancel(w, T, loc[w].subject, loc[w].to)
        /\ loc[w].pc = "cancel" /\ row' = row /\ agentStatus' = agentStatus /\ byHand' = byHand
    BY <1>7 DEF CancelTasksForIssue, pc, agents
  <2> HIDE DEF T
  <2>3. AgentsOf(T) \subseteq Owed(loc'[w])
    BY <1>d, <2>1, <2>2
  <2> QED
    BY <1>c, <2>1, <2>2, <2>3 DEF Handling, InFlight
<1>8. ASSUME NEW i \in Issues, NEW a \in Agents, RerunIssue(w, i, a) PROVE Owing(w)
  <2> DEFINE T == TasksOf(a, Active) \cap On(i, Active)
  <2>1. T \in SUBSET Tasks
    BY DEF On
  <2>2. /\ SetStatus(T, "cancelled") /\ AfterCancel(w, T, i, a)
        /\ loc[w].pc = "idle" /\ row' = row /\ agentStatus' = agentStatus /\ byHand' = byHand
    BY <1>8 DEF RerunIssue, pc, agents
  <2> HIDE DEF T
  <2>3. AgentsOf(T) \subseteq Owed(loc'[w])
    BY <1>d, <2>1, <2>2
  <2> QED
    BY <1>c, <2>1, <2>2, <2>3 DEF Handling, InFlight
<1>9. ASSUME NEW a \in Agents, Archive(w, a) PROVE Owing(w)
  BY <1>9, <1>b DEF Archive, pc, Handling
<1>10. ASSUME NEW rt \in Runtimes, ClaimBegin(w, rt) PROVE Owing(w)
  BY <1>10, <1>b DEF ClaimBegin, pc, agents, Handling
<1>11. ASSUME NEW a \in Agents, ClaimCount(w, a) PROVE Owing(w)
  BY <1>11, <1>b DEF ClaimCount, pc, agents, Handling
<1>12. CASE ClaimSnapshot(w) \/ ClaimMiss(w)
  BY <1>12, <1>b DEF ClaimSnapshot, ClaimMiss, pc, agents, Handling
<1>13. ASSUME NEW t \in Tasks, CompleteTask(w, t) \/ FailTask(w, t) PROVE Owing(w)
  <2>1. loc'[w].pc = "count" /\ loc'[w].agents = {row[t].agent}
    <3> DEFINE l == [Idle EXCEPT !.pc = "count", !.agents = {row[t].agent}]
    <3>1. loc' = [loc EXCEPT ![w] = l]
      BY <1>13 DEF CompleteTask, FailTask
    <3>2. l.pc = "count" /\ l.agents = {row[t].agent}
      BY DEF Idle
    <3> QED
      BY <1>a, <3>1, <3>2
  <2>2. AgentsOf({t}) \subseteq Owed(loc'[w])
    BY <2>1 DEF Owed, AgentsOf
  <2>3. CASE CompleteTask(w, t)
    BY <2>3, <2>2, <1>c DEF CompleteTask, pc, agents, Handling, InFlight
  <2>4. CASE FailTask(w, t)
    BY <2>4, <2>2, <1>c DEF FailTask, pc, agents, Handling, InFlight
  <2> QED
    BY <1>13, <2>3, <2>4
<1>14. ASSUME NEW R \in SUBSET Runtimes, SweepRuntimes(w, R) PROVE Owing(w)
  BY <1>14, <1>b DEF SweepRuntimes, pc, agents, Handling
<1>15. CASE Fails(w)
  <2>1. PICK T \in SUBSET Tasks : \E why \in Retryable : FailRows(w, T, why)
    BY <1>15 DEF Fails, SweepOffline, SweepTasks, RecoverOrphans, AllInFlight, Retryable
  <2>2. SetStatus(T, "failed") /\ row' = row
    BY <2>1 DEF FailRows
  <2>3. AgentsOf(T) \subseteq Owed(loc'[w])
    <3>1. CASE T = {}
      BY <3>1 DEF AgentsOf
    <3>2. CASE T # {}
      <4>1. loc'[w].pc = "retry" /\ loc'[w].agents = AgentsOf(T)
        BY <1>a, <2>1, <3>2 DEF FailRows, Idle
      <4> QED
        BY <4>1 DEF Owed, Handling
    <3> QED
      BY <3>1, <3>2
  <2>4. loc[w].pc \in {"idle", "sweep_offline"} /\ agentStatus' = agentStatus /\ byHand' = byHand
    BY <1>15, FailsInFlight DEF Fails, SweepOffline, SweepTasks, RecoverOrphans, agents
  <2> QED
    BY <2>2, <2>3, <2>4, <1>c DEF Handling, InFlight
<1>e. \A l \in Goroutine : NextRow(l).pc \in {"count", "retry"} /\ NextRow(l).agents = l.agents
  BY DEF NextRow, Goroutine
<1>f. ASSUME loc[w].pc \in Handling, loc'[w].pc \in Handling \cup {"count"},
             loc'[w].agents = loc[w].agents
      PROVE  Owed(loc[w]) = Owed(loc'[w])
  BY <1>f DEF Owed
<1>16. ASSUME NEW t \in Tasks, HandleRetry(w, t) PROVE Owing(w)
  <2> DEFINE s    == row[t].subject
             made == MayRetry(t) /\ ~ IndexConflict(row[t].agent, s)
             l    == [loc[w] EXCEPT !.rows = @ \ {t},
                                    !.skip = IF made THEN @ \cup (Issues \cap {s}) ELSE @]
             checking == [l EXCEPT !.pc = "check", !.subject = s]
  <2>1. loc[w].pc = "retry" /\ agentStatus' = agentStatus /\ byHand' = byHand
    BY <1>16 DEF HandleRetry, pc, agents
  <2>2. l.agents = loc[w].agents /\ l \in Goroutine
    BY <1>a DEF Goroutine
  <2>3. loc' = [loc EXCEPT ![w] = checking] \/ loc' = [loc EXCEPT ![w] = NextRow(l)]
    BY <1>16 DEF HandleRetry
  <2>4. UNCHANGED table \/ \E n \in Tasks : CreateTask(n, row[t].agent, s, row[t].runtime, row[t].attempt + 1, t)
    BY <1>16 DEF HandleRetry
  <2> HIDE DEF l
  <2>5. checking.pc = "check" /\ checking.agents = l.agents
    BY <2>2 DEF Goroutine
  <2>6. loc'[w].pc \in {"check", "count", "retry"} /\ loc'[w].agents = loc[w].agents
    BY <2>2, <2>3, <2>5, <1>a, <1>e
  <2>7. ASSUME NEW n \in Tasks, CreateTask(n, row[t].agent, s, row[t].runtime, row[t].attempt + 1, t),
               NEW a \in Agents
        PROVE  Busy(a)' <=> Busy(a)
    <3>1. /\ status[n] = "none" /\ status'[n] = "queued"
          /\ \A u \in Tasks \ {n} : status'[u] = status[u] /\ row'[u] = row[u]
      BY <2>7 DEF CreateTask, IsFresh, Locals, StoreOK, StoreTypeOK
    <3> QED
      BY <3>1, AddingOne
  <2>8. \A a \in Agents : Busy(a)' <=> Busy(a)
    BY <2>4, <2>7, SameTable
  <2> QED
    BY <2>1, <2>6, <2>8, <1>f DEF Owing, Handling
<1>17. CASE HandleCheck(w)
  <2> DEFINE i == loc[w].subject
             look == issueStatus[i] = "in_progress" /\ i \notin loc[w].skip
             l == [loc[w] EXCEPT !.skip = IF look THEN @ \cup {i} ELSE @]
             reset == [l EXCEPT !.pc = "reset"]
  <2>1. loc[w].pc = "check" /\ i \in Issues /\ agentStatus' = agentStatus /\ byHand' = byHand
    BY <1>17 DEF HandleCheck, pc, Locals, LocalOK, agents
  <2>2. l \in Goroutine /\ l.agents = loc[w].agents
    BY <2>1, <1>a DEF Goroutine
  <2>3. loc' = [loc EXCEPT ![w] = reset] \/ loc' = [loc EXCEPT ![w] = NextRow(l)]
    BY <1>17 DEF HandleCheck
  <2> HIDE DEF l
  <2>4. reset.pc = "reset" /\ reset.agents = loc[w].agents
    BY <2>2 DEF Goroutine
  <2>5. loc'[w].pc \in {"reset", "count", "retry"} /\ loc'[w].agents = loc[w].agents
    BY <2>2, <2>3, <2>4, <1>a, <1>e
  <2> QED
    BY <1>17, <2>1, <2>5, <1>f, SameTable DEF HandleCheck, Owing, Handling
<1>18. CASE HandleReset(w)
  <2>1. loc' = [loc EXCEPT ![w] = NextRow(loc[w])] /\ loc[w].pc = "reset" /\ agentStatus' = agentStatus /\ byHand' = byHand
    BY <1>18 DEF HandleReset, pc, agents
  <2>2. loc'[w].pc \in {"count", "retry"} /\ loc'[w].agents = loc[w].agents
    BY <2>1, <1>a, <1>e
  <2> QED
    BY <1>18, <2>1, <2>2, <1>f, SameTable DEF HandleReset, Owing, Handling
<1>19. ASSUME NEW a \in Agents, ReconcileCount(w, a) PROVE Owing(w)
  <2>1. /\ loc[w].pc = "count" /\ a \in loc[w].agents
        /\ loc'[w].pc = "write" /\ loc'[w].agent = a /\ loc'[w].agents = loc[w].agents \ {a}
    BY <1>19, <1>a DEF ReconcileCount, pc, Goroutine
  <2>2. Owed(loc[w]) \subseteq Owed(loc'[w])
    BY <2>1 DEF Owed, Handling
  <2> QED
    BY <1>19, <2>2, SameTable DEF ReconcileCount, agents, Owing
<1> QED
  BY <1>1, <1>2, <1>3, <1>4, <1>5, <1>6, <1>7, <1>8, <1>9, <1>10, <1>11, <1>12, <1>13, <1>14,
     <1>15, <1>16, <1>17, <1>18, <1>19
  DEF Acts, Request, Sweep, Continue, Fails

LEMMA StatusNext ==
  ASSUME NoOverlap, MaxCrashes = 0, Archivable = {}, Locals, StatusInv, Next
  PROVE  StatusInv'
<1>1. CASE Outside
  <2>1. \A a \in Agents : (Busy(a)' <=> Busy(a)) /\ (Told(a) => Told(a)')
    BY <1>1, OutsideSame DEF Busy, Told, Outside
  <2>2. ASSUME NEW w \in Workers
        PROVE  /\ loc'[w].pc = loc[w].pc /\ loc'[w].agent = loc[w].agent /\ loc'[w].rows = loc[w].rows
               /\ loc'[w].busy = loc[w].busy /\ Owed(loc'[w]) = Owed(loc[w])
    BY <1>1, OutsideKeeps DEF Owed
  <2>3. ASSUME NEW w \in Workers
        PROVE  Busy(loc[w].agent)' <=> Busy(loc[w].agent)
    BY <1>1, <2>2 DEF Busy, TasksOf, Outside, InFlight
  <2>4. ASSUME NEW w \in Workers, NEW a \in Agents \ Owed(loc'[w]) PROVE Told(a)'
    BY <2>1, <2>2 DEF StatusInv
  <2> QED
    BY <1>1, <2>2, <2>3, <2>4 DEF StatusInv, Outside
<1>2. ~ ServerRestart
  BY DEF ServerRestart, Locals, StoreOK, StoreTypeOK
<1>3. ASSUME NEW w \in Workers, Acts(w) PROVE StatusInv'
  <2>a. \A v \in Workers : v = w
    BY DEF NoOverlap
  <2>b. Turn(w)
    BY <1>3, Turns
  <2>c. loc \in [Workers -> Goroutine] /\ loc[w] \in Goroutine /\ agentStatus \in [Agents -> AgentState]
    BY DEF Locals, StoreOK, StoreTypeOK
  <2>1. ASSUME NEW a \in Agents, a \notin Owed(loc'[w]) PROVE Told(a)'
    <3>1. CASE Owing(w)
      BY <3>1, <2>1 DEF Owing, StatusInv, Told
    <3>2. CASE ReconcileWrite(w)
      <4>1. /\ loc[w].pc = "write" /\ (Busy(a)' <=> Busy(a))
            /\ agentStatus' = [agentStatus EXCEPT ![loc[w].agent] = IF loc[w].busy THEN "working" ELSE "idle"]
            /\ byHand' = byHand \ {loc[w].agent}
        BY <3>2, SameTable DEF ReconcileWrite, pc
      <4>2. a \notin loc[w].agents
        <5>1. CASE loc[w].agents = {}
          BY <5>1
        <5>2. CASE loc[w].agents # {}
          <6>1. loc'[w] = [loc[w] EXCEPT !.pc = "count", !.agent = None, !.busy = FALSE]
            BY <3>2, <5>2, <2>c DEF ReconcileWrite
          <6>2. loc'[w].pc = "count" /\ loc'[w].agents = loc[w].agents
            BY <6>1, <2>c DEF Goroutine
          <6> QED
            BY <6>2, <2>1 DEF Owed
        <5> QED
          BY <5>1, <5>2
      <4>3. CASE a = loc[w].agent
        BY <4>1, <4>3, <2>c DEF StatusInv, Told
      <4>4. CASE a # loc[w].agent
        <5>1. Told(a)
          BY <4>1, <4>2, <4>4 DEF StatusInv, Owed, Handling
        <5> QED
          BY <5>1, <4>1, <4>4, <2>c DEF Told
      <4> QED
        BY <4>3, <4>4
    <3>3. CASE ClaimStatus(w)
      <4>1. /\ loc[w].pc = "claim_status" /\ (Busy(a)' <=> Busy(a))
            /\ agentStatus' = [agentStatus EXCEPT ![loc[w].agent] = "working"]
            /\ byHand' = byHand \ {loc[w].agent}
        BY <3>3, SameTable DEF ClaimStatus, pc
      <4>2. CASE a = loc[w].agent
        BY <4>1, <4>2, <2>c DEF StatusInv, Told
      <4>3. CASE a # loc[w].agent
        <5>1. Told(a)
          BY <4>1, <4>3 DEF StatusInv, Owed, Handling
        <5> QED
          BY <5>1, <4>1, <4>3, <2>c DEF Told
      <4> QED
        BY <4>2, <4>3
    <3>4. ASSUME NEW t \in Tasks, ClaimCommit(w, t) PROVE Told(a)'
      <4>1. /\ loc[w].pc = "claim_commit" /\ t \in loc[w].rows /\ SetStatus({t}, "dispatched")
            /\ row' = row /\ agentStatus' = agentStatus /\ byHand' = byHand
            /\ loc'[w].pc = "claim_status" /\ loc'[w].agent = loc[w].agent
        BY <3>4, <2>c DEF ClaimCommit, pc, agents, Goroutine
      <4>2. a # row[t].agent /\ Told(a)
        BY <4>1, <2>1 DEF StatusInv, Owed, Handling
      <4>3. Busy(a)' <=> Busy(a)
        BY <4>1, <4>2 DEF SetStatus, Busy, TasksOf
      <4> QED
        BY <4>1, <4>2, <4>3 DEF Told
    <3>5. ~ ArchiveCancel(w)
      BY DEF ArchiveCancel, StatusInv, pc
    <3> QED
      BY <1>3, <3>1, <3>2, <3>3, <3>4, <3>5, OwingOrPaying
  <2>2. ASSUME loc'[w].pc = "write" PROVE loc'[w].busy <=> Busy(loc[w].agent)'
    <3>1. PICK a \in Agents : ReconcileCount(w, a)
      BY <2>2, <2>b DEF Turn
    <3>2. /\ loc'[w].agent = a /\ loc'[w].busy = (TasksOf(a, InFlight) # {})
          /\ status' = status /\ row' = row
      BY <3>1, <2>c DEF ReconcileCount, table, Goroutine
    <3> QED
      BY <3>2 DEF Busy, TasksOf
  <2>3. ASSUME loc'[w].pc = "claim_commit", NEW t \in loc'[w].rows PROVE row'[t].agent = loc'[w].agent
    <3>1. ClaimSnapshot(w)
      BY <2>3, <2>b DEF Turn
    <3>2. loc'[w] = [loc[w] EXCEPT !.pc = "claim_commit", !.rows = Claimable(loc[w].agent)]
      BY <3>1, <2>3, <2>c DEF ClaimSnapshot, NextAgent, Idle
    <3>3. loc'[w].rows = Claimable(loc[w].agent) /\ loc'[w].agent = loc[w].agent /\ row' = row
      BY <3>1, <3>2, <2>c DEF ClaimSnapshot, table, Goroutine
    <3> QED
      BY <3>3, <2>3 DEF Claimable, TasksOf
  <2>4. ASSUME loc'[w].pc = "claim_status" PROVE Busy(loc[w].agent)'
    <3>1. PICK t \in Tasks : ClaimCommit(w, t)
      BY <2>4, <2>b DEF Turn
    <3>2. /\ loc[w].pc = "claim_commit" /\ t \in loc[w].rows /\ status'[t] = "dispatched"
          /\ row' = row /\ loc'[w].agent = loc[w].agent
      BY <3>1, <2>c DEF ClaimCommit, SetStatus, pc, Goroutine
    <3>3. row'[t].agent = loc'[w].agent
      BY <3>2 DEF StatusInv
    <3> QED
      BY <3>2, <3>3 DEF Busy, TasksOf, InFlight
  <2>5. loc'[w].pc # "archive"
    BY <2>b DEF Turn, Archive
  <2> QED
    BY <2>a, <2>1, <2>2, <2>3, <2>4, <2>5 DEF StatusInv
<1> QED
  BY <1>1, <1>2, <1>3, Actors

\* With requests that do not overlap and are not cut short, and agents that are
\* not archived (ArchiveAgent does not reconcile), an agent that is shown as
\* working has work in flight, and one that is shown as idle has none, unless a
\* request has set its status since the server last wrote it.
THEOREM StatusStaysSettled ==
  ASSUME NoOverlap, MaxCrashes = 0, Archivable = {}
  PROVE  Spec => []StatusSettled
<1>1. Init => StatusInv
  BY DEF Init, StatusInv, Told, Busy, TasksOf, InFlight, Owed, Handling, Idle
<1>2. Locals /\ StatusInv /\ [Next]_vars => StatusInv'
  <2>1. StatusInv /\ UNCHANGED vars => StatusInv'
    BY DEF StatusInv, Told, Busy, TasksOf, Owed, vars, table, agents
  <2> QED
    BY <2>1, StatusNext
<1>3. StatusInv => StatusSettled
  BY DEF StatusInv, StatusSettled, Settled, Told, Busy, Owed, Handling, pc, Workers
<1> QED
  BY LocalsInit, LocalsNext, <1>1, <1>2, <1>3, PTL DEF Spec
=============================================================================
