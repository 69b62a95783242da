-------------------------- MODULE LocalSkillProofs --------------------------
(***************************************************************************)
(* HandedOnce, NotStranded and AckSettles of LocalSkillRequests, for any   *)
(* number of requests, overlapping calls and faults, for both stores, and  *)
(* whether or not a command that failed was executed; CompletedExists      *)
(* where it was not; and RunningTimesOut for imports.  The store           *)
(* implements RequestHandoff (HandoffRefined).                             *)
(*                                                                         *)
(* The record of a request only moves forward (Moves): created, claimed    *)
(* once, settled; a timeout may come before the claim.  Hence what a       *)
(* goroutine has loaded is still worth something when it acts on it        *)
(* (Holds): a record that was not pending is not pending, one that was     *)
(* claimed and settled is settled.                                         *)
(*                                                                         *)
(* CompletedExists rests on what the unique name of the skill does         *)
(* (ExistsInv): it lets one goroutine at a time into the stretch between   *)
(* the creation and the Complete, and keeps the others out afterwards.     *)
(***************************************************************************)
EXTENDS LocalSkillRequests, FiniteSetTheorems, TLAPS

Settled(r) == rec[r] \in Terminal \cup {"gone"}
Reporting == {"report", "complete", "fail"}
PCs == {"idle", "get", "expire", "unlink", "got", "range", "claimed", "undo"}

Jobs == [at : {"none", "ready", "sent", "acked", "done"},
         body : {"completed", "failed"}, left : 0 .. MaxReports]
Shown == {"idle", "polling", "asking", "shown", "error"}
Statuses == {"none", "pending", "running", "gone"} \cup Terminal
Clocks == [age : Nat, run : Nat, idle : Nat]

\* TypeOK, with names for its parts.
Typed ==
  /\ rec \in [Requests -> Statuses] /\ clock \in [Requests -> Clocks]
  /\ pending \subseteq Requests /\ score \in [Requests -> Nat]
  /\ skill \in Requests \cup {None} /\ loc \in [Handlers -> Locals]
  /\ job \in [Requests -> Jobs] /\ ui \in [Requests -> Shown]
  /\ handed \in [Requests -> Nat] /\ faults \in Nat

\* What the store keeps, request by request.
Kept(q) ==
  /\ ui[q] = "idle" <=> rec[q] = "none"
  /\ rec[q] = "none" => q \notin pending /\ handed[q] = 0
  /\ q \in pending => handed[q] = 0
  /\ handed[q] <= 1
  /\ rec[q] = "pending" => q \in pending

\* What the daemon knows of a request.
Told(q) ==
  /\ job[q].at # "none" => handed[q] = 1
  /\ job[q].at = "acked" => Settled(q)
  /\ job[q].at = "ready" => job[q].left # 0

\* What a goroutine that holds l knows.
Holds(l) ==
  /\ l.pc \notin {"idle", "range"} => l.r \in Requests /\ rec[l.r] # "none"
  /\ l.pc = "unlink" \/ (l.pc = "got" /\ l.seen # "pending") => rec[l.r] # "pending"
  /\ l.op \in Reporting \/ l.pc = "claimed" => l.r \in Requests /\ handed[l.r] = 1
  /\ /\ l.op \in Reporting
     /\ l.pc = "unlink" \/ (l.pc = "got" /\ l.seen \in Terminal \cup {"gone"})
     => Settled(l.r)
  /\ l.pc \in {"range", "claimed"} => l.op = "pop"
  /\ l.pc = "undo" => l.op = "complete"
  /\ l.pc = "idle" \/ l.op = "none" => l = Idle

Inv ==
  /\ Typed
  /\ \A q \in Requests : Kept(q) /\ Told(q)
  /\ \A u \in Handlers : Holds(loc[u])

-----------------------------------------------------------------------------
(* Types.                                                                    *)

LEMMA Bounds == /\ MaxPops \in Nat /\ MaxReports \in Nat /\ MaxReports > 0 /\ Retention \in Nat
                /\ \A n \in 0 .. MaxPops : n # MaxPops => n + 1 \in 0 .. MaxPops
                /\ \A n \in 0 .. MaxReports : n # 0 => n - 1 \in 0 .. MaxReports
  <1>1. MaxPops \in Nat /\ MaxReports \in Nat /\ MaxReports > 0 /\ Retention \in Nat
    BY TimeAssumption
  <1> QED
    BY <1>1

LEMMA LocalsTyped ==
  ASSUME Typed, NEW w \in Handlers
  PROVE  /\ Idle \in Locals
         /\ \A pc \in PCs : Goto(w, pc) => loc' \in [Handlers -> Locals]
         /\ \A op \in Reporting : Resume(w, op) => loc' \in [Handlers -> Locals]
         /\ Finish(w) => loc' \in [Handlers -> Locals]
         /\ \A op \in {"poll", "report"}, r \in Requests : Serving("get", op, r) \in Locals
         /\ Serving("range", "pop", None) \in Locals
  <1>1. Idle \in Locals
    BY TimeAssumption DEF Idle, Locals
  <1>2. /\ \A op \in {"poll", "report"}, r \in Requests : Serving("get", op, r) \in Locals
        /\ Serving("range", "pop", None) \in Locals
    BY TimeAssumption DEF Serving, Locals
  <1>3. \A l \in Locals, pc \in PCs : [l EXCEPT !.pc = pc] \in Locals
    BY DEF Locals, PCs
  <1>4. \A l \in Locals, op \in Reporting : [l EXCEPT !.op = op, !.pc = "get"] \in Locals
    BY DEF Locals, Reporting
  <1>5. \A pc \in PCs : Goto(w, pc) => loc' \in [Handlers -> Locals]
    BY <1>3 DEF Typed, Goto
  <1>6. \A op \in Reporting : Resume(w, op) => loc' \in [Handlers -> Locals]
    <2>1. loc \in [Handlers -> Locals]
      BY DEF Typed
    <2>2. \A op : Resume(w, op) => loc' = [loc EXCEPT ![w] = [loc[w] EXCEPT !.op = op, !.pc = "get"]]
      BY <2>1 DEF Resume
    <2>3. \A op \in Reporting : [loc[w] EXCEPT !.op = op, !.pc = "get"] \in Locals
      BY <1>4, <2>1
    <2>4. TAKE op \in Reporting
    <2>5. HAVE Resume(w, op)
    <2>6. PICK l \in Locals : loc' = [loc EXCEPT ![w] = l]
      BY <2>2, <2>3, <2>5
    <2> QED
      BY <2>1, <2>6
  <1>7. Finish(w) => loc' \in [Handlers -> Locals]
    BY <1>1 DEF Typed, Finish
  <1> QED
    BY <1>1, <1>2, <1>5, <1>6, <1>7

LEMMA AnswersTyped ==
  ASSUME Typed, NEW w \in Handlers, loc[w].op \in Reporting => loc[w].r \in Requests
  PROVE  /\ loc[w].op \in Reporting /\ (Acknowledge(w) \/ Refuse(w))
            => loc' \in [Handlers -> Locals] /\ job' \in [Requests -> Jobs]
         /\ Failed(w) /\ loc[w].op \in {"poll", "pop"} \cup Reporting
            => /\ loc' \in [Handlers -> Locals] /\ job' \in [Requests -> Jobs]
               /\ ui' \in [Requests -> Shown]
  <1>1. job \in [Requests -> Jobs] /\ ui \in [Requests -> Shown]
    BY DEF Typed
  <1>2. \A j \in Jobs : Retried(j) \in Jobs /\ [j EXCEPT !.at = "acked"] \in Jobs
    BY DEF Jobs, Retried
  <1>3. loc[w].op \in Reporting /\ Acknowledge(w)
        => loc' \in [Handlers -> Locals] /\ job' \in [Requests -> Jobs]
    BY <1>1, <1>2, LocalsTyped DEF Acknowledge
  <1>4. loc[w].op \in Reporting /\ Refuse(w)
        => loc' \in [Handlers -> Locals] /\ job' \in [Requests -> Jobs]
    BY <1>1, <1>2, LocalsTyped DEF Refuse
  <1>5. Failed(w) /\ loc[w].op = "poll"
        => /\ loc' \in [Handlers -> Locals] /\ job' \in [Requests -> Jobs]
           /\ ui' \in [Requests -> Shown]
    BY <1>1, LocalsTyped DEF Failed, Shown
  <1>6. Failed(w) /\ loc[w].op = "pop"
        => /\ loc' \in [Handlers -> Locals] /\ job' \in [Requests -> Jobs]
           /\ ui' \in [Requests -> Shown]
    BY <1>1, LocalsTyped DEF Failed
  <1>7. Failed(w) /\ loc[w].op \in Reporting
        => /\ loc' \in [Handlers -> Locals] /\ job' \in [Requests -> Jobs]
           /\ ui' \in [Requests -> Shown]
    BY <1>1, <1>4 DEF Failed, Reporting
  <1> QED
    BY <1>3, <1>4, <1>5, <1>6, <1>7

LEMMA StoreTyped ==
  ASSUME Typed, NEW r \in Requests
  PROVE  /\ \A s \in Terminal : Set(r, s) => rec' \in [Requests -> Statuses] /\ clock' \in [Requests -> Clocks]
         /\ ClaimScript(r) => /\ rec' \in [Requests -> Statuses] /\ clock' \in [Requests -> Clocks]
                              /\ pending' \subseteq Requests /\ handed' \in [Requests -> Nat]
         /\ Unlink(r) => pending' \subseteq Requests
  <1>1. rec \in [Requests -> Statuses] /\ clock \in [Requests -> Clocks]
    BY DEF Typed
  <1>2. \A c \in Clocks : [c EXCEPT !.idle = 0] \in Clocks /\ [c EXCEPT !.run = 0, !.idle = 0] \in Clocks
    BY DEF Clocks
  <1>3. \A s \in Terminal : Set(r, s) => rec' \in [Requests -> Statuses] /\ clock' \in [Requests -> Clocks]
    <2> SUFFICES ASSUME NEW s \in Terminal, Set(r, s)
                 PROVE  rec' \in [Requests -> Statuses] /\ clock' \in [Requests -> Clocks]
      OBVIOUS
    <2>1. rec' = [rec EXCEPT ![r] = s] /\ s \in Statuses
      BY DEF Set, Statuses
    <2>2. clock' = [clock EXCEPT ![r] = [clock[r] EXCEPT !.idle = 0]]
      BY <1>1 DEF Set
    <2> QED
      BY <1>1, <1>2, <2>1, <2>2
  <1>4. Unlink(r) => pending' \subseteq Requests
    BY DEF Unlink, Typed
  <1>5. ClaimScript(r) => clock' \in [Requests -> Clocks]
    <2>1. ClaimScript(r) => clock' = [clock EXCEPT ![r] = [clock[r] EXCEPT !.run = 0, !.idle = 0]]
      BY <1>1 DEF ClaimScript
    <2> QED
      BY <1>1, <1>2, <2>1
  <1>6. ClaimScript(r) => rec' \in [Requests -> Statuses] /\ handed' \in [Requests -> Nat]
    BY <1>1 DEF ClaimScript, Statuses, Typed
  <1> QED
    BY <1>3, <1>4, <1>5, <1>6 DEF ClaimScript

LEMMA TypeParts == TypeOK <=> Typed
  BY DEF TypeOK, Typed, Statuses, Clocks, Jobs, Shown

LEMMA StepTyped == Inv /\ Next => Typed'
  <1> SUFFICES ASSUME Inv, Next PROVE Typed'
    OBVIOUS
  <1>0. Typed /\ \A u \in Handlers : Holds(loc[u])
    BY DEF Inv
  <1>a. \A u \in Handlers : /\ loc[u].pc \notin {"idle", "range"} => loc[u].r \in Requests
                            /\ loc[u].op \in Reporting => loc[u].r \in Requests
                            /\ loc[u].pc = "undo" => loc[u].op = "complete"
                            /\ loc[u].op \in {"none", "poll", "pop"} \cup Reporting
                            /\ loc[u].op = "none" => loc[u] = Idle
    BY <1>0 DEF Holds, Typed, Locals, Reporting, Idle
  <1>1. ASSUME NEW w \in Handlers, Load(w) PROVE Typed'
    <2>1. \A l \in Locals, pc \in PCs, s \in Statuses : [l EXCEPT !.pc = pc, !.seen = s] \in Locals
      <3>1. ASSUME NEW l \in Locals, NEW pc \in PCs PROVE [l EXCEPT !.pc = pc] \in Locals
        BY <3>1 DEF Locals, PCs
      <3>2. ASSUME NEW l \in Locals, NEW s \in Statuses PROVE [l EXCEPT !.seen = s] \in Locals
        BY <3>2 DEF Locals, Statuses, Terminal
      <3>3. ASSUME NEW l \in Locals, NEW pc \in PCs, NEW s \in Statuses
            PROVE  [l EXCEPT !.pc = pc, !.seen = s] = [[l EXCEPT !.pc = pc] EXCEPT !.seen = s]
        BY DEF Locals
      <3> QED
        BY <3>1, <3>2, <3>3
    <2> DEFINE pc == IF TimedOut(loc[w].r) THEN "expire" ELSE "got"
    <2> DEFINE seen == IF TimedOut(loc[w].r) THEN "timeout" ELSE rec[loc[w].r]
    <2>2. pc \in PCs /\ seen \in Statuses
      BY <1>1, <1>0, <1>a DEF Typed, Load, PCs, Statuses, Terminal
    <2>3. loc' = [loc EXCEPT ![w] = [loc[w] EXCEPT !.pc = pc, !.seen = seen]]
      BY <1>1, <1>0 DEF Typed, Load
    <2>4. [loc[w] EXCEPT !.pc = pc, !.seen = seen] \in Locals
      BY <1>0, <2>1, <2>2 DEF Typed
    <2> HIDE DEF pc, seen
    <2> QED
      BY <1>1, <1>0, <2>3, <2>4 DEF Typed, Load, store
  <1>2. ASSUME NEW w \in Handlers, PersistTimeout(w) PROVE Typed'
    BY <1>2, <1>0, <1>a, LocalsTyped, StoreTyped DEF Typed, PersistTimeout, Terminal, PCs, store
  <1>3. ASSUME NEW w \in Handlers, UnlinkTimedOut(w) PROVE Typed'
    BY <1>3, <1>0, <1>a, LocalsTyped, StoreTyped DEF Typed, UnlinkTimedOut, PCs, store
  <1>4. ASSUME NEW w \in Handlers, Peek(w) PROVE Typed'
    <2>1. \A r \in Requests, l \in Locals, n \in 0 .. MaxPops :
             [l EXCEPT !.pc = "get", !.r = r, !.pops = n] \in Locals
      BY DEF Locals
    <2>2. loc[w].pops \in 0 .. MaxPops
      BY <1>0 DEF Typed, Locals
    <2>3. CASE Finish(w)
      BY <1>4, <1>0, <2>3, LocalsTyped DEF Typed, Peek, store
    <2>4. CASE ~ Finish(w)
      <3>1. loc[w].pops + 1 \in 0 .. MaxPops
        BY <1>4, <2>2, <2>4, Bounds DEF Peek
      <3>2. PICK r \in Requests :
              loc' = [loc EXCEPT ![w] = [loc[w] EXCEPT !.pc = "get", !.r = r, !.pops = loc[w].pops + 1]]
        BY <1>4, <1>0, <2>4 DEF Peek, Typed
      <3>3. loc' \in [Handlers -> Locals]
        BY <1>0, <2>1, <3>1, <3>2 DEF Typed
      <3> QED
        BY <1>4, <1>0, <3>3 DEF Typed, Peek, store
    <2> QED
      BY <2>3, <2>4
  <1>5. ASSUME NEW w \in Handlers, Drop(w) PROVE Typed'
    BY <1>5, <1>0, <1>a, LocalsTyped, StoreTyped DEF Typed, Drop, At, PCs, store
  <1>6. ASSUME NEW w \in Handlers, Claim(w) PROVE Typed'
    BY <1>6, <1>0, <1>a, LocalsTyped, StoreTyped DEF Typed, Claim, At, PCs, store
  <1>7. ASSUME NEW w \in Handlers, Persist(w) PROVE Typed'
    BY <1>7, <1>0, <1>a, LocalsTyped, StoreTyped, AnswersTyped DEF Typed, Persist, At, Result, Terminal, Reporting, store
  <1>8. ASSUME NEW w \in Handlers, Answer(w) PROVE Typed'
    BY <1>8, <1>0, <1>a, LocalsTyped DEF Typed, Answer, At, Shown, store
  <1>9. ASSUME NEW w \in Handlers, Deliver(w) PROVE Typed'
    <2>1. \A body \in {"completed", "failed"} : [at |-> "ready", body |-> body, left |-> MaxReports] \in Jobs
      BY Bounds DEF Jobs
    <2>2. job' \in [Requests -> Jobs]
      BY <1>9, <1>0, <1>a, <2>1 DEF Typed, Deliver
    <2> QED
      BY <1>9, <1>0, <2>2, LocalsTyped DEF Typed, Deliver, store
  <1>10. ASSUME NEW w \in Handlers, Ignore(w) PROVE Typed'
    BY <1>10, <1>0, <1>a, AnswersTyped DEF Typed, Ignore, At, Reporting, store
  <1>11. ASSUME NEW w \in Handlers, Accept(w) PROVE Typed'
    BY <1>11, <1>0, <1>a, LocalsTyped DEF Typed, Accept, At, Reporting, store
  <1>12. ASSUME NEW w \in Handlers, Rollback(w) PROVE Typed'
    BY <1>12, <1>0, <1>a, AnswersTyped DEF Typed, Rollback, Reporting, store
  <1>13. ASSUME NEW w \in Handlers, Heartbeat(w) PROVE Typed'
    BY <1>13, <1>0, <1>a, LocalsTyped DEF Typed, Heartbeat, store
  <1>14. ASSUME NEW w \in Handlers, RedisFails(w) PROVE Typed'
    <2>1. loc' \in [Handlers -> Locals] /\ job' \in [Requests -> Jobs] /\ ui' \in [Requests -> Shown]
      <3>1. loc[w].op # "none"
        BY <1>14, <1>a DEF RedisFails, At, Idle
      <3>2. CASE Undoes(w)
        BY <1>14, <1>0, <3>2, LocalsTyped DEF RedisFails, Typed, PCs
      <3>3. CASE ~ Undoes(w)
        BY <1>14, <1>0, <1>a, <3>1, <3>3, AnswersTyped DEF RedisFails
      <3> QED
        BY <3>2, <3>3
    <2>2. /\ rec' \in [Requests -> Statuses] /\ clock' \in [Requests -> Clocks]
          /\ pending' \subseteq Requests /\ handed' \in [Requests -> Nat]
      BY <1>14, <1>0, <1>a, StoreTyped DEF RedisFails, Typed, At, Result, Terminal
    <2> QED
      BY <1>14, <1>0, <2>1, <2>2 DEF RedisFails, Typed
  <1>15. ASSUME NEW w \in Handlers, UnlinkFails(w) PROVE Typed'
    BY <1>15, <1>0, <1>a, LocalsTyped DEF Typed, UnlinkFails, At, PCs, store
  <1>16. ASSUME NEW w \in Handlers, DatabaseFails(w) PROVE Typed'
    BY <1>16, <1>0, <1>a, LocalsTyped, AnswersTyped DEF Typed, DatabaseFails, At, Reporting, store
  <1>17. ASSUME NEW w \in Handlers, ClientGivesUp(w) PROVE Typed'
    <2>1. \A l \in Locals : [l EXCEPT !.waits = FALSE] \in Locals
      BY DEF Locals
    <2>2. loc' = [loc EXCEPT ![w] = [loc[w] EXCEPT !.waits = FALSE]]
      BY <1>17, <1>0 DEF ClientGivesUp, Typed
    <2>3. loc' \in [Handlers -> Locals]
      BY <1>17, <1>0, <2>1, <2>2 DEF Typed
    <2>4. \A j \in Jobs : Retried(j) \in Jobs
      BY DEF Jobs, Retried
    <2>5. job' \in [Requests -> Jobs]
      BY <1>17, <1>0, <2>4 DEF Typed, ClientGivesUp
    <2> QED
      BY <1>17, <1>0, <2>3, <2>5 DEF Typed, ClientGivesUp, store
  <1>18. ASSUME NEW w \in Handlers, Cut(w) PROVE Typed'
    BY <1>18, <1>0, <1>a, AnswersTyped DEF Typed, Cut, store
  <1>19. ASSUME NEW w \in Handlers, NEW r \in Requests, Poll(w, r) PROVE Typed'
    BY <1>19, <1>0, <1>a, LocalsTyped DEF Typed, Poll, Shown, store
  <1>20. ASSUME NEW w \in Handlers, NEW r \in Requests, Report(w, r) PROVE Typed'
    <2>1. \A j \in Jobs, n \in 0 .. MaxReports : [j EXCEPT !.at = "sent", !.left = n] \in Jobs
      BY DEF Jobs
    <2>2. job[r] \in Jobs /\ job[r].left # 0 /\ job[r].left \in 0 .. MaxReports
      BY <1>20, <1>0 DEF Typed, Inv, Told, Report, Jobs
    <2>3. job' = [job EXCEPT ![r] = [job[r] EXCEPT !.at = "sent", !.left = job[r].left - 1]]
      BY <1>20, <1>0 DEF Typed, Report
    <2>4. job' \in [Requests -> Jobs]
      BY <1>0, <2>1, <2>2, <2>3, Bounds DEF Typed
    <2> QED
      BY <1>20, <1>0, <2>4, LocalsTyped DEF Typed, Report, store
  <1>21. ASSUME NEW r \in Requests, Initiate(r) PROVE Typed'
    <2>1. Cardinality({s \in Requests : rec[s] # "none"}) \in Nat
      BY RequestsAssumption, FS_Subset, FS_CardinalityType
    <2> QED
      BY <1>21, <1>0, <2>1 DEF Typed, Initiate, Statuses, Shown
  <1>22. ASSUME NEW r \in Requests, StopPolling(r) PROVE Typed'
    BY <1>22, <1>0, <1>a DEF Typed, StopPolling, Shown, store
  <1>23. ASSUME DaemonStops PROVE Typed'
    <2>1. \A j \in Jobs : [j EXCEPT !.at = "done"] \in Jobs
      BY DEF Jobs
    <2>2. \A l \in Locals : [l EXCEPT !.waits = FALSE] \in Locals
      BY DEF Locals
    <2>3. job' \in [Requests -> Jobs]
      BY <1>23, <1>0, <2>1 DEF Typed, DaemonStops
    <2>4. loc' \in [Handlers -> Locals]
      BY <1>23, <1>0, <2>2 DEF Typed, DaemonStops
    <2> QED
      BY <1>23, <1>0, <2>3, <2>4 DEF Typed, DaemonStops, store
  <1>24. ASSUME Tick PROVE Typed'
    <2>1. \A n \in Nat : Cap(n) \in Nat
      BY DEF Cap
    <2>2. rec' \in [Requests -> Statuses]
      BY <1>24, <1>0 DEF Typed, Tick, Statuses
    <2>3. clock' \in [Requests -> Clocks]
      BY <1>24, <1>0, <2>1 DEF Typed, Tick, Clocks
    <2> QED
      BY <1>24, <1>0, <2>2, <2>3 DEF Typed, Tick
  <1>25. ASSUME NEW w \in Handlers, Serve(w) PROVE Typed'
    BY <1>25, <1>1, <1>2, <1>3, <1>4, <1>5, <1>6, <1>7, <1>8, <1>9, <1>10, <1>11, <1>12 DEF Serve, Redis
  <1>26. ASSUME NEW w \in Handlers, Fault(w) PROVE Typed'
    BY <1>26, <1>14, <1>15, <1>16, <1>17, <1>18 DEF Fault
  <1> QED
    BY <1>13, <1>19, <1>20, <1>21, <1>22, <1>23, <1>24, <1>25, <1>26 DEF Next

-----------------------------------------------------------------------------
(* Records move forward.                                                     *)

\* What happens to the record, the member and the count of q in a step.
Moves(q) ==
  \/ rec'[q] = rec[q] /\ (q \in pending' <=> q \in pending) /\ handed'[q] = handed[q]
  \/ rec[q] # "none" /\ Settled(q)' /\ (q \in pending' <=> q \in pending) /\ handed'[q] = handed[q]
  \/ rec[q] # "pending" /\ rec'[q] = rec[q] /\ q \notin pending' /\ handed'[q] = handed[q]
  \/ q \in pending /\ q \notin pending' /\ rec'[q] = "running" /\ handed'[q] = handed[q] + 1
  \/ rec[q] = "none" /\ rec'[q] = "pending" /\ q \in pending' /\ handed'[q] = handed[q]

Onward(q) ==
  /\ rec[q] # "none" => rec'[q] # "none"
  /\ rec[q] \notin {"none", "pending"} => rec'[q] # "pending"
  /\ handed[q] = 1 => handed'[q] = 1 /\ (Settled(q) => Settled(q)')

MovesUI(q) == (ui'[q] = "idle" <=> rec'[q] = "none") /\ Moves(q)

LEMMA MovesOn ==
  ASSUME NEW q \in Requests, Inv, MovesUI(q), handed'[q] \in Nat
  PROVE  Kept(q)' /\ Onward(q)
  BY DEF Inv, Typed, Kept, Onward, Moves, MovesUI, Settled, Terminal

LEMMA StepMoves == Inv /\ Next => \A q \in Requests : MovesUI(q)
  <1> SUFFICES ASSUME Inv, Next PROVE \A q \in Requests : MovesUI(q)
    OBVIOUS
  <1>0. Typed /\ (\A q \in Requests : Kept(q)) /\ \A u \in Handlers : Holds(loc[u])
    BY DEF Inv
  <1>1. ASSUME NEW w \in Handlers, Load(w) PROVE \A q \in Requests : MovesUI(q)
    BY <1>1, <1>0 DEF Load, Typed, Kept, Holds, Moves, MovesUI, store
  <1>2. ASSUME NEW w \in Handlers, PersistTimeout(w) PROVE \A q \in Requests : MovesUI(q)
    BY <1>2, <1>0 DEF PersistTimeout, Set, Terminal, Settled, Typed, Kept, Holds, Moves, MovesUI
  <1>3. ASSUME NEW w \in Handlers, UnlinkTimedOut(w) PROVE \A q \in Requests : MovesUI(q)
    BY <1>3, <1>0 DEF UnlinkTimedOut, Unlink, Settled, Typed, Kept, Holds, Moves, MovesUI
  <1>4. ASSUME NEW w \in Handlers, Peek(w) PROVE \A q \in Requests : MovesUI(q)
    BY <1>4, <1>0 DEF Peek, Typed, Kept, Holds, Moves, MovesUI, store
  <1>5. ASSUME NEW w \in Handlers, Drop(w) PROVE \A q \in Requests : MovesUI(q)
    BY <1>5, <1>0 DEF Drop, Unlink, At, Typed, Kept, Holds, Moves, MovesUI
  <1>6. ASSUME NEW w \in Handlers, Claim(w) PROVE \A q \in Requests : MovesUI(q)
    BY <1>6, <1>0 DEF Claim, ClaimScript, Unlink, At, Typed, Kept, Holds, Moves, MovesUI
  <1>7. ASSUME NEW w \in Handlers, Persist(w) PROVE \A q \in Requests : MovesUI(q)
    BY <1>7, <1>0 DEF Persist, Set, At, Result, Settled, Terminal, Typed, Kept, Holds, Moves, MovesUI
  <1>8. ASSUME NEW w \in Handlers, Answer(w) PROVE \A q \in Requests : MovesUI(q)
    BY <1>8, <1>0 DEF Answer, At, Typed, Kept, Holds, Moves, MovesUI, store
  <1>9. ASSUME NEW w \in Handlers, Deliver(w) PROVE \A q \in Requests : MovesUI(q)
    BY <1>9, <1>0 DEF Deliver, Typed, Kept, Holds, Moves, MovesUI, store
  <1>10. ASSUME NEW w \in Handlers, Ignore(w) PROVE \A q \in Requests : MovesUI(q)
    BY <1>10, <1>0 DEF Ignore, Typed, Kept, Holds, Moves, MovesUI, store
  <1>11. ASSUME NEW w \in Handlers, Accept(w) PROVE \A q \in Requests : MovesUI(q)
    BY <1>11, <1>0 DEF Accept, Typed, Kept, Holds, Moves, MovesUI, store
  <1>12. ASSUME NEW w \in Handlers, Rollback(w) PROVE \A q \in Requests : MovesUI(q)
    BY <1>12, <1>0 DEF Rollback, Typed, Kept, Holds, Moves, MovesUI, store
  <1>13. ASSUME NEW w \in Handlers, Heartbeat(w) PROVE \A q \in Requests : MovesUI(q)
    BY <1>13, <1>0 DEF Heartbeat, Typed, Kept, Holds, Moves, MovesUI, store
  <1>14. ASSUME NEW w \in Handlers, RedisFails(w) PROVE \A q \in Requests : MovesUI(q)
    BY <1>14, <1>0 DEF RedisFails, Set, ClaimScript, Unlink, At, Result, Settled, Terminal, Failed, Undoes, Typed, Kept, Holds, Moves, MovesUI
  <1>15. ASSUME NEW w \in Handlers, UnlinkFails(w) PROVE \A q \in Requests : MovesUI(q)
    BY <1>15, <1>0 DEF UnlinkFails, Typed, Kept, Holds, Moves, MovesUI, store
  <1>16. ASSUME NEW w \in Handlers, DatabaseFails(w) PROVE \A q \in Requests : MovesUI(q)
    BY <1>16, <1>0 DEF DatabaseFails, Typed, Kept, Holds, Moves, MovesUI, store
  <1>17. ASSUME NEW w \in Handlers, ClientGivesUp(w) PROVE \A q \in Requests : MovesUI(q)
    BY <1>17, <1>0 DEF ClientGivesUp, Typed, Kept, Holds, Moves, MovesUI, store
  <1>18. ASSUME NEW w \in Handlers, Cut(w) PROVE \A q \in Requests : MovesUI(q)
    BY <1>18, <1>0 DEF Cut, Failed, Typed, Kept, Holds, Moves, MovesUI, store
  <1>19. ASSUME NEW w \in Handlers, NEW r \in Requests, Poll(w, r) PROVE \A q \in Requests : MovesUI(q)
    BY <1>19, <1>0 DEF Poll, Typed, Kept, Holds, Moves, MovesUI, store
  <1>20. ASSUME NEW w \in Handlers, NEW r \in Requests, Report(w, r) PROVE \A q \in Requests : MovesUI(q)
    BY <1>20, <1>0 DEF Report, Typed, Kept, Holds, Moves, MovesUI, store
  <1>21. ASSUME NEW r \in Requests, Initiate(r) PROVE \A q \in Requests : MovesUI(q)
    BY <1>21, <1>0 DEF Initiate, Typed, Kept, Holds, Moves, MovesUI
  <1>22. ASSUME NEW r \in Requests, StopPolling(r) PROVE \A q \in Requests : MovesUI(q)
    BY <1>22, <1>0 DEF StopPolling, Typed, Kept, Holds, Moves, MovesUI, store
  <1>23. ASSUME DaemonStops PROVE \A q \in Requests : MovesUI(q)
    BY <1>23, <1>0 DEF DaemonStops, Typed, Kept, Holds, Moves, MovesUI, store
  <1>24. ASSUME Tick PROVE \A q \in Requests : MovesUI(q)
    BY <1>24, <1>0 DEF Tick, Settled, Typed, Kept, Holds, Moves, MovesUI
  <1>25. ASSUME NEW w \in Handlers, Serve(w) PROVE \A q \in Requests : MovesUI(q)
    BY <1>25, <1>1, <1>2, <1>3, <1>4, <1>5, <1>6, <1>7, <1>8, <1>9, <1>10, <1>11, <1>12 DEF Serve, Redis
  <1>26. ASSUME NEW w \in Handlers, Fault(w) PROVE \A q \in Requests : MovesUI(q)
    BY <1>26, <1>14, <1>15, <1>16, <1>17, <1>18 DEF Fault
  <1> QED
    BY <1>13, <1>19, <1>20, <1>21, <1>22, <1>23, <1>24, <1>25, <1>26 DEF Next

-----------------------------------------------------------------------------
(* The daemon is told the truth.                                             *)

LEMMA ToldOn ==
  ASSUME NEW q \in Requests, Inv, Onward(q),
         \/ job'[q] = job[q]
         \/ job'[q].at \in {"ready", "sent", "done"} /\ handed[q] = 1 /\ (job'[q].at = "ready" => job'[q].left # 0)
         \/ job'[q].at = "acked" /\ handed[q] = 1 /\ Settled(q)'
  PROVE  Told(q)'
  BY DEF Inv, Told, Onward, Settled

\* After an error there is another attempt or none.
LEMMA RefuseTold ==
  ASSUME NEW w \in Handlers, NEW q \in Requests, Inv, Refuse(w), loc[w].op \in Reporting
  PROVE  \/ job'[q] = job[q]
         \/ job'[q].at \in {"ready", "sent", "done"} /\ handed[q] = 1 /\ (job'[q].at = "ready" => job'[q].left # 0)
  <1>1. job \in [Requests -> Jobs] /\ Holds(loc[w])
    BY DEF Inv, Typed
  <1>2. loc[w].r \in Requests /\ handed[loc[w].r] = 1
    BY <1>1 DEF Holds
  <1>3. \A j \in Jobs : Retried(j).at \in {"ready", "done"} /\ (Retried(j).at = "ready" => Retried(j).left # 0)
    BY DEF Jobs, Retried
  <1> QED
    BY <1>1, <1>2, <1>3 DEF Refuse

LEMMA StepTold == Inv /\ Next => \A q \in Requests : Told(q)'
  <1> SUFFICES ASSUME Inv, Next, NEW q \in Requests PROVE Told(q)'
    OBVIOUS
  <1>0. Typed /\ Told(q) /\ (\A u \in Handlers : Holds(loc[u])) /\ Typed'
    BY StepTyped DEF Inv
  <1>a. Onward(q)
    BY StepMoves, MovesOn, <1>0 DEF Typed
  <1>b. ASSUME job'[q] = job[q] PROVE Told(q)'
    BY <1>a, <1>b, ToldOn
  <1>c. \A u \in Handlers : /\ loc[u].op \in {"none", "poll", "pop"} \cup Reporting
                            /\ loc[u].op = "none" => loc[u] = Idle
    BY <1>0 DEF Typed, Locals, Holds, Reporting
  <1>1. ASSUME NEW w \in Handlers, Load(w) PROVE Told(q)'
    BY <1>1, <1>b DEF Load
  <1>2. ASSUME NEW w \in Handlers, PersistTimeout(w) PROVE Told(q)'
    BY <1>2, <1>b DEF PersistTimeout
  <1>3. ASSUME NEW w \in Handlers, UnlinkTimedOut(w) PROVE Told(q)'
    BY <1>3, <1>b DEF UnlinkTimedOut
  <1>4. ASSUME NEW w \in Handlers, Peek(w) PROVE Told(q)'
    BY <1>4, <1>b DEF Peek
  <1>5. ASSUME NEW w \in Handlers, Drop(w) PROVE Told(q)'
    BY <1>5, <1>b DEF Drop
  <1>6. ASSUME NEW w \in Handlers, Claim(w) PROVE Told(q)'
    BY <1>6, <1>b DEF Claim
  <1>7. ASSUME NEW w \in Handlers, Persist(w) PROVE Told(q)'
    <2>1. loc[w].op \in Reporting /\ loc[w].r \in Requests /\ handed[loc[w].r] = 1
      BY <1>7, <1>0 DEF Persist, At, Holds, Reporting
    <2>2. rec'[loc[w].r] \in Terminal \cup {"gone"}
      <3>1. CASE loc[w].seen = "gone"
        <4>1. Settled(loc[w].r)
          BY <1>7, <1>0, <2>1, <3>1 DEF Persist, At, Holds
        <4> QED
          BY <1>7, <3>1, <4>1 DEF Persist, Settled
      <3>2. CASE loc[w].seen # "gone"
        <4>1. rec' = [rec EXCEPT ![loc[w].r] = Result(w)]
          BY <1>7, <3>2 DEF Persist, Set
        <4> QED
          BY <1>0, <2>1, <4>1 DEF Typed, Result, Settled, Terminal
      <3> QED
        BY <3>1, <3>2
    <2>3. CASE loc[w].waits /\ loc[w].r = q
      <3>1. job'[q].at = "acked"
        BY <1>7, <1>0, <2>3 DEF Persist, Acknowledge, Typed, Jobs
      <3> QED
        BY <1>a, <2>1, <2>2, <2>3, <3>1, ToldOn DEF Settled
    <2>4. CASE ~ (loc[w].waits /\ loc[w].r = q)
      BY <1>7, <1>0, <1>b, <2>4 DEF Persist, Acknowledge, Typed
    <2> QED
      BY <2>3, <2>4
  <1>8. ASSUME NEW w \in Handlers, Answer(w) PROVE Told(q)'
    BY <1>8, <1>b DEF Answer
  <1>9. ASSUME NEW w \in Handlers, Deliver(w) PROVE Told(q)'
    BY <1>9, <1>0, <1>a, <1>b, Bounds, ToldOn DEF Deliver, Typed, Holds
  <1>10. ASSUME NEW w \in Handlers, Ignore(w) PROVE Told(q)'
    <2>1. loc[w].op \in Reporting /\ handed[loc[w].r] = 1 /\ Settled(loc[w].r)
      BY <1>10, <1>0 DEF Ignore, At, Holds, Reporting
    <2>2. loc[w].r = q => Settled(q)'
      BY <1>a, <2>1 DEF Onward
    <2> QED
      BY <1>10, <1>0, <1>a, <2>1, <2>2, ToldOn DEF Ignore, Acknowledge, Typed
  <1>11. ASSUME NEW w \in Handlers, Accept(w) PROVE Told(q)'
    BY <1>11, <1>b DEF Accept
  <1>12. ASSUME NEW w \in Handlers, Rollback(w) PROVE Told(q)'
    BY <1>12, <1>0, <1>a, <1>b, RefuseTold, ToldOn DEF Rollback, Holds, Reporting
  <1>13. ASSUME NEW w \in Handlers, Heartbeat(w) PROVE Told(q)'
    BY <1>13, <1>b DEF Heartbeat
  <1>14. ASSUME NEW w \in Handlers, RedisFails(w) PROVE Told(q)'
    <2>1. CASE Undoes(w)
      BY <1>14, <1>b, <2>1 DEF RedisFails
    <2>2. CASE ~ Undoes(w) /\ loc[w].op \in {"poll", "pop"}
      BY <1>14, <1>b, <2>2 DEF RedisFails, Failed
    <2>3. CASE ~ Undoes(w) /\ loc[w].op \in Reporting
      BY <1>14, <1>a, <2>3, RefuseTold, ToldOn DEF RedisFails, Failed, Reporting
    <2>4. loc[w].op # "none"
      BY <1>14, <1>c DEF RedisFails, At, Idle
    <2> QED
      BY <1>c, <2>1, <2>2, <2>3, <2>4
  <1>15. ASSUME NEW w \in Handlers, UnlinkFails(w) PROVE Told(q)'
    BY <1>15, <1>b DEF UnlinkFails
  <1>16. ASSUME NEW w \in Handlers, DatabaseFails(w) PROVE Told(q)'
    BY <1>16, <1>0, <1>a, <1>b, RefuseTold, ToldOn DEF DatabaseFails, Holds, Reporting
  <1>17. ASSUME NEW w \in Handlers, ClientGivesUp(w) PROVE Told(q)'
    <2>1. loc[w].op # "none" /\ loc[w].op # "poll"
      BY <1>17, <1>c DEF ClientGivesUp, Idle
    <2>2. CASE loc[w].op = "pop"
      BY <1>17, <1>b, <2>2 DEF ClientGivesUp
    <2>3. CASE loc[w].op \in Reporting
      <3>1. loc[w].r \in Requests /\ handed[loc[w].r] = 1
        BY <1>0, <2>3 DEF Holds
      <3>2. \A j \in Jobs : Retried(j).at \in {"ready", "done"} /\ (Retried(j).at = "ready" => Retried(j).left # 0)
        BY DEF Jobs, Retried
      <3> QED
        BY <1>17, <1>0, <1>a, <2>3, <3>1, <3>2, ToldOn DEF ClientGivesUp, Typed, Reporting
    <2> QED
      BY <1>c, <2>1, <2>2, <2>3
  <1>18. ASSUME NEW w \in Handlers, Cut(w) PROVE Told(q)'
    <2>1. loc[w].op # "none"
      BY <1>18, <1>c DEF Cut
    <2>2. CASE loc[w].op \in {"poll", "pop"}
      BY <1>18, <1>b, <2>2 DEF Cut, Failed
    <2>3. CASE loc[w].op \in Reporting
      BY <1>18, <1>a, <2>3, RefuseTold, ToldOn DEF Cut, Failed, Reporting
    <2> QED
      BY <1>c, <2>1, <2>2, <2>3
  <1>19. ASSUME NEW w \in Handlers, NEW r \in Requests, Poll(w, r) PROVE Told(q)'
    BY <1>19, <1>b DEF Poll
  <1>20. ASSUME NEW w \in Handlers, NEW r \in Requests, Report(w, r) PROVE Told(q)'
    <2>1. job[r].at = "ready" /\ handed[r] = 1
      BY <1>20 DEF Inv, Told, Report
    <2> QED
      BY <1>20, <1>0, <1>a, <1>b, <2>1, ToldOn DEF Report, Typed, Jobs
  <1>21. ASSUME NEW r \in Requests, Initiate(r) PROVE Told(q)'
    BY <1>21, <1>b DEF Initiate
  <1>22. ASSUME NEW r \in Requests, StopPolling(r) PROVE Told(q)'
    BY <1>22, <1>b DEF StopPolling
  <1>23. ASSUME DaemonStops PROVE Told(q)'
    <2>1. job'[q] = job[q] \/ (job'[q].at = "done" /\ job[q].at \in {"ready", "sent"})
      BY <1>23, <1>0 DEF DaemonStops, Typed, Jobs
    <2> QED
      BY <1>0, <1>a, <2>1, ToldOn DEF Told
  <1>24. ASSUME Tick PROVE Told(q)'
    BY <1>24, <1>b DEF Tick
  <1>25. ASSUME NEW w \in Handlers, Serve(w) PROVE Told(q)'
    BY <1>25, <1>1, <1>2, <1>3, <1>4, <1>5, <1>6, <1>7, <1>8, <1>9, <1>10, <1>11, <1>12 DEF Serve, Redis
  <1>26. ASSUME NEW w \in Handlers, Fault(w) PROVE Told(q)'
    BY <1>26, <1>14, <1>15, <1>16, <1>17, <1>18 DEF Fault
  <1> QED
    BY <1>13, <1>19, <1>20, <1>21, <1>22, <1>23, <1>24, <1>25, <1>26 DEF Next

-----------------------------------------------------------------------------
(* Goroutines know what they think they know.                                *)

\* What a goroutine knew it still knows.
LEMMA HoldsOn ==
  ASSUME NEW u \in Handlers, Inv, \A q \in Requests : Onward(q),
         \/ loc'[u] = loc[u] \/ loc'[u] = Idle
         \/ /\ loc'[u] = [loc[u] EXCEPT !.waits = FALSE]
            /\ loc[u].op # "none" /\ loc[u].pc # "idle"
  PROVE  Holds(loc[u])'
  <1>1. CASE loc'[u] = Idle
    BY <1>1 DEF Holds, Idle, Reporting
  <1>2. ASSUME loc[u].pc = "idle" \/ loc[u].op = "none" => loc'[u] = Idle,
               loc'[u].pc = loc[u].pc, loc'[u].op = loc[u].op,
               loc'[u].r = loc[u].r, loc'[u].seen = loc[u].seen
        PROVE  Holds(loc[u])'
    <2>1. Holds(loc[u])
      BY DEF Inv
    <2>2. loc[u].r \in Requests => Onward(loc[u].r)
      OBVIOUS
    <2>3. /\ loc[u].r \in Requests /\ rec[loc[u].r] # "none" => rec'[loc[u].r] # "none"
          /\ loc[u].r \in Requests /\ rec[loc[u].r] \notin {"none", "pending"} => rec'[loc[u].r] # "pending"
          /\ loc[u].r \in Requests /\ handed[loc[u].r] = 1
             => handed'[loc[u].r] = 1 /\ (Settled(loc[u].r) => Settled(loc[u].r)')
      BY <2>2 DEF Onward
    <2> QED
      BY <1>2, <2>1, <2>3 DEF Holds, Settled
  <1>3. CASE loc'[u] = loc[u]
    BY <1>2, <1>3 DEF Inv, Holds
  <1>4. CASE /\ loc'[u] = [loc[u] EXCEPT !.waits = FALSE]
             /\ loc[u].op # "none" /\ loc[u].pc # "idle"
    <2>1. loc[u] \in Locals
      BY DEF Inv, Typed
    <2> QED
      BY <1>2, <1>4, <2>1 DEF Locals
  <1> QED
    BY <1>1, <1>3, <1>4

LEMMA StepHolds == Inv /\ Next => \A u \in Handlers : Holds(loc[u])'
  <1> SUFFICES ASSUME Inv, Next, NEW u \in Handlers PROVE Holds(loc[u])'
    OBVIOUS
  <1>0. Typed /\ (\A q \in Requests : Kept(q) /\ Told(q)) /\ (\A w \in Handlers : Holds(loc[w])) /\ Typed'
    BY StepTyped DEF Inv
  <1>a. \A q \in Requests : Onward(q)
    BY StepMoves, MovesOn, <1>0 DEF Typed
  <1>b. ASSUME loc'[u] = loc[u] \/ loc'[u] = Idle PROVE Holds(loc[u])'
    BY <1>a, <1>b, HoldsOn
  <1>1. ASSUME NEW w \in Handlers, Load(w) PROVE Holds(loc[u])'
    <2>1. CASE u # w
      BY <1>1, <1>0, <1>b, <2>1 DEF Load, Typed
    <2>2. CASE u = w
      <3> DEFINE l == loc[w]
      <3>1. /\ l.r \in Requests /\ rec[l.r] # "none" /\ l.op # "none" /\ l \in Locals
            /\ l.op \in Reporting => handed[l.r] = 1
        BY <1>1, <1>0 DEF Load, Holds, Typed, Idle
      <3>2. rec' = rec /\ handed' = handed
        BY <1>1 DEF Load, store
      <3>3. CASE TimedOut(l.r)
        <4>1. loc' = [loc EXCEPT ![w] = [loc[w] EXCEPT !.pc = "expire", !.seen = "timeout"]]
          BY <1>1, <1>0, <3>3 DEF Load, Typed
        <4>2. loc'[u] = [loc[w] EXCEPT !.pc = "expire", !.seen = "timeout"]
          BY <1>0, <2>2, <4>1 DEF Typed
        <4>3. loc'[u].pc = "expire" /\ loc'[u].r = l.r /\ loc'[u].op = l.op
          BY <3>1, <4>2 DEF Locals
        <4> QED
          BY <3>1, <3>2, <4>3 DEF Holds, Reporting
      <3>4. CASE ~ TimedOut(l.r)
        <4>1. loc' = [loc EXCEPT ![w] = [loc[w] EXCEPT !.pc = "got", !.seen = rec[l.r]]]
          BY <1>1, <1>0, <3>4 DEF Load, Typed
        <4>2. loc'[u] = [loc[w] EXCEPT !.pc = "got", !.seen = rec[l.r]]
          BY <1>0, <2>2, <4>1 DEF Typed
        <4>3. loc'[u].pc = "got" /\ loc'[u].r = l.r /\ loc'[u].op = l.op /\ loc'[u].seen = rec[l.r]
          BY <3>1, <4>2 DEF Locals
        <4> QED
          BY <3>1, <3>2, <4>3 DEF Holds, Reporting, Settled
      <3> QED
        BY <3>3, <3>4
    <2> QED
      BY <2>1, <2>2
  <1>2. ASSUME NEW w \in Handlers, PersistTimeout(w) PROVE Holds(loc[u])'
    <2>1. CASE u # w
      BY <1>2, <1>0, <1>b, <2>1 DEF PersistTimeout, Goto, Typed
    <2>2. CASE u = w
      BY <1>2, <1>0, <1>a, <1>b, <2>2 DEF PersistTimeout, Set, Goto, Settled, Terminal, Typed, Locals, Holds, Kept, Onward, Reporting, Idle
    <2> QED
      BY <2>1, <2>2
  <1>3. ASSUME NEW w \in Handlers, UnlinkTimedOut(w) PROVE Holds(loc[u])'
    <2>1. CASE u # w
      BY <1>3, <1>0, <1>b, <2>1 DEF UnlinkTimedOut, Goto, Typed
    <2>2. CASE u = w
      BY <1>3, <1>0, <1>a, <1>b, <2>2 DEF UnlinkTimedOut, Goto, Typed, Locals, Holds, Kept, Onward, Reporting, Idle
    <2> QED
      BY <2>1, <2>2
  <1>4. ASSUME NEW w \in Handlers, Peek(w) PROVE Holds(loc[u])'
    <2>1. CASE u # w
      BY <1>4, <1>0, <1>b, <2>1 DEF Peek, Finish, Typed
    <2>2. CASE u = w
      <3>1. CASE Finish(w)
        BY <1>0, <1>b, <2>2, <3>1 DEF Finish, Typed
      <3>2. CASE ~ Finish(w)
        <4>1. loc[w].op = "pop" /\ loc[w] \in Locals
          BY <1>4, <1>0 DEF Peek, Holds, Typed
        <4>2. PICK r \in pending :
                loc' = [loc EXCEPT ![w] = [loc[w] EXCEPT !.pc = "get", !.r = r, !.pops = loc[w].pops + 1]]
          BY <1>4, <1>0, <3>2 DEF Peek, Oldest, Typed
        <4>3. r \in Requests /\ rec'[r] # "none"
          BY <1>4, <1>0 DEF Peek, store, Typed, Kept
        <4>4. loc'[u] = [loc[w] EXCEPT !.pc = "get", !.r = r, !.pops = loc[w].pops + 1]
          BY <1>0, <2>2, <4>2 DEF Typed
        <4>5. loc'[u].pc = "get" /\ loc'[u].op = "pop" /\ loc'[u].r = r
          BY <4>1, <4>4 DEF Locals
        <4> QED
          BY <4>3, <4>5 DEF Holds, Reporting
      <3> QED
        BY <3>1, <3>2
    <2> QED
      BY <2>1, <2>2
  <1>5. ASSUME NEW w \in Handlers, Drop(w) PROVE Holds(loc[u])'
    <2>1. CASE u # w
      BY <1>5, <1>0, <1>b, <2>1 DEF Drop, Goto, Typed
    <2>2. CASE u = w
      BY <1>5, <1>0, <1>a, <1>b, <2>2 DEF Drop, Goto, At, Typed, Locals, Holds, Kept, Onward, Reporting, Idle
    <2> QED
      BY <2>1, <2>2
  <1>6. ASSUME NEW w \in Handlers, Claim(w) PROVE Holds(loc[u])'
    <2>1. CASE u # w
      BY <1>6, <1>0, <1>b, <2>1 DEF Claim, Goto, Typed
    <2>2. CASE u = w
      BY <1>6, <1>0, <1>a, <1>b, <2>2 DEF Claim, ClaimScript, Unlink, Goto, At, Typed, Locals, Holds, Kept, Onward, Reporting, Idle
    <2> QED
      BY <2>1, <2>2
  <1>7. ASSUME NEW w \in Handlers, Persist(w) PROVE Holds(loc[u])'
    BY <1>7, <1>0, <1>b DEF Persist, Acknowledge, Finish, Typed
  <1>8. ASSUME NEW w \in Handlers, Answer(w) PROVE Holds(loc[u])'
    BY <1>8, <1>0, <1>b DEF Answer, Finish, Typed
  <1>9. ASSUME NEW w \in Handlers, Deliver(w) PROVE Holds(loc[u])'
    BY <1>9, <1>0, <1>b DEF Deliver, Finish, Typed
  <1>10. ASSUME NEW w \in Handlers, Ignore(w) PROVE Holds(loc[u])'
    BY <1>10, <1>0, <1>b DEF Ignore, Acknowledge, Finish, Typed
  <1>11. ASSUME NEW w \in Handlers, Accept(w) PROVE Holds(loc[u])'
    <2>1. CASE u # w
      BY <1>11, <1>0, <1>b, <2>1 DEF Accept, Resume, Typed
    <2>2. CASE u = w
      BY <1>11, <1>0, <1>a, <1>b, <2>2 DEF Accept, Resume, At, Typed, Locals, Holds, Kept, Onward, Reporting, Idle
    <2> QED
      BY <2>1, <2>2
  <1>12. ASSUME NEW w \in Handlers, Rollback(w) PROVE Holds(loc[u])'
    BY <1>12, <1>0, <1>b DEF Rollback, Refuse, Finish, Typed
  <1>13. ASSUME NEW w \in Handlers, Heartbeat(w) PROVE Holds(loc[u])'
    <2>1. CASE u # w
      BY <1>13, <1>0, <1>b, <2>1 DEF Heartbeat, Typed
    <2>2. CASE u = w
      BY <1>13, <1>0, <1>a, <1>b, <2>2 DEF Heartbeat, Serving, Typed, Locals, Holds, Kept, Onward, Reporting, Idle
    <2> QED
      BY <2>1, <2>2
  <1>14. ASSUME NEW w \in Handlers, RedisFails(w) PROVE Holds(loc[u])'
    <2>1. CASE u # w
      BY <1>14, <1>0, <1>b, <2>1 DEF RedisFails, Failed, Refuse, Finish, Undoes, Goto, Typed
    <2>2. CASE u = w
      BY <1>14, <1>0, <1>a, <1>b, <2>2 DEF RedisFails, Failed, Refuse, Finish, Undoes, Goto, Typed, Locals, Holds, Kept, Onward, Reporting, Idle
    <2> QED
      BY <2>1, <2>2
  <1>15. ASSUME NEW w \in Handlers, UnlinkFails(w) PROVE Holds(loc[u])'
    <2>1. CASE u # w
      BY <1>15, <1>0, <1>b, <2>1 DEF UnlinkFails, Goto, Typed
    <2>2. CASE u = w
      BY <1>15, <1>0, <1>a, <1>b, <2>2 DEF UnlinkFails, Goto, At, Typed, Locals, Holds, Kept, Onward, Reporting, Idle
    <2> QED
      BY <2>1, <2>2
  <1>16. ASSUME NEW w \in Handlers, DatabaseFails(w) PROVE Holds(loc[u])'
    <2>1. CASE u # w
      BY <1>16, <1>0, <1>b, <2>1 DEF DatabaseFails, Resume, Refuse, Finish, Typed
    <2>2. CASE u = w
      BY <1>16, <1>0, <1>a, <1>b, <2>2 DEF DatabaseFails, Resume, Refuse, Finish, At, Typed, Locals, Holds, Kept, Onward, Reporting, Idle
    <2> QED
      BY <2>1, <2>2
  <1>17. ASSUME NEW w \in Handlers, ClientGivesUp(w) PROVE Holds(loc[u])'
    <2>1. loc[w].op # "none" /\ loc[w].pc # "idle" /\ loc[w] \in Locals
      BY <1>17, <1>0 DEF ClientGivesUp, Holds, Idle, Typed
    <2>2. loc' = [loc EXCEPT ![w] = [loc[w] EXCEPT !.waits = FALSE]]
      BY <1>17, <1>0 DEF ClientGivesUp, Typed
    <2> QED
      BY <1>0, <1>a, <2>1, <2>2, HoldsOn DEF Typed
  <1>18. ASSUME NEW w \in Handlers, Cut(w) PROVE Holds(loc[u])'
    BY <1>18, <1>0, <1>b DEF Cut, Failed, Refuse, Finish, Typed
  <1>19. ASSUME NEW w \in Handlers, NEW r \in Requests, Poll(w, r) PROVE Holds(loc[u])'
    <2>1. CASE u # w
      BY <1>19, <1>0, <1>b, <2>1 DEF Poll, Typed
    <2>2. CASE u = w
      BY <1>19, <1>0, <1>a, <1>b, <2>2 DEF Poll, Serving, Told, Typed, Locals, Holds, Kept, Onward, Reporting, Idle
    <2> QED
      BY <2>1, <2>2
  <1>20. ASSUME NEW w \in Handlers, NEW r \in Requests, Report(w, r) PROVE Holds(loc[u])'
    <2>1. CASE u # w
      BY <1>20, <1>0, <1>b, <2>1 DEF Report, Typed
    <2>2. CASE u = w
      BY <1>20, <1>0, <1>a, <1>b, <2>2 DEF Report, Serving, Told, Typed, Locals, Holds, Kept, Onward, Reporting, Idle
    <2> QED
      BY <2>1, <2>2
  <1>21. ASSUME NEW r \in Requests, Initiate(r) PROVE Holds(loc[u])'
    BY <1>21, <1>b DEF Initiate
  <1>22. ASSUME NEW r \in Requests, StopPolling(r) PROVE Holds(loc[u])'
    BY <1>22, <1>b DEF StopPolling
  <1>23. ASSUME DaemonStops PROVE Holds(loc[u])'
    <2>1. loc[u].pc = "idle" => loc[u].op = "none"
      BY <1>0 DEF Holds, Idle
    <2> QED
      BY <1>23, <1>a, <2>1, HoldsOn DEF DaemonStops
  <1>24. ASSUME Tick PROVE Holds(loc[u])'
    BY <1>24, <1>b DEF Tick
  <1>25. ASSUME NEW w \in Handlers, Serve(w) PROVE Holds(loc[u])'
    BY <1>25, <1>1, <1>2, <1>3, <1>4, <1>5, <1>6, <1>7, <1>8, <1>9, <1>10, <1>11, <1>12 DEF Serve, Redis
  <1>26. ASSUME NEW w \in Handlers, Fault(w) PROVE Holds(loc[u])'
    BY <1>26, <1>14, <1>15, <1>16, <1>17, <1>18 DEF Fault
  <1> QED
    BY <1>13, <1>19, <1>20, <1>21, <1>22, <1>23, <1>24, <1>25, <1>26 DEF Next

-----------------------------------------------------------------------------
(* The theorems.                                                             *)

LEMMA InvInit == Init => Inv
  <1> SUFFICES ASSUME Init PROVE Inv
    OBVIOUS
  <1>1. Typed
    BY Bounds, LocalsTyped DEF Init, Typed, Statuses, Clocks, Jobs, Shown, Idle, Locals
  <1>2. ASSUME NEW q \in Requests PROVE Kept(q) /\ Told(q)
    BY <1>2 DEF Init, Kept, Told
  <1>3. ASSUME NEW u \in Handlers PROVE Holds(loc[u])
    BY <1>3 DEF Init, Holds, Idle, Reporting
  <1> QED
    BY <1>1, <1>2, <1>3 DEF Inv

LEMMA InvNext == Inv /\ [Next]_vars => Inv'
  <1>1. Inv /\ Next => Inv'
    <2> SUFFICES ASSUME Inv, Next PROVE Inv'
      OBVIOUS
    <2>1. Typed'
      BY StepTyped
    <2>2. \A q \in Requests : Kept(q)'
      BY <2>1, StepMoves, MovesOn DEF Typed
    <2> QED
      BY <2>1, <2>2, StepTold, StepHolds DEF Inv
  <1>2. Inv /\ UNCHANGED vars => Inv'
    BY DEF Inv, Typed, Kept, Told, Holds, Settled, vars
  <1> QED
    BY <1>1, <1>2

THEOREM Invariance == Spec => []Inv
  BY InvInit, InvNext, PTL DEF Spec

\* TypeOK holds in every reachable state.
THEOREM TypeCorrect == Spec => []TypeOK
  <1>1. Inv => TypeOK
    BY TypeParts DEF Inv
  <1> QED
    BY <1>1, Invariance, PTL

\* A request is claimed at most once, whichever nodes its heartbeats reach.
THEOREM ClaimedOnce == Spec => []HandedOnce
  <1>1. Inv => HandedOnce
    BY DEF Inv, Kept, HandedOnce
  <1> QED
    BY <1>1, Invariance, PTL

\* No crash, error or race leaves a pending request outside of the sorted set.
THEOREM NobodyStranded == Spec => []NotStranded
  <1>1. Inv => NotStranded
    BY DEF Inv, Kept, NotStranded
  <1> QED
    BY <1>1, Invariance, PTL

\* A report that was acknowledged has settled its request.
THEOREM AcknowledgedSettled == Spec => []AckSettles
  <1>1. Inv => AckSettles
    BY DEF Inv, Told, Settled, AckSettles
  <1> QED
    BY <1>1, Invariance, PTL

-----------------------------------------------------------------------------
(* The handoff of requests.                                                  *)

\* Only a claim says that a request is running.
RunningTaken == \A q \in Requests : rec[q] = "running" => handed[q] = 1

\* What the mapping says of one request.
LEMMA Mapped ==
  ASSUME NEW q \in Requests
  PROVE  /\ life[q] \in Handoff!Lives /\ life'[q] \in Handoff!Lives
         /\ life[q] = "new" <=> rec[q] = "none"
         /\ life[q] = "offered" <=> rec[q] = "pending"
         /\ life[q] = "taken" <=> rec[q] = "running"
         /\ life'[q] = "new" <=> rec'[q] = "none"
         /\ life'[q] = "offered" <=> rec'[q] = "pending"
         /\ life'[q] = "taken" <=> rec'[q] = "running"
         /\ rec[q] = rec'[q] => life[q] = life'[q]
BY DEF life, Handoff!Lives

LEMMA HandoffInit == Init => Handoff!Init /\ RunningTaken
BY DEF Init, Handoff!Init, life, RunningTaken

\* Each request stays or takes one of the steps of the handoff.
LEMMA HandoffNext ==
  ASSUME Inv, RunningTaken, Next
  PROVE  Handoff!Next /\ RunningTaken'
<1> DEFINE given == {r \in Requests : handed[r] > 0}
<1>1. ASSUME NEW q \in Requests
      PROVE  /\ Moves(q)
             /\ handed[q] \in {0, 1} /\ handed'[q] \in {0, 1}
             /\ q \in pending => handed[q] = 0
             /\ rec[q] = "none" => handed[q] = 0 /\ q \notin pending
             /\ rec[q] = "running" => handed[q] = 1
             /\ rec[q] \in Statuses /\ rec'[q] \in Statuses
  <2>1. MovesUI(q) /\ handed[q] \in Nat /\ handed'[q] \in Nat
    BY StepMoves, StepTyped DEF Inv, Typed
  <2>2. Kept(q) /\ Kept(q)'
    BY <2>1, MovesOn DEF Inv
  <2>3. /\ rec[q] \in Statuses /\ rec'[q] \in Statuses
        /\ handed[q] <= 1 /\ handed'[q] <= 1 /\ handed[q] \in Nat
    BY <2>2, StepTyped DEF Kept, Inv, Typed
  <2>4. handed[q] \in {0, 1} /\ handed'[q] \in {0, 1}
    BY <2>1, <2>3
  <2> QED
    BY <2>1, <2>2, <2>3, <2>4 DEF MovesUI, Kept, RunningTaken
<1>2. RunningTaken'
  BY <1>1 DEF RunningTaken, Moves, Settled, Terminal
<1>3. Handoff!TypeOK'
  <2>1. pending' \subseteq Requests
    BY StepTyped DEF Typed
  <2>2. life' = [q \in Requests |-> life'[q]]
    BY DEF life
  <2> QED
    BY <2>1, <2>2, Mapped DEF Handoff!TypeOK
<1>4. ASSUME NEW q \in Requests
      PROVE  \/ Handoff!Stay(q) \/ Handoff!Offer(q) \/ Handoff!Take(q)
             \/ Handoff!Settle(q) \/ Handoff!Withdraw(q)
  <2>1. (q \in given <=> handed[q] = 1) /\ (q \in given' <=> handed'[q] = 1)
    BY <1>1
  <2>2. CASE rec'[q] = rec[q] /\ (q \in pending' <=> q \in pending) /\ handed'[q] = handed[q]
    BY <2>1, <2>2, Mapped DEF Handoff!Stay
  <2>3. CASE /\ rec[q] # "none" /\ Settled(q)'
             /\ (q \in pending' <=> q \in pending) /\ handed'[q] = handed[q]
    <3>1. life'[q] = "settled"
      BY <2>3, Mapped DEF Settled, Terminal, Handoff!Lives
    <3> QED
      BY <2>1, <2>3, <3>1, Mapped DEF Handoff!Settle
  <2>4. CASE /\ rec[q] # "pending" /\ rec'[q] = rec[q] /\ q \notin pending'
             /\ handed'[q] = handed[q]
    <3>1. CASE q \in pending
      <4>1. life[q] = "settled"
        BY <3>1, <2>4, <1>1, Mapped DEF Handoff!Lives
      <4> QED
        BY <3>1, <4>1, <2>1, <2>4, Mapped DEF Handoff!Withdraw
    <3>2. CASE q \notin pending
      BY <3>2, <2>1, <2>4, Mapped DEF Handoff!Stay
    <3> QED
      BY <3>1, <3>2
  <2>5. CASE /\ q \in pending /\ q \notin pending' /\ rec'[q] = "running"
             /\ handed'[q] = handed[q] + 1
    BY <2>1, <2>5, <1>1, Mapped DEF Handoff!Take
  <2>6. CASE rec[q] = "none" /\ rec'[q] = "pending" /\ q \in pending' /\ handed'[q] = handed[q]
    BY <2>1, <2>6, <1>1, Mapped DEF Handoff!Offer
  <2> QED
    BY <1>1, <2>2, <2>3, <2>4, <2>5, <2>6 DEF Moves
<1> QED
  BY <1>2, <1>3, <1>4 DEF Handoff!Next

\* Records, sorted set and claims implement RequestHandoff: a request is offered
\* once, taken once and only while it is on offer, and an offer is withdrawn
\* only when the request is settled, whatever is late, lost or repeated.
THEOREM HandoffRefined == Spec => HandoffSpec
<1>1. Init => Handoff!Init /\ RunningTaken
  BY HandoffInit
<1>2. Inv /\ RunningTaken /\ [Next]_vars => [Handoff!Next]_(Handoff!requests) /\ RunningTaken'
  <2>1. RunningTaken /\ UNCHANGED vars => UNCHANGED Handoff!requests /\ RunningTaken'
    BY DEF RunningTaken, vars, Handoff!requests, life
  <2> QED
    BY <2>1, HandoffNext
<1> QED
  BY <1>1, <1>2, Invariance, PTL DEF Spec, HandoffSpec, Handoff!Spec

\* What the handoff promises holds of the mapped variables: a request is on offer
\* until it is taken or settled, and never after it was taken.
THEOREM OfferedOnce == Spec => []Handoff!Once
<1>1. Handoff!Init => Handoff!Once
  BY DEF Handoff!Init, Handoff!Once, Handoff!OnceOf
<1>2. Handoff!Once /\ [Handoff!Next]_(Handoff!requests) => Handoff!Once'
  <2>1. ASSUME Handoff!Once, UNCHANGED Handoff!requests PROVE Handoff!Once'
    BY <2>1 DEF Handoff!Once, Handoff!OnceOf, Handoff!requests
  <2>2. ASSUME Handoff!Once, Handoff!Next, NEW q \in Requests PROVE Handoff!OnceOf(q)'
    <3>1. /\ Handoff!OnceOf(q)
          /\ \/ Handoff!Stay(q) \/ Handoff!Offer(q) \/ Handoff!Take(q)
             \/ Handoff!Settle(q) \/ Handoff!Withdraw(q)
      BY <2>2 DEF Handoff!Once, Handoff!Next
    <3> QED
      BY <3>1 DEF Handoff!OnceOf, Handoff!Stay, Handoff!Offer, Handoff!Take,
                  Handoff!Settle, Handoff!Withdraw
  <2> QED
    BY <2>1, <2>2 DEF Handoff!Once
<1> QED
  BY <1>1, <1>2, HandoffRefined, PTL DEF HandoffSpec, Handoff!Spec

-----------------------------------------------------------------------------
(* Imports that are called completed.                                        *)

\* A goroutine has loaded a record that says completed.
Saw(l) == l.seen = "completed" /\ l.pc \in {"expire", "unlink", "got"}

\* Somebody calls the import q completed, or is about to.
Called(q) ==
  \/ rec[q] = "completed" \/ ui[q] = "shown"
  \/ \E u \in Handlers : Saw(loc[u]) /\ loc[u].r = q

Completing(u) == loc[u].op = "complete"

\* One goroutine at a time is between the creation of the skill and the Complete
\* that makes it known, and while it is, nothing is known yet.
ExistsInv ==
  /\ \A q \in Requests : Called(q) => skill = q /\ \A u \in Handlers : ~ Completing(u)
  /\ \A u \in Handlers :
       Completing(u) => skill = loc[u].r /\ \A v \in Handlers : Completing(v) => v = u

\* A step that completes nothing and creates no skill.
LEMMA ExistsOn ==
  ASSUME ExistsInv, skill' = skill,
         \A q \in Requests : Called(q)' => Called(q),
         \A u \in Handlers : Completing(u)' => Completing(u) /\ loc'[u].r = loc[u].r
  PROVE  ExistsInv'
  BY DEF ExistsInv

\* The step of one goroutine that has loaded nothing new and goes on as before,
\* and of the browser, which is told nothing new.
LEMMA ExistsLocal ==
  ASSUME Typed, ExistsInv, skill' = skill, NEW w \in Handlers,
         \A q \in Requests : rec'[q] = "completed" => rec[q] = "completed",
         \A q \in Requests : ui'[q] = "shown" => Called(q),
         \A u \in Handlers : u # w => loc'[u] = loc[u],
         loc'[w].op = "complete" => loc[w].op = "complete" /\ loc'[w].r = loc[w].r,
         Saw(loc'[w]) => Saw(loc[w]) /\ loc'[w].r = loc[w].r
  PROVE  ExistsInv'
  <1>1. \A u \in Handlers : Completing(u)' => Completing(u) /\ loc'[u].r = loc[u].r
    BY DEF Completing
  <1>2. \A u \in Handlers : Saw(loc'[u]) => Saw(loc[u]) /\ loc'[u].r = loc[u].r
    OBVIOUS
  <1>3. \A q \in Requests : Called(q)' => Called(q)
    <2> SUFFICES ASSUME NEW q \in Requests, Called(q)' PROVE Called(q)
      OBVIOUS
    <2>1. rec'[q] = "completed" \/ ui'[q] = "shown" \/ \E u \in Handlers : Saw(loc'[u]) /\ loc'[u].r = q
      BY DEF Called, Saw
    <2> QED
      BY <1>2, <2>1 DEF Called
  <1> QED
    BY <1>1, <1>3, ExistsOn

\* Where the goroutine w goes next, in the forms the actions give it.
LEMMA Steps ==
  ASSUME Typed, NEW w \in Handlers
  PROVE  /\ Finish(w) => /\ loc'[w].op = "none" /\ loc'[w].pc = "idle"
                         /\ \A u \in Handlers : u # w => loc'[u] = loc[u]
         /\ \A pc : Goto(w, pc) =>
              /\ loc'[w].pc = pc /\ loc'[w].op = loc[w].op /\ loc'[w].r = loc[w].r
              /\ loc'[w].seen = loc[w].seen
              /\ \A u \in Handlers : u # w => loc'[u] = loc[u]
         /\ \A op : Resume(w, op) =>
              /\ loc'[w].pc = "get" /\ loc'[w].op = op /\ loc'[w].r = loc[w].r
              /\ \A u \in Handlers : u # w => loc'[u] = loc[u]
  <1>1. loc[w] \in Locals
    BY DEF Typed
  <1>2. Finish(w) => loc'[w] = Idle /\ \A u \in Handlers : u # w => loc'[u] = loc[u]
    BY DEF Typed, Finish
  <1>3. ASSUME NEW pc, Goto(w, pc)
        PROVE  /\ loc'[w].pc = pc /\ loc'[w].op = loc[w].op /\ loc'[w].r = loc[w].r
               /\ loc'[w].seen = loc[w].seen
               /\ \A u \in Handlers : u # w => loc'[u] = loc[u]
    <2>1. loc' = [loc EXCEPT ![w] = [loc[w] EXCEPT !.pc = pc]]
      BY <1>3 DEF Typed, Goto
    <2> QED
      BY <1>1, <2>1 DEF Typed, Locals
  <1>4. ASSUME NEW op, Resume(w, op)
        PROVE  /\ loc'[w].pc = "get" /\ loc'[w].op = op /\ loc'[w].r = loc[w].r
               /\ \A u \in Handlers : u # w => loc'[u] = loc[u]
    <2>1. loc' = [loc EXCEPT ![w] = [loc[w] EXCEPT !.op = op, !.pc = "get"]]
      BY <1>4 DEF Typed, Resume
    <2> QED
      BY <1>1, <2>1 DEF Typed, Locals
  <1>5. Idle.op = "none" /\ Idle.pc = "idle"
    BY DEF Idle
  <1> QED
    BY <1>2, <1>3, <1>4, <1>5

\* Redis does what it is told or nothing.
CertainNext == Unsure = FALSE /\ Kind = "import" /\ Next

LEMMA StepExists == Inv /\ ExistsInv /\ CertainNext => ExistsInv'
  <1> SUFFICES ASSUME Inv, ExistsInv, Unsure = FALSE, Kind = "import", Next PROVE ExistsInv'
    BY DEF CertainNext
  <1>0. /\ Typed /\ (\A u \in Handlers : Holds(loc[u]) /\ loc[u] \in Locals)
        /\ \A q \in Requests : ui[q] = "shown" => Called(q)
    BY DEF Inv, Typed, Called
  <1>a. ASSUME NEW w \in Handlers, skill' = skill,
               \A q \in Requests : rec'[q] = "completed" => rec[q] = "completed",
               \A q \in Requests : ui'[q] = "shown" => ui[q] = "shown",
               \/ Finish(w)
               \/ \E pc \in {"undo", "range", "claimed"} : Goto(w, pc)
               \/ \E op \in {"fail", "report"} : Resume(w, op)
        PROVE  ExistsInv'
    <2>1. /\ \A u \in Handlers : u # w => loc'[u] = loc[u]
          /\ loc'[w].op = "complete" => loc[w].op = "complete" /\ loc'[w].r = loc[w].r
          /\ ~ Saw(loc'[w])
      BY <1>0, <1>a, Steps DEF Saw
    <2> QED
      BY <1>0, <1>a, <2>1, ExistsLocal
  <1>1. ASSUME NEW w \in Handlers, Load(w) PROVE ExistsInv'
    <2>1. UNCHANGED <<rec, ui, skill>> /\ loc[w].pc = "get"
      BY <1>1 DEF Load, store
    <2>2. /\ loc'[w].op = loc[w].op /\ loc'[w].r = loc[w].r
          /\ loc'[w].seen \in {"timeout", rec[loc[w].r]}
          /\ \A u \in Handlers : u # w => loc'[u] = loc[u]
      <3>1. CASE TimedOut(loc[w].r)
        <4>1. loc' = [loc EXCEPT ![w] = [loc[w] EXCEPT !.pc = "expire", !.seen = "timeout"]]
          BY <1>1, <1>0, <3>1 DEF Load, Typed
        <4> QED
          BY <1>0, <4>1 DEF Typed, Locals
      <3>2. CASE ~ TimedOut(loc[w].r)
        <4>1. loc' = [loc EXCEPT ![w] = [loc[w] EXCEPT !.pc = "got", !.seen = rec[loc[w].r]]]
          BY <1>1, <1>0, <3>2 DEF Load, Typed
        <4> QED
          BY <1>0, <4>1 DEF Typed, Locals
      <3> QED
        BY <3>1, <3>2
    <2>3. Saw(loc'[w]) => rec[loc[w].r] = "completed"
      BY <2>2 DEF Saw
    <2>4. \A q \in Requests : Called(q)' => Called(q)
      <3> SUFFICES ASSUME NEW q \in Requests, Called(q)' PROVE Called(q)
        OBVIOUS
      <3>1. rec[q] = "completed" \/ ui[q] = "shown" \/ \E u \in Handlers : Saw(loc'[u]) /\ loc'[u].r = q
        BY <2>1 DEF Called, Saw
      <3>2. \A u \in Handlers : u # w /\ Saw(loc'[u]) /\ loc'[u].r = q => Called(q)
        BY <2>2 DEF Called
      <3>3. Saw(loc'[w]) /\ loc'[w].r = q => Called(q)
        BY <2>2, <2>3 DEF Called
      <3> QED
        BY <3>1, <3>2, <3>3 DEF Called
    <2>5. \A u \in Handlers : Completing(u)' => Completing(u) /\ loc'[u].r = loc[u].r
      BY <2>2 DEF Completing
    <2> QED
      BY <2>1, <2>4, <2>5, ExistsOn
  <1>2. ASSUME NEW w \in Handlers, PersistTimeout(w) PROVE ExistsInv'
    <2>1. loc[w].pc = "expire" /\ Goto(w, "unlink") /\ UNCHANGED <<skill, ui>>
          /\ rec' = [rec EXCEPT ![loc[w].r] = "timeout"]
      BY <1>2 DEF PersistTimeout, Set
    <2>2. \A q \in Requests : rec'[q] = "completed" => rec[q] = "completed"
      BY <1>0, <2>1 DEF Typed
    <2>3. Saw(loc'[w]) => Saw(loc[w])
      BY <1>0, <2>1, Steps DEF Saw
    <2> QED
      BY <1>0, <2>1, <2>2, <2>3, Steps, ExistsLocal
  <1>3. ASSUME NEW w \in Handlers, UnlinkTimedOut(w) PROVE ExistsInv'
    <2>1. loc[w].pc = "unlink" /\ Goto(w, "got") /\ UNCHANGED <<skill, ui, rec>>
      BY <1>3 DEF UnlinkTimedOut
    <2>3. Saw(loc'[w]) => Saw(loc[w])
      BY <1>0, <2>1, Steps DEF Saw
    <2> QED
      BY <1>0, <2>1, <2>3, Steps, ExistsLocal
  <1>4. ASSUME NEW w \in Handlers, Peek(w) PROVE ExistsInv'
    <2>1. UNCHANGED <<skill, ui, rec>>
      BY <1>4 DEF Peek, store
    <2>2. CASE Finish(w)
      BY <1>a, <2>1, <2>2
    <2>3. CASE ~ Finish(w)
      <3>1. PICK r \in Requests :
              loc' = [loc EXCEPT ![w] = [loc[w] EXCEPT !.pc = "get", !.r = r, !.pops = loc[w].pops + 1]]
        BY <1>4, <1>0, <2>3 DEF Peek, Typed
      <3>2. /\ loc'[w].pc = "get" /\ loc'[w].op = loc[w].op
            /\ \A u \in Handlers : u # w => loc'[u] = loc[u]
        BY <1>0, <3>1 DEF Typed, Locals
      <3>3. loc[w].op = "pop"
        BY <1>0, <1>4 DEF Peek, Holds
      <3> QED
        BY <1>0, <2>1, <3>2, <3>3, ExistsLocal DEF Saw
    <2> QED
      BY <2>2, <2>3
  <1>5. ASSUME NEW w \in Handlers, Drop(w) PROVE ExistsInv'
    BY <1>5, <1>a DEF Drop
  <1>6. ASSUME NEW w \in Handlers, Claim(w) PROVE ExistsInv'
    <2>1. (Goto(w, "claimed") \/ Goto(w, "range")) /\ UNCHANGED <<skill, ui>>
          /\ (rec' = rec \/ rec' = [rec EXCEPT ![loc[w].r] = "running"])
      BY <1>6 DEF Claim, ClaimScript
    <2>2. \A q \in Requests : rec'[q] = "completed" => rec[q] = "completed"
      BY <1>0, <2>1 DEF Typed
    <2> QED
      BY <1>a, <2>1, <2>2
  <1>7. ASSUME NEW w \in Handlers, Persist(w) PROVE ExistsInv'
    <2>1. Finish(w) /\ UNCHANGED <<skill, ui>> /\ loc[w].op \in {"complete", "fail"}
      BY <1>7 DEF Persist, Acknowledge, At
    <2>2. rec' = rec \/ rec' = [rec EXCEPT ![loc[w].r] = Result(w)]
      BY <1>7 DEF Persist, Set
    <2>3. CASE loc[w].op = "fail"
      <3>1. \A q \in Requests : rec'[q] = "completed" => rec[q] = "completed"
        BY <1>0, <2>2, <2>3 DEF Typed, Result
      <3> QED
        BY <1>a, <2>1, <3>1
    <2>4. CASE loc[w].op = "complete"
      <3>1. skill = loc[w].r /\ \A u \in Handlers : Completing(u) => u = w
        BY <2>4 DEF ExistsInv, Completing
      <3>2. \A q \in Requests : ~ Called(q)
        BY <2>4 DEF ExistsInv, Completing
      <3>3. loc'[w].op = "none" /\ loc'[w].pc = "idle" /\ \A u \in Handlers : u # w => loc'[u] = loc[u]
        BY <1>0, <2>1, Steps
      <3>4. \A u \in Handlers : ~ Completing(u)'
        BY <3>1, <3>3 DEF Completing
      <3>5. \A u \in Handlers : Saw(loc'[u]) => Saw(loc[u]) /\ loc'[u].r = loc[u].r
        BY <3>3 DEF Saw
      <3>6. ASSUME NEW q \in Requests, Called(q)' PROVE q = loc[w].r
        <4>1. rec'[q] = "completed" \/ ui[q] = "shown" \/ \E u \in Handlers : Saw(loc'[u]) /\ loc'[u].r = q
          BY <2>1, <3>6 DEF Called, Saw
        <4>2. rec'[q] = "completed"
          BY <3>2, <3>5, <4>1 DEF Called
        <4>3. rec[q] # "completed"
          BY <3>2 DEF Called
        <4> QED
          BY <1>0, <2>2, <4>2, <4>3 DEF Typed
      <3> QED
        BY <2>1, <3>1, <3>4, <3>6 DEF ExistsInv
    <2> QED
      BY <2>1, <2>3, <2>4
  <1>8. ASSUME NEW w \in Handlers, Answer(w) PROVE ExistsInv'
    <2>1. Finish(w) /\ UNCHANGED <<skill, rec>> /\ loc[w].pc = "got"
      BY <1>8 DEF Answer, At, store
    <2>2. \A q \in Requests : ui'[q] = "shown" =>
            ui[q] = "shown" \/ (loc[w].r = q /\ loc[w].seen = "completed")
      BY <1>8, <1>0 DEF Answer, Typed
    <2>3. \A q \in Requests : ui'[q] = "shown" => Called(q)
      BY <2>1, <2>2 DEF Called, Saw
    <2>4. ~ Saw(loc'[w]) /\ loc'[w].op = "none" /\ \A u \in Handlers : u # w => loc'[u] = loc[u]
      BY <1>0, <2>1, Steps DEF Saw
    <2> QED
      BY <1>0, <2>1, <2>3, <2>4, ExistsLocal
  <1>9. ASSUME NEW w \in Handlers, Deliver(w) PROVE ExistsInv'
    BY <1>9, <1>a DEF Deliver, store
  <1>10. ASSUME NEW w \in Handlers, Ignore(w) PROVE ExistsInv'
    BY <1>10, <1>a DEF Ignore, Acknowledge, store
  <1>11. ASSUME NEW w \in Handlers, Accept(w) PROVE ExistsInv'
    <2>1. UNCHANGED <<rec, ui>> /\ loc[w].op = "report"
      BY <1>11 DEF Accept, At, store
    <2>2. CASE skill' = skill /\ Resume(w, "fail")
      BY <1>a, <2>1, <2>2
    <2>3. CASE skill = None /\ skill' = loc[w].r /\ Resume(w, "complete")
      <3>1. loc[w].r \in Requests
        BY <1>0, <2>1 DEF Holds, Reporting
      <3>2. /\ loc'[w].pc = "get" /\ loc'[w].op = "complete" /\ loc'[w].r = loc[w].r
            /\ \A u \in Handlers : u # w => loc'[u] = loc[u]
        BY <1>0, <2>3, Steps
      <3>3. \A q \in Requests : ~ Called(q)
        BY <2>3, NoneAssumption DEF ExistsInv
      <3>4. \A u \in Handlers : ~ Completing(u)
        <4> SUFFICES ASSUME NEW u \in Handlers, Completing(u) PROVE FALSE
          OBVIOUS
        <4>1. loc[u].r \in Requests
          BY <1>0 DEF Completing, Holds, Reporting
        <4> QED
          BY <2>3, <4>1, NoneAssumption DEF ExistsInv
      <3>5. \A q \in Requests : ~ Called(q)'
        BY <2>1, <3>2, <3>3 DEF Called, Saw
      <3>6. \A u \in Handlers : Completing(u)' => u = w
        BY <3>2, <3>4 DEF Completing
      <3> QED
        BY <2>3, <3>2, <3>5, <3>6 DEF ExistsInv
    <2> QED
      BY <1>11, <2>2, <2>3 DEF Accept
  <1>12. ASSUME NEW w \in Handlers, Rollback(w) PROVE ExistsInv'
    <2>1. Finish(w) /\ UNCHANGED <<rec, ui>> /\ loc[w].pc = "undo"
      BY <1>12 DEF Rollback, Refuse, store
    <2>2. Completing(w)
      BY <1>0, <2>1 DEF Holds, Completing
    <2>3. (\A q \in Requests : ~ Called(q)) /\ \A u \in Handlers : Completing(u) => u = w
      BY <2>2 DEF ExistsInv
    <2>4. loc'[w].op = "none" /\ loc'[w].pc = "idle" /\ \A u \in Handlers : u # w => loc'[u] = loc[u]
      BY <1>0, <2>1, Steps
    <2>5. (\A q \in Requests : ~ Called(q)') /\ \A u \in Handlers : ~ Completing(u)'
      BY <2>1, <2>3, <2>4 DEF Called, Saw, Completing
    <2> QED
      BY <2>5 DEF ExistsInv
  <1>13. ASSUME NEW w \in Handlers, Heartbeat(w) PROVE ExistsInv'
    <2>1. UNCHANGED <<rec, ui, skill>> /\ loc' = [loc EXCEPT ![w] = Serving("range", "pop", None)]
      BY <1>13 DEF Heartbeat, store
    <2>2. loc'[w].op = "pop" /\ loc'[w].pc = "range" /\ \A u \in Handlers : u # w => loc'[u] = loc[u]
      BY <1>0, <2>1 DEF Typed, Serving
    <2> QED
      BY <1>0, <2>1, <2>2, ExistsLocal DEF Saw
  <1>b. ASSUME NEW w \in Handlers, Failed(w)
        PROVE  Finish(w) /\ \A q \in Requests : ui'[q] = "shown" => ui[q] = "shown"
    BY <1>b, <1>0 DEF Failed, Refuse, Typed
  <1>14. ASSUME NEW w \in Handlers, RedisFails(w) PROVE ExistsInv'
    <2>1. UNCHANGED <<rec, skill>> /\ ((Goto(w, "undo") /\ ui' = ui) \/ Failed(w))
      BY <1>14 DEF RedisFails
    <2> QED
      BY <1>a, <1>b, <2>1
  <1>15. ASSUME NEW w \in Handlers, UnlinkFails(w) PROVE ExistsInv'
    <2>1. UNCHANGED <<rec, ui, skill>>
      BY <1>15 DEF UnlinkFails, store
    <2>2. CASE Goto(w, "range")
      BY <1>a, <2>1, <2>2
    <2>3. CASE loc[w].pc = "unlink" /\ Goto(w, "got")
      <3>1. Saw(loc'[w]) => Saw(loc[w])
        BY <1>0, <2>3, Steps DEF Saw
      <3> QED
        BY <1>0, <2>1, <2>3, <3>1, Steps, ExistsLocal
    <2> QED
      BY <1>15, <2>2, <2>3 DEF UnlinkFails
  <1>16. ASSUME NEW w \in Handlers, DatabaseFails(w) PROVE ExistsInv'
    BY <1>16, <1>a DEF DatabaseFails, Refuse, store
  <1>c. ASSUME UNCHANGED <<rec, ui, skill>>,
               \A u \in Handlers : loc'[u] = loc[u] \/ loc'[u] = [loc[u] EXCEPT !.waits = FALSE]
        PROVE  ExistsInv'
    <2>1. ASSUME NEW u \in Handlers
          PROVE  loc'[u].op = loc[u].op /\ loc'[u].r = loc[u].r /\ (Saw(loc'[u]) <=> Saw(loc[u]))
      <3>1. loc'[u].op = loc[u].op /\ loc'[u].r = loc[u].r
            /\ loc'[u].pc = loc[u].pc /\ loc'[u].seen = loc[u].seen
        BY <1>0, <1>c DEF Locals
      <3> QED
        BY <3>1 DEF Saw
    <2>2. ASSUME NEW q \in Requests, Called(q)' PROVE Called(q)
      <3>1. rec[q] = "completed" \/ ui[q] = "shown" \/ \E u \in Handlers : Saw(loc'[u]) /\ loc'[u].r = q
        BY <1>c, <2>2 DEF Called, Saw
      <3> QED
        BY <2>1, <3>1 DEF Called
    <2> QED
      BY <1>c, <2>1, <2>2, ExistsOn DEF Completing
  <1>17. ASSUME NEW w \in Handlers, ClientGivesUp(w) PROVE ExistsInv'
    BY <1>17, <1>0, <1>c DEF ClientGivesUp, store, Typed
  <1>18. ASSUME NEW w \in Handlers, Cut(w) PROVE ExistsInv'
    BY <1>18, <1>a, <1>b DEF Cut, store
  <1>d. ASSUME NEW w \in Handlers, NEW op \in {"poll", "report"}, NEW r \in Requests,
               loc' = [loc EXCEPT ![w] = Serving("get", op, r)], UNCHANGED <<rec, skill>>,
               \A q \in Requests : ui'[q] = "shown" => ui[q] = "shown"
        PROVE  ExistsInv'
    <2>1. loc'[w].op = op /\ loc'[w].pc = "get" /\ \A u \in Handlers : u # w => loc'[u] = loc[u]
      BY <1>0, <1>d DEF Typed, Serving
    <2> QED
      BY <1>0, <1>d, <2>1, ExistsLocal DEF Saw
  <1>19. ASSUME NEW w \in Handlers, NEW r \in Requests, Poll(w, r) PROVE ExistsInv'
    BY <1>19, <1>0, <1>d DEF Poll, store, Typed
  <1>20. ASSUME NEW w \in Handlers, NEW r \in Requests, Report(w, r) PROVE ExistsInv'
    BY <1>20, <1>d DEF Report, store
  <1>e. ASSUME UNCHANGED <<loc, skill>>,
               \A q \in Requests : rec'[q] = "completed" => rec[q] = "completed",
               \A q \in Requests : ui'[q] = "shown" => ui[q] = "shown"
        PROVE  ExistsInv'
    BY <1>e, ExistsOn DEF Called, Completing, Saw
  <1>21. ASSUME NEW r \in Requests, Initiate(r) PROVE ExistsInv'
    BY <1>21, <1>0, <1>e DEF Initiate, Typed
  <1>22. ASSUME NEW r \in Requests, StopPolling(r) PROVE ExistsInv'
    BY <1>22, <1>0, <1>e DEF StopPolling, store, Typed
  <1>23. ASSUME DaemonStops PROVE ExistsInv'
    BY <1>23, <1>c DEF DaemonStops, store
  <1>24. ASSUME Tick PROVE ExistsInv'
    BY <1>24, <1>e DEF Tick
  <1>25. ASSUME NEW w \in Handlers, Serve(w) PROVE ExistsInv'
    BY <1>25, <1>1, <1>2, <1>3, <1>4, <1>5, <1>6, <1>7, <1>8, <1>9, <1>10, <1>11, <1>12 DEF Serve, Redis
  <1>26. ASSUME NEW w \in Handlers, Fault(w) PROVE ExistsInv'
    BY <1>26, <1>14, <1>15, <1>16, <1>17, <1>18 DEF Fault
  <1> QED
    BY <1>13, <1>19, <1>20, <1>21, <1>22, <1>23, <1>24, <1>25, <1>26 DEF Next

\* An import that is called completed, in the store or in the browser, did
\* create the skill and has not rolled it back, as long as a command that
\* Redis refuses was not executed: the rollback deletes a skill only while its
\* goroutine is the one that created it, and nobody calls it completed before.
THEOREM CompletedIsTrue == ASSUME Unsure = FALSE PROVE Spec => []CompletedExists
  <1> DEFINE Import == Kind = "import" => ExistsInv
  <1>1. Init => Import
    <2> SUFFICES ASSUME Init PROVE ExistsInv
      OBVIOUS
    <2>1. \A u \in Handlers : loc[u].op = "none" /\ loc[u].seen = "none"
      BY DEF Init, Idle
    <2>2. \A q \in Requests : rec[q] = "none" /\ ui[q] = "idle"
      BY DEF Init
    <2> QED
      BY <2>1, <2>2 DEF ExistsInv, Called, Saw, Completing
  <1>2. Inv /\ Import /\ [Next]_vars => Import'
    <2> SUFFICES ASSUME Inv, ExistsInv, Kind = "import", [Next]_vars PROVE ExistsInv'
      OBVIOUS
    <2>1. CASE Next
      BY <2>1, StepExists DEF CertainNext
    <2>2. CASE UNCHANGED vars
      BY <2>2, ExistsOn DEF vars, Called, Saw, Completing
    <2> QED
      BY <2>1, <2>2
  <1>3. Import => CompletedExists
    BY DEF ExistsInv, Called, CompletedExists
  <1> QED
    BY <1>1, <1>2, <1>3, Invariance, PTL DEF Spec

-----------------------------------------------------------------------------
(* Claimed long ago.                                                         *)

\* A goroutine goes on from its first command only by having loaded the record.
LEMMA OnlyLoads ==
  ASSUME Inv, Next, NEW w \in Handlers, loc[w].pc = "get", loc'[w].pc \notin {"get", "idle", "undo"}
  PROVE  Load(w)
  <1>1. Typed /\ loc[w] # Idle /\ loc[w].pc = "get" /\ loc'[w] # loc[w] /\ loc'[w] # Idle /\ Idle.pc = "idle"
    BY DEF Inv, Idle
  <1>2. \A u \in Handlers : Finish(u) \/ Failed(u) \/ (\E pc : Goto(u, pc)) \/ (\E op : Resume(u, op)) => w = u
    BY <1>1, Steps DEF Failed, Refuse
  <1>3. ~ Failed(w) /\ ~ Finish(w)
    BY <1>1, Steps DEF Failed, Refuse
  <1>4. ASSUME NEW u \in Handlers, Redis(u) PROVE Load(w)
    <2>1. CASE Load(u)
      <3>1. u = w
        BY <1>1, <2>1 DEF Load, Typed
      <3> QED
        BY <2>1, <3>1
    <2>2. CASE PersistTimeout(u) \/ UnlinkTimedOut(u) \/ Drop(u) \/ Claim(u) \/ Persist(u)
      BY <1>1, <1>2, <2>2
      DEF PersistTimeout, UnlinkTimedOut, Drop, Claim, Persist, Acknowledge, At
    <2>3. CASE Peek(u)
      BY <1>1, <1>2, <2>3 DEF Peek, Typed
    <2> QED
      BY <1>4, <2>1, <2>2, <2>3 DEF Redis
  <1>5. ASSUME NEW u \in Handlers,
               Answer(u) \/ Deliver(u) \/ Ignore(u) \/ Accept(u) \/ Rollback(u)
        PROVE  FALSE
    BY <1>1, <1>2, <1>5 DEF Answer, Deliver, Ignore, Accept, Rollback, Acknowledge, Refuse, At
  <1>6. ASSUME NEW u \in Handlers, Fault(u) PROVE FALSE
    <2>1. CASE RedisFails(u)
      <3>1. Goto(u, "undo") \/ Failed(u)
        BY <2>1 DEF RedisFails
      <3> QED
        BY <1>1, <1>2, <1>3, <3>1, Steps
    <2>2. CASE UnlinkFails(u) \/ DatabaseFails(u)
      BY <1>1, <1>2, <2>2 DEF UnlinkFails, DatabaseFails, Refuse, At
    <2>3. CASE ClientGivesUp(u)
      BY <1>1, <2>3 DEF ClientGivesUp, Typed, Locals
    <2>4. CASE Cut(u)
      BY <1>2, <1>3, <2>4 DEF Cut
    <2> QED
      BY <1>6, <2>1, <2>2, <2>3, <2>4 DEF Fault
  <1>7. ASSUME NEW u \in Handlers, NEW r \in Requests, Poll(u, r) \/ Report(u, r)
        PROVE  FALSE
    BY <1>1, <1>7 DEF Poll, Report, Typed
  <1>8. ASSUME NEW u \in Handlers, Heartbeat(u) PROVE FALSE
    BY <1>1, <1>8 DEF Heartbeat, Typed
  <1>9. ASSUME NEW r \in Requests, Initiate(r) \/ StopPolling(r) PROVE FALSE
    BY <1>1, <1>9 DEF Initiate, StopPolling
  <1>10. ~ DaemonStops
    BY <1>1 DEF DaemonStops, Typed, Locals
  <1>11. ~ Tick
    BY <1>1 DEF Tick
  <1> QED
    BY <1>4, <1>5, <1>6, <1>7, <1>8, <1>9, <1>10, <1>11 DEF Next, Serve

\* Whoever loads an import that was claimed more than the running timeout ago
\* finds it timed out, whatever runs beside: the deadline is decided on what one
\* command has read.  A listing loses the time of its claim, and TLC refutes this.
THEOREM OldClaimsTimeOut == ASSUME Kind = "import" PROVE Spec => RunningTimesOut
  <1>1. ASSUME Inv, [Next]_vars, NEW w \in Handlers, loc[w].pc = "get",
               loc'[w].pc \notin {"get", "idle", "undo"}, clock[loc[w].r].run > RunningTimeout
        PROVE  loc'[w].seen # "running"
    <2>1. Load(w)
      BY <1>1, OnlyLoads DEF vars
    <2>2. loc'[w].seen = IF TimedOut(loc[w].r) THEN "timeout" ELSE rec[loc[w].r]
      BY <1>1, <2>1 DEF Load, Inv, Typed, Locals
    <2> QED
      BY <1>1, <2>2 DEF TimedOut, KeepsRunStartedAt
  <1>2. Inv /\ [Next]_vars =>
          \A w \in Handlers :
            /\ loc[w].pc = "get" /\ loc'[w].pc \notin {"get", "idle", "undo"}
            /\ clock[loc[w].r].run > RunningTimeout
            => loc'[w].seen # "running"
    BY <1>1
  <1> QED
    BY <1>2, Invariance, PTL DEF Spec, RunningTimesOut
=============================================================================
