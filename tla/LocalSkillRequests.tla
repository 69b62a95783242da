------------------------- MODULE LocalSkillRequests -------------------------
(***************************************************************************)
(* The local skills of a runtime, listed and imported from the browser.    *)
(* The server cannot call a daemon, so a request is a record in Redis: the *)
(* browser creates it and polls it, a heartbeat of the daemon claims it,   *)
(* the daemon reports a result, an import writes a skill to PostgreSQL.    *)
(*                                                                         *)
(* Any server node may serve any call.  A store operation is several Redis *)
(* commands, and between two of them the other nodes go on; one action is  *)
(* one command, or one transaction of PostgreSQL.                          *)
(*                                                                         *)
(* Time is counted in ticks of 30 seconds.  All requests are for the same  *)
(* runtime and, for imports, for a skill of the same name.                 *)
(***************************************************************************)
EXTENDS Naturals, FiniteSets

CONSTANTS
  Requests,       \* the ids of requests
  Handlers,       \* goroutines of the server nodes that serve the calls
  Kind,           \* "list" or "import": which of the two stores
  PendingTimeout, RunningTimeout, Retention, \* of the records
  Patience,       \* POLL_TIMEOUT_MS of the browser
  MaxPops,        \* localSkillRedisPopMaxRetries
  MaxReports,     \* the attempts of localSkillReportBackoffs
  MaxFaults,      \* bounds the commands that fail and the daemon's stops
  MaxAge,         \* bounds the clocks
  Unsure,         \* whether a command that fails may have been executed
  None

ASSUME KindAssumption == Kind \in {"list", "import"} /\ Unsure \in BOOLEAN
ASSUME RequestsAssumption == IsFiniteSet(Requests)
ASSUME TimeAssumption ==
  /\ {PendingTimeout, RunningTimeout, Retention, Patience, MaxPops, MaxReports, MaxFaults, MaxAge} \subseteq Nat
  /\ MaxReports > 0 /\ PendingTimeout < Retention /\ RunningTimeout < Retention /\ Retention <= MaxAge
ASSUME NoneAssumption == None \notin Requests

VARIABLES
  rec,     \* the record's status; "none" before it is created, "gone" when its TTL ran out
  clock,   \* ticks since the record was created, was claimed, was written
  pending, \* the members of the runtime's sorted set
  score,   \* their scores: the order of creation
  skill,   \* the request whose report created the skill of this name, or None
  loc,     \* what the goroutines hold
  job,     \* the daemon's goroutine for a request
  ui,      \* the browser's
  handed,  \* how often a request was claimed
  faults

store == <<rec, clock, pending, score>>
vars == <<rec, clock, pending, score, skill, loc, job, ui, handed, faults>>

Terminal == {"completed", "failed", "timeout"}
Cap(n) == IF n < MaxAge THEN n + 1 ELSE n

\* seen: the status the goroutine has loaded; waits: its client still listens;
\* pops: the turns of the loop of PopPending
Idle == [pc |-> "idle", op |-> "none", r |-> None, seen |-> "none", waits |-> FALSE, pops |-> 0]
Serving(pc, op, r) == [pc |-> pc, op |-> op, r |-> r, seen |-> "none", waits |-> TRUE, pops |-> 0]
Goto(w, pc) == loc' = [loc EXCEPT ![w].pc = pc]
Finish(w) == loc' = [loc EXCEPT ![w] = Idle]
At(w, pc, ops) == loc[w].pc = pc /\ loc[w].op \in ops

Init ==
  /\ rec = [r \in Requests |-> "none"]
  /\ clock = [r \in Requests |-> [age |-> 0, run |-> 0, idle |-> 0]]
  /\ pending = {} /\ score = [r \in Requests |-> 0]
  /\ skill = None
  /\ loc = [w \in Handlers |-> Idle]
  /\ job = [r \in Requests |-> [at |-> "none", body |-> "failed", left |-> MaxReports]]
  /\ ui = [r \in Requests |-> "idle"]
  /\ handed = [r \in Requests |-> 0]
  /\ faults = 0

-----------------------------------------------------------------------------
(* Redis.                                                                    *)

\* SET record EX retention
Set(r, status) ==
  /\ rec' = [rec EXCEPT ![r] = status]
  /\ clock' = [clock EXCEPT ![r].idle = 0]

\* ZREM pending
Unlink(r) == pending' = pending \ {r}

\* The Lua script: whoever removes the member writes the record.
ClaimScript(r) ==
  /\ Unlink(r)
  /\ rec' = [rec EXCEPT ![r] = "running"]
  /\ clock' = [clock EXCEPT ![r].run = 0, ![r].idle = 0]
  /\ handed' = [handed EXCEPT ![r] = @ + 1]

\* applyLocalSkillListTimeout, applyLocalSkillImportTimeout.  RunStartedAt is
\* not part of the JSON of a request; only the envelope of an import keeps it.
NoneKeepsIt == FALSE \* mutant: the records of imports lose it as well
KeepsRunStartedAt == Kind = "import"

TimedOut(r) ==
  \/ rec[r] = "pending" /\ clock[r].age > PendingTimeout
  \/ rec[r] = "running" /\ clock[r].run > RunningTimeout /\ KeepsRunStartedAt

\* The first command of loadListRequest and loadImportRequest, and the decision
\* that a deadline has passed; the next two commands make it known.
Load(w) ==
  LET r == loc[w].r IN
  /\ loc[w].pc = "get"
  /\ loc' = [loc EXCEPT ![w].pc = IF TimedOut(r) THEN "expire" ELSE "got",
                        ![w].seen = IF TimedOut(r) THEN "timeout" ELSE rec[r]]
  /\ UNCHANGED <<store, skill, job, ui, handed, faults>>

OnlyUnlinks(w) == \* mutant: the timeout is not written
  /\ loc[w].pc = "expire"
  /\ Unlink(loc[w].r) /\ Goto(w, "unlink")
  /\ UNCHANGED <<rec, clock, score, skill, job, ui, handed, faults>>

Requeues(w) == \* mutant: a request that timed out is offered again
  LET r == loc[w].r IN
  /\ loc[w].pc = "expire"
  /\ Set(r, "pending") /\ pending' = pending \cup {r} /\ Goto(w, "got")
  /\ UNCHANGED <<score, skill, job, ui, handed, faults>>

PersistTimeout(w) ==
  /\ loc[w].pc = "expire"
  /\ Set(loc[w].r, "timeout") /\ Goto(w, "unlink")
  /\ UNCHANGED <<pending, score, skill, job, ui, handed, faults>>

UnlinkTimedOut(w) ==
  /\ loc[w].pc = "unlink"
  /\ Unlink(loc[w].r) /\ Goto(w, "got")
  /\ UNCHANGED <<rec, clock, score, skill, job, ui, handed, faults>>

-----------------------------------------------------------------------------
(* The browser: resolveRuntimeLocalSkills, resolveRuntimeLocalSkillImport.   *)

\* The record and its member of the sorted set are created in one transaction.
Initiate(r) ==
  /\ ui[r] = "idle" /\ ui' = [ui EXCEPT ![r] = "polling"]
  /\ rec' = [rec EXCEPT ![r] = "pending"]
  /\ pending' = pending \cup {r}
  /\ score' = [score EXCEPT ![r] = Cardinality({s \in Requests : rec[s] # "none"}) + 1]
  /\ UNCHANGED <<clock, skill, loc, job, handed, faults>>

Poll(w, r) ==
  /\ ui[r] = "polling" /\ clock[r].age <= Patience /\ loc[w] = Idle
  /\ ui' = [ui EXCEPT ![r] = "asking"]
  /\ loc' = [loc EXCEPT ![w] = Serving("get", "poll", r)]
  /\ UNCHANGED <<store, skill, job, handed, faults>>

Answer(w) ==
  LET r == loc[w].r IN
  /\ At(w, "got", {"poll"})
  /\ ui' = [ui EXCEPT ![r] = CASE ui[r] # "asking" -> ui[r]
                               [] loc[w].seen = "completed" -> "shown"
                               [] loc[w].seen \in {"failed", "timeout", "gone"} -> "error"
                               [] OTHER -> "polling"]
  /\ Finish(w)
  /\ UNCHANGED <<store, skill, job, handed, faults>>

\* The polls time out, or the page is closed.
StopPolling(r) ==
  /\ ui[r] \in {"polling", "asking"} /\ ui' = [ui EXCEPT ![r] = "error"]
  /\ UNCHANGED <<store, skill, loc, job, handed, faults>>

-----------------------------------------------------------------------------
(* DaemonHeartbeat: PopPending, once HasPending has said there is something. *)

Heartbeat(w) ==
  /\ pending # {} /\ loc[w] = Idle
  /\ loc' = [loc EXCEPT ![w] = Serving("range", "pop", None)]
  /\ UNCHANGED <<store, skill, job, ui, handed, faults>>

Oldest(r) == r \in pending /\ \A s \in pending : score[r] <= score[s]

\* ZRANGE 0 0, unless the set is empty or the turns are used up.
Peek(w) ==
  /\ loc[w].pc = "range"
  /\ IF pending = {} \/ loc[w].pops = MaxPops
     THEN Finish(w)
     ELSE \E r \in Requests :
            Oldest(r) /\ loc' = [loc EXCEPT ![w].pc = "get", ![w].r = r, ![w].pops = @ + 1]
  /\ UNCHANGED <<store, skill, job, ui, handed, faults>>

LeavesMember(w) == \* mutant: the next turn starts without a ZREM
  /\ At(w, "got", {"pop"}) /\ loc[w].seen # "pending" /\ Goto(w, "range")
  /\ UNCHANGED <<store, skill, job, ui, handed, faults>>

\* A request that has expired, timed out or been claimed is unlinked.
Drop(w) ==
  /\ At(w, "got", {"pop"}) /\ loc[w].seen # "pending"
  /\ Unlink(loc[w].r) /\ Goto(w, "range")
  /\ UNCHANGED <<rec, clock, score, skill, job, ui, handed, faults>>

ClaimUnchecked(w) == \* mutant: the script does not look at what ZREM returns
  /\ At(w, "got", {"pop"}) /\ loc[w].seen = "pending"
  /\ ClaimScript(loc[w].r) /\ Goto(w, "claimed")
  /\ UNCHANGED <<score, skill, job, ui, faults>>

Claim(w) ==
  LET r == loc[w].r IN
  /\ At(w, "got", {"pop"}) /\ loc[w].seen = "pending"
  /\ IF r \in pending
     THEN ClaimScript(r) /\ Goto(w, "claimed")
     ELSE Goto(w, "range") /\ UNCHANGED <<rec, clock, pending, handed>>
  /\ UNCHANGED <<score, skill, job, ui, faults>>

\* The answer reaches the daemon, if it still waits for it.  The daemon works on
\* the request in a goroutine of its own.
Deliver(w) ==
  /\ loc[w].pc = "claimed"
  /\ IF loc[w].waits
     THEN \E body \in {"completed", "failed"} :
            job' = [job EXCEPT ![loc[w].r] = [at |-> "ready", body |-> body, left |-> MaxReports]]
     ELSE UNCHANGED job
  /\ Finish(w)
  /\ UNCHANGED <<store, skill, ui, handed, faults>>

-----------------------------------------------------------------------------
(* The daemon's report: reportLocalSkillResultWithRetry on one side,         *)
(* ReportLocalSkillListResult and ReportLocalSkillImportResult on the other. *)

Report(w, r) ==
  /\ job[r].at = "ready" /\ loc[w] = Idle
  /\ job' = [job EXCEPT ![r].at = "sent", ![r].left = @ - 1]
  /\ loc' = [loc EXCEPT ![w] = Serving("get", "report", r)]
  /\ UNCHANGED <<store, skill, ui, handed, faults>>

\* 2xx and 4xx end the attempts; after a 5xx or a network error there may be more.
RetriedForever(j) == [j EXCEPT !.at = "ready"] \* mutant: no end of the backoffs
Retried(j) == [j EXCEPT !.at = IF j.left = 0 THEN "done" ELSE "ready"]
Acknowledge(w) ==
  /\ job' = IF loc[w].waits THEN [job EXCEPT ![loc[w].r].at = "acked"] ELSE job
  /\ Finish(w)
Swallow(w) == Acknowledge(w) \* mutant: 200 whatever the store says
Refuse(w) ==
  /\ job' = IF loc[w].waits THEN [job EXCEPT ![loc[w].r] = Retried(@)] ELSE job
  /\ Finish(w)

\* Not found, or a stale report that is ignored.
Ignore(w) ==
  /\ At(w, "got", {"report"}) /\ loc[w].seen \in Terminal \cup {"gone"}
  /\ Acknowledge(w)
  /\ UNCHANGED <<store, skill, ui, handed, faults>>

\* Fail and Complete load the record again before they write it.
Resume(w, op) == loc' = [loc EXCEPT ![w].op = op, ![w].pc = "get"]

TakesAnySkill(w) == \* mutant: a skill of this name is good enough
  LET body == job[loc[w].r].body IN
  /\ At(w, "got", {"report"}) /\ loc[w].seen \in {"pending", "running"}
  /\ Resume(w, IF body = "completed" THEN "complete" ELSE "fail")
  /\ skill' = IF body = "completed" /\ Kind = "import" /\ skill = None THEN loc[w].r ELSE skill
  /\ UNCHANGED <<store, job, ui, handed, faults>>

Accept(w) ==
  LET body == job[loc[w].r].body IN
  /\ At(w, "got", {"report"}) /\ loc[w].seen \in {"pending", "running"}
  /\ \/ body = "failed" /\ Resume(w, "fail") /\ UNCHANGED skill
     \/ body = "completed" /\ Kind = "list" /\ Resume(w, "complete") /\ UNCHANGED skill
     \* createSkillWithFiles: the name is unique in the workspace
     \/ body = "completed" /\ Kind = "import" /\ skill = None
        /\ skill' = loc[w].r /\ Resume(w, "complete")
     \/ body = "completed" /\ Kind = "import" /\ skill # None
        /\ Resume(w, "fail") /\ UNCHANGED skill
  /\ UNCHANGED <<store, job, ui, handed, faults>>

Result(w) == IF loc[w].op = "complete" THEN "completed" ELSE "failed"

\* A record that is gone is left alone, and the daemon hears that all is well.
Persist(w) ==
  /\ At(w, "got", {"complete", "fail"})
  /\ IF loc[w].seen = "gone" THEN UNCHANGED <<rec, clock>> ELSE Set(loc[w].r, Result(w))
  /\ Acknowledge(w)
  /\ UNCHANGED <<pending, score, skill, ui, handed, faults>>

\* After a failed Complete the skill is deleted again.
Rollback(w) ==
  /\ loc[w].pc = "undo" /\ skill' = None
  /\ Refuse(w)
  /\ UNCHANGED <<store, ui, handed, faults>>

-----------------------------------------------------------------------------
(* What goes wrong: commands that fail, answers that are late or lost, nodes *)
(* and daemons that stop; and time.                                          *)

\* What the browser or the daemon makes of a 5xx or of no answer.
Failed(w) ==
  CASE loc[w].op = "poll" ->
         /\ ui' = [ui EXCEPT ![loc[w].r] = IF @ = "asking" THEN "error" ELSE @]
         /\ Finish(w) /\ UNCHANGED job
    [] loc[w].op = "pop" -> Finish(w) /\ UNCHANGED <<job, ui>>
    [] OTHER -> Refuse(w) /\ UNCHANGED ui

Undoes(w) == loc[w].op = "complete" /\ Kind = "import"

\* Redis returns an error.  Unless it is Unsure the command was not executed.
RedisFails(w) ==
  /\ faults < MaxFaults /\ faults' = faults + 1
  /\ \/ loc[w].pc \in {"range", "get", "expire"}
     \/ At(w, "got", {"complete", "fail"}) /\ loc[w].seen # "gone"
     \/ At(w, "got", {"pop"}) /\ loc[w].seen = "pending"
  /\ \/ UNCHANGED <<rec, clock, pending, handed>>
     \/ Unsure /\ loc[w].pc = "expire" /\ Set(loc[w].r, "timeout") /\ UNCHANGED <<pending, handed>>
     \/ Unsure /\ At(w, "got", {"complete", "fail"})
        /\ Set(loc[w].r, Result(w)) /\ UNCHANGED <<pending, handed>>
     \/ Unsure /\ At(w, "got", {"pop"}) /\ loc[w].r \in pending /\ ClaimScript(loc[w].r)
  /\ IF Undoes(w) THEN Goto(w, "undo") /\ UNCHANGED <<job, ui>> ELSE Failed(w)
  /\ UNCHANGED <<score, skill>>

\* The errors of ZREM are not looked at.
UnlinkFails(w) ==
  /\ faults < MaxFaults /\ faults' = faults + 1
  /\ \/ loc[w].pc = "unlink" /\ Goto(w, "got")
     \/ At(w, "got", {"pop"}) /\ loc[w].seen # "pending" /\ Goto(w, "range")
  /\ UNCHANGED <<store, skill, job, ui, handed>>

\* The skill is not created, or not deleted, because PostgreSQL refuses.
DatabaseFails(w) ==
  /\ faults < MaxFaults /\ faults' = faults + 1
  /\ \/ /\ At(w, "got", {"report"}) /\ Kind = "import" /\ job[loc[w].r].body = "completed"
        /\ loc[w].seen \in {"pending", "running"}
        /\ Resume(w, "fail") /\ UNCHANGED job
     \/ loc[w].pc = "undo" /\ Refuse(w)
  /\ UNCHANGED <<store, skill, ui, handed>>

\* The HTTP client of the daemon gives up after 30 seconds; the goroutine it
\* waited for is not stopped yet.
ClientGivesUp(w) ==
  /\ loc[w].waits /\ loc[w].op # "poll"
  /\ faults < MaxFaults /\ faults' = faults + 1
  /\ loc' = [loc EXCEPT ![w].waits = FALSE]
  /\ job' = IF loc[w].op = "pop" THEN job ELSE [job EXCEPT ![loc[w].r] = Retried(@)]
  /\ UNCHANGED <<store, skill, ui, handed>>

\* The node stops, or notices that the client has gone and cancels the context:
\* every later command of this goroutine fails, those of a rollback too.
Cut(w) ==
  /\ loc[w] # Idle
  /\ IF loc[w].waits THEN faults < MaxFaults /\ faults' = faults + 1 ELSE UNCHANGED faults
  /\ Failed(w)
  /\ UNCHANGED <<store, skill, handed>>

\* The daemon's goroutines stop with it; what it was told is told nobody else.
DaemonStops ==
  /\ faults < MaxFaults /\ faults' = faults + 1
  /\ \E r \in Requests : job[r].at \in {"ready", "sent"}
  /\ job' = [r \in Requests |-> IF job[r].at \in {"ready", "sent"} THEN [job[r] EXCEPT !.at = "done"] ELSE job[r]]
  /\ loc' = [w \in Handlers |-> IF loc[w].op \in {"none", "poll"} THEN loc[w] ELSE [loc[w] EXCEPT !.waits = FALSE]]
  /\ UNCHANGED <<store, skill, ui, handed>>

Tick ==
  /\ \E r \in Requests : rec[r] \notin {"none", "gone"}
  /\ rec' = [r \in Requests |-> IF rec[r] # "none" /\ clock[r].idle = Retention THEN "gone" ELSE rec[r]]
  /\ clock' = [r \in Requests |->
                 IF rec[r] = "none" THEN clock[r]
                 ELSE [age |-> Cap(clock[r].age), run |-> Cap(clock[r].run), idle |-> Cap(clock[r].idle)]]
  /\ UNCHANGED <<pending, score, skill, loc, job, ui, handed, faults>>

Redis(w) ==
  \/ Load(w) \/ PersistTimeout(w) \/ UnlinkTimedOut(w)
  \/ Peek(w) \/ Drop(w) \/ Claim(w) \/ Persist(w)
Serve(w) == Redis(w) \/ Answer(w) \/ Deliver(w) \/ Ignore(w) \/ Accept(w) \/ Rollback(w)

Fault(w) ==
  \/ RedisFails(w) \/ UnlinkFails(w) \/ DatabaseFails(w) \/ ClientGivesUp(w) \/ Cut(w)

Next ==
  \/ \E w \in Handlers : Serve(w) \/ Heartbeat(w) \/ Fault(w)
  \/ \E w \in Handlers, r \in Requests : Poll(w, r) \/ Report(w, r)
  \/ \E r \in Requests : Initiate(r) \/ StopPolling(r)
  \/ DaemonStops \/ Tick

\* A goroutine that is served goes on; the daemon beats every 15 seconds, and
\* the server always has a goroutine for it (Handlers only bounds how many
\* overlap).
Fairness ==
  /\ \A w \in Handlers : WF_vars(Serve(w))
  /\ SF_vars(\E w \in Handlers : Heartbeat(w))

Spec == Init /\ [][Next]_vars /\ Fairness

-----------------------------------------------------------------------------
(* Properties.                                                               *)

Locals == [pc : {"idle", "get", "expire", "unlink", "got", "range", "claimed", "undo"},
          op : {"none", "poll", "pop", "report", "complete", "fail"},
          r : Requests \cup {None}, seen : {"none", "pending", "running", "gone"} \cup Terminal,
          waits : BOOLEAN, pops : 0 .. MaxPops]

TypeOK ==
  /\ rec \in [Requests -> {"none", "pending", "running", "gone"} \cup Terminal]
  /\ clock \in [Requests -> [age : Nat, run : Nat, idle : Nat]]
  /\ pending \subseteq Requests /\ score \in [Requests -> Nat]
  /\ skill \in Requests \cup {None}
  /\ loc \in [Handlers -> Locals]
  /\ job \in [Requests -> [at : {"none", "ready", "sent", "acked", "done"},
                          body : {"completed", "failed"}, left : 0 .. MaxReports]]
  /\ ui \in [Requests -> {"idle", "polling", "asking", "shown", "error"}]
  /\ handed \in [Requests -> Nat] /\ faults \in Nat

\* However many heartbeats overlap, a request is claimed once, and its goroutine
\* in the daemon is the only one.
HandedOnce == \A r \in Requests : handed[r] <= 1 /\ (r \in pending => handed[r] = 0)

\* The records, the sorted set and the claims implement the handoff of requests:
\* no late answer, retry or error offers a request again, takes back an offer or
\* moves a record but onward.
life == [r \in Requests |->
  CASE rec[r] = "none" -> "new" [] rec[r] = "pending" -> "offered"
    [] rec[r] = "running" -> "taken" [] OTHER -> "settled"]
Handoff == INSTANCE RequestHandoff WITH offers <- pending, taken <- {r \in Requests : handed[r] > 0}
HandoffSpec == Handoff!Spec

\* No crash or error between two commands strands a request: as long as its
\* record says pending the sorted set offers it to the next heartbeat.
NotStranded == \A r \in Requests : rec[r] = "pending" => r \in pending

\* When the daemon stops reporting because it was told that all is well, the
\* request is settled, or its record is gone.
AckSettles == \A r \in Requests : job[r].at = "acked" => rec[r] \in Terminal \cup {"gone"}

\* An import that is called completed, in the store or in the browser, did
\* create the skill and has not rolled it back.
CompletedExists ==
  Kind = "import" => \A r \in Requests : rec[r] = "completed" \/ ui[r] = "shown" => skill = r

\* Who loads a request long after it was claimed does not find it running.
RunningTimesOut ==
  [][\A w \in Handlers :
       /\ loc[w].pc = "get" /\ loc'[w].pc \notin {"get", "idle", "undo"}
       /\ clock[loc[w].r].run > RunningTimeout
       => loc'[w].seen # "running"]_vars

\* Expired and claimed members at the head of the sorted set do not keep the
\* heartbeats from the others.
QueueDrains == \A r \in Requests : r \in pending ~> r \notin pending
=============================================================================
