--------------------------- MODULE LaneRefinement ---------------------------
(***************************************************************************)
(* The task queue implements the coalescing queue of IssueLanes in every   *)
(* lane: steps that end tasks map to End, a task that starts to Start, a   *)
(* new row to Enqueue and the commit of a claim to Dispatch; steps about   *)
(* chats and runs, and all others, map to stuttering.                      *)
(***************************************************************************)
EXTENDS TaskQueueProofs

Place(a, i, st) == \E t \in Tasks : row[t].agent = a /\ row[t].subject = i /\ status[t] = st

\* What the refinement mapping says of the rows of a lane.
Mapping ==
  /\ laneWaiting \in [LaneSet -> {"empty", "queued", "dispatched"}]
  /\ laneWorking \in [LaneSet -> BOOLEAN]
  /\ \A a \in Agents, i \in Issues :
       /\ laneWaiting[<<a, i>>] = "queued" <=> Place(a, i, "queued")
       /\ laneWaiting[<<a, i>>] = "dispatched" <=>
            ~ Place(a, i, "queued") /\ Place(a, i, "dispatched")
       /\ laneWorking[<<a, i>>] = TRUE <=> Place(a, i, "running")

LEMMA MappingHolds == Mapping /\ Mapping'
<1>1. \A a \in Agents, i \in Issues, st \in Status :
        /\ InLane(<<a, i>>, st) # {} <=> Place(a, i, st)
        /\ (InLane(<<a, i>>, st) # {})' <=> Place(a, i, st)'
  BY DEF InLane, TasksOf, Place
<1> QED
  BY <1>1 DEF Mapping, laneWaiting, laneWorking, LaneSet, Status

\* At most one row of a lane waits, and none runs next to a row handed out.
LEMMA OnePlace ==
  ASSUME Lanes, NEW a \in Agents, NEW i \in Issues, NEW t \in Tasks, NEW u \in Tasks, t # u,
         row[t].agent = a, row[t].subject = i, row[u].agent = a, row[u].subject = i
  PROVE  /\ ~ (status[t] \in Pending /\ status[u] \in Pending)
         /\ ~ (status[t] \in InFlight /\ status[u] \in InFlight)
BY DEF Lanes, PendingUnique, IssueSerial, Same

LEMMA InitRefines == Init => Lane!Init
<1> SUFFICES ASSUME Init PROVE Lane!Init
  OBVIOUS
<1>1. \A l \in LaneSet, st \in {"queued", "dispatched", "running"} : InLane(l, st) = {}
  BY DEF Init, InLane, TasksOf
<1> QED
  BY <1>1 DEF Lane!Init, laneWaiting, laneWorking

\* Tasks that end, in whatever lanes, are a step End.
LEMMA EndRefines == Lanes /\ Keeping => Lane!End
<1> SUFFICES ASSUME Lanes, Keeping PROVE Lane!End
  OBVIOUS
<1>1. \A a \in Agents, i \in Issues, st \in {"queued", "dispatched", "running"} :
        Place(a, i, st)' => Place(a, i, st)
  BY DEF Keeping, Keeps, Place, Terminal
<1>2. ASSUME NEW a \in Agents, NEW i \in Issues
      PROVE  /\ laneWaiting'[<<a, i>>] \in {laneWaiting[<<a, i>>], "empty"}
             /\ laneWorking'[<<a, i>>] => laneWorking[<<a, i>>]
  <2>1. laneWorking'[<<a, i>>] => laneWorking[<<a, i>>]
    BY <1>1, MappingHolds DEF Mapping, LaneSet
  <2>2. CASE laneWaiting'[<<a, i>>] = "queued"
    BY <2>1, <2>2, <1>1, MappingHolds DEF Mapping
  <2>3. CASE laneWaiting'[<<a, i>>] = "dispatched"
    <3>1. Place(a, i, "dispatched")
      BY <2>3, <1>1, MappingHolds DEF Mapping
    <3>2. ~ Place(a, i, "queued")
      BY <3>1, OnePlace DEF Place, Pending
    <3> QED
      BY <2>1, <2>3, <3>1, <3>2, MappingHolds DEF Mapping
  <2> QED
    BY <2>1, <2>2, <2>3, MappingHolds DEF Mapping, LaneSet
<1> QED
  BY <1>2, MappingHolds DEF Lane!End, Mapping, LaneSet

\* In a step that changes one row only, a lane that does not have the row stays.
LEMMA OtherLanes ==
  ASSUME NEW n \in Tasks, NEW a \in Agents, NEW i \in Issues,
         \A t \in Tasks \ {n} : status'[t] = status[t] /\ row'[t] = row[t],
         row'[n].agent # a \/ row'[n].subject # i,
         status[n] = "none" \/ row'[n] = row[n]
  PROVE  /\ laneWaiting'[<<a, i>>] = laneWaiting[<<a, i>>]
         /\ laneWorking'[<<a, i>>] = laneWorking[<<a, i>>]
<1>1. \A st \in {"queued", "dispatched", "running"} : Place(a, i, st)' <=> Place(a, i, st)
  BY DEF Place
<1> QED
  BY <1>1, MappingHolds DEF Mapping, LaneSet

LEMMA StartRefines == Locals /\ Lanes /\ Starting => [Lane!Next]_(Lane!lanes)
<1> SUFFICES ASSUME Locals, Lanes, NEW n \in Tasks, StartTask(n)
             PROVE  [Lane!Next]_(Lane!lanes)
  BY DEF Starting
<1> DEFINE a == row[n].agent
           i == row[n].subject
<1>1. /\ status[n] = "dispatched" /\ status'[n] = "running" /\ row' = row
      /\ \A t \in Tasks \ {n} : status'[t] = status[t]
      /\ a \in Agents /\ i \in Subjects
  BY DEF StartTask, SetStatus, Locals, StoreOK
<1>2. \A b \in Agents, j \in Issues : b # a \/ j # i =>
        /\ laneWaiting'[<<b, j>>] = laneWaiting[<<b, j>>]
        /\ laneWorking'[<<b, j>>] = laneWorking[<<b, j>>]
  BY <1>1, OtherLanes
<1>3. CASE i \notin Issues
  BY <1>2, <1>3, MappingHolds DEF Mapping, LaneSet, Lane!lanes
<1>4. CASE i \in Issues
  <2>1. \A t \in Tasks \ {n} : row[t].agent = a /\ row[t].subject = i
          => status[t] \notin {"queued", "dispatched"}
    BY <1>1, <1>4, OnePlace DEF Pending
  <2>2. ~ Place(a, i, "queued") /\ Place(a, i, "dispatched")
    BY <1>1, <2>1 DEF Place
  <2>3. ~ Place(a, i, "queued")' /\ ~ Place(a, i, "dispatched")' /\ Place(a, i, "running")'
    BY <1>1, <2>1 DEF Place
  <2>4. laneWaiting[<<a, i>>] = "dispatched" /\ laneWaiting'[<<a, i>>] = "empty"
        /\ laneWorking'[<<a, i>>] = TRUE
    BY <1>1, <1>4, <2>2, <2>3, MappingHolds DEF Mapping, LaneSet
  <2>5. Lane!Start(<<a, i>>)
    BY <1>1, <1>2, <1>4, <2>4, MappingHolds DEF Mapping, LaneSet, Lane!Start
  <2> QED
    BY <1>1, <1>4, <2>5 DEF Lane!Next, LaneSet
<1> QED
  BY <1>3, <1>4

LEMMA CreateRefines == Locals /\ Creating => [Lane!Next]_(Lane!lanes)
<1> SUFFICES ASSUME Locals,
                    NEW n \in Tasks, NEW a \in Agents, NEW i \in Subjects, NEW rt \in Runtimes,
                    NEW k \in Nat, NEW p \in Nat,
                    CreateTask(n, a, i, rt, k, p), ~ IndexConflict(a, i)
             PROVE  [Lane!Next]_(Lane!lanes)
  BY DEF Creating
<1>1. /\ status[n] = "none" /\ status'[n] = "queued"
      /\ row'[n].agent = a /\ row'[n].subject = i
      /\ \A t \in Tasks \ {n} : status'[t] = status[t] /\ row'[t] = row[t]
  BY DEF CreateTask, IsFresh, Locals, StoreOK, StoreTypeOK
<1>2. \A b \in Agents, j \in Issues : b # a \/ j # i =>
        /\ laneWaiting'[<<b, j>>] = laneWaiting[<<b, j>>]
        /\ laneWorking'[<<b, j>>] = laneWorking[<<b, j>>]
  BY <1>1, OtherLanes
<1>3. CASE i \notin Issues
  BY <1>2, <1>3, MappingHolds DEF Mapping, LaneSet, Lane!lanes
<1>4. CASE i \in Issues
  <2>1. ~ Place(a, i, "queued") /\ ~ Place(a, i, "dispatched")
    BY <1>4 DEF IndexConflict, TasksOf, On, Pending, Place
  <2>2. Place(a, i, "queued")' /\ (Place(a, i, "running")' <=> Place(a, i, "running"))
    BY <1>1 DEF Place
  <2>3. laneWaiting[<<a, i>>] = "empty" /\ laneWaiting'[<<a, i>>] = "queued"
        /\ laneWorking'[<<a, i>>] = laneWorking[<<a, i>>]
    BY <1>4, <2>1, <2>2, MappingHolds DEF Mapping, LaneSet
  <2>4. Lane!Enqueue(<<a, i>>)
    BY <1>2, <1>4, <2>3, MappingHolds DEF Mapping, LaneSet, Lane!Enqueue
  <2> QED
    BY <1>4, <2>4 DEF Lane!Next, LaneSet
<1> QED
  BY <1>3, <1>4

LEMMA ClaimRefines == Locals /\ Lanes /\ Claiming => [Lane!Next]_(Lane!lanes)
<1> SUFFICES ASSUME Locals, Lanes, NEW w \in Workers,
                    ClaimSnapshot(w) \/ \E t \in Tasks : ClaimCommit(w, t)
             PROVE  [Lane!Next]_(Lane!lanes)
  BY DEF Claiming
<1>1. CASE ClaimSnapshot(w)
  BY <1>1 DEF ClaimSnapshot, table, Lane!lanes, laneWaiting, laneWorking, InLane, TasksOf
<1>2. ASSUME NEW n \in Tasks, ClaimCommit(w, n) PROVE [Lane!Next]_(Lane!lanes)
  <2> DEFINE a == row[n].agent
             i == row[n].subject
  <2>1. /\ status[n] = "queued" /\ status'[n] = "dispatched" /\ row' = row
        /\ \A t \in Tasks \ {n} : status'[t] = status[t]
        /\ a \in Agents /\ i \in Subjects
    BY <1>2 DEF ClaimCommit, SetStatus, Locals, StoreOK
  <2>2. \A b \in Agents, j \in Issues : b # a \/ j # i =>
          /\ laneWaiting'[<<b, j>>] = laneWaiting[<<b, j>>]
          /\ laneWorking'[<<b, j>>] = laneWorking[<<b, j>>]
    BY <2>1, OtherLanes
  <2>3. CASE i \notin Issues
    BY <2>2, <2>3, MappingHolds DEF Mapping, LaneSet, Lane!lanes
  <2>4. CASE i \in Issues
    <3>1. \A t \in Tasks \ {n} : row[t].agent = a /\ row[t].subject = i
            => status[t] \notin {"queued", "dispatched", "running"}
      BY <1>2, <2>1, <2>4 DEF ClaimCommit, Lanes, PendingUnique, SnapshotOK, Same, Pending, InFlight
    <3>2. Place(a, i, "queued") /\ ~ Place(a, i, "running")
      BY <2>1, <3>1 DEF Place
    <3>3. ~ Place(a, i, "queued")' /\ Place(a, i, "dispatched")' /\ ~ Place(a, i, "running")'
      BY <2>1, <3>1 DEF Place
    <3>4. /\ laneWaiting[<<a, i>>] = "queued" /\ laneWaiting'[<<a, i>>] = "dispatched"
          /\ laneWorking[<<a, i>>] = FALSE /\ laneWorking'[<<a, i>>] = FALSE
      BY <2>1, <2>4, <3>2, <3>3, MappingHolds DEF Mapping, LaneSet
    <3>5. Lane!Dispatch(<<a, i>>)
      BY <2>1, <2>2, <2>4, <3>4, MappingHolds DEF Mapping, LaneSet, Lane!Dispatch
    <3> QED
      BY <2>1, <2>4, <3>5 DEF Lane!Next, LaneSet
  <2> QED
    BY <2>3, <2>4
<1> QED
  BY <1>1, <1>2

LEMMA StepRefines == Locals /\ Lanes /\ [Next]_vars => [Lane!Next]_(Lane!lanes)
<1>1. UNCHANGED vars => UNCHANGED Lane!lanes
  BY DEF vars, table, Lane!lanes, laneWaiting, laneWorking, InLane, TasksOf
<1>2. Lane!End => Lane!Next
  BY DEF Lane!Next
<1> QED
  BY <1>1, <1>2, TableStep, EndRefines, StartRefines, CreateRefines, ClaimRefines

\* The table of tasks, with its unique index and the statements that claim,
\* start and end tasks in any interleaving, implements the coalescing queue.
THEOREM RefinesLanes == Spec => LaneSpec
<1> QED
  BY InitRefines, StepRefines, LocalsInit, LanesInit, Inductive, PTL DEF Spec, LaneSpec, Lane!Spec

\* No task is handed out in a lane that has one running: what the abstract
\* queue promises of its two places holds of the rows.
THEOREM WaitsWhileWorking == Spec => []Lane!OneAtATime
<1>1. ASSUME Lanes, NEW a \in Agents, NEW i \in Issues, laneWaiting[<<a, i>>] = "dispatched"
      PROVE  ~ laneWorking[<<a, i>>]
  <2>1. PICK t \in Tasks : row[t].agent = a /\ row[t].subject = i /\ status[t] = "dispatched"
    BY <1>1, MappingHolds DEF Mapping, Place
  <2>2. ~ Place(a, i, "running")
    BY <1>1, <2>1, OnePlace DEF Place, InFlight
  <2> QED
    BY <2>2, MappingHolds DEF Mapping, LaneSet
<1>2. Lanes => Lane!OneAtATime
  BY <1>1 DEF Lane!OneAtATime, LaneSet
<1> QED
  BY <1>2, LocalsInit, LanesInit, Inductive, PTL DEF Spec

=============================================================================
