----------------------------- MODULE IssueLanes -----------------------------
(***************************************************************************)
(* What the task queue promises of one lane, an (agent, issue) pair: a     *)
(* coalescing queue with one waiting place and one working place.  At most *)
(* one task waits, queued or handed to a daemon; at most one runs; a task  *)
(* is handed out only when none runs, and the waiting place is free again  *)
(* as soon as the task handed out has started.                             *)
(***************************************************************************)
CONSTANT Lanes

VARIABLES waiting, \* [Lanes -> {"empty", "queued", "dispatched"}]
          working  \* [Lanes -> BOOLEAN]

lanes == <<waiting, working>>

TypeOK == /\ waiting \in [Lanes -> {"empty", "queued", "dispatched"}]
          /\ working \in [Lanes -> BOOLEAN]

Init == /\ waiting = [l \in Lanes |-> "empty"]
        /\ working = [l \in Lanes |-> FALSE]

Enqueue(l) ==
  /\ waiting[l] = "empty"
  /\ waiting' = [waiting EXCEPT ![l] = "queued"]
  /\ UNCHANGED working

Dispatch(l) ==
  /\ waiting[l] = "queued" /\ ~ working[l]
  /\ waiting' = [waiting EXCEPT ![l] = "dispatched"]
  /\ UNCHANGED working

Start(l) ==
  /\ waiting[l] = "dispatched"
  /\ waiting' = [waiting EXCEPT ![l] = "empty"]
  /\ working' = [working EXCEPT ![l] = TRUE]

\* Tasks end, in any number of lanes at once: completed, failed or cancelled.
End ==
  /\ waiting' \in [Lanes -> {"empty", "queued", "dispatched"}]
  /\ working' \in [Lanes -> BOOLEAN]
  /\ \A l \in Lanes : /\ waiting'[l] \in {waiting[l], "empty"}
                      /\ working'[l] => working[l]

Next == End \/ \E l \in Lanes : Enqueue(l) \/ Dispatch(l) \/ Start(l)

Spec == Init /\ [][Next]_lanes

\* A task is handed out only while no other task of the lane runs.
OneAtATime == \A l \in Lanes : waiting[l] = "dispatched" => ~ working[l]
=============================================================================
