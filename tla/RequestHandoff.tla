--------------------------- MODULE RequestHandoff ---------------------------
(***************************************************************************)
(* What the store of local skill requests promises of each of them: it is  *)
(* offered once, when it is created; it is taken at most once, and only    *)
(* while it is offered; the offer of one that has not been settled is      *)
(* never withdrawn; and everything else that is ever written about it      *)
(* settles it.  A request that was settled, by its timeout, while a        *)
(* heartbeat was looking at it may still be taken, once.                   *)
(*                                                                         *)
(* Each request goes its own way: Next lets any number of them take a step *)
(* at the same time, as records do whose retention ends.                   *)
(***************************************************************************)
CONSTANT Requests

VARIABLES life,   \* [Requests -> Lives]
          offers, \* the requests that a heartbeat may take
          taken   \* the requests that a daemon was given

Lives == {"new", "offered", "taken", "settled"}
requests == <<life, offers, taken>>

TypeOK == life \in [Requests -> Lives] /\ offers \subseteq Requests /\ taken \subseteq Requests

Init == life = [r \in Requests |-> "new"] /\ offers = {} /\ taken = {}

\* The steps of request r.
Stay(r) ==
  /\ life'[r] = life[r]
  /\ r \in offers' <=> r \in offers
  /\ r \in taken' <=> r \in taken

Offer(r) ==
  /\ life[r] = "new" /\ life'[r] = "offered"
  /\ r \in offers' /\ (r \in taken' <=> r \in taken)

Take(r) ==
  /\ r \in offers /\ r \notin taken
  /\ life'[r] = "taken" /\ r \notin offers' /\ r \in taken'

\* A result, a timeout, or the end of the retention.
Settle(r) ==
  /\ life[r] # "new" /\ life'[r] = "settled"
  /\ r \in offers' <=> r \in offers
  /\ r \in taken' <=> r \in taken

Withdraw(r) ==
  /\ r \in offers /\ life[r] = "settled"
  /\ life'[r] = life[r] /\ r \notin offers' /\ (r \in taken' <=> r \in taken)

Next ==
  /\ TypeOK'
  /\ \A r \in Requests : Stay(r) \/ Offer(r) \/ Take(r) \/ Settle(r) \/ Withdraw(r)

Spec == Init /\ [][Next]_requests

\* A request is on offer until it is taken or settled, and never after it was
\* taken.
OnceOf(r) ==
  /\ ~ (r \in offers /\ r \in taken)
  /\ life[r] = "new" => r \notin offers /\ r \notin taken
  /\ life[r] = "offered" => r \in offers
  /\ life[r] = "taken" => r \in taken
Once == \A r \in Requests : OnceOf(r)
=============================================================================
