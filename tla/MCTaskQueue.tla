---------------------------- MODULE MCTaskQueue ----------------------------
(* Values of the constants of TaskQueue for TLC. *)
EXTENDS TaskQueue, TLC

MCChatAgent == [c \in Chats |-> CHOOSE a \in Agents : TRUE]

\* Goroutines are interchangeable.
Goroutines == Permutations(Handlers)
=============================================================================
