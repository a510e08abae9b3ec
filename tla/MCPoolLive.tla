----------------------------- MODULE MCPoolLive -----------------------------
(* The ends of responses, asked of two kinds of clients: some that wait, or  *)
(* one that may do as it likes.  Answered is about the client of the second *)
(* kind, which is one of the first as well; those are all alike, so that    *)
(* what holds of one holds of each.                                         *)
EXTENDS PoolServer

CONSTANTS Waiters, WaiterSlots, WaiterThreads

ASSUME WaitersAssumption == Nobody \notin Waiters \cup WaiterSlots /\ WaiterThreads \subseteq Workers

VARIABLE part   (* which clients there are: those that wait, or the others   *)

Waiting == INSTANCE PoolServer WITH
  Clients <- Waiters, Deviants <- {}, Slots <- WaiterSlots, Workers <- WaiterThreads, MaxReqs <- 1

MCInit ==
  \/ part = "waiting" /\ Waiting!Init
  \/ part = "deviant" /\ Init

MCNext ==
  /\ UNCHANGED part
  /\ \/ part = "waiting" /\ Waiting!Next
     \/ part = "deviant" /\ Next

Polls == (part = "waiting" /\ Waiting!Poll) \/ (part = "deviant" /\ Poll)
Works(w) ==
  \/ part = "waiting" /\ w \in WaiterThreads /\ Waiting!Worker(w)
  \/ part = "deviant" /\ Worker(w)

MCSpec ==
  /\ MCInit /\ [][MCNext]_<<part, vars>>
  /\ WF_vars(Polls) /\ \A w \in Workers : WF_vars(Works(w))
=============================================================================
