--------------------------- MODULE MCStaticServer ---------------------------
(* The server for TLC: one client, or two that come and go while the loop *)
(* walks the list of connections.                                         *)
EXTENDS StaticServer

CONSTANT PairRoutes   (* what two clients ask for; {} without the two         *)

Pair == INSTANCE StaticServer WITH
  Clients <- Clients \cup {"another"}, Routes <- PairRoutes,
  MaxReqs <- 1, MaxPieces <- 1, SendSize <- 1, WireSize <- 1

Two == "another" \in DOMAIN life

MCInit == Init \/ (PairRoutes # {} /\ Pair!Init)
MCNext == (~Two /\ Next) \/ (Two /\ Pair!Next)
MCSpec == MCInit /\ [][MCNext]_vars
=============================================================================
