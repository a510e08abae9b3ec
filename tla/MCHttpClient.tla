---------------------------- MODULE MCHttpClient ----------------------------
(* The client for TLC, three parts with a run between them: two threads,    *)
(* requests inside requests and stops, without keep-alive and with TLS      *)
(* ("nested"); the same with a connection that is kept and none of the rest *)
(* ("plain"); and what lies below Connect ("connect").                      *)
EXTENDS HttpClient

CONSTANTS Addresses, Times

VARIABLES
  part,
  settings, times, connect_pc, address, sockets, nonblocking, session, asked,
  once, certs, trusted, connect_error, result, res

Plain == INSTANCE HttpClient WITH
  Redirects <- 0, Auths <- 0, KeepAlive <- TRUE, Ssl <- FALSE
Connection == INSTANCE ClientConnect WITH pc <- connect_pc, error <- connect_error

ASSUME ConnectAssumption == Connection!Constants

connect_vars == <<settings, times, connect_pc, address, sockets, nonblocking, session, asked,
                  once, certs, trusted, connect_error, result, res>>
all == <<part, vars, connect_vars>>

NoSettings == [ssl |-> FALSE, proxy |-> FALSE, credentials |-> FALSE, verify |-> FALSE]

MCInit ==
  /\ part \in {"nested", "plain", "connect"}
  /\ part # "connect" => settings = NoSettings
  /\ Init /\ Connection!Init

MCNext ==
  /\ UNCHANGED part
  /\ \/ part = "nested" /\ Next /\ UNCHANGED connect_vars
     \/ part = "plain" /\ Plain!Next /\ UNCHANGED connect_vars
     \/ part = "connect" /\ Connection!Next /\ UNCHANGED vars

MCSpec ==
  /\ MCInit /\ [][MCNext]_all
  /\ WF_vars(part = "nested" /\ Step) /\ WF_vars(part = "plain" /\ Plain!Step)
  /\ WF_connect_vars(part = "connect" /\ Connection!Next)

(* A request that is done leaves no connection behind: without keep-alive,  *)
(* or after a stop() while it was under way.                                *)
NothingStays == [][Done /\ (part = "plain" => stopped) => sock' = None]_vars

(* A connection is made whole and to a trusted server, or not at all.       *)
AllOrNothing == Connection!TypeOK /\ Connection!AllOrNothing /\ Connection!OnlyTrusted

(* Every request returns, and connecting ends.                              *)
EverythingReturns == Ends /\ (part = "connect" ~> connect_pc = "returned")
=============================================================================
