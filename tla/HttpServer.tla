----------------------------- MODULE HttpServer -----------------------------
(***************************************************************************)
(* Server and ThreadPool of httplib: one thread listens and accepts, a pool *)
(* of workers serves each connection until it ends, and stop() takes the    *)
(* listening socket away under both.  Locks guard the queue only; svr_sock_,*)
(* is_running_ and done_ are atomic variables that each reads for itself.   *)
(***************************************************************************)
EXTENDS Naturals, Sequences, FiniteSets

CONSTANTS
  Connections,  (* clients that connect, once each                          *)
  Workers,      (* threads of the pool                                      *)
  Stoppers,     (* threads that call stop(), once each                      *)
  Rounds,       (* times listen is called                                   *)
  MaxQueued,    (* max_queued_requests_, 0 for any number                   *)
  MaxRequests,  (* keep_alive_max_count_; the code: 5                       *)
  WaitFirst,    (* the stoppers call wait_until_ready before                *)
  AcceptFails,  (* accept may fail for good, while the socket is there      *)
  None

ASSUME BoundsAssumption == Rounds \in Nat /\ MaxQueued \in Nat /\ MaxRequests \in Nat \ {0}
ASSUME SwitchesAssumption == {WaitFirst, AcceptFails} \subseteq BOOLEAN
ASSUME NoneAssumption == None \notin Connections
ASSUME PoolAssumption == Workers # {}   (* CPPHTTPLIB_THREAD_POOL_COUNT is 8 at least *)

VARIABLES
  listener, holding,   (* where listen is, the connection accepted last     *)
  round,               (* listening sockets made; the last is number round  *)
  svr_sock,            (* svr_sock_, 0 for INVALID_SOCKET                    *)
  is_running, done,    (* is_running_, done_                                *)
  closes,              (* how often each listening socket was closed        *)
  connection,          (* what has become of each connection                *)
  jobs, shutdown,      (* the pool's queue and flag                         *)
  worker,              (* the state of each worker                          *)
  stopper, taken,      (* where each stopper is, and the socket it took     *)
  broken               (* the assertion of stop() has failed                *)

accepting == <<listener, holding, round>>
flags == <<svr_sock, is_running, done>>
pool == <<jobs, shutdown, worker>>
stopping == <<stopper, taken, broken>>
vars == <<accepting, flags, closes, connection, pool, stopping>>

Listening == 1..Rounds
Idle(at) == [at |-> at, serves |-> None, left |-> 0]

Init ==
  /\ listener = "idle" /\ holding = None /\ round = 0
  /\ svr_sock = 0 /\ is_running = FALSE /\ done = FALSE
  /\ closes = [n \in Listening |-> 0]
  /\ connection = [c \in Connections |-> "away"]
  /\ jobs = <<>> /\ shutdown = FALSE
  /\ worker = [w \in Workers |-> Idle("exited")]
  /\ stopper = [s \in Stoppers |-> "idle"] /\ taken = [s \in Stoppers |-> 0]
  /\ broken = FALSE

Become(c, state) == connection' = [connection EXCEPT ![c] = state]

(* close() of a listening socket resets whoever has not been accepted.      *)
CloseListening(n) ==
  /\ closes' = [closes EXCEPT ![n] = @ + 1]
  /\ connection' = [c \in Connections |-> IF connection[c] = "waiting" THEN "reset" ELSE connection[c]]

(***************************************************************************)
(* listen.                                                                  *)
(***************************************************************************)
At(here, next) == listener = here /\ listener' = next /\ UNCHANGED round

Bind ==
  /\ listener = "idle" /\ round < Rounds
  /\ round' = round + 1
  /\ \/ svr_sock' = round' /\ listener' = "bound" /\ UNCHANGED done
     \/ svr_sock' = 0 /\ done' = TRUE /\ UNCHANGED listener
  /\ UNCHANGED <<holding, is_running, closes, connection, pool, stopping>>

Start ==
  /\ At("bound", "loop") /\ is_running' = TRUE
  /\ jobs' = <<>> /\ shutdown' = FALSE
  /\ worker' = [w \in Workers |-> Idle("awake")]
  /\ UNCHANGED <<holding, svr_sock, done, closes, connection, stopping>>

Loop ==
  /\ At("loop", IF svr_sock # 0 THEN "accept" ELSE "shutdown")
  /\ UNCHANGED <<holding, flags, closes, connection, pool, stopping>>

Accept(c) ==
  /\ At("accept", "enqueue") /\ svr_sock # 0 /\ connection[c] = "waiting"
  /\ holding' = c /\ Become(c, "accepted")
  /\ UNCHANGED <<flags, closes, pool, stopping>>

(* EMFILE, EINTR, EAGAIN.                                                  *)
AcceptAgain == At("accept", "loop") /\ UNCHANGED <<holding, flags, closes, connection, pool, stopping>>

(* The socket has gone, or something worse.                                *)
AcceptError ==
  /\ AcceptFails \/ svr_sock = 0
  /\ At("accept", IF svr_sock # 0 THEN "close" ELSE "shutdown")
  /\ UNCHANGED <<holding, flags, closes, connection, pool, stopping>>

(* svr_sock_ is read once more, closed, and kept as it is.                  *)
CloseAfterError ==
  /\ At("close", "shutdown")
  /\ IF svr_sock # 0 THEN CloseListening(svr_sock) ELSE UNCHANGED <<closes, connection>>
  /\ UNCHANGED <<holding, flags, pool, stopping>>

Full == MaxQueued > 0 /\ Len(jobs) >= MaxQueued

Enqueue ==
  /\ At("enqueue", "notify") /\ ~Full
  /\ jobs' = Append(jobs, holding) /\ Become(holding, "queued")
  /\ UNCHANGED <<holding, flags, closes, shutdown, worker, stopping>>

(* Mutant: a refused connection is forgotten.                              *)
RefuseForgets ==
  /\ At("enqueue", "loop") /\ Full
  /\ UNCHANGED <<holding, flags, closes, connection, pool, stopping>>

Refuse ==
  /\ At("enqueue", "loop") /\ Full
  /\ Become(holding, "refused")
  /\ UNCHANGED <<holding, flags, closes, pool, stopping>>

NotifyOne ==
  /\ At("notify", "loop")
  /\ \/ \E w \in Workers : worker[w].at = "asleep" /\ worker' = [worker EXCEPT ![w] = Idle("awake")]
     \/ (\A w \in Workers : worker[w].at # "asleep") /\ UNCHANGED worker
  /\ UNCHANGED <<holding, flags, closes, connection, jobs, shutdown, stopping>>

Shutdown ==
  /\ At("shutdown", "notify_all") /\ shutdown' = TRUE
  /\ UNCHANGED <<holding, flags, closes, connection, jobs, worker, stopping>>

(* Mutant: shutdown wakes one worker.                                       *)
NotifyAnyone ==
  /\ At("notify_all", "join")
  /\ \/ \E w \in Workers : worker[w].at = "asleep" /\ worker' = [worker EXCEPT ![w] = Idle("awake")]
     \/ (\A w \in Workers : worker[w].at # "asleep") /\ UNCHANGED worker
  /\ UNCHANGED <<holding, flags, closes, connection, jobs, shutdown, stopping>>

NotifyAll ==
  /\ At("notify_all", "join")
  /\ worker' = [w \in Workers |-> IF worker[w].at = "asleep" THEN Idle("awake") ELSE worker[w]]
  /\ UNCHANGED <<holding, flags, closes, connection, jobs, shutdown, stopping>>

Joined ==
  /\ \A w \in Workers : worker[w].at = "exited"
  /\ At("join", "leave") /\ is_running' = FALSE
  /\ UNCHANGED <<holding, svr_sock, done, closes, connection, pool, stopping>>

Return ==
  /\ At("leave", "idle") /\ done' = TRUE
  /\ UNCHANGED <<holding, svr_sock, is_running, closes, connection, pool, stopping>>

Proceed ==
  \/ Start \/ Loop \/ CloseAfterError \/ Enqueue \/ Refuse \/ NotifyOne
  \/ Shutdown \/ NotifyAll \/ Joined \/ Return

Listener == Bind \/ Proceed \/ (\E c \in Connections : Accept(c)) \/ AcceptAgain \/ AcceptError

(***************************************************************************)
(* A worker of the pool, and process_and_close_socket in it.                *)
(***************************************************************************)
Works(w, here, state) ==
  /\ worker[w].at = here /\ worker' = [worker EXCEPT ![w] = state]
  /\ UNCHANGED <<accepting, flags, closes, shutdown, stopping>>

Sleep(w) ==
  /\ jobs = <<>> /\ ~shutdown
  /\ Works(w, "awake", Idle("asleep")) /\ UNCHANGED <<jobs, connection>>

Take(w) ==
  /\ jobs # <<>>
  /\ Works(w, "awake", [at |-> "check", serves |-> Head(jobs), left |-> MaxRequests])
  /\ jobs' = Tail(jobs) /\ Become(Head(jobs), "serving")

Leave(w) ==
  /\ shutdown /\ jobs = <<>>
  /\ Works(w, "awake", Idle("exited")) /\ UNCHANGED <<jobs, connection>>

(* process_server_socket_core: as long as the server runs and requests are  *)
(* left to the connection, wait for the next.                              *)
Goes(w) == svr_sock # 0 /\ worker[w].left > 0
CheckGoes(w) == Goes(w) /\ Works(w, "check", [worker[w] EXCEPT !.at = "await"]) /\ UNCHANGED <<jobs, connection>>
CheckEnds(w) == ~Goes(w) /\ Works(w, "check", [worker[w] EXCEPT !.at = "close"]) /\ UNCHANGED <<jobs, connection>>

(* keep_alive gives up after its timeout.                                   *)
TimesOut(w) == Works(w, "await", [worker[w] EXCEPT !.at = "close"]) /\ UNCHANGED <<jobs, connection>>

(* A request, after which either side may want the connection closed.       *)
Serve(w) ==
  /\ \E next \in {"check", "close"} :
       Works(w, "await", [worker[w] EXCEPT !.at = next, !.left = @ - 1])
  /\ UNCHANGED <<jobs, connection>>

CloseConnection(w) ==
  /\ Works(w, "close", Idle("awake"))
  /\ Become(worker[w].serves, IF worker[w].left < MaxRequests THEN "served" ELSE "dropped")
  /\ UNCHANGED jobs

Worker(w) ==
  \/ Sleep(w) \/ Take(w) \/ Leave(w)
  \/ CheckGoes(w) \/ CheckEnds(w) \/ TimesOut(w) \/ Serve(w) \/ CloseConnection(w)

(***************************************************************************)
(* stop, and the clients.                                                   *)
(***************************************************************************)
Stops(s, here, next) ==
  /\ stopper[s] = here /\ stopper' = [stopper EXCEPT ![s] = next]
  /\ UNCHANGED <<accepting, is_running, done, pool>>

(* wait_until_ready comes first, or does not.                              *)
Ready(s) ==
  /\ WaitFirst => is_running \/ done
  /\ Stops(s, "idle", "ready") /\ UNCHANGED <<svr_sock, closes, connection, taken, broken>>

IsRunning(s) ==
  /\ Stops(s, "ready", IF is_running THEN "running" ELSE "returned")
  /\ UNCHANGED <<svr_sock, closes, connection, taken, broken>>

StopAsserts(s) ==
  /\ Stops(s, "running", "asserted") /\ broken' = (broken \/ svr_sock = 0)
  /\ UNCHANGED <<svr_sock, closes, connection, taken>>

(* Mutant: svr_sock_ is read, and only set later.                           *)
ExchangeLate(s) ==
  /\ Stops(s, "asserted", "exchanged")
  /\ taken' = [taken EXCEPT ![s] = svr_sock]
  /\ UNCHANGED <<svr_sock, closes, connection, broken>>

Exchange(s) ==
  /\ Stops(s, "asserted", "exchanged")
  /\ taken' = [taken EXCEPT ![s] = svr_sock] /\ svr_sock' = 0
  /\ UNCHANGED <<closes, connection, broken>>

Close(s) ==
  /\ Stops(s, "exchanged", "returned")
  /\ IF taken[s] # 0 THEN CloseListening(taken[s]) ELSE UNCHANGED <<closes, connection>>
  /\ UNCHANGED <<svr_sock, taken, broken>>

Stop(s) == Ready(s) \/ IsRunning(s) \/ StopAsserts(s) \/ Exchange(s) \/ Close(s)

Arrive(c) ==
  /\ connection[c] = "away" /\ svr_sock # 0 /\ closes[svr_sock] = 0
  /\ Become(c, "waiting")
  /\ UNCHANGED <<accepting, flags, closes, pool, stopping>>

Next ==
  \/ Listener
  \/ \E w \in Workers : Worker(w)
  \/ \E s \in Stoppers : Stop(s)
  \/ \E c \in Connections : Arrive(c)

Spec == Init /\ [][Next]_vars

(* Every thread runs; accept returns for good when its socket has gone, and *)
(* reading, writing and keep_alive have timeouts.                          *)
FairSpec ==
  /\ Spec
  /\ WF_vars(Proceed) /\ WF_vars(AcceptError /\ svr_sock = 0)
  /\ \A w \in Workers : WF_vars(Worker(w))
  /\ \A s \in Stoppers : WF_vars(Stop(s))
-----------------------------------------------------------------------------
Fates == {"away", "waiting", "reset", "accepted", "queued", "refused", "serving", "served", "dropped"}
FlagsTypeOK == {is_running, done, shutdown, broken} \subseteq BOOLEAN
ListenerTypeOK ==
  /\ listener \in {"idle", "bound", "loop", "accept", "close", "enqueue", "notify",
                   "shutdown", "notify_all", "join", "leave"}
  /\ holding \in Connections \cup {None} /\ round \in 0..Rounds /\ svr_sock \in 0..Rounds
WorkerState == [at : {"exited", "awake", "asleep", "check", "await", "close"},
                serves : Connections \cup {None}, left : 0..MaxRequests]
PoolTypeOK == jobs \in Seq(Connections) /\ worker \in [Workers -> WorkerState]
StoppersTypeOK ==
  /\ stopper \in [Stoppers -> {"idle", "ready", "running", "asserted", "exchanged", "returned"}]
  /\ taken \in [Stoppers -> 0..Rounds]
TypeOK ==
  /\ FlagsTypeOK /\ ListenerTypeOK /\ PoolTypeOK /\ StoppersTypeOK
  /\ closes \in [Listening -> Nat] /\ connection \in [Connections -> Fates]

(* Every connection that was accepted is in one pair of hands: the          *)
(* listener's, the queue's, or a single worker's.                          *)
OneOwner ==
  /\ \A c \in Connections : connection[c] = "accepted" => listener = "enqueue" /\ holding = c
  /\ \A c \in Connections : Cardinality({i \in DOMAIN jobs : jobs[i] = c}) = (IF connection[c] = "queued" THEN 1 ELSE 0)
  /\ \A c \in Connections : Cardinality({w \in Workers : worker[w].serves = c}) = (IF connection[c] = "serving" THEN 1 ELSE 0)

(* When listen has returned nobody is left whom the server had accepted and *)
(* has not closed.                                                         *)
Drained == listener \in {"leave", "idle"} =>
  \A c \in Connections : connection[c] \notin {"accepted", "queued", "serving"}

(* The queue keeps to its bound.                                            *)
QueueBounded == MaxQueued > 0 => Len(jobs) <= MaxQueued

(* However many threads stop the server, a listening socket is closed once: *)
(* a second close would hit whatever has got its number.                   *)
ClosedOnce == \A n \in Listening : closes[n] <= 1

(* A stop that finds a running server ends its listen, whoever is being     *)
(* served or waits in the queue.                                           *)
StopEnds == \A n \in Listening : closes[n] > 0 ~> (listener = "idle" \/ round # n)

(* A stop after wait_until_ready is never lost: the server does not go on.  *)
ReadyStopsHeeded ==
  \A s \in Stoppers : stopper[s] = "returned" /\ WaitFirst => svr_sock = 0

(* Who has a connection, and who closes the listening socket, is never in   *)
(* doubt, whoever stops the server and whenever.                            *)
ConnectionsOwned == OneOwner /\ Drained /\ QueueBounded
SocketOwned == ClosedOnce /\ ReadyStopsHeeded

(* stop() may count on the listening socket while the server is running.    *)
(* The code does not keep this when two threads stop it at once.            *)
StopFindsSocket == ~broken
=============================================================================
