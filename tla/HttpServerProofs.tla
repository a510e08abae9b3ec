-------------------------- MODULE HttpServerProofs --------------------------
(***************************************************************************)
(* The server for any number of connections, workers, stoppers and rounds:  *)
(* its types, that every connection is in one pair of hands, and that a     *)
(* listening socket is closed once.  The content of a message of any        *)
(* length, cut into any pieces, in each of its three codings; a form of any *)
(* number of parts, in reads of any size; and the answer to a request, for  *)
(* any ranges asked of content of any size.                                 *)
(***************************************************************************)
EXTENDS MCHttpServer, TLAPS, FiniteSetTheorems, SequenceTheorems, WellFoundedInduction

Busy == {"check", "await", "close"}
Ended == listener \in {"idle", "bound", "leave"}

(* A request is waited for only while one is left to the connection, and    *)
(* only a connection is put into the queue.                                *)
AwaitOK ==
  /\ \A w \in Workers : worker[w].at = "await" => worker[w].left > 0
  /\ listener = "enqueue" => holding \in Connections

(* The listener has a connection in its hands between accept and the queue. *)
HoldingOK == \A c \in Connections : connection[c] = "accepted" <=> (listener = "enqueue" /\ holding = c)

(* The queue holds the queued connections, each once.                       *)
JobsOK ==
  /\ \A i \in DOMAIN jobs : connection[jobs[i]] = "queued"
  /\ \A i, j \in DOMAIN jobs : jobs[i] = jobs[j] => i = j
  /\ \A c \in Connections : connection[c] = "queued" => \E i \in DOMAIN jobs : jobs[i] = c

(* The workers have the connections that are served, each a different one.  *)
WorkersOK ==
  /\ \A w \in Workers : worker[w].serves # None <=> worker[w].at \in Busy
  /\ \A w \in Workers : worker[w].serves # None => connection[worker[w].serves] = "serving"
  /\ \A v, w \in Workers : worker[v].serves = worker[w].serves /\ worker[v].serves # None => v = w
  /\ \A c \in Connections : connection[c] = "serving" => \E w \in Workers : worker[w].serves = c

(* Before and after a listen nothing is queued and every worker has left;   *)
(* during one, a worker leaves only an empty queue that is shut down, to    *)
(* which nothing is added any more.                                        *)
LifeOK ==
  /\ Ended => jobs = <<>> /\ \A w \in Workers : worker[w].at = "exited"
  /\ ~Ended => (shutdown <=> listener \in {"notify_all", "join"})
  /\ \A w \in Workers : ~Ended /\ worker[w].at = "exited" => shutdown /\ jobs = <<>>

OwnerInv == TypeOK /\ AwaitOK /\ HoldingOK /\ JobsOK /\ WorkersOK /\ LifeOK /\ QueueBounded

-----------------------------------------------------------------------------
(* The initial state, where nobody has connected and no pool exists.        *)
LEMMA InitOK == Init => OwnerInv
<1> SUFFICES ASSUME Init PROVE OwnerInv
  OBVIOUS
<1> USE DEF Init, Idle
<1>1. TypeOK
  <2>1. ListenerTypeOK /\ PoolTypeOK
    BY BoundsAssumption DEF ListenerTypeOK, PoolTypeOK, WorkerState
  <2>2. StoppersTypeOK
    BY BoundsAssumption DEF StoppersTypeOK
  <2>3. closes \in [Listening -> Nat] /\ connection \in [Connections -> Fates]
    BY DEF Fates
  <2>4. FlagsTypeOK
    BY DEF FlagsTypeOK
  <2> QED BY <2>1, <2>2, <2>3, <2>4 DEF TypeOK
<1>2. AwaitOK /\ HoldingOK /\ JobsOK /\ WorkersOK
  BY DEF AwaitOK, HoldingOK, JobsOK, WorkersOK, Busy
<1>3. LifeOK /\ QueueBounded
  BY BoundsAssumption DEF LifeOK, Ended, QueueBounded
<1> QED BY <1>1, <1>2, <1>3 DEF OwnerInv

(* The two ways in which what has become of a connection changes.           *)
LEMMA BecomeType ==
  ASSUME TypeOK, NEW c \in Connections, NEW state \in Fates, Become(c, state)
  PROVE  connection' \in [Connections -> Fates]
BY DEF TypeOK, Become

LEMMA CloseListeningType ==
  ASSUME TypeOK, NEW n \in 1..Rounds, CloseListening(n)
  PROVE  closes' \in [Listening -> Nat] /\ connection' \in [Connections -> Fates]
<1>1. closes' \in [Listening -> Nat]
  BY DEF TypeOK, CloseListening, Listening
<1>2. ASSUME NEW c \in Connections PROVE (IF connection[c] = "waiting" THEN "reset" ELSE connection[c]) \in Fates
  <2>1. connection \in [Connections -> Fates]
    BY DEF TypeOK
  <2>2. "reset" \in Fates
    BY ZenonT(40) DEF Fates
  <2> QED BY <2>1, <2>2
<1> QED BY <1>1, <1>2 DEF CloseListening

(* Every step keeps the types; the count of requests left stays natural     *)
(* because a request is waited for only while one is left.                  *)
LEMMA FlagsTypeStep == FlagsTypeOK /\ [Next]_vars => FlagsTypeOK'
BY DEF FlagsTypeOK, Next, Listener, Proceed, Bind, Start, Loop, Accept, AcceptAgain, AcceptError, CloseAfterError,
       Enqueue, Refuse, NotifyOne, Shutdown, NotifyAll, Joined, Return, Worker, Sleep, Take, Leave, CheckGoes,
       CheckEnds, TimesOut, Serve, CloseConnection, Works, Stop, Ready, IsRunning, StopAsserts, Exchange, Close,
       Stops, Arrive, vars, accepting, flags, pool, stopping

LEMMA ListenerTypeStep ==
  ASSUME TypeOK, AwaitOK, Listener
  PROVE  TypeOK' /\ AwaitOK'
<1> USE BoundsAssumption DEF TypeOK
<1>0. FlagsTypeOK'
  BY FlagsTypeStep DEF Next
<1>1. CASE Bind
  <2>1. ListenerTypeOK'
    BY <1>1 DEF Bind, ListenerTypeOK
  <2> QED BY <1>0, <1>1, <2>1 DEF Bind, PoolTypeOK, StoppersTypeOK, AwaitOK, pool, stopping
<1>2. CASE Start
  <2>1. ListenerTypeOK' /\ PoolTypeOK'
    BY <1>2 DEF Start, At, Idle, ListenerTypeOK, PoolTypeOK, WorkerState
  <2> QED BY <1>0, <1>2, <2>1 DEF Start, At, StoppersTypeOK, AwaitOK, Idle, stopping
<1>3. CASE Loop \/ AcceptAgain \/ AcceptError
  <2>1. ListenerTypeOK'
    BY <1>3 DEF Loop, AcceptAgain, AcceptError, At, ListenerTypeOK, flags
  <2> QED BY <1>0, <1>3, <2>1 DEF Loop, AcceptAgain, AcceptError, At, PoolTypeOK, StoppersTypeOK, AwaitOK, pool, stopping
<1>4. CASE CloseAfterError
  <2>1. ListenerTypeOK'
    BY <1>4 DEF CloseAfterError, At, ListenerTypeOK, flags
  <2>2. closes' \in [Listening -> Nat] /\ connection' \in [Connections -> Fates]
    <3>1. CASE svr_sock = 0
      BY <1>4, <3>1 DEF CloseAfterError
    <3>2. CASE svr_sock # 0
      BY <1>4, <3>2, CloseListeningType DEF CloseAfterError, ListenerTypeOK
    <3> QED BY <3>1, <3>2
  <2> QED BY <1>0, <1>4, <2>1, <2>2 DEF CloseAfterError, At, PoolTypeOK, StoppersTypeOK, AwaitOK, pool, stopping
<1>5. ASSUME NEW c \in Connections, Accept(c) PROVE TypeOK' /\ AwaitOK'
  <2>1. ListenerTypeOK'
    BY <1>5 DEF Accept, At, ListenerTypeOK, flags
  <2>2. connection' \in [Connections -> Fates]
    BY <1>5, BecomeType DEF Accept, Fates
  <2> QED BY <1>0, <1>5, <2>1, <2>2 DEF Accept, PoolTypeOK, StoppersTypeOK, AwaitOK, pool, stopping
<1>6. CASE Enqueue \/ Refuse
  <2>1. ListenerTypeOK'
    BY <1>6 DEF Enqueue, Refuse, At, ListenerTypeOK, flags
  <2>2. holding \in Connections
    BY <1>6 DEF Enqueue, Refuse, At, AwaitOK
  <2>3. connection' \in [Connections -> Fates]
    BY <1>6, <2>2, BecomeType DEF Enqueue, Refuse, Fates
  <2>4. PoolTypeOK'
    <3>1. jobs' \in Seq(Connections)
      <4>1. jobs \in Seq(Connections)
        BY DEF PoolTypeOK
      <4> QED BY <1>6, <2>2, <4>1 DEF Enqueue, Refuse, pool
    <3>2. worker' = worker
      BY <1>6 DEF Enqueue, Refuse, pool
    <3> QED BY <3>1, <3>2 DEF PoolTypeOK
  <2> QED BY <1>0, <1>6, <2>1, <2>3, <2>4 DEF Enqueue, Refuse, At, StoppersTypeOK, AwaitOK, pool, stopping
<1>7. CASE NotifyOne \/ NotifyAll
  <2>1. ListenerTypeOK'
    BY <1>7 DEF NotifyOne, NotifyAll, At, ListenerTypeOK, flags
  <2>2. PoolTypeOK' /\ AwaitOK'
    <3>1. ASSUME NEW w \in Workers
          PROVE  worker'[w] \in {worker[w], Idle("awake")}
      BY <1>7 DEF NotifyOne, NotifyAll, PoolTypeOK
    <3>2. DOMAIN worker' = Workers /\ worker' = [w \in Workers |-> worker'[w]] /\ jobs' = jobs /\ listener' # "enqueue"
      BY <1>7 DEF NotifyOne, NotifyAll, At, PoolTypeOK
    <3> QED BY <3>1, <3>2 DEF Idle, PoolTypeOK, WorkerState, AwaitOK
  <2> QED BY <1>0, <1>7, <2>1, <2>2 DEF NotifyOne, NotifyAll, StoppersTypeOK, stopping
<1>8. CASE Shutdown \/ Joined \/ Return
  <2>1. ListenerTypeOK' /\ PoolTypeOK'
    BY <1>8 DEF Shutdown, Joined, Return, At, ListenerTypeOK, PoolTypeOK, flags, pool
  <2> QED BY <1>0, <1>8, <2>1 DEF Shutdown, Joined, Return, At, StoppersTypeOK, AwaitOK, pool, stopping
<1> QED BY <1>1, <1>2, <1>3, <1>4, <1>5, <1>6, <1>7, <1>8 DEF Listener, Proceed

LEMMA WorkerTypeStep ==
  ASSUME TypeOK, AwaitOK, NEW w \in Workers, Worker(w)
  PROVE  TypeOK' /\ AwaitOK'
<1> USE BoundsAssumption DEF TypeOK
<1>0. FlagsTypeOK'
  BY FlagsTypeStep DEF Next
<1>1. ListenerTypeOK' /\ StoppersTypeOK' /\ closes' \in [Listening -> Nat]
  BY DEF Worker, Sleep, Take, Leave, CheckGoes, CheckEnds, TimesOut, Serve, CloseConnection, Works,
         ListenerTypeOK, StoppersTypeOK, accepting, flags, stopping
<1>2. CASE Sleep(w) \/ Leave(w) \/ CheckGoes(w) \/ CheckEnds(w) \/ TimesOut(w) \/ Serve(w)
  <2>1. PoolTypeOK' /\ AwaitOK'
    <3>1. CASE Sleep(w) \/ Leave(w)
      <4>1. PICK at \in {"asleep", "exited"} : worker' = [worker EXCEPT ![w] = Idle(at)]
        BY <3>1 DEF Sleep, Leave, Works
      <4>2. Idle(at) \in WorkerState
        BY DEF Idle, WorkerState
      <4>3. worker' \in [Workers -> WorkerState] /\ jobs' = jobs /\ listener' = listener /\ holding' = holding
        BY <3>1, <4>1, <4>2 DEF Sleep, Leave, Works, PoolTypeOK, accepting
      <4> QED BY <4>1, <4>3 DEF PoolTypeOK, AwaitOK, Idle
    <3>2. CASE CheckGoes(w) \/ CheckEnds(w) \/ TimesOut(w)
      <4>1. PICK at \in {"await", "close"} :
              worker' = [worker EXCEPT ![w] = [worker[w] EXCEPT !.at = at]] /\ (at = "await" => worker[w].left > 0)
        BY <3>2 DEF CheckGoes, CheckEnds, TimesOut, Works, Goes
      <4>2. worker[w] \in WorkerState
        BY DEF PoolTypeOK
      <4> DEFINE new == [worker[w] EXCEPT !.at = at]
      <4>3. new \in WorkerState /\ new.at = at /\ new.left = worker[w].left
        BY <4>2 DEF WorkerState
      <4>4. jobs' = jobs /\ listener' = listener /\ holding' = holding
        BY <3>2 DEF CheckGoes, CheckEnds, TimesOut, Works, accepting
      <4> HIDE DEF new
      <4>5. worker' = [worker EXCEPT ![w] = new]
        BY <4>1 DEF new
      <4>6. PoolTypeOK'
        BY <4>3, <4>4, <4>5 DEF PoolTypeOK
      <4>7. AwaitOK'
        BY <4>1, <4>3, <4>4, <4>5 DEF AwaitOK, PoolTypeOK
      <4> QED BY <4>6, <4>7
    <3>3. CASE Serve(w)
      <4>1. PICK next \in {"check", "close"} :
              worker[w].at = "await" /\ worker' = [worker EXCEPT ![w] = [worker[w] EXCEPT !.at = next, !.left = @ - 1]]
        BY <3>3 DEF Serve, Works
      <4>2. worker[w].left - 1 \in 0..MaxRequests /\ worker[w] \in WorkerState
        BY <4>1 DEF AwaitOK, PoolTypeOK, WorkerState
      <4>3. [worker[w] EXCEPT !.at = next, !.left = @ - 1] \in WorkerState
        BY <4>2 DEF WorkerState
      <4>4. worker' \in [Workers -> WorkerState] /\ jobs' = jobs /\ listener' = listener /\ holding' = holding
        BY <3>3, <4>1, <4>3 DEF Serve, Works, PoolTypeOK, accepting
      <4> QED BY <4>1, <4>2, <4>4 DEF PoolTypeOK, AwaitOK, WorkerState
    <3> QED BY <1>2, <3>1, <3>2, <3>3
  <2> QED BY <1>0, <1>1, <1>2, <2>1 DEF Sleep, Leave, CheckGoes, CheckEnds, TimesOut, Serve
<1>3. CASE Take(w)
  <2>1. Head(jobs) \in Connections /\ Tail(jobs) \in Seq(Connections)
    BY <1>3 DEF Take, PoolTypeOK
  <2>2. connection' \in [Connections -> Fates]
    BY <1>3, <2>1, BecomeType DEF Take, Fates
  <2>3. PoolTypeOK' /\ AwaitOK'
    BY <1>3, <2>1 DEF Take, Works, PoolTypeOK, WorkerState, AwaitOK, accepting
  <2> QED BY <1>0, <1>1, <2>2, <2>3
<1>4. CASE CloseConnection(w)
  <2>1. connection' \in [Connections -> Fates]
    BY <1>4 DEF CloseConnection, Become, Fates
  <2>2. PoolTypeOK' /\ AwaitOK'
    BY <1>4 DEF CloseConnection, Works, Idle, PoolTypeOK, WorkerState, AwaitOK, accepting
  <2> QED BY <1>0, <1>1, <2>1, <2>2
<1> QED BY <1>2, <1>3, <1>4 DEF Worker

LEMMA StopTypeStep ==
  ASSUME TypeOK, AwaitOK, NEW s \in Stoppers, Stop(s)
  PROVE  TypeOK' /\ AwaitOK'
<1> USE BoundsAssumption DEF TypeOK
<1>0. FlagsTypeOK'
  BY FlagsTypeStep DEF Next
<1>1. ListenerTypeOK' /\ PoolTypeOK' /\ AwaitOK'
  BY DEF Stop, Ready, IsRunning, StopAsserts, Exchange, Close, Stops, ListenerTypeOK, PoolTypeOK, AwaitOK, accepting, pool
<1>2. StoppersTypeOK'
  BY DEF Stop, Ready, IsRunning, StopAsserts, Exchange, Close, Stops, ListenerTypeOK, StoppersTypeOK
<1>3. CASE Ready(s) \/ IsRunning(s) \/ StopAsserts(s) \/ Exchange(s)
  BY <1>0, <1>1, <1>2, <1>3 DEF Ready, IsRunning, StopAsserts, Exchange
<1>4. CASE Close(s)
  <2>1. CASE taken[s] = 0
    BY <1>0, <1>1, <1>2, <1>4, <2>1 DEF Close
  <2>2. CASE taken[s] # 0
    <3>1. taken[s] \in 1..Rounds
      BY <2>2 DEF StoppersTypeOK
    <3> QED BY <1>0, <1>1, <1>2, <1>4, <2>2, <3>1, CloseListeningType DEF Close
  <2> QED BY <2>1, <2>2
<1> QED BY <1>3, <1>4 DEF Stop

(* The clients and the steps that change nothing complete the step.         *)
LEMMA TypeStep == TypeOK /\ AwaitOK /\ [Next]_vars => TypeOK' /\ AwaitOK'
<1> SUFFICES ASSUME TypeOK, AwaitOK, [Next]_vars PROVE TypeOK' /\ AwaitOK'
  OBVIOUS
<1>0. FlagsTypeOK'
  BY FlagsTypeStep DEF TypeOK
<1>1. CASE Listener
  BY <1>1, ListenerTypeStep
<1>2. CASE \E w \in Workers : Worker(w)
  BY <1>2, WorkerTypeStep
<1>3. CASE \E s \in Stoppers : Stop(s)
  BY <1>3, StopTypeStep
<1>4. ASSUME NEW c \in Connections, Arrive(c) PROVE TypeOK' /\ AwaitOK'
  <2>1. connection' \in [Connections -> Fates]
    BY <1>4, BecomeType DEF Arrive, Fates
  <2> QED BY <1>0, <1>4, <2>1 DEF Arrive, TypeOK, ListenerTypeOK, PoolTypeOK, StoppersTypeOK, AwaitOK,
                            accepting, flags, pool, stopping
<1>5. CASE UNCHANGED vars
  BY <1>0, <1>5 DEF vars, TypeOK, ListenerTypeOK, PoolTypeOK, StoppersTypeOK, AwaitOK, accepting, flags, pool, stopping
<1> QED BY <1>1, <1>2, <1>3, <1>4, <1>5 DEF Next
-----------------------------------------------------------------------------
(* A step that leaves everybody with the connections he had.                *)
Kept(fate) == \A c \in Connections : connection'[c] = fate <=> connection[c] = fate

LEMMA HoldingKept ==
  ASSUME HoldingOK, Kept("accepted"), listener' = "enqueue" <=> listener = "enqueue", holding' = holding
  PROVE  HoldingOK'
BY DEF HoldingOK, Kept

LEMMA JobsKept ==
  ASSUME TypeOK, JobsOK, Kept("queued"), jobs' = jobs
  PROVE  JobsOK'
<1>1. \A i \in DOMAIN jobs : jobs[i] \in Connections
  BY DEF TypeOK, PoolTypeOK
<1> QED BY <1>1 DEF JobsOK, Kept

LEMMA WorkersKept ==
  ASSUME TypeOK, WorkersOK, Kept("serving"),
         \A w \in Workers : worker'[w].serves = worker[w].serves /\ (worker'[w].at \in Busy <=> worker[w].at \in Busy)
  PROVE  WorkersOK'
<1>1. \A w \in Workers : worker[w].serves \in Connections \cup {None}
  BY DEF TypeOK, PoolTypeOK, WorkerState
<1> QED BY <1>1 DEF WorkersOK, Kept

(* The listener but for its dealings with connections.                      *)
LEMMA ListenerStep ==
  ASSUME OwnerInv, Bind \/ Start \/ Loop \/ AcceptAgain \/ AcceptError \/ CloseAfterError
                     \/ NotifyOne \/ Shutdown \/ NotifyAll \/ Joined \/ Return
  PROVE  HoldingOK' /\ JobsOK' /\ WorkersOK' /\ LifeOK' /\ QueueBounded'
<1> USE DEF OwnerInv
<1>1. Kept("accepted") /\ Kept("queued") /\ Kept("serving")
  BY DEF Kept, Bind, Start, Loop, AcceptAgain, AcceptError, CloseAfterError, CloseListening,
         NotifyOne, Shutdown, NotifyAll, Joined, Return, TypeOK
<1>2. HoldingOK'
  <2>1. (listener' = "enqueue" <=> listener = "enqueue") /\ holding' = holding
    BY DEF Bind, Start, Loop, AcceptAgain, AcceptError, CloseAfterError, NotifyOne, Shutdown, NotifyAll, Joined, Return, At
  <2> QED BY <1>1, <2>1, HoldingKept
<1>3. jobs' = jobs
  BY DEF Bind, Start, Loop, AcceptAgain, AcceptError, CloseAfterError, NotifyOne, Shutdown, NotifyAll, Joined, Return,
         At, LifeOK, Ended, pool
<1>4. JobsOK' /\ QueueBounded'
  BY <1>1, <1>3, JobsKept DEF QueueBounded
<1>5. WorkersOK'
  <2>1. CASE worker' = worker
    BY <1>1, <2>1, WorkersKept
  <2>2. CASE Start
    <3>1. \A w \in Workers : worker[w].at = "exited" /\ worker'[w] = Idle("awake")
      BY <2>2 DEF Start, At, LifeOK, Ended
    <3> QED BY <1>1, <3>1, WorkersKept DEF Idle, WorkersOK, Busy
  <2>3. CASE NotifyOne \/ NotifyAll
    <3>1. \A w \in Workers : worker'[w] = worker[w] \/ (worker[w].at = "asleep" /\ worker'[w] = Idle("awake"))
      BY <2>3 DEF NotifyOne, NotifyAll, TypeOK, PoolTypeOK
    <3> QED BY <1>1, <3>1, WorkersKept DEF Idle, WorkersOK, Busy
  <2> QED BY <2>1, <2>2, <2>3 DEF Bind, Loop, AcceptAgain, AcceptError, CloseAfterError, Shutdown, Joined, Return, pool
<1>6. LifeOK'
  <2>1. CASE Bind
    BY <2>1 DEF Bind, LifeOK, Ended, pool
  <2>2. CASE Start
    BY <2>2 DEF Start, At, Idle, LifeOK, Ended
  <2>3. CASE Loop \/ AcceptAgain \/ AcceptError \/ CloseAfterError
    BY <2>3 DEF Loop, AcceptAgain, AcceptError, CloseAfterError, At, LifeOK, Ended, pool
  <2>4. CASE NotifyOne \/ NotifyAll
    <3>1. \A w \in Workers : worker'[w] = worker[w] \/ worker'[w] = Idle("awake")
      BY <2>4 DEF NotifyOne, NotifyAll, TypeOK, PoolTypeOK
    <3>2. \A w \in Workers : worker'[w].at = "exited" => worker[w].at = "exited"
      BY <3>1 DEF Idle
    <3> QED BY <2>4, <3>2 DEF NotifyOne, NotifyAll, At, LifeOK, Ended
  <2>5. CASE Shutdown
    BY <2>5 DEF Shutdown, At, LifeOK, Ended
  <2>6. CASE Joined
    BY <2>6, PoolAssumption DEF Joined, At, LifeOK, Ended, pool
  <2>7. CASE Return
    BY <2>7 DEF Return, At, LifeOK, Ended, pool
  <2> QED BY <2>1, <2>2, <2>3, <2>4, <2>5, <2>6, <2>7
<1> QED BY <1>2, <1>4, <1>5, <1>6

(* accept puts a connection into the hands of the listener, whose hands     *)
(* were empty.                                                             *)
LEMMA AcceptStep ==
  ASSUME OwnerInv, NEW c \in Connections, Accept(c)
  PROVE  HoldingOK' /\ JobsOK' /\ WorkersOK' /\ LifeOK' /\ QueueBounded'
<1> USE DEF OwnerInv
<1>1. connection[c] = "waiting" /\ connection' = [connection EXCEPT ![c] = "accepted"]
  BY DEF Accept, Become
<1>2. Kept("queued") /\ Kept("serving")
  BY <1>1 DEF Kept, TypeOK
<1>3. HoldingOK'
  BY <1>1 DEF Accept, At, HoldingOK, TypeOK
<1>4. JobsOK' /\ WorkersOK' /\ QueueBounded'
  BY <1>2, JobsKept, WorkersKept DEF Accept, pool, QueueBounded
<1>5. LifeOK'
  BY DEF Accept, At, pool, LifeOK, Ended
<1> QED BY <1>3, <1>4, <1>5

(* The queue takes it, or it is refused.                                   *)
LEMMA EnqueueStep ==
  ASSUME OwnerInv, Enqueue
  PROVE  HoldingOK' /\ JobsOK' /\ WorkersOK' /\ LifeOK' /\ QueueBounded'
<1> USE DEF OwnerInv
<1>1. listener = "enqueue" /\ holding \in Connections /\ connection[holding] = "accepted"
  BY DEF Enqueue, At, AwaitOK, HoldingOK
<1>2. connection' = [connection EXCEPT ![holding] = "queued"]
  BY DEF Enqueue, Become
<1>3. jobs \in Seq(Connections) /\ jobs' = Append(jobs, holding)
  BY DEF Enqueue, TypeOK, PoolTypeOK
<1>4. HoldingOK'
  BY <1>1, <1>2 DEF Enqueue, At, HoldingOK, TypeOK
<1>5. JobsOK'
  <2>1. /\ DOMAIN jobs' = 1..(Len(jobs) + 1) /\ jobs'[Len(jobs) + 1] = holding /\ DOMAIN jobs = 1..Len(jobs)
        /\ \A i \in 1..Len(jobs) : jobs'[i] = jobs[i] /\ jobs[i] \in Connections
        /\ Len(jobs) \in Nat
    BY <1>1, <1>3
  <2>2. \A i \in 1..Len(jobs) : jobs[i] # holding
    BY <1>1, <2>1 DEF JobsOK
  <2>3. \A i \in DOMAIN jobs' : i = Len(jobs) + 1 \/ i \in 1..Len(jobs)
    BY <2>1
  <2>4. \A i \in DOMAIN jobs' : connection'[jobs'[i]] = "queued"
    BY <1>1, <1>2, <2>1, <2>3 DEF JobsOK, TypeOK
  <2>5. \A i, j \in DOMAIN jobs' : jobs'[i] = jobs'[j] => i = j
    BY <2>1, <2>2, <2>3 DEF JobsOK
  <2>6. ASSUME NEW c \in Connections, connection'[c] = "queued" PROVE \E i \in DOMAIN jobs' : jobs'[i] = c
    <3>1. CASE c = holding
      BY <2>1, <3>1
    <3>2. CASE c # holding
      <4>1. PICK i \in 1..Len(jobs) : jobs[i] = c
        BY <1>2, <2>1, <2>6, <3>2 DEF JobsOK, TypeOK
      <4> QED BY <2>1, <4>1
    <3> QED BY <3>1, <3>2
  <2> QED BY <2>4, <2>5, <2>6 DEF JobsOK
<1>6. WorkersOK'
  <2>1. Kept("serving")
    BY <1>1, <1>2 DEF Kept, TypeOK
  <2> QED BY <2>1, WorkersKept DEF Enqueue
<1>7. LifeOK'
  BY <1>1 DEF Enqueue, At, LifeOK, Ended
<1>8. QueueBounded'
  BY <1>3, BoundsAssumption DEF Enqueue, Full, QueueBounded
<1> QED BY <1>4, <1>5, <1>6, <1>7, <1>8

LEMMA RefuseLife ==
  ASSUME LifeOK, Refuse
  PROVE  LifeOK'
<1>1. ~Ended /\ ~Ended' /\ listener = "enqueue" /\ listener' = "loop" /\ UNCHANGED <<jobs, worker, shutdown>>
  BY DEF Refuse, At, pool, Ended
<1>2. ~shutdown /\ \A w \in Workers : worker[w].at # "exited"
  BY <1>1 DEF LifeOK
<1>3. ~shutdown' /\ \A w \in Workers : worker'[w].at # "exited"
  BY <1>1, <1>2
<1>4. listener' \notin {"notify_all", "join"}
  BY <1>1
<1> QED BY <1>1, <1>3, <1>4 DEF LifeOK

LEMMA RefuseStep ==
  ASSUME OwnerInv, Refuse
  PROVE  HoldingOK' /\ JobsOK' /\ WorkersOK' /\ LifeOK' /\ QueueBounded'
<1> USE DEF OwnerInv
<1>1. listener = "enqueue" /\ holding \in Connections /\ connection[holding] = "accepted"
  BY DEF Refuse, At, AwaitOK, HoldingOK
<1>2. connection' = [connection EXCEPT ![holding] = "refused"]
  BY DEF Refuse, Become
<1>3. Kept("queued") /\ Kept("serving")
  BY <1>1, <1>2 DEF Kept, TypeOK
<1>4. HoldingOK'
  BY <1>1, <1>2 DEF Refuse, At, HoldingOK, TypeOK
<1>5. JobsOK' /\ WorkersOK' /\ QueueBounded'
  BY <1>3, JobsKept, WorkersKept DEF Refuse, pool, QueueBounded
<1>6. LifeOK'
  BY ZenonT(40), RefuseLife
<1> QED BY <1>4, <1>5, <1>6

(* A worker that serves a connection goes on with it.                      *)
LEMMA ServingOn ==
  ASSUME TypeOK, NEW w \in Workers, CheckGoes(w) \/ CheckEnds(w) \/ TimesOut(w) \/ Serve(w)
  PROVE  \E at \in Busy, more \in {worker[w].left, worker[w].left - 1} : worker'[w] = [[worker[w] EXCEPT !.at = at] EXCEPT !.left = more]
<1>1. worker[w] \in WorkerState
  BY DEF TypeOK, PoolTypeOK
<1>2. ASSUME NEW at \in Busy, worker'[w] = [worker[w] EXCEPT !.at = at]
      PROVE  worker'[w] = [[worker[w] EXCEPT !.at = at] EXCEPT !.left = worker[w].left]
  BY <1>1, <1>2 DEF WorkerState
<1>3. CASE CheckGoes(w) \/ CheckEnds(w) \/ TimesOut(w)
  BY <1>2, <1>3 DEF CheckGoes, CheckEnds, TimesOut, Works, Busy, TypeOK, PoolTypeOK
<1>4. CASE Serve(w)
  <2>1. PICK next \in {"check", "close"} : worker' = [worker EXCEPT ![w] = [worker[w] EXCEPT !.at = next, !.left = @ - 1]]
    BY <1>4 DEF Serve, Works
  <2>2. worker'[w] = [worker[w] EXCEPT !.at = next, !.left = @ - 1]
    BY <2>1 DEF TypeOK, PoolTypeOK
  <2>3. worker'[w] = [[worker[w] EXCEPT !.at = next] EXCEPT !.left = worker[w].left - 1]
    BY <1>1, <2>2 DEF WorkerState
  <2> QED BY <2>3 DEF Busy
<1> QED BY <1>3, <1>4

(* A worker that neither takes nor closes a connection keeps the one it has.*)
LEMMA WorkerStep ==
  ASSUME OwnerInv, NEW w \in Workers,
         Sleep(w) \/ Leave(w) \/ CheckGoes(w) \/ CheckEnds(w) \/ TimesOut(w) \/ Serve(w)
  PROVE  HoldingOK' /\ JobsOK' /\ WorkersOK' /\ LifeOK' /\ QueueBounded'
<1> USE DEF OwnerInv
<1>1. connection' = connection /\ jobs' = jobs /\ holding' = holding /\ listener' = listener /\ shutdown' = shutdown
  BY DEF Sleep, Leave, CheckGoes, CheckEnds, TimesOut, Serve, Works, accepting
<1>2. Kept("accepted") /\ Kept("queued") /\ Kept("serving")
  BY <1>1 DEF Kept
<1>3. HoldingOK' /\ JobsOK' /\ QueueBounded'
  BY <1>1, <1>2, HoldingKept, JobsKept DEF QueueBounded
<1>4. worker[w].serves = None <=> worker[w].at \notin Busy
  BY DEF WorkersOK
<1>5. \A v \in Workers : worker'[v].serves = worker[v].serves /\ (worker'[v].at \in Busy <=> worker[v].at \in Busy)
  <2>1. CASE Sleep(w) \/ Leave(w)
    BY <1>4, <2>1 DEF Sleep, Leave, Works, Idle, Busy, TypeOK, PoolTypeOK
  <2>2. CASE CheckGoes(w) \/ CheckEnds(w) \/ TimesOut(w) \/ Serve(w)
    <3>1. worker[w].at \in Busy /\ \A v \in Workers : v # w => worker'[v] = worker[v]
      BY <2>2 DEF CheckGoes, CheckEnds, TimesOut, Serve, Works, Busy, TypeOK, PoolTypeOK
    <3>2. PICK at \in Busy, more \in {worker[w].left, worker[w].left - 1} : worker'[w] = [[worker[w] EXCEPT !.at = at] EXCEPT !.left = more]
      BY <2>2, ServingOn
    <3>3. worker[w] \in WorkerState
      BY DEF TypeOK, PoolTypeOK
    <3>4. worker'[w].at = at /\ worker'[w].serves = worker[w].serves
      BY <3>2, <3>3 DEF WorkerState
    <3> QED BY <3>1, <3>2, <3>4
  <2> QED BY <2>1, <2>2
<1>6. WorkersOK'
  BY <1>2, <1>5, WorkersKept
<1>7. LifeOK'
  <2>1. CASE Leave(w)
    BY <1>1, <2>1 DEF Leave, Works, Idle, LifeOK, Ended, TypeOK, PoolTypeOK
  <2>2. CASE ~Leave(w)
    <3>1. worker[w].at # "exited" /\ \A v \in Workers : v # w => worker'[v] = worker[v]
      BY <2>2 DEF Sleep, CheckGoes, CheckEnds, TimesOut, Serve, Works, TypeOK, PoolTypeOK
    <3>2. worker'[w].at # "exited"
      <4>1. CASE Sleep(w)
        BY <4>1 DEF Sleep, Works, Idle, TypeOK, PoolTypeOK
      <4>2. CASE ~Sleep(w)
        BY <1>5, <2>2, <4>2 DEF CheckGoes, CheckEnds, TimesOut, Serve, Works, Busy
      <4> QED BY <4>1, <4>2
    <3> QED BY <1>1, <3>1, <3>2 DEF LifeOK, Ended
  <2> QED BY <2>1, <2>2
<1> QED BY <1>3, <1>6, <1>7

(* A worker takes the first connection of the queue, which nobody else has. *)
LEMMA TakeStep ==
  ASSUME OwnerInv, NEW w \in Workers, Take(w)
  PROVE  HoldingOK' /\ JobsOK' /\ WorkersOK' /\ LifeOK' /\ QueueBounded'
<1> USE DEF OwnerInv
<1> DEFINE c == Head(jobs)
<1>1. jobs \in Seq(Connections) /\ jobs # <<>> /\ jobs' = Tail(jobs)
  BY DEF Take, TypeOK, PoolTypeOK
<1>2. /\ c \in Connections /\ c = jobs[1] /\ DOMAIN jobs = 1..Len(jobs) /\ Len(jobs) \in Nat /\ Len(jobs) > 0
      /\ DOMAIN jobs' = 1..(Len(jobs) - 1) /\ Len(jobs') = Len(jobs) - 1
      /\ \A i \in 1..(Len(jobs) - 1) : jobs'[i] = jobs[i + 1]
      /\ \A i \in 1..Len(jobs) : jobs[i] \in Connections
  BY <1>1
<1>3. connection[c] = "queued"
  BY <1>2 DEF JobsOK
<1>4. connection' = [connection EXCEPT ![c] = "serving"]
  BY DEF Take, Become
<1>5. holding' = holding /\ listener' = listener /\ shutdown' = shutdown
  BY DEF Take, Works, accepting
<1>6. HoldingOK'
  <2>1. Kept("accepted")
    BY <1>2, <1>3, <1>4 DEF Kept, TypeOK
  <2> QED BY <1>5, <2>1, HoldingKept
<1>7. JobsOK'
  <2>1. \A i \in 1..(Len(jobs) - 1) : i + 1 \in 1..Len(jobs) /\ i + 1 # 1
    BY <1>2
  <2>2. \A i \in 1..(Len(jobs) - 1) : jobs[i + 1] # c
    <3>1. 1 \in DOMAIN jobs /\ \A i \in 1..(Len(jobs) - 1) : i + 1 \in DOMAIN jobs
      BY <1>2, <2>1
    <3> QED BY <1>2, <2>1, <3>1 DEF JobsOK
  <2>3. \A i \in DOMAIN jobs' : connection'[jobs'[i]] = "queued"
    <3>1. \A i \in DOMAIN jobs' : jobs'[i] = jobs[i + 1] /\ jobs[i + 1] \in Connections /\ jobs[i + 1] # c
                                  /\ connection[jobs[i + 1]] = "queued"
      BY <1>2, <2>1, <2>2 DEF JobsOK
    <3> QED BY <1>4, <3>1 DEF TypeOK
  <2>4. \A i, j \in DOMAIN jobs' : jobs'[i] = jobs'[j] => i = j
    <3>1. \A i \in DOMAIN jobs' : jobs'[i] = jobs[i + 1] /\ i + 1 \in DOMAIN jobs
      BY <1>2, <2>1
    <3>2. \A i, j \in DOMAIN jobs' : jobs'[i] = jobs'[j] => i + 1 = j + 1
      BY <3>1 DEF JobsOK
    <3> QED BY <1>2, <3>2
  <2>5. ASSUME NEW d \in Connections, connection'[d] = "queued" PROVE \E i \in DOMAIN jobs' : jobs'[i] = d
    <3>1. d # c /\ connection[d] = "queued"
      BY <1>2, <1>4, <2>5 DEF TypeOK
    <3>2. PICK i \in 1..Len(jobs) : jobs[i] = d
      BY <1>2, <3>1 DEF JobsOK
    <3>3. i # 1 /\ i - 1 \in 1..(Len(jobs) - 1) /\ (i - 1) + 1 = i
      BY <1>2, <3>1, <3>2
    <3> QED BY <1>2, <3>2, <3>3
  <2> QED BY <2>3, <2>4, <2>5 DEF JobsOK
<1>8. WorkersOK'
  <2>1. worker[w].at = "awake" /\ worker' = [worker EXCEPT ![w] = [at |-> "check", serves |-> c, left |-> MaxRequests]]
    BY DEF Take, Works
  <2>2. worker[w].serves = None
    BY <2>1 DEF WorkersOK, Busy
  <2>3. worker'[w].at = "check" /\ worker'[w].serves = c /\ \A v \in Workers : v # w => worker'[v] = worker[v]
    BY <2>1 DEF TypeOK, PoolTypeOK
  <2>4. \A v \in Workers : worker[v].serves # c
    <3>1. c # None
      BY <1>2, NoneAssumption
    <3> QED BY <1>3, <3>1 DEF WorkersOK
  <2>5. \A v \in Workers : worker[v].serves # None => worker[v].serves \in Connections
    BY DEF TypeOK, PoolTypeOK, WorkerState
  <2>6. \A v \in Workers : worker'[v].serves # None <=> worker'[v].at \in Busy
    BY <1>2, <2>3, NoneAssumption DEF WorkersOK, Busy
  <2>7. \A v \in Workers : worker'[v].serves # None => connection'[worker'[v].serves] = "serving"
    BY <1>2, <1>4, <2>3, <2>4, <2>5 DEF WorkersOK, TypeOK
  <2>8. \A u, v \in Workers : worker'[u].serves = worker'[v].serves /\ worker'[u].serves # None => u = v
    BY <2>3, <2>4 DEF WorkersOK
  <2>9. \A d \in Connections : connection'[d] = "serving" => \E v \in Workers : worker'[v].serves = d
    <3>1. ASSUME NEW d \in Connections, connection'[d] = "serving", d # c PROVE \E v \in Workers : worker'[v].serves = d
      <4>1. PICK v \in Workers : worker[v].serves = d
        BY <1>4, <3>1 DEF WorkersOK, TypeOK
      <4>2. v # w
        BY <2>2, <3>1, <4>1, NoneAssumption
      <4> QED BY <2>3, <4>1, <4>2
    <3> QED BY <2>3, <3>1
  <2> QED BY <2>6, <2>7, <2>8, <2>9 DEF WorkersOK
<1>9. LifeOK'
  <2>1. ~Ended
    BY <1>1 DEF LifeOK
  <2>2. \A v \in Workers : worker'[v].at = "exited" => worker[v].at = "exited"
    BY DEF Take, Works, TypeOK, PoolTypeOK
  <2> QED BY <1>1, <1>5, <2>1, <2>2 DEF LifeOK, Ended
<1>10. QueueBounded'
  BY <1>2, BoundsAssumption DEF QueueBounded
<1> QED BY <1>6, <1>7, <1>8, <1>9, <1>10

(* The worker that serves a connection closes it, and has none then.        *)
LEMMA CloseStep ==
  ASSUME OwnerInv, NEW w \in Workers, CloseConnection(w)
  PROVE  HoldingOK' /\ JobsOK' /\ WorkersOK' /\ LifeOK' /\ QueueBounded'
<1> USE DEF OwnerInv
<1> DEFINE c == worker[w].serves
<1>1. worker[w].at = "close" /\ worker' = [worker EXCEPT ![w] = Idle("awake")]
  BY DEF CloseConnection, Works
<1>2. c # None /\ c \in Connections /\ connection[c] = "serving"
  BY <1>1 DEF WorkersOK, Busy, TypeOK, PoolTypeOK, WorkerState
<1>3. PICK fate \in {"served", "dropped"} : connection' = [connection EXCEPT ![c] = fate]
  BY DEF CloseConnection, Become
<1>4. jobs' = jobs /\ holding' = holding /\ listener' = listener /\ shutdown' = shutdown
  BY DEF CloseConnection, Works, accepting
<1>5. Kept("accepted") /\ Kept("queued")
  BY <1>2, <1>3 DEF Kept, TypeOK
<1>6. HoldingOK' /\ JobsOK' /\ QueueBounded'
  BY <1>4, <1>5, HoldingKept, JobsKept DEF QueueBounded
<1>7. WorkersOK'
  <2>1. worker'[w] = Idle("awake") /\ \A v \in Workers : v # w => worker'[v] = worker[v]
    BY <1>1 DEF TypeOK, PoolTypeOK
  <2>2. worker'[w].serves = None /\ worker'[w].at \notin Busy
    BY <2>1 DEF Idle, Busy
  <2>3. \A v \in Workers : v # w => worker[v].serves # c
    BY <1>2 DEF WorkersOK
  <2>4. \A v \in Workers : worker[v].serves # None => worker[v].serves \in Connections
    BY DEF TypeOK, PoolTypeOK, WorkerState
  <2>5. \A v \in Workers : worker'[v].serves # None <=> worker'[v].at \in Busy
    BY <2>1, <2>2 DEF WorkersOK
  <2>6. \A v \in Workers : worker'[v].serves # None => connection'[worker'[v].serves] = "serving"
    BY <1>2, <1>3, <2>1, <2>2, <2>3, <2>4 DEF WorkersOK, TypeOK
  <2>7. \A u, v \in Workers : worker'[u].serves = worker'[v].serves /\ worker'[u].serves # None => u = v
    BY <2>1, <2>2 DEF WorkersOK
  <2>8. ASSUME NEW d \in Connections, connection'[d] = "serving" PROVE \E v \in Workers : worker'[v].serves = d
    <3>1. d # c /\ connection[d] = "serving"
      BY <1>2, <1>3, <2>8 DEF TypeOK
    <3>2. PICK v \in Workers : worker[v].serves = d
      BY <3>1 DEF WorkersOK
    <3> QED BY <2>1, <3>1, <3>2
  <2> QED BY <2>5, <2>6, <2>7, <2>8 DEF WorkersOK
<1>8. LifeOK'
  <2>1. \A v \in Workers : worker'[v].at = "exited" => worker[v].at = "exited"
    BY <1>1 DEF Idle, TypeOK, PoolTypeOK
  <2>2. ~Ended
    BY <1>1 DEF LifeOK
  <2> QED BY <1>4, <2>1, <2>2 DEF LifeOK, Ended
<1> QED BY <1>6, <1>7, <1>8

(* The threads that stop the server, and the clients, whose connections have*)
(* not been accepted.                                                      *)
LEMMA OutsideStep ==
  ASSUME OwnerInv, (\E s \in Stoppers : Stop(s)) \/ (\E c \in Connections : Arrive(c)) \/ UNCHANGED vars
  PROVE  HoldingOK' /\ JobsOK' /\ WorkersOK' /\ LifeOK' /\ QueueBounded'
<1> USE DEF OwnerInv
<1>1. listener' = listener /\ holding' = holding /\ pool' = pool
  BY DEF Stop, Ready, IsRunning, StopAsserts, Exchange, Close, Stops, Arrive, accepting, vars
<1>2. Kept("accepted") /\ Kept("queued") /\ Kept("serving")
  <2>1. CASE \E s \in Stoppers : Stop(s)
    BY <2>1 DEF Stop, Ready, IsRunning, StopAsserts, Exchange, Close, CloseListening, Kept, TypeOK
  <2>2. CASE \E c \in Connections : Arrive(c)
    BY <2>2 DEF Arrive, Become, Kept, TypeOK
  <2>3. CASE UNCHANGED vars
    BY <2>3 DEF vars, Kept
  <2> QED BY <2>1, <2>2, <2>3
<1>3. HoldingOK' /\ JobsOK' /\ WorkersOK'
  BY <1>1, <1>2, HoldingKept, JobsKept, WorkersKept DEF pool
<1>4. LifeOK' /\ QueueBounded'
  BY <1>1 DEF pool, LifeOK, Ended, QueueBounded
<1> QED BY <1>3, <1>4

LEMMA OwnerStep == OwnerInv /\ [Next]_vars => OwnerInv'
<1> SUFFICES ASSUME OwnerInv, [Next]_vars PROVE OwnerInv'
  OBVIOUS
<1>1. TypeOK' /\ AwaitOK'
  BY TypeStep DEF OwnerInv
<1>2. HoldingOK' /\ JobsOK' /\ WorkersOK' /\ LifeOK' /\ QueueBounded'
  <2>1. CASE Listener
    BY <2>1, ListenerStep, AcceptStep, EnqueueStep, RefuseStep DEF Listener, Proceed
  <2>2. CASE \E w \in Workers : Worker(w)
    BY <2>2, WorkerStep, TakeStep, CloseStep DEF Worker
  <2>3. CASE (\E s \in Stoppers : Stop(s)) \/ (\E c \in Connections : Arrive(c)) \/ UNCHANGED vars
    BY <2>3, OutsideStep
  <2> QED BY <2>1, <2>2, <2>3 DEF Next
<1> QED BY <1>1, <1>2 DEF OwnerInv

(* The invariant that the other theorems of this module rest on: who has    *)
(* each connection, and what the threads can therefore count on.           *)
THEOREM OwnerInvHolds == Spec => []OwnerInv
<1>1. Init => OwnerInv
  BY InitOK
<1>2. OwnerInv /\ [Next]_vars => OwnerInv'
  BY OwnerStep
<1> QED BY <1>1, <1>2, PTL DEF Spec

(* The variables of the server keep to their sets.                          *)
THEOREM TypeCorrect == Spec => []TypeOK
<1>1. OwnerInv => TypeOK
  BY DEF OwnerInv
<1> QED BY <1>1, OwnerInvHolds, PTL

(* A set of which all members are one, and one is a member, is a singleton. *)
LEMMA OneMember ==
  ASSUME NEW S, NEW x \in S, \A y \in S : y = x
  PROVE  Cardinality(S) = 1
<1>1. S = {x}
  OBVIOUS
<1> QED BY <1>1, FS_Singleton

(* However many threads listen, serve and stop: every connection accepted is*)
(* in one pair of hands until it is closed, a listen that has returned has  *)
(* closed them all, and the queue keeps to its bound.                      *)
THEOREM ConnectionsAreOwned == Spec => []ConnectionsOwned
<1>1. ASSUME OwnerInv PROVE OneOwner
  <2> USE <1>1 DEF OwnerInv
  <2>1. \A c \in Connections : connection[c] = "accepted" => listener = "enqueue" /\ holding = c
    BY DEF HoldingOK
  <2>2. ASSUME NEW c \in Connections
        PROVE  Cardinality({i \in DOMAIN jobs : jobs[i] = c}) = (IF connection[c] = "queued" THEN 1 ELSE 0)
    <3>1. CASE connection[c] = "queued"
      <4>1. PICK i \in DOMAIN jobs : jobs[i] = c
        BY <3>1 DEF JobsOK
      <4>2. \A j \in {j \in DOMAIN jobs : jobs[j] = c} : j = i
        BY <4>1 DEF JobsOK
      <4>3. i \in {j \in DOMAIN jobs : jobs[j] = c}
        BY <4>1
      <4> QED BY <3>1, <4>2, <4>3, OneMember
    <3>2. CASE connection[c] # "queued"
      <4>1. {i \in DOMAIN jobs : jobs[i] = c} = {}
        BY <3>2 DEF JobsOK
      <4> QED BY <3>2, <4>1, FS_EmptySet
    <3> QED BY <3>1, <3>2
  <2>3. ASSUME NEW c \in Connections
        PROVE  Cardinality({w \in Workers : worker[w].serves = c}) = (IF connection[c] = "serving" THEN 1 ELSE 0)
    <3>1. c # None
      BY NoneAssumption
    <3>2. CASE connection[c] = "serving"
      <4>1. PICK w \in Workers : worker[w].serves = c
        BY <3>2 DEF WorkersOK
      <4>2. \A v \in {v \in Workers : worker[v].serves = c} : v = w
        BY <3>1, <4>1 DEF WorkersOK
      <4>3. w \in {v \in Workers : worker[v].serves = c}
        BY <4>1
      <4> QED BY <3>2, <4>2, <4>3, OneMember
    <3>3. CASE connection[c] # "serving"
      <4>1. {w \in Workers : worker[w].serves = c} = {}
        BY <3>1, <3>3 DEF WorkersOK
      <4> QED BY <3>3, <4>1, FS_EmptySet
    <3> QED BY <3>2, <3>3
  <2> QED BY <2>1, <2>2, <2>3 DEF OneOwner
<1>2. ASSUME OwnerInv PROVE Drained
  <2> USE <1>2 DEF OwnerInv
  <2> SUFFICES ASSUME listener \in {"leave", "idle"}, NEW c \in Connections
               PROVE  connection[c] \notin {"accepted", "queued", "serving"}
    BY DEF Drained
  <2>1. jobs = <<>> /\ \A w \in Workers : worker[w].at = "exited"
    BY DEF LifeOK, Ended
  <2>2. connection[c] # "accepted"
    BY DEF HoldingOK
  <2>3. connection[c] # "queued"
    BY <2>1 DEF JobsOK
  <2>4. connection[c] # "serving"
    BY <2>1, NoneAssumption DEF WorkersOK, Busy
  <2> QED BY <2>2, <2>3, <2>4
<1>3. OwnerInv => ConnectionsOwned
  BY <1>1, <1>2 DEF OwnerInv, ConnectionsOwned
<1> QED BY <1>3, OwnerInvHolds, PTL
-----------------------------------------------------------------------------
(* As long as accept fails only for want of the socket: who takes a socket  *)
(* out of svr_sock_ is the only one to close it.                            *)
SocketOK ==
  /\ listener # "close" /\ svr_sock <= round
  /\ svr_sock # 0 => closes[svr_sock] = 0
  /\ \A n \in Listening : closes[n] <= 1 /\ (n > round => closes[n] = 0)
  /\ \A s \in Stoppers : taken[s] <= round
  /\ \A s \in Stoppers : stopper[s] = "exchanged" /\ taken[s] # 0 => closes[taken[s]] = 0 /\ taken[s] # svr_sock
  /\ \A s, t \in Stoppers : stopper[s] = "exchanged" /\ stopper[t] = "exchanged" /\ taken[s] = taken[t] /\ taken[s] # 0
                            => s = t

LEMMA SocketStep ==
  ASSUME ~AcceptFails, TypeOK, SocketOK, [Next]_vars
  PROVE  SocketOK'
<1> USE BoundsAssumption
<1>0. /\ round \in 0..Rounds /\ svr_sock \in 0..Rounds /\ closes \in [1..Rounds -> Nat]
      /\ taken \in [Stoppers -> 0..Rounds]
      /\ stopper \in [Stoppers -> {"idle", "ready", "running", "asserted", "exchanged", "returned"}]
  BY DEF TypeOK, ListenerTypeOK, StoppersTypeOK, Listening
<1>1. CASE Bind
  BY <1>0, <1>1 DEF Bind, SocketOK, Listening, stopping
<1>2. CASE Start \/ Loop \/ AcceptAgain \/ AcceptError \/ CloseAfterError \/ Enqueue \/ Refuse \/ NotifyOne
             \/ Shutdown \/ NotifyAll \/ Joined \/ Return \/ (\E c \in Connections : Accept(c))
  <2>1. /\ round' = round /\ svr_sock' = svr_sock /\ closes' = closes /\ stopper' = stopper /\ taken' = taken
        /\ listener' # "close"
    BY <1>2 DEF Start, Loop, AcceptAgain, AcceptError, CloseAfterError, Enqueue, Refuse, NotifyOne, Shutdown,
                NotifyAll, Joined, Return, Accept, At, SocketOK, flags, stopping
  <2> QED BY <2>1 DEF SocketOK, Listening
<1>3. CASE (\E w \in Workers : Worker(w)) \/ (\E c \in Connections : Arrive(c)) \/ UNCHANGED vars
  <2>1. /\ round' = round /\ svr_sock' = svr_sock /\ closes' = closes /\ stopper' = stopper /\ taken' = taken
        /\ listener' = listener
    BY <1>3 DEF Worker, Sleep, Take, Leave, CheckGoes, CheckEnds, TimesOut, Serve, CloseConnection, Works, Arrive,
                vars, accepting, flags, stopping
  <2> QED BY <2>1, SMTT(30) DEF SocketOK, Listening
<1>4. ASSUME NEW s \in Stoppers, Ready(s) \/ IsRunning(s) \/ StopAsserts(s) PROVE SocketOK'
  <2>1. /\ round' = round /\ svr_sock' = svr_sock /\ closes' = closes /\ taken' = taken /\ listener' = listener
        /\ \A t \in Stoppers : stopper'[t] = "exchanged" => stopper[t] = "exchanged"
    BY <1>0, <1>4 DEF Ready, IsRunning, StopAsserts, Stops, accepting
  <2> QED BY <2>1 DEF SocketOK, Listening
<1>5. ASSUME NEW s \in Stoppers, Exchange(s) PROVE SocketOK'
  <2>1. /\ round' = round /\ svr_sock' = 0 /\ closes' = closes /\ listener' = listener
        /\ taken'[s] = svr_sock /\ \A t \in Stoppers \ {s} : taken'[t] = taken[t] /\ stopper'[t] = stopper[t]
    BY <1>0, <1>5 DEF Exchange, Stops, accepting
  <2>2. \A t \in Stoppers : taken'[t] <= round'
    BY <2>1 DEF SocketOK
  <2>3. \A t \in Stoppers : stopper'[t] = "exchanged" /\ taken'[t] # 0 => closes'[taken'[t]] = 0 /\ taken'[t] # svr_sock'
    BY <2>1 DEF SocketOK
  <2>4. \A t, u \in Stoppers : stopper'[t] = "exchanged" /\ stopper'[u] = "exchanged" /\ taken'[t] = taken'[u] /\ taken'[t] # 0
                            => t = u
    BY <2>1 DEF SocketOK
  <2> QED BY <1>0, <2>1, <2>2, <2>3, <2>4 DEF SocketOK, Listening
<1>6. ASSUME NEW s \in Stoppers, Close(s) PROVE SocketOK'
  <2>1. /\ round' = round /\ svr_sock' = svr_sock /\ taken' = taken /\ listener' = listener /\ stopper[s] = "exchanged"
        /\ \A t \in Stoppers : stopper'[t] = "exchanged" => t # s /\ stopper[t] = "exchanged"
    BY <1>0, <1>6 DEF Close, Stops, accepting
  <2>2. CASE taken[s] = 0
    <3>1. closes' = closes
      BY <1>6, <2>2 DEF Close
    <3> QED BY <2>1, <3>1 DEF SocketOK, Listening
  <2>3. CASE taken[s] # 0
    <3>1. taken[s] \in 1..Rounds /\ closes' = [closes EXCEPT ![taken[s]] = closes[taken[s]] + 1]
      BY <1>0, <1>6, <2>3 DEF Close, CloseListening
    <3>2. closes'[taken[s]] = 1 /\ \A n \in 1..Rounds : n # taken[s] => closes'[n] = closes[n]
      BY <1>0, <2>1, <2>3, <3>1 DEF SocketOK
    <3>3. \A n \in Listening : closes'[n] <= 1 /\ (n > round' => closes'[n] = 0)
      BY <1>0, <2>1, <3>2 DEF SocketOK, Listening
    <3>4. svr_sock' # 0 => closes'[svr_sock'] = 0
      BY <1>0, <2>1, <2>3, <3>2 DEF SocketOK
    <3>5. \A t \in Stoppers : stopper'[t] = "exchanged" /\ taken'[t] # 0 => closes'[taken'[t]] = 0 /\ taken'[t] # svr_sock'
      BY <1>0, <2>1, <2>3, <3>2 DEF SocketOK
    <3> QED BY <2>1, <3>3, <3>4, <3>5 DEF SocketOK
  <2> QED BY <2>2, <2>3
<1> QED BY <1>1, <1>2, <1>3, <1>4, <1>5, <1>6 DEF Next, Listener, Proceed, Stop

(* However many threads stop the server, and however often it listens: no   *)
(* listening socket is closed twice, as long as accept does not fail under  *)
(* the listener, which would then close it too.                            *)
THEOREM SocketsAreClosedOnce == ~AcceptFails /\ Spec => []ClosedOnce
<1> SUFFICES ASSUME ~AcceptFails PROVE Spec => []ClosedOnce
  OBVIOUS
<1>1. Init => SocketOK
  BY BoundsAssumption DEF Init, SocketOK, Listening
<1>2. TypeOK /\ SocketOK /\ [Next]_vars => SocketOK'
  BY SocketStep
<1>3. SocketOK => ClosedOnce
  BY DEF SocketOK, ClosedOnce
<1> QED BY <1>1, <1>2, <1>3, TypeCorrect, PTL DEF Spec

(* A server that listens once: the listener goes towards its end only       *)
(* without the socket, and who has waited for it to be ready comes neither  *)
(* before it nor between its socket and its loop.                          *)
Running == {"loop", "accept", "close", "enqueue", "notify", "shutdown", "notify_all", "join"}
ReadyOK ==
  /\ is_running <=> listener \in Running
  /\ listener \in {"idle", "shutdown", "notify_all", "join", "leave"} => svr_sock = 0
  /\ round = 0 => listener = "idle" /\ done # TRUE
  /\ listener = "bound" => done # TRUE
  /\ WaitFirst => \A s \in Stoppers : stopper[s] # "idle" => round # 0 /\ listener # "bound"
  /\ WaitFirst => \A s \in Stoppers : stopper[s] \in {"exchanged", "returned"} => svr_sock = 0

LEMMA ReadyStep ==
  ASSUME ~AcceptFails, Rounds = 1, TypeOK, SocketOK, ReadyOK, [Next]_vars
  PROVE  ReadyOK'
<1>0. /\ round \in {0, 1} /\ stopper \in [Stoppers -> {"idle", "ready", "running", "asserted", "exchanged", "returned"}]
      /\ listener # "close"
  BY DEF TypeOK, ListenerTypeOK, StoppersTypeOK, SocketOK
<1>1. CASE Bind
  <2>1. round = 0 /\ round' = 1 /\ is_running' = is_running /\ listener' \in {"idle", "bound"}
        /\ listener = "idle" /\ stopper' = stopper
    BY <1>0, <1>1 DEF Bind, stopping
  <2>2. (listener' = "idle" => svr_sock' = 0) /\ (listener' = "bound" => done' = done)
    BY <1>1 DEF Bind
  <2>3. is_running' <=> listener' \in Running
    BY <2>1 DEF ReadyOK, Running
  <2>4. WaitFirst => \A s \in Stoppers : stopper'[s] = "idle"
    BY <2>1 DEF ReadyOK
  <2>5. listener' = "bound" => done' # TRUE
    BY <2>1, <2>2 DEF ReadyOK
  <2>6. listener' \in {"idle", "shutdown", "notify_all", "join", "leave"} => svr_sock' = 0
    BY <2>1, <2>2
  <2>7. WaitFirst => \A s \in Stoppers : stopper'[s] \in {"exchanged", "returned"} => svr_sock' = 0
    BY <2>4
  <2>8. WaitFirst => \A s \in Stoppers : stopper'[s] # "idle" => round' # 0 /\ listener' # "bound"
    BY <2>4
  <2>9. round' # 0
    BY <2>1
  <2> QED BY <2>3, <2>5, <2>6, <2>7, <2>8, <2>9 DEF ReadyOK
<1>2. CASE Start \/ Loop \/ AcceptAgain \/ AcceptError \/ Enqueue \/ Refuse \/ NotifyOne
             \/ Shutdown \/ NotifyAll \/ Joined \/ Return \/ (\E c \in Connections : Accept(c))
  <2>1. round' = round /\ svr_sock' = svr_sock /\ stopper' = stopper
    BY <1>2 DEF Start, Loop, AcceptAgain, AcceptError, Enqueue, Refuse, NotifyOne, Shutdown,
                NotifyAll, Joined, Return, Accept, At, flags, stopping
  <2>2. listener' # "bound"
    BY <1>2 DEF Start, Loop, AcceptAgain, AcceptError, Enqueue, Refuse, NotifyOne, Shutdown,
                NotifyAll, Joined, Return, Accept, At
  <2>3. is_running' <=> listener' \in Running
    BY <1>2 DEF Start, Loop, AcceptAgain, AcceptError, Enqueue, Refuse, NotifyOne, Shutdown,
                NotifyAll, Joined, Return, Accept, At, ReadyOK, Running, flags
  <2>4. listener' \in {"idle", "shutdown", "notify_all", "join", "leave"} => svr_sock' = 0
    BY <1>2, <2>1 DEF Start, Loop, AcceptAgain, AcceptError, Enqueue, Refuse, NotifyOne, Shutdown,
                NotifyAll, Joined, Return, Accept, At, ReadyOK
  <2>5. round' # 0
    BY <1>2, <2>1 DEF Start, Loop, AcceptAgain, AcceptError, Enqueue, Refuse, NotifyOne, Shutdown,
                NotifyAll, Joined, Return, Accept, At, ReadyOK
  <2> QED BY <2>1, <2>2, <2>3, <2>4, <2>5 DEF ReadyOK
<1>3. CASE (\E w \in Workers : Worker(w)) \/ (\E c \in Connections : Arrive(c)) \/ UNCHANGED vars
  <2>1. /\ round' = round /\ svr_sock' = svr_sock /\ is_running' = is_running /\ done' = done
        /\ stopper' = stopper /\ listener' = listener
    BY <1>3 DEF Worker, Sleep, Take, Leave, CheckGoes, CheckEnds, TimesOut, Serve, CloseConnection, Works, Arrive,
                vars, accepting, flags, stopping
  <2> QED BY <2>1 DEF ReadyOK
<1>4. ASSUME NEW s \in Stoppers, Stop(s) PROVE ReadyOK'
  <2>1. /\ round' = round /\ is_running' = is_running /\ done' = done /\ listener' = listener
        /\ \A t \in Stoppers \ {s} : stopper'[t] = stopper[t]
    BY <1>0, <1>4 DEF Stop, Ready, IsRunning, StopAsserts, Exchange, Close, Stops, accepting
  <2>2. svr_sock' = svr_sock \/ svr_sock' = 0
    BY <1>4 DEF Stop, Ready, IsRunning, StopAsserts, Exchange, Close
  <2>3. WaitFirst => round # 0 /\ listener # "bound"
    <3>1. CASE stopper[s] = "idle"
      BY <1>4, <3>1 DEF Stop, Ready, IsRunning, StopAsserts, Exchange, Close, Stops, ReadyOK, Running
    <3>2. CASE stopper[s] # "idle"
      BY <3>2 DEF ReadyOK
    <3> QED BY <3>1, <3>2
  <2>4. WaitFirst /\ stopper'[s] \in {"exchanged", "returned"} => svr_sock' = 0
    <3>1. CASE Ready(s) \/ StopAsserts(s)
      BY <1>0, <3>1 DEF Ready, StopAsserts, Stops
    <3>2. CASE IsRunning(s)
      <4>1. is_running \/ listener \in {"idle", "leave", "bound"}
        BY DEF ReadyOK, Running, TypeOK, ListenerTypeOK
      <4> QED BY <1>0, <2>3, <3>2, <4>1 DEF IsRunning, Stops, ReadyOK
    <3>3. CASE Exchange(s)
      BY <3>3 DEF Exchange
    <3>4. CASE Close(s)
      BY <3>4 DEF Close, Stops, ReadyOK
    <3> QED BY <1>4, <3>1, <3>2, <3>3, <3>4 DEF Stop
  <2> QED BY <2>1, <2>2, <2>3, <2>4 DEF ReadyOK
<1>5. CASE CloseAfterError
  BY <1>0, <1>5 DEF CloseAfterError, At
<1> QED BY <1>1, <1>2, <1>3, <1>4, <1>5 DEF Next, Listener, Proceed

(* However many threads stop a server that listens once: its socket is      *)
(* closed once, and a stop that waited for it to be ready is never lost.    *)
THEOREM TheSocketIsOwned == ~AcceptFails /\ Rounds = 1 /\ Spec => []SocketOwned
<1> SUFFICES ASSUME ~AcceptFails, Rounds = 1 PROVE Spec => []SocketOwned
  OBVIOUS
<1>1. Init => SocketOK /\ ReadyOK
  <2>1. Init => SocketOK
    BY DEF Init, SocketOK, Listening
  <2>2. Init => ReadyOK
    BY DEF Init, ReadyOK, Running
  <2> QED BY <2>1, <2>2
<1>2. TypeOK /\ SocketOK /\ ReadyOK /\ [Next]_vars => SocketOK' /\ ReadyOK'
  BY SocketStep, ReadyStep
<1>3. SocketOK /\ ReadyOK => SocketOwned
  BY DEF SocketOK, ReadyOK, SocketOwned, ClosedOnce, ReadyStopsHeeded
<1> QED BY <1>1, <1>2, <1>3, TypeCorrect, PTL DEF Spec

-----------------------------------------------------------------------------
(***************************************************************************)
(* The content of a message.  What is on its way is a run of the reader:   *)
(* item by item it goes from a state of its own to the next one.           *)
(***************************************************************************)
Items == [kind : {"size", "byte", "crlf", "trailer"}, n : Nat]
States == [reader : {"size", "byte", "crlf", "trailer", "over"}, left : Nat, count : Nat]

(* n bytes further; one item further.                                       *)
Onward(m, s, n) ==
  [reader |-> IF m = "chunked" /\ s.left = n THEN "crlf" ELSE "byte",
   left |-> IF m = "close" THEN s.left ELSE s.left - n,
   count |-> s.count + n]

OverByte(m, s, e, t) ==
  /\ e.kind = "byte" /\ e.n = s.count + 1 /\ (m # "close" => s.left > 0)
  /\ t = Onward(m, s, 1)

OverMark(m, s, e, t) ==
  /\ m = "chunked" /\ t.count = s.count
  /\ \/ /\ e.kind = "size" /\ (e.n = 0 => s.count = Length) /\ t.left = e.n
        /\ t.reader = (IF e.n = 0 THEN "trailer" ELSE "byte")
     \/ e.kind = "crlf" /\ t.reader = "size" /\ t.left = s.left
     \/ e.kind = "trailer" /\ s.count = Length /\ t.reader = "over" /\ t.left = s.left

Leads(m, s, e, t) == e.kind = s.reader /\ (OverByte(m, s, e, t) \/ OverMark(m, s, e, t))

Run(m, w, s, t, st) ==
  /\ st \in [0..Len(w) -> States] /\ st[0] = s /\ st[Len(w)] = t
  /\ \A i \in 1..Len(w) : Leads(m, st[i - 1], w[i], st[i])

Way(m, w, s, t) == \E st \in [0..Len(w) -> States] : Run(m, w, s, t, st)

-----------------------------------------------------------------------------
(* Nothing on the way leads nowhere; one item makes one step.               *)
LEMMA WayNone ==
  ASSUME NEW m, NEW s \in States
  PROVE  Way(m, <<>>, s, s)
<1>1. Run(m, <<>>, s, s, [i \in 0..0 |-> s])
  BY DEF Run
<1> QED BY <1>1 DEF Way

LEMMA WayEmpty ==
  ASSUME NEW m, NEW s, NEW t, Way(m, <<>>, s, t)
  PROVE  s = t
BY DEF Way, Run

LEMMA WayOne ==
  ASSUME NEW m, NEW e, NEW s \in States, NEW t \in States, Leads(m, s, e, t)
  PROVE  Way(m, <<e>>, s, t)
<1> DEFINE st == [i \in 0..1 |-> IF i = 0 THEN s ELSE t]
<1>1. Len(<<e>>) = 1 /\ <<e>>[1] = e
  OBVIOUS
<1>2. st \in [0..1 -> States] /\ st[0] = s /\ st[1] = t
  OBVIOUS
<1> HIDE DEF st
<1>3. \A i \in 1..1 : Leads(m, st[i - 1], <<e>>[i], st[i])
  <2> TAKE i \in 1..1
  <2>1. i = 1 /\ i - 1 = 0
    OBVIOUS
  <2> QED BY <1>1, <1>2, <2>1
<1> QED BY <1>1, <1>2, <1>3 DEF Way, Run

(* Two ways one after the other are a way.                                  *)
LEMMA WayJoin ==
  ASSUME NEW m, NEW v \in Seq(Items), NEW w \in Seq(Items), NEW s, NEW t, NEW u,
         Way(m, v, s, t), Way(m, w, t, u)
  PROVE  Way(m, v \o w, s, u)
<1> DEFINE a == Len(v)
           b == Len(w)
<1>1. a \in Nat /\ b \in Nat /\ Len(v \o w) = a + b
  BY ConcatProperties
<1>2. \A i \in 1..(a + b) : (v \o w)[i] = IF i <= a THEN v[i] ELSE w[i - a]
  BY ConcatProperties
<1>3. PICK p \in [0..a -> States] : Run(m, v, s, t, p)
  BY DEF Way
<1>4. PICK q \in [0..b -> States] : Run(m, w, t, u, q)
  BY DEF Way
<1>5. /\ p[0] = s /\ p[a] = t /\ \A i \in 1..a : Leads(m, p[i - 1], v[i], p[i])
      /\ q[0] = t /\ q[b] = u /\ \A i \in 1..b : Leads(m, q[i - 1], w[i], q[i])
  BY <1>3, <1>4 DEF Run
<1> HIDE DEF a, b
<1> DEFINE st == [i \in 0..(a + b) |-> IF i <= a THEN p[i] ELSE q[i - a]]
<1>6. st \in [0..(a + b) -> States]
  BY <1>1
<1>7. \A i \in 0..a : st[i] = p[i]
  BY <1>1
<1>8. \A i \in 0..b : st[a + i] = q[i]
  <2> TAKE i \in 0..b
  <2>1. CASE i = 0
    BY <1>1, <1>5, <2>1
  <2>2. CASE i # 0
    <3>1. a + i \in 0..(a + b) /\ ~(a + i <= a) /\ (a + i) - a = i
      BY <1>1, <2>2
    <3> QED BY <3>1
  <2> QED BY <2>1, <2>2
<1> HIDE DEF st
<1>9. st[0] = s /\ st[a + b] = u
  BY <1>1, <1>5, <1>7, <1>8
<1>10. \A i \in 1..(a + b) : Leads(m, st[i - 1], (v \o w)[i], st[i])
  <2> TAKE i \in 1..(a + b)
  <2>1. CASE i <= a
    <3>1. i \in 1..a /\ i \in 0..a /\ i - 1 \in 0..a
      BY <1>1, <2>1
    <3>2. st[i] = p[i] /\ st[i - 1] = p[i - 1] /\ (v \o w)[i] = v[i]
      BY <3>1, <2>1, <1>2, <1>7
    <3> QED BY <3>1, <3>2, <1>5
  <2>2. CASE ~(i <= a)
    <3> DEFINE j == i - a
    <3>1. j \in 1..b /\ j \in 0..b /\ j - 1 \in 0..b /\ a + j = i /\ a + (j - 1) = i - 1
      BY <1>1, <2>2
    <3>2. st[i] = q[j] /\ st[i - 1] = q[j - 1]
      <4> HIDE DEF j
      <4> QED BY <3>1, <1>8
    <3>3. (v \o w)[i] = w[j]
      BY <1>2, <2>2
    <3> HIDE DEF j
    <3> QED BY <3>1, <3>2, <3>3, <1>5
  <2> QED BY <2>1, <2>2
<1>11. Run(m, v \o w, s, u, st)
  BY <1>1, <1>6, <1>9, <1>10 DEF Run
<1> QED BY <1>1, <1>6, <1>11 DEF Way

(* A way is cut anywhere.                                                  *)
LEMMA WayCut ==
  ASSUME NEW m, NEW w \in Seq(Items), NEW s, NEW u, NEW n \in 0..Len(w), Way(m, w, s, u)
  PROVE  \E t \in States : Way(m, SubSeq(w, 1, n), s, t) /\ Way(m, SubSeq(w, n + 1, Len(w)), t, u)
<1> DEFINE a == Len(w)
           v == SubSeq(w, 1, n)
           x == SubSeq(w, n + 1, a)
<1>1. a \in Nat /\ n \in 0..a
  OBVIOUS
<1>2. Len(v) = n /\ \A i \in 1..n : v[i] = w[i]
  <2>1. \A i \in 1..n : w[i] \in Items
    BY ElementOfSeq
  <2> QED BY <1>1, <2>1, SubSeqProperties
<1>3. Len(x) = a - n /\ \A i \in 1..(a - n) : x[i] = w[n + i]
  <2>1. \A i \in (n + 1)..a : w[i] \in Items
    BY ElementOfSeq
  <2>2. Len(x) = (IF n + 1 <= a THEN a - (n + 1) + 1 ELSE 0)
        /\ \A i \in 1..(a - (n + 1) + 1) : x[i] = w[(n + 1) + i - 1]
    BY <1>1, <2>1, SubSeqProperties
  <2> HIDE DEF a, x
  <2> QED BY <1>1, <2>2
<1>4. PICK p \in [0..a -> States] : Run(m, w, s, u, p)
  BY DEF Way
<1>5. p[0] = s /\ p[a] = u /\ \A i \in 1..a : Leads(m, p[i - 1], w[i], p[i])
  BY <1>4 DEF Run
<1> HIDE DEF a, v, x
<1>6. Way(m, v, s, p[n])
  <2> DEFINE q == [i \in 0..n |-> p[i]]
  <2>1. q \in [0..n -> States] /\ \A i \in 0..n : q[i] = p[i]
    BY <1>1
  <2> HIDE DEF q
  <2>2. \A i \in 1..n : Leads(m, q[i - 1], v[i], q[i])
    <3> TAKE i \in 1..n
    <3>1. i \in 0..n /\ i - 1 \in 0..n /\ i \in 1..a
      BY <1>1
    <3> QED BY <3>1, <2>1, <1>2, <1>5
  <2>3. q[0] = s /\ q[n] = p[n]
    BY <1>1, <1>5, <2>1
  <2> QED BY <1>2, <2>1, <2>2, <2>3 DEF Way, Run
<1>7. Way(m, x, p[n], u)
  <2> DEFINE b == a - n
             q == [i \in 0..b |-> p[n + i]]
  <2>1. b \in Nat /\ n + b = a /\ n \in Nat
    BY <1>1
  <2> HIDE DEF b
  <2>2. q \in [0..b -> States] /\ \A i \in 0..b : q[i] = p[n + i]
    BY <2>1
  <2> HIDE DEF q
  <2>3. \A i \in 1..b : Leads(m, q[i - 1], x[i], q[i])
    <3> TAKE i \in 1..b
    <3>1. i \in 0..b /\ i - 1 \in 0..b /\ n + i \in 1..a /\ n + (i - 1) = (n + i) - 1
      BY <2>1
    <3>2. x[i] = w[n + i]
      BY <1>3 DEF b
    <3>3. q[i] = p[n + i] /\ q[i - 1] = p[(n + i) - 1]
      BY <2>2, <3>1
    <3>4. Leads(m, p[(n + i) - 1], w[n + i], p[n + i])
      BY <1>5, <3>1
    <3> QED BY <3>2, <3>3, <3>4
  <2>4. q[0] = p[n] /\ q[b] = u
    BY <1>5, <2>1, <2>2
  <2>5. Len(x) = b
    BY <1>3 DEF b
  <2> QED BY <2>2, <2>3, <2>4, <2>5 DEF Way, Run
<1>8. p[n] \in States
  BY <1>1, <1>4
<1> QED BY <1>6, <1>7, <1>8 DEF v, x, a

(* The first item, and the way after it.                                    *)
LEMMA WayHead ==
  ASSUME NEW m, NEW w \in Seq(Items), NEW s, NEW u, w # <<>>, Way(m, w, s, u)
  PROVE  \E t \in States : Leads(m, s, Head(w), t) /\ Way(m, Tail(w), t, u)
<1>1. Len(w) \in Nat /\ Len(w) > 0 /\ 1 \in 0..Len(w)
  BY EmptySeq
<1>2. PICK t \in States : Way(m, SubSeq(w, 1, 1), s, t) /\ Way(m, SubSeq(w, 1 + 1, Len(w)), t, u)
  BY <1>1, WayCut
<1>3. Tail(w) = SubSeq(w, 1 + 1, Len(w))
  BY <1>1, TailIsSubSeq
<1>4. Leads(m, s, Head(w), t)
  <2> DEFINE h == SubSeq(w, 1, 1)
  <2>1. w[1] \in Items /\ Head(w) = w[1]
    BY <1>1
  <2>2. \A i \in 1..1 : w[i] \in Items
    BY <2>1
  <2>3. Len(h) = 1 /\ h[1] = w[1]
    BY <2>2, SubSeqProperties
  <2> HIDE DEF h
  <2>4. PICK p \in [0..Len(h) -> States] : Run(m, h, s, t, p)
    BY <1>2 DEF Way, h
  <2>5. p[0] = s /\ p[1] = t /\ Leads(m, p[1 - 1], h[1], p[1])
    BY <2>3, <2>4 DEF Run
  <2>6. 1 - 1 = 0
    OBVIOUS
  <2> QED BY <2>1, <2>3, <2>5, <2>6
<1> QED BY <1>2, <1>3, <1>4

(* Natural numbers of which something is false have a least one.            *)
LEMMA Least ==
  ASSUME NEW T \in SUBSET Nat, T # {}
  PROVE  \E x \in T : \A y \in T : x <= y
<1>1. \E x \in T : \A y \in T : ~(<<y, x>> \in OpToRel(<, Nat))
  BY WFMin, NatLessThanWellFounded
<1>2. \A x, y \in Nat : y < x => <<y, x>> \in OpToRel(<, Nat)
  <2> TAKE x, y \in Nat
  <2>1. <<y, x>> \in Nat \X Nat /\ <<y, x>>[1] = y /\ <<y, x>>[2] = x
    OBVIOUS
  <2> QED BY <2>1 DEF OpToRel
<1>3. PICK x \in T : \A y \in T : ~(<<y, x>> \in OpToRel(<, Nat))
  BY <1>1
<1>4. \A y \in T : ~(y < x)
  BY <1>2, <1>3
<1>5. T \subseteq Nat
  OBVIOUS
<1>6. \A y \in T : x <= y
  BY <1>4, <1>5
<1> QED BY <1>6

OneOn(c, l, y, x) == (c + y) + 1 = c + x /\ (l - y) - 1 = l - x /\ (l - y = 1 <=> l = x)
LEMMA OneFurther ==
  ASSUME NEW c \in Nat, NEW l \in Nat, NEW y \in Nat, NEW x, x = y + 1
  PROVE  OneOn(c, l, y, x)
BY DEF OneOn

(* A reader that meets nothing but bytes is that many bytes further, and    *)
(* has met them in order.                                                  *)
LEMMA WayOfBytes ==
  ASSUME NEW m, NEW w \in Seq(Items), NEW s \in States, NEW t, Way(m, w, s, t),
         w # <<>>, \A i \in 1..Len(w) : w[i].kind = "byte", m = "close" \/ Len(w) <= s.left
  PROVE  t = Onward(m, s, Len(w)) /\ s.reader = "byte" /\ \A i \in 1..Len(w) : w[i].n = s.count + i
<1> DEFINE a == Len(w)
<1>1. a \in Nat /\ a > 0
  BY EmptySeq
<1>2. PICK p \in [0..a -> States] : Run(m, w, s, t, p)
  BY DEF Way
<1>3. p[0] = s /\ p[a] = t /\ \A i \in 1..a : Leads(m, p[i - 1], w[i], p[i])
  BY <1>2 DEF Run
<1>4. m = "close" \/ a <= s.left
  OBVIOUS
<1>5. \A i \in 1..a : w[i].kind = "byte"
  OBVIOUS
<1> HIDE DEF a
<1>6. \A i \in 1..a : OverByte(m, p[i - 1], w[i], p[i])
  BY <1>3, <1>5 DEF Leads, OverMark
<1>7. s.count \in Nat /\ s.left \in Nat
  BY DEF States
<1> DEFINE Right(i) == p[i].count = s.count + i /\ (m # "close" => p[i].left = s.left - i)
                        /\ (m = "close" => p[i].left = s.left)
<1>8. \A i \in 0..a : Right(i)
  <2>1. ASSUME NEW j \in 0..a, ~Right(j) PROVE FALSE
    <3> DEFINE T == {i \in 0..a : ~Right(i)}
    <3>1. T \in SUBSET Nat /\ j \in T
      BY <1>1, <2>1
    <3>2. PICK x \in T : \A y \in T : x <= y
      BY <3>1, Least
    <3>3. x # 0
      BY <1>3, <1>7, <3>2
    <3> DEFINE y == x - 1
    <3>4. x \in 1..a /\ y \in 0..a /\ y + 1 = x
      BY <1>1, <3>2, <3>3
    <3>5. Right(y)
      <4>1. y \notin T
        BY <3>2, <3>4
      <4> QED BY <3>4, <4>1
    <3>6. p[x] = Onward(m, p[y], 1)
      BY <1>6, <3>4 DEF OverByte
    <3>7. Right(x)
      <4>1. p[x].count = p[y].count + 1 /\ p[x].left = IF m = "close" THEN p[y].left ELSE p[y].left - 1
        BY <3>6 DEF Onward
      <4>2. p[y].count = s.count + y /\ (m # "close" => p[y].left = s.left - y) /\ (m = "close" => p[y].left = s.left)
        BY <3>5
      <4>3. x \in Nat /\ y \in Nat /\ x = y + 1
        BY <1>1, <3>4
      <4> HIDE DEF y
      <4>4. OneOn(s.count, s.left, y, x)
        BY <1>7, <4>3, OneFurther
      <4> QED BY <4>1, <4>2, <4>4 DEF OneOn
    <3> QED BY <3>2, <3>7
  <2> QED BY <2>1
<1>9. \A i \in 1..a : w[i].n = s.count + i
  <2> TAKE i \in 1..a
  <2> DEFINE j == i - 1
  <2>1. j \in 0..a /\ i = j + 1
    BY <1>1
  <2>2. w[i].n = p[j].count + 1
    BY <1>6 DEF OverByte
  <2>3. p[j].count = s.count + j
    BY <2>1, <1>8
  <2> HIDE DEF j
  <2>4. OneOn(s.count, s.left, j, i)
    <3>1. j \in Nat
      BY <1>1, <2>1
    <3> QED BY <1>7, <2>1, <3>1, OneFurther
  <2> QED BY <2>2, <2>3, <2>4 DEF OneOn
<1>10. s.reader = "byte"
  <2>1. 1 \in 1..a /\ 1 - 1 = 0
    BY <1>1
  <2> QED BY <1>3, <1>5, <2>1 DEF Leads
<1>11. t = Onward(m, s, a)
  <2> DEFINE b == a - 1
  <2>1. a \in 1..a /\ b \in 0..a /\ a = b + 1
    BY <1>1
  <2>2. t = Onward(m, p[b], 1)
    BY <1>3, <1>6, <2>1 DEF OverByte
  <2>3. Right(b)
    BY <1>8, <2>1
  <2> HIDE DEF b
  <2>4. p[b].count = s.count + b /\ (m # "close" => p[b].left = s.left - b) /\ (m = "close" => p[b].left = s.left)
    BY <2>3
  <2>5. b \in Nat
    BY <1>1, <2>1
  <2>6. OneOn(s.count, s.left, b, a)
    BY <1>7, <2>1, <2>5, OneFurther
  <2> QED BY <2>2, <2>4, <2>6 DEF Onward, OneOn
<1> QED BY <1>9, <1>10, <1>11 DEF a

(* Bytes that a writer puts on the way take its reader along.               *)
LEMMA BytesAreAWay ==
  ASSUME NEW m \in {"length", "chunked", "close"}, NEW n \in Nat, n > 0, NEW s \in States, s.reader = "byte",
         m = "close" \/ n <= s.left
  PROVE  Way(m, Content!Bytes(s.count, n), s, Onward(m, s, n))
<1> DEFINE w == Content!Bytes(s.count, n)
           p == [i \in 0..n |-> IF i = 0 THEN s ELSE Onward(m, s, i)]
<1>1. Len(w) = n /\ \A i \in 1..n : w[i] = [kind |-> "byte", n |-> s.count + i]
  BY DEF Content!Bytes
<1>2. s.count \in Nat /\ s.left \in Nat
  BY DEF States
<1>3. \A i \in 1..n : Onward(m, s, i) \in States
  BY <1>2 DEF Onward, States
<1>4. p \in [0..n -> States]
  BY <1>3
<1>5. p[0] = s /\ \A i \in 1..n : p[i] = Onward(m, s, i)
  OBVIOUS
<1> HIDE DEF w, p
<1>6. ASSUME NEW i \in 1..n PROVE OverByte(m, p[i - 1], w[i], p[i]) /\ p[i - 1].reader = "byte"
  <2> DEFINE j == i - 1
  <2>1. j \in 0..n /\ i = j + 1 /\ j < n
    OBVIOUS
  <2> HIDE DEF j
  <2>2. /\ p[j].count = s.count + j /\ p[j].left = IF m = "close" THEN s.left ELSE s.left - j
        /\ p[j].reader = "byte"
    <3>1. CASE j = 0
      BY <1>2, <1>5, <3>1
    <3>2. CASE j # 0
      <4>1. p[j] = Onward(m, s, j)
        BY <1>5, <2>1, <3>2
      <4>2. ~(m = "chunked" /\ s.left = j)
        BY <1>2, <2>1
      <4> QED BY <4>1, <4>2 DEF Onward
    <3> QED BY <3>1, <3>2
  <2>3. w[i].kind = "byte" /\ w[i].n = p[j].count + 1 /\ (m # "close" => p[j].left > 0)
    BY <1>1, <1>2, <2>1, <2>2
  <2>4. p[i] = Onward(m, p[j], 1)
    <3>1. m # "close" => (p[j].left = 1 <=> s.left = i)
      BY <1>2, <2>1, <2>2
    <3>2. p[j].count + 1 = s.count + i /\ (m # "close" => p[j].left - 1 = s.left - i) /\ (m = "close" => p[j].left = s.left)
      BY <1>2, <2>1, <2>2
    <3>3. p[i] = Onward(m, s, i)
      BY <1>5
    <3> QED BY <3>1, <3>2, <3>3 DEF Onward
  <2>5. OverByte(m, p[j], w[i], p[i])
    BY <2>3, <2>4 DEF OverByte
  <2> QED BY <2>2, <2>5 DEF j
<1>7. \A i \in 1..n : Leads(m, p[i - 1], w[i], p[i])
  BY <1>1, <1>6 DEF Leads
<1>8. p[n] = Onward(m, s, n)
  BY <1>5
<1> QED BY <1>1, <1>4, <1>5, <1>7, <1>8 DEF Way, Run, w

-----------------------------------------------------------------------------
(* Where the reader is, and where a writer of k bytes wants to find it.     *)
Here == [reader |-> reader, left |-> left, count |-> Len(received)]
Between(m, k) ==
  [reader |-> IF m = "chunked" THEN "size" ELSE "byte",
   left |-> IF m = "length" THEN Length - k ELSE 0,
   count |-> k]

ReaderOK ==
  /\ mode = "length" => reader = "byte" /\ left = Length - Len(received)
  /\ mode = "close" => reader = "byte"
BytesWritten == \A i \in DOMAIN wire : wire[i].kind = "byte" => wire[i].n <= offset
OnItsWay ==
  \E t \in States :
    /\ Way(mode, wire, Here, t)
    /\ ~cut /\ writer = "writing" => t = Between(mode, offset)

ContentInv ==
  /\ Content!TypeOK /\ Content!InOrder /\ Content!ReadIsWhole
  /\ ReaderOK /\ BytesWritten /\ (result = "none" => OnItsWay)

LEMMA ContentConstants == Length \in Nat /\ Piece \in Nat /\ Piece > 0 /\ BufSize \in Nat /\ BufSize > 0
BY PartsAssumption DEF Content!Constants

LEMMA ContentTypes ==
  ASSUME Content!TypeOK
  PROVE  /\ mode \in {"length", "chunked", "close"} /\ offset \in Nat /\ offset <= Length
         /\ wire \in Seq(Items) /\ reader \in {"size", "byte", "crlf", "trailer"} /\ left \in Nat
         /\ received \in Seq(Nat) /\ Len(received) \in Nat /\ DOMAIN received = 1..Len(received)
         /\ Here \in States
<1>1. received \in Seq(Nat) /\ wire \in Seq(Items) /\ reader \in {"size", "byte", "crlf", "trailer"} /\ left \in Nat
  BY DEF Content!TypeOK, Items
<1>2. Len(received) \in Nat /\ DOMAIN received = 1..Len(received)
  BY <1>1
<1>3. Here \in States
  BY <1>1, <1>2 DEF Here, States
<1>4. mode \in {"length", "chunked", "close"} /\ offset \in Nat /\ offset <= Length
  BY ContentConstants DEF Content!TypeOK
<1> QED BY <1>1, <1>2, <1>3, <1>4

LEMMA BetweenType ==
  ASSUME NEW m, NEW k \in Nat, k <= Length
  PROVE  Between(m, k) \in States
BY ContentConstants DEF Between, States

LEMMA FewItems ==
  /\ <<>> \in Seq(Items) /\ DOMAIN <<>> = {}
  /\ \A e \in Items : <<e>> \in Seq(Items) /\ \A i \in DOMAIN <<e>> : <<e>>[i] = e
<1>1. <<>> \in Seq(Items) /\ DOMAIN <<>> = {}
  BY EmptySeq
<1>2. ASSUME NEW e \in Items PROVE <<e>> \in Seq(Items) /\ \A i \in DOMAIN <<e>> : <<e>>[i] = e
  OBVIOUS
<1> QED BY <1>1, <1>2

(* What the invariant says of the properties that are checked.              *)
LEMMA ContentMeans ==
  ContentInv => Content!TypeOK /\ Content!InOrder /\ Content!ReadIsWhole /\ Content!Understood
<1> SUFFICES ASSUME ContentInv PROVE Content!Understood
  BY DEF ContentInv
<1>1. ASSUME result = "none", wire # <<>> PROVE Head(wire).kind = reader
  <2>1. PICK t \in States : Way(mode, wire, Here, t)
    BY <1>1 DEF ContentInv, OnItsWay
  <2>2. wire \in Seq(Items)
    BY ContentTypes DEF ContentInv
  <2>3. PICK u \in States : Leads(mode, Here, Head(wire), u)
    BY <1>1, <2>1, <2>2, WayHead
  <2> QED BY <2>3 DEF Leads, Here
<1>2. Content!Understood
  BY <1>1 DEF Content!Understood
<1> QED BY <1>2

LEMMA ContentBegins == Content!Init => ContentInv
<1> SUFFICES ASSUME Content!Init PROVE ContentInv
  OBVIOUS
<1> USE ContentConstants DEF Content!Init
<1>1. Content!TypeOK
  <2>1. mode \in {"length", "chunked", "close"} /\ offset \in 0..Length
    OBVIOUS
  <2>2. {writer, result} \subseteq {"writing", "none", "true", "false"} /\ {down, cut} \subseteq BOOLEAN
    OBVIOUS
  <2>3. wire \in Seq([kind : {"size", "byte", "crlf", "trailer"}, n : Nat]) /\ received \in Seq(Nat)
    BY EmptySeq
  <2>4. reader \in {"size", "byte", "crlf", "trailer"} /\ left \in Nat
    OBVIOUS
  <2> QED BY <2>1, <2>2, <2>3, <2>4 DEF Content!TypeOK
<1>2. Content!InOrder /\ Content!ReadIsWhole /\ ReaderOK /\ BytesWritten
  BY DEF Content!InOrder, Content!ReadIsWhole, ReaderOK, BytesWritten
<1>3. OnItsWay
  <2>1. Here \in States /\ Here = Between(mode, offset)
    BY ContentTypes, <1>1 DEF Here, Between
  <2>2. Way(mode, wire, Here, Here)
    BY <2>1, WayNone
  <2> QED BY <2>1, <2>2 DEF OnItsWay
<1> QED BY <1>1, <1>2, <1>3 DEF ContentInv

(* Steps that move nothing.                                                 *)
LEMMA QuietStep ==
  ASSUME ContentInv, Content!WriteNothing \/ Content!Fail \/ Content!Interrupted \/ Content!StopServer \/ Content!Close
  PROVE  ContentInv'
<1>0. UNCHANGED <<mode, offset, wire, reader, left, received, result>>
  BY DEF Content!WriteNothing, Content!Fail, Content!Writing, Content!Interrupted, Content!StopServer, Content!Close, Content!sink,
         Content!source
<1>1. Content!TypeOK'
  BY <1>0 DEF ContentInv, Content!TypeOK, Content!WriteNothing, Content!Fail, Content!Writing, Content!Interrupted, Content!StopServer,
         Content!Close, Content!source
<1>2. (Content!InOrder /\ Content!ReadIsWhole /\ ReaderOK /\ BytesWritten)'
  BY <1>0 DEF ContentInv, Content!InOrder, Content!ReadIsWhole, ReaderOK, BytesWritten
<1>3. (~cut /\ writer = "writing")' => ~cut /\ writer = "writing"
  BY DEF Content!WriteNothing, Content!Fail, Content!Writing, Content!Interrupted, Content!StopServer, Content!Close, Content!source
<1>4. ASSUME result = "none" PROVE OnItsWay'
  <2>1. PICK t \in States : Way(mode, wire, Here, t) /\ (~cut /\ writer = "writing" => t = Between(mode, offset))
    BY <1>4 DEF ContentInv, OnItsWay
  <2>2. Here' = Here
    BY <1>0 DEF Here
  <2>3. Way(mode', wire', Here', t) /\ (~cut' /\ writer' = "writing" => t = Between(mode', offset'))
    BY <1>0, <1>3, <2>1, <2>2
  <2> QED BY <2>3 DEF OnItsWay
<1> QED BY <1>0, <1>1, <1>2, <1>4 DEF ContentInv

(* A piece is a way from where the last one ended to where the next begins. *)
LEMMA PieceIsAWay ==
  ASSUME NEW w \in Seq(Items), NEW s, Content!TypeOK, NEW n \in Nat, n > 0, offset + n <= Length,
         Way(mode, w, s, Between(mode, offset))
  PROVE  Way(mode, w \o Content!SizeMark(n) \o Content!Bytes(offset, n) \o Content!EndMark, s,
             Between(mode, offset + n))
<1> DEFINE k == offset
           m == mode
           b == Between(m, k)
           e == Between(m, k + n)
           s1 == IF m = "chunked" THEN [reader |-> "byte", left |-> n, count |-> k] ELSE b
           s2 == Onward(m, s1, n)
           A == Content!SizeMark(n)
           B == Content!Bytes(k, n)
           C == Content!EndMark
<1>1. m \in {"length", "chunked", "close"} /\ k \in Nat /\ k <= Length /\ k + n \in Nat
  BY ContentTypes
<1>2. b \in States /\ e \in States
  BY <1>1, BetweenType
<1>3. s1 \in States /\ s1.reader = "byte" /\ s1.count = k /\ (m = "close" \/ n <= s1.left)
  BY <1>1, <1>2, ContentConstants DEF States, Between
<1>4. s2 \in States /\ s2 = (IF m = "chunked" THEN [reader |-> "crlf", left |-> 0, count |-> k + n] ELSE e)
  <2>1. CASE m = "chunked"
    <3>1. s2 = [reader |-> "crlf", left |-> 0, count |-> k + n]
      BY <1>1, <2>1 DEF Onward
    <3> QED BY <1>1, <2>1, <3>1 DEF States
  <2>2. CASE m # "chunked"
    <3>1. s2 = e
      BY <1>1, <2>2, ContentConstants DEF Onward, Between
    <3> QED BY <1>2, <2>2, <3>1
  <2> QED BY <2>1, <2>2
<1>5. A \in Seq(Items) /\ B \in Seq(Items) /\ C \in Seq(Items)
  <2>1. A \in Seq(Items) /\ C \in Seq(Items)
    <3>1. [kind |-> "size", n |-> n] \in Items /\ [kind |-> "crlf", n |-> 0] \in Items
      BY DEF Items
    <3> HIDE DEF A, C
    <3>2. A = <<>> \/ A = <<[kind |-> "size", n |-> n]>>
      BY DEF A, Content!SizeMark, Content!Mark
    <3>3. C = <<>> \/ C = <<[kind |-> "crlf", n |-> 0]>>
      BY DEF C, Content!EndMark, Content!Mark
    <3> QED BY <3>1, <3>2, <3>3, FewItems
  <2>2. \A i \in 1..n : [kind |-> "byte", n |-> k + i] \in Items
    BY <1>1 DEF Items
  <2>3. B \in Seq(Items)
    BY <2>2 DEF Content!Bytes
  <2> QED BY <2>1, <2>3
<1>6. Way(m, A, b, s1)
  <2>1. CASE m = "chunked"
    <3> DEFINE x == [kind |-> "size", n |-> n]
    <3>1. A = <<x>>
      BY <2>1 DEF Content!SizeMark, Content!Mark
    <3>2. Leads(m, b, x, s1)
      BY <2>1, <1>1 DEF Leads, OverMark, Between
    <3> HIDE DEF x, s1, b
    <3> QED BY <1>2, <1>3, <3>1, <3>2, WayOne
  <2>2. CASE m # "chunked"
    <3>1. A = <<>> /\ s1 = b
      BY <2>2 DEF Content!SizeMark
    <3> HIDE DEF s1, b
    <3> QED BY <1>2, <3>1, WayNone
  <2> QED BY <2>1, <2>2
<1>7. Way(m, B, s1, s2)
  <2> HIDE DEF s1
  <2> QED BY <1>1, <1>3, BytesAreAWay
<1>8. Way(m, C, s2, e)
  <2>1. CASE m = "chunked"
    <3> DEFINE x == [kind |-> "crlf", n |-> 0]
    <3>1. C = <<x>>
      BY <2>1 DEF Content!EndMark, Content!Mark
    <3>2. s2.reader = "crlf" /\ s2.left = 0 /\ s2.count = k + n
      BY <2>1, <1>4
    <3>3. e.reader = "size" /\ e.left = 0 /\ e.count = k + n
      BY <2>1 DEF Between
    <3> HIDE DEF s2, e, C
    <3>4. Leads(m, s2, x, e)
      BY <2>1, <3>2, <3>3 DEF Leads, OverMark
    <3> HIDE DEF x
    <3> QED BY <1>2, <1>4, <3>1, <3>4, WayOne
  <2>2. CASE m # "chunked"
    <3>1. C = <<>>
      BY <2>2 DEF Content!EndMark
    <3>2. s2 = e
      BY <2>2, <1>4
    <3> HIDE DEF s2, e, C
    <3> QED BY <1>2, <3>1, <3>2, WayNone
  <2> QED BY <2>1, <2>2
<1> HIDE DEF s1, s2, A, B, C, e
<1>9. Way(m, w, s, b)
  OBVIOUS
<1> HIDE DEF b, m, k
<1>10. Way(m, w \o A, s, s1) /\ w \o A \in Seq(Items)
  BY <1>5, <1>6, <1>9, WayJoin, ConcatProperties
<1>11. Way(m, (w \o A) \o B, s, s2) /\ (w \o A) \o B \in Seq(Items)
  BY <1>5, <1>7, <1>10, WayJoin, ConcatProperties
<1>12. Way(m, ((w \o A) \o B) \o C, s, e)
  BY <1>5, <1>8, <1>11, WayJoin
<1> QED BY <1>12 DEF A, B, C, e, m, k
LEMMA WriteStep ==
  ASSUME ContentInv, NEW n \in 1..Piece, Content!WritePiece(n)
  PROVE  ContentInv'
<1> DEFINE A == Content!SizeMark(n)
           B == Content!Bytes(offset, n)
           C == Content!EndMark
<1>0. /\ writer = "writing" /\ ~cut /\ offset + n <= Length /\ offset' = offset + n
      /\ wire' = wire \o A \o B \o C
      /\ UNCHANGED <<mode, down, cut, reader, left, received, result, writer>>
  BY DEF Content!WritePiece, Content!Writing, Content!sink
<1>1. /\ offset \in Nat /\ wire \in Seq(Items) /\ n \in Nat /\ n > 0 /\ offset' \in 0..Length
      /\ Len(received) \in Nat
  BY <1>0, ContentTypes, ContentConstants DEF ContentInv
<1>2. /\ wire' \in Seq(Items)
      /\ \A i \in DOMAIN wire' : wire'[i].kind = "byte" => wire'[i].n <= offset'
  <2>1. A \in Seq(Items) /\ (\A i \in DOMAIN A : A[i].kind # "byte")
    <3>1. [kind |-> "size", n |-> n] \in Items
      BY <1>1 DEF Items
    <3> HIDE DEF A
    <3> DEFINE x == [kind |-> "size", n |-> n]
    <3>2. A = <<>> \/ A = <<x>>
      BY DEF A, Content!SizeMark, Content!Mark
    <3>3. x.kind # "byte"
      OBVIOUS
    <3> HIDE DEF x
    <3> QED BY <3>1, <3>2, <3>3, FewItems DEF x
  <2>2. C \in Seq(Items) /\ (\A i \in DOMAIN C : C[i].kind # "byte")
    <3>1. [kind |-> "crlf", n |-> 0] \in Items
      BY <1>1 DEF Items
    <3> HIDE DEF C
    <3> DEFINE x == [kind |-> "crlf", n |-> 0]
    <3>2. C = <<>> \/ C = <<x>>
      BY DEF C, Content!EndMark, Content!Mark
    <3>3. x.kind # "byte"
      OBVIOUS
    <3> HIDE DEF x
    <3> QED BY <3>1, <3>2, <3>3, FewItems DEF x
  <2>3. B \in Seq(Items) /\ (\A i \in DOMAIN B : B[i].n <= offset')
    <3>1. \A i \in 1..n : [kind |-> "byte", n |-> offset + i] \in Items /\ offset + i <= offset'
      BY <1>0, <1>1 DEF Items
    <3> QED BY <3>1 DEF Content!Bytes
  <2>4. \A i \in DOMAIN wire : wire[i].kind = "byte" => wire[i].n <= offset'
    <3> SUFFICES ASSUME NEW i \in DOMAIN wire, wire[i].kind = "byte" PROVE wire[i].n <= offset'
      OBVIOUS
    <3>1. wire[i] \in Items /\ wire[i].n <= offset
      BY <1>1 DEF ContentInv, BytesWritten
    <3> QED BY <1>0, <1>1, <3>1 DEF Items
  <2> HIDE DEF A, B, C
  <2> DEFINE Known(w) == \A i \in DOMAIN w : w[i].kind = "byte" => w[i].n <= offset'
  <2>5. ASSUME NEW v \in Seq(Items), NEW w \in Seq(Items), Known(v), Known(w)
        PROVE  v \o w \in Seq(Items) /\ Known(v \o w)
    <3> DEFINE a == Len(v)
               b == Len(w)
               x == v \o w
    <3>1. a \in Nat /\ b \in Nat /\ DOMAIN v = 1..a /\ DOMAIN w = 1..b
      OBVIOUS
    <3>2. x \in Seq(Items) /\ DOMAIN x = 1..(a + b)
          /\ \A i \in 1..(a + b) : x[i] = IF i <= a THEN v[i] ELSE w[i - a]
      BY ConcatProperties
    <3> HIDE DEF a, b, x
    <3>3. ASSUME NEW i \in 1..(a + b), x[i].kind = "byte" PROVE x[i].n <= offset'
      <4>1. CASE i <= a
        BY <2>5, <3>1, <3>2, <3>3, <4>1
      <4>2. CASE ~(i <= a)
        <5>1. i - a \in 1..b
          BY <3>1, <4>2
        <5> QED BY <2>5, <3>1, <3>2, <3>3, <4>2, <5>1
      <4> QED BY <4>1, <4>2
    <3>4. Known(x)
      BY <3>2, <3>3
    <3> QED BY <3>2, <3>4 DEF x
  <2>6. Known(A) /\ Known(B) /\ Known(C) /\ Known(wire)
    BY <2>1, <2>2, <2>3, <2>4
  <2> HIDE DEF Known
  <2>7. wire \o A \in Seq(Items) /\ Known(wire \o A)
    BY <1>1, <2>1, <2>5, <2>6
  <2>8. (wire \o A) \o B \in Seq(Items) /\ Known((wire \o A) \o B)
    BY <2>3, <2>5, <2>6, <2>7
  <2>9. ((wire \o A) \o B) \o C \in Seq(Items) /\ Known(((wire \o A) \o B) \o C)
    BY <2>2, <2>5, <2>6, <2>8
  <2> QED BY <1>0, <2>9 DEF Known
<1>3. Content!TypeOK'
  BY <1>0, <1>1, <1>2 DEF Content!TypeOK, ContentInv, Items
<1>4. (Content!InOrder /\ Content!ReadIsWhole /\ ReaderOK /\ BytesWritten)'
  <2>1. Content!InOrder'
    BY <1>0, <1>1 DEF ContentInv, Content!InOrder
  <2>2. (Content!ReadIsWhole /\ ReaderOK /\ BytesWritten)'
    BY <1>0, <1>2 DEF ContentInv, Content!ReadIsWhole, ReaderOK, BytesWritten
  <2> QED BY <2>1, <2>2
<1>5. ASSUME result = "none" PROVE OnItsWay'
  <2>1. Way(mode, wire, Here, Between(mode, offset))
    BY <1>0, <1>5 DEF ContentInv, OnItsWay
  <2> HIDE DEF A, B, C
  <2>2. Way(mode, wire \o A \o B \o C, Here, Between(mode, offset + n))
    BY <1>0, <1>1, <2>1, PieceIsAWay DEF ContentInv, A, B, C
  <2>3. Here' = Here
    BY <1>0 DEF Here
  <2>4. Way(mode', wire', Here', Between(mode', offset'))
    BY <1>0, <2>2, <2>3
  <2>5. Between(mode', offset') \in States
    BY <1>1, BetweenType
  <2> QED BY <2>4, <2>5 DEF OnItsWay
<1> QED BY <1>0, <1>3, <1>4, <1>5 DEF ContentInv
(* The end of the chunks leads the reader over all of the content.          *)
LEMMA DoneStep ==
  ASSUME ContentInv, Content!Done
  PROVE  ContentInv'
<1> DEFINE x == [kind |-> "size", n |-> 0]
           y == [kind |-> "trailer", n |-> 0]
           end == [reader |-> "over", left |-> 0, count |-> Length]
           mid == [reader |-> "trailer", left |-> 0, count |-> Length]
<1>0. /\ ~cut /\ writer = "writing" /\ offset = Length /\ writer' = "true"
      /\ UNCHANGED <<mode, down, cut, reader, left, received, result, offset>>
      /\ wire' = IF mode = "chunked" THEN wire \o <<x>> \o <<y>> ELSE wire
  BY DEF Content!Done, Content!Writing, Content!sink, Content!Mark
<1>1. offset \in Nat /\ wire \in Seq(Items) /\ mode \in {"length", "chunked", "close"}
  BY ContentTypes DEF ContentInv
<1>2. x \in Items /\ y \in Items /\ x.kind = "size" /\ x.n = 0 /\ y.kind = "trailer"
  BY DEF Items
<1>3. end \in States /\ mid \in States
  BY ContentConstants DEF States
<1>4. mode = "chunked" => Leads(mode, Between(mode, offset), x, mid) /\ Leads(mode, mid, y, end)
  BY <1>0 DEF Leads, OverMark, Between
<1> HIDE DEF x, y, end, mid
<1>5. /\ wire' \in Seq(Items)
      /\ \A i \in DOMAIN wire' : wire'[i].kind = "byte" => wire'[i].n <= offset
  <2> DEFINE Known(w) == \A i \in DOMAIN w : w[i].kind = "byte" => w[i].n <= offset
  <2>1. ASSUME NEW v \in Seq(Items), NEW e \in Items, e.kind # "byte", Known(v)
        PROVE  v \o <<e>> \in Seq(Items) /\ Known(v \o <<e>>)
    <3> DEFINE a == Len(v)
               z == v \o <<e>>
    <3>1. <<e>> \in Seq(Items) /\ Len(<<e>>) = 1 /\ <<e>>[1] = e /\ a \in Nat /\ DOMAIN v = 1..a
      BY FewItems
    <3>2. z \in Seq(Items) /\ DOMAIN z = 1..(a + 1)
          /\ \A i \in 1..(a + 1) : z[i] = IF i <= a THEN v[i] ELSE <<e>>[i - a]
      BY <3>1, ConcatProperties
    <3> HIDE DEF a, z
    <3>3. ASSUME NEW i \in 1..(a + 1), z[i].kind = "byte" PROVE z[i].n <= offset
      <4>1. CASE i <= a
        BY <2>1, <3>1, <3>2, <3>3, <4>1
      <4>2. CASE ~(i <= a)
        <5>1. i - a = 1
          BY <3>1, <4>2
        <5> QED BY <2>1, <3>1, <3>2, <3>3, <4>2, <5>1
      <4> QED BY <4>1, <4>2
    <3>4. Known(z)
      BY <3>2, <3>3
    <3> QED BY <3>2, <3>4 DEF z
  <2>2. Known(wire)
    BY DEF ContentInv, BytesWritten
  <2> HIDE DEF Known
  <2>3. wire \o <<x>> \in Seq(Items) /\ Known(wire \o <<x>>)
    BY <1>1, <1>2, <2>1, <2>2
  <2>4. (wire \o <<x>>) \o <<y>> \in Seq(Items) /\ Known((wire \o <<x>>) \o <<y>>)
    BY <1>2, <2>1, <2>3
  <2>5. wire' \in Seq(Items) /\ Known(wire')
    BY <1>0, <1>1, <2>2, <2>4
  <2> QED BY <2>5 DEF Known
<1>6. Content!TypeOK'
  BY <1>0, <1>1, <1>5 DEF Content!TypeOK, ContentInv, Items
<1>7. (Content!InOrder /\ Content!ReadIsWhole /\ ReaderOK /\ BytesWritten)'
  BY <1>0, <1>5 DEF ContentInv, Content!InOrder, Content!ReadIsWhole, ReaderOK, BytesWritten
<1>8. ASSUME result = "none" PROVE OnItsWay'
  <2>1. Way(mode, wire, Here, Between(mode, offset)) /\ Here' = Here /\ Between(mode, offset) \in States
    BY <1>0, <1>1, <1>8, BetweenType DEF ContentInv, OnItsWay, Here
  <2>2. CASE mode = "chunked"
    <3>1. <<x>> \in Seq(Items) /\ <<y>> \in Seq(Items)
      BY <1>2
    <3>2. Way(mode, <<x>>, Between(mode, offset), mid) /\ Way(mode, <<y>>, mid, end)
      BY <1>3, <1>4, <2>1, <2>2, WayOne
    <3>3. Way(mode, wire \o <<x>>, Here, mid) /\ wire \o <<x>> \in Seq(Items)
      BY <1>1, <2>1, <3>1, <3>2, WayJoin, ConcatProperties
    <3>4. Way(mode, (wire \o <<x>>) \o <<y>>, Here, end)
      BY <3>1, <3>2, <3>3, WayJoin
    <3>5. Way(mode', wire', Here', end)
      BY <1>0, <2>1, <2>2, <3>4
    <3>6. writer' # "writing"
      BY <1>0
    <3> QED BY <1>3, <3>5, <3>6 DEF OnItsWay
  <2>3. CASE mode # "chunked"
    <3>1. Way(mode', wire', Here', Between(mode, offset)) /\ writer' # "writing"
      BY <1>0, <2>1, <2>3
    <3> QED BY <2>1, <3>1 DEF OnItsWay
  <2> QED BY <2>2, <2>3
<1> QED BY <1>0, <1>6, <1>7, <1>8 DEF ContentInv

(* The beginning of what was on its way, and the rest of it.                *)
LEMMA PartsOfWire ==
  ASSUME ContentInv, NEW n \in 0..Len(wire)
  PROVE  /\ SubSeq(wire, 1, n) \in Seq(Items) /\ Len(SubSeq(wire, 1, n)) = n
         /\ \A i \in 1..n : SubSeq(wire, 1, n)[i] = wire[i]
         /\ SubSeq(wire, n + 1, Len(wire)) \in Seq(Items)
         /\ \A i \in DOMAIN SubSeq(wire, n + 1, Len(wire)) :
              n + i \in DOMAIN wire /\ SubSeq(wire, n + 1, Len(wire))[i] = wire[n + i]
<1> DEFINE a == Len(wire)
           x == SubSeq(wire, n + 1, a)
<1>1. a \in Nat /\ n \in Nat /\ n <= a /\ DOMAIN wire = 1..a /\ \A i \in 1..a : wire[i] \in Items
  BY ContentTypes, ElementOfSeq DEF ContentInv
<1> HIDE DEF a
<1>2. \A i \in 1..n : wire[i] \in Items
  BY <1>1
<1>3. \A i \in (n + 1)..a : wire[i] \in Items
  BY <1>1
<1>4. /\ SubSeq(wire, 1, n) \in Seq(Items) /\ Len(SubSeq(wire, 1, n)) = n
      /\ \A i \in 1..n : SubSeq(wire, 1, n)[i] = wire[i]
  BY <1>1, <1>2, SubSeqProperties
<1>5. /\ x \in Seq(Items) /\ Len(x) = (IF n + 1 <= a THEN a - (n + 1) + 1 ELSE 0)
      /\ \A i \in 1..(a - (n + 1) + 1) : x[i] = wire[(n + 1) + i - 1]
  BY <1>1, <1>3, SubSeqProperties
<1>6. DOMAIN x = 1..Len(x)
  BY <1>5
<1> HIDE DEF x
<1>7. Len(x) = a - n
  BY <1>1, <1>5
<1>8. \A i \in DOMAIN x : n + i \in DOMAIN wire /\ x[i] = wire[n + i]
  BY <1>1, <1>5, <1>6, <1>7
<1> QED BY <1>4, <1>5, <1>8 DEF x, a

(* Where the connection breaks, a way is left.                              *)
LEMMA BreakStep ==
  ASSUME ContentInv, Content!Break
  PROVE  ContentInv'
<1>0. /\ cut' = TRUE /\ writer' \in {writer, "false"}
      /\ UNCHANGED <<mode, offset, down, reader, left, received, result>>
  BY DEF Content!Break, Content!sink
<1>1. PICK n \in 0..Len(wire) : wire' = SubSeq(wire, 1, n)
  BY DEF Content!Break
<1>2. wire \in Seq(Items) /\ Len(wire) \in Nat /\ DOMAIN wire = 1..Len(wire)
  BY ContentTypes DEF ContentInv
<1>3. wire' \in Seq(Items) /\ \A i \in DOMAIN wire' : i \in DOMAIN wire /\ wire'[i] = wire[i]
  <2>1. wire' \in Seq(Items) /\ Len(wire') = n /\ \A i \in 1..n : wire'[i] = wire[i]
    BY <1>1, PartsOfWire
  <2>2. DOMAIN wire' = 1..n
    BY <2>1
  <2> QED BY <1>2, <2>1, <2>2
<1>4. Content!TypeOK'
  BY <1>0, <1>3 DEF Content!TypeOK, ContentInv, Items
<1>5. (Content!InOrder /\ Content!ReadIsWhole /\ ReaderOK /\ BytesWritten)'
  BY <1>0, <1>3 DEF ContentInv, Content!InOrder, Content!ReadIsWhole, ReaderOK, BytesWritten
<1>6. ASSUME result = "none" PROVE OnItsWay'
  <2>1. PICK t \in States : Way(mode, wire, Here, t)
    BY <1>6 DEF ContentInv, OnItsWay
  <2>2. PICK u \in States : Way(mode, SubSeq(wire, 1, n), Here, u)
    BY <1>2, <2>1, WayCut
  <2>3. Way(mode', wire', Here', u) /\ cut'
    BY <1>0, <1>1, <2>2 DEF Here
  <2> QED BY <2>3 DEF OnItsWay
<1> QED BY <1>0, <1>4, <1>5, <1>6 DEF ContentInv
(* A read hands on the bytes that come next, and goes on where they end.    *)
LEMMA ReadBytesStep ==
  ASSUME ContentInv, NEW n \in 1..BufSize, Content!ReadBytes(n)
  PROVE  ContentInv'
<1> DEFINE v == SubSeq(wire, 1, n)
           c == Len(received)
           f == [i \in 1..n |-> wire[i].n]
           a == Len(wire)
<1>0. /\ result = "none" /\ reader = "byte" /\ UNCHANGED <<mode, offset, writer, down, cut, result>>
      /\ (mode # "close" => n <= left) /\ n <= a /\ (\A i \in 1..n : wire[i].kind = "byte")
      /\ received' = received \o f /\ wire' = SubSeq(wire, n + 1, a)
      /\ mode = "close" => UNCHANGED <<left, reader>>
      /\ mode # "close" => left' = left - n /\ reader' = IF left' = 0 /\ mode = "chunked" THEN "crlf" ELSE "byte"
  <2>1. n \in 1..(IF mode = "close" THEN BufSize ELSE IF left < BufSize THEN left ELSE BufSize)
    BY DEF Content!ReadBytes, Content!Take, Content!Expecting
  <2>2. left \in Nat /\ mode \in {"length", "chunked", "close"}
    BY ContentTypes DEF ContentInv
  <2>3. mode # "close" => n <= left
    BY <2>1, <2>2, ContentConstants
  <2> QED BY <2>2, <2>3 DEF Content!ReadBytes, Content!Reads, Content!Take, Content!Come, Content!source
<1>1. /\ n \in Nat /\ n > 0 /\ c \in Nat /\ left \in Nat /\ wire \in Seq(Items) /\ received \in Seq(Nat)
      /\ mode \in {"length", "chunked", "close"} /\ offset \in Nat /\ Here \in States /\ a \in Nat
  BY ContentTypes DEF ContentInv
<1>2. n \in 0..a
  BY <1>0, <1>1
<1>3. PICK t \in States :
        Way(mode, wire, Here, t) /\ (~cut /\ writer = "writing" => t = Between(mode, offset))
  BY <1>0 DEF ContentInv, OnItsWay
<1>4. PICK u \in States : Way(mode, v, Here, u) /\ Way(mode, SubSeq(wire, n + 1, a), u, t)
  BY <1>1, <1>2, <1>3, WayCut
<1>5. /\ v \in Seq(Items) /\ Len(v) = n /\ (\A i \in 1..n : v[i] = wire[i])
      /\ wire' \in Seq(Items) /\ (\A i \in DOMAIN wire' : n + i \in DOMAIN wire /\ wire'[i] = wire[n + i])
  BY <1>0, <1>2, PartsOfWire
<1>6. Here.left = left /\ Here.count = c /\ Here.reader = "byte"
  BY <1>0 DEF Here
<1> HIDE DEF v, a
<1>7. u = Onward(mode, Here, n) /\ \A i \in 1..n : v[i].n = c + i
  <2>1. Len(v) = n /\ v \in Seq(Items) /\ Here \in States /\ Way(mode, v, Here, u)
    BY <1>1, <1>4, <1>5
  <2>2. v # <<>>
    BY <1>1, <2>1
  <2>3. \A i \in 1..Len(v) : v[i].kind = "byte"
    BY <1>0, <1>5, <2>1
  <2>4. mode = "close" \/ Len(v) <= Here.left
    BY <1>0, <1>6, <2>1
  <2>5. u = Onward(mode, Here, Len(v)) /\ \A i \in 1..Len(v) : v[i].n = Here.count + i
    BY <2>1, <2>2, <2>3, <2>4, WayOfBytes
  <2> QED BY <1>6, <2>1, <2>5
<1>8. \A i \in 1..n : f[i] = c + i
  BY <1>5, <1>7
<1>9. f \in Seq(Nat) /\ Len(f) = n
  <2>1. \A i \in 1..n : c + i \in Nat
    BY <1>1
  <2>2. f \in [1..n -> Nat]
    BY <1>8, <2>1
  <2> HIDE DEF f
  <2>3. DOMAIN f = 1..n /\ f \in Seq(Nat)
    BY <1>1, <2>2
  <2> QED BY <1>1, <2>3
<1> HIDE DEF f
<1>10. /\ received' \in Seq(Nat) /\ Len(received') = c + n
       /\ \A i \in 1..(c + n) : received'[i] = IF i <= c THEN received[i] ELSE f[i - c]
  BY <1>0, <1>1, <1>9, ConcatProperties
<1>11. c + n <= offset
  <2>1. n \in 1..n /\ n \in DOMAIN wire /\ wire[n].kind = "byte" /\ wire[n].n = c + n
    BY <1>0, <1>1, <1>2, <1>5, <1>7 DEF a
  <2> QED BY <2>1 DEF ContentInv, BytesWritten
<1> HIDE DEF c
<1>12. Content!InOrder'
  <2>1. \A i \in 1..c : received[i] = i
    BY <1>1 DEF ContentInv, Content!InOrder, c
  <2>2. \A i \in 1..(c + n) : received'[i] = i
    <3> TAKE i \in 1..(c + n)
    <3>1. CASE i <= c
      <4>1. i \in 1..c
        BY <1>1, <3>1
      <4> QED BY <1>10, <2>1, <3>1, <4>1
    <3>2. CASE ~(i <= c)
      <4>1. i - c \in 1..n /\ c + (i - c) = i
        BY <1>1, <3>2
      <4>2. f[i - c] = c + (i - c)
        BY <1>8, <4>1
      <4> QED BY <1>10, <3>2, <4>1, <4>2
    <3> QED BY <3>1, <3>2
  <2>3. DOMAIN received' = 1..(c + n)
    BY <1>10
  <2> QED BY <1>0, <1>10, <1>11, <2>2, <2>3 DEF Content!InOrder
<1>13. Content!TypeOK'
  <2>1. left' \in Nat
    BY <1>0, <1>1
  <2>2. reader' \in {"size", "byte", "crlf", "trailer"}
    BY <1>0, <1>1
  <2> QED BY <1>0, <1>5, <1>10, <2>1, <2>2 DEF Content!TypeOK, ContentInv, Items
<1>14. Content!ReadIsWhole' /\ ReaderOK'
  <2>1. result' # "true"
    BY <1>0
  <2>2. mode = "length" => reader' = "byte" /\ left' = Length - (c + n)
    BY <1>0, <1>1, ContentConstants DEF ContentInv, ReaderOK, c
  <2> QED BY <1>0, <1>10, <2>1, <2>2 DEF Content!ReadIsWhole, ReaderOK
<1>15. BytesWritten'
  BY <1>0, <1>5 DEF ContentInv, BytesWritten
<1>16. OnItsWay'
  <2>1. Here' = u
    <3>1. Here' = [reader |-> reader', left |-> left', count |-> c + n]
      BY <1>10 DEF Here
    <3>2. u = [reader |-> IF mode = "chunked" /\ left = n THEN "crlf" ELSE "byte",
               left |-> IF mode = "close" THEN left ELSE left - n,
               count |-> c + n]
      BY <1>6, <1>7 DEF Onward
    <3>3. mode # "close" => (left' = 0 <=> left = n)
      BY <1>0, <1>1
    <3>4. reader' = IF mode = "chunked" /\ left = n THEN "crlf" ELSE "byte"
      BY <1>0, <3>3
    <3>5. left' = IF mode = "close" THEN left ELSE left - n
      BY <1>0
    <3> QED BY <3>1, <3>2, <3>4, <3>5
  <2>2. Way(mode', wire', Here', t) /\ (~cut' /\ writer' = "writing" => t = Between(mode', offset'))
    BY <1>0, <1>3, <1>4, <2>1
  <2> QED BY <2>2 DEF OnItsWay
<1> QED BY <1>12, <1>13, <1>14, <1>15, <1>16 DEF ContentInv

(* A mark moves the reader as it was meant to.                              *)
LEMMA TailOfWire ==
  ASSUME ContentInv, wire # <<>>
  PROVE  /\ Tail(wire) \in Seq(Items) /\ Head(wire) \in Items
         /\ \A i \in DOMAIN Tail(wire) : Tail(wire)[i].kind = "byte" => Tail(wire)[i].n <= offset
<1>1. wire \in Seq(Items)
  BY ContentTypes DEF ContentInv
<1>2. /\ Tail(wire) \in Seq(Items) /\ Head(wire) \in Items
      /\ \A i \in DOMAIN Tail(wire) : i + 1 \in DOMAIN wire /\ Tail(wire)[i] = wire[i + 1]
  BY <1>1, HeadTailProperties
<1> QED BY <1>2 DEF ContentInv, BytesWritten

LEMMA MarkStep ==
  ASSUME ContentInv, Content!ReadSize \/ Content!ReadCrlf
  PROVE  ContentInv'
<1>0. /\ result = "none" /\ wire # <<>> /\ Head(wire).kind = reader /\ wire' = Tail(wire)
      /\ reader \in {"size", "crlf"}
      /\ UNCHANGED <<mode, offset, writer, down, cut, received, result>>
      /\ reader = "size" => left' = Head(wire).n /\ reader' = IF left' = 0 THEN "trailer" ELSE "byte"
      /\ reader = "crlf" => left' = left /\ reader' = "size"
  BY DEF Content!ReadSize, Content!ReadCrlf, Content!Reads, Content!Next1, Content!source
<1>1. wire \in Seq(Items) /\ left \in Nat
  BY ContentTypes DEF ContentInv
<1>2. /\ wire' \in Seq(Items) /\ Head(wire) \in Items
      /\ \A i \in DOMAIN wire' : wire'[i].kind = "byte" => wire'[i].n <= offset
  BY <1>0, TailOfWire
<1>3. mode = "chunked"
  BY <1>0 DEF ContentInv, ReaderOK, Content!TypeOK
<1>4. Content!TypeOK'
  BY <1>0, <1>1, <1>2 DEF Content!TypeOK, ContentInv, Items
<1>5. (Content!InOrder /\ Content!ReadIsWhole /\ ReaderOK /\ BytesWritten)'
  BY <1>0, <1>2, <1>3 DEF ContentInv, Content!InOrder, Content!ReadIsWhole, ReaderOK, BytesWritten
<1>6. OnItsWay'
  <2>1. PICK t \in States :
          Way(mode, wire, Here, t) /\ (~cut /\ writer = "writing" => t = Between(mode, offset))
    BY <1>0 DEF ContentInv, OnItsWay
  <2>2. PICK u \in States : Leads(mode, Here, Head(wire), u) /\ Way(mode, Tail(wire), u, t)
    BY <1>0, <1>1, <2>1, WayHead
  <2>3. u.count = Len(received) /\ u.left = left' /\ u.reader = reader'
    BY <1>0, <2>2 DEF Leads, OverByte, OverMark, Here
  <2>4. Here' = u
    <3>1. u = [reader |-> u.reader, left |-> u.left, count |-> u.count]
      BY DEF States
    <3> QED BY <1>0, <2>3, <3>1 DEF Here
  <2>5. Way(mode', wire', Here', t) /\ (~cut' /\ writer' = "writing" => t = Between(mode', offset'))
    BY <1>0, <2>1, <2>2, <2>4
  <2> QED BY <2>5 DEF OnItsWay
<1> QED BY <1>4, <1>5, <1>6 DEF ContentInv

(* The reading ends: with the last mark, or with all of the length, or with *)
(* no more to come.                                                         *)
LEMMA EndStep ==
  ASSUME ContentInv, Content!ReadTrailer \/ Content!Refused \/ Content!ReadAll \/ Content!Ended
  PROVE  ContentInv'
<1>0. /\ result = "none" /\ result' \in {"true", "false"}
      /\ UNCHANGED <<mode, offset, writer, down, cut, reader, left, received>>
      /\ wire' = wire \/ (wire # <<>> /\ wire' = Tail(wire))
  BY DEF Content!ReadTrailer, Content!Refused, Content!ReadAll, Content!Ended, Content!Reads, Content!Next1,
         Content!source
<1>1. /\ wire' \in Seq(Items)
      /\ \A i \in DOMAIN wire' : wire'[i].kind = "byte" => wire'[i].n <= offset
  BY <1>0, ContentTypes, TailOfWire DEF ContentInv, BytesWritten
<1>2. Content!TypeOK'
  BY <1>0, <1>1 DEF Content!TypeOK, ContentInv, Items
<1>3. (Content!InOrder /\ ReaderOK /\ BytesWritten)'
  BY <1>0, <1>1 DEF ContentInv, Content!InOrder, ReaderOK, BytesWritten
<1>4. ASSUME result' = "true", mode # "close" PROVE Len(received) = Length
  <2>1. CASE Content!ReadAll
    <3>1. Length - Len(received) = 0 /\ Len(received) \in Nat
      BY <2>1, ContentTypes DEF ContentInv, ReaderOK, Content!ReadAll
    <3> QED BY <3>1, ContentConstants
  <2>2. CASE Content!ReadTrailer
    <3>1. wire # <<>> /\ Head(wire).kind = "trailer" /\ wire \in Seq(Items)
      BY <2>2, ContentTypes DEF Content!ReadTrailer, Content!Next1, ContentInv
    <3>2. PICK t \in States : Way(mode, wire, Here, t)
      BY <1>0 DEF ContentInv, OnItsWay
    <3>3. PICK u \in States : Leads(mode, Here, Head(wire), u)
      BY <3>1, <3>2, WayHead
    <3> QED BY <3>1, <3>3 DEF Leads, OverByte, OverMark, Here
  <2>3. CASE Content!Refused \/ Content!Ended
    BY <1>4, <2>3 DEF Content!Refused, Content!Ended
  <2> QED BY <2>1, <2>2, <2>3
<1>5. Content!ReadIsWhole'
  BY <1>0, <1>4 DEF Content!ReadIsWhole
<1>6. result' # "none"
  BY <1>0
<1> QED BY <1>2, <1>3, <1>5, <1>6 DEF ContentInv

LEMMA ContentStep == ContentInv /\ [MCNext]_all => ContentInv'
<1> SUFFICES ASSUME ContentInv, [MCNext]_all PROVE ContentInv'
  OBVIOUS
<1>1. CASE Content!Next
  BY <1>1, QuietStep, WriteStep, DoneStep, BreakStep, ReadBytesStep, MarkStep, EndStep
     DEF Content!Next, Content!Read
<1>2. CASE UNCHANGED content
  <2>1. UNCHANGED <<mode, offset, writer, down, wire, cut, reader, left, received, result>>
    BY <1>2 DEF content
  <2>2. Here' = Here
    BY <2>1 DEF Here
  <2>3. OnItsWay => OnItsWay'
    <3> SUFFICES ASSUME NEW t \in States,
                        Way(mode, wire, Here, t) /\ (~cut /\ writer = "writing" => t = Between(mode, offset))
                 PROVE  OnItsWay'
      BY DEF OnItsWay
    <3>1. Way(mode', wire', Here', t) /\ (~cut' /\ writer' = "writing" => t = Between(mode', offset'))
      BY <2>1, <2>2
    <3> QED BY <3>1 DEF OnItsWay
  <2>4. (Content!TypeOK /\ Content!InOrder /\ Content!ReadIsWhole /\ ReaderOK /\ BytesWritten)'
    BY <2>1 DEF ContentInv, Content!TypeOK, Content!InOrder, Content!ReadIsWhole, ReaderOK, BytesWritten
  <2> QED BY <2>1, <2>3, <2>4 DEF ContentInv
<1> QED BY <1>1, <1>2 DEF MCNext, all

(* Whatever is cut, delayed or given up, in any of the three codings: what  *)
(* was handed over begins the content, and only all of it, or what a close  *)
(* ended, is reported as read.                                             *)
THEOREM TransferIsWhole ==
  MCSpec => [](Content!TypeOK /\ Content!InOrder /\ Content!ReadIsWhole /\ Content!Understood)
<1>1. MCInit => ContentInv
  BY ContentBegins DEF MCInit
<1> QED BY <1>1, ContentStep, ContentMeans, PTL DEF MCSpec

-----------------------------------------------------------------------------
(* Texts, put together and cut.                                             *)
LEMMA SameText ==
  ASSUME NEW S, NEW s \in Seq(S), NEW t \in Seq(S), Len(s) = Len(t), \A i \in 1..Len(s) : s[i] = t[i]
  PROVE  s = t
<1>1. s \in [1..Len(s) -> S] /\ t \in [1..Len(t) -> S]
  OBVIOUS
<1> QED BY <1>1

LEMMA JoinIs ==
  ASSUME NEW S, NEW s \in Seq(S), NEW t \in Seq(S)
  PROVE  /\ Len(s) \in Nat /\ Len(t) \in Nat
         /\ s \o t \in Seq(S) /\ Len(s \o t) = Len(s) + Len(t)
         /\ \A i \in 1..Len(s) : (s \o t)[i] = s[i]
         /\ \A i \in 1..Len(t) : (s \o t)[Len(s) + i] = t[i]
OBVIOUS

LEMMA BeginIs ==
  ASSUME NEW S, NEW s \in Seq(S), NEW n \in 0..Len(s)
  PROVE  /\ SubSeq(s, 1, n) \in Seq(S) /\ Len(SubSeq(s, 1, n)) = n
         /\ \A i \in 1..n : SubSeq(s, 1, n)[i] = s[i]
OBVIOUS

LEMMA EraseIs ==
  ASSUME NEW S, NEW s \in Seq(S), NEW n \in 0..Len(s)
  PROVE  /\ Form!Erase(s, n) \in Seq(S) /\ Len(Form!Erase(s, n)) = Len(s) - n
         /\ \A i \in 1..(Len(s) - n) : Form!Erase(s, n)[i] = s[n + i]
<1>1. Len(s) \in Nat /\ n + 1 \in Int /\ \A i \in (n + 1)..Len(s) : s[i] \in S
  OBVIOUS
<1>2. /\ SubSeq(s, n + 1, Len(s)) \in Seq(S)
      /\ Len(SubSeq(s, n + 1, Len(s))) = (IF n + 1 <= Len(s) THEN Len(s) - (n + 1) + 1 ELSE 0)
      /\ \A i \in 1..(Len(s) - (n + 1) + 1) : SubSeq(s, n + 1, Len(s))[i] = s[n + 1 + i - 1]
  BY <1>1, SubSeqProperties
<1>3. \A i \in 1..(Len(s) - n) : i \in 1..(Len(s) - (n + 1) + 1) /\ n + 1 + i - 1 = n + i
  BY <1>1
<1>4. (IF n + 1 <= Len(s) THEN Len(s) - (n + 1) + 1 ELSE 0) = Len(s) - n
  BY <1>1
<1> QED BY <1>2, <1>3, <1>4 DEF Form!Erase

LEMMA EraseJoined ==
  ASSUME NEW S, NEW s \in Seq(S), NEW t \in Seq(S), NEW n \in 0..Len(s)
  PROVE  Form!Erase(s \o t, n) = Form!Erase(s, n) \o t
<1> DEFINE u == Form!Erase(s, n)
           w == Form!Erase(s \o t, n)
<1>1. /\ Len(s) \in Nat /\ Len(t) \in Nat /\ s \o t \in Seq(S) /\ Len(s \o t) = Len(s) + Len(t)
      /\ \A i \in 1..Len(s) : (s \o t)[i] = s[i]
      /\ \A i \in 1..Len(t) : (s \o t)[Len(s) + i] = t[i]
  BY JoinIs
<1>2. u \in Seq(S) /\ Len(u) = Len(s) - n /\ \A i \in 1..(Len(s) - n) : u[i] = s[n + i]
  BY EraseIs
<1>3. n \in 0..Len(s \o t)
  BY <1>1
<1>4. w \in Seq(S) /\ Len(w) = Len(s \o t) - n /\ \A i \in 1..(Len(s \o t) - n) : w[i] = (s \o t)[n + i]
  BY <1>1, <1>3, EraseIs
<1> HIDE DEF u, w
<1>5. /\ u \o t \in Seq(S) /\ Len(u \o t) = Len(u) + Len(t)
      /\ \A i \in 1..Len(u) : (u \o t)[i] = u[i]
      /\ \A i \in 1..Len(t) : (u \o t)[Len(u) + i] = t[i]
  <2>1. u \in Seq(S) /\ t \in Seq(S)
    BY <1>2
  <2> QED BY <2>1, JoinIs
<1>6. Len(w) = Len(u \o t)
  BY <1>1, <1>2, <1>4, <1>5
<1>7. ASSUME NEW i \in 1..Len(w) PROVE w[i] = (u \o t)[i]
  <2>1. w[i] = (s \o t)[n + i]
    BY <1>4
  <2>2. CASE i <= Len(s) - n
    <3>1. i \in 1..Len(u) /\ n + i \in 1..Len(s) /\ i \in 1..(Len(s) - n)
      BY <1>1, <1>2, <2>2
    <3> QED BY <1>1, <1>2, <1>5, <2>1, <3>1
  <2>3. CASE i > Len(s) - n
    <3> DEFINE j == i - (Len(s) - n)
    <3>1. j \in 1..Len(t) /\ n + i = Len(s) + j /\ i = Len(u) + j
      BY <1>1, <1>2, <1>4, <2>3
    <3> HIDE DEF j
    <3>2. (s \o t)[Len(s) + j] = t[j] /\ (u \o t)[Len(u) + j] = t[j]
      BY <1>1, <1>5, <3>1
    <3> QED BY <2>1, <3>1, <3>2
  <2>4. i <= Len(s) - n \/ i > Len(s) - n
    BY <1>1
  <2> QED BY <2>2, <2>3, <2>4
<1>8. w = u \o t
  BY <1>4, <1>5, <1>6, <1>7, SameText
<1> QED BY <1>8 DEF u, w

LEMMA EraseFirst ==
  ASSUME NEW S, NEW s \in Seq(S), NEW t \in Seq(S)
  PROVE  Form!Erase(s \o t, Len(s)) = t
<1> DEFINE u == Form!Erase(s, Len(s))
<1>1. Len(s) \in 0..Len(s) /\ Len(s) \in Nat
  OBVIOUS
<1>2. u \in Seq(S) /\ Len(u) = Len(s) - Len(s)
  BY <1>1, EraseIs
<1>3. Form!Erase(s \o t, Len(s)) = u \o t
  BY <1>1, EraseJoined
<1> HIDE DEF u
<1>4. u = <<>>
  BY <1>1, <1>2
<1> QED BY <1>3, <1>4

LEMMA Regrouped ==
  ASSUME NEW S, NEW r \in Seq(S), NEW s \in Seq(S), NEW t \in Seq(S)
  PROVE  (r \o s) \o t = r \o (s \o t)
BY ConcatAssociative

LEMMA Parted ==
  ASSUME NEW S, NEW s \in Seq(S), NEW n \in 0..Len(s)
  PROVE  s = SubSeq(s, 1, n) \o Form!Erase(s, n)
<1> DEFINE u == SubSeq(s, 1, n)
           w == Form!Erase(s, n)
<1>1. u \in Seq(S) /\ Len(u) = n /\ \A i \in 1..n : u[i] = s[i]
  BY BeginIs
<1>2. w \in Seq(S) /\ Len(w) = Len(s) - n /\ \A i \in 1..(Len(s) - n) : w[i] = s[n + i]
  BY EraseIs
<1> HIDE DEF u, w
<1>3. /\ u \o w \in Seq(S) /\ Len(u \o w) = Len(u) + Len(w)
      /\ \A i \in 1..Len(u) : (u \o w)[i] = u[i]
      /\ \A i \in 1..Len(w) : (u \o w)[Len(u) + i] = w[i]
  BY <1>1, <1>2, JoinIs
<1>4. Len(s) \in Nat /\ Len(u \o w) = Len(s)
  BY <1>1, <1>2, <1>3
<1>5. ASSUME NEW i \in 1..Len(s) PROVE s[i] = (u \o w)[i]
  <2>1. CASE i <= n
    BY <1>1, <1>3, <2>1
  <2>2. CASE i > n
    <3> DEFINE j == i - n
    <3>1. j \in 1..Len(w) /\ j \in 1..(Len(s) - n) /\ n + j = i
      BY <1>2, <2>2
    <3> HIDE DEF j
    <3> QED BY <1>1, <1>2, <1>3, <3>1
  <2>3. i <= n \/ i > n
    BY <1>4
  <2> QED BY <2>1, <2>2, <2>3
<1>6. s = u \o w
  BY <1>3, <1>4, <1>5, SameText
<1> QED BY <1>6 DEF u, w

(* Where a text is found in another.                                        *)
Occurs(s, t, i) == i + Len(t) <= Len(s) /\ \A j \in 1..Len(t) : s[i + j] = t[j]

LEMMA StartsIs ==
  ASSUME NEW S, NEW s \in Seq(S), NEW t \in Seq(S)
  PROVE  Form!StartsWith(s, t) <=> Len(t) <= Len(s) /\ \A j \in 1..Len(t) : s[j] = t[j]
<1>0. Len(t) \in Nat /\ Len(s) \in Nat
  OBVIOUS
<1> SUFFICES ASSUME Len(t) <= Len(s)
             PROVE  SubSeq(s, 1, Len(t)) = t <=> \A j \in 1..Len(t) : s[j] = t[j]
  BY DEF Form!StartsWith
<1> DEFINE u == SubSeq(s, 1, Len(t))
<1>1. Len(t) \in 0..Len(s)
  BY <1>0
<1>2. u \in Seq(S) /\ Len(u) = Len(t) /\ \A j \in 1..Len(t) : u[j] = s[j]
  BY <1>1, BeginIs
<1> HIDE DEF u
<1>3. ASSUME \A j \in 1..Len(t) : s[j] = t[j] PROVE u = t
  <2>1. \A j \in 1..Len(t) : u[j] = t[j]
    BY <1>2, <1>3
  <2> QED BY <1>2, <2>1, SameText
<1>4. ASSUME u = t PROVE \A j \in 1..Len(t) : s[j] = t[j]
  BY <1>2, <1>4
<1> QED BY <1>3, <1>4 DEF u

LEMMA OccursIs ==
  ASSUME NEW S, NEW s \in Seq(S), NEW t \in Seq(S), NEW i \in 0..Len(s)
  PROVE  Form!StartsWith(Form!Erase(s, i), t) <=> Occurs(s, t, i)
<1> DEFINE u == Form!Erase(s, i)
<1>1. u \in Seq(S) /\ Len(u) = Len(s) - i /\ \A j \in 1..(Len(s) - i) : u[j] = s[i + j]
  BY EraseIs
<1> HIDE DEF u
<1>2. Len(t) \in Nat /\ Len(s) \in Nat
  OBVIOUS
<1>3. Form!StartsWith(u, t) <=> Len(t) <= Len(u) /\ \A j \in 1..Len(t) : u[j] = t[j]
  BY <1>1, StartsIs
<1>4. Len(t) <= Len(u) <=> i + Len(t) <= Len(s)
  BY <1>1, <1>2
<1>5. ASSUME i + Len(t) <= Len(s), NEW j \in 1..Len(t) PROVE u[j] = s[i + j]
  <2>1. j \in 1..(Len(s) - i)
    BY <1>2, <1>5
  <2> QED BY <1>1, <2>1
<1> QED BY <1>3, <1>4, <1>5 DEF Occurs, u

LEMMA FindFirst ==
  ASSUME NEW S, NEW s \in Seq(S), NEW t \in Seq(S), NEW k \in Nat,
         Occurs(s, t, k), \A i \in 0..(k - 1) : ~Occurs(s, t, i)
  PROVE  Form!Find(s, t) = k
<1> DEFINE at == {i \in 0..(Len(s) - Len(t)) : Form!StartsWith(Form!Erase(s, i), t)}
<1>1. Len(t) \in Nat /\ Len(s) \in Nat /\ k + Len(t) <= Len(s)
  BY DEF Occurs
<1>2. \A i \in 0..(Len(s) - Len(t)) : i \in 0..Len(s)
  BY <1>1
<1>3. \A i \in 0..(Len(s) - Len(t)) : i \in at <=> Occurs(s, t, i)
  BY <1>2, OccursIs
<1>4. k \in at
  BY <1>1, <1>3
<1>5. \A i \in at : i \in Nat /\ k <= i
  <2> TAKE i \in at
  <2>1. i \in 0..(Len(s) - Len(t)) /\ Occurs(s, t, i)
    BY <1>3
  <2>2. i \notin 0..(k - 1)
    BY <2>1
  <2> QED BY <2>1, <2>2
<1>6. Form!Find(s, t) = IF at = {} THEN Len(s) ELSE CHOOSE i \in at : \A j \in at : i <= j
  BY DEF Form!Find
<1> HIDE DEF at
<1>7. \A i \in at : (\A j \in at : i <= j) => i = k
  BY <1>4, <1>5
<1> QED BY <1>4, <1>5, <1>6, <1>7

LEMMA FindNothing ==
  ASSUME NEW S, NEW s \in Seq(S), NEW t \in Seq(S), \A i \in Nat : ~Occurs(s, t, i)
  PROVE  Form!Find(s, t) = Len(s)
<1>1. \A i \in 0..(Len(s) - Len(t)) : i \in 0..Len(s) /\ i \in Nat
  OBVIOUS
<1>2. \A i \in 0..(Len(s) - Len(t)) : ~Form!StartsWith(Form!Erase(s, i), t)
  BY <1>1, OccursIs
<1> QED BY <1>2 DEF Form!Find

-----------------------------------------------------------------------------
(* The text of a form: what follows the boundary before part i, or the end. *)
Letters == Form!Letters
From == Form!Serialized(form)
N == Len(form)
Crlf == <<"r", "n">>
Dash == <<"-", "-">>
Delimiter == <<"r", "n", "-", "-", "B">>
Boundary == <<"-", "-", "B", "r", "n">>
Header == <<"h", "r", "n", "r", "n">>

AreJoined(S, s, t, u) ==
  /\ s \in Seq(S) /\ t \in Seq(S) /\ u \in Seq(S) /\ Len(u) = Len(s) + Len(t)
  /\ \A i \in 1..Len(s) : u[i] = s[i]
  /\ \A i \in 1..Len(t) : u[Len(s) + i] = t[i]

LEMMA JoinedAs ==
  ASSUME NEW S, NEW s, NEW t, NEW u, AreJoined(S, s, t, u)
  PROVE  s \o t = u
<1>0. /\ s \in Seq(S) /\ t \in Seq(S) /\ u \in Seq(S) /\ Len(u) = Len(s) + Len(t)
      /\ \A i \in 1..Len(s) : u[i] = s[i]
      /\ \A i \in 1..Len(t) : u[Len(s) + i] = t[i]
  BY DEF AreJoined
<1>1. /\ Len(s) \in Nat /\ Len(t) \in Nat
      /\ s \o t \in Seq(S) /\ Len(s \o t) = Len(s) + Len(t)
      /\ \A i \in 1..Len(s) : (s \o t)[i] = s[i]
      /\ \A i \in 1..Len(t) : (s \o t)[Len(s) + i] = t[i]
  BY <1>0, JoinIs
<1>2. ASSUME NEW i \in 1..Len(u) PROVE (s \o t)[i] = u[i]
  <2>1. CASE i <= Len(s)
    BY <1>0, <1>1, <2>1
  <2>2. CASE i > Len(s)
    <3> DEFINE j == i - Len(s)
    <3>1. j \in 1..Len(t) /\ i = Len(s) + j
      BY <1>0, <1>1, <2>2
    <3> HIDE DEF j
    <3> QED BY <1>0, <1>1, <3>1
  <2> QED BY <1>0, <1>1, <2>1, <2>2
<1> QED BY <1>0, <1>1, <1>2, SameText

LEMMA Tuples ==
  /\ Crlf \o Dash = <<"r", "n", "-", "-">> /\ <<"r", "n", "-", "-">> \o <<"B">> = Delimiter
  /\ Dash \o <<"B">> = <<"-", "-", "B">> /\ <<"-", "-", "B">> \o Crlf = Boundary
  /\ <<"-", "-", "B">> \o Dash = <<"-", "-", "B", "-", "-">>
  /\ <<"-", "-", "B", "-", "-">> \o Crlf = <<"-", "-", "B", "-", "-", "r", "n">>
  /\ <<"h">> \o Crlf = <<"h", "r", "n">> /\ <<"h", "r", "n">> \o Crlf = Header
<1> DEFINE S == {"r", "n", "-", "B", "h"}
<1>1. Crlf \o Dash = <<"r", "n", "-", "-">>
  <2>1. Crlf \in Seq(S) /\ Dash \in Seq(S) /\ <<"r", "n", "-", "-">> \in Seq(S) /\ Len(<<"r", "n", "-", "-">>) = Len(Crlf) + Len(Dash)
    BY DEF Crlf, Dash, Delimiter, Boundary, Header
  <2>2. \A i \in 1..Len(Crlf) : <<"r", "n", "-", "-">>[i] = Crlf[i]
    BY DEF Crlf, Dash, Delimiter, Boundary, Header
  <2>3. \A i \in 1..Len(Dash) : <<"r", "n", "-", "-">>[Len(Crlf) + i] = Dash[i]
    BY DEF Crlf, Dash, Delimiter, Boundary, Header
  <2>4. AreJoined(S, Crlf, Dash, <<"r", "n", "-", "-">>)
    BY <2>1, <2>2, <2>3 DEF AreJoined
  <2> HIDE DEF S
  <2> QED BY <2>4, JoinedAs
<1>2. <<"r", "n", "-", "-">> \o <<"B">> = Delimiter
  <2>1. <<"r", "n", "-", "-">> \in Seq(S) /\ <<"B">> \in Seq(S) /\ Delimiter \in Seq(S) /\ Len(Delimiter) = Len(<<"r", "n", "-", "-">>) + Len(<<"B">>)
    BY DEF Crlf, Dash, Delimiter, Boundary, Header
  <2>2. \A i \in 1..Len(<<"r", "n", "-", "-">>) : Delimiter[i] = <<"r", "n", "-", "-">>[i]
    BY DEF Crlf, Dash, Delimiter, Boundary, Header
  <2>3. \A i \in 1..Len(<<"B">>) : Delimiter[Len(<<"r", "n", "-", "-">>) + i] = <<"B">>[i]
    BY DEF Crlf, Dash, Delimiter, Boundary, Header
  <2>4. AreJoined(S, <<"r", "n", "-", "-">>, <<"B">>, Delimiter)
    BY <2>1, <2>2, <2>3 DEF AreJoined
  <2> HIDE DEF S
  <2> QED BY <2>4, JoinedAs
<1>3. Dash \o <<"B">> = <<"-", "-", "B">>
  <2>1. Dash \in Seq(S) /\ <<"B">> \in Seq(S) /\ <<"-", "-", "B">> \in Seq(S) /\ Len(<<"-", "-", "B">>) = Len(Dash) + Len(<<"B">>)
    BY DEF Crlf, Dash, Delimiter, Boundary, Header
  <2>2. \A i \in 1..Len(Dash) : <<"-", "-", "B">>[i] = Dash[i]
    BY DEF Crlf, Dash, Delimiter, Boundary, Header
  <2>3. \A i \in 1..Len(<<"B">>) : <<"-", "-", "B">>[Len(Dash) + i] = <<"B">>[i]
    BY DEF Crlf, Dash, Delimiter, Boundary, Header
  <2>4. AreJoined(S, Dash, <<"B">>, <<"-", "-", "B">>)
    BY <2>1, <2>2, <2>3 DEF AreJoined
  <2> HIDE DEF S
  <2> QED BY <2>4, JoinedAs
<1>4. <<"-", "-", "B">> \o Crlf = Boundary
  <2>1. <<"-", "-", "B">> \in Seq(S) /\ Crlf \in Seq(S) /\ Boundary \in Seq(S) /\ Len(Boundary) = Len(<<"-", "-", "B">>) + Len(Crlf)
    BY DEF Crlf, Dash, Delimiter, Boundary, Header
  <2>2. \A i \in 1..Len(<<"-", "-", "B">>) : Boundary[i] = <<"-", "-", "B">>[i]
    BY DEF Crlf, Dash, Delimiter, Boundary, Header
  <2>3. \A i \in 1..Len(Crlf) : Boundary[Len(<<"-", "-", "B">>) + i] = Crlf[i]
    BY DEF Crlf, Dash, Delimiter, Boundary, Header
  <2>4. AreJoined(S, <<"-", "-", "B">>, Crlf, Boundary)
    BY <2>1, <2>2, <2>3 DEF AreJoined
  <2> HIDE DEF S
  <2> QED BY <2>4, JoinedAs
<1>5. <<"-", "-", "B">> \o Dash = <<"-", "-", "B", "-", "-">>
  <2>1. <<"-", "-", "B">> \in Seq(S) /\ Dash \in Seq(S) /\ <<"-", "-", "B", "-", "-">> \in Seq(S) /\ Len(<<"-", "-", "B", "-", "-">>) = Len(<<"-", "-", "B">>) + Len(Dash)
    BY DEF Crlf, Dash, Delimiter, Boundary, Header
  <2>2. \A i \in 1..Len(<<"-", "-", "B">>) : <<"-", "-", "B", "-", "-">>[i] = <<"-", "-", "B">>[i]
    BY DEF Crlf, Dash, Delimiter, Boundary, Header
  <2>3. \A i \in 1..Len(Dash) : <<"-", "-", "B", "-", "-">>[Len(<<"-", "-", "B">>) + i] = Dash[i]
    BY DEF Crlf, Dash, Delimiter, Boundary, Header
  <2>4. AreJoined(S, <<"-", "-", "B">>, Dash, <<"-", "-", "B", "-", "-">>)
    BY <2>1, <2>2, <2>3 DEF AreJoined
  <2> HIDE DEF S
  <2> QED BY <2>4, JoinedAs
<1>6. <<"-", "-", "B", "-", "-">> \o Crlf = <<"-", "-", "B", "-", "-", "r", "n">>
  <2>1. <<"-", "-", "B", "-", "-">> \in Seq(S) /\ Crlf \in Seq(S) /\ <<"-", "-", "B", "-", "-", "r", "n">> \in Seq(S) /\ Len(<<"-", "-", "B", "-", "-", "r", "n">>) = Len(<<"-", "-", "B", "-", "-">>) + Len(Crlf)
    BY DEF Crlf, Dash, Delimiter, Boundary, Header
  <2>2. \A i \in 1..Len(<<"-", "-", "B", "-", "-">>) : <<"-", "-", "B", "-", "-", "r", "n">>[i] = <<"-", "-", "B", "-", "-">>[i]
    BY DEF Crlf, Dash, Delimiter, Boundary, Header
  <2>3. \A i \in 1..Len(Crlf) : <<"-", "-", "B", "-", "-", "r", "n">>[Len(<<"-", "-", "B", "-", "-">>) + i] = Crlf[i]
    BY DEF Crlf, Dash, Delimiter, Boundary, Header
  <2>4. AreJoined(S, <<"-", "-", "B", "-", "-">>, Crlf, <<"-", "-", "B", "-", "-", "r", "n">>)
    BY <2>1, <2>2, <2>3 DEF AreJoined
  <2> HIDE DEF S
  <2> QED BY <2>4, JoinedAs
<1>7. <<"h">> \o Crlf = <<"h", "r", "n">>
  <2>1. <<"h">> \in Seq(S) /\ Crlf \in Seq(S) /\ <<"h", "r", "n">> \in Seq(S) /\ Len(<<"h", "r", "n">>) = Len(<<"h">>) + Len(Crlf)
    BY DEF Crlf, Dash, Delimiter, Boundary, Header
  <2>2. \A i \in 1..Len(<<"h">>) : <<"h", "r", "n">>[i] = <<"h">>[i]
    BY DEF Crlf, Dash, Delimiter, Boundary, Header
  <2>3. \A i \in 1..Len(Crlf) : <<"h", "r", "n">>[Len(<<"h">>) + i] = Crlf[i]
    BY DEF Crlf, Dash, Delimiter, Boundary, Header
  <2>4. AreJoined(S, <<"h">>, Crlf, <<"h", "r", "n">>)
    BY <2>1, <2>2, <2>3 DEF AreJoined
  <2> HIDE DEF S
  <2> QED BY <2>4, JoinedAs
<1>8. <<"h", "r", "n">> \o Crlf = Header
  <2>1. <<"h", "r", "n">> \in Seq(S) /\ Crlf \in Seq(S) /\ Header \in Seq(S) /\ Len(Header) = Len(<<"h", "r", "n">>) + Len(Crlf)
    BY DEF Crlf, Dash, Delimiter, Boundary, Header
  <2>2. \A i \in 1..Len(<<"h", "r", "n">>) : Header[i] = <<"h", "r", "n">>[i]
    BY DEF Crlf, Dash, Delimiter, Boundary, Header
  <2>3. \A i \in 1..Len(Crlf) : Header[Len(<<"h", "r", "n">>) + i] = Crlf[i]
    BY DEF Crlf, Dash, Delimiter, Boundary, Header
  <2>4. AreJoined(S, <<"h", "r", "n">>, Crlf, Header)
    BY <2>1, <2>2, <2>3 DEF AreJoined
  <2> HIDE DEF S
  <2> QED BY <2>4, JoinedAs
<1> QED BY <1>1, <1>2, <1>3, <1>4, <1>5, <1>6, <1>7, <1>8

LEMMA Delimiters ==
  /\ Form!crlf_ = Crlf /\ Form!dash_ = Dash
  /\ Form!crlf_dash_boundary_ = Delimiter /\ Form!dash_boundary_crlf_ = Boundary
  /\ Form!Finish = <<"-", "-", "B", "-", "-", "r", "n">>
  /\ Form!ItemBegin = Boundary \o Header
  /\ {Crlf, Dash, Delimiter, Boundary, Header, <<"h">>} \subseteq Seq(Letters)
<1>1. Form!crlf_ = Crlf /\ Form!dash_ = Dash
  BY DEF Form!crlf_, Form!dash_, Crlf, Dash
<1>2. Form!crlf_dash_boundary_ = Delimiter
  BY <1>1, Tuples DEF Form!crlf_dash_boundary_
<1>3. Form!dash_boundary_crlf_ = Boundary
  BY <1>1, Tuples DEF Form!dash_boundary_crlf_
<1>4. Form!Finish = <<"-", "-", "B", "-", "-", "r", "n">>
  BY <1>1, Tuples DEF Form!Finish
<1>5. {Crlf, Dash, Delimiter, Boundary, Header, <<"h">>} \subseteq Seq(Letters)
  BY DEF Letters, Form!Letters, Crlf, Dash, Delimiter, Boundary, Header
<1>6. Form!ItemBegin = Boundary \o Header
  BY <1>1, <1>3 DEF Form!ItemBegin, Crlf, Boundary, Header
<1> QED BY <1>1, <1>2, <1>3, <1>4, <1>5, <1>6

(* The text from k on of pieces g and an end e, however it is reached.      *)
TextsFrom(f, g, e, n, k) == f = [i \in k..(n + 1) |-> IF i > n THEN e ELSE g[i] \o f[i + 1]]

LEMMA TextsExist ==
  ASSUME NEW g, NEW e, NEW n \in Nat
  PROVE  \E f : TextsFrom(f, g, e, n, 1)
<1> DEFINE T == {j \in Nat : j <= n /\ ~\E f : TextsFrom(f, g, e, n, n + 1 - j)}
<1>1. T = {}
  <2> SUFFICES ASSUME T # {} PROVE FALSE
    OBVIOUS
  <2>1. PICK j \in T : \A y \in T : j <= y
    BY Least
  <2> HIDE DEF T
  <2>2. j \in Nat /\ j <= n /\ ~\E f : TextsFrom(f, g, e, n, n + 1 - j)
    BY DEF T
  <2>3. CASE j = 0
    <3> DEFINE f == [i \in (n + 1)..(n + 1) |-> e]
    <3>1. f = [i \in (n + 1)..(n + 1) |-> IF i > n THEN e ELSE g[i] \o f[i + 1]]
      <4> HIDE DEF f
      <4>1. \A i \in (n + 1)..(n + 1) : i > n
        OBVIOUS
      <4>2. f = [i \in (n + 1)..(n + 1) |-> e]
        BY DEF f
      <4> QED BY <4>1, <4>2
    <3>2. n + 1 - j = n + 1
      BY <2>3
    <3> HIDE DEF f
    <3>3. TextsFrom(f, g, e, n, n + 1)
      BY <3>1 DEF TextsFrom
    <3> QED BY <2>2, <3>2, <3>3
  <2>4. CASE j # 0
    <3>1. j - 1 \in Nat /\ ~(j <= j - 1) /\ j - 1 <= n
      BY <2>2, <2>4
    <3>2. j - 1 \notin T
      BY <2>1, <3>1
    <3> DEFINE k == n + 1 - j
    <3>3. n + 1 - (j - 1) = k + 1 /\ k \in 1..n
      BY <2>2, <2>4
    <3>4. \E f : TextsFrom(f, g, e, n, n + 1 - (j - 1))
      BY <3>1, <3>2 DEF T
    <3> HIDE DEF k
    <3>5. PICK h : TextsFrom(h, g, e, n, k + 1)
      BY <3>3, <3>4
    <3> DEFINE f == [i \in k..(n + 1) |-> IF i = k THEN g[k] \o h[k + 1] ELSE h[i]]
               value(i) == IF i > n THEN e ELSE g[i] \o f[i + 1]
    <3>6. ASSUME NEW i \in k..(n + 1) PROVE f[i] = value(i)
      <4>1. CASE i = k
        <5>0. k \in k..(n + 1) /\ k + 1 \in k..(n + 1) /\ k + 1 # k /\ ~(k > n)
          BY <3>3
        <5>1. f[k + 1] = h[k + 1] /\ f[k] = g[k] \o h[k + 1]
          BY <5>0
        <5> QED BY <4>1, <5>0, <5>1
      <4>2. CASE i # k
        <5>1. i \in (k + 1)..(n + 1) /\ (~(i > n) => i + 1 \in (k + 1)..(n + 1) /\ i + 1 \in k..(n + 1) /\ i + 1 # k)
          BY <3>3, <4>2
        <5>2. h[i] = IF i > n THEN e ELSE g[i] \o h[i + 1]
          BY <3>5, <5>1 DEF TextsFrom
        <5>3. f[i] = h[i] /\ (~(i > n) => f[i + 1] = h[i + 1])
          BY <4>2, <5>1
        <5> HIDE DEF f
        <5> QED BY <5>2, <5>3
      <4> QED BY <4>1, <4>2
    <3>7. f = [i \in k..(n + 1) |-> f[i]]
      OBVIOUS
    <3> HIDE DEF f
    <3>8. f = [i \in k..(n + 1) |-> value(i)]
      BY <3>6, <3>7
    <3>9. TextsFrom(f, g, e, n, k)
      BY <3>8 DEF TextsFrom
    <3> QED BY <2>2, <3>9 DEF k
  <2> QED BY <2>3, <2>4
<1>2. n \in Nat /\ n <= n /\ n + 1 - n = 1
  OBVIOUS
<1>3. n \notin T
  BY <1>1
<1> QED BY <1>2, <1>3

LEMMA TextsTyped ==
  ASSUME NEW S, NEW n \in Nat, NEW f, NEW g \in [1..n -> Seq(S)], NEW e \in Seq(S), TextsFrom(f, g, e, n, 1)
  PROVE  \A i \in 1..(n + 1) : f[i] \in Seq(S)
<1>0. \A i \in 1..(n + 1) : f[i] = IF i > n THEN e ELSE g[i] \o f[i + 1]
  BY DEF TextsFrom
<1> DEFINE T == {j \in Nat : j <= n /\ f[n + 1 - j] \notin Seq(S)}
<1>1. T = {}
  <2> SUFFICES ASSUME T # {} PROVE FALSE
    OBVIOUS
  <2>1. PICK j \in T : \A y \in T : j <= y
    BY Least
  <2> HIDE DEF T
  <2>2. j \in Nat /\ j <= n /\ f[n + 1 - j] \notin Seq(S)
    BY DEF T
  <2> DEFINE k == n + 1 - j
  <2>3. k \in 1..(n + 1)
    BY <2>2
  <2>4. CASE j = 0
    <3>1. k > n
      BY <2>2, <2>4
    <3> QED BY <1>0, <2>2, <2>3, <3>1
  <2>5. CASE j # 0
    <3>1. j - 1 \in Nat /\ ~(j <= j - 1) /\ j - 1 <= n /\ ~(k > n) /\ k \in 1..n /\ n + 1 - (j - 1) = k + 1
      BY <2>2, <2>5
    <3>2. j - 1 \notin T
      BY <2>1, <3>1
    <3>3. f[n + 1 - (j - 1)] \in Seq(S)
      BY <3>1, <3>2 DEF T
    <3> HIDE DEF k
    <3>4. f[k] = g[k] \o f[k + 1] /\ g[k] \in Seq(S) /\ f[k + 1] \in Seq(S)
      BY <1>0, <2>3, <3>1, <3>3
    <3>5. g[k] \o f[k + 1] \in Seq(S)
      BY <3>4
    <3> QED BY <2>2, <3>4, <3>5 DEF k
  <2> QED BY <2>4, <2>5
<1>2. ASSUME NEW i \in 1..(n + 1) PROVE f[i] \in Seq(S)
  <2> DEFINE j == n + 1 - i
  <2>1. j \in Nat /\ j <= n /\ n + 1 - j = i
    OBVIOUS
  <2>2. j \notin T
    BY <1>1
  <2> HIDE DEF j
  <2> QED BY <2>1, <2>2
<1> QED BY <1>2

-----------------------------------------------------------------------------
(* What the parser has to read once a boundary, a header or a delimiter is  *)
(* behind it.                                                               *)
Part(i) == form[i] \o (Crlf \o From[i + 1])
Entry(i) == Header \o Part(i)
After(i) == IF i <= N THEN Crlf \o Entry(i) ELSE Dash \o Crlf

LEMMA FormTypes ==
  ASSUME form \in Form!Forms
  PROVE  N \in Nat /\ N > 0 /\ \A i \in 1..N : form[i] \in Seq(Letters) /\ form[i] \in Contents
<1>1. PICK n \in 1..MaxParts : form \in [1..n -> Contents]
  BY DEF Form!Forms
<1>2. MaxParts \in Nat /\ Contents \subseteq Seq(Letters)
  BY PartsAssumption DEF Form!Constants, Letters
<1>3. n \in Nat /\ n > 0 /\ N = n
  BY <1>1, <1>2 DEF N
<1> HIDE DEF N
<1>4. ASSUME NEW i \in 1..N PROVE form[i] \in Seq(Letters) /\ form[i] \in Contents
  <2> HIDE DEF Letters
  <2> QED BY <1>1, <1>2, <1>3
<1> QED BY <1>3, <1>4

LEMMA FromIs ==
  ASSUME form \in Form!Forms
  PROVE  /\ \A i \in 1..(N + 1) : From[i] \in Seq(Letters)
         /\ \A i \in 1..N : From[i] = Boundary \o (Header \o Part(i))
         /\ From[N + 1] = <<"-", "-", "B", "-", "-", "r", "n">>
<1> DEFINE g == [i \in 1..N |-> Form!ItemBegin \o form[i] \o Form!crlf_]
           Is(f) == f = [i \in 1..(N + 1) |-> IF i > N THEN Form!Finish
                                             ELSE Form!ItemBegin \o form[i] \o Form!crlf_ \o f[i + 1]]
           from == CHOOSE f : Is(f)
<1>1. N \in Nat /\ \A i \in 1..N : form[i] \in Seq(Letters)
  BY FormTypes
<1>2. \A f : TextsFrom(f, g, Form!Finish, N, 1) <=> Is(f)
  <2> TAKE f
  <2>1. \A i \in 1..(N + 1) : ~(i > N) => g[i] = Form!ItemBegin \o form[i] \o Form!crlf_
    BY <1>1
  <2> HIDE DEF g
  <2> QED BY <2>1 DEF TextsFrom
<1>3. PICK h : TextsFrom(h, g, Form!Finish, N, 1)
  <2> HIDE DEF g
  <2> QED BY <1>1, TextsExist
<1>4. Is(from)
  <2> HIDE DEF Is
  <2> QED BY <1>2, <1>3
<1>5. From = from
  BY DEF From, N, Form!Serialized
<1>6. TextsFrom(From, g, Form!Finish, N, 1)
  <2> HIDE DEF Is, g, from
  <2> QED BY <1>2, <1>4, <1>5
<1>7. Boundary \in Seq(Letters) /\ Header \in Seq(Letters) /\ Crlf \in Seq(Letters) /\ Form!Finish \in Seq(Letters)
  <2>1. Form!Finish \in Seq(Letters)
    BY Delimiters DEF Letters, Form!Letters
  <2> QED BY <2>1, Delimiters
<1>8. Form!ItemBegin = Boundary \o Header /\ Form!crlf_ = Crlf /\ Form!ItemBegin \in Seq(Letters)
  <2> HIDE DEF Letters, Boundary, Header
  <2>1. Boundary \o Header \in Seq(Letters)
    BY <1>7, JoinIs
  <2> QED BY <2>1, Delimiters
<1> HIDE DEF Letters
<1>9. g \in [1..N -> Seq(Letters)]
  <2>1. ASSUME NEW i \in 1..N PROVE Form!ItemBegin \o form[i] \o Form!crlf_ \in Seq(Letters)
    <3>1. Form!ItemBegin \o form[i] \in Seq(Letters)
      BY <1>1, <1>8, JoinIs
    <3> QED BY <1>7, <1>8, <3>1, JoinIs
  <2> QED BY <2>1
<1>10. \A i \in 1..(N + 1) : From[i] \in Seq(Letters)
  <2> HIDE DEF g
  <2> QED BY SMTT(30), <1>1, <1>6, <1>7, <1>9, TextsTyped
<1>11. ASSUME NEW i \in 1..N PROVE From[i] = Boundary \o (Header \o Part(i))
  <2>1. i \in 1..(N + 1) /\ i + 1 \in 1..(N + 1) /\ ~(i > N)
    BY <1>1
  <2>2. From[i] = ((Form!ItemBegin \o form[i]) \o Form!crlf_) \o From[i + 1]
    BY <1>6, <2>1 DEF TextsFrom
  <2> DEFINE c == form[i]
             t == From[i + 1]
  <2>3. c \in Seq(Letters) /\ t \in Seq(Letters)
    BY <1>1, <1>10, <2>1
  <2> HIDE DEF c, t
  <2>4. (((Boundary \o Header) \o c) \o Crlf) \o t = ((Boundary \o Header) \o c) \o (Crlf \o t)
    <3>1. (Boundary \o Header) \o c \in Seq(Letters)
      BY <1>8, <2>3, JoinIs
    <3> DEFINE a == (Boundary \o Header) \o c
    <3>2. a \in Seq(Letters) /\ Crlf \in Seq(Letters) /\ t \in Seq(Letters)
      BY <1>7, <2>3, <3>1
    <3> HIDE DEF a
    <3>3. (a \o Crlf) \o t = a \o (Crlf \o t)
      BY <3>2, Regrouped, SMTT(30)
    <3> QED BY <3>3 DEF a
  <2>5. ((Boundary \o Header) \o c) \o (Crlf \o t) = (Boundary \o Header) \o (c \o (Crlf \o t))
    <3>1. Boundary \o Header \in Seq(Letters) /\ Crlf \o t \in Seq(Letters)
      BY <1>7, <1>8, <2>3, JoinIs
    <3> DEFINE a == Boundary \o Header
               b == Crlf \o t
    <3>2. a \in Seq(Letters) /\ b \in Seq(Letters) /\ c \in Seq(Letters)
      BY <2>3, <3>1
    <3> HIDE DEF a, b
    <3>3. (a \o c) \o b = a \o (c \o b)
      BY SMTT(30), <3>2, Regrouped
    <3> QED BY <3>3 DEF a, b
  <2>6. (Boundary \o Header) \o (c \o (Crlf \o t)) = Boundary \o (Header \o (c \o (Crlf \o t)))
    <3>1. Crlf \o t \in Seq(Letters)
      BY <1>7, <2>3, JoinIs
    <3>2. c \o (Crlf \o t) \in Seq(Letters)
      BY <2>3, <3>1, JoinIs
    <3> DEFINE b == c \o (Crlf \o t)
    <3>3. Boundary \in Seq(Letters) /\ Header \in Seq(Letters) /\ b \in Seq(Letters)
      BY <1>7, <3>2
    <3> HIDE DEF b
    <3>4. (Boundary \o Header) \o b = Boundary \o (Header \o b)
      BY SMTT(30), <3>3, Regrouped
    <3> QED BY <3>4 DEF b
  <2> QED BY <1>8, <2>2, <2>4, <2>5, <2>6 DEF Part, c, t
<1>12. From[N + 1] = Form!Finish
  <2>1. N + 1 \in 1..(N + 1) /\ N + 1 > N
    BY <1>1
  <2> QED BY <1>6, <2>1 DEF TextsFrom
<1> QED BY <1>10, <1>11, <1>12, Delimiters

LEMMA AfterIs ==
  ASSUME form \in Form!Forms
  PROVE  /\ \A i \in 1..(N + 1) : After(i) \in Seq(Letters) /\ Crlf \o From[i] = Delimiter \o After(i)
         /\ \A i \in 1..N : /\ From[i] = Boundary \o Entry(i) /\ Entry(i) \in Seq(Letters)
                            /\ Part(i) \in Seq(Letters) /\ Part(i) = form[i] \o (Delimiter \o After(i + 1))
<1> DEFINE three == <<"-", "-", "B">>
<1>1. /\ N \in Nat /\ \A i \in 1..N : form[i] \in Seq(Letters)
      /\ \A i \in 1..(N + 1) : From[i] \in Seq(Letters)
      /\ \A i \in 1..N : From[i] = Boundary \o Entry(i)
      /\ From[N + 1] = <<"-", "-", "B", "-", "-", "r", "n">>
  BY FormTypes, FromIs DEF Entry
<1>2. /\ Crlf \in Seq(Letters) /\ Dash \in Seq(Letters) /\ Header \in Seq(Letters)
      /\ three \in Seq(Letters) /\ <<"B">> \in Seq(Letters)
  <2>1. three \in Seq(Letters) /\ <<"B">> \in Seq(Letters)
    BY DEF Letters, Form!Letters
  <2> QED BY <2>1, Delimiters
<1>3. Dash \o <<"B">> = three /\ three \o Crlf = Boundary
  BY Tuples
<1>4. (Crlf \o Dash) \o <<"B">> = Delimiter
  BY Tuples
<1>5. (three \o Dash) \o Crlf = From[N + 1]
  BY <1>1, Tuples
<1> HIDE DEF Letters, three
<1>6. Crlf \o three = Delimiter
  <2> DEFINE one == <<"B">>
  <2>1. Crlf \in Seq(Letters) /\ Dash \in Seq(Letters) /\ one \in Seq(Letters)
    BY <1>2
  <2> HIDE DEF one
  <2>2. (Crlf \o Dash) \o one = Crlf \o (Dash \o one)
    BY SMTT(30), <2>1, Regrouped
  <2> QED BY <1>3, <1>4, <2>2 DEF one
<1>7. ASSUME NEW i \in 1..N PROVE Part(i) \in Seq(Letters) /\ Entry(i) \in Seq(Letters)
  <2>0. i + 1 \in 1..(N + 1)
    BY <1>1
  <2>1. From[i + 1] \in Seq(Letters) /\ form[i] \in Seq(Letters)
    BY <1>1, <2>0
  <2>2. Crlf \o From[i + 1] \in Seq(Letters)
    BY <1>2, <2>1, JoinIs
  <2>3. Part(i) \in Seq(Letters)
    BY <2>1, <2>2, JoinIs DEF Part
  <2> QED BY <1>2, <2>3, JoinIs DEF Entry
<1>8. ASSUME NEW i \in 1..(N + 1) PROVE After(i) \in Seq(Letters) /\ From[i] = three \o After(i)
  <2>1. CASE i <= N
    <3>1. i \in 1..N
      BY <1>1, <2>1
    <3> DEFINE b == Entry(i)
    <3>2. From[i] = (three \o Crlf) \o b /\ b \in Seq(Letters) /\ After(i) = Crlf \o b
      BY <1>1, <1>3, <1>7, <2>1, <3>1 DEF After
    <3> HIDE DEF b
    <3>a. three \in Seq(Letters) /\ Crlf \in Seq(Letters) /\ b \in Seq(Letters)
      BY <1>2, <3>2
    <3>3. (three \o Crlf) \o b = three \o (Crlf \o b)
      BY <3>a, Regrouped, SMTT(30)
    <3>4. Crlf \o b \in Seq(Letters)
      BY <1>2, <3>2, JoinIs
    <3> QED BY <3>2, <3>3, <3>4
  <2>2. CASE ~(i <= N)
    <3>1. i = N + 1
      BY <1>1, <2>2
    <3>2. After(i) = Dash \o Crlf
      BY <2>2 DEF After
    <3>3. (three \o Dash) \o Crlf = three \o (Dash \o Crlf)
      BY <1>2, Regrouped
    <3>4. Dash \o Crlf \in Seq(Letters)
      BY <1>2, JoinIs
    <3> QED BY <1>5, <3>1, <3>2, <3>3, <3>4
  <2> QED BY <2>1, <2>2
<1>9. ASSUME NEW i \in 1..(N + 1) PROVE Crlf \o From[i] = Delimiter \o After(i)
  <2> DEFINE b == After(i)
  <2>1. From[i] = three \o b /\ b \in Seq(Letters)
    BY <1>8
  <2> HIDE DEF b
  <2>a. Crlf \in Seq(Letters) /\ three \in Seq(Letters) /\ b \in Seq(Letters)
    BY <1>2, <2>1
  <2>2. (Crlf \o three) \o b = Crlf \o (three \o b)
    BY <2>a, Regrouped, SMTT(30)
  <2> QED BY <1>6, <2>1, <2>2 DEF b
<1>10. ASSUME NEW i \in 1..N PROVE Part(i) = form[i] \o (Delimiter \o After(i + 1))
  <2>1. i + 1 \in 1..(N + 1)
    BY <1>1
  <2> QED BY <1>9, <2>1 DEF Part
<1> QED BY <1>1, <1>7, <1>8, <1>9, <1>10

(* Where the delimiter is first found behind what is left of a part.        *)
LEMMA FirstDelimiter ==
  ASSUME NEW c \in Contents, NEW k \in 0..Len(c), NEW t \in Seq(Letters), NEW i \in Nat,
         c \in Seq(Letters), i < Len(c) - k
  PROVE  ~Occurs(Form!Erase(c, k) \o (Delimiter \o t), Delimiter, i)
<1> DEFINE r == Form!Erase(c, k)
           d == Delimiter \o t
           s == r \o d
<1>0. Len(c) \in Nat /\ Len(t) \in Nat
  OBVIOUS
<1>1. r \in Seq(Letters) /\ Len(r) = Len(c) - k /\ \A j \in 1..(Len(c) - k) : r[j] = c[k + j]
  BY EraseIs
<1>2. Delimiter \in Seq(Letters) /\ Len(Delimiter) = 5
  BY Delimiters DEF Delimiter
<1>3. d \in Seq(Letters) /\ Len(d) = 5 + Len(t) /\ \A j \in 1..5 : d[j] = Delimiter[j]
  <2>1. /\ d \in Seq(Letters) /\ Len(d) = Len(Delimiter) + Len(t)
        /\ \A j \in 1..Len(Delimiter) : d[j] = Delimiter[j]
    <3>1. Delimiter \in Seq(Letters)
      BY <1>2
    <3> QED BY <3>1, JoinIs
  <2> HIDE DEF d
  <2> QED BY <1>2, <2>1
<1> HIDE DEF r, d
<1>a. r \in Seq(Letters) /\ d \in Seq(Letters)
  BY <1>1, <1>3
<1>4. /\ s \in Seq(Letters) /\ Len(s) = Len(r) + Len(d)
      /\ \A j \in 1..Len(r) : s[j] = r[j]
      /\ \A j \in 1..Len(d) : s[Len(r) + j] = d[j]
  BY <1>a, JoinIs
<1> HIDE DEF s
<1>5. SUFFICES ASSUME Occurs(s, Delimiter, i) PROVE FALSE
  BY DEF s, r, d
<1>6. \A j \in 1..5 : s[i + j] = Delimiter[j]
  BY <1>2, <1>5 DEF Occurs
<1>7. CASE i + 5 <= Len(r)
  <2>1. Occurs(c, Delimiter, k + i)
    <3>1. k + i + 5 <= Len(c)
      BY <1>0, <1>1, <1>7
    <3>2. ASSUME NEW j \in 1..5 PROVE c[k + i + j] = Delimiter[j]
      <4>1. i + j \in 1..Len(r) /\ i + j \in 1..(Len(c) - k) /\ k + (i + j) = k + i + j
        BY <1>0, <1>1, <1>7
      <4> QED BY <1>1, <1>4, <1>6, <4>1
    <3> QED BY <1>2, <3>1, <3>2 DEF Occurs
  <2>2. k + i \in 0..Len(c)
    BY <1>0, <1>1, <1>7
  <2>3. Form!StartsWith(Form!Erase(c, k + i), Delimiter)
    BY <1>2, <2>1, <2>2, OccursIs
  <2> QED BY <2>2, <2>3, PartsAssumption, Delimiters DEF Form!Constants
<1>8. CASE i + 5 > Len(r)
  <2> DEFINE j == Len(r) - i + 1
  <2>1. j \in 2..5 /\ i + j = Len(r) + 1 /\ 1 \in 1..Len(d)
    <3>1. Len(r) \in Nat /\ i < Len(r) /\ Len(d) \in Nat /\ Len(d) > 1
      BY <1>0, <1>1, <1>3
    <3> QED BY <1>8, <3>1
  <2> HIDE DEF j
  <2>2. s[Len(r) + 1] = d[1] /\ d[1] = Delimiter[1]
    BY <1>3, <1>4, <2>1
  <2>3. s[i + j] = Delimiter[j]
    <3>1. j \in 1..5
      BY <2>1
    <3> QED BY <1>6, <3>1
  <2>4. Delimiter[1] = "r" /\ Delimiter[j] # "r"
    BY <2>1 DEF Delimiter
  <2> QED BY <2>1, <2>2, <2>3, <2>4
<1> QED BY <1>1, <1>7, <1>8

(* A buffer and what comes after it, and the same text parted differently.  *)
SameTexts(S, buf, rest, a, b) ==
  /\ buf \in Seq(S) /\ rest \in Seq(S) /\ a \in Seq(S) /\ b \in Seq(S)
  /\ buf \o rest = a \o b

LEMMA Agree ==
  ASSUME NEW S, NEW buf, NEW rest, NEW a, NEW b, SameTexts(S, buf, rest, a, b)
  PROVE  \A j \in 1..Len(buf) : j <= Len(a) => buf[j] = a[j]
<1>1. buf \in Seq(S) /\ rest \in Seq(S) /\ a \in Seq(S) /\ b \in Seq(S) /\ buf \o rest = a \o b
  BY DEF SameTexts
<1>2. /\ Len(buf) \in Nat /\ Len(a) \in Nat
      /\ \A j \in 1..Len(buf) : (buf \o rest)[j] = buf[j]
      /\ \A j \in 1..Len(a) : (a \o b)[j] = a[j]
  BY <1>1, JoinIs
<1>3. ASSUME NEW j \in 1..Len(buf), j <= Len(a) PROVE buf[j] = a[j]
  <2>1. j \in 1..Len(a)
    BY <1>2, <1>3
  <2> QED BY <1>1, <1>2, <2>1
<1> QED BY <1>3

LEMMA Reaches ==
  ASSUME NEW S, NEW buf, NEW rest, NEW a, NEW b, SameTexts(S, buf, rest, a, b), Len(a) <= Len(buf)
  PROVE  /\ Occurs(buf, a, 0) /\ Form!StartsWith(buf, a)
         /\ Form!Erase(buf, Len(a)) \in Seq(S) /\ Form!Erase(buf, Len(a)) \o rest = b
<1>1. buf \in Seq(S) /\ rest \in Seq(S) /\ a \in Seq(S) /\ b \in Seq(S) /\ buf \o rest = a \o b
  BY DEF SameTexts
<1>2. Len(buf) \in Nat /\ Len(a) \in Nat /\ Len(a) \in 0..Len(buf)
  BY <1>1
<1>3. \A j \in 1..Len(a) : buf[j] = a[j] /\ buf[0 + j] = a[j]
  <2> TAKE j \in 1..Len(a)
  <2>1. j \in 1..Len(buf) /\ j <= Len(a) /\ 0 + j = j
    BY <1>2
  <2> QED BY <2>1, Agree
<1>4. Occurs(buf, a, 0)
  BY <1>2, <1>3 DEF Occurs
<1>5. Form!StartsWith(buf, a)
  BY <1>1, <1>3, StartsIs
<1>6. Form!Erase(buf, Len(a)) \o rest = Form!Erase(a \o b, Len(a))
  <2>1. Form!Erase(buf \o rest, Len(a)) = Form!Erase(buf, Len(a)) \o rest
    BY <1>1, <1>2, EraseJoined
  <2> QED BY <1>1, <2>1
<1>7. Form!Erase(a \o b, Len(a)) = b
  BY <1>1, EraseFirst
<1>8. Form!Erase(buf, Len(a)) \in Seq(S)
  BY <1>1, <1>2, EraseIs
<1> QED BY <1>4, <1>5, <1>6, <1>7, <1>8

LEMMA EraseNone ==
  ASSUME NEW S, NEW s \in Seq(S)
  PROVE  Form!Erase(s, 0) = s
<1>1. Form!Erase(s, 0) = SubSeq(s, 1, Len(s))
  BY DEF Form!Erase
<1> QED BY <1>1, SubSeqFull

LEMMA EraseTwice ==
  ASSUME NEW S, NEW s \in Seq(S), NEW m \in Nat, NEW n \in Nat, m + n <= Len(s)
  PROVE  Form!Erase(Form!Erase(s, m), n) = Form!Erase(s, m + n)
<1> DEFINE u == Form!Erase(s, m)
           v == Form!Erase(u, n)
           w == Form!Erase(s, m + n)
<1>1. Len(s) \in Nat /\ m \in 0..Len(s) /\ m + n \in 0..Len(s)
  OBVIOUS
<1>2. u \in Seq(S) /\ Len(u) = Len(s) - m /\ \A i \in 1..(Len(s) - m) : u[i] = s[m + i]
  BY <1>1, EraseIs
<1>3. w \in Seq(S) /\ Len(w) = Len(s) - (m + n) /\ \A i \in 1..(Len(s) - (m + n)) : w[i] = s[m + n + i]
  BY <1>1, EraseIs
<1> HIDE DEF u, w
<1>4. n \in 0..Len(u)
  BY <1>1, <1>2
<1>5. v \in Seq(S) /\ Len(v) = Len(u) - n /\ \A i \in 1..(Len(u) - n) : v[i] = u[n + i]
  BY <1>2, <1>4, EraseIs
<1> HIDE DEF v
<1>6. Len(v) = Len(w)
  BY <1>1, <1>2, <1>3, <1>5
<1>7. ASSUME NEW i \in 1..Len(v) PROVE v[i] = w[i]
  <2>1. /\ i \in 1..(Len(u) - n) /\ n + i \in 1..(Len(s) - m) /\ i \in 1..(Len(s) - (m + n))
        /\ m + (n + i) = m + n + i
    BY <1>1, <1>2, <1>5, SMTT(30)
  <2> QED BY <1>2, <1>3, <1>5, <2>1
<1>8. v = w
  BY <1>3, <1>5, <1>6, <1>7, SameText
<1> QED BY <1>8 DEF u, v, w

-----------------------------------------------------------------------------
(* The parser, and where it stands: t is what it has not yet consumed.      *)

(* A parser one step further, field by field.                               *)
Records(A, B, C, D, E, F) == [state : A, buf : B, parts : C, valid : D, ok : E, waits : F]
Parsers == Records(0..4, Seq(Letters), Seq(Seq(Letters)), BOOLEAN, {TRUE}, BOOLEAN)
Is(q, s, b, c, v, w) ==
  q \in Parsers /\ q.state = s /\ q.buf = b /\ q.parts = c /\ q.valid = v /\ q.ok = TRUE /\ q.waits = w

LEMMA ParserFields ==
  ASSUME NEW p \in Parsers
  PROVE  /\ p.state \in 0..4 /\ p.buf \in Seq(Letters) /\ p.parts \in Seq(Seq(Letters))
         /\ p.valid \in BOOLEAN /\ p.ok = TRUE /\ p.waits \in BOOLEAN
BY DEF Parsers, Records

LEMMA ParserWith ==
  ASSUME NEW p \in Parsers
  PROVE  /\ \A s \in 0..4 :
               Is([p EXCEPT !.state = s], s, p.buf, p.parts, p.valid, p.waits)
         /\ Is([p EXCEPT !.waits = TRUE], p.state, p.buf, p.parts, p.valid, TRUE)
         /\ \A b \in Seq(Letters) :
               Is([p EXCEPT !.buf = b], p.state, b, p.parts, p.valid, p.waits)
         /\ \A b \in Seq(Letters), s \in 0..4 :
               Is([p EXCEPT !.buf = b, !.state = s], s, b, p.parts, p.valid, p.waits)
         /\ \A b \in Seq(Letters), s \in 0..4, c \in Seq(Seq(Letters)) :
               Is([p EXCEPT !.buf = b, !.state = s, !.parts = c], s, b, c, p.valid, p.waits)
         /\ \A b \in Seq(Letters), s \in 0..4, c \in Seq(Seq(Letters)) :
               Is([p EXCEPT !.parts = c, !.buf = b, !.state = s], s, b, c, p.valid, p.waits)
         /\ \A b \in Seq(Letters), c \in Seq(Seq(Letters)) :
               Is([[p EXCEPT !.parts = c, !.buf = b] EXCEPT !.waits = TRUE], p.state, b, c, p.valid, TRUE)
         /\ \A b \in Seq(Letters) :
               Is([p EXCEPT !.valid = TRUE, !.buf = b], p.state, b, p.parts, TRUE, p.waits)
         /\ \A b \in Seq(Letters) :
               Is([p EXCEPT !.buf = b, !.waits = FALSE], p.state, b, p.parts, p.valid, FALSE)
<1>1. ASSUME NEW s \in 0..4
      PROVE  Is([p EXCEPT !.state = s], s, p.buf, p.parts, p.valid, p.waits)
  BY DEF Parsers, Records, Is
<1>2. Is([p EXCEPT !.waits = TRUE], p.state, p.buf, p.parts, p.valid, TRUE)
  BY DEF Parsers, Records, Is
<1>3. ASSUME NEW b \in Seq(Letters)
      PROVE  Is([p EXCEPT !.buf = b], p.state, b, p.parts, p.valid, p.waits)
  BY DEF Parsers, Records, Is
<1>4. ASSUME NEW b \in Seq(Letters), NEW s \in 0..4
      PROVE  Is([p EXCEPT !.buf = b, !.state = s], s, b, p.parts, p.valid, p.waits)
  BY DEF Parsers, Records, Is
<1>5. ASSUME NEW b \in Seq(Letters), NEW s \in 0..4, NEW c \in Seq(Seq(Letters))
      PROVE  Is([p EXCEPT !.buf = b, !.state = s, !.parts = c], s, b, c, p.valid, p.waits)
  BY DEF Parsers, Records, Is
<1>6. ASSUME NEW b \in Seq(Letters), NEW s \in 0..4, NEW c \in Seq(Seq(Letters))
      PROVE  Is([p EXCEPT !.parts = c, !.buf = b, !.state = s], s, b, c, p.valid, p.waits)
  BY DEF Parsers, Records, Is
<1>7. ASSUME NEW b \in Seq(Letters), NEW c \in Seq(Seq(Letters))
      PROVE  Is([[p EXCEPT !.parts = c, !.buf = b] EXCEPT !.waits = TRUE], p.state, b, c, p.valid, TRUE)
  BY DEF Parsers, Records, Is
<1>8. ASSUME NEW b \in Seq(Letters)
      PROVE  Is([p EXCEPT !.valid = TRUE, !.buf = b], p.state, b, p.parts, TRUE, p.waits)
  BY DEF Parsers, Records, Is
<1>9. ASSUME NEW b \in Seq(Letters)
      PROVE  Is([p EXCEPT !.buf = b, !.waits = FALSE], p.state, b, p.parts, p.valid, FALSE)
  BY DEF Parsers, Records, Is
<1> QED BY <1>1, <1>2, <1>3, <1>4, <1>5, <1>6, <1>7, <1>8, <1>9

Complete(ps, n) == \A i \in 1..n : ps[i] = form[i]
Before(ps) == Len(ps) < N /\ Complete(ps, Len(ps))
Behind(ps) == Len(ps) \in 1..N /\ Complete(ps, Len(ps))
Handed(c, n, ps, t, i) == ps[i] = SubSeq(c, 1, n) /\ t = Form!Erase(c, n) \o (Delimiter \o After(i + 1))
Within(ps, t) ==
  /\ Len(ps) \in 1..N /\ Complete(ps, Len(ps) - 1)
  /\ \E n \in 0..Len(form[Len(ps)]) : Handed(form[Len(ps)], n, ps, t, Len(ps))

Stands(s, ps, t) ==
  \/ s = 0 /\ ps = <<>> /\ t = From[1]
  \/ s = 1 /\ Before(ps) /\ t = Entry(Len(ps) + 1)
  \/ s = 2 /\ Before(ps) /\ t \in {Entry(Len(ps) + 1), Crlf \o Part(Len(ps) + 1)}
  \/ s = 3 /\ Within(ps, t)
  \/ s = 4 /\ Behind(ps) /\ t = After(Len(ps) + 1)

(* What follows the last boundary is an empty line, or less.                *)
Closed(s, ps, t) == ps = form /\ ((s = 4 /\ Len(t) <= 2) \/ (s = 1 /\ t = <<>>))

Short(p) ==
  \/ p.state = 2 /\ Len(p.buf) <= 2
  \/ p.state = 3 /\ Len(p.buf) <= 5
  \/ p.state = 4 /\ (p.valid \/ Len(p.buf) < 2)

Fits(p, rest) ==
  /\ p \in Parsers /\ rest \in Seq(Letters)
  /\ IF p.valid THEN Closed(p.state, p.parts, p.buf \o rest) ELSE Stands(p.state, p.parts, p.buf \o rest)
  /\ p.waits => Short(p)

Turning(p, rest) ==
  /\ Fits(p, rest) /\ p.buf # <<>> /\ ~p.waits
  /\ p.state = 0 => Len(p.buf) >= 5
Turned(p, q, rest) == Fits(q, rest) /\ q.state # 0 /\ (p.valid => q.valid)

LEMMA Lengths ==
  /\ Len(Crlf) = 2 /\ Len(Dash) = 2 /\ Len(Delimiter) = 5 /\ Len(Boundary) = 5 /\ Len(Header) = 5
  /\ Crlf[1] = "r" /\ Crlf[2] = "n" /\ Dash[1] = "-"
  /\ \A i \in 1..2 : i = 1 \/ i = 2
BY DEF Crlf, Dash, Delimiter, Boundary, Header

LEMMA BoundaryTurn ==
  ASSUME form \in Form!Forms, NEW p, NEW rest, Turning(p, rest), p.state = 0
  PROVE  Turned(p, Form!InitialBoundary(p), rest)
<1>1. /\ p \in Parsers /\ rest \in Seq(Letters) /\ p.buf \in Seq(Letters) /\ Len(p.buf) >= 5
      /\ ~p.valid /\ p.parts = <<>> /\ p.buf \o rest = From[1] /\ ~p.waits
  <2>1. p \in Parsers /\ rest \in Seq(Letters)
    BY DEF Turning, Fits
  <2>2. p.buf \in Seq(Letters)
    BY <2>1, ParserFields
  <2> QED BY <2>1, <2>2 DEF Turning, Fits, Closed, Stands
<1>2. N \in Nat /\ 1 \in 1..N
  BY FormTypes
<1> DEFINE b == Entry(1)
           buf == p.buf
<1>3. From[1] = Boundary \o b /\ b \in Seq(Letters) /\ Boundary \in Seq(Letters) /\ buf \in Seq(Letters)
  BY <1>1, <1>2, AfterIs, Delimiters
<1> HIDE DEF b, buf
<1>4. SameTexts(Letters, buf, rest, Boundary, b) /\ Len(Boundary) <= Len(buf)
  BY <1>1, <1>3, Lengths DEF SameTexts, buf
<1>5. /\ Occurs(buf, Boundary, 0) /\ Form!Erase(buf, Len(Boundary)) \in Seq(Letters)
      /\ Form!Erase(buf, Len(Boundary)) \o rest = b
  BY <1>4, Reaches
<1>6. Form!Find(buf, Boundary) = 0
  <2>1. 0 \in Nat /\ \A i \in 0..(0 - 1) : ~Occurs(buf, Boundary, i)
    OBVIOUS
  <2> QED BY <1>3, <1>5, <2>1, FindFirst
<1>7. Form!Erase(buf, 0) = buf
  BY <1>3, EraseNone
<1> DEFINE b5 == Form!Erase(buf, Len(Boundary))
           q == [p EXCEPT !.buf = b5, !.state = 1]
<1>8. Form!InitialBoundary(p) = q
  <2>1. ~(Len(Boundary) > Len(buf))
    BY <1>1, <1>4 DEF buf
  <2> QED BY <1>6, <1>7, <2>1, Delimiters DEF Form!InitialBoundary, buf
<1>0. Is(q, 1, b5, p.parts, p.valid, p.waits)
  <2>1. b5 \in Seq(Letters) /\ 1 \in 0..4
    BY <1>5
  <2> HIDE DEF b5
  <2> QED BY <1>1, <2>1, ParserWith
<1> HIDE DEF q, b5
<1>9. q \in Parsers /\ q.buf = b5 /\ q.state = 1 /\ q.parts = p.parts /\ q.valid = p.valid /\ q.waits = p.waits
  BY <1>0 DEF Is
<1>10. Before(<<>>) /\ Len(<<>>) + 1 = 1
  BY <1>2 DEF Before, Complete
<1>11. Stands(q.state, q.parts, q.buf \o rest)
  BY <1>1, <1>5, <1>9, <1>10 DEF Stands, b, b5
<1>12. q.state # 0
  BY <1>9
<1> QED BY <1>1, <1>8, <1>9, <1>11, <1>12 DEF Turned, Fits

LEMMA EntryTurn ==
  ASSUME form \in Form!Forms, NEW p, NEW rest, Turning(p, rest), p.state = 1
  PROVE  Turned(p, Form!NewEntry(p), rest)
<1>1. p \in Parsers /\ rest \in Seq(Letters) /\ p.buf \in Seq(Letters) /\ p.buf # <<>> /\ ~p.waits
  <2>1. p \in Parsers /\ rest \in Seq(Letters)
    BY DEF Turning, Fits
  <2> QED BY <2>1, ParserFields DEF Turning
<1>2. p.buf \o rest # <<>>
  <2> DEFINE buf == p.buf
  <2>1. buf \in Seq(Letters) /\ buf # <<>>
    BY <1>1
  <2> HIDE DEF buf
  <2>2. Len(buf) > 0 /\ Len(buf \o rest) = Len(buf) + Len(rest) /\ Len(rest) \in Nat
    BY <1>1, <2>1
  <2>3. Len(<<>>) = 0
    OBVIOUS
  <2> QED BY <2>2, <2>3 DEF buf
<1>3. ~p.valid /\ Before(p.parts) /\ p.buf \o rest = Entry(Len(p.parts) + 1)
  BY <1>2, SMTT(30) DEF Turning, Fits, Closed, Stands
<1> DEFINE q == Form!NewEntry(p)
<1>0. Is(q, 2, p.buf, p.parts, p.valid, p.waits)
  <2>1. 2 \in 0..4
    OBVIOUS
  <2> QED BY <1>1, <2>1, ParserWith DEF Form!NewEntry
<1> HIDE DEF q
<1>4. q \in Parsers /\ q.buf = p.buf /\ q.state = 2 /\ q.parts = p.parts /\ q.valid = p.valid /\ q.waits = p.waits
  BY <1>0 DEF Is
<1>5. Stands(q.state, q.parts, q.buf \o rest)
  BY <1>3, <1>4 DEF Stands
<1>6. q.state # 0
  BY <1>4
<1> QED BY <1>1, <1>3, <1>4, <1>5, <1>6 DEF Turned, Fits, q
LEMMA WhenReading ==
  ASSUME NEW p, NEW rest, Turning(p, rest), ~p.valid
  PROVE  /\ p \in Parsers /\ rest \in Seq(Letters) /\ p.buf \in Seq(Letters) /\ p.parts \in Seq(Seq(Letters))
         /\ p.valid = FALSE /\ p.waits = FALSE /\ p.ok = TRUE /\ p.buf # <<>>
         /\ Stands(p.state, p.parts, p.buf \o rest)
<1>1. p \in Parsers /\ rest \in Seq(Letters) /\ p.buf # <<>> /\ ~p.waits
  BY DEF Turning, Fits
<1>2. /\ p.buf \in Seq(Letters) /\ p.parts \in Seq(Seq(Letters))
      /\ p.valid \in BOOLEAN /\ p.ok = TRUE /\ p.waits \in BOOLEAN
  BY <1>1, ParserFields
<1>3. Stands(p.state, p.parts, p.buf \o rest)
  BY DEF Turning, Fits
<1> QED BY <1>1, <1>2, <1>3

Reads(p, rest, q, s, b, c, w) ==
  /\ Turning(p, rest) /\ ~p.valid /\ Is(q, s, b, c, FALSE, w) /\ Stands(s, c, b \o rest) /\ s # 0
  /\ w => (s = 2 /\ Len(b) <= 2) \/ (s = 3 /\ Len(b) <= 5) \/ (s = 4 /\ Len(b) < 2)

LEMMA ThenReading ==
  ASSUME NEW p, NEW rest, NEW q, NEW s, NEW b, NEW c, NEW w, Reads(p, rest, q, s, b, c, w)
  PROVE  Turned(p, q, rest)
<1>0. /\ Turning(p, rest) /\ ~p.valid /\ Is(q, s, b, c, FALSE, w) /\ Stands(s, c, b \o rest) /\ s # 0
      /\ w => (s = 2 /\ Len(b) <= 2) \/ (s = 3 /\ Len(b) <= 5) \/ (s = 4 /\ Len(b) < 2)
  BY DEF Reads
<1>1. q \in Parsers /\ q.state = s /\ q.buf = b /\ q.parts = c /\ q.valid = FALSE /\ q.waits = w
  BY <1>0 DEF Is
<1>2. rest \in Seq(Letters)
  BY <1>0, WhenReading
<1>3. Stands(q.state, q.parts, q.buf \o rest)
  BY <1>0, <1>1
<1>4. q.waits => Short(q)
  BY <1>0, <1>1 DEF Short
<1>5. Fits(q, rest)
  BY <1>1, <1>2, <1>3, <1>4 DEF Fits
<1> QED BY <1>0, <1>1, <1>5 DEF Turned

(* A header line, or the empty one, in a buffer that has all of it or less. *)
LEMMA LineFound ==
  ASSUME NEW buf, NEW rest, NEW b, SameTexts(Letters, buf, rest, <<"h">> \o Crlf, b)
  PROVE  /\ Len(buf) \in Nat
         /\ Len(buf) <= 2 => Form!Find(buf, Crlf) = Len(buf)
         /\ Len(buf) >= 3 => /\ Form!Find(buf, Crlf) = 1 /\ Form!Erase(buf, 3) \in Seq(Letters)
                             /\ Form!Erase(buf, 3) \o rest = b
<1> DEFINE a == <<"h", "r", "n">>
<1>1. <<"h">> \o Crlf = a
  BY Tuples
<1>2. Len(a) = 3 /\ a[1] = "h" /\ a[2] = "r" /\ a[3] = "n"
  OBVIOUS
<1> HIDE DEF a
<1>3. SameTexts(Letters, buf, rest, a, b) /\ buf \in Seq(Letters) /\ Crlf \in Seq(Letters) /\ Len(buf) \in Nat
  <2>1. SameTexts(Letters, buf, rest, a, b)
    BY <1>1
  <2>2. buf \in Seq(Letters)
    BY <2>1 DEF SameTexts
  <2> QED BY <2>1, <2>2, Delimiters
<1>4. \A j \in 1..Len(buf) : j <= 3 => buf[j] = a[j]
  BY <1>2, <1>3, Agree
<1>5. ~Occurs(buf, Crlf, 0)
  <2> SUFFICES ASSUME Occurs(buf, Crlf, 0) PROVE FALSE
    OBVIOUS
  <2>1. 0 + 2 <= Len(buf) /\ buf[0 + 1] = Crlf[1]
    BY Lengths DEF Occurs
  <2>2. buf[1] = "r" /\ 1 \in 1..Len(buf) /\ 1 <= 3
    BY <1>3, <2>1, Lengths
  <2> QED BY <1>2, <1>4, <2>2
<1>6. ASSUME Len(buf) <= 2 PROVE Form!Find(buf, Crlf) = Len(buf)
  <2>1. ASSUME NEW i \in Nat PROVE ~Occurs(buf, Crlf, i)
    <3>1. CASE i = 0
      BY <1>5, <3>1
    <3>2. CASE i # 0
      <4>1. ~(i + 2 <= Len(buf))
        BY <1>3, <1>6, <3>2
      <4> QED BY <4>1, Lengths DEF Occurs
    <3> QED BY <3>1, <3>2
  <2> QED BY <1>3, <2>1, FindNothing
<1>7. ASSUME Len(buf) >= 3
      PROVE  /\ Form!Find(buf, Crlf) = 1 /\ Form!Erase(buf, 3) \in Seq(Letters)
             /\ Form!Erase(buf, 3) \o rest = b
  <2>1. 1 \in Nat /\ \A i \in 0..(1 - 1) : i = 0
    OBVIOUS
  <2>2. \A i \in 0..(1 - 1) : ~Occurs(buf, Crlf, i)
    BY <1>5, <2>1
  <2>3. Occurs(buf, Crlf, 1)
    <3>1. 2 \in 1..Len(buf) /\ 3 \in 1..Len(buf) /\ 2 <= 3 /\ 3 <= 3 /\ 1 + 2 <= Len(buf)
      BY <1>3, <1>7
    <3>2. buf[2] = "r" /\ buf[3] = "n"
      BY <1>2, <1>4, <3>1
    <3>3. buf[1 + 1] = "r" /\ buf[1 + 2] = "n"
      BY <3>2
    <3>4. \A j \in 1..2 : buf[1 + j] = Crlf[j]
      BY <3>3, Lengths
    <3> QED BY <3>1, <3>4, Lengths DEF Occurs
  <2>4. Form!Find(buf, Crlf) = 1
    BY <1>3, <2>1, <2>2, <2>3, FindFirst
  <2>5. Len(a) <= Len(buf)
    BY <1>2, <1>7
  <2>6. Form!Erase(buf, Len(a)) \in Seq(Letters) /\ Form!Erase(buf, Len(a)) \o rest = b
    BY <1>3, <2>5, Reaches
  <2> QED BY <1>2, <2>4, <2>6
<1> QED BY <1>3, <1>6, <1>7

LEMMA EmptyLineFound ==
  ASSUME NEW buf, NEW rest, NEW b, SameTexts(Letters, buf, rest, Crlf, b)
  PROVE  /\ Len(buf) \in Nat
         /\ Len(buf) < 2 => Form!Find(buf, Crlf) = Len(buf)
         /\ Len(buf) >= 2 => /\ Form!Find(buf, Crlf) = 0 /\ Form!Erase(buf, 2) \in Seq(Letters)
                             /\ Form!Erase(buf, 2) \o rest = b
<1>1. buf \in Seq(Letters) /\ Crlf \in Seq(Letters) /\ Len(buf) \in Nat
  <2>1. buf \in Seq(Letters)
    BY DEF SameTexts
  <2> QED BY <2>1, Delimiters
<1>2. ASSUME Len(buf) < 2 PROVE Form!Find(buf, Crlf) = Len(buf)
  <2>1. ASSUME NEW i \in Nat PROVE ~Occurs(buf, Crlf, i)
    <3>1. ~(i + 2 <= Len(buf))
      BY <1>1, <1>2
    <3> QED BY <3>1, Lengths DEF Occurs
  <2> QED BY <1>1, <2>1, FindNothing
<1>3. ASSUME Len(buf) >= 2
      PROVE  /\ Form!Find(buf, Crlf) = 0 /\ Form!Erase(buf, 2) \in Seq(Letters)
             /\ Form!Erase(buf, 2) \o rest = b
  <2>1. Len(Crlf) <= Len(buf)
    BY <1>3, Lengths
  <2>2. Occurs(buf, Crlf, 0) /\ Form!Erase(buf, Len(Crlf)) \in Seq(Letters) /\ Form!Erase(buf, Len(Crlf)) \o rest = b
    BY <2>1, Reaches
  <2>3. 0 \in Nat /\ \A i \in 0..(0 - 1) : ~Occurs(buf, Crlf, i)
    OBVIOUS
  <2>4. Form!Find(buf, Crlf) = 0
    BY <1>1, <2>2, <2>3, FindFirst
  <2> QED BY <2>2, <2>4, Lengths
<1> QED BY <1>1, <1>2, <1>3

LEMMA HeadersTurn ==
  ASSUME form \in Form!Forms, NEW p, NEW rest, Turning(p, rest), p.state = 2
  PROVE  Turned(p, Form!Headers(p), rest)
<1> DEFINE ps == p.parts
           buf == p.buf
           k == Len(ps) + 1
<1>1. ~p.valid
  BY DEF Turning, Fits, Closed
<1>2. /\ p \in Parsers /\ rest \in Seq(Letters) /\ buf \in Seq(Letters) /\ ps \in Seq(Seq(Letters)) /\ buf # <<>>
      /\ p.valid = FALSE /\ p.waits = FALSE /\ Stands(p.state, ps, buf \o rest)
  BY <1>1, WhenReading
<1>3. Before(ps) /\ (buf \o rest = Entry(k) \/ buf \o rest = Crlf \o Part(k))
  <2>1. p.state # 0 /\ p.state # 1 /\ p.state # 3 /\ p.state # 4
    OBVIOUS
  <2> QED BY <1>2, <2>1 DEF Stands
<1>4. N \in Nat /\ Len(ps) \in Nat /\ k \in 1..N /\ Len(buf) \in Nat
  BY <1>2, <1>3, FormTypes DEF Before
<1>5. Part(k) \in Seq(Letters) /\ Part(k) = form[k] \o (Delimiter \o After(k + 1)) /\ form[k] \in Seq(Letters)
  BY <1>4, AfterIs, FormTypes
<1>6. Len(Crlf) = 2 /\ Form!crlf_ = Crlf /\ Crlf \in Seq(Letters)
  BY Lengths, Delimiters
<1>7. p = [p EXCEPT !.buf = buf]
  BY <1>2 DEF Parsers, Records
<1> HIDE DEF ps, buf, k
<1>8. ASSUME Form!Find(buf, Crlf) = Len(buf), Len(buf) <= 2 PROVE Turned(p, Form!Headers(p), rest)
  <2> DEFINE q == Form!Headers(p)
  <2>1. Form!Headers(p) = [p EXCEPT !.waits = TRUE]
    BY <1>6, <1>8 DEF Form!Headers, Form!Wait, buf
  <2>2. Is(q, 2, buf, ps, FALSE, TRUE)
    BY <1>2, <2>1, ParserWith DEF buf, ps
  <2> HIDE DEF q
  <2>3. Stands(2, ps, buf \o rest)
    BY <1>2
  <2>4. Reads(p, rest, q, 2, buf, ps, TRUE)
    <3>1. 2 # 0
      OBVIOUS
    <3> QED BY <1>1, <1>8, <2>2, <2>3, <3>1 DEF Reads
  <2> QED BY <2>4, ThenReading DEF q
<1>9. CASE buf \o rest = Entry(k)
  <2> DEFINE b == Crlf \o Part(k)
  <2>1. Entry(k) = (<<"h">> \o Crlf) \o b /\ b \in Seq(Letters)
    <3> DEFINE a == <<"h", "r", "n">>
               c == Part(k)
    <3>1. a \in Seq(Letters) /\ <<"h">> \o Crlf = a /\ a \o Crlf = Header
      BY Tuples DEF Letters, Form!Letters
    <3>2. c \in Seq(Letters) /\ Entry(k) = Header \o c
      BY <1>5 DEF Entry
    <3> HIDE DEF a, c
    <3>a. a \in Seq(Letters) /\ Crlf \in Seq(Letters) /\ c \in Seq(Letters)
      BY <1>6, <3>1, <3>2
    <3>3. (a \o Crlf) \o c = a \o (Crlf \o c)
      BY <3>a, Regrouped, SMTT(30)
    <3>4. Crlf \o c \in Seq(Letters)
      BY <1>6, <3>2, JoinIs
    <3> QED BY <3>1, <3>2, <3>3, <3>4 DEF c
  <2> HIDE DEF b
  <2>2. <<"h">> \o Crlf \in Seq(Letters)
    <3>1. <<"h">> \o Crlf = <<"h", "r", "n">>
      BY Tuples
    <3>2. <<"h", "r", "n">> \in Seq(Letters)
      BY DEF Letters, Form!Letters
    <3> QED BY <3>1, <3>2
  <2>3. SameTexts(Letters, buf, rest, <<"h">> \o Crlf, b)
    BY <1>2, <1>9, <2>1, <2>2 DEF SameTexts
  <2>4. CASE Len(buf) <= 2
    BY <1>8, <2>3, <2>4, LineFound
  <2>5. CASE Len(buf) >= 3
    <3> DEFINE b3 == Form!Erase(buf, 3)
               q == [p EXCEPT !.buf = b3]
    <3>1. Form!Find(buf, Crlf) = 1 /\ b3 \in Seq(Letters) /\ b3 \o rest = b
      BY <2>3, <2>5, LineFound
    <3>2. Form!Headers(p) = q
      <4>1. 1 # Len(buf) /\ 1 # 0 /\ 1 + 2 = 3
        <5>1. 1 # Len(buf)
          <6> SUFFICES ASSUME Len(buf) = 1 PROVE FALSE
            OBVIOUS
          <6>1. 1 >= 3
            BY <2>5
          <6> QED BY <6>1
        <5>2. 1 # 0 /\ 1 + 2 = 3
          OBVIOUS
        <5> QED BY <5>1, <5>2
      <4> QED BY <1>6, <3>1, <4>1 DEF Form!Headers, buf
    <3> HIDE DEF b3
    <3>3. Is(q, 2, b3, ps, FALSE, FALSE)
      <4>1. Is(q, p.state, b3, p.parts, p.valid, p.waits)
        BY <1>2, <3>1, ParserWith
      <4> QED BY <1>2, <4>1 DEF ps
    <3> HIDE DEF q
    <3>4. Stands(2, ps, b3 \o rest)
      BY <1>3, <3>1 DEF Stands, b, k
    <3>5. Reads(p, rest, q, 2, b3, ps, FALSE)
      <4>1. 2 # 0
        OBVIOUS
      <4> QED BY <1>1, <3>3, <3>4, <4>1 DEF Reads
    <3> QED BY <3>2, <3>5, ThenReading
  <2> QED BY <1>4, <2>4, <2>5
<1>10. CASE buf \o rest = Crlf \o Part(k)
  <2> DEFINE b == Part(k)
  <2>1. SameTexts(Letters, buf, rest, Crlf, b)
    BY <1>2, <1>5, <1>6, <1>10 DEF SameTexts
  <2> HIDE DEF b
  <2>2. CASE Len(buf) < 2
    <3>1. Form!Find(buf, Crlf) = Len(buf) /\ Len(buf) <= 2
      BY <1>4, <2>1, <2>2, EmptyLineFound
    <3> QED BY <1>8, <3>1
  <2>3. CASE Len(buf) >= 2
    <3> DEFINE b2 == Form!Erase(buf, 2)
               c == Append(ps, <<>>)
               q == [p EXCEPT !.buf = b2, !.state = 3, !.parts = c]
    <3>1. Form!Find(buf, Crlf) = 0 /\ b2 \in Seq(Letters) /\ b2 \o rest = b
      BY <2>1, <2>3, EmptyLineFound
    <3>2. Form!Headers(p) = q
      <4>1. 0 # Len(buf)
        BY <1>4, <2>3
      <4> QED BY <1>6, <3>1, <4>1 DEF Form!Headers, buf, ps
    <3>3. c \in Seq(Seq(Letters)) /\ Len(c) = k /\ c[k] = <<>> /\ \A i \in 1..Len(ps) : c[i] = ps[i]
      <4> DEFINE S == Seq(Letters)
      <4>1. <<>> \in S /\ ps \in Seq(S)
        BY <1>2
      <4> HIDE DEF S
      <4>2. Append(ps, <<>>) \in Seq(S) /\ Len(Append(ps, <<>>)) = Len(ps) + 1
            /\ Append(ps, <<>>)[Len(ps) + 1] = <<>> /\ \A i \in 1..Len(ps) : Append(ps, <<>>)[i] = ps[i]
        BY <4>1
      <4> QED BY <4>2 DEF S, k
    <3> HIDE DEF b2, c
    <3>4. Is(q, 3, b2, c, FALSE, FALSE)
      <4>1. 3 \in 0..4
        OBVIOUS
      <4>2. Is(q, 3, b2, c, p.valid, p.waits)
        BY <1>2, <3>1, <3>3, <4>1, ParserWith
      <4> QED BY <1>2, <4>2
    <3> HIDE DEF q
    <3>5. Within(c, b)
      <4>1. Complete(c, k - 1)
        <5>1. k - 1 = Len(ps)
          BY <1>4 DEF k
        <5> QED BY <1>3, <3>3, <5>1 DEF Before, Complete
      <4>2. 0 \in 0..Len(form[k]) /\ SubSeq(form[k], 1, 0) = <<>> /\ Form!Erase(form[k], 0) = form[k]
        BY <1>5, EraseNone
      <4>3. Handed(form[k], 0, c, b, k)
        BY <1>5, <3>3, <4>2 DEF Handed, b
      <4>4. \E n \in 0..Len(form[k]) : Handed(form[k], n, c, b, k)
        BY <4>2, <4>3
      <4> QED BY <1>4, <3>3, <4>1, <4>4 DEF Within
    <3>6. Stands(3, c, b2 \o rest)
      BY <3>1, <3>5 DEF Stands
    <3>7. Reads(p, rest, q, 3, b2, c, FALSE)
      <4>1. 3 # 0
        OBVIOUS
      <4> QED BY <1>1, <3>4, <3>6, <4>1 DEF Reads
    <3> QED BY <3>2, <3>7, ThenReading
  <2> QED BY <1>4, <2>2, <2>3
<1> QED BY <1>3, <1>9, <1>10

(* A beginning, and more of what is left.                                   *)
LEMMA BeginOn ==
  ASSUME NEW S, NEW c \in Seq(S), NEW n \in Nat, NEW m \in Nat, n + m <= Len(c)
  PROVE  SubSeq(c, 1, n) \o SubSeq(Form!Erase(c, n), 1, m) = SubSeq(c, 1, n + m)
<1> DEFINE s == SubSeq(c, 1, n)
           r == Form!Erase(c, n)
           t == SubSeq(r, 1, m)
           u == SubSeq(c, 1, n + m)
<1>1. Len(c) \in Nat /\ n \in 0..Len(c) /\ n + m \in 0..Len(c) /\ n + m \in Nat
  OBVIOUS
<1>2. s \in Seq(S) /\ Len(s) = n /\ \A i \in 1..n : s[i] = c[i]
  BY <1>1, BeginIs
<1>3. r \in Seq(S) /\ Len(r) = Len(c) - n /\ \A i \in 1..(Len(c) - n) : r[i] = c[n + i]
  BY <1>1, EraseIs
<1> DEFINE e == n + m
<1>4. u \in Seq(S) /\ Len(u) = e /\ \A i \in 1..e : u[i] = c[i]
  <2>1. e \in 0..Len(c)
    BY <1>1
  <2> HIDE DEF e
  <2> QED BY <2>1, BeginIs DEF e
<1> HIDE DEF r, s, u
<1>5. m \in 0..Len(r)
  BY <1>1, <1>3
<1>6. t \in Seq(S) /\ Len(t) = m /\ \A i \in 1..m : t[i] = r[i]
  BY <1>3, <1>5, BeginIs
<1> HIDE DEF t
<1>7. AreJoined(S, s, t, u)
  <2>1. Len(u) = Len(s) + Len(t)
    BY <1>2, <1>4, <1>6
  <2>2. \A i \in 1..Len(s) : u[i] = s[i]
    BY <1>2, <1>4
  <2>3. ASSUME NEW i \in 1..Len(t) PROVE u[Len(s) + i] = t[i]
    <3>1. n + i \in 1..e /\ i \in 1..m /\ i \in 1..(Len(c) - n)
      BY <1>1, <1>6
    <3> QED BY <1>2, <1>3, <1>4, <1>6, <3>1
  <2> QED BY <1>2, <1>4, <1>6, <2>1, <2>2, <2>3 DEF AreJoined
<1>8. s \o t = u
  BY <1>7, JoinedAs
<1> QED BY <1>8 DEF r, s, t, u

(* The beginning of a buffer is that of what it begins with.                *)
LEMMA SameBeginning ==
  ASSUME NEW S, NEW buf, NEW rest, NEW a, NEW b, SameTexts(S, buf, rest, a, b),
         NEW n \in Nat, n <= Len(buf), n <= Len(a)
  PROVE  SubSeq(buf, 1, n) = SubSeq(a, 1, n)
<1> DEFINE s == SubSeq(buf, 1, n)
           t == SubSeq(a, 1, n)
<1>1. buf \in Seq(S) /\ a \in Seq(S) /\ \A j \in 1..Len(buf) : j <= Len(a) => buf[j] = a[j]
  BY Agree DEF SameTexts
<1>2. Len(buf) \in Nat /\ Len(a) \in Nat /\ n \in 0..Len(buf) /\ n \in 0..Len(a)
  BY <1>1
<1>3. s \in Seq(S) /\ Len(s) = n /\ \A i \in 1..n : s[i] = buf[i]
  BY <1>1, <1>2, BeginIs
<1>4. t \in Seq(S) /\ Len(t) = n /\ \A i \in 1..n : t[i] = a[i]
  BY <1>1, <1>2, BeginIs
<1> HIDE DEF s, t
<1>5. \A i \in 1..n : s[i] = t[i]
  <2> TAKE i \in 1..n
  <2>1. i \in 1..Len(buf) /\ i <= Len(a)
    BY <1>2
  <2> QED BY <1>1, <1>3, <1>4, <2>1
<1>6. s = t
  BY <1>3, <1>4, <1>5, SameText
<1> QED BY <1>6 DEF s, t

(* What ends a part is found in what begins with the rest of it.            *)
EndAt(c, n, t, buf, rest) ==
  /\ c \in Contents /\ c \in Seq(Letters) /\ n \in 0..Len(c) /\ t \in Seq(Letters)
  /\ SameTexts(Letters, buf, rest, Form!Erase(c, n), Delimiter \o t)

LEMMA NotBefore ==
  ASSUME NEW c, NEW n, NEW t, NEW buf, NEW rest, EndAt(c, n, t, buf, rest), NEW i \in Nat, i < Len(c) - n
  PROVE  ~Occurs(buf, Delimiter, i)
<1> DEFINE r == Form!Erase(c, n)
           d == Delimiter \o t
           u == r \o d
<1>1. /\ c \in Contents /\ c \in Seq(Letters) /\ n \in 0..Len(c) /\ t \in Seq(Letters)
      /\ buf \in Seq(Letters) /\ rest \in Seq(Letters) /\ r \in Seq(Letters) /\ d \in Seq(Letters) /\ buf \o rest = u
  BY DEF EndAt, SameTexts
<1>2. ~Occurs(u, Delimiter, i)
  BY <1>1, FirstDelimiter
<1> HIDE DEF r, d, u
<1>3. /\ Len(buf) \in Nat /\ Len(rest) \in Nat /\ Len(u) = Len(buf) + Len(rest) /\ \A j \in 1..Len(buf) : u[j] = buf[j]
  <2>1. buf \in Seq(Letters) /\ rest \in Seq(Letters)
    BY <1>1
  <2>2. /\ Len(buf) \in Nat /\ Len(rest) \in Nat /\ Len(buf \o rest) = Len(buf) + Len(rest)
        /\ \A j \in 1..Len(buf) : (buf \o rest)[j] = buf[j]
    BY <2>1, JoinIs
  <2> QED BY <1>1, <2>2
<1>4. SUFFICES ASSUME Occurs(buf, Delimiter, i) PROVE FALSE
  OBVIOUS
<1>5. i + 5 <= Len(buf) /\ \A j \in 1..5 : buf[i + j] = Delimiter[j]
  BY <1>4, Lengths DEF Occurs
<1>6. i + 5 <= Len(u)
  BY <1>3, <1>5
<1>7. \A j \in 1..5 : u[i + j] = Delimiter[j]
  <2> TAKE j \in 1..5
  <2>1. i + j \in 1..Len(buf)
    BY <1>3, <1>5, SMTT(30)
  <2> QED BY <1>3, <1>5, <2>1
<1>8. Occurs(u, Delimiter, i)
  BY <1>6, <1>7, Lengths DEF Occurs
<1> QED BY <1>2, <1>8

EndReached(c, n, t, buf, rest) == EndAt(c, n, t, buf, rest) /\ Len(buf) >= Len(c) - n + 5
EndIs(c, n, t, buf, rest) ==
  /\ Form!Find(buf, Delimiter) = Len(c) - n /\ SubSeq(buf, 1, Len(c) - n) = Form!Erase(c, n)
  /\ Form!Erase(buf, Len(c) - n + 5) \in Seq(Letters) /\ Form!Erase(buf, Len(c) - n + 5) \o rest = t

LEMMA EndFound ==
  ASSUME NEW c, NEW n, NEW t, NEW buf, NEW rest, EndReached(c, n, t, buf, rest)
  PROVE  EndIs(c, n, t, buf, rest)
<1>0. EndAt(c, n, t, buf, rest) /\ Len(buf) >= Len(c) - n + 5
  BY DEF EndReached
<1> DEFINE r == Form!Erase(c, n)
           d == Delimiter \o t
           a == r \o Delimiter
           k == Len(c) - n
<1>1. /\ c \in Seq(Letters) /\ n \in 0..Len(c) /\ t \in Seq(Letters) /\ SameTexts(Letters, buf, rest, r, d)
      /\ buf \in Seq(Letters) /\ rest \in Seq(Letters) /\ r \in Seq(Letters) /\ buf \o rest = r \o d
  BY <1>0 DEF EndAt, SameTexts
<1>2. Len(c) \in Nat /\ Len(buf) \in Nat /\ Len(r) = k /\ k \in Nat
  BY <1>1, EraseIs
<1>3. Delimiter \in Seq(Letters) /\ Len(Delimiter) = 5
  BY Lengths, Delimiters
<1> HIDE DEF r, d
<1>a. r \in Seq(Letters) /\ Delimiter \in Seq(Letters) /\ t \in Seq(Letters)
  BY <1>1, <1>3
<1>4. a \in Seq(Letters) /\ Len(a) = Len(r) + Len(Delimiter)
      /\ \A i \in 1..Len(Delimiter) : a[Len(r) + i] = Delimiter[i]
  BY <1>a, JoinIs
<1>5. a \o t = r \o d
  <2>1. (r \o Delimiter) \o t = r \o (Delimiter \o t)
    BY SMTT(30), <1>a, Regrouped
  <2> QED BY <2>1 DEF d
<1> HIDE DEF a
<1>6. SameTexts(Letters, buf, rest, a, t)
  BY <1>1, <1>4, <1>5 DEF SameTexts
<1> HIDE DEF k
<1>7. Len(a) = k + 5 /\ Len(a) <= Len(buf)
  <2>1. Len(a) = k + 5
    BY <1>2, <1>3, <1>4
  <2>2. Len(buf) >= k + 5
    BY <1>0 DEF k
  <2> QED BY <1>2, <2>1, <2>2
<1>8. /\ Occurs(buf, a, 0) /\ Form!Erase(buf, Len(a)) \in Seq(Letters) /\ Form!Erase(buf, Len(a)) \o rest = t
  BY <1>6, <1>7, Reaches
<1>9. Occurs(buf, Delimiter, k)
  <2>1. k + 5 <= Len(buf)
    BY <1>7
  <2>2. ASSUME NEW j \in 1..5 PROVE buf[k + j] = Delimiter[j]
    <3>1. k + j \in 1..Len(a) /\ k + j \in 1..Len(buf) /\ k + j <= Len(a)
      BY <1>2, <1>7
    <3>2. buf[k + j] = a[k + j]
      BY <1>6, <3>1, Agree
    <3> QED BY <1>2, <1>3, <1>4, <3>2
  <2> QED BY <1>3, <2>1, <2>2 DEF Occurs
<1>10. \A i \in 0..(k - 1) : ~Occurs(buf, Delimiter, i)
  <2> TAKE i \in 0..(k - 1)
  <2>1. i \in Nat /\ i < Len(c) - n
    BY <1>2 DEF k
  <2> QED BY <1>0, <2>1, NotBefore
<1>11. Form!Find(buf, Delimiter) = k
  BY <1>1, <1>2, <1>3, <1>9, <1>10, FindFirst
<1>12. SubSeq(buf, 1, k) = r
  <2>1. k \in Nat /\ k <= Len(buf) /\ k <= Len(r) /\ SameTexts(Letters, buf, rest, r, d)
    BY <1>1, <1>2, <1>7
  <2>2. SubSeq(buf, 1, k) = SubSeq(r, 1, k)
    BY <2>1, SameBeginning
  <2>3. SubSeq(r, 1, Len(r)) = r
    BY <1>1, SubSeqFull
  <2> QED BY <1>2, <2>2, <2>3
<1> QED BY <1>7, <1>8, <1>11, <1>12 DEF k, r, EndIs

LEMMA EndNotFound ==
  ASSUME NEW c, NEW n, NEW t, NEW buf, NEW rest, EndAt(c, n, t, buf, rest), Len(buf) < Len(c) - n + 5
  PROVE  Form!Find(buf, Delimiter) = Len(buf)
<1>1. c \in Seq(Letters) /\ n \in 0..Len(c) /\ buf \in Seq(Letters) /\ Delimiter \in Seq(Letters) /\ Len(Delimiter) = 5
  BY Lengths, Delimiters DEF EndAt, SameTexts
<1>2. Len(c) \in Nat /\ Len(buf) \in Nat
  BY <1>1
<1>3. ASSUME NEW i \in Nat PROVE ~Occurs(buf, Delimiter, i)
  <2>1. CASE i < Len(c) - n
    BY <2>1, NotBefore
  <2>2. CASE ~(i < Len(c) - n)
    <3>1. ~(i + 5 <= Len(buf))
      BY <1>1, <1>2, <2>2, SMTT(30)
    <3> QED BY <1>1, <3>1 DEF Occurs
  <2> QED BY <2>1, <2>2
<1> QED BY <1>1, <1>3, FindNothing

LEMMA Handing ==
  ASSUME NEW S, NEW ps \in Seq(Seq(S)), Len(ps) > 0, NEW s \in Seq(S)
  PROVE  LET c == [ps EXCEPT ![Len(ps)] = @ \o s] IN
         /\ c \in Seq(Seq(S)) /\ Len(c) = Len(ps) /\ c[Len(ps)] = ps[Len(ps)] \o s
         /\ \A i \in 1..(Len(ps) - 1) : c[i] = ps[i]
<1> DEFINE T == Seq(S)
           k == Len(ps)
           x == ps[k] \o s
           c == [ps EXCEPT ![k] = x]
<1>1. k \in Nat /\ k \in 1..Len(ps) /\ ps \in Seq(T)
  OBVIOUS
<1>2. ps[k] \in T
  <2> HIDE DEF T
  <2> QED BY <1>1
<1>3. x \in T
  BY <1>2, JoinIs
<1> HIDE DEF T, x
<1>4. c \in Seq(T) /\ Len(c) = k /\ c[k] = x /\ \A i \in 1..(k - 1) : c[i] = ps[i]
  BY <1>1, <1>3
<1> QED BY <1>4 DEF T, x

LEMMA BodyTurn ==
  ASSUME form \in Form!Forms, NEW p, NEW rest, Turning(p, rest), p.state = 3
  PROVE  Turned(p, Form!Body(p), rest)
<1> DEFINE ps == p.parts
           buf == p.buf
           k == Len(ps)
           c == form[k]
           t == After(k + 1)
<1>1. ~p.valid
  BY DEF Turning, Fits, Closed
<1>2. /\ p \in Parsers /\ rest \in Seq(Letters) /\ buf \in Seq(Letters) /\ ps \in Seq(Seq(Letters)) /\ buf # <<>>
      /\ p.valid = FALSE /\ p.waits = FALSE /\ Stands(p.state, ps, buf \o rest)
  BY <1>1, WhenReading
<1>3. Within(ps, buf \o rest)
  <2>1. p.state # 0 /\ p.state # 1 /\ p.state # 2 /\ p.state # 4
    OBVIOUS
  <2> QED BY <1>2, <2>1 DEF Stands
<1>4. k \in 1..N /\ Complete(ps, k - 1)
  BY <1>3 DEF Within
<1>5. PICK n \in 0..Len(c) : Handed(c, n, ps, buf \o rest, k)
  BY <1>3 DEF Within
<1>6. N \in Nat /\ Len(buf) \in Nat /\ k + 1 \in 1..(N + 1) /\ k \in Nat /\ k > 0
  BY <1>2, <1>4, FormTypes, SMTT(30)
<1>7. c \in Seq(Letters) /\ c \in Contents /\ t \in Seq(Letters) /\ Len(c) \in Nat /\ n \in Nat
  BY <1>4, <1>6, AfterIs, FormTypes, SMTT(30)
<1> HIDE DEF ps, buf, k, c, t
<1> DEFINE r == Form!Erase(c, n)
           d == Delimiter \o t
<1>8. ps[k] = SubSeq(c, 1, n) /\ buf \o rest = r \o d
  BY <1>5 DEF Handed, t
<1>9. r \in Seq(Letters) /\ d \in Seq(Letters) /\ Len(r) = Len(c) - n
  <2>1. r \in Seq(Letters) /\ Len(r) = Len(c) - n
    BY <1>5, <1>7, EraseIs
  <2>2. Delimiter \in Seq(Letters)
    BY Delimiters
  <2> QED BY <1>7, <2>1, <2>2, JoinIs
<1>10. EndAt(c, n, t, buf, rest)
  BY <1>2, <1>5, <1>7, <1>8, <1>9 DEF EndAt, SameTexts
<1>11. Form!crlf_dash_boundary_ = Delimiter /\ Len(Delimiter) = 5
  BY Lengths, Delimiters
<1> HIDE DEF r, d
<1> DEFINE Handing1(s) == [ps EXCEPT ![k] = @ \o s]
<1>12. ASSUME NEW s \in Seq(Letters)
       PROVE  /\ Handing1(s) \in Seq(Seq(Letters)) /\ Len(Handing1(s)) = k /\ Handing1(s)[k] = ps[k] \o s
              /\ Complete(Handing1(s), k - 1)
  <2>1. Len(ps) > 0
    BY <1>6 DEF k
  <2>2. /\ Handing1(s) \in Seq(Seq(Letters)) /\ Len(Handing1(s)) = k /\ Handing1(s)[k] = ps[k] \o s
        /\ \A i \in 1..(k - 1) : Handing1(s)[i] = ps[i]
    BY <1>2, <2>1, Handing DEF k
  <2> HIDE DEF Handing1
  <2>3. Complete(Handing1(s), k - 1)
    BY <1>4, <2>2 DEF Complete
  <2> QED BY <2>2, <2>3
<1> HIDE DEF Handing1
<1>13. CASE Len(buf) < 5
  <2> DEFINE q == Form!Body(p)
  <2>1. Form!Body(p) = [p EXCEPT !.waits = TRUE]
    <3>1. Len(buf) - 5 < 0
      BY <1>6, <1>13, SMTT(30)
    <3> QED BY <1>11, <3>1 DEF Form!Body, Form!Wait, buf
  <2>2. Is(q, 3, buf, ps, FALSE, TRUE)
    BY <1>2, <2>1, ParserWith DEF buf, ps
  <2> HIDE DEF q
  <2>3. Stands(3, ps, buf \o rest)
    BY <1>2
  <2>4. Reads(p, rest, q, 3, buf, ps, TRUE)
    <3>1. 3 # 0 /\ Len(buf) <= 5
      BY <1>6, <1>13
    <3> QED BY <1>1, <2>2, <2>3, <3>1 DEF Reads
  <2> QED BY <2>4, ThenReading DEF q
<1>14. CASE Len(buf) >= 5 /\ Len(buf) >= Len(c) - n + 5
  <2> DEFINE e == Len(c) - n
             s == SubSeq(buf, 1, e)
             b == Form!Erase(buf, e + 5)
             h == Handing1(s)
             q == [p EXCEPT !.parts = h, !.buf = b, !.state = 4]
  <2>1. Form!Find(buf, Delimiter) = e /\ s = r /\ b \in Seq(Letters) /\ b \o rest = t
    <3>1. Len(buf) >= Len(c) - n + 5
      BY <1>14
    <3>2. /\ Form!Find(buf, Delimiter) = Len(c) - n /\ SubSeq(buf, 1, Len(c) - n) = Form!Erase(c, n)
          /\ Form!Erase(buf, Len(c) - n + 5) \in Seq(Letters) /\ Form!Erase(buf, Len(c) - n + 5) \o rest = t
      <4>1. EndReached(c, n, t, buf, rest)
        BY <1>10, <3>1 DEF EndReached
      <4>2. EndIs(c, n, t, buf, rest)
        BY <4>1, EndFound
      <4> QED BY <4>2 DEF EndIs
    <3> QED BY <3>2 DEF r
  <2>2. Form!Body(p) = q
    <3>1. ~(Len(buf) - 5 < 0) /\ e < Len(buf)
      BY <1>5, <1>6, <1>7, <1>14
    <3> HIDE DEF e
    <3> QED BY <1>11, <2>1, <3>1 DEF Form!Body, Form!Hand, Handing1, buf, ps, k
  <2>3. s \in Seq(Letters)
    BY <1>9, <2>1
  <2> HIDE DEF s, b
  <2>4. h \in Seq(Seq(Letters)) /\ Len(h) = k /\ h[k] = ps[k] \o s /\ Complete(h, k - 1)
    BY <1>12, <2>3
  <2> HIDE DEF h
  <2>5. Is(q, 4, b, h, FALSE, FALSE)
    <3>1. 4 \in 0..4
      OBVIOUS
    <3>2. Is(q, 4, b, h, p.valid, p.waits)
      BY <1>2, <2>1, <2>4, <3>1, ParserWith
    <3> QED BY <1>2, <3>2
  <2> HIDE DEF q, e
  <2>6. h[k] = c
    <3>1. c = SubSeq(c, 1, n) \o Form!Erase(c, n)
      BY <1>5, <1>7, Parted
    <3> QED BY <1>8, <2>1, <2>4, <3>1 DEF r
  <2>7. Behind(h)
    <3>1. ASSUME NEW i \in 1..k PROVE h[i] = form[i]
      <4>1. CASE i = k
        BY <2>6, <4>1 DEF c
      <4>2. CASE i # k
        <5>1. i \in 1..(k - 1)
          BY <1>6, <4>2
        <5> QED BY <2>4, <5>1 DEF Complete
      <4> QED BY <4>1, <4>2
    <3> QED BY <1>4, <2>4, <3>1 DEF Behind, Complete
  <2>8. Stands(4, h, b \o rest)
    BY <2>1, <2>4, <2>7 DEF Stands, t
  <2>9. Reads(p, rest, q, 4, b, h, FALSE)
    <3>1. 4 # 0
      OBVIOUS
    <3> QED BY <1>1, <2>5, <2>8, <3>1 DEF Reads
  <2> QED BY <2>2, <2>9, ThenReading
<1>15. CASE Len(buf) >= 5 /\ Len(buf) < Len(c) - n + 5
  <2> DEFINE e == Len(buf) - 5
             s == SubSeq(buf, 1, e)
             b == Form!Erase(buf, e)
             h == Handing1(s)
             q == [[p EXCEPT !.parts = h, !.buf = b] EXCEPT !.waits = TRUE]
  <2>1. Form!Find(buf, Delimiter) = Len(buf)
    BY <1>10, <1>15, EndNotFound
  <2>2. e \in Nat /\ e <= Len(buf) /\ e <= Len(r) /\ n + e <= Len(c) /\ e \in 0..Len(buf) /\ e \in 0..Len(r)
        /\ Len(buf) - e = 5 /\ n + e \in 0..Len(c)
    BY <1>5, <1>6, <1>7, <1>9, <1>15
  <2>3. Form!Body(p) = q
    <3>1. ~(Len(buf) - 5 < 0) /\ ~(Len(buf) < Len(buf))
      BY <1>6, <1>15
    <3> QED BY <1>11, <2>1, <3>1 DEF Form!Body, Form!Hand, Form!Wait, Handing1, buf, ps, k
  <2> HIDE DEF e
  <2>4. s \in Seq(Letters) /\ b \in Seq(Letters) /\ Len(b) = 5
    BY <1>2, <2>2, BeginIs, EraseIs
  <2>5. s = SubSeq(r, 1, e)
    <3>1. SameTexts(Letters, buf, rest, r, d)
      BY <1>2, <1>8, <1>9 DEF SameTexts
    <3> QED BY <2>2, <3>1, SameBeginning
  <2>6. b \o rest = Form!Erase(c, n + e) \o (Delimiter \o t)
    <3>1. Form!Erase(buf \o rest, e) = Form!Erase(buf, e) \o rest
      BY <1>2, <2>2, EraseJoined
    <3>2. Form!Erase(r \o d, e) = Form!Erase(r, e) \o d
      BY <1>9, <2>2, EraseJoined
    <3>3. Form!Erase(r, e) = Form!Erase(c, n + e)
      BY <1>7, <2>2, EraseTwice DEF r
    <3> QED BY <1>8, <3>1, <3>2, <3>3 DEF d
  <2> HIDE DEF s, b
  <2>7. h \in Seq(Seq(Letters)) /\ Len(h) = k /\ h[k] = ps[k] \o s /\ Complete(h, k - 1)
    BY <1>12, <2>4
  <2> HIDE DEF h
  <2>8. Is(q, 3, b, h, FALSE, TRUE)
    <3>1. Is(q, p.state, b, h, p.valid, TRUE)
      BY <1>2, <2>4, <2>7, ParserWith
    <3> QED BY <1>2, <3>1
  <2> HIDE DEF q
  <2>9. h[k] = SubSeq(c, 1, n + e)
    <3>1. SubSeq(c, 1, n) \o SubSeq(Form!Erase(c, n), 1, e) = SubSeq(c, 1, n + e)
      BY <1>7, <2>2, BeginOn
    <3> QED BY <1>8, <2>5, <2>7, <3>1 DEF r
  <2>10. Handed(c, n + e, h, b \o rest, k)
    BY <2>6, <2>9 DEF Handed, t
  <2>11. Within(h, b \o rest)
    <3>1. \E m1 \in 0..Len(form[k]) : Handed(form[k], m1, h, b \o rest, k)
      BY <2>2, <2>10 DEF c
    <3> QED BY <1>4, <2>7, <3>1 DEF Within
  <2>12. Stands(3, h, b \o rest)
    BY <2>11 DEF Stands
  <2>13. Reads(p, rest, q, 3, b, h, TRUE)
    <3>1. 3 # 0 /\ Len(b) <= 5
      BY <2>4
    <3> QED BY <1>1, <2>8, <2>12, <3>1 DEF Reads
  <2> QED BY <2>3, <2>13, ThenReading
<1>16. Len(buf) < 5 \/ (Len(buf) >= 5 /\ Len(buf) >= Len(c) - n + 5) \/ (Len(buf) >= 5 /\ Len(buf) < Len(c) - n + 5)
  BY <1>6, <1>7
<1> QED BY <1>13, <1>14, <1>15, <1>16

LEMMA DelimiterTurn ==
  ASSUME form \in Form!Forms, NEW p, NEW rest, Turning(p, rest), p.state = 4, ~p.valid
  PROVE  Turned(p, Form!Boundary(p), rest)
<1> DEFINE ps == p.parts
           buf == p.buf
           k == Len(ps) + 1
           q == Form!Boundary(p)
<1>1. /\ p \in Parsers /\ rest \in Seq(Letters) /\ buf \in Seq(Letters) /\ ps \in Seq(Seq(Letters)) /\ buf # <<>>
      /\ p.valid = FALSE /\ p.waits = FALSE /\ Stands(p.state, ps, buf \o rest)
  BY WhenReading
<1>2. Behind(ps) /\ buf \o rest = After(k)
  <2>1. p.state # 0 /\ p.state # 1 /\ p.state # 2 /\ p.state # 3
    OBVIOUS
  <2> QED BY <1>1, <2>1 DEF Stands
<1>3. N \in Nat /\ Len(ps) \in 1..N /\ k \in 1..(N + 1) /\ Len(buf) \in Nat
  <2>1. Len(ps) \in 1..N /\ N \in Nat
    BY <1>2, FormTypes DEF Behind
  <2> QED BY <1>1, <2>1
<1>4. /\ Len(Crlf) = 2 /\ Form!crlf_ = Crlf /\ Crlf \in Seq(Letters)
      /\ Len(Dash) = 2 /\ Form!dash_ = Dash /\ Dash \in Seq(Letters)
  BY Lengths, Delimiters
<1> HIDE DEF ps, buf, k, q
<1>5. CASE Len(buf) < 2
  <2>1. Form!Boundary(p) = [p EXCEPT !.waits = TRUE]
    BY SMTT(30), <1>4, <1>5 DEF Form!Boundary, Form!Wait, buf
  <2>2. Is(q, 4, buf, ps, FALSE, TRUE)
    BY <1>1, <2>1, ParserWith DEF buf, ps, q
  <2>3. Stands(4, ps, buf \o rest)
    BY <1>1
  <2>4. Reads(p, rest, q, 4, buf, ps, TRUE)
    <3>1. 4 # 0
      OBVIOUS
    <3> QED BY <1>5, <2>2, <2>3, <3>1 DEF Reads
  <2> QED BY <2>4, ThenReading DEF q
<1>6. CASE Len(buf) >= 2 /\ k <= N
  <2> DEFINE b == Entry(k)
             b2 == Form!Erase(buf, 2)
  <2>1. buf \o rest = Crlf \o b /\ k \in 1..N
    BY <1>2, <1>3, <1>6 DEF After
  <2>2. b \in Seq(Letters)
    BY <2>1, AfterIs
  <2> HIDE DEF b
  <2>3. SameTexts(Letters, buf, rest, Crlf, b)
    BY <1>1, <1>4, <2>1, <2>2 DEF SameTexts
  <2>4. Form!StartsWith(buf, Crlf) /\ b2 \in Seq(Letters) /\ b2 \o rest = b
    <3>1. Len(Crlf) <= Len(buf)
      BY <1>4, <1>6
    <3>2. Form!StartsWith(buf, Crlf) /\ Form!Erase(buf, Len(Crlf)) \in Seq(Letters) /\ Form!Erase(buf, Len(Crlf)) \o rest = b
      BY <2>3, <3>1, Reaches
    <3> QED BY <1>4, <3>2
  <2>5. q = [p EXCEPT !.buf = b2, !.state = 1]
    <3>1. ~(Len(buf) < 2)
      BY <1>3, <1>6
    <3> QED BY <1>4, <2>4, <3>1 DEF Form!Boundary, buf, q
  <2> HIDE DEF b2
  <2>6. Is(q, 1, b2, ps, FALSE, FALSE)
    <3>1. 1 \in 0..4
      OBVIOUS
    <3>2. Is(q, 1, b2, p.parts, p.valid, p.waits)
      BY <1>1, <2>4, <2>5, <3>1, ParserWith
    <3> QED BY <1>1, <3>2 DEF ps
  <2>7. Before(ps)
    <3>1. Len(ps) < N
      BY <1>3, <2>1 DEF k
    <3> QED BY <1>2, <3>1 DEF Before, Behind
  <2>8. Stands(1, ps, b2 \o rest)
    BY <2>4, <2>7 DEF Stands, b, k
  <2>9. Reads(p, rest, q, 1, b2, ps, FALSE)
    <3>1. 1 # 0
      OBVIOUS
    <3> QED BY <2>6, <2>8, <3>1 DEF Reads
  <2> QED BY <2>9, ThenReading DEF q
<1>7. CASE Len(buf) >= 2 /\ ~(k <= N)
  <2>1. buf \o rest = Dash \o Crlf /\ Len(ps) = N
    <3>1. Len(ps) = N
      BY <1>3, <1>7 DEF k
    <3> QED BY <1>2, <1>7, <3>1 DEF After
  <2>2. SameTexts(Letters, buf, rest, Dash, Crlf)
    BY <1>1, <1>4, <2>1 DEF SameTexts
  <2>3. Len(Dash) <= Len(buf)
    BY <1>4, <1>7
  <2>4. Form!StartsWith(buf, Dash)
    BY <2>2, <2>3, Reaches
  <2>5. ~Form!StartsWith(buf, Crlf)
    <3> SUFFICES ASSUME Form!StartsWith(buf, Crlf) PROVE FALSE
      OBVIOUS
    <3>1. 1 \in 1..Len(buf) /\ 1 <= Len(Dash) /\ 1 \in 1..Len(Crlf)
      BY <1>3, <1>4, <1>7
    <3>2. buf[1] = Dash[1]
      BY <2>2, <3>1, Agree
    <3>a. buf \in Seq(Letters) /\ Crlf \in Seq(Letters) /\ Form!StartsWith(buf, Crlf)
      BY <1>1, <1>4
    <3>b. \A j \in 1..Len(Crlf) : buf[j] = Crlf[j]
      BY <3>a, StartsIs
    <3>3. buf[1] = Crlf[1]
      BY <3>1, <3>b
    <3> QED BY <3>2, <3>3, Lengths
  <2>6. q = [p EXCEPT !.valid = TRUE, !.buf = <<>>]
    <3>1. ~(Len(buf) < 2)
      BY <1>3, <1>7
    <3> QED BY <1>4, <2>4, <2>5, <3>1 DEF Form!Boundary, buf, q
  <2>7. Is(q, 4, <<>>, ps, TRUE, FALSE)
    <3>1. <<>> \in Seq(Letters)
      OBVIOUS
    <3>2. Is(q, p.state, <<>>, p.parts, TRUE, p.waits)
      BY <1>1, <2>6, <3>1, ParserWith
    <3> QED BY <1>1, <3>2 DEF ps
  <2>8. ps = form
    <3> DEFINE S == Seq(Letters)
    <3>1. ps \in Seq(S) /\ Len(ps) = N /\ \A i \in 1..Len(ps) : ps[i] = form[i]
      BY <1>1, <1>2, <2>1 DEF Behind, Complete
    <3>2. form \in Seq(S)
      <4>1. PICK n1 \in 1..MaxParts : form \in [1..n1 -> Contents]
        BY DEF Form!Forms
      <4>2. MaxParts \in Nat /\ Contents \subseteq S
        BY PartsAssumption DEF Form!Constants, Letters
      <4> HIDE DEF S
      <4>3. form \in [1..n1 -> S] /\ n1 \in Nat
        BY <4>1, <4>2
      <4> QED BY <4>3
    <3> HIDE DEF S
    <3>3. Len(ps) = Len(form)
      BY <3>1 DEF N
    <3> QED BY <3>1, <3>2, <3>3, SameText
  <2>9. Len(<<>> \o rest) <= 2
    <3>1. Len(buf \o rest) = Len(buf) + Len(rest) /\ Len(rest) \in Nat /\ Len(Dash \o Crlf) = Len(Dash) + Len(Crlf)
      BY <1>1, <1>4, JoinIs, ZenonT(60)
    <3>2. <<>> \o rest = rest
      BY <1>1
    <3> QED BY <1>3, <1>4, <1>7, <2>1, <3>1, <3>2
  <2>10. q \in Parsers /\ q.state = 4 /\ q.buf = <<>> /\ q.parts = ps /\ q.valid = TRUE /\ q.waits = FALSE
    BY <2>7 DEF Is
  <2>11. Closed(q.state, q.parts, q.buf \o rest)
    BY <2>8, <2>9, <2>10 DEF Closed
  <2>12. Fits(q, rest)
    BY <1>1, <2>10, <2>11 DEF Fits
  <2>13. q.state # 0
    BY <2>10
  <2> QED BY <2>12, <2>13 DEF Turned, q
<1>8. Len(buf) < 2 \/ (Len(buf) >= 2 /\ k <= N) \/ (Len(buf) >= 2 /\ ~(k <= N))
  BY <1>3
<1> QED BY <1>5, <1>6, <1>7, <1>8

(* Once the last boundary is read, what follows is taken for more of it.    *)
LEMMA EpilogueTurn ==
  ASSUME NEW p, NEW rest, Turning(p, rest), p.valid
  PROVE  p.state = 4 /\ Turned(p, Form!Boundary(p), rest)
<1> DEFINE ps == p.parts
           buf == p.buf
           q == Form!Boundary(p)
<1>1. p \in Parsers /\ rest \in Seq(Letters) /\ ~p.waits /\ buf # <<>> /\ Closed(p.state, ps, buf \o rest)
  BY DEF Turning, Fits
<1>2. /\ buf \in Seq(Letters) /\ p.valid = TRUE /\ p.waits = FALSE /\ ps \in Seq(Seq(Letters))
  BY <1>1, ParserFields
<1> HIDE DEF ps, buf, q
<1>3. /\ Len(buf) \in Nat /\ Len(rest) \in Nat /\ Len(buf) > 0
      /\ buf \o rest \in Seq(Letters) /\ Len(buf \o rest) = Len(buf) + Len(rest)
  BY <1>1, <1>2, JoinIs
<1>4. p.state = 4 /\ ps = form /\ Len(buf \o rest) <= 2
  <2>1. buf \o rest # <<>>
    <3> SUFFICES ASSUME buf \o rest = <<>> PROVE FALSE
      OBVIOUS
    <3>1. Len(buf \o rest) = 0
      OBVIOUS
    <3> QED BY <1>3, <3>1
  <2> QED BY <1>1, <2>1 DEF Closed
<1>5. Len(Crlf) = 2 /\ Form!crlf_ = Crlf /\ Form!dash_ = Dash
  BY Lengths, Delimiters
<1>6. ASSUME q = [p EXCEPT !.waits = TRUE] PROVE Turned(p, q, rest)
  <2>1. Is(q, 4, buf, ps, TRUE, TRUE)
    <3>1. Is(q, p.state, p.buf, p.parts, p.valid, TRUE)
      BY <1>1, <1>6, ParserWith
    <3> QED BY <1>2, <1>4, <3>1 DEF buf, ps
  <2>2. q \in Parsers /\ q.state = 4 /\ q.buf = buf /\ q.parts = ps /\ q.valid = TRUE /\ q.waits = TRUE
    BY <2>1 DEF Is
  <2>3. Closed(q.state, q.parts, q.buf \o rest) /\ Short(q) /\ q.state # 0
    BY <1>1, <1>4, <2>2 DEF Closed, Short
  <2> QED BY <1>1, <2>2, <2>3 DEF Fits, Turned
<1>7. CASE Len(buf) < 2
  <2>1. q = [p EXCEPT !.waits = TRUE]
    BY <1>5, <1>7 DEF Form!Boundary, Form!Wait, buf, q
  <2> QED BY <1>4, <1>6, <2>1 DEF q
<1>8. CASE Len(buf) >= 2 /\ Form!StartsWith(buf, Crlf)
  <2> DEFINE b2 == Form!Erase(buf, 2)
  <2>1. q = [p EXCEPT !.buf = b2, !.state = 1]
    <3>1. ~(Len(buf) < 2)
      BY <1>3, <1>8
    <3> QED BY <1>5, <1>8, <3>1 DEF Form!Boundary, buf, q
  <2>2. Len(buf) = 2 /\ Len(rest) = 0
    <3>1. Len(buf) + Len(rest) <= 2 /\ Len(buf) >= 2
      BY <1>3, <1>4, <1>8
    <3>2. PICK x \in Nat, y \in Nat : x = Len(buf) /\ y = Len(rest)
      BY <1>3
    <3>3. x + y <= 2 /\ x >= 2
      BY <3>1, <3>2
    <3>4. x = 2 /\ y = 0
      BY <3>3
    <3> QED BY <3>2, <3>4
  <2>3. b2 \in Seq(Letters) /\ Len(b2) = 0
    <3>1. 2 \in 0..Len(buf)
      BY <2>2
    <3>2. b2 \in Seq(Letters) /\ Len(b2) = Len(buf) - 2
      BY <1>2, <3>1, EraseIs
    <3> HIDE DEF b2
    <3> QED BY <2>2, <3>2
  <2> HIDE DEF b2
  <2>4. b2 \o rest = <<>>
    <3>1. b2 = <<>> /\ rest = <<>>
      BY <1>1, <2>2, <2>3, EmptySeq
    <3> QED BY <3>1
  <2>5. Is(q, 1, b2, ps, TRUE, FALSE)
    <3>1. 1 \in 0..4
      OBVIOUS
    <3>2. Is(q, 1, b2, p.parts, p.valid, p.waits)
      BY <1>1, <2>1, <2>3, <3>1, ParserWith
    <3> QED BY <1>2, <3>2 DEF ps
  <2>6. q \in Parsers /\ q.state = 1 /\ q.buf = b2 /\ q.parts = ps /\ q.valid = TRUE /\ q.waits = FALSE
    BY <2>5 DEF Is
  <2>7. Closed(q.state, q.parts, q.buf \o rest) /\ q.state # 0
    BY <1>4, <2>4, <2>6 DEF Closed
  <2> QED BY <1>1, <1>4, <2>6, <2>7 DEF Fits, Turned, q
<1>9. CASE Len(buf) >= 2 /\ ~Form!StartsWith(buf, Crlf) /\ Form!StartsWith(buf, Dash)
  <2>1. q = [p EXCEPT !.valid = TRUE, !.buf = <<>>]
    <3>1. ~(Len(buf) < 2)
      BY <1>3, <1>9
    <3> QED BY <1>5, <1>9, <3>1 DEF Form!Boundary, buf, q
  <2>2. Is(q, 4, <<>>, ps, TRUE, FALSE)
    <3>1. <<>> \in Seq(Letters)
      OBVIOUS
    <3>2. Is(q, p.state, <<>>, p.parts, TRUE, p.waits)
      BY <1>1, <2>1, <3>1, ParserWith
    <3> QED BY <1>2, <1>4, <3>2 DEF ps
  <2>3. q \in Parsers /\ q.state = 4 /\ q.buf = <<>> /\ q.parts = ps /\ q.valid = TRUE /\ q.waits = FALSE
    BY <2>2 DEF Is
  <2>4. Len(<<>> \o rest) <= 2
    <3>1. <<>> \o rest = rest
      BY <1>1
    <3> QED BY <1>3, <1>4, <3>1
  <2>5. Closed(q.state, q.parts, q.buf \o rest) /\ q.state # 0
    BY <1>4, <2>3, <2>4 DEF Closed
  <2> QED BY <1>1, <1>4, <2>3, <2>5 DEF Fits, Turned, q
<1>10. CASE Len(buf) >= 2 /\ ~Form!StartsWith(buf, Crlf) /\ ~Form!StartsWith(buf, Dash)
  <2>1. q = [p EXCEPT !.waits = TRUE]
    <3>1. ~(Len(buf) < 2)
      BY <1>3, <1>10
    <3> QED BY <1>5, <1>10, <3>1 DEF Form!Boundary, Form!Wait, buf, q
  <2> QED BY <1>4, <1>6, <2>1 DEF q
<1>11. Len(buf) < 2 \/ Len(buf) >= 2
  BY <1>3
<1> QED BY <1>7, <1>8, <1>9, <1>10, <1>11

LEMMA TurnFits ==
  ASSUME form \in Form!Forms, NEW p, NEW rest, Turning(p, rest)
  PROVE  Turned(p, Form!Turn(p), rest)
<1>1. p.state \in 0..4
  BY ParserFields DEF Turning, Fits
<1>2. CASE p.valid
  <2>1. p.state = 4
    BY <1>2, EpilogueTurn
  <2>2. Form!Turn(p) = Form!Boundary(p)
    BY <2>1 DEF Form!Turn
  <2> QED BY <1>2, <2>2, EpilogueTurn
<1>3. CASE ~p.valid
  <2>1. CASE p.state = 0
    BY <2>1, BoundaryTurn DEF Form!Turn
  <2>2. CASE p.state = 1
    BY <2>2, EntryTurn DEF Form!Turn
  <2>3. CASE p.state = 2
    BY <2>3, HeadersTurn DEF Form!Turn
  <2>4. CASE p.state = 3
    BY <2>4, BodyTurn DEF Form!Turn
  <2>5. CASE p.state = 4
    BY <1>3, <2>5, DelimiterTurn DEF Form!Turn
  <2> QED BY <1>1, <2>1, <2>2, <2>3, <2>4, <2>5
<1> QED BY <1>2, <1>3

-----------------------------------------------------------------------------
(* A form on its way: the parser stands where what it has buffered and what *)
(* is not yet read continue the form from.                                  *)
Rest == Form!Erase(From[1], position)
Begun == parser.state = 0 => (position = 0 /\ parser.buf = <<>>) \/ Len(parser.buf) >= 5
Accepted == outcome # "none" => outcome = "good" /\ parser.valid = TRUE

FormInv ==
  /\ form \in Form!Forms /\ position \in 0..Len(From[1])
  /\ Fits(parser, Rest) /\ Begun /\ Accepted

LEMMA FitsStill ==
  ASSUME form' = form, NEW CONSTANT q, NEW CONSTANT t, Fits(q, t), parser' = q, Rest' = t
  PROVE  Fits(parser, Rest)'
<1>1. From' = From /\ N' = N
  BY DEF From, N
<1>2. Closed(parser.state, parser.parts, parser.buf \o Rest)' <=> Closed(q.state, q.parts, q.buf \o t)
  BY DEF Closed
<1>3. Before(parser.parts)' <=> Before(q.parts)
  BY <1>1 DEF Before, Complete
<1>4. Behind(parser.parts)' <=> Behind(q.parts)
  BY <1>1 DEF Behind, Complete
<1>5. /\ Part(Len(parser.parts) + 1)' = Part(Len(q.parts) + 1)
      /\ Entry(Len(parser.parts) + 1)' = Entry(Len(q.parts) + 1)
      /\ After(Len(parser.parts) + 1)' = After(Len(q.parts) + 1)
  BY <1>1 DEF After, Entry, Part
<1>6. Within(parser.parts, parser.buf \o Rest)' <=> Within(q.parts, q.buf \o t)
  BY <1>1 DEF Within, Handed, Complete, After, Entry, Part
<1>7. Stands(parser.state, parser.parts, parser.buf \o Rest)' <=> Stands(q.state, q.parts, q.buf \o t)
  BY <1>1, <1>3, <1>4, <1>5, <1>6 DEF Stands
<1>8. Short(parser)' <=> Short(q)
  BY DEF Short
<1> QED BY <1>2, <1>7, <1>8 DEF Fits

LEMMA TextIs ==
  ASSUME form \in Form!Forms
  PROVE  From[1] \in Seq(Letters) /\ Len(From[1]) \in Nat /\ Form!Text = From[1] /\ Len(From[1]) > 5
<1>1. N \in Nat /\ 1 \in 1..N /\ 1 \in 1..(N + 1)
  BY FormTypes
<1>2. From[1] \in Seq(Letters) /\ From[1] = Boundary \o Entry(1) /\ Entry(1) \in Seq(Letters) /\ Part(1) \in Seq(Letters)
  BY <1>1, FromIs, AfterIs
<1>3. Form!Text = From[1]
  BY DEF Form!Text, From
<1>4. Boundary \in Seq(Letters) /\ Header \in Seq(Letters) /\ Len(Boundary) = 5 /\ Len(Header) = 5
  BY Lengths, Delimiters
<1> DEFINE b == Entry(1)
           c == Part(1)
<1>5. Len(b) = Len(Header) + Len(c) /\ Len(c) \in Nat
  <2>1. Header \in Seq(Letters) /\ c \in Seq(Letters) /\ b = Header \o c
    BY <1>2, <1>4 DEF Entry
  <2> HIDE DEF b, c
  <2> QED BY <2>1, JoinIs
<1>6. Len(Boundary \o b) = Len(Boundary) + Len(b) /\ Len(b) \in Nat
  <2>1. Boundary \in Seq(Letters) /\ b \in Seq(Letters)
    BY <1>2, <1>4
  <2> HIDE DEF b
  <2> QED BY <2>1, JoinIs
<1>7. Len(From[1]) \in Nat /\ Len(From[1]) > 5
  <2> HIDE DEF b, c
  <2>1. From[1] = Boundary \o b
    BY <1>2 DEF b
  <2> QED BY <1>4, <1>5, <1>6, <2>1
<1> QED BY <1>2, <1>3, <1>7

LEMMA FormBegins == Form!Init => FormInv
<1> SUFFICES ASSUME Form!Init PROVE FormInv
  OBVIOUS
<1>1. /\ form \in Form!Forms /\ position = 0 /\ outcome = "none"
      /\ parser = [state |-> 0, buf |-> <<>>, parts |-> <<>>, valid |-> FALSE, ok |-> TRUE, waits |-> FALSE]
  BY DEF Form!Init
<1>2. From[1] \in Seq(Letters) /\ Len(From[1]) \in Nat
  BY <1>1, TextIs
<1>3. Rest = From[1]
  BY <1>1, <1>2, EraseNone DEF Rest
<1>4. parser \in Parsers
  <2>1. <<>> \in Seq(Letters) /\ <<>> \in Seq(Seq(Letters)) /\ 0 \in 0..4
    OBVIOUS
  <2> QED BY <1>1, <2>1 DEF Parsers, Records
<1>5. <<>> \o From[1] = From[1]
  BY <1>2
<1>6. parser.valid = FALSE /\ parser.state = 0 /\ parser.parts = <<>> /\ parser.buf = <<>> /\ parser.waits = FALSE
  BY <1>1
<1>7. Stands(parser.state, parser.parts, parser.buf \o Rest)
  BY <1>3, <1>5, <1>6 DEF Stands
<1>8. Fits(parser, Rest)
  BY <1>2, <1>3, <1>4, <1>6, <1>7 DEF Fits
<1>9. position \in 0..Len(From[1])
  BY <1>1, <1>2
<1> QED BY <1>1, <1>6, <1>8, <1>9 DEF FormInv, Begun, Accepted

LEMMA ParseStep ==
  ASSUME FormInv, Form!Parse
  PROVE  FormInv'
<1>1. /\ form \in Form!Forms /\ position \in 0..Len(From[1]) /\ Fits(parser, Rest) /\ Begun /\ Accepted
      /\ parser.buf # <<>> /\ ~parser.waits /\ parser.ok /\ parser' = Form!Turn(parser)
      /\ outcome' = (IF parser'.ok THEN outcome ELSE "bad_request") /\ form' = form /\ position' = position
  BY DEF FormInv, Form!Parse, Form!Parsing
<1>2. From' = From /\ Rest' = Rest
  BY <1>1 DEF From, Rest
<1>3. Turning(parser, Rest)
  BY <1>1 DEF Turning, Begun
<1>4. Turned(parser, Form!Turn(parser), Rest)
  BY <1>1, <1>3, TurnFits
<1>5. PICK q : q = Form!Turn(parser)
  OBVIOUS
<1>6. PICK t : t = Rest
  OBVIOUS
<1>7. Fits(q, t) /\ q.state # 0 /\ (parser.valid => q.valid)
  BY <1>4, <1>5, <1>6 DEF Turned
<1>8. Fits(parser, Rest)'
  BY <1>1, <1>2, <1>5, <1>6, <1>7, FitsStill
<1>9. q \in Parsers
  BY <1>7 DEF Fits
<1>10. q.ok = TRUE /\ q.valid \in BOOLEAN
  BY <1>9, ParserFields
<1>11. Begun'
  BY <1>1, <1>5, <1>7 DEF Begun
<1>12. Accepted'
  <2>1. parser' = q /\ outcome' = outcome
    BY <1>1, <1>5, <1>10
  <2>2. parser.valid = TRUE => q.valid = TRUE
    BY <1>7, <1>10
  <2> QED BY <1>1, <2>1, <2>2 DEF Accepted
<1>13. (position \in 0..Len(From[1]))'
  BY <1>1, <1>2
<1> QED BY <1>1, <1>8, <1>11, <1>12, <1>13 DEF FormInv

(* The next n letters are the first n of those to come.                     *)
LEMMA NextLetters ==
  ASSUME NEW S, NEW s \in Seq(S), NEW k \in Nat, NEW n \in Nat, k + n <= Len(s)
  PROVE  SubSeq(s, k + 1, k + n) = SubSeq(Form!Erase(s, k), 1, n)
<1> DEFINE u == Form!Erase(s, k)
           v == SubSeq(u, 1, n)
           w == SubSeq(s, k + 1, k + n)
<1>1. Len(s) \in Nat /\ k \in 0..Len(s)
  OBVIOUS
<1>2. u \in Seq(S) /\ Len(u) = Len(s) - k /\ \A i \in 1..(Len(s) - k) : u[i] = s[k + i]
  BY <1>1, EraseIs
<1> HIDE DEF u
<1>3. n \in 0..Len(u)
  BY <1>1, <1>2
<1>4. v \in Seq(S) /\ Len(v) = n /\ \A i \in 1..n : v[i] = u[i]
  BY <1>2, <1>3, BeginIs
<1>5. w \in Seq(S) /\ Len(w) = n /\ \A i \in 1..n : w[i] = s[k + i]
  <2>1. k + 1 \in Int /\ k + n \in Int /\ \A i \in (k + 1)..(k + n) : s[i] \in S
    BY <1>1
  <2>2. /\ w \in Seq(S)
        /\ Len(w) = (IF k + 1 <= k + n THEN k + n - (k + 1) + 1 ELSE 0)
        /\ \A i \in 1..(k + n - (k + 1) + 1) : w[i] = s[k + 1 + i - 1]
    BY <2>1, SubSeqProperties, SMTT(30)
  <2>3. \A i \in 1..n : i \in 1..(k + n - (k + 1) + 1) /\ k + 1 + i - 1 = k + i
    OBVIOUS
  <2>4. (IF k + 1 <= k + n THEN k + n - (k + 1) + 1 ELSE 0) = n
    OBVIOUS
  <2> HIDE DEF w
  <2> QED BY <2>2, <2>3, <2>4
<1> HIDE DEF v, w
<1>6. \A i \in 1..n : v[i] = w[i]
  <2> TAKE i \in 1..n
  <2>1. i \in 1..(Len(s) - k)
    BY <1>1
  <2> QED BY <1>2, <1>4, <1>5, <2>1
<1>7. v = w
  BY <1>4, <1>5, <1>6, SameText
<1> QED BY <1>7 DEF u, v, w

LEMMA ReadStep ==
  ASSUME FirstWhole, FormInv, NEW n \in ReadSizes, Form!Read(n)
  PROVE  FormInv'
<1> DEFINE T == From[1]
           buf == parser.buf
           ps == parser.parts
           piece == SubSeq(T, position + 1, position + n)
           b == buf \o piece
           q == [parser EXCEPT !.buf = b, !.waits = FALSE]
           k == position
           t == Form!Erase(T, k + n)
<1>1. /\ form \in Form!Forms /\ k \in 0..Len(T) /\ Fits(parser, Rest) /\ Begun /\ Accepted
  BY DEF FormInv
<1>2. T \in Seq(Letters) /\ Len(T) \in Nat /\ Form!Text = T /\ n \in Nat
  BY <1>1, TextIs, PartsAssumption DEF Form!Constants
<1>3. /\ outcome = "none" /\ k + n <= Len(T) /\ (k = 0 => n >= 5)
      /\ ~(buf # <<>> /\ ~parser.waits /\ parser.ok)
      /\ position' = position + n /\ form' = form /\ outcome' = outcome /\ parser' = q
  BY <1>2, Lengths, Delimiters DEF Form!Read, Form!Parsing
<1>4. /\ parser \in Parsers /\ Rest \in Seq(Letters)
      /\ IF parser.valid THEN Closed(parser.state, ps, buf \o Rest) ELSE Stands(parser.state, ps, buf \o Rest)
      /\ parser.waits => Short(parser)
  BY <1>1 DEF Fits
<1>5. /\ buf \in Seq(Letters) /\ ps \in Seq(Seq(Letters)) /\ parser.valid \in BOOLEAN /\ parser.ok = TRUE
      /\ parser.waits \in BOOLEAN /\ parser.state \in 0..4
  BY <1>4, ParserFields
<1> HIDE DEF T, buf, ps
<1>6. piece = SubSeq(Rest, 1, n) /\ Form!Erase(Rest, n) = t
  <2>1. k \in Nat /\ T \in Seq(Letters) /\ n \in Nat /\ k + n <= Len(T)
    BY <1>1, <1>2, <1>3
  <2>2. Rest = Form!Erase(T, k)
    BY DEF Rest, T
  <2>3. SubSeq(T, k + 1, k + n) = SubSeq(Form!Erase(T, k), 1, n)
    BY <2>1, NextLetters
  <2>4. Form!Erase(Form!Erase(T, k), n) = Form!Erase(T, k + n)
    BY <2>1, EraseTwice
  <2> QED BY <2>2, <2>3, <2>4
<1>7. n \in 0..Len(Rest)
  <2>1. Rest = Form!Erase(T, k)
    BY DEF Rest, T
  <2>2. Len(Rest) = Len(T) - k
    BY <1>1, <1>2, <2>1, EraseIs
  <2> QED BY <1>1, <1>2, <1>3, <2>2
<1>8. piece \in Seq(Letters) /\ Len(piece) = n
  BY <1>4, <1>6, <1>7, BeginIs
<1>9. t \in Seq(Letters) /\ Rest = piece \o t
  BY <1>4, <1>6, <1>7, EraseIs, Parted
<1> HIDE DEF piece, t
<1>10. b \in Seq(Letters) /\ Len(b) = Len(buf) + n /\ Len(buf) \in Nat
  BY <1>5, <1>8, JoinIs
<1>11. b \o t = buf \o Rest
  <2>1. buf \in Seq(Letters) /\ piece \in Seq(Letters) /\ t \in Seq(Letters)
    BY <1>5, <1>8, <1>9
  <2>2. (buf \o piece) \o t = buf \o (piece \o t)
    BY <2>1, Regrouped, SMTT(30)
  <2> QED BY <1>9, <2>2
<1> HIDE DEF b
<1>12. Is(q, parser.state, b, ps, parser.valid, FALSE)
  BY <1>4, <1>10, ParserWith DEF ps
<1> HIDE DEF q
<1>13. /\ q \in Parsers /\ q.state = parser.state /\ q.buf = b /\ q.parts = ps /\ q.valid = parser.valid /\ q.waits = FALSE
  BY <1>12 DEF Is
<1>14. Fits(q, t)
  BY <1>4, <1>9, <1>11, <1>13 DEF Fits
<1>15. From' = From /\ T' = T /\ Rest' = t
  BY <1>3 DEF From, T, Rest, t
<1>16. PICK x : x = q
  OBVIOUS
<1>17. PICK y : y = t
  OBVIOUS
<1>18. Fits(parser, Rest)'
  BY <1>3, <1>14, <1>15, <1>16, <1>17, FitsStill
<1>19. (position \in 0..Len(From[1]))'
  <2>1. k + n \in 0..Len(T)
    BY <1>1, <1>2, <1>3
  <2> QED BY <1>3, <1>15, <2>1 DEF T
<1>20. Begun'
  <2> SUFFICES ASSUME q.state = 0 PROVE Len(b) >= 5
    BY <1>3, <1>13 DEF Begun
  <2>1. parser.state = 0
    BY <1>13
  <2>2. parser.waits = FALSE
    BY <1>4, <1>5, <2>1 DEF Short
  <2>3. buf = <<>>
    BY <1>3, <1>5, <2>2
  <2>4. k = 0
    <3>1. ~(Len(buf) >= 5)
      BY <2>3
    <3> QED BY <1>1, <2>1, <3>1 DEF Begun, buf
  <2>5. n >= 5
    BY <1>3, <2>4
  <2> QED BY <1>2, <1>10, <2>5
<1>21. Accepted'
  BY <1>3 DEF Accepted
<1> QED BY <1>1, <1>3, <1>18, <1>19, <1>20, <1>21 DEF FormInv

(* Of a form that is not yet over there is always more than the parser can  *)
(* wait for.                                                                *)
MoreComes(p, t) ==
  /\ t \in Seq(Letters) /\ p.buf = t /\ ~p.valid
  /\ p.buf = <<>> \/ p.waits

LEMMA NeverStuck ==
  ASSUME form \in Form!Forms, NEW p, NEW t, Fits(p, <<>>), MoreComes(p, t)
  PROVE  FALSE
<1>1. p \in Parsers /\ Stands(p.state, p.parts, p.buf \o <<>>) /\ (p.waits => Short(p)) /\ ~p.valid /\ t \in Seq(Letters) /\ p.buf = t
  BY DEF Fits, MoreComes
<1>2. Len(t) \in Nat /\ p.buf \o <<>> = t /\ N \in Nat
  BY <1>1, FormTypes
<1>3. /\ Len(Crlf) = 2 /\ Len(Dash) = 2 /\ Len(Header) = 5 /\ Len(Delimiter) = 5
      /\ Crlf \in Seq(Letters) /\ Dash \in Seq(Letters) /\ Header \in Seq(Letters) /\ Delimiter \in Seq(Letters)
  BY Lengths, Delimiters
<1>4. ASSUME NEW i \in 1..N PROVE Len(Entry(i)) > 5 /\ Len(Crlf \o Part(i)) > 2
  <2> DEFINE c == Part(i)
             d == After(i + 1)
             e == form[i]
             f == Delimiter \o d
  <2>1. c \in Seq(Letters) /\ e \in Seq(Letters) /\ d \in Seq(Letters) /\ c = e \o f
    <3>1. i + 1 \in 1..(N + 1)
      BY <1>2
    <3> QED BY <3>1, AfterIs, FormTypes
  <2> HIDE DEF c, d, e
  <2>2. f \in Seq(Letters) /\ Len(f) = Len(Delimiter) + Len(d) /\ Len(d) \in Nat
    BY <1>3, <2>1, JoinIs, ZenonT(60)
  <2> HIDE DEF f
  <2>3. Len(c) = Len(e) + Len(f) /\ Len(e) \in Nat
    BY <2>1, <2>2, JoinIs
  <2>a. Header \in Seq(Letters) /\ Crlf \in Seq(Letters) /\ c \in Seq(Letters)
    BY <1>3, <2>1
  <2>b. Len(Header \o c) = Len(Header) + Len(c)
    BY <2>a, JoinIs
  <2>4. Len(Header \o c) = Len(Header) + Len(c) /\ Len(Crlf \o c) = Len(Crlf) + Len(c)
    <3>1. Len(Crlf \o c) = Len(Crlf) + Len(c)
      BY <2>a, JoinIs
    <3> QED BY <2>b, <3>1
  <2>5. Len(Header \o c) > 5 /\ Len(Crlf \o c) > 2
    BY <1>3, <2>2, <2>3, <2>4
  <2> QED BY <2>5 DEF Entry, c
<1>5. ASSUME NEW i \in 1..(N + 1) PROVE After(i) \in Seq(Letters) /\ Len(After(i)) >= 4
  <2>0. After(i) \in Seq(Letters)
    BY AfterIs
  <2>1. CASE i <= N
    <3> DEFINE b == Entry(i)
    <3>1. i \in 1..N
      BY <1>2, <2>1
    <3>2. b \in Seq(Letters) /\ Len(b) > 5 /\ After(i) = Crlf \o b
      BY <1>4, <2>1, <3>1, AfterIs DEF After
    <3> HIDE DEF b
    <3>3. Len(Crlf \o b) = Len(Crlf) + Len(b) /\ Len(b) \in Nat
      BY <1>3, <3>2, JoinIs
    <3> QED BY <1>3, <2>0, <3>2, <3>3
  <2>2. CASE ~(i <= N)
    <3>1. After(i) = Dash \o Crlf
      BY <2>2 DEF After
    <3>2. Len(Dash \o Crlf) = Len(Dash) + Len(Crlf)
      BY <1>3, JoinIs
    <3> QED BY <1>3, <2>0, <3>1, <3>2
  <2> QED BY <2>1, <2>2
<1>6. Stands(p.state, p.parts, t)
  BY <1>1, <1>2
<1>7. p.parts \in Seq(Seq(Letters)) /\ Len(p.parts) \in Nat
  <2>1. p.parts \in Seq(Seq(Letters))
    BY <1>1, ParserFields
  <2> QED BY <2>1
<1>8. Len(t) = 0 \/ Short(p)
  <2>1. CASE p.buf = <<>>
    BY <1>1, <2>1
  <2> QED BY <1>1, <2>1 DEF MoreComes
<1>9. CASE p.state = 0
  <2>1. t = From[1] /\ ~Short(p)
    BY <1>6, <1>9 DEF Stands, Short
  <2>2. Len(t) > 5
    BY <2>1, TextIs
  <2> QED BY <1>8, <2>1, <2>2
<1>10. CASE p.state = 1
  <2>1. Before(p.parts) /\ t = Entry(Len(p.parts) + 1) /\ ~Short(p)
    BY <1>6, <1>10 DEF Stands, Short
  <2>2. Len(p.parts) + 1 \in 1..N
    BY <1>2, <1>7, <2>1 DEF Before
  <2>3. Len(t) > 5
    BY <1>4, <2>1, <2>2
  <2> QED BY <1>8, <2>1, <2>3
<1>11. CASE p.state = 2
  <2>1. Before(p.parts) /\ (t = Entry(Len(p.parts) + 1) \/ t = Crlf \o Part(Len(p.parts) + 1))
    BY <1>6, <1>11 DEF Stands
  <2>2. Len(p.parts) + 1 \in 1..N
    BY <1>2, <1>7, <2>1 DEF Before
  <2>3. Len(t) > 5 \/ Len(t) > 2
    BY <1>4, <2>1, <2>2
  <2>4. Short(p) => Len(t) <= 2
    BY <1>1, <1>11 DEF Short
  <2> QED BY <1>2, <1>8, <2>3, <2>4
<1>12. CASE p.state = 3
  <2> DEFINE k == Len(p.parts)
             c == form[k]
             b == After(k + 1)
             f == Delimiter \o b
  <2>1. Within(p.parts, t)
    BY <1>6, <1>12 DEF Stands
  <2>2. k \in 1..N /\ k + 1 \in 1..(N + 1)
    BY <1>2, <2>1 DEF Within
  <2>3. PICK n \in 0..Len(c) : t = Form!Erase(c, n) \o f
    BY <2>1 DEF Within, Handed
  <2>4. c \in Seq(Letters) /\ b \in Seq(Letters) /\ Len(b) >= 4
    BY <1>5, <2>2, FormTypes
  <2> HIDE DEF b, c, k
  <2>5. f \in Seq(Letters) /\ Len(f) = Len(Delimiter) + Len(b) /\ Len(b) \in Nat
    BY <1>3, <2>4, JoinIs
  <2> DEFINE r == Form!Erase(c, n)
  <2>6. r \in Seq(Letters) /\ Len(r) \in Nat
    BY <2>3, <2>4, EraseIs
  <2> HIDE DEF f, r
  <2>7. t = r \o f
    BY <2>3 DEF r
  <2>8. Len(r \o f) = Len(r) + Len(f)
    BY <2>5, <2>6, JoinIs
  <2>9. Len(t) > 5
    BY <1>3, <2>4, <2>5, <2>6, <2>7, <2>8
  <2>10. Short(p) => Len(t) <= 5
    BY <1>1, <1>12 DEF Short
  <2> QED BY <1>2, <1>8, <2>9, <2>10
<1>13. CASE p.state = 4
  <2>1. Behind(p.parts) /\ t = After(Len(p.parts) + 1)
    BY <1>6, <1>13 DEF Stands
  <2>2. Len(p.parts) + 1 \in 1..(N + 1)
    BY <1>2, <1>7, <2>1 DEF Behind
  <2>3. Len(t) >= 4
    BY <1>5, <2>1, <2>2
  <2>4. Short(p) => Len(t) < 2
    BY <1>1, <1>13 DEF Short
  <2> QED BY <1>2, <1>8, <2>3, <2>4
<1> QED BY <1>6, <1>9, <1>10, <1>11, <1>12, <1>13 DEF Stands

LEMMA EndOfForm ==
  ASSUME FormInv, Form!AtEnd
  PROVE  FormInv'
<1>1. /\ form \in Form!Forms /\ position \in 0..Len(From[1]) /\ Fits(parser, Rest) /\ Begun /\ Accepted
      /\ ~(parser.buf # <<>> /\ ~parser.waits /\ parser.ok) /\ position = Len(Form!Text)
      /\ outcome' = (IF parser.valid THEN "good" ELSE "bad_request")
      /\ form' = form /\ position' = position /\ parser' = parser
  BY DEF FormInv, Form!AtEnd, Form!Parsing
<1>2. From[1] \in Seq(Letters) /\ position = Len(From[1]) /\ Len(From[1]) \in Nat
  BY <1>1, TextIs
<1>3. Rest = <<>>
  <2> DEFINE T == From[1]
  <2>1. T \in Seq(Letters) /\ Len(T) \in 0..Len(T) /\ Len(T) \in Nat /\ Rest = Form!Erase(T, Len(T))
    BY <1>2 DEF Rest
  <2> HIDE DEF T
  <2>2. Rest \in Seq(Letters) /\ Len(Rest) = Len(T) - Len(T)
    BY <2>1, EraseIs
  <2> QED BY <2>1, <2>2
<1>4. parser \in Parsers
  BY <1>1 DEF Fits
<1>5. parser.buf \in Seq(Letters) /\ parser.valid \in BOOLEAN /\ parser.ok = TRUE /\ parser.waits \in BOOLEAN
  BY <1>4, ParserFields
<1>6. parser.valid = TRUE
  <2> SUFFICES ASSUME ~parser.valid PROVE FALSE
    BY <1>5
  <2>1. MoreComes(parser, parser.buf)
    BY <1>1, <1>5 DEF MoreComes
  <2> QED BY <1>1, <1>3, <2>1, NeverStuck
<1>7. From' = From /\ Rest' = Rest
  BY <1>1 DEF From, Rest
<1>8. PICK q : q = parser
  OBVIOUS
<1>9. PICK t : t = Rest
  OBVIOUS
<1>10. Fits(parser, Rest)'
  BY <1>1, <1>7, <1>8, <1>9, FitsStill
<1> QED BY <1>1, <1>6, <1>7, <1>10 DEF FormInv, Begun, Accepted

LEMMA FormStep == FirstWhole /\ FormInv /\ [MCNext]_all => FormInv'
<1> SUFFICES ASSUME FirstWhole, FormInv, [MCNext]_all PROVE FormInv'
  OBVIOUS
<1>1. CASE Form!Next
  BY <1>1, ParseStep, ReadStep, EndOfForm DEF Form!Next
<1>2. CASE UNCHANGED form_
  <2>1. form' = form /\ position' = position /\ parser' = parser /\ outcome' = outcome
    BY <1>2 DEF form_
  <2>2. From' = From /\ Rest' = Rest
    BY <2>1 DEF From, Rest
  <2>3. PICK q : q = parser
    OBVIOUS
  <2>4. PICK t : t = Rest
    OBVIOUS
  <2>5. Fits(parser, Rest)'
    BY <2>1, <2>2, <2>3, <2>4, FitsStill DEF FormInv
  <2> QED BY <2>1, <2>2, <2>5 DEF FormInv, Begun, Accepted
<1> QED BY <1>1, <1>2 DEF MCNext, all

LEMMA FormMeans == FormInv => Form!RoundTrip /\ Form!PartsArePrefixes /\ Form!HoldsLittle
<1> SUFFICES ASSUME FormInv PROVE Form!RoundTrip /\ Form!PartsArePrefixes /\ Form!HoldsLittle
  OBVIOUS
<1> DEFINE ps == parser.parts
           u == parser.buf \o Rest
<1>1. /\ form \in Form!Forms /\ parser \in Parsers /\ Accepted
      /\ IF parser.valid THEN Closed(parser.state, ps, u) ELSE Stands(parser.state, ps, u)
      /\ parser.waits => Short(parser)
  BY DEF FormInv, Fits
<1>2. /\ ps \in Seq(Seq(Letters)) /\ parser.valid \in BOOLEAN /\ parser.ok = TRUE /\ parser.waits \in BOOLEAN
      /\ parser.buf \in Seq(Letters)
  BY <1>1, ParserFields
<1> HIDE DEF u
<1>3. N \in Nat /\ \A i \in 1..N : form[i] \in Seq(Letters)
  BY <1>1, FormTypes
<1>4. Form!RoundTrip
  BY <1>1 DEF Form!RoundTrip, Accepted, Closed
<1>5. Form!HoldsLittle
  <2> SUFFICES ASSUME parser.state = 3, ~Form!Parsing PROVE Len(parser.buf) <= Len(Form!crlf_dash_boundary_)
    BY DEF Form!HoldsLittle
  <2>1. Len(Form!crlf_dash_boundary_) = 5
    BY Lengths, Delimiters
  <2>2. CASE parser.buf = <<>>
    BY <2>1, <2>2
  <2>3. CASE parser.waits
    BY <1>1, <2>1, <2>3 DEF Short
  <2> QED BY <1>2, <2>2, <2>3 DEF Form!Parsing
<1>6. ASSUME NEW c \in Seq(Letters) PROVE Form!StartsWith(c, c)
  BY <1>6, SubSeqFull DEF Form!StartsWith
<1>7. DOMAIN ps = 1..Len(ps) /\ Len(ps) \in Nat
  BY <1>2
<1>8. ASSUME Len(ps) <= N, Complete(ps, Len(ps)) PROVE Form!PartsArePrefixes
  <2> SUFFICES ASSUME NEW i \in 1..Len(ps)
               PROVE  i <= Len(form) /\ Form!StartsWith(form[i], ps[i]) /\ ps[i] = form[i]
    BY <1>7 DEF Form!PartsArePrefixes
  <2>1. i \in 1..N
    BY <1>3, <1>7, <1>8
  <2>2. ps[i] = form[i]
    BY <1>8 DEF Complete
  <2>3. i <= Len(form)
    BY <2>1 DEF N
  <2> QED BY <1>3, <1>6, <2>1, <2>2, <2>3
<1>9. ASSUME Within(ps, u) PROVE Form!PartsArePrefixes
  <2> DEFINE k == Len(ps)
             c == form[k]
  <2>1. k \in 1..N /\ Complete(ps, k - 1)
    BY <1>9 DEF Within
  <2>2. PICK n \in 0..Len(c) : ps[k] = SubSeq(c, 1, n)
    BY <1>9 DEF Within, Handed
  <2>3. c \in Seq(Letters)
    BY <1>3, <2>1
  <2> HIDE DEF c, k
  <2>4. Form!StartsWith(c, ps[k])
    <3>1. Len(SubSeq(c, 1, n)) = n /\ n <= Len(c)
      BY <2>2, <2>3, BeginIs
    <3> QED BY <2>2, <3>1 DEF Form!StartsWith
  <2> SUFFICES ASSUME NEW i \in 1..Len(ps)
               PROVE  i <= Len(form) /\ Form!StartsWith(form[i], ps[i]) /\ (i < Len(ps) => ps[i] = form[i])
    BY <1>7 DEF Form!PartsArePrefixes
  <2>5. i \in 1..N /\ i <= Len(form)
    <3>1. i \in 1..N
      BY <1>3, <1>7, <2>1 DEF k
    <3> QED BY <3>1 DEF N
  <2>6. CASE i = Len(ps)
    BY <2>4, <2>5, <2>6 DEF c, k
  <2>7. CASE i # Len(ps)
    <3>1. i \in 1..(k - 1)
      BY <1>7, <2>7 DEF k
    <3>2. ps[i] = form[i]
      BY <2>1, <3>1 DEF Complete
    <3> QED BY <1>3, <1>6, <2>5, <3>2
  <2> QED BY <2>6, <2>7
<1>10. Form!PartsArePrefixes
  <2>1. CASE parser.valid
    <3>1. ps = form
      BY <1>1, <2>1 DEF Closed
    <3>2. Len(ps) <= N /\ Complete(ps, Len(ps))
      BY <1>3, <3>1 DEF Complete, N
    <3> QED BY <1>8, <3>2
  <2>2. CASE ~parser.valid
    <3>1. Stands(parser.state, ps, u)
      BY <1>1, <2>2
    <3>2. CASE ps = <<>>
      BY <3>2 DEF Form!PartsArePrefixes
    <3>3. CASE Before(ps)
      <4>1. Len(ps) <= N
        BY <1>3, <1>7, <3>3 DEF Before
      <4> QED BY <1>8, <3>3, <4>1 DEF Before
    <3>4. CASE Behind(ps)
      <4>1. Len(ps) <= N
        BY <1>3, <1>7, <3>4 DEF Behind
      <4> QED BY <1>8, <3>4, <4>1 DEF Behind
    <3>5. CASE Within(ps, u)
      BY <1>9, <3>5
    <3> QED BY <3>1, <3>2, <3>3, <3>4, <3>5 DEF Stands
  <2> QED BY <2>1, <2>2
<1> QED BY <1>4, <1>5, <1>10

(* And a form of any number of parts, with any contents that do not hold    *)
(* the delimiter, comes out of the parser part by part as it went into the  *)
(* serializer, however it is cut into reads, if only the first of them      *)
(* brings the whole first boundary.                                         *)
THEOREM ContentIsWhole == FirstWhole /\ MCSpec => []ContentWhole
<1> SUFFICES ASSUME FirstWhole PROVE MCSpec => []ContentWhole
  OBVIOUS
<1>1. MCInit => ContentInv /\ FormInv
  BY ContentBegins, FormBegins DEF MCInit
<1>2. FormInv /\ [MCNext]_all => FormInv'
  BY FormStep
<1>3. ContentInv /\ FormInv => ContentWhole
  BY ContentMeans, FormMeans DEF ContentWhole
<1> QED BY <1>1, <1>2, <1>3, ContentStep, PTL DEF MCSpec

-----------------------------------------------------------------------------
(***************************************************************************)
(* The answer to a request.  A reply is right by itself, for the method and *)
(* the ranges asked; before the last one there is at most an interim one.   *)
(* What was sent says nothing of what the response will be: the invariant   *)
(* adds that none is prepared while the request is still read, and that no  *)
(* ranges but those of its header are kept for it.                          *)
(***************************************************************************)
Unset == Request!Unset
RangeEnds == (Nat \cup {Unset}) \X (Nat \cup {Unset})
Responses == [status : Request!Statuses \cup {Unset}, kind : Request!Kinds, size : Sizes \cup {0}]
Interim(status) == [status |-> status, head |-> <<"nothing">>, size |-> 0, pieces |-> <<>>]

Exact(s, h) ==
  /\ Len(s.pieces) = Len(h)
  /\ \A k \in DOMAIN h : Request!PieceBytes(s.pieces[k]) = Request!AskedBytes(h[k], s.size) /\ s.pieces[k][2] > 0

Right(s, m, h) ==
  /\ s.status \in Request!Statuses
  /\ s.head[1] = "length" /\ s.size > 0 => \A k \in DOMAIN s.pieces : s.pieces[k][2] \in 1..s.size
  /\ s.status = 206 /\ m # "HEAD" => Exact(s, h)
  /\ s.size > 0 => Request!Total(s.pieces) < 3 * s.size
  /\ s.status >= 400 /\ s.pieces # <<>> => s.pieces = <<<<0, s.size>>>>

(* While a request is read and routed nothing but an interim reply is sent. *)
Underway ==
  /\ res = Request!Nothing /\ req \in [method : Request!Methods, ranges : {<<>>, asked}]
  /\ sent = <<>> \/ (pc = "route" /\ \E status \in {100, 417} : sent = <<Interim(status)>>)
  /\ pc \in {"line", "range"} => asked = <<>>

TurnInv ==
  /\ pc \in {"line", "range", "expect", "route", "done", "closed", "unanswered"}
  /\ req.method \in Request!Methods /\ asked \in RangeHeaders \cup {<<>>} /\ res \in Responses
  /\ \A i \in DOMAIN sent : Right(sent[i], req.method, asked)
  /\ pc \in {"line", "range", "expect", "route"} => Underway

LEMMA RequestConstants ==
  /\ RangeHeaders \subseteq Seq(RangeEnds) /\ Sizes \subseteq Nat
  /\ ErrorHandler \in BOOLEAN /\ RangedRefusals \in BOOLEAN
BY PartsAssumption DEF Request!Constants, RangeEnds, Unset

LEMMA SizesAreNatural == \A n \in Sizes \cup {0} : n \in Nat
<1> TAKE n \in Sizes \cup {0}
<1>1. CASE n \in Sizes
  BY <1>1, RequestConstants
<1>2. CASE n = 0
  BY <1>2
<1> QED BY <1>1, <1>2

(* The sum of n numbers, however it is reached.                             *)
Sums(h, p, n) == h = [k \in 0..n |-> IF k = 0 THEN 0 ELSE h[k - 1] + p[k][2]]

LEMMA SumsExist ==
  ASSUME NEW p, NEW n \in Nat
  PROVE  \E h : Sums(h, p, n)
<1> DEFINE T == {m \in Nat : ~\E h : Sums(h, p, m)}
<1>1. SUFFICES ASSUME T # {} PROVE FALSE
  OBVIOUS
<1>2. PICK m \in T : \A y \in T : m <= y
  BY <1>1, Least
<1> HIDE DEF T
<1>3. m \in Nat /\ ~\E h : Sums(h, p, m)
  BY DEF T
<1>4. CASE m = 0
  <2>1. Sums([k \in 0..0 |-> 0], p, 0)
    BY DEF Sums
  <2> QED BY <1>3, <1>4, <2>1
<1>5. CASE m # 0
  <2>1. m - 1 \in Nat /\ m - 1 \notin T
    BY <1>2, <1>3, <1>5
  <2>2. PICK h : Sums(h, p, m - 1)
    BY <2>1 DEF T
  <2> DEFINE g == [k \in 0..m |-> IF k = m THEN h[m - 1] + p[m][2] ELSE h[k]]
  <2>3. h = [k \in 0..(m - 1) |-> IF k = 0 THEN 0 ELSE h[k - 1] + p[k][2]]
    BY <2>2 DEF Sums
  <2>4. ASSUME NEW k \in 0..m PROVE g[k] = IF k = 0 THEN 0 ELSE g[k - 1] + p[k][2]
    <3>1. CASE k = m
      <4>1. g[m - 1] = h[m - 1] /\ g[m] = h[m - 1] + p[m][2]
        BY <1>3, <1>5
      <4> QED BY <1>5, <3>1, <4>1
    <3>2. CASE k # m
      <4>1. k \in 0..(m - 1) /\ g[k] = h[k]
        BY <1>3, <3>2
      <4>2. k # 0 => k - 1 \in 0..m /\ k - 1 # m /\ g[k - 1] = h[k - 1]
        BY <1>3, <4>1
      <4> QED BY <2>3, <4>1, <4>2
    <3> QED BY <3>1, <3>2
  <2>5. g = [k \in 0..m |-> IF k = 0 THEN 0 ELSE g[k - 1] + p[k][2]]
    <3>1. DOMAIN g = 0..m /\ g = [k \in 0..m |-> g[k]]
      OBVIOUS
    <3> HIDE DEF g
    <3> QED BY <2>4, <3>1
  <2>6. Sums(g, p, m)
    <3> HIDE DEF g
    <3> QED BY <2>5 DEF Sums
  <2> QED BY <1>3, <2>6
<1> QED BY <1>4, <1>5

LEMMA TotalIsSum ==
  ASSUME NEW p, Len(p) \in Nat
  PROVE  \E h : Sums(h, p, Len(p)) /\ Request!Total(p) = h[Len(p)]
<1> DEFINE sum == CHOOSE h : Sums(h, p, Len(p))
<1>1. Sums(sum, p, Len(p))
  BY SumsExist
<1>2. Request!Total(p) = sum[Len(p)]
  BY DEF Request!Total, Sums
<1> HIDE DEF sum
<1> QED BY <1>1, <1>2

(* The module's Cardinality and the library's are one.                      *)
LEMMA SameCardinality == \A S : Request!Cardinality(S) = Cardinality(S)
BY DEF Request!Cardinality, Cardinality

(* Ranges in ascending order, each within n bytes, of which at most two     *)
(* overlap one before them.                                                 *)
Ascends(f, n) ==
  /\ Len(f) \in Nat /\ DOMAIN f = 1..Len(f)
  /\ \A i \in 1..Len(f) : f[i][1] \in Nat /\ f[i][2] \in Nat /\ f[i][1] <= f[i][2] /\ f[i][2] <= n - 1
  /\ \A i, j \in 1..Len(f) : j < i => f[j][1] < f[i][1]
  /\ Cardinality(Request!Overlapping(f)) <= 2

(* Those of the first k that overlap.                                       *)
Over(f, k) == {i \in Request!Overlapping(f) : i <= k}

LEMMA OverGrows ==
  ASSUME NEW n \in Nat, NEW f, Ascends(f, n), NEW k \in 1..Len(f)
  PROVE  /\ Cardinality(Over(f, k - 1)) \in 0..2 /\ Cardinality(Over(f, k)) \in 0..2
         /\ Cardinality(Over(f, k)) = Cardinality(Over(f, k - 1)) + (IF k \in Request!Overlapping(f) THEN 1 ELSE 0)
<1> DEFINE O == Request!Overlapping(f)
<1>1. O \subseteq 1..Len(f) /\ Len(f) \in Nat /\ Cardinality(O) <= 2
  BY DEF Ascends, Request!Overlapping
<1> HIDE DEF O
<1>2. IsFiniteSet(O)
  <2> DEFINE m == Len(f)
  <2>1. m \in Int /\ 1 \in Int /\ O \subseteq 1..m
    BY <1>1
  <2> HIDE DEF m
  <2>2. IsFiniteSet(1..m)
    BY <2>1, FS_Interval
  <2> QED BY <2>1, <2>2, FS_Subset
<1>3. ASSUME NEW m PROVE IsFiniteSet(Over(f, m)) /\ Cardinality(Over(f, m)) \in 0..2
  <2>1. Over(f, m) \subseteq O
    BY DEF Over, O
  <2>2. IsFiniteSet(Over(f, m)) /\ Cardinality(Over(f, m)) <= Cardinality(O)
    BY <1>2, <2>1, FS_Subset
  <2>3. Cardinality(Over(f, m)) \in Nat /\ Cardinality(O) \in Nat
    BY <1>2, <2>2, FS_CardinalityType
  <2> QED BY <1>1, <2>2, <2>3
<1>4. CASE k \in O
  <2>1. Over(f, k) = Over(f, k - 1) \cup {k} /\ k \notin Over(f, k - 1)
    BY <1>1, <1>4 DEF Over, O
  <2>2. Cardinality(Over(f, k)) = Cardinality(Over(f, k - 1)) + 1
    BY <1>3, <2>1, FS_AddElement
  <2> QED BY <1>3, <1>4, <2>2 DEF O
<1>5. CASE k \notin O
  <2>1. Over(f, k) = Over(f, k - 1)
    BY <1>1, <1>5 DEF Over, O
  <2> QED BY <1>3, <1>5, <2>1 DEF O
<1> QED BY <1>4, <1>5

(* Ranges that do not overlap take bytes of their own; each other one less  *)
(* than all of them.                                                        *)
Load(f, n, k) ==
  LET c == Cardinality(Over(f, k)) IN IF c = 0 THEN 0 ELSE IF c = 1 THEN n - 1 ELSE 2 * (n - 1)
Loaded(f, n, h, k) ==
  \E l \in 0..n : (l = 0 \/ \E j \in 1..k : l = f[j][2] + 1) /\ h[k] \in Nat /\ h[k] <= l + Load(f, n, k)

LEMMA LoadGrows ==
  ASSUME NEW n \in Nat, NEW f, Ascends(f, n), NEW h, NEW k \in 1..Len(f), Loaded(f, n, h, k - 1),
         h[k] = h[k - 1] + (f[k][2] - f[k][1] + 1)
  PROVE  Loaded(f, n, h, k)
<1> DEFINE a == f[k][1]
           b == f[k][2]
<1>1. a \in Nat /\ b \in Nat /\ a <= b /\ b <= n - 1 /\ k \in Nat
  BY DEF Ascends
<1>2. PICK l \in 0..n : /\ l = 0 \/ \E j \in 1..(k - 1) : l = f[j][2] + 1
                       /\ h[k - 1] \in Nat /\ h[k - 1] <= l + Load(f, n, k - 1)
  BY DEF Loaded
<1>3. h[k] = h[k - 1] + (b - a + 1)
  OBVIOUS
<1> HIDE DEF a, b
<1>4. CASE k \in Request!Overlapping(f)
  <2>1. PICK j \in 1..(k - 1) : f[k][1] <= f[j][2]
    BY <1>4 DEF Request!Overlapping
  <2>2. f[j][1] \in Nat /\ f[j][1] < a
    BY <1>1, SMTT(30) DEF Ascends, a
  <2>3. a >= 1
    BY <1>1, <2>2
  <2>4. Load(f, n, k) = Load(f, n, k - 1) + (n - 1) /\ Load(f, n, k - 1) \in Int
    BY <1>4, OverGrows, SMTT(30) DEF Load
  <2>5. h[k] \in Nat /\ h[k] <= l + Load(f, n, k)
    BY SMTT(30), <1>1, <1>2, <1>3, <2>3, <2>4
  <2>6. l = 0 \/ \E i \in 1..k : l = f[i][2] + 1
    BY <1>1, <1>2
  <2> QED BY <2>5, <2>6 DEF Loaded
<1>5. CASE k \notin Request!Overlapping(f)
  <2>1. Load(f, n, k) = Load(f, n, k - 1) /\ Load(f, n, k - 1) \in Int
    BY <1>5, OverGrows DEF Load
  <2>2. l <= a
    <3>1. ASSUME NEW j \in 1..(k - 1), l = f[j][2] + 1 PROVE l <= a
      <4>1. j \in 1..Len(f) /\ f[j][2] \in Nat
        BY DEF Ascends
      <4>2. ~(f[k][1] <= f[j][2])
        BY <1>5 DEF Request!Overlapping, Ascends
      <4> QED BY <1>1, <3>1, <4>1, <4>2, SMTT(30) DEF a
    <3> QED BY <1>1, <1>2, <3>1
  <2>3. b + 1 \in 0..n /\ h[k] \in Nat /\ h[k] <= (b + 1) + Load(f, n, k)
    <3> DEFINE y == h[k - 1]
               z == h[k]
               v == Load(f, n, k - 1)
    <3>1. /\ a \in Nat /\ b \in Nat /\ a <= b /\ b <= n - 1 /\ n \in Nat
          /\ y \in Nat /\ y <= l + v /\ v \in Int /\ l \in Nat /\ l <= a /\ z = y + (b - a + 1)
      BY <1>1, <1>2, <1>3, <2>1, <2>2
    <3>2. Load(f, n, k) = v
      BY <2>1
    <3> HIDE DEF y, z, v
    <3>3. b + 1 \in 0..n /\ z \in Nat /\ z <= (b + 1) + v
      BY <3>1
    <3> QED BY <3>2, <3>3 DEF z
  <2>4. \E j \in 1..k : b + 1 = f[j][2] + 1
    BY <1>1 DEF b
  <2> QED BY <2>3, <2>4 DEF Loaded
<1> QED BY <1>4, <1>5

LEMMA TotalBelow ==
  ASSUME NEW n \in Nat, n > 0, NEW f, Ascends(f, n),
         NEW p, p = [i \in DOMAIN f |-> Request!OffsetAndLength(f[i])]
  PROVE  Request!Total(p) < 3 * n
<1>1. Len(f) \in Nat /\ DOMAIN f = 1..Len(f)
  BY DEF Ascends
<1>2. Len(p) = Len(f) /\ \A k \in 1..Len(f) : p[k][2] = f[k][2] - f[k][1] + 1
  BY <1>1 DEF Request!OffsetAndLength
<1>3. PICK h : Sums(h, p, Len(f)) /\ Request!Total(p) = h[Len(f)]
  BY <1>1, <1>2, TotalIsSum
<1>4. h[0] = 0 /\ \A k \in 1..Len(f) : h[k] = h[k - 1] + (f[k][2] - f[k][1] + 1)
  <2>1. h = [k \in 0..Len(f) |-> IF k = 0 THEN 0 ELSE h[k - 1] + p[k][2]]
    BY <1>3 DEF Sums
  <2>2. h[0] = 0
    <3>1. 0 \in 0..Len(f)
      BY <1>1
    <3> QED BY <2>1, <3>1
  <2>3. ASSUME NEW k \in 1..Len(f) PROVE h[k] = h[k - 1] + (f[k][2] - f[k][1] + 1)
    <3>1. k \in 0..Len(f) /\ k # 0
      BY <1>1
    <3>2. h[k] = h[k - 1] + p[k][2]
      BY <2>1, <3>1
    <3> QED BY <1>2, <3>2
  <2> QED BY <2>2, <2>3
<1> DEFINE T == {k \in Nat : k <= Len(f) /\ ~Loaded(f, n, h, k)}
<1>5. T = {}
  <2> SUFFICES ASSUME T # {} PROVE FALSE
    OBVIOUS
  <2>1. PICK k \in T : \A y \in T : k <= y
    BY Least
  <2>2. k \in Nat /\ k <= Len(f) /\ ~Loaded(f, n, h, k)
    OBVIOUS
  <2>3. CASE k = 0
    <3>1. Over(f, 0) = {}
      BY <1>1 DEF Over, Request!Overlapping
    <3>2. Load(f, n, 0) = 0
      BY <3>1, FS_EmptySet DEF Load
    <3>3. Loaded(f, n, h, 0)
      BY <1>4, <3>2 DEF Loaded
    <3> QED BY <2>2, <2>3, <3>3
  <2>4. CASE k # 0
    <3>1. k - 1 \in Nat /\ k \in 1..Len(f) /\ ~(k <= k - 1)
      BY <1>1, <2>2, <2>4
    <3>2. Loaded(f, n, h, k - 1)
      BY <1>1, <2>1, <2>2, <3>1
    <3> QED BY <1>4, <2>2, <3>1, <3>2, LoadGrows
  <2> QED BY <2>3, <2>4
<1>6. Loaded(f, n, h, Len(f))
  BY <1>1, <1>5
<1>7. Load(f, n, Len(f)) <= 2 * (n - 1) /\ Load(f, n, Len(f)) \in Int
  BY DEF Load
<1> QED BY <1>3, <1>6, <1>7 DEF Loaded

(* One piece weighs what it weighs.                                         *)
LEMMA TotalOfOne ==
  ASSUME NEW n \in Nat
  PROVE  Request!Total(<<>>) = 0 /\ Request!Total(<<<<0, n>>>>) = n
<1>1. Request!Total(<<>>) = 0
  <2> DEFINE p == <<>>
  <2>1. Len(p) = 0
    OBVIOUS
  <2>2. Len(p) \in Nat
    BY <2>1
  <2> HIDE DEF p
  <2>3. PICK h : Sums(h, p, Len(p)) /\ Request!Total(p) = h[Len(p)]
    BY <2>2, TotalIsSum
  <2>4. h = [k \in 0..0 |-> IF k = 0 THEN 0 ELSE h[k - 1] + p[k][2]] /\ Request!Total(p) = h[0]
    BY <2>1, <2>3 DEF Sums
  <2>5. Request!Total(p) = 0
    BY <2>4
  <2> QED BY <2>5 DEF p
<1>2. Request!Total(<<<<0, n>>>>) = n
  <2> DEFINE p == <<<<0, n>>>>
  <2>1. Len(p) = 1 /\ p[1][2] = n
    OBVIOUS
  <2>2. Len(p) \in Nat
    BY <2>1
  <2> HIDE DEF p
  <2>3. PICK h : Sums(h, p, Len(p)) /\ Request!Total(p) = h[Len(p)]
    BY <2>2, TotalIsSum
  <2>4. h = [k \in 0..1 |-> IF k = 0 THEN 0 ELSE h[k - 1] + p[k][2]] /\ Request!Total(p) = h[1]
    BY <2>1, <2>3 DEF Sums
  <2>5. h[0] = 0 /\ h[1] = h[0] + p[1][2]
    BY <2>4
  <2>6. Request!Total(p) = n
    BY <2>1, <2>4, <2>5
  <2> QED BY <2>6 DEF p
<1> QED BY <1>1, <1>2

(* A range whose ends lie within n bytes asks for the bytes that are sent.  *)
LEMMA RangeIsExact ==
  ASSUME NEW r \in RangeEnds, NEW n \in Nat, Request!Within(Request!Filled(r, n), n)
  PROVE  LET f == Request!Filled(r, n)
             p == Request!OffsetAndLength(f)
         IN /\ Request!PieceBytes(p) = Request!AskedBytes(r, n)
            /\ p[2] \in 1..n /\ Unset \notin {f[1], f[2]}
<1> DEFINE a == r[1]
           b == r[2]
           f == Request!Filled(r, n)
           p == Request!OffsetAndLength(f)
<1>1. a \in Nat \cup {-1} /\ b \in Nat \cup {-1} /\ r = <<a, b>>
  BY DEF RangeEnds, Unset, Request!Unset
<1>2. r # <<-1, -1>>
  <2> SUFFICES ASSUME r = <<-1, -1>> PROVE FALSE
    OBVIOUS
  <2>1. f = <<0, n>>
    BY DEF Request!Filled, Request!Unset
  <2> QED BY <2>1 DEF Request!Within
<1>3. a # -1 \/ b # -1
  BY <1>1, <1>2
<1>4. f = IF a = -1 THEN <<n - b, n - 1>> ELSE IF b = -1 THEN <<a, n - 1>> ELSE <<a, b>>
  BY <1>2 DEF Request!Filled, Request!Unset
<1>5. 0 <= f[1] /\ f[1] <= f[2] /\ f[2] <= n - 1
  BY DEF Request!Within
<1> HIDE DEF a, b, f
<1>6. f[1] \in Nat /\ f[2] \in Nat
  BY <1>1, <1>3, <1>4, <1>5
<1>7. p[1] = f[1] /\ p[2] = f[2] - f[1] + 1 /\ p[1] + p[2] - 1 = f[2]
  BY <1>6 DEF Request!OffsetAndLength
<1>8. Request!PieceBytes(p) = f[1]..f[2]
  BY <1>7 DEF Request!PieceBytes
<1>9. Request!AskedBytes(r, n) = {i \in 0..(n - 1) : IF a = -1 THEN i >= n - b ELSE i >= a /\ (b = -1 \/ i <= b)}
  BY DEF Request!AskedBytes, Request!Unset, a, b
<1>10. Request!AskedBytes(r, n) = f[1]..f[2]
  <2>1. CASE a = -1
    <3>1. f[1] = n - b /\ f[2] = n - 1 /\ b \in Nat
      BY <1>1, <1>3, <1>4, <2>1
    <3>2. Request!AskedBytes(r, n) = {i \in 0..(n - 1) : i >= f[1]}
      BY <1>9, <2>1, <3>1
    <3> QED BY <1>5, <1>6, <3>1, <3>2
  <2>2. CASE a # -1 /\ b = -1
    <3>1. f[1] = a /\ f[2] = n - 1
      BY <1>4, <2>2
    <3>2. Request!AskedBytes(r, n) = {i \in 0..(n - 1) : i >= f[1]}
      BY <1>9, <2>2, <3>1
    <3> QED BY <1>5, <1>6, <3>1, <3>2
  <2>3. CASE a # -1 /\ b # -1
    <3>1. f[1] = a /\ f[2] = b
      BY <1>4, <2>3
    <3>2. Request!AskedBytes(r, n) = {i \in 0..(n - 1) : i >= f[1] /\ i <= f[2]}
      BY <1>9, <2>3, <3>1
    <3> QED BY <1>5, <1>6, <3>1, <3>2
  <2> QED BY <2>1, <2>2, <2>3
<1>11. p[2] \in 1..n
  BY <1>5, <1>6, <1>7
<1>12. Unset \notin {f[1], f[2]}
  BY <1>6 DEF Unset, Request!Unset
<1> QED BY <1>8, <1>10, <1>11, <1>12 DEF f

(* Ends that lie within the content are positions in it.                   *)
LEMMA EndsAreNatural ==
  ASSUME NEW r \in RangeEnds, NEW n \in Nat, Request!Within(Request!Filled(r, n), n)
  PROVE  Request!Filled(r, n)[1] \in Nat /\ Request!Filled(r, n)[2] \in Nat
<1> DEFINE a == r[1]
           b == r[2]
           f == Request!Filled(r, n)
<1>1. a \in Nat \cup {-1} /\ b \in Nat \cup {-1}
  BY DEF RangeEnds, Unset, Request!Unset
<1>2. f \in {<<n - n, n - 1>>, <<n - b, n - 1>>, <<a, n - 1>>, <<a, b>>, <<0, n>>}
  BY DEF Request!Filled, Request!Unset
<1>3. 0 <= f[1] /\ f[1] <= f[2]
  BY DEF Request!Within
<1> HIDE DEF a, b, f
<1>4. f[1] \in Int /\ f[2] \in Int
  BY <1>1, <1>2
<1>5. f[1] \in Nat /\ f[2] \in Nat
  BY <1>3, <1>4
<1> QED BY <1>5 DEF f

(* What is written of all the content, for any method.                      *)
LEMMA WholeIsRight ==
  ASSUME NEW r \in Responses, r.status \in Request!Statuses \ {206}, NEW apply, NEW h
  PROVE  Right(Request!Written(r, <<>>, apply), req.method, h)
<1> DEFINE x == Request!Written(r, <<>>, apply)
<1>1. r.size \in Nat
  <2>1. r.size \in Sizes \cup {0}
    BY DEF Responses
  <2> QED BY <2>1, SizesAreNatural
<1>2. x.status = r.status /\ x.size = r.size /\ x.pieces \in {<<>>, <<<<0, r.size>>>>}
  BY DEF Request!Written, Request!Pieces
<1> HIDE DEF x
<1>3. ASSUME x.size > 0, NEW k \in DOMAIN x.pieces PROVE x.pieces[k][2] \in 1..x.size
  <2>1. x.pieces = <<<<0, r.size>>>> /\ k = 1
    BY <1>2, <1>3
  <2> QED BY <1>1, <1>2, <1>3, <2>1
<1>4. x.size > 0 => Request!Total(x.pieces) < 3 * x.size
  <2>1. Request!Total(<<>>) = 0 /\ Request!Total(<<<<0, r.size>>>>) = r.size
    BY <1>1, TotalOfOne
  <2>2. Request!Total(x.pieces) \in {0, r.size}
    BY <1>2, <2>1
  <2> QED BY <1>1, <1>2, <2>2
<1>5. Right(x, req.method, h)
  BY <1>2, <1>3, <1>4 DEF Right
<1> QED BY <1>5 DEF x

(* What an error handler may make of it is as right.                        *)
Served(r, handled, size) ==
  IF handled THEN Request!With(r.status, [kind |-> IF size = 0 THEN "empty" ELSE "body", size |-> size])
  ELSE r

LEMMA ServedIsRight ==
  ASSUME NEW r \in Responses, r.status \in Request!Statuses \ {206}, NEW apply, NEW h,
         NEW handled \in BOOLEAN, NEW size \in Sizes
  PROVE  /\ r.status # Request!Unset /\ Request!Applicable(<<>>, Served(r, handled, size).size)
         /\ Right(Request!Written(Served(r, handled, size), <<>>, apply), req.method, h)
<1> DEFINE final == Served(r, handled, size)
<1>1. r.status # Request!Unset
  BY DEF Request!Statuses, Request!Unset
<1>2. Request!Applicable(<<>>, final.size)
  BY DEF Request!Applicable
<1>3. final \in Responses /\ final.status = r.status
  <2>1. CASE handled
    BY <2>1 DEF Served, Request!With, Responses, Request!Kinds
  <2>2. CASE ~handled
    BY <2>2 DEF Served
  <2> QED BY <2>1, <2>2
<1> HIDE DEF final
<1>4. Right(Request!Written(final, <<>>, apply), req.method, h)
  BY <1>3, WholeIsRight
<1> QED BY <1>1, <1>2, <1>4 DEF final

(* write_response writes one reply more, and a right one.                   *)
Answered(h) == pc' = "done" /\ \E x : sent' = Append(sent, x) /\ Right(x, req.method, h)

LEMMA CoreIsRight ==
  ASSUME NEW r \in Responses, r.status \in Request!Statuses \ {206}, NEW apply, NEW h, Request!Core(r, <<>>, apply)
  PROVE  Answered(h)
<1>1. PICK handled \in IF ErrorHandler /\ r.status >= 400 THEN BOOLEAN ELSE {FALSE}, size \in Sizes :
        LET final == Served(r, handled, size)
            more == apply \/ handled
        IN IF r.status = Request!Unset \/ (more /\ final.kind \in {"body", "provider"} /\ ~Request!Applicable(<<>>, final.size))
           THEN Request!Aborts(r)
           ELSE pc' = "done" /\ sent' = Append(sent, Request!Written(final, <<>>, more))
  BY Zenon DEF Request!Core, Served
<1> DEFINE x == Request!Written(Served(r, handled, size), <<>>, apply \/ handled)
<1>2. /\ r.status # Request!Unset /\ Request!Applicable(<<>>, Served(r, handled, size).size)
      /\ Right(x, req.method, h)
  BY ServedIsRight
<1>3. pc' = "done" /\ sent' = Append(sent, x)
  BY <1>1, <1>2
<1> QED BY <1>2, <1>3 DEF Answered

(* An interim reply is right whatever was asked; so is what follows it.     *)
LEMMA SentIsRight ==
  ASSUME NEW x, NEW m, NEW h, Right(x, m, h), sent' = Append(sent, x),
         sent = <<>> \/ \E status \in {100, 417} : sent = <<Interim(status)>>
  PROVE  \A i \in DOMAIN sent' : Right(sent'[i], m, h)
<1>1. CASE sent = <<>>
  <2>1. sent' = <<x>>
    BY <1>1
  <2> QED BY <2>1
<1>2. ASSUME NEW status \in {100, 417}, sent = <<Interim(status)>>
      PROVE  \A i \in DOMAIN sent' : Right(sent'[i], m, h)
  <2>1. Right(Interim(status), m, h)
    BY DEF Interim, Right, Request!Statuses
  <2> DEFINE a == Interim(status)
  <2>2. Right(a, m, h) /\ sent = <<a>>
    BY <1>2, <2>1
  <2> HIDE DEF a
  <2>3. sent \in Seq({a, x}) /\ Len(sent) = 1 /\ sent[1] = a
    BY <2>2
  <2> DEFINE S == {a, x}
  <2>4. x \in S /\ sent \in Seq(S)
    BY <2>3
  <2> HIDE DEF S
  <2>5. Append(sent, x) \in Seq(S) /\ Len(Append(sent, x)) = Len(sent) + 1 /\ Append(sent, x)[Len(sent) + 1] = x
        /\ \A i \in 1..Len(sent) : Append(sent, x)[i] = sent[i]
    BY <2>4, AppendProperties
  <2>6. Len(sent') = 2 /\ sent' \in Seq(S) /\ sent'[1] = a /\ sent'[2] = x
    BY <2>3, <2>5
  <2> QED BY <2>2, <2>6
<1> QED BY <1>1, <1>2

(* A response without ranges ends the turn well.                            *)
LEMMA ResponseStep ==
  ASSUME TurnInv, pc \in {"line", "range", "expect", "route"}, asked' \in RangeHeaders \cup {<<>>},
         NEW r \in Responses, r.status \in Request!Statuses \ {206}, Request!WriteResponse(r)
  PROVE  TurnInv'
<1>1. /\ Request!Core(r, <<>>, FALSE) /\ req' = [req EXCEPT !.ranges = <<>>] /\ res' = r
      /\ req \in [method : Request!Methods, ranges : {<<>>, asked}]
      /\ sent = <<>> \/ \E status \in {100, 417} : sent = <<Interim(status)>>
  BY DEF Request!WriteResponse, TurnInv, Underway
<1>2. pc' = "done" /\ \E x : sent' = Append(sent, x) /\ Right(x, req.method, asked')
  <2>1. Request!Core(r, <<>>, FALSE)
    BY <1>1
  <2>2. Answered(asked')
    BY <2>1, CoreIsRight
  <2> QED BY <2>2 DEF Answered
<1>3. req'.method = req.method /\ req.method \in Request!Methods
  BY <1>1
<1>4. \A i \in DOMAIN sent' : Right(sent'[i], req'.method, asked')
  BY <1>1, <1>2, <1>3, SentIsRight
<1> QED BY <1>1, <1>2, <1>3, <1>4 DEF TurnInv

(* The reply to a request with ranges consists of them, each filled in and  *)
(* found to be within; what it is taken from is found, and has a size.      *)
Ranged(r, h, f) ==
  /\ r \in Responses /\ r.status \in Request!Statuses /\ r.status < 400
  /\ r.kind \in {"body", "provider"} \/ r.size = 0
  /\ h \in Seq(RangeEnds) /\ h # <<>>
  /\ f = Request!FilledAll(h, r.size) /\ ~Request!RangeError(f, r.size)

(* What range_error lets pass is in order and overlaps at most twice.       *)
LEMMA RangesAscend ==
  ASSUME NEW r, NEW h, NEW f, Ranged(r, h, f)
  PROVE  Ascends(f, r.size)
<1> DEFINE n == r.size
<1> USE DEF Ranged
<1>1. n \in Nat
  BY SizesAreNatural DEF Responses
<1>2. DOMAIN f = 1..Len(f) /\ Len(f) \in Nat /\ \A i \in DOMAIN f : h[i] \in RangeEnds /\ f[i] = Request!Filled(h[i], n)
  BY DEF Request!FilledAll
<1>3. ~Request!RangeError(f, n)
  OBVIOUS
<1> HIDE DEF n, Ranged
<1>4. Cardinality(Request!Overlapping(f)) <= 2
  <2>1. ~(Request!Cardinality(Request!Overlapping(f)) > 2)
    BY <1>3 DEF Request!RangeError
  <2>2. Request!Overlapping(f) \subseteq 1..Len(f)
    BY <1>2 DEF Request!Overlapping
  <2>3. Cardinality(Request!Overlapping(f)) \in Nat
    <3> DEFINE m == Len(f)
    <3>1. m \in Int /\ 1 \in Int /\ Request!Overlapping(f) \subseteq 1..m
      BY <1>2, <2>2
    <3> HIDE DEF m
    <3>2. IsFiniteSet(1..m)
      BY <3>1, FS_Interval
    <3> QED BY <3>1, <3>2, FS_Subset, FS_CardinalityType
  <2> QED BY <2>1, <2>3, SameCardinality
<1>5. \A i \in 1..Len(f) : f[i][1] \in Nat /\ f[i][2] \in Nat /\ f[i][1] <= f[i][2] /\ f[i][2] <= n - 1
  <2> TAKE i \in 1..Len(f)
  <2>1. Request!Within(f[i], n)
    BY <1>2, <1>3 DEF Request!RangeError
  <2>2. f[i][1] \in Nat /\ f[i][2] \in Nat
    BY <1>1, <1>2, <2>1, EndsAreNatural
  <2> QED BY <2>1, <2>2 DEF Request!Within
<1>6. \A i, j \in 1..Len(f) : j < i => f[j][1] < f[i][1]
  <2> TAKE i, j \in 1..Len(f)
  <2>1. ~(j < i /\ f[i][1] <= f[j][1])
    BY <1>2, <1>3 DEF Request!RangeError
  <2> QED BY <1>5, <2>1
<1> QED BY <1>2, <1>4, <1>5, <1>6 DEF Ascends, n

LEMMA RangedIsRight ==
  ASSUME NEW r, NEW h, NEW f, Ranged(r, h, f)
  PROVE  Request!Applicable(f, r.size) /\ Right(Request!Written(r, f, TRUE), req.method, h)
<1> DEFINE n == r.size
           x == Request!Written(r, f, TRUE)
<1> USE DEF Ranged
<1>1. n \in Nat
  BY SizesAreNatural DEF Responses
<1>2. DOMAIN f = DOMAIN h /\ DOMAIN h = 1..Len(h) /\ Len(h) \in Nat /\ Len(h) > 0 /\ f \in [1..Len(h) -> {f[i] : i \in DOMAIN f}]
      /\ \A i \in DOMAIN h : h[i] \in RangeEnds /\ f[i] = Request!Filled(h[i], n)
  BY EmptySeq DEF Request!FilledAll
<1>3. \A i \in DOMAIN h : Request!Within(f[i], n)
  BY <1>2 DEF Request!RangeError
<1> HIDE DEF n
<1>4. \A i \in DOMAIN h :
        LET p == Request!OffsetAndLength(f[i])
        IN /\ Request!PieceBytes(p) = Request!AskedBytes(h[i], n)
           /\ p[2] \in 1..n /\ Unset \notin {f[i][1], f[i][2]}
  BY <1>1, <1>2, <1>3, RangeIsExact
<1>5. Request!Applicable(f, n)
  BY <1>2, <1>3, <1>4 DEF Request!Applicable, Unset
<1>6. n > 0
  <2>1. 1 \in DOMAIN h
    BY <1>2
  <2>2. Request!OffsetAndLength(f[1])[2] \in 1..n
    BY <1>4, <2>1
  <2> QED BY <1>1, <2>2
<1>7. r.kind \in {"body", "provider"} /\ f # <<>>
  BY <1>2, <1>6 DEF n
<1>8. /\ x.status = r.status /\ x.size = n
      /\ x.pieces = IF req.method = "HEAD" THEN <<>> ELSE [i \in DOMAIN f |-> Request!OffsetAndLength(f[i])]
  BY <1>7 DEF Request!Written, Request!Pieces, n
<1> HIDE DEF x
<1>9. ASSUME NEW k \in DOMAIN x.pieces PROVE x.pieces[k][2] \in 1..x.size
  <2>1. CASE req.method = "HEAD"
    BY <1>8, <2>1
  <2>2. CASE req.method # "HEAD"
    <3>1. k \in DOMAIN h /\ x.pieces[k] = Request!OffsetAndLength(f[k])
      BY <1>2, <1>8, <2>2
    <3> QED BY <1>4, <1>8, <3>1
  <2> QED BY <2>1, <2>2
<1>10. ASSUME req.method # "HEAD" PROVE Exact(x, h)
  <2>1. DOMAIN x.pieces = 1..Len(h) /\ \A k \in DOMAIN h : x.pieces[k] = Request!OffsetAndLength(f[k])
    BY <1>2, <1>8, <1>10
  <2>2. Len(x.pieces) = Len(h)
    BY <1>2, <2>1
  <2>3. \A k \in DOMAIN h : Request!PieceBytes(x.pieces[k]) = Request!AskedBytes(h[k], x.size) /\ x.pieces[k][2] > 0
    <3> TAKE k \in DOMAIN h
    <3>1. Request!OffsetAndLength(f[k])[2] \in 1..n
      BY <1>4
    <3>2. Request!OffsetAndLength(f[k])[2] > 0
      BY <1>1, <3>1
    <3> QED BY <1>4, <1>8, <2>1, <3>2
  <2> QED BY <2>2, <2>3 DEF Exact
<1>11. r.status \in Int /\ ~(r.status >= 400)
  BY DEF Request!Statuses
<1>12. Request!Total(x.pieces) < 3 * x.size
  <2>1. CASE req.method = "HEAD"
    <3>1. Request!Total(x.pieces) = 0
      BY <1>8, <2>1, TotalOfOne
    <3> QED BY <1>1, <1>6, <1>8, <3>1
  <2>2. CASE req.method # "HEAD"
    <3> DEFINE p == [i \in DOMAIN f |-> Request!OffsetAndLength(f[i])]
    <3>1. Ascends(f, n)
      BY <1>1, <1>2, <1>3, RangesAscend DEF n
    <3>2. Request!Total(p) < 3 * n
      BY <1>1, <1>6, <3>1, TotalBelow
    <3> QED BY <1>8, <2>2, <3>2
  <2> QED BY <2>1, <2>2
<1>13. Right(x, req.method, h)
  BY <1>8, <1>9, <1>10, <1>11, <1>12 DEF Right
<1> QED BY <1>5, <1>13 DEF x, n


(* The statuses whose ranges are looked at.                                 *)
Success(status) == status \in 200..299

LEMMA FoundStatus ==
  ASSUME NEW s \in {200, 206, 404}
  PROVE  Success(s) <=> s # 404
BY DEF Success

(* What a handler leaves is a response, and content it has none of is empty.*)
LEMMA ContentsAreTyped ==
  ASSUME NEW c \in Request!Bodies
  PROVE  c.kind \in Request!Kinds /\ c.size \in Sizes \cup {0} /\ (c.kind \in {"body", "provider"} \/ c.size = 0)
BY DEF Request!Bodies, Request!Kinds

LEMMA WithTyped ==
  ASSUME NEW status \in Request!Statuses \cup {Unset}, NEW c \in Request!Bodies
  PROVE  /\ Request!With(status, c) \in Responses
         /\ Request!With(status, c) = [status |-> status, kind |-> c.kind, size |-> c.size]
BY ContentsAreTyped DEF Request!With, Responses

(* The statuses a handler sets, and a refusal of it.                        *)
HandlerStatuses == {Unset, 200, 404}
Refused(status) == status = 404

(* The answer of a handler or of a file.                                    *)
LEMMA RoutedStep ==
  ASSUME TurnInv, pc = "route", UNCHANGED asked, RangedRefusals = FALSE,
         NEW status \in HandlerStatuses, NEW c \in Request!Bodies,
         Refused(status) => req.ranges = <<>>, Request!Routed(Request!With(status, c))
  PROVE  TurnInv'
<1> DEFINE r == Request!With(status, c)
           final == [r EXCEPT !.status = Request!Status(r)]
           h == req.ranges
           f == Request!FilledAll(h, r.size)
           ranged == h # <<>> /\ Success(final.status)
           ranges == IF ranged THEN f ELSE h
<1>1. /\ req \in [method : Request!Methods, ranges : {<<>>, asked}] /\ asked \in RangeHeaders \cup {<<>>}
      /\ sent = <<>> \/ \E s \in {100, 417} : sent = <<Interim(s)>>
      /\ res = Request!Nothing
  BY DEF TurnInv, Underway
<1> USE DEF HandlerStatuses, Refused
<1>2. status \in Request!Statuses \cup {Unset}
  BY DEF Request!Statuses
<1>3. r = [status |-> status, kind |-> c.kind, size |-> c.size]
  BY <1>2, WithTyped
<1>4. /\ final = [status |-> IF status # Unset THEN status ELSE IF h = <<>> THEN 200 ELSE 206,
                  kind |-> c.kind, size |-> c.size]
  <2>1. Request!Status(r) = IF status # Unset THEN status ELSE IF h = <<>> THEN 200 ELSE 206
    BY <1>3 DEF Request!Status, Unset
  <2> QED BY <1>3, <2>1
<1>5. /\ final \in Responses /\ final.status \in {200, 206, 404} /\ (final.kind \in {"body", "provider"} \/ final.size = 0)
      /\ final.size = r.size
  <2>1. c.kind \in Request!Kinds /\ c.size \in Sizes \cup {0} /\ (c.kind \in {"body", "provider"} \/ c.size = 0)
    BY ContentsAreTyped
  <2>2. (IF status # Unset THEN status ELSE IF h = <<>> THEN 200 ELSE 206) \in {200, 206, 404}
    OBVIOUS
  <2>3. {200, 206, 404} \subseteq Request!Statuses
    BY DEF Request!Statuses
  <2> QED BY <1>3, <1>4, <2>1, <2>2, <2>3 DEF Responses
<1>6. final.status = 404 => h = <<>>
  BY <1>4
<1>7. final.status = 206 => h # <<>>
  BY <1>4
<1>8. IF ranged /\ Request!RangeError(ranges, r.size)
      THEN Request!WriteResponse(Request!With(416, [kind |-> "empty", size |-> 0]))
      ELSE Request!WriteResponseWithContent(final, ranges)
  BY DEF Request!Routed, Success
<1> HIDE DEF r, final
<1>9. CASE ranged /\ Request!RangeError(ranges, r.size)
  <2> DEFINE e == [kind |-> "empty", size |-> 0]
             w == Request!With(416, e)
  <2>1. e \in Request!Bodies
    BY DEF Request!Bodies
  <2>2. 416 \in Request!Statuses
    BY DEF Request!Statuses
  <2>3. w \in Responses /\ w = [status |-> 416, kind |-> e.kind, size |-> e.size]
    <3> HIDE DEF e
    <3> QED BY <2>1, <2>2, WithTyped
  <2>4. w.status = 416
    <3> HIDE DEF e
    <3> QED BY <2>3
  <2>5. Request!WriteResponse(w)
    BY <1>8, <1>9
  <2>6. asked' \in RangeHeaders \cup {<<>>}
    BY <1>1
  <2> HIDE DEF w, e
  <2>7. w.status \in Request!Statuses \ {206}
    BY <2>2, <2>4
  <2> QED BY <2>3, <2>5, <2>6, <2>7, ResponseStep
<1>10. CASE ~(ranged /\ Request!RangeError(ranges, r.size))
  <2>1. Request!Core(final, ranges, TRUE) /\ req' = [req EXCEPT !.ranges = ranges] /\ res' = final
    BY <1>8, <1>10 DEF Request!WriteResponseWithContent
  <2>2. pc' = "done" /\ \E x : sent' = Append(sent, x) /\ Right(x, req.method, asked)
    <3>1. CASE ranged
      <4>1. ranges = f /\ ~Request!RangeError(f, final.size) /\ h = asked /\ h # <<>> /\ h \in Seq(RangeEnds)
        BY <1>1, <1>5, <1>10, <3>1, RequestConstants
      <4>2. final.status \in Request!Statuses /\ final.status < 400
        <5>1. final.status \in {200, 206}
          BY <1>5, <3>1, FoundStatus
        <5> QED BY <5>1 DEF Request!Statuses
      <4>3. f = Request!FilledAll(h, final.size)
        BY <1>5
      <4> HIDE DEF f, h, ranges
      <4>4. Request!Applicable(f, final.size) /\ Right(Request!Written(final, f, TRUE), req.method, asked)
        <5>1. Ranged(final, asked, f)
          BY <1>5, <4>1, <4>2, <4>3 DEF Ranged
        <5> QED BY <5>1, RangedIsRight
      <4>5. final.status # Request!Unset /\ ~(final.status >= 400)
        BY <1>5, <4>2 DEF Request!Unset
      <4>6. pc' = "done" /\ sent' = Append(sent, Request!Written(final, f, TRUE))
        <5>1. Request!Core(final, f, TRUE)
          BY <2>1, <4>1
        <5> QED BY <4>4, <4>5, <5>1 DEF Request!Core
      <4> QED BY <4>4, <4>6
    <3>2. CASE ~ranged
      <4>1. h = <<>>
        BY <1>5, <1>6, <3>2, FoundStatus
      <4>2. ranges = <<>>
        BY <3>2, <4>1
      <4>3. final.status \in Request!Statuses \ {206}
        BY <1>5, <1>7, <4>1 DEF Request!Statuses
      <4> HIDE DEF h, f, ranges, ranged
      <4>4. PICK handled \in IF ErrorHandler /\ final.status >= 400 THEN BOOLEAN ELSE {FALSE}, size \in Sizes :
              LET end == Served(final, handled, size)
                  more == TRUE \/ handled
              IN IF final.status = Request!Unset
                    \/ (more /\ end.kind \in {"body", "provider"} /\ ~Request!Applicable(ranges, end.size))
                 THEN Request!Aborts(final)
                 ELSE pc' = "done" /\ sent' = Append(sent, Request!Written(end, ranges, more))
        BY <2>1, Zenon DEF Request!Core, Served
      <4> DEFINE x == Request!Written(Served(final, handled, size), <<>>, TRUE \/ handled)
      <4>5. /\ final.status # Request!Unset /\ Request!Applicable(<<>>, Served(final, handled, size).size)
            /\ Right(x, req.method, asked)
        <5>1. handled \in BOOLEAN /\ final \in Responses
          BY <1>5
        <5> HIDE DEF final
        <5> QED BY <4>3, <5>1, ServedIsRight
      <4>6. pc' = "done" /\ sent' = Append(sent, x)
        BY <4>2, <4>4, <4>5
      <4> QED BY <4>5, <4>6
    <3> QED BY <3>1, <3>2
  <2>3. req'.method = req.method /\ req.method \in Request!Methods
    BY <1>1, <2>1
  <2>4. \A i \in DOMAIN sent' : Right(sent'[i], req'.method, asked')
    BY <1>1, <2>2, <2>3, SentIsRight
  <2> QED BY <1>1, <1>5, <2>1, <2>2, <2>3, <2>4 DEF TurnInv
<1> QED BY <1>9, <1>10
(* An answer of httplib's own: a status and no content but what an error    *)
(* handler says.                                                            *)
LEMMA RefusalStep ==
  ASSUME TurnInv, pc \in {"line", "range", "expect", "route"}, asked' \in RangeHeaders \cup {<<>>},
         NEW status \in Request!Statuses \ {206}, Request!WriteResponse([res EXCEPT !.status = status])
  PROVE  TurnInv'
<1>1. res = [status |-> Unset, kind |-> "empty", size |-> 0]
  BY DEF TurnInv, Underway, Request!Nothing, Unset
<1>2. PICK r : r = [res EXCEPT !.status = status]
  OBVIOUS
<1>3. r = [status |-> status, kind |-> "empty", size |-> 0]
  BY <1>1, <1>2
<1>4. r \in Responses /\ r.status \in Request!Statuses \ {206}
  BY <1>3 DEF Responses, Request!Kinds
<1>5. Request!WriteResponse(r)
  BY <1>2
<1> QED BY <1>4, <1>5, ResponseStep

(* Routing: a handler, a file, nobody, or a handler that throws.            *)
LEMMA RouteStep ==
  ASSUME TurnInv, RangedRefusals = FALSE, Request!Route
  PROVE  TurnInv'
<1>1. pc = "route" /\ UNCHANGED asked /\ asked' \in RangeHeaders \cup {<<>>}
  BY DEF Request!Route, TurnInv
<1>2. ASSUME NEW status \in HandlerStatuses, NEW c \in Request!Bodies,
             Request!Handled(Request!With(status, c)), Request!Routed(Request!With(status, c))
      PROVE  TurnInv'
  <2>1. Refused(status) => req.ranges = <<>>
    BY <1>2 DEF Request!Handled, Request!With, Refused
  <2> QED BY <1>1, <1>2, <2>1, RoutedStep
<1>3. ASSUME NEW r, Request!FileFound(r), Request!Routed(r)
      PROVE  TurnInv'
  <2>1. PICK n \in Sizes \ {0} : r = Request!With(Unset, [kind |-> "provider", size |-> n])
    BY <1>3 DEF Request!FileFound, Unset
  <2> DEFINE c == [kind |-> "provider", size |-> n]
  <2>2. c \in Request!Bodies
    BY DEF Request!Bodies
  <2> HIDE DEF c
  <2>3. Request!Routed(Request!With(Unset, c))
    BY <1>3, <2>1 DEF c
  <2>4. Unset \in HandlerStatuses /\ ~Refused(Unset)
    BY DEF Unset, Request!Unset, HandlerStatuses, Refused
  <2> QED BY <1>1, <2>2, <2>3, <2>4, RoutedStep
<1>4. ASSUME NEW status \in Request!Unrouted,
             Request!WriteResponse([res EXCEPT !.status = IF status = Request!Unset THEN 404 ELSE status])
      PROVE  TurnInv'
  <2> DEFINE s == IF status = Request!Unset THEN 404 ELSE status
  <2>1. s \in Request!Statuses \ {206}
    BY DEF Request!Unrouted, Request!Statuses, Request!Unset
  <2>2. Request!WriteResponse([res EXCEPT !.status = s])
    BY <1>4
  <2> HIDE DEF s
  <2> QED BY <1>1, <2>1, <2>2, RefusalStep
<1>5. ASSUME NEW c \in Request!Bodies, Request!WriteResponse(Request!With(500, c))
      PROVE  TurnInv'
  <2>1. 500 \in Request!Statuses \ {206}
    BY DEF Request!Statuses
  <2> DEFINE r == Request!With(500, c)
  <2>2. r \in Responses /\ r.status = 500
    BY <2>1, WithTyped
  <2>3. Request!WriteResponse(r)
    BY <1>5
  <2> HIDE DEF r
  <2> QED BY <1>1, <2>1, <2>2, <2>3, ResponseStep
<1>6. CASE \E r \in {Request!With(status, c) : status \in {Request!Unset, 200, 404}, c \in Request!Bodies} :
             (Request!Handled(r) \/ Request!FileFound(r)) /\ Request!Routed(r)
  <2>1. PICK status \in HandlerStatuses, c \in Request!Bodies :
          LET r == Request!With(status, c) IN (Request!Handled(r) \/ Request!FileFound(r)) /\ Request!Routed(r)
    BY <1>6 DEF HandlerStatuses, Unset
  <2> QED BY <1>2, <1>3, <2>1
<1>7. \/ \E r \in {Request!With(status, c) : status \in {Request!Unset, 200, 404}, c \in Request!Bodies} :
           (Request!Handled(r) \/ Request!FileFound(r)) /\ Request!Routed(r)
      \/ \E status \in Request!Unrouted :
           Request!WriteResponse([res EXCEPT !.status = IF status = Request!Unset THEN 404 ELSE status])
      \/ \E c \in Request!Bodies : Request!WriteResponse(Request!With(500, c))
  BY DEF Request!Route
<1>8. CASE \E status \in Request!Unrouted :
             Request!WriteResponse([res EXCEPT !.status = IF status = Request!Unset THEN 404 ELSE status])
  BY <1>4, <1>8, Zenon
<1>9. CASE \E c \in Request!Bodies : Request!WriteResponse(Request!With(500, c))
  BY <1>5, <1>9
<1> QED BY <1>6, <1>7, <1>8, <1>9

(* Every step of process_request, one after the other.                      *)
LEMMA TurnStep ==
  ASSUME TurnInv, RangedRefusals = FALSE, Request!Next
  PROVE  TurnInv'
<1>1. CASE Request!BadLine
  <2>1. PICK status \in {400, 414, 500} : Request!WriteResponse([res EXCEPT !.status = status])
    BY <1>1 DEF Request!BadLine
  <2>2. status \in Request!Statuses \ {206}
    BY DEF Request!Statuses
  <2>3. pc = "line" /\ asked' \in RangeHeaders \cup {<<>>}
    BY <1>1 DEF Request!BadLine, TurnInv
  <2> QED BY <2>1, <2>2, <2>3, RefusalStep
<1>2. CASE Request!Closed
  BY <1>2 DEF Request!Closed, TurnInv
<1>3. CASE Request!RequestLine
  <2>1. PICK method \in Request!Methods : req' = [req EXCEPT !.method = method]
    BY <1>3 DEF Request!RequestLine
  <2>2. pc = "line" /\ pc' = "range" /\ UNCHANGED <<asked, res, sent>>
    BY <1>3 DEF Request!RequestLine
  <2>3. req \in [method : Request!Methods, ranges : {<<>>, asked}] /\ sent = <<>> /\ asked = <<>> /\ res = Request!Nothing
    BY <2>2 DEF TurnInv, Underway
  <2>4. req' \in [method : Request!Methods, ranges : {<<>>, asked'}]
    BY <2>1, <2>2, <2>3
  <2>5. Underway'
    BY <2>2, <2>3, <2>4 DEF Underway
  <2>6. DOMAIN sent' = {}
    BY <2>2, <2>3
  <2> QED BY <2>2, <2>4, <2>5, <2>6 DEF TurnInv
<1>4. CASE Request!RangeHeader
  <2>1. pc = "range" /\ req \in [method : Request!Methods, ranges : {<<>>, asked}] /\ sent = <<>>
        /\ asked = <<>> /\ res = Request!Nothing /\ res \in Responses
    BY <1>4 DEF Request!RangeHeader, TurnInv, Underway
  <2>2. CASE UNCHANGED <<req, asked, res, sent>> /\ pc' = "expect"
    BY <2>1, <2>2 DEF TurnInv, Underway
  <2>3. ASSUME NEW h \in RangeHeaders, asked' = h, req' = [req EXCEPT !.ranges = h], pc' = "expect", UNCHANGED <<res, sent>>
        PROVE  TurnInv'
    <3>1. req' \in [method : Request!Methods, ranges : {<<>>, asked'}]
      BY <2>1, <2>3
    <3>2. Underway'
      BY <2>1, <2>3, <3>1 DEF Underway
    <3>3. DOMAIN sent' = {}
      BY <2>1, <2>3
    <3> QED BY <2>1, <2>3, <3>1, <3>2, <3>3 DEF TurnInv
  <2>4. ASSUME NEW h \in RangeHeaders, asked' = h, Request!WriteResponse([res EXCEPT !.status = 416])
        PROVE  TurnInv'
    <3>1. 416 \in Request!Statuses \ {206}
      BY DEF Request!Statuses
    <3> QED BY <2>1, <2>4, <3>1, RefusalStep
  <2> QED BY <1>4, <2>2, <2>3, <2>4 DEF Request!RangeHeader
<1>5. CASE Request!Expect
  <2>1. pc = "expect" /\ UNCHANGED asked /\ asked' \in RangeHeaders \cup {<<>>}
        /\ req \in [method : Request!Methods, ranges : {<<>>, asked}] /\ sent = <<>>
        /\ res = Request!Nothing /\ res \in Responses
    BY <1>5 DEF Request!Expect, TurnInv, Underway
  <2>2. CASE pc' = "route" /\ UNCHANGED <<req, res, sent>>
    BY <2>1, <2>2 DEF TurnInv, Underway
  <2>3. ASSUME pc' = "route", UNCHANGED <<req, res>>, NEW status \in {100, 417}, sent' = Append(sent, Interim(status))
        PROVE  TurnInv'
    <3>1. sent' = <<Interim(status)>>
      BY <2>1, <2>3
    <3>2. Right(Interim(status), req.method, asked)
      BY DEF Interim, Right, Request!Statuses
    <3>3. \A i \in DOMAIN sent' : Right(sent'[i], req'.method, asked')
      <4> DEFINE x == Interim(status)
      <4>1. sent' = <<x>> /\ Right(x, req.method, asked)
        BY <3>1, <3>2
      <4> HIDE DEF x
      <4> QED BY <2>1, <2>3, <4>1
    <3>4. Underway'
      BY <2>1, <2>3, <3>1 DEF Underway
    <3> QED BY <2>1, <2>3, <3>3, <3>4 DEF TurnInv
  <2>4. ASSUME NEW status \in {Request!Unset, 401, 413}, NEW c \in Request!Bodies,
               Request!WriteResponse(Request!With(status, c))
        PROVE  TurnInv'
    <3> DEFINE r == Request!With(status, c)
    <3>1. r \in Responses /\ r.status = status
      <4>1. status \in Request!Statuses \cup {Unset}
        BY DEF Request!Statuses, Unset
      <4> QED BY <4>1, WithTyped
    <3>2. Request!WriteResponse(r)
      BY <2>4
    <3> HIDE DEF r
    <3>3. CASE status = Request!Unset
      <4>1. pc' = "unanswered" /\ sent' = sent
        <5>1. Request!Core(r, <<>>, FALSE) /\ r.status = Request!Unset
          BY <3>1, <3>2, <3>3 DEF Request!WriteResponse
        <5> QED BY <2>1, <5>1 DEF Request!Core, Request!Aborts
      <4>2. res' = r /\ req' = [req EXCEPT !.ranges = <<>>]
        BY <3>2 DEF Request!WriteResponse
      <4>3. req'.method \in Request!Methods /\ DOMAIN sent' = {}
        BY <2>1, <4>1, <4>2
      <4> QED BY <2>1, <3>1, <4>1, <4>2, <4>3 DEF TurnInv
    <3>4. CASE status # Request!Unset
      <4>1. status \in Request!Statuses \ {206}
        BY <3>4 DEF Request!Statuses
      <4>2. r.status \in Request!Statuses \ {206}
        BY <3>1, <4>1
      <4> QED BY <2>1, <3>1, <3>2, <4>2, ResponseStep
    <3> QED BY <3>3, <3>4
  <2> QED BY <1>5, <2>2, <2>3, <2>4 DEF Request!Expect, Interim
<1>6. CASE Request!Route
  BY <1>6, RouteStep
<1> QED BY <1>1, <1>2, <1>3, <1>4, <1>5, <1>6 DEF Request!Next
LEMMA TurnKeeps == RangedRefusals = FALSE /\ TurnInv /\ [MCNext]_all => TurnInv'
<1> SUFFICES ASSUME RangedRefusals = FALSE, TurnInv, [MCNext]_all
             PROVE  TurnInv'
  OBVIOUS
<1>1. CASE Request!Next
  BY <1>1, TurnStep
<1>2. CASE UNCHANGED turn
  BY <1>2 DEF turn, TurnInv, Underway
<1> QED BY <1>1, <1>2 DEF MCNext, all

LEMMA TurnBegins == Request!Init => TurnInv
<1> SUFFICES ASSUME Request!Init PROVE TurnInv
  OBVIOUS
<1>1. /\ pc = "line" /\ asked = <<>> /\ sent = <<>> /\ res = Request!Nothing
      /\ req \in [method : Request!Methods, ranges : {<<>>, asked}]
  BY DEF Request!Init, Request!Methods
<1>2. res \in Responses
  BY <1>1 DEF Request!Nothing, Responses, Unset, Request!Kinds
<1>3. DOMAIN sent = {}
  BY <1>1
<1> QED BY <1>1, <1>2, <1>3 DEF TurnInv, Underway

LEMMA TurnMeans == TurnInv => RightAnswer
<1> SUFFICES ASSUME TurnInv PROVE RightAnswer
  OBVIOUS
<1>1. Request!TypeOK
  <2>1. \A i \in DOMAIN sent :
          /\ sent[i].status \in Request!Statuses
          /\ sent[i].head[1] = "length" /\ sent[i].size > 0 =>
               \A k \in DOMAIN sent[i].pieces : sent[i].pieces[k][2] \in 1..sent[i].size
    BY DEF TurnInv, Right
  <2>2. res.status \in Request!Statuses \cup {Request!Unset} /\ res.kind \in Request!Kinds /\ res.size \in Sizes \cup {0}
    BY DEF TurnInv, Responses, Unset
  <2> QED BY <2>1, <2>2 DEF TurnInv, Request!TypeOK
<1>2. Request!ExactlyAsked
  BY DEF TurnInv, Right, Exact, Request!ExactlyAsked
<1>3. Request!AssertsHold
  BY DEF TurnInv, Request!AssertsHold
<1>4. Request!ErrorsWhole
  BY DEF TurnInv, Right, Request!ErrorsWhole
<1>5. Request!Bounded
  BY DEF TurnInv, Right, Request!Bounded
<1> QED BY <1>1, <1>2, <1>3, <1>4, <1>5 DEF RightAnswer

(* Whatever is asked, found or refused, with or without an error handler,   *)
(* process_request answers with the ranges of the request or with an error  *)
(* whole, with less than three times what there is, and fails no assertion  *)
(* about ranges, nor that there is a status once the request is routed: of  *)
(* a server whose handlers do not refuse what a range was asked of.  Only a *)
(* handler of Expect that refuses without setting a status ends it so.      *)
THEOREM AnswersAreRight == RangedRefusals = FALSE => (MCSpec => []RightAnswer)
<1> SUFFICES ASSUME RangedRefusals = FALSE PROVE MCSpec => []RightAnswer
  OBVIOUS
<1>1. MCInit => TurnInv
  BY TurnBegins DEF MCInit
<1>2. TurnInv /\ [MCNext]_all => TurnInv'
  BY TurnKeeps
<1> QED BY <1>1, <1>2, TurnMeans, PTL DEF MCSpec
=============================================================================
