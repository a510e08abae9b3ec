-------------------------- MODULE PoolServerProofs --------------------------
(***************************************************************************)
(* TLAPS proofs about PoolServer, for any number of clients, connections   *)
(* and threads: type correctness; that no thread follows a dead pointer    *)
(* while every client sends one request and waits; and that is_resp then   *)
(* covers every reply in the making.                                       *)
(***************************************************************************)
EXTENDS PoolServer, SequenceTheorems, TLAPS

(* Where the poll thread is tells which connection it holds, and that this  *)
(* one and those it has still to visit are not freed.                      *)
LoopInv ==
  /\ cur = Nobody <=> pc \in {"iotest", "errors", "poll"}
  /\ cur # Nobody => cur \in Live
  /\ todo \subseteq Live
  /\ cur \notin todo
  /\ \A w \in Workers : wpc[w] # "idle" => job[w] \in Jobs

(* Nothing is received that was not sent. *)
Conserved ==
  /\ \A c \in Clients : net[c] <= asked[c]
  /\ \A s \in Live : recv[s] + net[owner[s]] <= asked[owner[s]]

(* The clients and the sockets as long as nobody has deviated. *)
Patient ==
  /\ \A c \in Clients : sock[c] \in {"none", "open"} /\ asked[c] <= 2
  /\ failed = {}
  /\ \A s \in writable :
       s \in todo \/ (s = cur /\ (pc \in {"check", "read", "write"}
                                  \/ (pc = "http" /\ ret # "free"))) => len[s] > 0

(* The one request of connection s has been posted. *)
Spent(s) ==
  /\ owner[s] # Nobody
  /\ asked[owner[s]] = 2 /\ net[owner[s]] = 0 /\ recv[s] = 0

Ending(b) == b.is_draining \/ b.is_closing

(* What a posted job may rely on. *)
JobOK(j) == owner[j.slot] = j.client /\ Spent(j.slot) /\ ~Ending(bits[j.slot])

JobsOK ==
  /\ \A i \in DOMAIN queue : JobOK(queue[i]) /\ bits[queue[i].slot].is_resp
  /\ \A w \in Workers : wpc[w] # "idle" => JobOK(job[w]) /\ ~Ending(view[w].bits)
  /\ \A w \in Workers : wpc[w] \in {"head", "body", "clear"} => bits[slot(w)].is_resp

OneJobEach ==
  /\ \A i, k \in DOMAIN queue : i # k => queue[i].slot # queue[k].slot
  /\ \A w \in Workers, i \in DOMAIN queue : wpc[w] # "idle" => slot(w) # queue[i].slot
  /\ \A w, v \in Workers :
       w # v /\ wpc[w] # "idle" /\ wpc[v] # "idle" => slot(w) # slot(v)

Closing == pc = "free" \/ (pc = "http" /\ ret = "free")

(* A connection ends only after its request has been posted, and is marked  *)
(* as closing only while the poll thread frees it.                         *)
EndingOK ==
  /\ \A s \in Live : Ending(bits[s]) => Spent(s)
  /\ \A s \in Live : Ending(seen.bits[s]) => Spent(s)
  /\ \A s \in Live : bits[s].is_closing \/ seen.bits[s].is_closing
       => s = cur /\ Closing
  /\ Closing => bits[cur].is_closing

PatientInv == Patient /\ JobsOK /\ OneJobEach /\ EndingOK

IInv == TypeOK /\ LoopInv /\ Conserved /\ (~deviated => PatientInv)

----------------------------------------------------------------------------
(* Types, the loop's position and the count of what was sent.              *)

Base == TypeOK /\ LoopInv /\ Conserved

(* Clients only add to what was asked and is on its way. *)
LEMMA ClientBase ==
  ASSUME Base, NEW c \in Clients, Client(c)
  PROVE  Base'
<1> USE ParamAssumption DEF Base, TypeOK
<1>1. UNCHANGED server
  BY DEF Client
<1>2. HeapTypeOK' /\ PollTypeOK' /\ WorkerTypeOK' /\ LoopInv'
  BY <1>1 DEF HeapTypeOK, PollTypeOK, WorkerTypeOK, LoopInv, Live, server, heap, poll, ready,
    workers
<1>3. ClientTypeOK' /\ Conserved'
  <2> USE DEF ClientTypeOK, HeapTypeOK, Conserved, Live
  <2>1. CASE Connect(c)
    BY <1>1, <2>1 DEF Connect, server, heap
  <2>2. ASSUME NEW n \in 1..2, Send(c, n)
        PROVE  ClientTypeOK' /\ Conserved'
    <3>1. MaxReqs \in Nat \ {0} /\ asked[c] \in Nat /\ net[c] \in Nat /\ n \in Nat
      OBVIOUS
    <3>2. asked[c] + n <= 2 * MaxReqs /\ net[c] + n <= asked[c] + n
      BY <2>2, <3>1 DEF Send
    <3>3. asked[c] + n \in 0..(2 * MaxReqs) /\ net[c] + n \in 0..(2 * MaxReqs)
      BY <3>1, <3>2
    <3>4. ClientTypeOK'
      BY <1>1, <2>2, <3>3 DEF Send, server, heap
    <3>5. Conserved'
      BY <1>1, <2>2, <3>1 DEF Send, server, heap
    <3> QED BY <3>4, <3>5
  <2>3. ASSUME NEW how \in {"fin", "rst"}, Leave(c, how)
        PROVE  ClientTypeOK' /\ Conserved'
    BY <1>1, <2>3 DEF Leave, server, heap
  <2> QED BY <2>1, <2>2, <2>3 DEF Client
<1> QED BY <1>2, <1>3

(* What a worker remembers of its slot has the types of the slot.          *)
LEMMA LookTyped ==
  ASSUME NEW w \in Workers, slot(w) \in Slots, Look(w),
         view \in [Workers -> [bits : Bits, len : Nat]],
         bits' \in [Slots -> Bits], len' \in [Slots -> Nat]
  PROVE  view' \in [Workers -> [bits : Bits, len : Nat]]
<1>1. bits'[slot(w)] \in Bits /\ len'[slot(w)] \in Nat
  OBVIOUS
<1> QED BY <1>1 DEF Look

(* A step of a worker writes its slot and takes from the queue. *)
LEMMA WorkerBase ==
  ASSUME Base, NEW w \in Workers, Worker(w)
  PROVE  Base'
<1> USE ParamAssumption DEF Base, TypeOK
<1>1. UNCHANGED <<client, closed, deviated, owner, recv, poll>>
  BY DEF Worker, Take, PrintHead, PrintBody, ClearResp, Drain, heap
<1>2. ClientTypeOK' /\ PollTypeOK' /\ Conserved'
  BY <1>1 DEF ClientTypeOK, PollTypeOK, Conserved, Live, client, poll, ready
<1>3. HeapTypeOK' /\ WorkerTypeOK' /\ \A v \in Workers : wpc'[v] # "idle" => job'[v] \in Jobs
  <2> USE DEF HeapTypeOK, WorkerTypeOK, LoopInv, Step, slot
  <2>1. CASE Take(w)
    <3>1. Head(queue) \in Jobs /\ Tail(queue) \in Seq(Jobs)
      BY <2>1, HeadTailProperties DEF Take
    <3>2. Head(queue).slot \in Slots
      BY <3>1 DEF Jobs
    <3>3. bits[Head(queue).slot] \in Bits /\ len[Head(queue).slot] \in Nat
      BY <3>2
    <3> QED BY <2>1, <3>1, <3>3 DEF Take, heap
  <2>2. ASSUME wpc[w] # "idle"
        PROVE  /\ job[w] \in Jobs /\ slot(w) \in Slots
               /\ LoadedLen(w) \subseteq Nat /\ Loaded(w) \subseteq Bits
    <3>1. job[w] \in Jobs /\ slot(w) \in Slots
      BY <2>2 DEF Jobs
    <3> QED BY <3>1 DEF LoadedLen, Loaded
  <2>3. CASE PrintHead(w) \/ PrintBody(w)
    <3>1. PICK l \in LoadedLen(w) : Extend(w, l)
      BY <2>3 DEF PrintHead, PrintBody
    <3>2. l \in Nat /\ slot(w) \in Slots /\ job[w] \in Jobs
      BY <2>2, <2>3 DEF PrintHead, PrintBody
    <3>3. len' \in [Slots -> Nat] /\ UNCHANGED <<owner, recv, bits, queue, job>>
      BY <2>3, <3>1, <3>2 DEF PrintHead, PrintBody, Extend
    <3>4. view' \in [Workers -> [bits : Bits, len : Nat]]
      BY <2>3, <3>2, <3>3, LookTyped DEF PrintHead, PrintBody
    <3> QED BY <2>3, <3>2, <3>3, <3>4 DEF PrintHead, PrintBody
  <2>4. ASSUME NEW b \in Bits, NEW s \in Slots, NEW f \in {"is_resp", "is_draining", "is_closing"},
               NEW v \in BOOLEAN, Assign(s, b, f, v)
        PROVE  bits' \in [Slots -> Bits]
    BY <2>4 DEF Assign, Bits
  <2>5. CASE ClearResp(w)
    <3>1. PICK b \in Loaded(w) : Assign(slot(w), b, "is_resp", FALSE)
      BY <2>5 DEF ClearResp
    <3>2. bits' \in [Slots -> Bits] /\ slot(w) \in Slots /\ job[w] \in Jobs
      BY <2>2, <2>4, <2>5, <3>1 DEF ClearResp
    <3>3. view' \in [Workers -> [bits : Bits, len : Nat]]
      BY <2>5, <3>2, LookTyped DEF ClearResp
    <3> QED BY <2>5, <3>2, <3>3 DEF ClearResp
  <2>6. CASE Drain(w)
    <3>1. PICK b \in Loaded(w) : Assign(slot(w), b, "is_draining", TRUE)
      BY <2>6 DEF Drain
    <3>2. bits' \in [Slots -> Bits]
      BY <2>2, <2>4, <2>6, <3>1 DEF Drain
    <3>3. NoView \in [bits : Bits, len : Nat]
      BY DEF NoView, Zero, Bits
    <3> QED BY <2>6, <3>2, <3>3 DEF Drain
  <2> QED BY <2>1, <2>3, <2>5, <2>6 DEF Worker
<1>4. LoopInv'
  BY <1>1, <1>3 DEF LoopInv, Live, poll, ready
<1> QED BY <1>2, <1>3, <1>4

(* The poll thread: one case for each of its actions. *)
LEMMA PollBase ==
  ASSUME Base, Poll
  PROVE  Base'
<1> USE ParamAssumption DEF Base, TypeOK
<1> DEFINE Rest == ClientTypeOK' /\ HeapTypeOK' /\ WorkerTypeOK' /\ Conserved'
           Loop == /\ readable' \subseteq Slots /\ writable' \subseteq Slots
                   /\ failed' \subseteq Slots /\ lsn_readable' \in BOOLEAN
                   /\ todo' \subseteq Slots /\ cur' \in Slots \cup {Nobody}
                   /\ was_resp' \in BOOLEAN
                   /\ pc' \in {"iotest", "errors", "poll", "check", "read", "http", "write",
                              "delete", "finish", "free"}
                   /\ ret' \in {"read", "write", "free"}
                   /\ taken' \in Nat
<1>1. ASSUME UNCHANGED <<client, closed, deviated, heap, queue, workers>>
      PROVE  Rest
  BY <1>1 DEF ClientTypeOK, HeapTypeOK, WorkerTypeOK, Conserved, Live, client, heap, workers
<1>2. ASSUME NEW b \in Bits, NEW s \in Slots, NEW f \in {"is_resp", "is_draining", "is_closing"},
             NEW v \in BOOLEAN, Assign(s, b, f, v)
      PROVE  bits' \in [Slots -> Bits]
  BY <1>2 DEF Assign, Bits, HeapTypeOK
<1>3. \A s \in Slots : Loads(s) \subseteq Bits
  BY DEF Loads, HeapTypeOK, PollTypeOK
<1>4. cur # Nobody => cur \in Slots /\ owner[cur] \in Clients
  BY DEF LoopInv, Live, HeapTypeOK
<1> USE DEF Goto, Call
<1>5. ASSUME NEW s \in Slots, NEW b \in Loads(s), NEW f \in {"is_resp", "is_draining", "is_closing"},
             NEW v \in BOOLEAN, Assign(s, b, f, v),
             UNCHANGED <<client, deviated, owner, recv, len, queue, workers>>,
             closed' \in [Clients -> BOOLEAN]
      PROVE  Rest
  <2>1. bits' \in [Slots -> Bits]
    BY <1>2, <1>3, <1>5
  <2> QED BY <1>5, <2>1 DEF ClientTypeOK, HeapTypeOK, WorkerTypeOK, Conserved, Live, client, workers
<1>6. Rest /\ Loop /\ LoopInv'
  <2> USE DEF LoopInv, Live, PollTypeOK, ready, heap, workers
  <2>1. CASE Iotest
    BY <1>1, <2>1 DEF Iotest, HeapTypeOK
  <2>2. CASE SocketError
    <3>1. PICK s \in failed : \E b \in Loads(s) : Assign(s, b, "is_closing", TRUE)
      BY <2>2 DEF SocketError
    <3>2. Rest
      BY <1>5, <2>2, <3>1 DEF SocketError, ClientTypeOK
    <3> QED BY <2>2, <3>2 DEF SocketError
  <2>3. CASE IotestDone
    BY <1>1, <2>3 DEF IotestDone
  <2>4. CASE Visit
    BY <1>1, <2>4 DEF Visit, HeapTypeOK, Bits
  <2>5. CASE Check
    BY <1>1, <2>5 DEF Check
  <2>6. CASE ReadNothing
    BY <1>1, <2>6 DEF ReadNothing
  <2>7. CASE ReadData
    <3> DEFINE c == owner[cur]
    <3>1. PICK n \in 1..net[c] :
               /\ recv' = [recv EXCEPT ![cur] = @ + n]
               /\ net' = [net EXCEPT ![c] = @ - n]
      BY <2>7 DEF ReadData
    <3>2. cur \in Live /\ c \in Clients
      BY <1>4, <2>7 DEF ReadData
    <3>3. /\ recv[cur] \in Nat /\ net[c] \in Nat /\ asked[c] \in Nat /\ n \in Nat
          /\ recv[cur] + net[c] <= asked[c] /\ asked[c] <= 2 * MaxReqs /\ MaxReqs \in Nat
          /\ 1 <= n /\ n <= net[c]
      BY <3>1, <3>2 DEF Conserved, ClientTypeOK, HeapTypeOK
    <3>4. recv[cur] + n \in 0..(2 * MaxReqs) /\ net[c] - n \in 0..(2 * MaxReqs)
      BY <3>3
    <3>5. ClientTypeOK' /\ HeapTypeOK' /\ WorkerTypeOK'
      BY <2>7, <3>1, <3>2, <3>4 DEF ReadData, ClientTypeOK, HeapTypeOK, WorkerTypeOK
    <3>6. Conserved'
      <4>1. \A d \in Clients : net'[d] <= net[d] /\ net[d] \in Nat /\ net'[d] \in Nat
        BY <3>1, <3>2, <3>3, <3>5 DEF ClientTypeOK
      <4>2. \A d \in Clients : asked'[d] = asked[d] /\ asked[d] \in Nat
        BY <2>7 DEF ReadData, ClientTypeOK
      <4>3. \A s \in Live : recv'[s] + net'[owner[s]] <= asked[owner[s]]
        <5>1. recv'[cur] = recv[cur] + n /\ net'[c] = net[c] - n
          BY <3>1, <3>2 DEF HeapTypeOK, ClientTypeOK
        <5>2. \A s \in Live \ {cur} : recv'[s] = recv[s] /\ recv[s] \in Nat
                                     /\ owner[s] \in Clients
          BY <3>1, <3>2 DEF HeapTypeOK
        <5> QED BY <3>3, <4>1, <4>2, <5>1, <5>2 DEF Conserved
      <4> QED BY <2>7, <4>1, <4>2, <4>3 DEF Conserved, ReadData
    <3> QED BY <2>7, <3>5, <3>6 DEF ReadData
  <2>8. CASE ReadFails
    <3>1. cur \in Slots
      BY <1>4, <2>8 DEF ReadFails
    <3>2. Rest
      BY <1>5, <2>8, <3>1 DEF ReadFails, ClientTypeOK
    <3> QED BY <2>8, <3>2 DEF ReadFails
  <2>9. CASE Deliver
    <3>1. cur \in Live /\ cur \in Slots /\ owner[cur] \in Clients
      BY <1>4, <2>9 DEF Deliver
    <3>2. PICK b \in Loads(cur) : Assign(cur, b, "is_resp", TRUE)
      BY <2>9 DEF Deliver
    <3>3. bits' \in [Slots -> Bits]
      BY <1>2, <1>3, <3>1, <3>2
    <3>4. [client |-> owner[cur], slot |-> cur] \in Jobs
      BY <3>1 DEF Jobs
    <3>5. (IF ret = "free" THEN 0 ELSE recv[cur] - 2) \in 0..recv[cur] /\ recv[cur] \in 0..(2 * MaxReqs)
      BY <2>9, <3>1 DEF Deliver, MayDeliver, HeapTypeOK
    <3>6. /\ recv' \in [Slots -> 0..(2 * MaxReqs)]
          /\ \A s \in Slots : recv'[s] <= recv[s]
      BY <2>9, <3>1, <3>5 DEF Deliver, HeapTypeOK
    <3>7. queue' \in Seq(Jobs)
      BY <2>9, <3>4, AppendProperties DEF Deliver, WorkerTypeOK
    <3>8. ClientTypeOK' /\ HeapTypeOK' /\ WorkerTypeOK'
      BY <2>9, <3>3, <3>6, <3>7 DEF Deliver, ClientTypeOK, HeapTypeOK, WorkerTypeOK, client
    <3>9. Conserved'
      <4>1. \A s \in Live : recv[s] \in Nat /\ recv'[s] \in Nat /\ owner[s] \in Clients
                           /\ net[owner[s]] \in Nat /\ asked[owner[s]] \in Nat
        BY <3>6 DEF HeapTypeOK, ClientTypeOK
      <4> QED BY SMTT(30), <2>9, <3>6, <4>1 DEF Deliver, Conserved, client
    <3> QED BY <2>9, <3>8, <3>9 DEF Deliver
  <2>10. CASE HttpCbReturns
    BY <1>1, <2>10 DEF HttpCbReturns
  <2>11. CASE Malformed
    <3>1. cur \in Slots
      BY <1>4, <2>11 DEF Malformed
    <3>2. PICK b \in Loads(cur) : Assign(cur, b, "is_closing", TRUE)
      BY <2>11 DEF Malformed
    <3>3. bits' \in [Slots -> Bits]
      BY <1>2, <1>3, <3>1, <3>2
    <3>4. Rest
      BY <2>11, <3>3 DEF Malformed, ClientTypeOK, HeapTypeOK, WorkerTypeOK, Conserved, client
    <3> QED BY <2>11, <3>4 DEF Malformed
  <2>12. CASE WriteNothing
    BY <1>1, <2>12 DEF WriteNothing
  <2>13. CASE WriteData
    <3>1. taken' \in Nat
      BY <1>4, <2>13 DEF WriteData, HeapTypeOK
    <3> QED BY <1>1, <2>13, <3>1 DEF WriteData
  <2>14. CASE WriteFails
    <3>1. cur \in Slots
      BY <1>4, <2>14 DEF WriteFails
    <3>2. Rest
      BY <1>5, <2>14, <3>1 DEF WriteFails, ClientTypeOK
    <3> QED BY <2>14, <3>2 DEF WriteFails
  <2>15. CASE Delete
    <3>1. cur \in Slots
      BY <1>4, <2>15 DEF Delete
    <3>2. PICK l \in {len[cur], seen.len[cur]} :
               len' = [len EXCEPT ![cur] = IF l > taken THEN l - taken ELSE 0]
      BY <2>15 DEF Delete
    <3>3. l \in Nat /\ taken \in Nat
      BY <3>1, <3>2 DEF HeapTypeOK
    <3>4. len' \in [Slots -> Nat]
      BY <3>1, <3>2, <3>3 DEF HeapTypeOK
    <3>5. Rest
      BY <2>15, <3>4 DEF Delete, ClientTypeOK, HeapTypeOK, WorkerTypeOK, Conserved, client
    <3> QED BY <2>15, <3>5 DEF Delete
  <2>16. CASE KeepConn
    BY <1>1, <2>16 DEF KeepConn
  <2>17. CASE CloseConn
    <3>1. cur \in Slots
      BY <1>4, <2>17 DEF CloseConn
    <3>2. closed' \in [Clients -> BOOLEAN]
      BY <2>17 DEF CloseConn, ClientTypeOK
    <3>3. Rest
      BY <1>5, <2>17, <3>1, <3>2 DEF CloseConn
    <3> QED BY <2>17, <3>3 DEF CloseConn
  <2>18. CASE FreeConn
    <3>1. cur \in Slots /\ Zero \in Bits
      BY <1>4, <2>18 DEF FreeConn, Zero, Bits
    <3>2. Rest
      BY <2>18, <3>1 DEF FreeConn, ClientTypeOK, HeapTypeOK, WorkerTypeOK, Conserved, client
    <3> QED BY <2>18, <3>1, <3>2 DEF FreeConn, HeapTypeOK
  <2>19. CASE NoAccept
    BY <1>1, <2>19 DEF NoAccept
  <2>20. ASSUME NEW c \in Clients, NEW s \in Slots, AcceptConn(c, s)
         PROVE  Rest /\ Loop /\ LoopInv'
    <3>1. Zero \in Bits
      BY DEF Zero, Bits
    <3>2. ClientTypeOK' /\ HeapTypeOK' /\ WorkerTypeOK'
      BY <2>20, <3>1 DEF AcceptConn, ClientTypeOK, HeapTypeOK, WorkerTypeOK, client
    <3>3. Conserved'
      <4>1. \A t \in Slots \ {s} : owner'[t] = owner[t] /\ recv'[t] = recv[t]
        BY <2>20 DEF AcceptConn, HeapTypeOK
      <4>2. owner'[s] = c /\ recv'[s] = 0 /\ net[c] \in Nat
        BY <2>20 DEF AcceptConn, HeapTypeOK, ClientTypeOK
      <4> QED BY <2>20, <4>1, <4>2 DEF AcceptConn, Conserved, client
    <3> QED BY <2>20, <3>2, <3>3 DEF AcceptConn, HeapTypeOK
  <2> QED
    BY <2>1, <2>2, <2>3, <2>4, <2>5, <2>6, <2>7, <2>8, <2>9, <2>10, <2>11, <2>12, <2>13, <2>14,
       <2>15, <2>16, <2>17, <2>18, <2>19, <2>20 DEF Poll
<1>7. PollTypeOK'
  BY <1>6 DEF Poll, PollTypeOK, HeapTypeOK
<1> QED BY <1>6, <1>7

----------------------------------------------------------------------------
(* While nobody deviates.                                                  *)

(* A posted job and the job of a busy worker name a client and a slot.     *)
LEMMA JobsTyped ==
  ASSUME Base
  PROVE  /\ \A i \in DOMAIN queue : queue[i] \in Jobs /\ queue[i].slot \in Slots
         /\ \A w \in Workers : wpc[w] # "idle" => job[w] \in Jobs /\ slot(w) \in Slots
<1>1. queue \in Seq(Jobs) /\ \A j \in Jobs : j.slot \in Slots
  BY DEF Base, TypeOK, WorkerTypeOK, Jobs
<1>2. \A i \in DOMAIN queue : queue[i] \in Jobs
  BY <1>1, ElementOfSeq
<1>3. \A w \in Workers : wpc[w] # "idle" => job[w] \in Jobs
  BY DEF Base, LoopInv
<1> QED BY <1>1, <1>2, <1>3 DEF slot

(* A client that goes on waiting only sends the rest of its one request.   *)
LEMMA ClientPatient ==
  ASSUME Base, PatientInv, NEW c \in Clients, Client(c), ~deviated, ~deviated'
  PROVE  PatientInv'
<1> USE DEF PatientInv
<1>1. UNCHANGED server
  BY DEF Client
<1>0. \A n \in 1..2 : Send(c, n) => asked[c] + n <= 2 /\ asked[c] \in Nat /\ n \in Nat
  <2>1. asked[c] \in Nat
    BY ParamAssumption DEF Base, TypeOK, ClientTypeOK
  <2>2. ASSUME NEW n \in 1..2, Send(c, n)
        PROVE  ~(asked[c] + n > 2)
    <3>1. deviated' = (deviated \/ asked[c] + n > 2)
      BY <2>2 DEF Send
    <3> QED BY <3>1, Zenon
  <2> QED BY <2>1, <2>2
<1>a. \A how \in {"fin", "rst"} : ~Leave(c, how)
  BY DEF Leave
<1>2. Patient'
  <2>1. \A d \in Clients : sock'[d] \in {"none", "open"} /\ asked'[d] <= 2
    <3>1. sock \in [Clients -> {"none", "open", "fin", "rst"}] /\ asked \in [Clients -> 0..(2 * MaxReqs)]
      BY DEF Base, TypeOK, ClientTypeOK
    <3>2. CASE Connect(c)
      BY <3>1, <3>2 DEF Patient, Connect
    <3>3. ASSUME NEW n \in 1..2, Send(c, n)
          PROVE  \A d \in Clients : sock'[d] \in {"none", "open"} /\ asked'[d] <= 2
      <4>1. asked' = [asked EXCEPT ![c] = asked[c] + n] /\ sock' = sock
        BY <3>3 DEF Send
      <4> QED BY <1>0, <3>1, <3>3, <4>1 DEF Patient
    <3> QED BY <1>a, <3>2, <3>3 DEF Client
  <2> QED BY <1>1, <2>1 DEF Patient, server, heap, poll, ready
<1>3. \A s \in Slots : Spent(s) => Spent(s)'
  <2>1. CASE Connect(c)
    BY <1>1, <2>1 DEF Connect, Spent, server, heap
  <2>2. ASSUME NEW n \in 1..2, Send(c, n)
        PROVE  \A s \in Slots : Spent(s) => Spent(s)'
    <3>2. \A s \in Slots : Spent(s) => owner[s] # c
      BY <1>0, <2>2 DEF Spent
    <3> QED BY <1>1, <2>2, <3>2 DEF Send, Spent, server, heap
  <2> QED BY <1>a, <2>1, <2>2 DEF Client
<1>4. JobsOK'
  <2> QED BY <1>1, <1>3, JobsTyped DEF JobsOK, JobOK, slot, Ending, server, heap, workers
<1>5. OneJobEach'
  BY <1>1 DEF OneJobEach, slot, server, workers
<1>6. EndingOK'
  BY <1>1, <1>3 DEF EndingOK, Ending, Closing, Live, server, heap, poll
<1> QED BY <1>2, <1>4, <1>5, <1>6

(* A worker writes the slot of its own job, which no other job shares, and *)
(* ends the response only when it gives the job up.                        *)
LEMMA WorkerPatient ==
  ASSUME Base, Base', PatientInv, NEW w \in Workers, Worker(w), ~deviated
  PROVE  PatientInv'
<1> USE DEF PatientInv
<1>1. UNCHANGED <<client, closed, deviated, owner, recv, poll>>
  BY DEF Worker, Take, PrintHead, PrintBody, ClearResp, Drain, heap
<1>2. \A s \in Slots : Spent(s)' <=> Spent(s)
  BY <1>1 DEF Spent, client
<1>3. \A i \in DOMAIN queue : queue[i] \in Jobs /\ queue[i].slot \in Slots
  BY JobsTyped
<1>4. \A v \in Workers : wpc[v] # "idle" => job[v] \in Jobs /\ slot(v) \in Slots
  BY JobsTyped
<1>5. CASE Take(w)
  <2>1. UNCHANGED heap
    BY <1>5 DEF Take
  <2>2. /\ queue \in Seq(Jobs) /\ queue # <<>> /\ 1 \in DOMAIN queue /\ Head(queue) = queue[1]
        /\ DOMAIN Tail(queue) = 1..(Len(queue) - 1) /\ DOMAIN queue = 1..Len(queue)
        /\ \A i \in DOMAIN Tail(queue) :
             i + 1 \in DOMAIN queue /\ i + 1 # 1 /\ Tail(queue)[i] = queue[i + 1]
    BY <1>5 DEF Take, Base, TypeOK, WorkerTypeOK
  <2>3. /\ job' = [job EXCEPT ![w] = queue[1]] /\ queue' = Tail(queue)
        /\ wpc[w] = "idle" /\ wpc' = [wpc EXCEPT ![w] = "head"]
        /\ view' = [view EXCEPT ![w] = [bits |-> bits[queue[1].slot], len |-> len[queue[1].slot]]]
    BY <1>5, <2>2 DEF Take, Step
  <2>4. /\ \A v \in Workers \ {w} : job'[v] = job[v] /\ wpc'[v] = wpc[v] /\ view'[v] = view[v]
        /\ job'[w] = queue[1] /\ wpc'[w] = "head" /\ view'[w].bits = bits[queue[1].slot]
    BY <2>3 DEF Base, TypeOK, WorkerTypeOK
  <2>5. Patient'
    BY <1>1, <2>1 DEF Patient, client, heap, poll, ready
  <2>6. JobsOK'
    <3>1. \A i \in DOMAIN queue' : queue'[i] = queue[i + 1] /\ i + 1 \in DOMAIN queue
      BY <2>2, <2>3
    <3>2. \A j \in Jobs : JobOK(j) => JobOK(j)'
      BY <1>1, <1>2, <2>1 DEF JobOK, heap, Jobs
    <3> QED BY <1>3, <1>4, <2>1, <2>2, <2>4, <3>1, <3>2 DEF JobsOK, JobOK, slot, heap
  <2>7. OneJobEach'
    <3>1. \A i, k \in DOMAIN queue' : i # k => queue'[i].slot # queue'[k].slot
      BY <2>2, <2>3 DEF OneJobEach
    <3>2. \A i \in DOMAIN queue' : queue'[i].slot # queue[1].slot
      BY <2>2, <2>3 DEF OneJobEach
    <3>3. \A v \in Workers, i \in DOMAIN queue' :
            wpc'[v] # "idle" => job'[v].slot # queue'[i].slot
      BY <2>2, <2>3, <2>4, <3>2 DEF OneJobEach, slot
    <3>4. \A v, x \in Workers :
            v # x /\ wpc'[v] # "idle" /\ wpc'[x] # "idle" => job'[v].slot # job'[x].slot
      BY <2>2, <2>4 DEF OneJobEach, slot
    <3> QED BY <3>1, <3>3, <3>4 DEF OneJobEach, slot
  <2>8. EndingOK'
    BY <1>1, <1>2, <2>1 DEF EndingOK, Ending, Closing, Live, heap, poll
  <2> QED BY <2>5, <2>6, <2>7, <2>8
<1>6. CASE ~Take(w)
  <2>1. /\ wpc[w] # "idle" /\ UNCHANGED queue /\ slot(w) \in Slots /\ JobOK(job[w])
        /\ ~Ending(view[w].bits)
    BY <1>4, <1>6 DEF Worker, PrintHead, PrintBody, ClearResp, Drain, Step, JobsOK
  <2>2. /\ \A v \in Workers \ {w} : job'[v] = job[v] /\ wpc'[v] = wpc[v] /\ view'[v] = view[v]
        /\ wpc'[w] # "idle" => job'[w] = job[w]
    BY <1>6 DEF Worker, PrintHead, PrintBody, ClearResp, Drain, Step, Look, Base, TypeOK, WorkerTypeOK
  <2>3. /\ \A s \in Slots \ {slot(w)} : bits'[s] = bits[s] /\ len'[s] = len[s]
        /\ ~bits'[slot(w)].is_closing
        /\ len'[slot(w)] = len[slot(w)] \/ len'[slot(w)] > 0
    <3>1. CASE PrintHead(w) \/ PrintBody(w)
      <4>1. PICK l \in LoadedLen(w) : Extend(w, l)
        BY <3>1 DEF PrintHead, PrintBody
      <4>2. l \in Nat
        BY <2>1 DEF LoadedLen, Base, TypeOK, HeapTypeOK, WorkerTypeOK
      <4> QED BY <2>1, <3>1, <4>1, <4>2
            DEF PrintHead, PrintBody, Extend, JobOK, Ending, slot, Base, TypeOK, HeapTypeOK
    <3>2. CASE ClearResp(w) \/ Drain(w)
      <4>1. PICK b \in Loaded(w), f \in {"is_resp", "is_draining"}, v \in BOOLEAN :
                 Assign(slot(w), b, f, v)
        BY <3>2 DEF ClearResp, Drain
      <4>2. ~b.is_closing /\ b \in Bits
        BY <2>1 DEF Loaded, JobOK, Ending, slot, Base, TypeOK, HeapTypeOK, WorkerTypeOK
      <4> QED BY <2>1, <3>2, <4>1, <4>2
            DEF ClearResp, Drain, Assign, Bits, Base, TypeOK, HeapTypeOK
    <3> QED BY <1>6, <3>1, <3>2 DEF Worker
  <2>4. \/ ~bits'[slot(w)].is_draining /\ wpc'[w] # "idle"
        \/ wpc'[w] = "idle"
    <3>1. CASE PrintHead(w) \/ PrintBody(w)
      BY <2>1, <3>1 DEF PrintHead, PrintBody, JobOK, Ending, slot, Step, Base, TypeOK, WorkerTypeOK
    <3>2. CASE ClearResp(w)
      <4>1. PICK b \in Loaded(w) : Assign(slot(w), b, "is_resp", FALSE)
        BY <3>2 DEF ClearResp
      <4>2. ~b.is_draining /\ b \in Bits
        BY <2>1 DEF Loaded, JobOK, Ending, slot, Base, TypeOK, HeapTypeOK, WorkerTypeOK
      <4> QED BY <2>1, <3>2, <4>1, <4>2
            DEF ClearResp, Assign, Step, Bits, Base, TypeOK, HeapTypeOK, WorkerTypeOK
    <3>3. CASE Drain(w)
      BY <3>3 DEF Drain, Step, Base, TypeOK, WorkerTypeOK
    <3> QED BY <1>6, <3>1, <3>2, <3>3 DEF Worker
  <2>5. wpc'[w] # "idle" => view'[w].bits = bits'[slot(w)]
    <3>1. CASE Drain(w)
      BY <3>1 DEF Drain, Step, Base, TypeOK, WorkerTypeOK
    <3>2. CASE PrintHead(w) \/ PrintBody(w) \/ ClearResp(w)
      <4>1. Look(w)
        BY <3>2 DEF PrintHead, PrintBody, ClearResp
      <4> QED BY <4>1 DEF Look, Base, TypeOK, WorkerTypeOK
    <3> QED BY <1>6, <3>1, <3>2 DEF Worker
  <2>6. wpc'[w] \in {"head", "body", "clear"} => bits'[slot(w)].is_resp
    BY <1>6, <2>1 DEF Worker, PrintHead, PrintBody, ClearResp, Drain, Step, JobsOK, slot,
      Base, TypeOK, WorkerTypeOK
  <2>7. Patient'
    <3>1. \A s \in Slots : len[s] > 0 => len'[s] > 0
      BY <2>3
    <3> QED BY <1>1, <3>1 DEF Patient, client, poll, ready, Base, TypeOK, PollTypeOK
  <2>8. JobsOK'
    <3>1. \A j \in Jobs : JobOK(j) /\ j.slot # slot(w) => JobOK(j)'
      BY <1>1, <1>2, <2>3 DEF JobOK, Jobs
    <3>2. \A i \in DOMAIN queue : JobOK(queue[i])' /\ bits'[queue[i].slot].is_resp
      BY <1>3, <2>1, <2>3, <3>1 DEF JobsOK, OneJobEach
    <3>3. \A v \in Workers \ {w} : wpc[v] # "idle" => slot(v) # slot(w)
      BY <2>1 DEF OneJobEach
    <3>4. \A v \in Workers \ {w} :
            /\ wpc[v] # "idle" => JobOK(job[v])' /\ ~Ending(view'[v].bits)
            /\ wpc[v] \in {"head", "body", "clear"} => bits'[slot(v)].is_resp
      BY <1>4, <2>2, <2>3, <3>1, <3>3 DEF JobsOK, slot
    <3>5. wpc'[w] # "idle" => JobOK(job[w])' /\ ~Ending(view'[w].bits)
      <4>1. ASSUME wpc'[w] # "idle"
            PROVE  JobOK(job[w])' /\ ~Ending(view'[w].bits)
        <5>1. ~Ending(bits'[slot(w)])
          BY <2>3, <2>4, <4>1 DEF Ending
        <5>2. job'[w] = job[w] /\ view'[w].bits = bits'[slot(w)]
          BY <2>2, <2>5, <4>1
        <5> QED BY <1>1, <2>1, <5>1, <5>2 DEF JobOK, Spent, slot, client
      <4> QED BY <4>1
    <3>6. \A i \in DOMAIN queue' : JobOK(queue[i])' /\ bits'[queue'[i].slot].is_resp
      BY <2>1, <3>2
    <3>7. \A v \in Workers :
            /\ wpc'[v] # "idle" => JobOK(job[v])' /\ ~Ending(view'[v].bits) /\ job'[v] = job[v]
            /\ wpc'[v] \in {"head", "body", "clear"} => bits'[slot(v)].is_resp
      BY <2>2, <2>6, <3>4, <3>5
    <3> QED BY <2>1, <3>6, <3>7 DEF JobsOK, JobOK, slot
  <2>9. OneJobEach'
    BY <2>1, <2>2 DEF OneJobEach, slot
  <2>10. EndingOK'
    <3>1. Spent(slot(w))
      BY <2>1 DEF JobOK, slot
    <3>2. Live' = Live /\ Live \subseteq Slots
      BY <1>1 DEF Live
    <3>3. \A s \in Live : Ending(bits[s])' => Spent(s)'
      BY <1>2, <2>3, <3>1, <3>2 DEF EndingOK, Ending
    <3>4. Closing => cur \in Slots \ {slot(w)}
      BY <2>1 DEF EndingOK, Closing, JobOK, Ending, slot, Base, LoopInv, Live
    <3> QED BY <1>1, <1>2, <2>3, <3>2, <3>3, <3>4 DEF EndingOK, Ending, Closing, poll
  <2> QED BY <2>7, <2>8, <2>9, <2>10
<1> QED BY <1>5, <1>6

(* Steps of the poll thread that touch neither the flags, nor what was      *)
(* received, nor the pool.                                                 *)
LEMMA FramePatient ==
  ASSUME Base, PatientInv, UNCHANGED <<asked, net, owner, recv, bits, queue, workers>>,
         seen'.bits = bits',
         (~Closing /\ ~Closing') \/ (Closing /\ Closing' /\ cur' = cur)
  PROVE  JobsOK' /\ OneJobEach' /\ EndingOK'
<1> USE DEF PatientInv
<1>1. \A s \in Slots : Spent(s)' <=> Spent(s)
  BY DEF Spent
<1>2. JobsOK'
  BY <1>1, JobsTyped DEF JobsOK, JobOK, slot, workers
<1>3. OneJobEach'
  BY DEF OneJobEach, slot, workers
<1>4. EndingOK'
  <2>1. Live' = Live /\ Live \subseteq Slots
    BY DEF Live
  <2> QED BY <1>1, <2>1 DEF EndingOK, Ending
<1> QED BY <1>2, <1>3, <1>4

(* Steps that change connection s alone, which has no job. *)
LEMMA OtherJobs ==
  ASSUME Base, PatientInv, NEW s \in Slots, UNCHANGED <<queue, workers>>,
         \A t \in Slots \ {s} : bits'[t] = bits[t] /\ owner'[t] = owner[t]
                                /\ (Spent(t) => Spent(t)'),
         ~Spent(s) \/ Ending(bits[s])
  PROVE  JobsOK' /\ OneJobEach'
<1> USE DEF PatientInv
<1>1. \A j \in Jobs : JobOK(j) => j.slot \in Slots \ {s}
  BY DEF JobOK, Jobs
<1>2. \A j \in Jobs : JobOK(j) => JobOK(j)'
  BY <1>1 DEF JobOK
<1>3. JobsOK'
  BY <1>1, <1>2, JobsTyped DEF JobsOK, JobOK, slot, workers
<1> QED BY <1>3 DEF OneJobEach, slot, workers

(* The poll thread posts at most one job a client, and closes a connection *)
(* only after the worker of that job is done with it.                      *)
LEMMA PollPatient ==
  ASSUME Base, Base', PatientInv, Poll, ~deviated, ~deviated'
  PROVE  PatientInv'
<1> USE DEF Goto, Call, ready, heap, workers, client
<1>1. seen'.bits = bits'
  BY DEF Poll
<1>2. \A s \in Live : sock[owner[s]] \in {"none", "open"} /\ asked[owner[s]] <= 2
  BY DEF PatientInv, Patient, Live, Base, TypeOK, HeapTypeOK
<1>3. cur # Nobody => cur \in Live /\ cur \in Slots /\ owner[cur] \in Clients /\ cur \notin todo
  BY DEF Base, LoopInv, Live, TypeOK, HeapTypeOK
<1>4. /\ ~Closing => \A s \in Live : ~bits[s].is_closing /\ ~seen.bits[s].is_closing
      /\ Closing => cur \in Live /\ cur \in Slots /\ Ending(bits[cur]) /\ Spent(cur)
  BY <1>3 DEF PatientInv, EndingOK, Ending, Closing, Base, LoopInv
<1> DEFINE OK == PatientInv'
<1>5. ASSUME UNCHANGED <<asked, net, owner, recv, bits, queue, workers>>, Patient',
             (~Closing /\ ~Closing') \/ (Closing /\ Closing' /\ cur' = cur)
      PROVE  OK
  BY <1>1, <1>5, FramePatient DEF PatientInv
<1>6. CASE Iotest
  <2>1. Patient'
    BY <1>2, <1>6 DEF Iotest, PatientInv, Patient
  <2> QED BY <1>5, <1>6, <2>1 DEF Iotest, Closing
<1>7. ~SocketError /\ ~Malformed
  BY DEF SocketError, Malformed, PatientInv, Patient
<1>8. CASE IotestDone
  <2>1. Patient'
    BY <1>3, <1>8 DEF IotestDone, PatientInv, Patient, Base, LoopInv
  <2> QED BY <1>5, <1>8, <2>1 DEF IotestDone, Closing
<1>9. CASE Visit
  <2>1. Patient'
    BY <1>9 DEF Visit, PatientInv, Patient, Base, LoopInv
  <2> QED BY <1>5, <1>9, <2>1 DEF Visit, Closing
<1>10. CASE Check
  <2>1. Patient'
    BY <1>10 DEF Check, PatientInv, Patient
  <2> QED BY <1>5, <1>10, <2>1 DEF Check, Closing
<1>11. CASE ReadNothing
  <2>1. Patient'
    BY <1>11 DEF ReadNothing, PatientInv, Patient
  <2> QED BY <1>5, <1>11, <2>1 DEF ReadNothing, Closing
<1>12. CASE ReadData
  <2>1. cur \in Live /\ cur \in Slots /\ ~Closing /\ ~Closing'
    BY <1>3, <1>12 DEF ReadData, Closing, Base, LoopInv
  <2>2. PICK n \in 1..net[owner[cur]] :
             /\ recv' = [recv EXCEPT ![cur] = @ + n]
             /\ net' = [net EXCEPT ![owner[cur]] = @ - n]
    BY <1>12 DEF ReadData
  <2>3. net[owner[cur]] # 0
    BY <2>2
  <2>4. \A s \in Slots : Spent(s) => Spent(s)'
    <3>1. \A s \in Slots : Spent(s) => s # cur /\ owner[s] # owner[cur]
      BY <2>3 DEF Spent
    <3> QED BY <1>12, <2>2, <3>1 DEF ReadData, Spent
  <2>5. Patient'
    BY <1>12 DEF ReadData, PatientInv, Patient
  <2>6. JobsOK' /\ OneJobEach'
    <3>1. ~Spent(cur)
      BY <2>3 DEF Spent
    <3> QED BY <1>12, <2>1, <2>4, <3>1, OtherJobs DEF ReadData
  <2>7. EndingOK'
    <3>1. Live' = Live /\ Live \subseteq Slots /\ bits' = bits
      BY <1>12 DEF ReadData, Live
    <3> QED BY <1>1, <1>4, <2>1, <2>4, <3>1 DEF EndingOK, PatientInv
  <2> QED BY <2>5, <2>6, <2>7 DEF PatientInv
<1>13. ~ReadFails
  BY <1>2, <1>3 DEF ReadFails, Base, LoopInv
<1>14. CASE Deliver
  <2>1. cur \in Live /\ cur \in Slots /\ owner[cur] \in Clients /\ recv[cur] >= 1 /\ recv[cur] \in Nat
    BY <1>3, <1>14 DEF Deliver, MayDeliver, Base, LoopInv, TypeOK, HeapTypeOK
  <2>2. ~Spent(cur) /\ ~Closing /\ ~Closing' /\ ret # "free"
    BY <1>4, <1>14, <2>1 DEF Deliver, Spent, Closing
  <2>3. recv[cur] = 2 /\ net[owner[cur]] = 0 /\ asked[owner[cur]] = 2
    <3>1. recv[cur] >= 2
      BY <1>14, <2>2 DEF Deliver, MayDeliver
    <3>2. recv[cur] + net[owner[cur]] <= asked[owner[cur]] /\ asked[owner[cur]] <= 2
      BY <1>2, <2>1 DEF Base, Conserved
    <3>3. net[owner[cur]] \in Nat /\ asked[owner[cur]] \in Nat
      BY <2>1, ParamAssumption DEF Base, TypeOK, ClientTypeOK
    <3> QED BY <2>1, <3>1, <3>2, <3>3
  <2>4. recv' = [recv EXCEPT ![cur] = 0] /\ UNCHANGED <<owner, asked, net, cur>>
    BY <1>14, <2>2, <2>3 DEF Deliver
  <2>5. Spent(cur)' /\ \A s \in Slots : Spent(s) => Spent(s)'
    BY <2>1, <2>2, <2>3, <2>4 DEF Spent, Live, Base, TypeOK, HeapTypeOK
  <2>6. PICK b \in Loads(cur) : Assign(cur, b, "is_resp", TRUE)
    BY <1>14 DEF Deliver
  <2>7. ~Ending(b) /\ b \in Bits
    BY <2>1, <2>2 DEF Loads, PatientInv, EndingOK, Base, TypeOK, HeapTypeOK, PollTypeOK
  <2>8. /\ bits'[cur].is_resp /\ ~Ending(bits'[cur])
        /\ \A s \in Slots \ {cur} : bits'[s] = bits[s]
    BY <2>1, <2>6, <2>7 DEF Assign, Ending, Bits, Base, TypeOK, HeapTypeOK
  <2>9. Patient'
    BY <1>14 DEF Deliver, PatientInv, Patient
  <2>10. /\ queue' = Append(queue, [client |-> owner[cur], slot |-> cur])
         /\ queue \in Seq(Jobs)
    BY <1>14 DEF Deliver, Base, TypeOK, WorkerTypeOK
  <2>11. \A j \in Jobs : JobOK(j) => j.slot \in Slots \ {cur} /\ JobOK(j)'
    BY <2>2, <2>4, <2>5, <2>8 DEF JobOK, Jobs
  <2>12. /\ DOMAIN queue = 1..Len(queue) /\ DOMAIN queue' = 1..(Len(queue) + 1)
         /\ Len(queue) \in Nat
         /\ \A i \in DOMAIN queue : queue'[i] = queue[i]
         /\ queue'[Len(queue) + 1] = [client |-> owner[cur], slot |-> cur]
    BY <2>10
  <2>13. JobsOK'
    <3> DEFINE Good == {j \in Jobs : JobOK(j) /\ bits[j.slot].is_resp}
    <3>1. \A i \in DOMAIN queue : queue[i] \in Good'
      BY <2>8, <2>11, JobsTyped DEF JobsOK, PatientInv
    <3>a. [client |-> owner[cur], slot |-> cur] \in Good'
      BY <2>1, <2>4, <2>5, <2>8 DEF JobOK, Jobs
    <3>2. \A i \in DOMAIN queue' : queue'[i] \in Good'
      <4>1. \A i \in DOMAIN queue' : i \in DOMAIN queue \/ i = Len(queue) + 1
        BY <2>12
      <4> HIDE DEF Good
      <4> QED BY <2>12, <3>1, <3>a, <4>1
    <3>4. UNCHANGED <<wpc, job, view>>
      BY <1>14 DEF Deliver
    <3>3. \A w \in Workers :
            /\ wpc[w] # "idle" => JobOK(job[w])' /\ ~Ending(view[w].bits)
            /\ wpc[w] \in {"head", "body", "clear"} => bits'[job[w].slot].is_resp
      <4>1. ASSUME NEW w \in Workers, wpc[w] # "idle"
            PROVE  /\ JobOK(job[w])' /\ ~Ending(view[w].bits)
                   /\ wpc[w] \in {"head", "body", "clear"} => bits'[job[w].slot].is_resp
        <5>1. job[w] \in Jobs /\ JobOK(job[w]) /\ ~Ending(view[w].bits)
          BY <4>1, JobsTyped DEF JobsOK, PatientInv
        <5>2. \A j \in Jobs : j = job[w] => JobOK(j)'
          BY <2>11, <5>1
        <5>3. job[w].slot \in Slots \ {cur}
          BY <2>11, <5>1
        <5>4. JobOK(job[w])'
          BY <3>4, <5>1, <5>2 DEF JobOK, Spent
        <5> QED BY <2>8, <5>1, <5>3, <5>4 DEF JobsOK, PatientInv, slot
      <4> QED BY <4>1
    <3>5. \A i \in DOMAIN queue' : JobOK(queue[i])' /\ bits'[queue'[i].slot].is_resp
      BY <3>2 DEF JobOK, Spent
    <3> QED BY <3>3, <3>4, <3>5 DEF JobsOK, slot
  <2>14. OneJobEach'
    <3>1. \A i \in DOMAIN queue : queue[i].slot # cur
      BY <2>11, JobsTyped DEF JobsOK, PatientInv
    <3>2. \A w \in Workers : wpc[w] # "idle" => slot(w) # cur
      BY <2>11, JobsTyped DEF JobsOK, PatientInv, slot
    <3>3. \A i \in DOMAIN queue' : i \in DOMAIN queue \/ i = Len(queue) + 1
      BY <2>12
    <3>4. UNCHANGED <<wpc, job>>
      BY <1>14 DEF Deliver
    <3> QED BY <2>12, <3>1, <3>2, <3>3, <3>4 DEF OneJobEach, PatientInv, slot
  <2>15. EndingOK'
    <3>1. Live' = Live /\ Live \subseteq Slots
      BY <2>4 DEF Live
    <3> QED BY <1>1, <1>4, <2>2, <2>5, <2>8, <3>1 DEF EndingOK, Ending, PatientInv
  <2> QED BY <2>9, <2>13, <2>14, <2>15 DEF PatientInv
<1>15. CASE HttpCbReturns
  <2>1. Patient'
    BY <1>15 DEF HttpCbReturns, PatientInv, Patient, Base, TypeOK, PollTypeOK
  <2> QED BY <1>5, <1>15, <2>1 DEF HttpCbReturns, Closing
<1>16. CASE WriteNothing
  <2>1. Patient'
    BY <1>16 DEF WriteNothing, PatientInv, Patient
  <2> QED BY <1>5, <1>16, <2>1 DEF WriteNothing, Closing
<1>17. CASE WriteData
  <2>1. Patient'
    BY <1>17 DEF WriteData, PatientInv, Patient
  <2> QED BY <1>5, <1>17, <2>1 DEF WriteData, Closing
<1>18. ~WriteFails
  <2>1. pc = "write" /\ cur \in writable => len[cur] # 0 /\ sock[owner[cur]] # "rst"
    BY <1>2, <1>3 DEF PatientInv, Patient, Base, LoopInv
  <2> QED BY <2>1 DEF WriteFails
<1>19. CASE Delete
  <2>1. cur \in Slots /\ cur \notin todo
    BY <1>3, <1>19 DEF Delete, Base, LoopInv
  <2>2. \A s \in Slots \ {cur} : len'[s] = len[s]
    BY <1>19 DEF Delete, Base, TypeOK, HeapTypeOK
  <2>3. Patient'
    BY <1>19, <2>1, <2>2 DEF Delete, PatientInv, Patient, Base, TypeOK, PollTypeOK
  <2> QED BY <1>5, <1>19, <2>3 DEF Delete, Closing
<1>20. CASE KeepConn
  <2>1. Patient'
    BY <1>20 DEF KeepConn, PatientInv, Patient
  <2> QED BY <1>5, <1>20, <2>1 DEF KeepConn, Closing
<1>21. CASE CloseConn
  <2>1. cur \in Live /\ cur \in Slots /\ ~Closing /\ Closing' /\ cur' = cur
    BY <1>3, <1>21 DEF CloseConn, Closing, Base, LoopInv
  <2>2. Ending(bits[cur]) /\ Spent(cur)
    BY <1>21, <2>1 DEF CloseConn, Closes, Ending, PatientInv, EndingOK
  <2>3. PICK b \in Loads(cur) : Assign(cur, b, "is_closing", TRUE)
    BY <1>21 DEF CloseConn
  <2>4. bits'[cur].is_closing /\ \A s \in Slots \ {cur} : bits'[s] = bits[s]
    BY <2>1, <2>3 DEF Assign, Loads, Bits, Base, TypeOK, HeapTypeOK, PollTypeOK
  <2>5. \A s \in Slots : (Spent(s)' <=> Spent(s)) /\ owner'[s] = owner[s]
    BY <1>21 DEF CloseConn, Spent
  <2>6. Patient'
    BY <1>21, <2>1, <1>3 DEF CloseConn, PatientInv, Patient
  <2>7. JobsOK' /\ OneJobEach'
    BY <1>21, <2>1, <2>2, <2>4, <2>5, OtherJobs DEF CloseConn
  <2>8. EndingOK'
    <3>1. Live' = Live /\ Live \subseteq Slots
      BY <2>5 DEF Live
    <3> QED BY <1>1, <1>4, <2>1, <2>2, <2>4, <2>5, <3>1 DEF EndingOK, Ending, PatientInv
  <2> QED BY <2>6, <2>7, <2>8 DEF PatientInv
<1>22. CASE FreeConn
  <2>1. Closing /\ ~Closing' /\ cur \in Slots /\ Ending(bits[cur])
    BY <1>4, <1>22 DEF FreeConn, Closing
  <2>2. \A s \in Slots \ {cur} : /\ bits'[s] = bits[s] /\ owner'[s] = owner[s]
                                  /\ len'[s] = len[s] /\ (Spent(s)' <=> Spent(s))
    BY <1>22, <2>1 DEF FreeConn, Spent, Base, TypeOK, HeapTypeOK
  <2>3. Live' = Live \ {cur} /\ Live \subseteq Slots
    BY <1>22, <2>1 DEF FreeConn, Live, Base, TypeOK, HeapTypeOK
  <2>4. Patient'
    <3>1. cur \notin todo
      BY <1>3, <1>22 DEF FreeConn, Base, LoopInv
    <3>2. \A t \in todo : t \in Slots \ {cur} /\ len'[t] = len[t]
      BY <2>2, <3>1 DEF Base, TypeOK, PollTypeOK
    <3>3. \A t \in writable : t \in todo => len'[t] > 0
      BY <3>2 DEF PatientInv, Patient
    <3> QED BY <1>22, <3>3 DEF FreeConn, PatientInv, Patient
  <2>5. JobsOK' /\ OneJobEach'
    BY <1>22, <2>1, <2>2, OtherJobs DEF FreeConn
  <2>6. EndingOK'
    <3>1. \A s \in Live' : Ending(bits'[s]) => Spent(s)'
      BY <2>2, <2>3 DEF PatientInv, EndingOK
    <3>2. \A s \in Live' : ~bits'[s].is_closing
      BY <2>2, <2>3 DEF PatientInv, EndingOK
    <3> QED BY <1>1, <2>1, <3>1, <3>2 DEF EndingOK
  <2> QED BY <2>4, <2>5, <2>6 DEF PatientInv
<1>23. ASSUME NEW c \in Clients, NEW s \in Slots, AcceptConn(c, s)
       PROVE  OK
  <2>1. ~Spent(s) /\ ~Closing /\ ~Closing'
    BY <1>23 DEF AcceptConn, Spent, Live, Closing
  <2>2. \A t \in Slots \ {s} : /\ bits'[t] = bits[t] /\ owner'[t] = owner[t]
                                /\ (Spent(t)' <=> Spent(t))
    BY <1>23 DEF AcceptConn, Spent, Base, TypeOK, HeapTypeOK
  <2>3. Live' \subseteq Live \cup {s} /\ Live \subseteq Slots /\ bits'[s] = Zero
    BY <1>23 DEF AcceptConn, Live, Base, TypeOK, HeapTypeOK
  <2>4. Patient'
    BY <1>3, <1>23 DEF AcceptConn, PatientInv, Patient, Base, LoopInv
  <2>5. JobsOK' /\ OneJobEach'
    BY <1>23, <2>1, <2>2, OtherJobs DEF AcceptConn
  <2>6. EndingOK'
    <3>1. ~Ending(bits'[s])
      BY <2>3 DEF Ending, Zero
    <3>2. \A t \in Live' : Ending(bits'[t]) => Spent(t)'
      BY <2>2, <2>3, <3>1 DEF PatientInv, EndingOK
    <3>3. \A t \in Live' : ~bits'[t].is_closing
      BY <1>4, <2>1, <2>2, <2>3, <3>1 DEF Ending
    <3> QED BY <1>1, <2>1, <3>2, <3>3 DEF EndingOK
  <2> QED BY <2>4, <2>5, <2>6 DEF PatientInv
<1>24. CASE NoAccept
  <2>1. Patient'
    BY <1>3, <1>24 DEF NoAccept, PatientInv, Patient, Base, LoopInv
  <2> QED BY <1>5, <1>24, <2>1 DEF NoAccept, Closing
<1> QED
  BY <1>6, <1>7, <1>8, <1>9, <1>10, <1>11, <1>12, <1>13, <1>14, <1>15, <1>16, <1>17, <1>18,
     <1>19, <1>20, <1>21, <1>22, <1>23, <1>24 DEF Poll

----------------------------------------------------------------------------
(* The invariant holds before the first connection.                        *)
LEMMA InitHolds == Init => IInv
<1> SUFFICES ASSUME Init PROVE IInv
  OBVIOUS
<1> USE ParamAssumption DEF Init
<1>1. Zero \in Bits /\ NoView \in [bits : Bits, len : Nat] /\ ~Ending(Zero)
  BY DEF Zero, Bits, NoView, Ending
<1>2. TypeOK
  <2>0. 0 \in 0..(2 * MaxReqs)
    OBVIOUS
  <2>1. ClientTypeOK /\ HeapTypeOK
    <3>1. ClientTypeOK
      BY <2>0 DEF ClientTypeOK
    <3>2. HeapTypeOK
      BY <1>1, <2>0 DEF HeapTypeOK
    <3> QED BY <3>1, <3>2
  <2>2. PollTypeOK
    BY <1>1 DEF PollTypeOK
  <2>3. WorkerTypeOK
    BY <1>1 DEF WorkerTypeOK
  <2> QED BY <2>1, <2>2, <2>3 DEF TypeOK
<1>3. Live = {}
  BY DEF Live
<1>4. LoopInv /\ Conserved
  BY <1>3 DEF LoopInv, Conserved
<1>5. PatientInv
  BY <1>3 DEF PatientInv, Patient, JobsOK, OneJobEach, EndingOK, Closing
<1> QED BY <1>2, <1>4, <1>5 DEF IInv

(* It speaks of the variables of the specification alone.                  *)
LEMMA StutterHolds == IInv /\ UNCHANGED vars => IInv'
<1> SUFFICES ASSUME IInv, UNCHANGED vars PROVE IInv'
  OBVIOUS
<1> USE DEF vars, client, heap, poll, ready, workers
<1>1. TypeOK'
  BY DEF IInv, TypeOK, ClientTypeOK, HeapTypeOK, PollTypeOK, WorkerTypeOK
<1>2. LoopInv' /\ Conserved'
  BY DEF IInv, LoopInv, Conserved, Live
<1>3. PatientInv' <=> PatientInv
  BY DEF PatientInv, Patient, JobsOK, JobOK, OneJobEach, EndingOK, Ending, Closing, Spent, Live, slot
<1> QED BY <1>1, <1>2, <1>3 DEF IInv

(* deviated is never taken back. *)
LEMMA NextHolds == IInv /\ Next => IInv'
<1> SUFFICES ASSUME IInv, Next PROVE IInv'
  OBVIOUS
<1>1. Base
  BY DEF IInv, Base
<1>2. ASSUME NEW c \in Clients, Client(c)
      PROVE  IInv'
  <2>1. Base'
    BY <1>1, <1>2, ClientBase
  <2>2. ~deviated' => ~deviated
    BY <1>2 DEF Client, Connect, Send, Leave
  <2> QED BY <1>1, <1>2, <2>1, <2>2, ClientPatient DEF IInv, Base
<1>3. CASE Poll
  <2>1. Base'
    BY <1>1, <1>3, PollBase
  <2>2. ~deviated' => ~deviated
    BY <1>3 DEF Poll, Iotest, SocketError, IotestDone, Visit, Check, ReadNothing, ReadData,
      ReadFails, Deliver, HttpCbReturns, Malformed, WriteNothing, WriteData, WriteFails, Delete,
      KeepConn, CloseConn, FreeConn, NoAccept, AcceptConn
  <2> QED BY <1>1, <1>3, <2>1, <2>2, PollPatient DEF IInv, Base
<1>4. ASSUME NEW w \in Workers, Worker(w)
      PROVE  IInv'
  <2>1. Base'
    BY <1>1, <1>4, WorkerBase
  <2>2. deviated' = deviated
    BY <1>4 DEF Worker, Take, PrintHead, PrintBody, ClearResp, Drain
  <2> QED BY <1>1, <1>4, <2>1, <2>2, WorkerPatient DEF IInv, Base
<1> QED BY <1>2, <1>3, <1>4 DEF Next

(* The invariant holds in every reachable state of the pool server.        *)
THEOREM InvariantHolds == Spec => []IInv
<1>1. IInv /\ [Next]_vars => IInv'
  BY NextHolds, StutterHolds
<1> QED BY InitHolds, <1>1, PTL DEF Spec

(* Every variable keeps its type; in particular no more halves of requests  *)
(* are buffered than were sent, and mg_iobuf_del leaves no negative length. *)
THEOREM TypeCorrect == Spec => []TypeOK
<1>1. IInv => TypeOK
  BY DEF IInv
<1> QED BY <1>1, InvariantHolds, PTL

(* However many clients, connections and threads there are, and whichever   *)
(* stale values the two sides write over each other's flags and lengths, a  *)
(* thread of the pool holds a pointer to a live connection, and to that of  *)
(* the client it answers, while every client sends one request and waits.  *)
THEOREM JobsStayAlive == Spec => []JobsAlive
<1>1. IInv => JobsAlive
  <2> SUFFICES ASSUME IInv, ~deviated,
                      NEW j \in Queued \cup Working({"head", "body", "clear", "drain"})
               PROVE  owner[j.slot] = j.client
    BY DEF JobsAlive
  <2>1. CASE j \in Queued
    BY <2>1 DEF IInv, PatientInv, JobsOK, JobOK, Queued
  <2>2. CASE j \in Working({"head", "body", "clear", "drain"})
    BY <2>2 DEF IInv, PatientInv, JobsOK, JobOK, Working
  <2> QED BY <2>1, <2>2
<1> QED BY <1>1, InvariantHolds, PTL

(* Under the same condition is_resp is set from the posting of a job to the *)
(* end of its reply, lost updates of the byte it shares notwithstanding.   *)
THEOREM PatientMarked == Spec => [](~deviated => GeneratingMarked)
<1>1. IInv => (~deviated => GeneratingMarked)
  <2> SUFFICES ASSUME IInv, ~deviated,
                      NEW j \in Queued \cup Working({"head", "body", "clear"})
               PROVE  bits[j.slot].is_resp
    BY DEF GeneratingMarked
  <2>1. CASE j \in Queued
    BY <2>1 DEF IInv, PatientInv, JobsOK, Queued
  <2>2. CASE j \in Working({"head", "body", "clear"})
    BY <2>2 DEF IInv, PatientInv, JobsOK, Working, slot
  <2> QED BY <2>1, <2>2
<1> QED BY <1>1, InvariantHolds, PTL
=============================================================================
