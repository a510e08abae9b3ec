----------------------------- MODULE PoolServer -----------------------------
(***************************************************************************)
(* http_server_with_mongoose of net/network.cpp (and its copy in           *)
(* any/anything.cpp): class HttpWithMongoose.  One thread runs             *)
(* mg_mgr_poll for ever; handle_event posts every request, with a raw      *)
(* pointer to its connection, to a boost thread pool, whose threads answer *)
(* with mg_http_reply and then set is_draining.  No lock is taken.         *)
(*                                                                         *)
(* A connection object lives in a slot of the heap, and a slot is used     *)
(* again after free().  Two words of it are written by both sides without  *)
(* synchronisation: the byte of bit-fields is_draining, is_closing and     *)
(* is_resp, which is loaded and stored as a whole to assign one of them,   *)
(* and c->send.len.  A thread that updates one works from the value it     *)
(* loaded, which may be as old as its previous step.                       *)
(*                                                                         *)
(* Requests are counted in halves: headers, then body.                     *)
(***************************************************************************)
EXTENDS Integers, Sequences, FiniteSets

CONSTANTS
  Clients,     (* clients, each opening one connection                       *)
  Deviants,    (* those that may not wait for the server to close: they send *)
               (* further requests, malformed ones, or leave                 *)
  Slots,       (* bound: heap addresses of connections                       *)
  Workers,     (* the threads of the pool, hardware_concurrency() of them    *)
  MaxReqs,     (* bound: requests of a deviant                               *)
  Nobody       (* the owner of a free slot                                   *)

ASSUME ParamAssumption ==
  /\ Deviants \subseteq Clients
  /\ MaxReqs \in Nat \ {0}
  /\ Nobody \notin Clients /\ Nobody \notin Slots

VARIABLES
  sock,        (* the client's end: none, open, fin, rst                     *)
  asked,       (* halves of requests the client has sent                     *)
  net,         (* those on their way to the server                           *)
  closed,      (* the server has closed the client's connection              *)
  deviated,    (* history: some client did not wait                          *)
  owner,       (* the client whose connection lives in a slot                *)
  recv,        (* halves in c->recv                                          *)
  len,         (* c->send.len: 1 for a reply's head, 1 for its body          *)
  bits,        (* the byte of bit-fields both sides write                    *)
  readable, writable, (* slots with is_readable, is_writable; poll thread's  *)
  todo, cur,   (* connections the loop has still to visit, and is visiting   *)
  failed,      (* connections epoll reported an error of, not yet marked     *)
  lsn_readable,(* is_readable of the listener                                *)
  was_resp,    (* the local is_resp of mg_mgr_poll                           *)
  pc, ret,     (* position in mg_mgr_poll, and where http_cb returns to      *)
  taken,       (* what the last send() took, to be deleted from c->send      *)
  seen,        (* bits and len as the poll thread's last step left them      *)
  queue,       (* jobs posted to the pool                                    *)
  wpc, job,    (* position and job of a worker                               *)
  view         (* bits and len of its slot after the worker's last step      *)

client  == <<sock, asked, net>>
heap    == <<owner, recv, len, bits>>
ready   == <<readable, writable, failed, lsn_readable>>
poll    == <<ready, todo, cur, was_resp, pc, ret, taken, seen>>
workers == <<wpc, job, view>>
vars    == <<client, closed, deviated, heap, poll, queue, workers>>

Bits == [is_resp : BOOLEAN, is_draining : BOOLEAN, is_closing : BOOLEAN]
Zero == [is_resp |-> FALSE, is_draining |-> FALSE, is_closing |-> FALSE]

Jobs == [client : Clients, slot : Slots]
NoJob == [client |-> Nobody, slot |-> Nobody]
NoView == [bits |-> Zero, len |-> 0]

Init ==
  /\ sock = [c \in Clients |-> "none"]
  /\ asked = [c \in Clients |-> 0]
  /\ net = [c \in Clients |-> 0]
  /\ closed = [c \in Clients |-> FALSE]
  /\ deviated = FALSE
  /\ owner = [s \in Slots |-> Nobody]
  /\ recv = [s \in Slots |-> 0]
  /\ len = [s \in Slots |-> 0]
  /\ bits = [s \in Slots |-> Zero]
  /\ readable = {} /\ writable = {} /\ failed = {} /\ lsn_readable = FALSE
  /\ todo = {} /\ cur = Nobody
  /\ was_resp = FALSE
  /\ pc = "iotest" /\ ret = "read"
  /\ taken = 0
  /\ seen = [bits |-> bits, len |-> len]
  /\ queue = <<>>
  /\ wpc = [w \in Workers |-> "idle"]
  /\ job = [w \in Workers |-> NoJob]
  /\ view = [w \in Workers |-> NoView]

----------------------------------------------------------------------------
(* The clients: no code of the repository.  The reply's header line runs   *)
(* into its Content-Length (response_type has no line end), so only the    *)
(* close tells a client that its response is complete; one that is no      *)
(* deviant sends one request and waits for it.                             *)

server == <<closed, heap, poll, queue, workers>>

Accepted(c) == \E s \in Slots : owner[s] = c
InBacklog(c) == sock[c] # "none" /\ ~closed[c] /\ ~Accepted(c)

Connect(c) ==
  /\ sock[c] = "none"
  /\ sock' = [sock EXCEPT ![c] = "open"]
  /\ UNCHANGED <<asked, net, deviated>>

Send(c, n) ==
  /\ sock[c] = "open" /\ ~closed[c]
  /\ asked[c] + n <= (IF c \in Deviants THEN 2 * MaxReqs ELSE 2)
  /\ asked' = [asked EXCEPT ![c] = @ + n]
  /\ net' = [net EXCEPT ![c] = @ + n]
  /\ deviated' = (deviated \/ asked[c] + n > 2)
  /\ UNCHANGED sock

Leave(c, how) ==
  /\ c \in Deviants /\ sock[c] \in {"open", "fin"} \ {how} /\ ~closed[c]
  /\ sock' = [sock EXCEPT ![c] = how]
  /\ deviated' = TRUE
  /\ UNCHANGED <<asked, net>>

Client(c) ==
  /\ \/ Connect(c)
     \/ \E n \in 1..2 : Send(c, n)
     \/ \E how \in {"fin", "rst"} : Leave(c, how)
  /\ UNCHANGED server

----------------------------------------------------------------------------
(* mg_mgr_poll.                                                            *)

Goto(label) == pc' = label /\ UNCHANGED ret
Call(return) == pc' = "http" /\ ret' = return

Live == {s \in Slots : owner[s] # Nobody}

(* One bit-field of a byte that was loaded earlier is assigned. *)
Assign(s, loaded, field, v) == bits' = [bits EXCEPT ![s] = [loaded EXCEPT ![field] = v]]
Loads(s) == {bits[s], seen.bits[s]}

(* mg_iotest: what epoll reports, level triggered; EPOLLERR is given to     *)
(* mg_error.                                                               *)
Iotest ==
  LET up == {s \in Live : sock[owner[s]] # "rst"}
  IN /\ pc = "iotest"
     /\ readable' = {s \in up : net[owner[s]] > 0 \/ sock[owner[s]] = "fin"}
     /\ writable' = {s \in up : len[s] > 0}
     /\ failed' = Live \ up
     /\ lsn_readable' = \E c \in Clients : InBacklog(c)
     /\ todo' = Live
     /\ Goto("errors")
     /\ UNCHANGED <<client, closed, deviated, heap, cur, was_resp, taken, queue, workers>>

SocketError ==
  /\ pc = "errors"
  /\ \E s \in failed :
       /\ \E b \in Loads(s) : Assign(s, b, "is_closing", TRUE)
       /\ failed' = failed \ {s}
  /\ UNCHANGED <<client, closed, deviated, owner, recv, len, readable, writable,
                 lsn_readable, todo, cur, was_resp, pc, ret, taken, queue, workers>>

IotestDone ==
  /\ pc = "errors" /\ failed = {}
  /\ Goto("poll")
  /\ UNCHANGED <<client, closed, deviated, heap, ready, todo, cur, was_resp, taken,
                 queue, workers>>

(* The loop body, of a connection in whatever order the list has them: the  *)
(* value of is_resp before MG_EV_POLL, which http_cb ignores, ...          *)
Visit ==
  /\ pc = "poll"
  /\ cur' \in todo
  /\ todo' = todo \ {cur'}
  /\ was_resp' = bits[cur'].is_resp
  /\ Goto("check")
  /\ UNCHANGED <<client, closed, deviated, heap, ready, taken, queue, workers>>

(* ... and after it: a worker may have ended the response in between. *)
Check ==
  /\ pc = "check"
  /\ IF was_resp /\ ~bits[cur].is_resp THEN Call("read") ELSE Goto("read")
  /\ UNCHANGED <<client, closed, deviated, heap, ready, todo, cur, was_resp, taken,
                 queue, workers>>

(* read_conn *)
ReadNothing ==
  /\ pc = "read"
  /\ bits[cur].is_closing \/ cur \notin readable
  /\ Goto(IF bits[cur].is_closing THEN "finish" ELSE "write")
  /\ UNCHANGED <<client, closed, deviated, heap, ready, todo, cur, was_resp, taken,
                 queue, workers>>

ReadData ==
  LET c == owner[cur] IN
  /\ pc = "read" /\ ~bits[cur].is_closing /\ cur \in readable
  /\ sock[c] # "rst"
  /\ \E n \in 1..net[c] :
       /\ recv' = [recv EXCEPT ![cur] = @ + n]
       /\ net' = [net EXCEPT ![c] = @ - n]
  /\ Call("write")
  /\ UNCHANGED <<sock, asked, closed, deviated, owner, len, bits, ready, todo, cur,
                 was_resp, taken, queue, workers>>

ReadFails ==
  LET c == owner[cur] IN
  /\ pc = "read" /\ ~bits[cur].is_closing /\ cur \in readable
  /\ sock[c] = "rst" \/ (sock[c] = "fin" /\ net[c] = 0)
  /\ \E b \in Loads(cur) : Assign(cur, b, "is_closing", TRUE)
  /\ Goto("write")
  /\ UNCHANGED <<client, closed, deviated, owner, recv, len, ready, todo, cur,
                 was_resp, taken, queue, workers>>

(* Mutant: the request's body is not waited for. *)
MayDeliverEarly == ~bits[cur].is_resp /\ recv[cur] > 0

(* On MG_EV_CLOSE all that is buffered counts as the message. *)
MayDeliver == ~bits[cur].is_resp /\ recv[cur] >= (IF ret = "free" THEN 1 ELSE 2)

(* Mutant: the response is not marked. *)
DeliverUnmarked ==
  /\ pc = "http" /\ MayDeliver
  /\ recv' = [recv EXCEPT ![cur] = IF ret = "free" THEN 0 ELSE @ - 2]
  /\ queue' = Append(queue, [client |-> owner[cur], slot |-> cur])
  /\ UNCHANGED <<client, closed, deviated, owner, len, bits, ready, todo, cur,
                 was_resp, pc, ret, taken, workers>>

(* Mutant: the job is not posted. *)
DeliverUnposted ==
  /\ pc = "http" /\ MayDeliver
  /\ \E b \in Loads(cur) : Assign(cur, b, "is_resp", TRUE)
  /\ recv' = [recv EXCEPT ![cur] = IF ret = "free" THEN 0 ELSE @ - 2]
  /\ UNCHANGED <<client, closed, deviated, owner, len, ready, todo, cur, was_resp,
                 pc, ret, taken, queue, workers>>

(* http_cb sets is_resp and calls handle_event, which posts the job. *)
Deliver ==
  /\ pc = "http" /\ MayDeliver
  /\ \E b \in Loads(cur) : Assign(cur, b, "is_resp", TRUE)
  /\ recv' = [recv EXCEPT ![cur] = IF ret = "free" THEN 0 ELSE @ - 2]
  /\ queue' = Append(queue, [client |-> owner[cur], slot |-> cur])
  /\ UNCHANGED <<client, closed, deviated, owner, len, ready, todo, cur,
                 was_resp, pc, ret, taken, workers>>

HttpCbReturns ==
  /\ pc = "http" /\ ~MayDeliver
  /\ pc' = ret
  /\ UNCHANGED <<client, closed, deviated, heap, ready, todo, cur, was_resp, ret,
                 taken, queue, workers>>

(* What is buffered does not parse: mg_error. *)
Malformed ==
  /\ pc = "http" /\ recv[cur] > 0 /\ owner[cur] \in Deviants
  /\ deviated' = TRUE
  /\ \E b \in Loads(cur) : Assign(cur, b, "is_closing", TRUE)
  /\ pc' = ret
  /\ UNCHANGED <<client, closed, owner, recv, len, ready, todo, cur, was_resp, ret,
                 taken, queue, workers>>

(* write_conn *)
WriteNothing ==
  /\ pc = "write" /\ cur \notin writable
  /\ Goto("finish")
  /\ UNCHANGED <<client, closed, deviated, heap, ready, todo, cur, was_resp, taken,
                 queue, workers>>

WriteData ==
  /\ pc = "write" /\ cur \in writable /\ sock[owner[cur]] # "rst"
  /\ taken' \in 1..len[cur]
  /\ Goto("delete")
  /\ UNCHANGED <<client, closed, deviated, heap, ready, todo, cur, was_resp, queue,
                 workers>>

WriteFails ==
  /\ pc = "write" /\ cur \in writable
  /\ sock[owner[cur]] = "rst" \/ len[cur] = 0
  /\ \E b \in Loads(cur) : Assign(cur, b, "is_closing", TRUE)
  /\ Goto("finish")
  /\ UNCHANGED <<client, closed, deviated, owner, recv, len, ready, todo, cur,
                 was_resp, taken, queue, workers>>

(* mg_iobuf_del *)
Delete ==
  /\ pc = "delete"
  /\ \E l \in {len[cur], seen.len[cur]} :
       len' = [len EXCEPT ![cur] = IF l > taken THEN l - taken ELSE 0]
  /\ taken' = 0
  /\ Goto("finish")
  /\ UNCHANGED <<client, closed, deviated, owner, recv, bits, ready, todo, cur,
                 was_resp, queue, workers>>

(* Mutant: a connection whose buffer is empty is closed. *)
ClosesIdle(s) == bits[s].is_closing \/ len[s] = 0

(* Mutant: draining alone closes nothing. *)
ClosesOnError(s) == bits[s].is_closing

Closes(s) == bits[s].is_closing \/ (bits[s].is_draining /\ len[s] = 0)

KeepConn ==
  /\ pc = "finish" /\ ~Closes(cur)
  /\ cur' = Nobody
  /\ Goto("poll")
  /\ UNCHANGED <<client, closed, deviated, heap, ready, todo, was_resp, taken, queue,
                 workers>>

(* close_conn: MG_EV_CLOSE lets http_cb hand over one more request. *)
CloseConn ==
  /\ pc = "finish" /\ Closes(cur)
  /\ closed' = [closed EXCEPT ![owner[cur]] = TRUE]
  /\ \E b \in Loads(cur) : Assign(cur, b, "is_closing", TRUE)
  /\ Call("free")
  /\ UNCHANGED <<client, deviated, owner, recv, len, ready, todo, cur, was_resp, taken,
                 queue, workers>>

(* The memset and free() of mg_close_conn. *)
FreeConn ==
  /\ pc = "free"
  /\ owner' = [owner EXCEPT ![cur] = Nobody]
  /\ recv' = [recv EXCEPT ![cur] = 0]
  /\ len' = [len EXCEPT ![cur] = 0]
  /\ bits' = [bits EXCEPT ![cur] = Zero]
  /\ cur' = Nobody
  /\ Goto("poll")
  /\ UNCHANGED <<client, closed, deviated, ready, todo, was_resp, taken, queue, workers>>

(* The listener is the last of the list; calloc() clears a new connection. *)
AcceptConn(c, s) ==
  /\ pc = "poll" /\ todo = {} /\ lsn_readable
  /\ InBacklog(c) /\ s \notin Live
  /\ owner' = [owner EXCEPT ![s] = c]
  /\ recv' = [recv EXCEPT ![s] = 0]
  /\ len' = [len EXCEPT ![s] = 0]
  /\ bits' = [bits EXCEPT ![s] = Zero]
  /\ Goto("iotest")
  /\ UNCHANGED <<client, closed, deviated, ready, todo, cur, was_resp, taken, queue,
                 workers>>

(* With every slot taken a client waits in the backlog. *)
NoAccept ==
  /\ pc = "poll" /\ todo = {}
  /\ ~lsn_readable \/ Live = Slots
  /\ Goto("iotest")
  /\ UNCHANGED <<client, closed, deviated, heap, ready, todo, cur, was_resp, taken,
                 queue, workers>>

Poll ==
  /\ \/ Iotest \/ SocketError \/ IotestDone
     \/ Visit \/ Check
     \/ ReadNothing \/ ReadData \/ ReadFails
     \/ Deliver \/ HttpCbReturns \/ Malformed
     \/ WriteNothing \/ WriteData \/ WriteFails \/ Delete
     \/ KeepConn \/ CloseConn \/ FreeConn
     \/ NoAccept \/ \E c \in Clients, s \in Slots : AcceptConn(c, s)
  /\ seen' = [bits |-> bits', len |-> len']

----------------------------------------------------------------------------
(* A thread of the pool: the lambda dpcp of handle_event.  It goes on       *)
(* through its pointer whatever has become of the connection.              *)

slot(w) == job[w].slot
Step(w, from, to) == wpc[w] = from /\ wpc' = [wpc EXCEPT ![w] = to]
Loaded(w) == {bits[slot(w)], view[w].bits}
LoadedLen(w) == {len[slot(w)], view[w].len}
Look(w) == view' = [view EXCEPT ![w] = [bits |-> bits'[slot(w)], len |-> len'[slot(w)]]]
Extend(w, l) == len' = [len EXCEPT ![slot(w)] = l + 1]

(* A thread takes a job; Dispath touches no shared state. *)
Take(w) ==
  /\ queue # <<>>
  /\ Step(w, "idle", "head")
  /\ job' = [job EXCEPT ![w] = Head(queue)]
  /\ queue' = Tail(queue)
  /\ view' = [view EXCEPT ![w] =
                [bits |-> bits[Head(queue).slot], len |-> len[Head(queue).slot]]]
  /\ UNCHANGED <<client, closed, deviated, heap, poll>>

(* mg_http_reply prints the head of the reply and its body into c->send ... *)
PrintHead(w) ==
  /\ Step(w, "head", "body")
  /\ \E l \in LoadedLen(w) : Extend(w, l)
  /\ UNCHANGED <<client, closed, deviated, owner, recv, bits, poll, queue, job>>
  /\ Look(w)

PrintBody(w) ==
  /\ Step(w, "body", "clear")
  /\ \E l \in LoadedLen(w) : Extend(w, l)
  /\ UNCHANGED <<client, closed, deviated, owner, recv, bits, poll, queue, job>>
  /\ Look(w)

(* ... and clears is_resp.                                                 *)
ClearResp(w) ==
  /\ Step(w, "clear", "drain")
  /\ \E b \in Loaded(w) : Assign(slot(w), b, "is_resp", FALSE)
  /\ UNCHANGED <<client, closed, deviated, owner, recv, len, poll, queue, job>>
  /\ Look(w)

Drain(w) ==
  /\ Step(w, "drain", "idle")
  /\ \E b \in Loaded(w) : Assign(slot(w), b, "is_draining", TRUE)
  /\ job' = [job EXCEPT ![w] = NoJob]
  /\ view' = [view EXCEPT ![w] = NoView]
  /\ UNCHANGED <<client, closed, deviated, owner, recv, len, poll, queue>>

Worker(w) ==
  \/ Take(w)
  \/ PrintHead(w) \/ PrintBody(w)
  \/ ClearResp(w) \/ Drain(w)

Next ==
  \/ \E c \in Clients : Client(c)
  \/ Poll
  \/ \E w \in Workers : Worker(w)

Spec == Init /\ [][Next]_vars

(* The poll thread never stops and the pool's threads are scheduled. *)
FairSpec == Spec /\ WF_vars(Poll) /\ \A w \in Workers : WF_vars(Worker(w))
----------------------------------------------------------------------------
(* Properties.                                                             *)

ClientTypeOK ==
  /\ sock \in [Clients -> {"none", "open", "fin", "rst"}]
  /\ asked \in [Clients -> 0..(2 * MaxReqs)]
  /\ net \in [Clients -> 0..(2 * MaxReqs)]
  /\ closed \in [Clients -> BOOLEAN]
  /\ deviated \in BOOLEAN

HeapTypeOK ==
  /\ owner \in [Slots -> Clients \cup {Nobody}]
  /\ recv \in [Slots -> 0..(2 * MaxReqs)]
  /\ len \in [Slots -> Nat]
  /\ bits \in [Slots -> Bits]

PollTypeOK ==
  /\ readable \subseteq Slots /\ writable \subseteq Slots /\ failed \subseteq Slots
  /\ lsn_readable \in BOOLEAN
  /\ todo \subseteq Slots /\ cur \in Slots \cup {Nobody}
  /\ was_resp \in BOOLEAN
  /\ pc \in {"iotest", "errors", "poll", "check", "read", "http", "write", "delete",
            "finish", "free"}
  /\ ret \in {"read", "write", "free"}
  /\ taken \in Nat
  /\ seen \in [bits : [Slots -> Bits], len : [Slots -> Nat]]

WorkerTypeOK ==
  /\ queue \in Seq(Jobs)
  /\ wpc \in [Workers -> {"idle", "head", "body", "clear", "drain"}]
  /\ job \in [Workers -> Jobs \cup {NoJob}]
  /\ view \in [Workers -> [bits : Bits, len : Nat]]

TypeOK == ClientTypeOK /\ HeapTypeOK /\ PollTypeOK /\ WorkerTypeOK

Queued == {queue[i] : i \in DOMAIN queue}
Working(steps) == {job[w] : w \in {v \in Workers : wpc[v] \in steps}}

(* No thread follows a pointer to a freed connection, or to the connection  *)
(* another client got in the same place, as long as every client sends one  *)
(* request and waits for the close.                                        *)
JobsAlive ==
  ~deviated =>
    \A j \in Queued \cup Working({"head", "body", "clear", "drain"}) :
      owner[j.slot] = j.client

(* "Response is still being generated": is_resp is set from the posting of a *)
(* job to the end of its reply, and so no second one is posted meanwhile.  *)
GeneratingMarked ==
  \A j \in Queued \cup Working({"head", "body", "clear"}) :
    owner[j.slot] = j.client => bits[j.slot].is_resp

(* The connection of a client that has sent a whole request is sooner or    *)
(* later closed, whether it waits for the response, pipelines or goes away, *)
(* though both threads update the flags and the length this depends on.    *)
Answered == \A c \in Clients : (asked[c] >= 2) ~> closed[c]
=============================================================================
