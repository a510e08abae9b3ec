---------------------------- MODULE StaticServer ----------------------------
(***************************************************************************)
(* mongoose_minimal_static_server of net/network.cpp: the EventDispatcher  *)
(* and the mongoose event loop that calls it, all on one thread.           *)
(*                                                                         *)
(* One step of the server is one callback or one socket call of            *)
(* mg_mgr_poll; clients and the network move between any two of them.  A   *)
(* request is one or two tokens of the byte stream (whole; split inside    *)
(* its headers; split inside its body; malformed), a response is a header  *)
(* token followed by body tokens or by the pieces of a file.               *)
(***************************************************************************)
EXTENDS Integers, Sequences, FiniteSets

CONSTANTS
  Clients,     (* clients, each opening one connection                       *)
  Routes,      (* the URIs they ask for, a subset of AllRoutes               *)
  Shapes,      (* how a request may be cut up, a subset of AllShapes         *)
  MaxReqs,     (* bound: requests on one connection                          *)
  MaxPieces,   (* bound: pieces of the file the root route serves            *)
  SendSize,    (* c->send.size in tokens, the rate limit of static_cb        *)
  WireSize,    (* tokens the kernel and the peer's window hold unread        *)
  RecvLimit    (* MG_MAX_RECV_SIZE in tokens                                 *)

AllRoutes == {"root", "hello", "image", "video", "other"}
AllShapes == {"whole", "inHeaders", "inBody", "bad"}

ASSUME ParamAssumption ==
  /\ Routes \subseteq AllRoutes /\ Shapes \subseteq AllShapes
  /\ MaxReqs \in Nat /\ MaxPieces \in Nat
  /\ SendSize \in Nat \ {0} /\ WireSize \in Nat \ {0} /\ RecvLimit \in Nat \ {0}

VARIABLES
  sock,        (* the client's end: none, open, fin (done sending), rst      *)
  nreq,        (* requests the client has begun to send                      *)
  rest,        (* the token the client still owes of its last request        *)
  net,         (* tokens on their way to the server                          *)
  unread,      (* response tokens the client has not read yet                *)
  sent,        (* history: every token write_conn put on the wire            *)
  life,        (* the mg_connection: none, live, closing (EV_CLOSE), freed   *)
  recv, send,  (* c->recv and c->send                                        *)
  is_resp, is_draining, is_closing, is_readable, is_writable,
  pfn, left,   (* c->pfn and the unsent length kept in c->data               *)
  fds,         (* open mg_fd of the connection                               *)
  conns,       (* mgr->conns without the listener, which is its last element *)
  todo,        (* the connections the loop of mg_mgr_poll has still to visit *)
  lsn_readable,(* is_readable of the listener                                *)
  pc, ret,     (* position in mg_mgr_poll, and where http_cb returns to      *)
  handled,     (* history: requests given to the EventDispatcher             *)
  restoredOn,  (* history: the event on which the last transfer ended        *)
  late         (* history: the last request was handed over on MG_EV_CLOSE   *)

client == <<sock, nreq, rest, net, unread>>
flags  == <<is_draining, is_closing, is_readable, is_writable>>
xfer   == <<pfn, left, fds>>
loop   == <<conns, todo, lsn_readable>>
hist   == <<handled, restoredOn, late>>
vars   == <<client, sent, life, recv, send, is_resp, flags, xfer, loop, pc, ret, hist>>

None == [req |-> 0, part |-> "none", route |-> "other"]
InToken(r, p, route) == [req |-> r, part |-> p, route |-> route]
OutToken(r, p) == [req |-> r, part |-> p]

InTokens  == [req : 0..MaxReqs, part : {"none", "whole", "start", "head", "rest", "bad"}, route : AllRoutes]
OutTokens == [req : 0..MaxReqs, part : {"header", "body", "piece"}]

Init ==
  /\ sock = [c \in Clients |-> "none"]
  /\ nreq = [c \in Clients |-> 0]
  /\ rest = [c \in Clients |-> None]
  /\ net = [c \in Clients |-> <<>>]
  /\ unread = [c \in Clients |-> 0]
  /\ sent = [c \in Clients |-> <<>>]
  /\ life = [c \in Clients |-> "none"]
  /\ recv = [c \in Clients |-> <<>>]
  /\ send = [c \in Clients |-> <<>>]
  /\ is_resp = [c \in Clients |-> FALSE]
  /\ is_draining = [c \in Clients |-> FALSE]
  /\ is_closing = [c \in Clients |-> FALSE]
  /\ is_readable = [c \in Clients |-> FALSE]
  /\ is_writable = [c \in Clients |-> FALSE]
  /\ pfn = [c \in Clients |-> "http"]
  /\ left = [c \in Clients |-> 0]
  /\ fds = [c \in Clients |-> 0]
  /\ conns = <<>>
  /\ todo = <<>>
  /\ lsn_readable = FALSE
  /\ pc = "iotest"
  /\ ret = "read"
  /\ handled = [c \in Clients |-> 0]
  /\ restoredOn = [c \in Clients |-> "none"]
  /\ late = [c \in Clients |-> FALSE]

----------------------------------------------------------------------------
(* The clients and the network: no code of the repository, any behaviour   *)
(* TCP allows.  A client waits in the listener's backlog while its socket  *)
(* is not "none" and its life is; what it sends once the server has closed *)
(* is lost and not modelled.                                               *)

server == <<sent, life, recv, send, is_resp, flags, xfer, loop, pc, ret, hist>>

InBacklog(c) == sock[c] # "none" /\ life[c] = "none"
MaySend(c) == sock[c] = "open" /\ life[c] \in {"none", "live"}

Connect(c) ==
  /\ sock[c] = "none"
  /\ sock' = [sock EXCEPT ![c] = "open"]
  /\ UNCHANGED <<nreq, rest, net, unread, server>>

FirstPart == [whole |-> "whole", inHeaders |-> "start", inBody |-> "head", bad |-> "bad"]

(* A client may send its next request without waiting for an answer, as a  *)
(* whole or only a first part of it.                                       *)
SendRequest(c, route, shape) ==
  LET r == nreq[c] + 1
  IN /\ MaySend(c)
     /\ rest[c] = None
     /\ nreq[c] < MaxReqs
     /\ nreq' = [nreq EXCEPT ![c] = r]
     /\ net' = [net EXCEPT ![c] = Append(@, InToken(r, FirstPart[shape], route))]
     /\ rest' = [rest EXCEPT ![c] =
          IF shape \in {"inHeaders", "inBody"} THEN InToken(r, "rest", route) ELSE None]
     /\ UNCHANGED <<sock, unread, server>>

SendRest(c) ==
  /\ MaySend(c)
  /\ rest[c] # None
  /\ net' = [net EXCEPT ![c] = Append(@, rest[c])]
  /\ rest' = [rest EXCEPT ![c] = None]
  /\ UNCHANGED <<sock, nreq, unread, server>>

Receive(c) ==
  /\ sock[c] \in {"open", "fin"}
  /\ life[c] = "live"
  /\ unread[c] > 0
  /\ unread' = [unread EXCEPT ![c] = @ - 1]
  /\ UNCHANGED <<sock, nreq, rest, net, server>>

(* An orderly end of sending, or a reset. *)
Shutdown(c, how) ==
  /\ sock[c] \in {"open", "fin"} \ {how}
  /\ life[c] \in {"none", "live"}
  /\ sock' = [sock EXCEPT ![c] = how]
  /\ UNCHANGED <<nreq, rest, net, unread, server>>

Client(c) ==
  \/ Connect(c)
  \/ \E route \in Routes, shape \in Shapes : SendRequest(c, route, shape)
  \/ SendRest(c)
  \/ Receive(c)
  \/ \E how \in {"fin", "rst"} : Shutdown(c, how)

----------------------------------------------------------------------------
(* The EventDispatcher: what the handler of a route does to connection c   *)
(* for request r.  http_cb has set is_resp before the call.                *)

Put(c, tokens) == send' = [send EXCEPT ![c] = @ \o tokens]
Header(r) == OutToken(r, "header")
HeaderBody(r) == <<Header(r), OutToken(r, "body")>>

(* Mutant: the reply does not end the response. *)
MgHttpReplyOpen(c, r) ==
  /\ Put(c, HeaderBody(r))
  /\ is_resp' = [is_resp EXCEPT ![c] = TRUE]
  /\ UNCHANGED <<is_draining, xfer>>

(* mg_http_reply, for /api/hello, for an unknown URI, and for what          *)
(* mg_http_serve_dir answers at once: a listing, 404, 304.                 *)
MgHttpReply(c, r) ==
  /\ Put(c, HeaderBody(r))
  /\ is_resp' = [is_resp EXCEPT ![c] = FALSE]
  /\ UNCHANGED <<is_draining, xfer>>

(* Image, File and ZipFile end the connection and leave is_resp set.  When  *)
(* the file cannot be read, data.len is what the stack held.               *)
Image(c, r) ==
  /\ \E tokens \in {<<Header(r)>>, HeaderBody(r)} : Put(c, tokens)
  /\ is_resp' = [is_resp EXCEPT ![c] = TRUE]
  /\ is_draining' = [is_draining EXCEPT ![c] = TRUE]
  /\ UNCHANGED xfer

(* Video writes one chunk; a chunk of length 0 ends the response. *)
Video(c, r) ==
  /\ \E empty \in BOOLEAN :
       /\ Put(c, IF empty THEN <<Header(r)>> ELSE HeaderBody(r))
       /\ is_resp' = [is_resp EXCEPT ![c] = ~empty]
  /\ is_draining' = [is_draining EXCEPT ![c] = TRUE]
  /\ UNCHANGED xfer

(* mg_http_serve_file for a HEAD request. *)
ServeHead(c, r) ==
  /\ Put(c, <<Header(r)>>)
  /\ is_resp' = [is_resp EXCEPT ![c] = FALSE]
  /\ is_draining' = [is_draining EXCEPT ![c] = TRUE]
  /\ UNCHANGED xfer

(* mg_http_serve_file otherwise: static_cb takes the connection over with  *)
(* n pieces to send, none for an empty file or a bad range.                *)
ServeFile(c, r, n) ==
  /\ Put(c, <<Header(r)>>)
  /\ is_resp' = [is_resp EXCEPT ![c] = TRUE]
  /\ pfn' = [pfn EXCEPT ![c] = "static"]
  /\ left' = [left EXCEPT ![c] = n]
  /\ fds' = [fds EXCEPT ![c] = @ + 1]
  /\ UNCHANGED is_draining

(* mg_http_serve_dir of "/tmp": which branch is taken is the file system's *)
(* and the request headers' to say.                                        *)
StaticServe(c, r) ==
  \/ MgHttpReply(c, r)
  \/ ServeHead(c, r)
  \/ \E n \in 0..MaxPieces : ServeFile(c, r, n)

Dispather(c, r, route) ==
  \/ route = "root" /\ StaticServe(c, r)
  \/ route \in {"hello", "other"} /\ MgHttpReply(c, r)
  \/ route = "image" /\ Image(c, r)
  \/ route = "video" /\ Video(c, r)

----------------------------------------------------------------------------
(* The event loop.  The connection being visited is the head of todo.      *)

cur == Head(todo)
Goto(label) == pc' = label /\ UNCHANGED ret
Call(return) == pc' = "http" /\ ret' = return

Readable(c) == net[c] # <<>> \/ sock[c] # "open"
Writable(c) == send[c] # <<>> /\ (unread[c] < WireSize \/ sock[c] = "rst")

(* mg_iotest: what epoll reports, level triggered.  A reset connection is  *)
(* reported with EPOLLERR and given to mg_error.                           *)
Iotest ==
  LET live == {c \in Clients : life[c] = "live"}
      failed == {c \in live : sock[c] = "rst"}
  IN /\ pc = "iotest"
     /\ is_readable' = [c \in Clients |-> c \in live \ failed /\ Readable(c)]
     /\ is_writable' = [c \in Clients |-> c \in live \ failed /\ Writable(c)]
     /\ is_closing' = [c \in Clients |-> is_closing[c] \/ c \in failed]
     /\ lsn_readable' = \E c \in Clients : InBacklog(c)
     /\ todo' = conns
     /\ Goto("poll")
     /\ UNCHANGED <<client, sent, life, recv, send, is_resp, is_draining, xfer,
                    conns, hist>>

(* Mutant: the file's handler stays in place. *)
RestoreNothing(c, event) ==
  /\ fds' = [fds EXCEPT ![c] = @ - 1]
  /\ is_resp' = [is_resp EXCEPT ![c] = FALSE]
  /\ restoredOn' = [restoredOn EXCEPT ![c] = event]
  /\ UNCHANGED <<pfn, left>>

(* restore_http_cb *)
RestoreHttpCb(c, event) ==
  /\ fds' = [fds EXCEPT ![c] = @ - 1]
  /\ pfn' = [pfn EXCEPT ![c] = "http"]
  /\ is_resp' = [is_resp EXCEPT ![c] = FALSE]
  /\ restoredOn' = [restoredOn EXCEPT ![c] = event]
  /\ UNCHANGED left

(* Mutant: the read is not limited by what is left to send. *)
PiecesUnlimited(c, room) == room

(* How much of the file static_cb reads into room free tokens. *)
Pieces(c, room) == IF room > left[c] THEN left[c] ELSE room

(* static_cb on MG_EV_POLL and MG_EV_WRITE; queue is what c->send holds at *)
(* that moment.  It copies as much of the file as fits, and a read of 0    *)
(* ends the transfer.                                                      *)
StaticCb(c, queue, event) ==
  IF Len(queue) >= SendSize
  THEN /\ send' = [send EXCEPT ![c] = queue]
       /\ UNCHANGED <<is_resp, xfer, restoredOn>>
  ELSE LET n == Pieces(c, SendSize - Len(queue))
       IN /\ send' = [send EXCEPT ![c] =
                        queue \o [i \in 1..n |-> OutToken(handled[c], "piece")]]
          /\ IF n = 0
             THEN RestoreHttpCb(c, event)
             ELSE /\ left' = [left EXCEPT ![c] = @ - n]
                  /\ UNCHANGED <<is_resp, pfn, fds, restoredOn>>

(* Mutant: mg_mgr_poll as it would be without its second event. *)
NeverAgain(before, after) == FALSE

OfferAgain(before, after) == before /\ ~after

(* The top of the loop body: fire MG_EV_POLL and, if is_resp was set before *)
(* the event and no longer is, offer the buffered input to http_cb.        *)
PollEvent ==
  /\ pc = "poll" /\ todo # <<>>
  /\ IF pfn[cur] = "static"
     THEN StaticCb(cur, send[cur], "poll")
     ELSE UNCHANGED <<send, is_resp, xfer, restoredOn>>
  /\ IF OfferAgain(is_resp[cur], is_resp'[cur]) THEN Call("read") ELSE Goto("read")
  /\ UNCHANGED <<client, sent, life, recv, flags, loop, handled, late>>

(* read_conn and the MG_EV_READ it fires. *)
ReadNothing ==
  /\ pc = "read"
  /\ Goto(IF is_closing[cur] THEN "finish" ELSE "write")
  /\ \/ is_closing[cur]
     \/ ~is_readable[cur]
  /\ UNCHANGED <<client, sent, life, recv, send, is_resp, flags, xfer, loop, hist>>

ReadData ==
  /\ pc = "read" /\ ~is_closing[cur] /\ is_readable[cur]
  /\ Len(recv[cur]) < RecvLimit /\ sock[cur] # "rst"
  /\ \E n \in 1..Len(net[cur]) :
       /\ recv' = [recv EXCEPT ![cur] = @ \o SubSeq(net[cur], 1, n)]
       /\ net' = [net EXCEPT ![cur] = SubSeq(@, n + 1, Len(@))]
  /\ IF pfn[cur] = "http" THEN Call("write") ELSE Goto("write")
  /\ UNCHANGED <<sock, nreq, rest, unread, sent, life, send, is_resp, flags, xfer,
                 loop, hist>>

(* End of file, a reset, or a receive buffer at its limit. *)
ReadFails ==
  /\ pc = "read" /\ ~is_closing[cur] /\ is_readable[cur]
  /\ \/ Len(recv[cur]) >= RecvLimit
     \/ sock[cur] = "rst"
     \/ sock[cur] = "fin" /\ net[cur] = <<>>
  /\ is_closing' = [is_closing EXCEPT ![cur] = TRUE]
  /\ Goto("write")
  /\ UNCHANGED <<client, sent, life, recv, send, is_resp, is_draining, is_readable,
                 is_writable, xfer, loop, hist>>

(* What mg_http_parse finds at the front of the buffer. *)
Malformed(q) == q # <<>> /\ Head(q).part = "bad"
HeadersDone(q) ==
  q # <<>> /\ (Head(q).part \in {"whole", "head"} \/ (Head(q).part = "start" /\ Len(q) > 1))
MessageLen(q) == IF Head(q).part = "whole" THEN 1 ELSE 2
Complete(q) == HeadersDone(q) /\ Len(q) >= MessageLen(q)

(* On MG_EV_CLOSE all that is buffered counts as the message. *)
Length(q) == IF ret = "free" THEN Len(q) ELSE MessageLen(q)

(* Mutant: http_cb does not wait for the response in progress. *)
IgnoresResponse(c) == HeadersDone(recv[c]) /\ Len(recv[c]) >= Length(recv[c])

MayDeliver(c) ==
  /\ ~is_resp[c]
  /\ HeadersDone(recv[c])
  /\ Len(recv[c]) >= Length(recv[c])

(* One turn of the loop of http_cb that hands a request over. *)
Deliver ==
  LET q == recv[cur] IN
  /\ pc = "http"
  /\ MayDeliver(cur)
  /\ Dispather(cur, Head(q).req, Head(q).route)
  /\ recv' = [recv EXCEPT ![cur] = SubSeq(q, Length(q) + 1, Len(q))]
  /\ handled' = [handled EXCEPT ![cur] = Head(q).req]
  /\ restoredOn' = [restoredOn EXCEPT ![cur] = "none"]
  /\ late' = [late EXCEPT ![cur] = (ret = "free")]
  /\ UNCHANGED <<client, sent, life, is_closing, is_readable, is_writable, loop, pc, ret>>

(* The loop ends: nothing buffered, a malformed request (mg_error), a       *)
(* response in progress, or a request that has not arrived in full.        *)
HttpCbReturns ==
  /\ pc = "http"
  /\ ~MayDeliver(cur)
  /\ is_closing' = [is_closing EXCEPT ![cur] = @ \/ Malformed(recv[cur])]
  /\ pc' = ret
  /\ UNCHANGED <<client, sent, life, recv, send, is_resp, is_draining, is_readable,
                 is_writable, xfer, loop, ret, hist>>

(* Mutant: a transfer that is topped up on MG_EV_POLL only. *)
OnWritePlain(c, queue) ==
  send' = [send EXCEPT ![c] = queue] /\ UNCHANGED <<is_resp, xfer, restoredOn>>

(* MG_EV_WRITE, once the socket has taken all but queue. *)
OnWrite(c, queue) ==
  IF pfn[c] = "static"
  THEN StaticCb(c, queue, "write")
  ELSE send' = [send EXCEPT ![c] = queue] /\ UNCHANGED <<is_resp, xfer, restoredOn>>

(* write_conn *)
WriteNothing ==
  /\ pc = "write" /\ ~is_writable[cur]
  /\ Goto("finish")
  /\ UNCHANGED <<client, sent, life, recv, send, is_resp, flags, xfer, loop, hist>>

WriteData ==
  /\ pc = "write" /\ is_writable[cur] /\ sock[cur] # "rst"
  /\ \E n \in 1..Len(send[cur]) :
       /\ unread[cur] + n <= WireSize
       /\ unread' = [unread EXCEPT ![cur] = @ + n]
       /\ sent' = [sent EXCEPT ![cur] = @ \o SubSeq(send[cur], 1, n)]
       /\ OnWrite(cur, SubSeq(send[cur], n + 1, Len(send[cur])))
  /\ Goto("finish")
  /\ UNCHANGED <<sock, nreq, rest, net, life, recv, flags, loop, handled, late>>

WriteFails ==
  /\ pc = "write" /\ is_writable[cur] /\ sock[cur] = "rst"
  /\ is_closing' = [is_closing EXCEPT ![cur] = TRUE]
  /\ Goto("finish")
  /\ UNCHANGED <<client, sent, life, recv, send, is_resp, is_draining, is_readable,
                 is_writable, xfer, loop, hist>>

(* Mutant: draining alone closes nothing. *)
ClosesOnError(c) == is_closing[c]

Closes(c) == is_closing[c] \/ (is_draining[c] /\ send[c] = <<>>)

(* The bottom of the loop body. *)
KeepConn ==
  /\ pc = "finish" /\ ~Closes(cur)
  /\ todo' = Tail(todo)
  /\ Goto("poll")
  /\ UNCHANGED <<client, sent, life, recv, send, is_resp, flags, xfer, conns,
                 lsn_readable, hist>>

(* Mutant: the closed connection stays in the list. *)
ListKeep(q, c) == q

(* LIST_DELETE: q without its element c. *)
ListDelete(q, c) ==
  LET k == CHOOSE i \in DOMAIN q : q[i] = c
  IN [i \in 1..(Len(q) - 1) |-> IF i < k THEN q[i] ELSE q[i + 1]]

(* Mutant: a transfer's handler is not told of the close. *)
OnCloseHttp(c) == Call("free") /\ UNCHANGED <<is_resp, xfer, restoredOn>>

(* MG_EV_CLOSE *)
OnClose(c) ==
  IF pfn[c] = "static"
  THEN RestoreHttpCb(c, "close") /\ Goto("free")
  ELSE Call("free") /\ UNCHANGED <<is_resp, xfer, restoredOn>>

(* close_conn: the socket is closed, the connection leaves the list, and   *)
(* MG_EV_CLOSE lets http_cb hand over one more request.                    *)
CloseConn ==
  /\ pc = "finish" /\ Closes(cur)
  /\ is_closing' = [is_closing EXCEPT ![cur] = TRUE]
  /\ life' = [life EXCEPT ![cur] = "closing"]
  /\ conns' = ListDelete(conns, cur)
  /\ OnClose(cur)
  /\ UNCHANGED <<client, sent, recv, send, is_draining, is_readable, is_writable,
                 todo, lsn_readable, handled, late>>

FreeConn ==
  /\ pc = "free"
  /\ life' = [life EXCEPT ![cur] = "freed"]
  /\ recv' = [recv EXCEPT ![cur] = <<>>]
  /\ send' = [send EXCEPT ![cur] = <<>>]
  /\ todo' = Tail(todo)
  /\ Goto("poll")
  /\ UNCHANGED <<client, sent, is_resp, flags, xfer, conns, lsn_readable, hist>>

(* The listener comes last; accept_conn puts the new connection in front.  *)
AcceptConn(c) ==
  /\ pc = "poll" /\ todo = <<>> /\ lsn_readable
  /\ InBacklog(c)
  /\ life' = [life EXCEPT ![c] = "live"]
  /\ conns' = <<c>> \o conns
  /\ Goto("iotest")
  /\ UNCHANGED <<client, sent, recv, send, is_resp, flags, xfer, todo, lsn_readable,
                 hist>>

NoAccept ==
  /\ pc = "poll" /\ todo = <<>> /\ ~lsn_readable
  /\ Goto("iotest")
  /\ UNCHANGED <<client, sent, life, recv, send, is_resp, flags, xfer, loop, hist>>

Server ==
  \/ Iotest \/ PollEvent
  \/ ReadNothing \/ ReadData \/ ReadFails
  \/ Deliver \/ HttpCbReturns
  \/ WriteNothing \/ WriteData \/ WriteFails
  \/ KeepConn \/ CloseConn \/ FreeConn
  \/ NoAccept \/ \E c \in Clients : AcceptConn(c)

Next == Server \/ \E c \in Clients : Client(c)

Spec == Init /\ [][Next]_vars

(* The server thread never stops, and a client that keeps its connection   *)
(* keeps reading from it.                                                  *)
FairSpec == Spec /\ WF_vars(Server) /\ \A c \in Clients : WF_vars(Receive(c))

----------------------------------------------------------------------------
(* Properties.                                                             *)

ClientTypeOK ==
  /\ sock \in [Clients -> {"none", "open", "fin", "rst"}]
  /\ nreq \in [Clients -> 0..MaxReqs]
  /\ rest \in [Clients -> InTokens]
  /\ net \in [Clients -> Seq(InTokens)]
  /\ unread \in [Clients -> 0..WireSize]

ConnTypeOK ==
  /\ sent \in [Clients -> Seq(OutTokens)]
  /\ life \in [Clients -> {"none", "live", "closing", "freed"}]
  /\ recv \in [Clients -> Seq(InTokens)]
  /\ is_draining \in [Clients -> BOOLEAN]
  /\ is_closing \in [Clients -> BOOLEAN]
  /\ is_readable \in [Clients -> BOOLEAN]
  /\ is_writable \in [Clients -> BOOLEAN]

ResponseTypeOK ==
  /\ send \in [Clients -> Seq(OutTokens)]
  /\ is_resp \in [Clients -> BOOLEAN]
  /\ pfn \in [Clients -> {"http", "static"}]
  /\ left \in [Clients -> 0..MaxPieces]
  /\ fds \in [Clients -> Nat]

LoopTypeOK ==
  /\ conns \in Seq(Clients)
  /\ todo \in Seq(Clients)
  /\ lsn_readable \in BOOLEAN
  /\ pc \in {"iotest", "poll", "read", "http", "write", "finish", "free"}
  /\ ret \in {"read", "write", "free"}

HistTypeOK ==
  /\ handled \in [Clients -> 0..MaxReqs]
  /\ restoredOn \in [Clients -> {"none", "poll", "write", "close"}]
  /\ late \in [Clients -> BOOLEAN]

TypeOK == ClientTypeOK /\ ConnTypeOK /\ ResponseTypeOK /\ LoopTypeOK /\ HistTypeOK

(* While static_cb owns a connection the response counts as unfinished, so *)
(* http_cb, which mg_http_serve_file may have left in the middle of its    *)
(* loop, hands over no further request and opens no second file over it.   *)
TransferGuarded == \A c \in Clients : pfn[c] = "static" => is_resp[c]

(* A connection holds a file handle exactly while static_cb owns it, so no  *)
(* handler opens a second one and HEAD leaves none behind.                 *)
HandleBalance == \A c \in Clients : fds[c] = IF pfn[c] = "static" THEN 1 ELSE 0

(* Who sends the file owns the connection and the file, and nobody else.    *)
TransferOwned == TransferGuarded /\ HandleBalance

(* A connection freed with its file still open got the request for it when  *)
(* it was already closing, on MG_EV_CLOSE; every other transfer a lost      *)
(* client cuts short gives its handle back.                                *)
LeakOnlyOfLateRequest ==
  \A c \in Clients : life[c] = "freed" /\ fds[c] > 0 => late[c]

(* A connection that is drained, by a HEAD request or an empty video say,  *)
(* may still have a file to send for a request pipelined behind it; it is  *)
(* not closed until that transfer is over.                                 *)
NoTruncatedTransfer ==
  [][\A c \in Clients :
       life[c] = "live" /\ life'[c] = "closing" /\ ~is_closing[c]
         => pfn[c] = "http" /\ send[c] = <<>>]_vars

(* Between two rounds of the loop, a request that is fully buffered on a   *)
(* quiet connection has been missed: is_resp fell without http_cb being    *)
(* told.  That happens after a file transfer that ended on MG_EV_WRITE,    *)
(* and after nothing else.                                                 *)
Missed(c) ==
  /\ pc = "iotest" /\ life[c] = "live" /\ ~is_closing[c]
  /\ ~is_resp[c] /\ Complete(recv[c])
MissedOnlyAfterTransfer == \A c \in Clients : Missed(c) => restoredOn[c] = "write"

(* "Send remaining data, then close and free": a drained connection is      *)
(* freed, if its client goes on reading or goes away.                      *)
DrainingEnds ==
  \A c \in Clients : (is_draining[c] /\ life[c] = "live") ~> (life[c] = "freed")

(* A request that has arrived in full is handled, or its connection is      *)
(* closed, or it is one of those a finished transfer left behind.          *)
RequestHandled ==
  \A c \in Clients, r \in 1..MaxReqs :
    (life[c] = "live" /\ Complete(recv[c]) /\ Head(recv[c]).req = r)
      ~> (handled[c] >= r \/ life[c] # "live" \/ restoredOn[c] = "write")

(* The order the loop walks mgr->conns in while it deletes from it and the  *)
(* listener adds to it: the connection visited is never one that is freed,  *)
(* and a live connection, of however many clients, is in the list once.    *)
ListIntact ==
  /\ pc \in {"read", "write", "finish"} => life[cur] = "live"
  /\ pc = "poll" /\ todo # <<>> => life[cur] = "live"
  /\ \A c \in DOMAIN life :
       Cardinality({i \in DOMAIN conns : conns[i] = c}) = IF life[c] = "live" THEN 1 ELSE 0

(* Responses leave in request order, never mixed, each whole before the     *)
(* next, however requests are pipelined and files cut into pieces.         *)
Exchange == INSTANCE HttpExchange WITH
  Conns  <- Clients,
  status <- [c \in Clients |-> CASE life[c] = "none" -> "none"
                                 [] life[c] = "live" -> "open"
                                 [] OTHER -> "closed"],
  stream <- [c \in Clients |-> IF life[c] = "live" THEN sent[c] \o send[c] ELSE sent[c]],
  busy   <- [c \in Clients |-> IF life[c] = "live" /\ is_resp[c] THEN handled[c] ELSE 0]

ExchangeSpec == Exchange!Spec
=============================================================================
