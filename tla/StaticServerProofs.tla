------------------------- MODULE StaticServerProofs -------------------------
(***************************************************************************)
(* The static server, for every set of clients, routes and bounds: its     *)
(* types; that a file transfer is kept to itself; what the event loop and   *)
(* its list of connections leave behind; and that the whole implements     *)
(* HttpExchange.                                                           *)
(***************************************************************************)
EXTENDS StaticServer, SequenceTheorems, FiniteSetTheorems, TLAPS

(* Where the loop stands: a connection is being visited wherever the code   *)
(* uses one, and the list is never shorter than what is left to visit.     *)
Closing == pc = "free" \/ (pc = "http" /\ ret = "free")
Position ==
  /\ pc \notin {"iotest", "poll"} => todo # <<>>
  /\ Len(todo) <= Len(conns) + (IF Closing THEN 1 ELSE 0)

(* What the handlers and static_cb touch. *)
ResponseOK == ResponseTypeOK /\ TransferGuarded /\ HandleBalance

IInv == ClientTypeOK /\ ConnTypeOK /\ ResponseOK /\ LoopTypeOK /\ HistTypeOK /\ Position

----------------------------------------------------------------------------
(* What the handlers and static_cb put into c->send is typed.              *)
LEMMA TokensTyped ==
  ASSUME NEW r \in 0..MaxReqs
  PROVE  /\ <<Header(r)>> \in Seq(OutTokens)
         /\ HeaderBody(r) \in Seq(OutTokens)
         /\ \A n \in Nat : [i \in 1..n |-> OutToken(r, "piece")] \in Seq(OutTokens)
<1>1. /\ OutToken(r, "header") \in OutTokens
      /\ OutToken(r, "body") \in OutTokens
      /\ OutToken(r, "piece") \in OutTokens
  BY DEF OutToken, OutTokens
<1>2. QED
  BY <1>1 DEF Header, HeaderBody

(* Wherever the loop uses the connection being visited, there is one.      *)
LEMMA CurTyped == ASSUME LoopTypeOK, Position, pc \notin {"iotest", "poll"}
                  PROVE  cur \in Clients /\ Tail(todo) \in Seq(Clients) /\ Len(Tail(todo)) = Len(todo) - 1
BY HeadTailProperties DEF LoopTypeOK, Position, cur

(* A part of what was sent is typed as the whole is. *)
LEMMA SubSeqTyped ==
  ASSUME NEW q \in Seq(InTokens), NEW n \in 1..Len(q)
  PROVE  SubSeq(q, 1, n) \in Seq(InTokens) /\ SubSeq(q, n + 1, Len(q)) \in Seq(InTokens)
OBVIOUS

(* LIST_DELETE takes one element out of the list.                          *)
LEMMA ListDeleteTyped ==
  ASSUME NEW q \in Seq(Clients), q # <<>>, NEW c
  PROVE  ListDelete(q, c) \in Seq(Clients) /\ Len(ListDelete(q, c)) = Len(q) - 1
<1> DEFINE k == CHOOSE i \in DOMAIN q : q[i] = c
<1>1. Len(q) \in Nat \ {0} /\ DOMAIN q = 1..Len(q) /\ \A i \in 1..Len(q) : q[i] \in Clients
  OBVIOUS
<1>2. \A i \in 1..(Len(q) - 1) : (IF i < k THEN q[i] ELSE q[i + 1]) \in Clients
  <2> HIDE DEF k
  <2> QED BY <1>1
<1>3. ListDelete(q, c) = [i \in 1..(Len(q) - 1) |-> IF i < k THEN q[i] ELSE q[i + 1]]
  BY DEF ListDelete
<1>4. QED
  <2> HIDE DEF k
  <2> QED BY <1>1, <1>2, <1>3

(* A handler answers a connection that is not being answered: it may start  *)
(* a transfer, because none is under way.                                  *)
LEMMA DispatherKeeps ==
  ASSUME ResponseOK, is_draining \in [Clients -> BOOLEAN],
         NEW c \in Clients, NEW r \in 0..MaxReqs, NEW route,
         ~is_resp[c], Dispather(c, r, route)
  PROVE  ResponseOK' /\ is_draining' \in [Clients -> BOOLEAN]
<1> USE DEF ResponseOK, ResponseTypeOK, TransferGuarded, HandleBalance, xfer
<1>1. pfn[c] = "http" /\ fds[c] = 0
  OBVIOUS
<1>2. CASE MgHttpReply(c, r)
  BY <1>1, <1>2, TokensTyped DEF MgHttpReply, Put
<1>3. CASE Image(c, r)
  <2>1. PICK tokens \in {<<Header(r)>>, HeaderBody(r)} : Put(c, tokens)
    BY <1>3 DEF Image
  <2>2. tokens \in Seq(OutTokens)
    BY TokensTyped
  <2>3. send' \in [Clients -> Seq(OutTokens)]
    BY <2>1, <2>2 DEF Put
  <2>4. QED
    BY <1>1, <1>3, <2>3 DEF Image
<1>4. CASE Video(c, r)
  BY <1>1, <1>4, TokensTyped DEF Video, Put
<1>5. CASE ServeHead(c, r)
  BY <1>1, <1>5, TokensTyped DEF ServeHead, Put
<1>6. ASSUME NEW n \in 0..MaxPieces, ServeFile(c, r, n)
      PROVE  ResponseOK' /\ is_draining' \in [Clients -> BOOLEAN]
  BY <1>1, <1>6, TokensTyped DEF ServeFile, Put
<1>7. QED
  BY <1>2, <1>3, <1>4, <1>5, <1>6 DEF Dispather, StaticServe

(* restore_http_cb closes the one file static_cb held.                     *)
LEMMA RestoreKeeps ==
  ASSUME ResponseOK, HistTypeOK, NEW c \in Clients, pfn[c] = "static",
         NEW e \in {"poll", "write", "close"}, RestoreHttpCb(c, e),
         send' \in [Clients -> Seq(OutTokens)]
  PROVE  ResponseOK' /\ restoredOn' \in [Clients -> {"none", "poll", "write", "close"}]
<1>1. fds[c] = 1
  BY DEF ResponseOK, HandleBalance
<1>2. /\ fds' = [fds EXCEPT ![c] = 0]
      /\ pfn' = [pfn EXCEPT ![c] = "http"]
      /\ is_resp' = [is_resp EXCEPT ![c] = FALSE]
      /\ left' = left /\ restoredOn' = [restoredOn EXCEPT ![c] = e]
  BY <1>1 DEF RestoreHttpCb
<1>3. ResponseTypeOK'
  BY <1>2 DEF ResponseOK, ResponseTypeOK
<1>4. TransferGuarded'
  BY <1>2 DEF ResponseOK, ResponseTypeOK, TransferGuarded
<1>5. HandleBalance'
  BY <1>2 DEF ResponseOK, ResponseTypeOK, HandleBalance
<1>6. QED
  BY <1>2, <1>3, <1>4, <1>5 DEF ResponseOK, HistTypeOK

(* static_cb sends no more of the file than is left and gives it back at   *)
(* the end.                                                                *)
LEMMA StaticCbKeeps ==
  ASSUME ResponseOK, HistTypeOK, NEW c \in Clients, pfn[c] = "static",
         NEW queue \in Seq(OutTokens), NEW e \in {"poll", "write", "close"},
         StaticCb(c, queue, e)
  PROVE  ResponseOK' /\ restoredOn' \in [Clients -> {"none", "poll", "write", "close"}]
<1> DEFINE n == Pieces(c, SendSize - Len(queue))
<1>1. CASE Len(queue) >= SendSize
  BY <1>1 DEF StaticCb, ResponseOK, ResponseTypeOK, TransferGuarded, HandleBalance, xfer, HistTypeOK
<1>2. CASE ~(Len(queue) >= SendSize)
  <2>1. n \in Nat /\ n <= left[c] /\ handled[c] \in 0..MaxReqs /\ left[c] \in 0..MaxPieces
    BY <1>2, ParamAssumption DEF Pieces, ResponseOK, ResponseTypeOK, HistTypeOK
  <2>2. send' \in [Clients -> Seq(OutTokens)]
    <3> DEFINE added == [i \in 1..n |-> OutToken(handled[c], "piece")]
    <3>1. added \in Seq(OutTokens)
      BY <2>1, TokensTyped
    <3>2. send' = [send EXCEPT ![c] = queue \o added]
      BY <1>2 DEF StaticCb
    <3>3. queue \o added \in Seq(OutTokens)
      BY <3>1
    <3> HIDE DEF added
    <3>4. QED
      BY <3>2, <3>3 DEF ResponseOK, ResponseTypeOK
  <2>3. CASE n = 0
    <3>1. RestoreHttpCb(c, e)
      BY <1>2, <2>3 DEF StaticCb
    <3>2. QED
      BY <2>2, <3>1, RestoreKeeps
  <2>4. CASE n # 0
    <3>1. /\ left' = [left EXCEPT ![c] = left[c] - n]
          /\ UNCHANGED <<is_resp, pfn, fds, restoredOn>>
      BY <1>2, <2>4 DEF StaticCb
    <3>2. left[c] - n \in 0..MaxPieces
      BY <2>1, ParamAssumption
    <3> HIDE DEF n
    <3>3. QED
      BY <2>2, <3>1, <3>2 DEF ResponseOK, ResponseTypeOK, TransferGuarded, HandleBalance, HistTypeOK
  <2>5. QED
    BY <2>3, <2>4
<1>3. QED
  BY <1>1, <1>2

----------------------------------------------------------------------------
(* No client changes anything the server's side of the invariant is about. *)
LEMMA ClientKeeps ==
  ASSUME IInv, NEW c \in Clients, Client(c)
  PROVE  IInv'
<1>1. ClientTypeOK'
  <2> USE DEF IInv, ClientTypeOK
  <2>1. CASE Connect(c)
    BY <2>1 DEF Connect
  <2>2. ASSUME NEW route \in Routes, NEW shape \in Shapes, SendRequest(c, route, shape)
        PROVE  ClientTypeOK'
    <3>1. /\ nreq[c] + 1 \in 0..MaxReqs /\ route \in AllRoutes
          /\ FirstPart[shape] \in {"whole", "start", "head", "bad"}
      BY <2>2, ParamAssumption DEF SendRequest, FirstPart, AllShapes
    <3>2. /\ InToken(nreq[c] + 1, FirstPart[shape], route) \in InTokens
          /\ InToken(nreq[c] + 1, "rest", route) \in InTokens /\ None \in InTokens
      BY <3>1, ParamAssumption DEF InToken, InTokens, None, AllRoutes
    <3>3. nreq' \in [Clients -> 0..MaxReqs] /\ rest' \in [Clients -> InTokens]
      BY <2>2, <3>1, <3>2 DEF SendRequest
    <3>4. net' \in [Clients -> Seq(InTokens)]
      BY <2>2, <3>2, AppendProperties DEF SendRequest
    <3>5. QED
      BY <2>2, <3>3, <3>4 DEF SendRequest
  <2>3. CASE SendRest(c)
    <3>1. None \in InTokens
      BY ParamAssumption DEF None, InTokens, AllRoutes
    <3>2. Append(net[c], rest[c]) \in Seq(InTokens)
      BY AppendProperties
    <3>3. QED
      BY <2>3, <3>1, <3>2 DEF SendRest
  <2>4. CASE Receive(c)
    BY <2>4, ParamAssumption DEF Receive
  <2>5. ASSUME NEW how \in {"fin", "rst"}, Shutdown(c, how)
        PROVE  ClientTypeOK'
    BY <2>5 DEF Shutdown
  <2>6. QED
    BY <2>1, <2>2, <2>3, <2>4, <2>5 DEF Client
<1>2. UNCHANGED server
  BY DEF Client, Connect, SendRequest, SendRest, Receive, Shutdown
<1>3. QED
  BY <1>1, <1>2 DEF IInv, server, flags, xfer, loop, hist, ConnTypeOK, ResponseOK,
     ResponseTypeOK, TransferGuarded, HandleBalance, LoopTypeOK, HistTypeOK, Position, Closing

(* A step of the loop that leaves the responses alone keeps what concerns   *)
(* them.                                                                   *)
LEMMA ResponseFrame ==
  ASSUME ResponseOK, UNCHANGED <<send, is_resp, xfer>>
  PROVE  ResponseOK'
BY DEF ResponseOK, ResponseTypeOK, TransferGuarded, HandleBalance, xfer

(* Every callback and socket call of mg_mgr_poll keeps the invariant.      *)
LEMMA ServerKeeps ==
  ASSUME IInv, Server
  PROVE  IInv'
<1> USE DEF IInv
<1>c. pc \notin {"iotest", "poll"} =>
        cur \in Clients /\ Tail(todo) \in Seq(Clients) /\ Len(Tail(todo)) = Len(todo) - 1
  BY CurTyped
<1>l. Len(conns) \in Nat /\ Len(todo) \in Nat
  BY DEF LoopTypeOK
<1>1. CASE Iotest
  <2>1. ConnTypeOK'
    BY <1>1 DEF Iotest, ConnTypeOK
  <2>2. LoopTypeOK' /\ Position'
    BY <1>1, <1>l DEF Iotest, Goto, LoopTypeOK, Position, Closing
  <2>3. QED
    BY <1>1, <2>1, <2>2, ResponseFrame DEF Iotest, client, ClientTypeOK, hist, HistTypeOK
<1>2. CASE PollEvent
  <2>1. cur \in Clients
    BY <1>2 DEF PollEvent, cur, LoopTypeOK
  <2>2. ResponseOK' /\ restoredOn' \in [Clients -> {"none", "poll", "write", "close"}]
    <3>1. CASE pfn[cur] = "static"
      <4>1. StaticCb(cur, send[cur], "poll")
        BY <1>2, <3>1 DEF PollEvent
      <4>2. send[cur] \in Seq(OutTokens)
        BY <2>1 DEF ResponseOK, ResponseTypeOK
      <4>3. QED
        BY <2>1, <3>1, <4>1, <4>2, StaticCbKeeps
    <3>2. CASE pfn[cur] # "static"
      BY <1>2, <3>2, ResponseFrame DEF PollEvent, HistTypeOK
    <3>3. QED
      BY <3>1, <3>2
  <2>3. LoopTypeOK' /\ Position'
    BY <1>2 DEF PollEvent, Call, Goto, loop, LoopTypeOK, Position, Closing
  <2>4. QED
    BY <1>2, <2>2, <2>3 DEF PollEvent, client, flags, ClientTypeOK, ConnTypeOK, HistTypeOK
<1>3. CASE ReadNothing
  <2>1. LoopTypeOK' /\ Position'
    BY <1>3 DEF ReadNothing, Goto, loop, LoopTypeOK, Position, Closing
  <2>2. QED
    BY <1>3, <2>1, ResponseFrame DEF ReadNothing, client, flags, hist, ClientTypeOK, ConnTypeOK, HistTypeOK
<1>4. CASE ReadData
  <2>1. PICK n \in 1..Len(net[cur]) :
          /\ recv' = [recv EXCEPT ![cur] = @ \o SubSeq(net[cur], 1, n)]
          /\ net' = [net EXCEPT ![cur] = SubSeq(@, n + 1, Len(@))]
    BY <1>4 DEF ReadData
  <2>2. /\ SubSeq(net[cur], 1, n) \in Seq(InTokens)
        /\ SubSeq(net[cur], n + 1, Len(net[cur])) \in Seq(InTokens)
    <3>1. net[cur] \in Seq(InTokens)
      BY <1>4, <1>c DEF ReadData, ClientTypeOK
    <3>2. QED
      BY <3>1, SubSeqTyped
  <2>3. /\ recv' \in [Clients -> Seq(InTokens)]
        /\ net' \in [Clients -> Seq(InTokens)]
    <3> DEFINE got  == SubSeq(net[cur], 1, n)
               kept == SubSeq(net[cur], n + 1, Len(net[cur]))
    <3>1. /\ recv' = [recv EXCEPT ![cur] = recv[cur] \o got]
          /\ net' = [net EXCEPT ![cur] = kept]
          /\ got \in Seq(InTokens) /\ kept \in Seq(InTokens) /\ cur \in Clients
      BY <1>4, <1>c, <2>1, <2>2 DEF ReadData
    <3> HIDE DEF got, kept
    <3>2. recv[cur] \o got \in Seq(InTokens)
      BY <3>1 DEF ConnTypeOK
    <3>3. QED
      BY <3>1, <3>2 DEF ClientTypeOK, ConnTypeOK
  <2>4. LoopTypeOK' /\ Position'
    BY <1>4 DEF ReadData, Call, Goto, loop, LoopTypeOK, Position, Closing
  <2>5. QED
    BY <1>4, <2>3, <2>4, ResponseFrame DEF ReadData, flags, hist, ClientTypeOK, ConnTypeOK, HistTypeOK
<1>5. CASE ReadFails
  <2>1. LoopTypeOK' /\ Position'
    BY <1>5 DEF ReadFails, Goto, loop, LoopTypeOK, Position, Closing
  <2>2. QED
    BY <1>5, <2>1, ResponseFrame DEF ReadFails, client, hist, ClientTypeOK, ConnTypeOK, HistTypeOK
<1>6. CASE Deliver
  <2>1. cur \in Clients /\ ~is_resp[cur] /\ recv[cur] \in Seq(InTokens) /\ recv[cur] # <<>>
    BY <1>6, <1>c DEF Deliver, MayDeliver, HeadersDone, ConnTypeOK
  <2>2. Head(recv[cur]).req \in 0..MaxReqs
    <3>1. Head(recv[cur]) \in InTokens
      BY <2>1
    <3>2. QED
      BY <3>1 DEF InTokens
  <2>3. ResponseOK' /\ is_draining' \in [Clients -> BOOLEAN]
    BY <1>6, <2>1, <2>2, DispatherKeeps DEF Deliver, ConnTypeOK
  <2>4. recv' \in [Clients -> Seq(InTokens)]
    <3>1. Length(recv[cur]) + 1 \in Nat \ {0} /\ Len(recv[cur]) \in Nat
      BY <2>1 DEF Length, MessageLen
    <3>2. SubSeq(recv[cur], Length(recv[cur]) + 1, Len(recv[cur])) \in Seq(InTokens)
      BY <2>1, <3>1
    <3>3. QED
      BY <1>6, <3>2 DEF Deliver, ConnTypeOK
  <2>5. LoopTypeOK' /\ Position'
    BY <1>6 DEF Deliver, loop, LoopTypeOK, Position, Closing
  <2>6. HistTypeOK'
    BY <1>6, <2>2 DEF Deliver, HistTypeOK
  <2>7. QED
    BY <1>6, <2>3, <2>4, <2>5, <2>6 DEF Deliver, client, ClientTypeOK, ConnTypeOK
<1>7. CASE HttpCbReturns
  <2>1. LoopTypeOK' /\ Position'
    BY <1>7 DEF HttpCbReturns, loop, LoopTypeOK, Position, Closing
  <2>2. ConnTypeOK'
    BY <1>7, <1>c DEF HttpCbReturns, ConnTypeOK, Malformed
  <2>3. QED
    BY <1>7, <2>1, <2>2, ResponseFrame DEF HttpCbReturns, client, hist, ClientTypeOK, HistTypeOK
<1>8. CASE WriteNothing
  <2>1. LoopTypeOK' /\ Position'
    BY <1>8 DEF WriteNothing, Goto, loop, LoopTypeOK, Position, Closing
  <2>2. QED
    BY <1>8, <2>1, ResponseFrame DEF WriteNothing, client, flags, hist, ClientTypeOK, ConnTypeOK, HistTypeOK
<1>9. CASE WriteData
  <2>1. PICK n \in 1..Len(send[cur]) :
          /\ unread[cur] + n <= WireSize
          /\ unread' = [unread EXCEPT ![cur] = @ + n]
          /\ sent' = [sent EXCEPT ![cur] = @ \o SubSeq(send[cur], 1, n)]
          /\ OnWrite(cur, SubSeq(send[cur], n + 1, Len(send[cur])))
    BY <1>9 DEF WriteData
  <2>2. cur \in Clients /\ send[cur] \in Seq(OutTokens)
    BY <1>9, <1>c DEF WriteData, ResponseOK, ResponseTypeOK
  <2>3. /\ SubSeq(send[cur], 1, n) \in Seq(OutTokens)
        /\ SubSeq(send[cur], n + 1, Len(send[cur])) \in Seq(OutTokens)
    BY <2>2
  <2>4. ResponseOK' /\ restoredOn' \in [Clients -> {"none", "poll", "write", "close"}]
    <3> DEFINE queue == SubSeq(send[cur], n + 1, Len(send[cur]))
    <3>1. CASE pfn[cur] = "static"
      <4>1. StaticCb(cur, queue, "write")
        BY <2>1, <3>1 DEF OnWrite
      <4> HIDE DEF queue
      <4>2. QED
        BY <2>2, <2>3, <3>1, <4>1, StaticCbKeeps DEF queue
    <3>2. CASE pfn[cur] # "static"
      <4>1. send' = [send EXCEPT ![cur] = queue] /\ UNCHANGED <<is_resp, xfer, restoredOn>>
        BY <2>1, <3>2 DEF OnWrite
      <4>2. queue \in Seq(OutTokens)
        BY <2>3
      <4> HIDE DEF queue
      <4>3. QED
        BY <4>1, <4>2 DEF xfer, ResponseOK, ResponseTypeOK, TransferGuarded, HandleBalance, HistTypeOK
    <3>3. QED
      BY <3>1, <3>2
  <2>5. unread' \in [Clients -> 0..WireSize] /\ sent' \in [Clients -> Seq(OutTokens)]
    BY SMTT(30), <2>1, <2>2, <2>3, ParamAssumption DEF ClientTypeOK, ConnTypeOK
  <2>6. LoopTypeOK' /\ Position'
    BY <1>9 DEF WriteData, Goto, loop, LoopTypeOK, Position, Closing
  <2>7. QED
    BY <1>9, <2>4, <2>5, <2>6 DEF WriteData, flags, ClientTypeOK, ConnTypeOK, HistTypeOK
<1>10. CASE WriteFails
  <2>1. LoopTypeOK' /\ Position'
    BY <1>10 DEF WriteFails, Goto, loop, LoopTypeOK, Position, Closing
  <2>2. QED
    BY <1>10, <2>1, ResponseFrame DEF WriteFails, client, hist, ClientTypeOK, ConnTypeOK, HistTypeOK
<1>11. CASE KeepConn
  <2>1. LoopTypeOK' /\ Position'
    BY <1>11, <1>c, <1>l DEF KeepConn, Goto, LoopTypeOK, Position, Closing
  <2>2. QED
    BY <1>11, <2>1, ResponseFrame DEF KeepConn, client, flags, hist, ClientTypeOK, ConnTypeOK, HistTypeOK
<1>12. CASE CloseConn
  <2>1. cur \in Clients /\ conns \in Seq(Clients) /\ conns # <<>>
    BY <1>12, <1>c DEF CloseConn, LoopTypeOK, Position, Closing
  <2>2. conns' \in Seq(Clients) /\ Len(conns') = Len(conns) - 1
    BY <1>12, <2>1, ListDeleteTyped DEF CloseConn
  <2>3. pc' \in {"free", "http"} /\ (pc' = "http" => ret' = "free") /\ ret' \in {"read", "write", "free"}
    BY <1>12 DEF CloseConn, OnClose, Call, Goto, LoopTypeOK
  <2>4. LoopTypeOK' /\ Position'
    BY <1>12, <1>l, <2>2, <2>3 DEF CloseConn, LoopTypeOK, Position, Closing
  <2>5. ResponseOK' /\ restoredOn' \in [Clients -> {"none", "poll", "write", "close"}]
    <3>1. CASE pfn[cur] = "static"
      BY <1>12, <2>1, <3>1, RestoreKeeps DEF CloseConn, OnClose, ResponseOK, ResponseTypeOK
    <3>2. CASE pfn[cur] # "static"
      BY <1>12, <3>2, ResponseFrame DEF CloseConn, OnClose, HistTypeOK
    <3>3. QED
      BY <3>1, <3>2
  <2>6. QED
    BY <1>12, <2>4, <2>5 DEF CloseConn, client, ClientTypeOK, ConnTypeOK, HistTypeOK
<1>13. CASE FreeConn
  <2>1. LoopTypeOK' /\ Position'
    BY <1>13, <1>c, <1>l DEF FreeConn, Goto, LoopTypeOK, Position, Closing
  <2>2. ConnTypeOK' /\ ResponseOK'
    <3>1. /\ recv' \in [Clients -> Seq(InTokens)]
          /\ send' \in [Clients -> Seq(OutTokens)]
          /\ life' \in [Clients -> {"none", "live", "closing", "freed"}]
      <4>1. <<>> \in Seq(InTokens) /\ <<>> \in Seq(OutTokens)
        OBVIOUS
      <4> DEFINE empty == <<>>
      <4>2. /\ recv' = [recv EXCEPT ![cur] = empty]
            /\ send' = [send EXCEPT ![cur] = empty]
            /\ life' = [life EXCEPT ![cur] = "freed"]
        BY <1>13 DEF FreeConn
      <4>3. empty \in Seq(InTokens) /\ empty \in Seq(OutTokens)
        BY <4>1
      <4> HIDE DEF empty
      <4>4. QED
        BY <4>2, <4>3 DEF ConnTypeOK, ResponseOK, ResponseTypeOK
    <3>2. ConnTypeOK'
      BY <1>13, <3>1 DEF FreeConn, flags, ConnTypeOK
    <3>3. QED
      BY <1>13, <3>1, <3>2 DEF FreeConn, xfer, ResponseOK, ResponseTypeOK, TransferGuarded, HandleBalance
  <2>3. QED
    BY <1>13, <2>1, <2>2 DEF FreeConn, client, hist, ClientTypeOK, HistTypeOK
<1>14. ASSUME NEW c \in Clients, AcceptConn(c) PROVE IInv'
  <2>1. <<c>> \o conns \in Seq(Clients) /\ Len(<<c>> \o conns) = Len(conns) + 1
    BY DEF LoopTypeOK
  <2>2. LoopTypeOK' /\ Position'
    BY <1>14, <1>l, <2>1 DEF AcceptConn, Goto, LoopTypeOK, Position, Closing
  <2>3. QED
    BY <1>14, <2>2, ResponseFrame DEF AcceptConn, client, flags, hist, ClientTypeOK, ConnTypeOK, HistTypeOK
<1>15. CASE NoAccept
  <2>1. LoopTypeOK' /\ Position'
    BY <1>15 DEF NoAccept, Goto, loop, LoopTypeOK, Position, Closing
  <2>2. QED
    BY <1>15, <2>1, ResponseFrame DEF NoAccept, client, flags, hist, ClientTypeOK, ConnTypeOK, HistTypeOK
<1>16. QED
  BY <1>1, <1>2, <1>3, <1>4, <1>5, <1>6, <1>7, <1>8, <1>9, <1>10, <1>11, <1>12, <1>13,
     <1>14, <1>15 DEF Server

(* It speaks of the variables of the specification alone.                  *)
LEMMA StutterKeeps ==
  ASSUME IInv, UNCHANGED vars
  PROVE  IInv'
<1> USE DEF vars, IInv
<1>1. ClientTypeOK' /\ ConnTypeOK'
  BY DEF client, flags, ClientTypeOK, ConnTypeOK
<1>2. LoopTypeOK' /\ Position' /\ HistTypeOK'
  BY DEF loop, hist, LoopTypeOK, Position, Closing, HistTypeOK
<1>3. QED
  BY <1>1, <1>2, ResponseFrame

(* The invariant holds before the first connection.                        *)
LEMMA InitHolds ==
  ASSUME Init
  PROVE  IInv
<1> USE DEF Init
<1>1. ClientTypeOK
  <2>1. None \in InTokens
    BY ParamAssumption DEF None, InTokens, AllRoutes
  <2>2. QED
    BY <2>1, ParamAssumption DEF ClientTypeOK
<1>2. ConnTypeOK
  BY DEF ConnTypeOK
<1>3. ResponseOK
  BY ParamAssumption DEF ResponseOK, ResponseTypeOK, TransferGuarded, HandleBalance
<1>4. LoopTypeOK /\ Position
  <2>1. <<>> \in Seq(Clients) /\ Len(<<>>) = 0
    OBVIOUS
  <2>2. conns = todo /\ todo \in Seq(Clients) /\ Len(todo) = 0
    BY <2>1
  <2>3. pc = "iotest" /\ ret = "read" /\ lsn_readable = FALSE
    OBVIOUS
  <2> HIDE DEF Init
  <2>4. LoopTypeOK
    BY <2>2, <2>3 DEF LoopTypeOK
  <2>5. ~Closing
    BY <2>3 DEF Closing
  <2>6. Position
    <3>1. Len(conns) = 0
      BY <2>2
    <3>2. QED
      BY <2>2, <2>3, <2>5, <3>1 DEF Position
  <2>7. QED
    BY <2>4, <2>6
<1>5. HistTypeOK
  BY ParamAssumption DEF HistTypeOK
<1>6. QED
  BY <1>1, <1>2, <1>3, <1>4, <1>5 DEF IInv

(* The invariant holds in every reachable state of the static server.      *)
THEOREM InvariantHolds == Spec => []IInv
<1>1. Init => IInv
  BY InitHolds
<1>2. IInv /\ [Next]_vars => IInv'
  BY ClientKeeps, ServerKeeps, StutterKeeps DEF Next
<1>3. QED
  BY <1>1, <1>2, PTL DEF Spec

(* The type invariant of the event loop and of every connection.           *)
THEOREM TypeCorrect == Spec => []TypeOK
<1>1. IInv => TypeOK
  BY DEF IInv, TypeOK, ResponseOK
<1>2. QED
  BY <1>1, InvariantHolds, PTL

(* While static_cb sends a file no request is answered on its connection,   *)
(* and a file is open exactly while it does.                                *)
THEOREM TransfersAreOwned == Spec => []TransferOwned
<1>1. IInv => TransferOwned
  BY DEF IInv, ResponseOK, TransferOwned
<1>2. QED
  BY <1>1, InvariantHolds, PTL

----------------------------------------------------------------------------
(* The list of connections, the part of it still to be visited, and what    *)
(* the visit of one leaves behind.                                         *)
Visiting == pc \notin {"iotest", "poll"} /\ ~Closing

(* The list holds the live connections, each once.                         *)
ListOK ==
  /\ \A i, j \in DOMAIN conns : conns[i] = conns[j] => i = j
  /\ \A i \in DOMAIN conns : life[conns[i]] = "live"
  /\ \A c \in Clients : life[c] = "live" => \E i \in DOMAIN conns : conns[i] = c

(* So does what is left of it, but for a connection that is being closed.  *)
VisitOK ==
  /\ \A i, j \in DOMAIN todo : todo[i] = todo[j] => i = j
  /\ \A i \in DOMAIN todo : life[todo[i]] = IF Closing /\ i = 1 THEN "closing" ELSE "live"

(* A closed connection that is given a file got it on MG_EV_CLOSE.         *)
LateOK == \A c \in Clients : life[c] \in {"closing", "freed"} /\ pfn[c] = "static" => late[c]

(* After MG_EV_POLL a transfer has something in the send buffer.           *)
FilledOK == Visiting /\ pfn[cur] = "static" => send[cur] # <<>>

(* Whoever has a request buffered and no response in progress is with       *)
(* http_cb just now, or has had a transfer end on MG_EV_WRITE.             *)
Behind(c) == life[c] = "live" /\ ~is_closing[c] /\ ~is_resp[c] /\ Complete(recv[c])
OfferedOK ==
  /\ \A c \in Clients : Behind(c) => restoredOn[c] = "write" \/ (pc = "http" /\ c = cur)
  /\ \A c \in Clients : life[c] = "none" => recv[c] = <<>>

LoopInv == ListOK /\ VisitOK /\ LateOK /\ FilledOK /\ OfferedOK

(* LIST_DELETE of an element of a list without duplicates leaves the others,*)
(* each once.                                                              *)
LEMMA ListDeleteOthers ==
  ASSUME NEW q \in Seq(Clients), NEW k \in DOMAIN q, \A i, j \in DOMAIN q : q[i] = q[j] => i = j
  PROVE  /\ \A i, j \in DOMAIN ListDelete(q, q[k]) : ListDelete(q, q[k])[i] = ListDelete(q, q[k])[j] => i = j
         /\ \A i \in DOMAIN ListDelete(q, q[k]) :
              \E j \in DOMAIN q : j # k /\ ListDelete(q, q[k])[i] = q[j]
         /\ \A j \in DOMAIN q : j # k => \E i \in DOMAIN ListDelete(q, q[k]) : ListDelete(q, q[k])[i] = q[j]
<1>1. (CHOOSE i \in DOMAIN q : q[i] = q[k]) = k
  OBVIOUS
<1>2. ListDelete(q, q[k]) = [i \in 1..(Len(q) - 1) |-> IF i < k THEN q[i] ELSE q[i + 1]]
  BY <1>1 DEF ListDelete
<1>3. Len(q) \in Nat /\ DOMAIN q = 1..Len(q)
  OBVIOUS
<1>4. \A j \in DOMAIN q : j # k =>
        LET i == IF j < k THEN j ELSE j - 1
        IN i \in 1..(Len(q) - 1) /\ ListDelete(q, q[k])[i] = q[j]
  BY <1>2, <1>3
<1> DEFINE d == ListDelete(q, q[k])
           from(i) == IF i < k THEN i ELSE i + 1
<1>5. \A i \in DOMAIN d : from(i) \in DOMAIN q /\ from(i) # k /\ d[i] = q[from(i)] /\ i \in Int
  BY <1>2, <1>3
<1>6. \A i, j \in Int : from(i) = from(j) => i = j
  BY <1>3
<1>7. DOMAIN d = 1..(Len(q) - 1)
  BY <1>2
<1> HIDE DEF d, from
<1>8. \A i, j \in DOMAIN d : d[i] = d[j] => i = j
  BY <1>5, <1>6
<1>9. \A i \in DOMAIN d : \E j \in DOMAIN q : j # k /\ d[i] = q[j]
  BY <1>5
<1>10. \A j \in DOMAIN q : j # k => \E i \in DOMAIN d : d[i] = q[j]
  BY <1>4, <1>7 DEF d
<1> QED BY <1>8, <1>9, <1>10 DEF d

(* The connection visited is live, or is being closed.                     *)
LEMMA CurLives ==
  ASSUME LoopTypeOK, Position, VisitOK, pc \notin {"iotest", "poll"}
  PROVE  cur \in Clients /\ life[cur] = (IF Closing THEN "closing" ELSE "live") /\ 1 \in DOMAIN todo
BY CurTyped DEF VisitOK, cur, LoopTypeOK, Position

(* Steps that stay with one connection keep the list and the visit.        *)
LEMMA StayKeeps ==
  ASSUME ListOK, VisitOK, UNCHANGED <<conns, todo, life>>, Closing' = Closing
  PROVE  ListOK' /\ VisitOK'
BY DEF ListOK, VisitOK

(* A visit goes on to the next connection, whatever became of the last.    *)
LEMMA NextVisit ==
  ASSUME LoopTypeOK, VisitOK, todo # <<>>, todo' = Tail(todo), ~Closing',
         \A i \in DOMAIN todo : i # 1 => life'[todo[i]] = life[todo[i]]
  PROVE  VisitOK'
<1>1. /\ todo \in Seq(Clients) /\ DOMAIN todo' = 1..(Len(todo) - 1)
      /\ \A i \in DOMAIN todo' : todo'[i] = todo[i + 1] /\ i + 1 \in DOMAIN todo
  BY DEF LoopTypeOK
<1>2. \A i \in DOMAIN todo' : i \in Nat /\ i + 1 # 1
  BY <1>1
<1> QED BY <1>1, <1>2 DEF VisitOK

LEMMA ListKeeps ==
  ASSUME IInv, ListOK, VisitOK, Server
  PROVE  ListOK' /\ VisitOK'
<1> USE DEF IInv
<1>1. CASE Iotest
  BY <1>1 DEF Iotest, Goto, ListOK, VisitOK, Closing
<1>2. CASE PollEvent \/ ReadNothing \/ ReadData \/ ReadFails \/ Deliver \/ HttpCbReturns
             \/ WriteNothing \/ WriteData \/ WriteFails \/ NoAccept
  <2>1. UNCHANGED <<conns, todo, life>>
    BY <1>2 DEF PollEvent, ReadNothing, ReadData, ReadFails, Deliver, HttpCbReturns, WriteNothing, WriteData,
                WriteFails, NoAccept, loop
  <2>2. Closing' = Closing
    BY <1>2 DEF PollEvent, ReadNothing, ReadData, ReadFails, Deliver, HttpCbReturns, WriteNothing, WriteData,
                WriteFails, NoAccept, Goto, Call, Closing, LoopTypeOK
  <2> QED BY <2>1, <2>2, StayKeeps
<1>3. CASE KeepConn
  <2>1. ListOK'
    BY <1>3 DEF KeepConn, ListOK
  <2>2. todo # <<>> /\ ~Closing'
    BY <1>3 DEF KeepConn, Goto, Closing, Position
  <2> QED BY <1>3, <2>1, <2>2, NextVisit DEF KeepConn
<1>4. CASE CloseConn
  <2>1. cur \in Clients /\ life[cur] = "live" /\ 1 \in DOMAIN todo /\ cur = todo[1]
    BY <1>4, CurLives DEF CloseConn, Closing, cur, LoopTypeOK
  <2>2. PICK k \in DOMAIN conns : conns[k] = cur
    BY <2>1 DEF ListOK
  <2>3. life' = [life EXCEPT ![cur] = "closing"] /\ conns' = ListDelete(conns, conns[k]) /\ todo' = todo
    BY <1>4, <2>2 DEF CloseConn
  <2>4. conns \in Seq(Clients) /\ \A i \in DOMAIN conns : conns[i] \in Clients
    BY DEF LoopTypeOK
  <2>5. /\ \A i, j \in DOMAIN conns' : conns'[i] = conns'[j] => i = j
        /\ \A i \in DOMAIN conns' : \E j \in DOMAIN conns : j # k /\ conns'[i] = conns[j]
        /\ \A j \in DOMAIN conns : j # k => \E i \in DOMAIN conns' : conns'[i] = conns[j]
    BY <2>3, <2>4, ListDeleteOthers DEF ListOK
  <2>6. ListOK'
    <3>1. ASSUME NEW i \in DOMAIN conns' PROVE life'[conns'[i]] = "live"
      <4>1. PICK j \in DOMAIN conns : j # k /\ conns'[i] = conns[j]
        BY <2>5
      <4>2. conns[j] # cur /\ conns[j] \in Clients /\ life[conns[j]] = "live"
        BY <2>2, <2>4, <4>1 DEF ListOK
      <4> QED BY <2>3, <4>1, <4>2 DEF ConnTypeOK
    <3>2. ASSUME NEW c \in Clients, life'[c] = "live" PROVE \E i \in DOMAIN conns' : conns'[i] = c
      <4>1. c # cur /\ life[c] = "live"
        BY <2>1, <2>3, <3>2 DEF ConnTypeOK
      <4>2. PICK j \in DOMAIN conns : conns[j] = c
        BY <4>1 DEF ListOK
      <4> QED BY <2>2, <2>5, <4>1, <4>2
    <3> QED BY <2>5, <3>1, <3>2 DEF ListOK
  <2>7. Closing'
    BY <1>4 DEF CloseConn, OnClose, Goto, Call, Closing
  <2>8. ~Closing
    BY <1>4 DEF CloseConn, Closing
  <2>9. VisitOK'
    BY <2>1, <2>3, <2>7, <2>8 DEF VisitOK, ConnTypeOK
  <2> QED BY <2>6, <2>9
<1>5. CASE FreeConn
  <2>1. cur \in Clients /\ life[cur] = "closing" /\ 1 \in DOMAIN todo /\ cur = todo[1] /\ todo # <<>>
    BY <1>5, CurLives DEF FreeConn, Closing, cur, LoopTypeOK, Position
  <2>2. life' = [life EXCEPT ![cur] = "freed"] /\ todo' = Tail(todo) /\ conns' = conns /\ ~Closing'
    BY <1>5 DEF FreeConn, Goto, Closing
  <2>3. ListOK'
    BY <2>1, <2>2 DEF ListOK, ConnTypeOK
  <2>4. \A i \in DOMAIN todo : i # 1 => life'[todo[i]] = life[todo[i]]
    BY <2>1, <2>2 DEF VisitOK, ConnTypeOK
  <2> QED BY <2>1, <2>2, <2>3, <2>4, NextVisit
<1>6. ASSUME NEW c \in Clients, AcceptConn(c)
      PROVE  ListOK' /\ VisitOK'
  <2>1. /\ conns \in Seq(Clients) /\ life[c] = "none"
        /\ life' = [life EXCEPT ![c] = "live"] /\ conns' = <<c>> \o conns
        /\ todo' = <<>>
    BY <1>6 DEF AcceptConn, InBacklog, LoopTypeOK
  <2>2. /\ DOMAIN conns' = 1..(Len(conns) + 1) /\ conns'[1] = c
        /\ \A i \in DOMAIN conns : i + 1 \in DOMAIN conns' /\ conns'[i + 1] = conns[i]
        /\ \A i \in DOMAIN conns' : i # 1 => i - 1 \in DOMAIN conns /\ conns'[i] = conns[i - 1]
        /\ 1 \in DOMAIN conns'
    BY <2>1
  <2>3. \A i \in DOMAIN conns : conns[i] # c /\ conns[i] \in Clients
    BY <2>1 DEF ListOK
  <2>4. \A i, j \in DOMAIN conns' : conns'[i] = conns'[j] => i = j
    BY <2>1, <2>2, <2>3 DEF ListOK
  <2>5. \A i \in DOMAIN conns' : life'[conns'[i]] = "live"
    BY <2>1, <2>2, <2>3 DEF ListOK, ConnTypeOK
  <2>6. ASSUME NEW d \in Clients, life'[d] = "live" PROVE \E i \in DOMAIN conns' : conns'[i] = d
    <3>1. CASE d = c
      BY <2>2, <3>1
    <3>2. CASE d # c
      <4>1. PICK i \in DOMAIN conns : conns[i] = d
        BY <2>1, <2>6, <3>2 DEF ListOK, ConnTypeOK
      <4> QED BY <2>2, <4>1
    <3> QED BY <3>1, <3>2
  <2>7. DOMAIN todo' = {}
    BY <2>1
  <2> QED BY <2>4, <2>5, <2>6, <2>7 DEF ListOK, VisitOK
<1> QED BY <1>1, <1>2, <1>3, <1>4, <1>5, <1>6 DEF Server

(* static_cb touches one connection; what it does not end it fills, and it  *)
(* remembers the event on which it ends.                                   *)
LEMMA StaticCbFills ==
  ASSUME ResponseOK, HistTypeOK, NEW c \in Clients, pfn[c] = "static",
         NEW queue \in Seq(OutTokens), NEW e \in {"poll", "write", "close"},
         StaticCb(c, queue, e)
  PROVE  /\ \A d \in Clients : pfn'[d] = "static" => pfn[d] = "static"
         /\ \A d \in Clients : d # c => is_resp'[d] = is_resp[d] /\ restoredOn'[d] = restoredOn[d]
         /\ pfn'[c] = "static" => send'[c] # <<>>
         /\ ~is_resp'[c] => restoredOn'[c] = e
<1> USE DEF ResponseOK, ResponseTypeOK
<1> DEFINE n == Pieces(c, SendSize - Len(queue))
           added == [i \in 1..n |-> OutToken(handled[c], "piece")]
<1>1. is_resp[c]
  BY DEF TransferGuarded
<1>2. CASE Len(queue) >= SendSize
  <2>1. queue # <<>>
    BY <1>2, ParamAssumption
  <2> QED BY <1>1, <1>2, <2>1 DEF StaticCb, xfer
<1>3. CASE ~(Len(queue) >= SendSize)
  <2>1. n \in Nat /\ handled[c] \in 0..MaxReqs
    BY <1>3, ParamAssumption DEF Pieces, HistTypeOK
  <2>2. added \in Seq(OutTokens) /\ Len(added) = n
    <3> HIDE DEF n
    <3>1. added \in Seq(OutTokens)
      BY <2>1, TokensTyped
    <3>2. Len(added) = n
      BY <2>1
    <3> QED BY <3>1, <3>2
  <2>3. /\ send' = [send EXCEPT ![c] = queue \o added]
        /\ n = 0 => RestoreHttpCb(c, e)
        /\ n # 0 => UNCHANGED <<is_resp, pfn, fds, restoredOn>>
    BY <1>3 DEF StaticCb
  <2> HIDE DEF n, added
  <2>4. CASE n = 0
    BY <2>3, <2>4 DEF RestoreHttpCb, HistTypeOK
  <2>5. CASE n # 0
    <3>1. queue \o added # <<>>
      BY <2>1, <2>2, <2>5
    <3> QED BY <1>1, <2>3, <2>5, <3>1
  <2> QED BY <2>4, <2>5
<1> QED BY <1>2, <1>3

(* A handler puts something into the buffer of its connection, and touches  *)
(* no other.                                                               *)
LEMMA DispatherFills ==
  ASSUME ResponseOK, NEW c \in Clients, NEW r \in 0..MaxReqs, NEW route, Dispather(c, r, route)
  PROVE  /\ send'[c] # <<>>
         /\ \A d \in Clients : d # c => pfn'[d] = pfn[d] /\ is_resp'[d] = is_resp[d]
<1> USE DEF ResponseOK, ResponseTypeOK
<1>1. ASSUME NEW tokens \in {<<Header(r)>>, HeaderBody(r)}, Put(c, tokens) PROVE send'[c] # <<>>
  <2>1. tokens \in Seq(OutTokens) /\ Len(tokens) > 0
    <3>1. tokens \in Seq(OutTokens)
      BY TokensTyped
    <3>2. CASE tokens = <<Header(r)>>
      BY <3>1, <3>2
    <3>3. CASE tokens = HeaderBody(r)
      BY <3>1, <3>3 DEF HeaderBody
    <3> QED BY <3>2, <3>3
  <2>2. send[c] \o tokens # <<>>
    BY <2>1
  <2> QED BY <1>1, <2>2 DEF Put
<1>2. CASE MgHttpReply(c, r)
  BY <1>1, <1>2 DEF MgHttpReply, xfer
<1>3. CASE Image(c, r)
  BY <1>1, <1>3 DEF Image, xfer
<1>4. CASE Video(c, r)
  <2>1. PICK empty \in BOOLEAN :
          /\ Put(c, IF empty THEN <<Header(r)>> ELSE HeaderBody(r))
          /\ is_resp' = [is_resp EXCEPT ![c] = ~empty]
    BY <1>4 DEF Video
  <2>2. send'[c] # <<>>
    BY <1>1, <2>1
  <2> QED BY <1>4, <2>1, <2>2 DEF Video, xfer
<1>5. CASE ServeHead(c, r)
  BY <1>1, <1>5 DEF ServeHead, xfer
<1>6. ASSUME NEW n \in 0..MaxPieces, ServeFile(c, r, n)
      PROVE  send'[c] # <<>> /\ \A d \in Clients : d # c => pfn'[d] = pfn[d] /\ is_resp'[d] = is_resp[d]
  BY <1>1, <1>6 DEF ServeFile
<1> QED BY <1>2, <1>3, <1>4, <1>5, <1>6 DEF Dispather, StaticServe

(* What the two callbacks of a visit do to the responses.                  *)
LEMMA PollFills ==
  ASSUME IInv, PollEvent
  PROVE  /\ cur \in Clients
         /\ \A d \in Clients : pfn'[d] = "static" => pfn[d] = "static"
         /\ \A d \in Clients : d # cur => is_resp'[d] = is_resp[d] /\ restoredOn'[d] = restoredOn[d]
         /\ pfn'[cur] = "static" => send'[cur] # <<>>
         /\ UNCHANGED <<is_resp, restoredOn>> \/ is_resp[cur]
<1>1. cur \in Clients
  BY DEF PollEvent, cur, IInv, LoopTypeOK
<1>2. CASE pfn[cur] = "static"
  <2>1. StaticCb(cur, send[cur], "poll") /\ send[cur] \in Seq(OutTokens) /\ is_resp[cur]
    BY <1>1, <1>2 DEF PollEvent, IInv, ResponseOK, ResponseTypeOK, TransferGuarded
  <2> QED BY <1>1, <1>2, <2>1, StaticCbFills DEF IInv
<1>3. CASE pfn[cur] # "static"
  BY <1>1, <1>3 DEF PollEvent, xfer
<1> QED BY <1>1, <1>2, <1>3

LEMMA WriteFills ==
  ASSUME IInv, WriteData
  PROVE  /\ cur \in Clients
         /\ \A d \in Clients : pfn'[d] = "static" => pfn[d] = "static"
         /\ \A d \in Clients : d # cur => is_resp'[d] = is_resp[d] /\ restoredOn'[d] = restoredOn[d]
         /\ pfn'[cur] = "static" => send'[cur] # <<>>
         /\ UNCHANGED <<is_resp, restoredOn>> \/ (~is_resp'[cur] => restoredOn'[cur] = "write")
<1>1. cur \in Clients
  BY CurTyped DEF WriteData, IInv
<1>2. PICK n \in 1..Len(send[cur]) : OnWrite(cur, SubSeq(send[cur], n + 1, Len(send[cur])))
  BY DEF WriteData
<1> DEFINE queue == SubSeq(send[cur], n + 1, Len(send[cur]))
<1>3. queue \in Seq(OutTokens)
  BY <1>1 DEF IInv, ResponseOK, ResponseTypeOK
<1>4. OnWrite(cur, queue)
  BY <1>2
<1> HIDE DEF queue
<1>5. CASE pfn[cur] = "static"
  BY <1>1, <1>3, <1>4, <1>5, StaticCbFills DEF OnWrite, IInv
<1>6. CASE pfn[cur] # "static"
  BY <1>1, <1>4, <1>6 DEF OnWrite, xfer
<1> QED BY <1>1, <1>5, <1>6

(* Only http_cb hands a request over, at the connection visited.           *)
LEMMA DeliverFills ==
  ASSUME IInv, Deliver
  PROVE  /\ cur \in Clients /\ send'[cur] # <<>>
         /\ \A d \in Clients : d # cur => pfn'[d] = pfn[d] /\ is_resp'[d] = is_resp[d]
<1>1. cur \in Clients /\ recv[cur] \in Seq(InTokens) /\ recv[cur] # <<>>
  BY CurTyped DEF Deliver, MayDeliver, HeadersDone, IInv, ConnTypeOK
<1>2. Head(recv[cur]) \in InTokens
  BY <1>1
<1>3. Head(recv[cur]).req \in 0..MaxReqs
  BY <1>2 DEF InTokens
<1> QED BY <1>1, <1>3, DispatherFills DEF Deliver, IInv

LEMMA LateKeeps ==
  ASSUME IInv, VisitOK, LateOK, Server
  PROVE  LateOK'
<1>1. CASE PollEvent \/ WriteData
  <2>1. UNCHANGED <<life, late>> /\ \A d \in Clients : pfn'[d] = "static" => pfn[d] = "static"
    BY <1>1, PollFills, WriteFills DEF PollEvent, WriteData
  <2> QED BY <2>1 DEF LateOK
<1>2. CASE Deliver
  <2>1. life[cur] = (IF ret = "free" THEN "closing" ELSE "live") /\ cur \in Clients
    BY <1>2, CurLives DEF Deliver, IInv, Closing
  <2>2. life' = life /\ late' = [late EXCEPT ![cur] = (ret = "free")]
    BY <1>2 DEF Deliver
  <2> QED BY <1>2, <2>1, <2>2, DeliverFills DEF LateOK, IInv, HistTypeOK
<1>3. CASE CloseConn
  <2>1. cur \in Clients
    BY <1>3, CurTyped DEF CloseConn, IInv
  <2>2. /\ life' = [life EXCEPT ![cur] = "closing"] /\ late' = late
        /\ pfn' = [pfn EXCEPT ![cur] = "http"]
    BY <1>3, <2>1 DEF CloseConn, OnClose, RestoreHttpCb, xfer, IInv, ResponseOK, ResponseTypeOK
  <2> QED BY <2>1, <2>2 DEF LateOK, IInv, ConnTypeOK, ResponseOK, ResponseTypeOK
<1>4. CASE FreeConn
  <2>1. cur \in Clients /\ life[cur] = "closing"
    BY <1>4, CurLives DEF FreeConn, IInv, Closing
  <2> QED BY <1>4, <2>1 DEF FreeConn, LateOK, xfer, hist, IInv, ConnTypeOK
<1>5. ASSUME NEW c \in Clients, AcceptConn(c) PROVE LateOK'
  BY <1>5 DEF AcceptConn, LateOK, xfer, hist, IInv, ConnTypeOK
<1>6. CASE Iotest \/ ReadNothing \/ ReadData \/ ReadFails \/ HttpCbReturns \/ WriteNothing \/ WriteFails
             \/ KeepConn \/ NoAccept
  BY <1>6 DEF Iotest, ReadNothing, ReadData, ReadFails, HttpCbReturns, WriteNothing, WriteFails, KeepConn,
              NoAccept, xfer, hist, LateOK
<1> QED BY <1>1, <1>2, <1>3, <1>4, <1>5, <1>6 DEF Server

LEMMA FilledKeeps ==
  ASSUME IInv, FilledOK, Server
  PROVE  FilledOK'
<1>1. CASE PollEvent
  BY <1>1, PollFills DEF PollEvent, loop, FilledOK, cur
<1>2. CASE WriteData
  BY <1>2, WriteFills DEF WriteData, loop, FilledOK, cur
<1>3. CASE Deliver
  BY <1>3, DeliverFills DEF Deliver, loop, FilledOK, cur
<1>4. CASE ReadNothing \/ ReadData \/ ReadFails \/ HttpCbReturns \/ WriteNothing \/ WriteFails
  <2>1. Visiting' => Visiting
    BY <1>4 DEF ReadNothing, ReadData, ReadFails, HttpCbReturns, WriteNothing, WriteFails, Goto, Call,
                Visiting, Closing
  <2>2. UNCHANGED <<todo, pfn, send>>
    BY <1>4 DEF ReadNothing, ReadData, ReadFails, HttpCbReturns, WriteNothing, WriteFails, loop, xfer
  <2> QED BY <2>1, <2>2 DEF FilledOK, cur
<1>5. CASE Iotest \/ KeepConn \/ CloseConn \/ FreeConn \/ NoAccept \/ \E c \in Clients : AcceptConn(c)
  BY <1>5 DEF Iotest, KeepConn, CloseConn, OnClose, FreeConn, NoAccept, AcceptConn, Goto, Call, FilledOK,
              Visiting, Closing
<1> QED BY <1>1, <1>2, <1>3, <1>4, <1>5 DEF Server

(* A step that changes neither the response nor the input of a connection   *)
(* leaves it as far behind as it was.                                      *)
LEMMA BehindFrame ==
  ASSUME NEW c \in Clients, life'[c] = life[c], recv'[c] = recv[c],
         is_resp'[c] = is_resp[c], is_closing[c] => is_closing'[c]
  PROVE  Behind(c)' => Behind(c)
BY DEF Behind, Complete, HeadersDone, MessageLen

(* Before its visit, and between its steps, no connection falls behind but  *)
(* on MG_EV_WRITE.                                                         *)
LEMMA OfferedKeeps ==
  ASSUME IInv, VisitOK, OfferedOK, Server
  PROVE  OfferedOK'
<1> USE DEF IInv, ConnTypeOK
<1> DEFINE Caught(c) == Behind(c)' => restoredOn'[c] = "write" \/ (pc' = "http" /\ c = cur')
<1>f. ASSUME NEW c \in Clients, life'[c] = life[c], recv'[c] = recv[c], is_resp'[c] = is_resp[c],
             is_closing[c] => is_closing'[c], restoredOn'[c] = restoredOn[c], pc # "http" \/ c # cur
      PROVE  Caught(c)
  BY <1>f, BehindFrame DEF OfferedOK
<1>n. ASSUME life' = life, recv' = recv, \A c \in Clients : Caught(c) PROVE OfferedOK'
  BY <1>n DEF OfferedOK
<1>1. CASE Iotest
  BY <1>1, <1>f, <1>n DEF Iotest, hist
<1>2. CASE PollEvent
  <2>1. UNCHANGED <<life, recv, is_closing, todo>> /\ pc = "poll" /\ cur' = cur
    BY <1>2 DEF PollEvent, flags, loop, cur
  <2>2. ASSUME NEW c \in Clients PROVE Caught(c)
    <3>1. CASE c # cur \/ UNCHANGED <<is_resp, restoredOn>>
      BY <1>2, <1>f, <2>1, <3>1, PollFills
    <3>2. CASE c = cur /\ is_resp[cur]
      <4>1. CASE is_resp'[cur]
        BY <3>2, <4>1 DEF Behind
      <4>2. CASE ~is_resp'[cur]
        <5>1. OfferAgain(is_resp[cur], is_resp'[cur])
          BY <3>2, <4>2 DEF OfferAgain
        <5>2. pc' = "http"
          BY <1>2, <5>1 DEF PollEvent, Call
        <5> QED BY <2>1, <3>2, <5>2
      <4> QED BY <4>1, <4>2
    <3> QED BY <1>2, <3>1, <3>2, PollFills
  <2> QED BY <1>n, <2>1, <2>2
<1>3. CASE ReadNothing
  BY <1>3, <1>f, <1>n DEF ReadNothing, flags, hist
<1>4. CASE ReadData
  <2>1. cur \in Clients /\ life[cur] = "live"
    BY <1>4, CurLives DEF ReadData, Closing
  <2>2. /\ UNCHANGED <<life, is_resp, is_closing, restoredOn, todo>> /\ pc = "read" /\ cur' = cur
        /\ \A c \in Clients : c # cur => recv'[c] = recv[c]
    BY <1>4 DEF ReadData, flags, hist, loop, cur
  <2>3. ASSUME NEW c \in Clients, c = cur PROVE Caught(c)
    <3>1. CASE pfn[cur] = "http"
      BY <1>4, <2>2, <2>3, <3>1 DEF ReadData, Call
    <3>2. CASE pfn[cur] # "http"
      <4>1. is_resp'[c]
        BY <2>1, <2>2, <2>3, <3>2 DEF ResponseOK, ResponseTypeOK, TransferGuarded
      <4> QED BY <4>1 DEF Behind
    <3> QED BY <3>1, <3>2
  <2>4. \A c \in Clients : Caught(c)
    BY <1>f, <2>2, <2>3
  <2> QED BY <2>1, <2>2, <2>4 DEF OfferedOK
<1>5. CASE ReadFails \/ WriteFails
  <2>1. cur \in Clients
    BY <1>5, CurTyped DEF ReadFails, WriteFails
  <2> QED BY <1>5, <1>f, <1>n, <2>1 DEF ReadFails, WriteFails, hist
<1>6. CASE Deliver
  <2>1. cur \in Clients /\ life[cur] # "none"
    BY <1>6, CurLives DEF Deliver
  <2>2. /\ UNCHANGED <<life, is_closing, todo>> /\ pc' = "http" /\ cur' = cur
        /\ \A c \in Clients : c # cur => recv'[c] = recv[c] /\ restoredOn'[c] = restoredOn[c]
    BY <1>6 DEF Deliver, loop, cur
  <2>3. \A c \in Clients : Caught(c)
    BY <1>6, <1>f, <2>2, DeliverFills
  <2> QED BY <2>1, <2>2, <2>3 DEF OfferedOK
<1>7. CASE HttpCbReturns
  <2>1. cur \in Clients /\ life[cur] = (IF ret = "free" THEN "closing" ELSE "live")
    BY <1>7, CurLives DEF HttpCbReturns, Closing
  <2>2. /\ UNCHANGED <<life, recv, is_resp, restoredOn>>
        /\ \A c \in Clients : is_closing[c] => is_closing'[c]
    BY <1>7, <2>1 DEF HttpCbReturns, hist
  <2>3. ASSUME NEW c \in Clients, c = cur PROVE ~Behind(c)'
    <3>1. CASE ret = "free"
      BY <2>1, <2>2, <2>3, <3>1 DEF Behind
    <3>2. CASE ret # "free"
      BY <1>7, <2>2, <2>3, <3>2 DEF HttpCbReturns, MayDeliver, Length, Behind, Complete, HeadersDone, MessageLen
    <3> QED BY <3>1, <3>2
  <2>4. \A c \in Clients : Caught(c)
    BY <1>f, <2>2, <2>3
  <2> QED BY <1>n, <2>2, <2>4
<1>8. CASE WriteNothing
  BY <1>8, <1>f, <1>n DEF WriteNothing, flags, hist
<1>9. CASE WriteData
  <2>1. UNCHANGED <<life, recv, is_closing>> /\ pc = "write"
    BY <1>9 DEF WriteData, flags
  <2>2. ASSUME NEW c \in Clients PROVE Caught(c)
    <3>1. CASE c # cur \/ UNCHANGED <<is_resp, restoredOn>>
      BY <1>9, <1>f, <2>1, <3>1, WriteFills
    <3>2. CASE c = cur /\ (~is_resp'[cur] => restoredOn'[cur] = "write")
      BY <3>2 DEF Behind
    <3> QED BY <1>9, <3>1, <3>2, WriteFills
  <2> QED BY <1>n, <2>1, <2>2
<1>10. CASE KeepConn
  BY <1>10, <1>f, <1>n DEF KeepConn, flags, hist
<1>11. CASE CloseConn
  <2>1. cur \in Clients /\ life' = [life EXCEPT ![cur] = "closing"] /\ recv' = recv /\ pc = "finish"
    BY <1>11, CurTyped DEF CloseConn
  <2>2. /\ \A c \in Clients : is_closing[c] => is_closing'[c]
        /\ \A c \in Clients : c # cur => is_resp'[c] = is_resp[c] /\ restoredOn'[c] = restoredOn[c]
    BY <1>11, <2>1 DEF CloseConn, OnClose, RestoreHttpCb, xfer, ResponseOK, ResponseTypeOK, HistTypeOK
  <2>3. ASSUME NEW c \in Clients PROVE Caught(c)
    <3>1. CASE c = cur
      BY <2>1, <3>1 DEF Behind
    <3>2. CASE c # cur
      BY <1>f, <2>1, <2>2, <3>2
    <3> QED BY <3>1, <3>2
  <2> QED BY <2>1, <2>3 DEF OfferedOK
<1>12. CASE FreeConn
  <2>1. /\ cur \in Clients /\ life' = [life EXCEPT ![cur] = "freed"] /\ pc = "free"
        /\ \A c \in Clients : c # cur => recv'[c] = recv[c]
    BY <1>12, CurTyped DEF FreeConn
  <2>2. UNCHANGED <<is_resp, is_closing, restoredOn>>
    BY <1>12 DEF FreeConn, flags, hist
  <2>3. ASSUME NEW c \in Clients PROVE Caught(c)
    <3>1. CASE c = cur
      BY <2>1, <3>1 DEF Behind
    <3>2. CASE c # cur
      BY <1>f, <2>1, <2>2, <3>2
    <3> QED BY <3>1, <3>2
  <2> QED BY <2>1, <2>3 DEF OfferedOK
<1>13. ASSUME NEW d \in Clients, AcceptConn(d) PROVE OfferedOK'
  <2>1. /\ life[d] = "none" /\ life' = [life EXCEPT ![d] = "live"] /\ pc = "poll"
        /\ UNCHANGED <<recv, is_resp, is_closing, restoredOn>>
    BY <1>13 DEF AcceptConn, InBacklog, flags, hist
  <2>2. Caught(d)
    BY <2>1 DEF OfferedOK, Behind, Complete, HeadersDone
  <2>3. \A c \in Clients : Caught(c)
    BY <1>f, <2>1, <2>2
  <2> QED BY <2>1, <2>3 DEF OfferedOK
<1>14. CASE NoAccept
  BY <1>14, <1>f, <1>n DEF NoAccept, flags, hist
<1> QED BY <1>1, <1>2, <1>3, <1>4, <1>5, <1>6, <1>7, <1>8, <1>9, <1>10, <1>11, <1>12, <1>13, <1>14
     DEF Server

(* The loop's invariants hold at the start, and no client touches them.    *)
LEMMA LoopInvHolds == Spec => []LoopInv
<1>1. Init => LoopInv
  BY DEF Init, LoopInv, ListOK, VisitOK, LateOK, FilledOK, OfferedOK, Visiting, Behind
<1>2. ASSUME IInv, LoopInv, [Next]_vars PROVE LoopInv'
  <2>1. CASE Server
    BY <1>2, <2>1, ListKeeps, LateKeeps, FilledKeeps, OfferedKeeps DEF LoopInv
  <2>2. CASE (\E c \in Clients : Client(c)) \/ UNCHANGED vars
    <3>1. UNCHANGED server
      BY <2>2 DEF Client, Connect, SendRequest, SendRest, Receive, Shutdown, server, vars
    <3>2. UNCHANGED <<conns, todo, life, pfn, late, pc, ret, send, recv, is_closing, is_resp, restoredOn>>
      BY <3>1 DEF server, flags, xfer, loop, hist
    <3>3. ListOK' /\ VisitOK' /\ LateOK' /\ FilledOK'
      BY <1>2, <3>2 DEF LoopInv, ListOK, VisitOK, LateOK, FilledOK, Visiting, Closing, cur
    <3>4. OfferedOK'
      BY <1>2, <3>2 DEF LoopInv, OfferedOK, Behind, Complete, HeadersDone, MessageLen, cur
    <3> QED BY <3>3, <3>4 DEF LoopInv
  <2> QED BY <1>2, <2>1, <2>2 DEF Next
<1> QED BY <1>1, <1>2, InvariantHolds, PTL DEF Spec

(* A file is left open only by a request handed over on MG_EV_CLOSE.       *)
THEOREM LeaksAreLate == Spec => []LeakOnlyOfLateRequest
<1>1. IInv /\ LoopInv => LeakOnlyOfLateRequest
  BY DEF IInv, ResponseOK, ResponseTypeOK, HandleBalance, LoopInv, LateOK, LeakOnlyOfLateRequest
<1> QED BY <1>1, InvariantHolds, LoopInvHolds, PTL

(* A request that is buffered on a quiet connection between two rounds of   *)
(* the loop lies behind a transfer that ended on MG_EV_WRITE.              *)
THEOREM OnlyTransfersMiss == Spec => []MissedOnlyAfterTransfer
<1>1. LoopInv => MissedOnlyAfterTransfer
  BY DEF LoopInv, OfferedOK, Behind, Missed, MissedOnlyAfterTransfer
<1> QED BY <1>1, LoopInvHolds, PTL

(* A connection that only drains is not closed before its file is sent.    *)
THEOREM TransfersAreWhole == Spec => NoTruncatedTransfer
<1> DEFINE Whole == \A c \in Clients : life[c] = "live" /\ life'[c] = "closing" /\ ~is_closing[c]
                                         => pfn[c] = "http" /\ send[c] = <<>>
<1>1. ASSUME IInv, LoopInv, [Next]_vars PROVE [Whole]_vars
  <2> SUFFICES ASSUME NEW c \in Clients, life[c] = "live", life'[c] = "closing", ~is_closing[c]
               PROVE  pfn[c] = "http" /\ send[c] = <<>>
    OBVIOUS
  <2>1. CloseConn /\ c = cur
    BY <1>1 DEF Next, Server, vars, Iotest, PollEvent, ReadNothing, ReadData, ReadFails, Deliver,
                HttpCbReturns, WriteNothing, WriteData, WriteFails, KeepConn, CloseConn, FreeConn,
                NoAccept, AcceptConn, Client, Connect, SendRequest, SendRest, Receive, Shutdown, server,
                IInv, ConnTypeOK
  <2>2. send[c] = <<>> /\ Visiting
    BY <2>1 DEF CloseConn, Closes, Visiting, Closing
  <2> QED BY <1>1, <2>1, <2>2 DEF LoopInv, FilledOK, IInv, ResponseOK, ResponseTypeOK
<1> QED BY <1>1, InvariantHolds, LoopInvHolds, PTL DEF Spec, NoTruncatedTransfer

(* The connection visited is never one that is freed, and a live one is in  *)
(* the list once, whoever comes and goes while the loop walks it.          *)
THEOREM ListStaysIntact == Spec => []ListIntact
<1>1. ASSUME IInv, ListOK, VisitOK PROVE ListIntact
  <2>1. pc \in {"read", "write", "finish"} => life[cur] = "live"
    BY <1>1, CurLives DEF IInv, Closing
  <2>2. pc = "poll" /\ todo # <<>> => life[cur] = "live"
    BY <1>1 DEF VisitOK, Closing, cur, IInv, LoopTypeOK
  <2>3. ASSUME NEW c \in Clients
        PROVE  Cardinality({i \in DOMAIN conns : conns[i] = c}) = IF life[c] = "live" THEN 1 ELSE 0
    <3>1. CASE life[c] = "live"
      <4>1. PICK i \in DOMAIN conns : conns[i] = c
        BY <1>1, <3>1 DEF ListOK
      <4>2. {j \in DOMAIN conns : conns[j] = c} = {i}
        BY <1>1, <4>1 DEF ListOK
      <4> QED BY <3>1, <4>2, FS_Singleton
    <3>2. CASE life[c] # "live"
      <4>1. {j \in DOMAIN conns : conns[j] = c} = {}
        BY <1>1, <3>2 DEF ListOK
      <4> QED BY <3>2, <4>1, FS_EmptySet
    <3> QED BY <3>1, <3>2
  <2>4. DOMAIN life = Clients
    BY <1>1 DEF IInv, ConnTypeOK
  <2> QED BY <2>1, <2>2, <2>3, <2>4 DEF ListIntact
<1> QED BY <1>1, InvariantHolds, LoopInvHolds, PTL DEF LoopInv

----------------------------------------------------------------------------
(* The order of the requests, and of what is produced for them: what the    *)
(* refinement of HttpExchange rests on.                                    *)
Input(c) == recv[c] \o net[c]
Produced(c) == sent[c] \o send[c]

(* Requests come in order, all after the one handled last and none after    *)
(* the one sent last; only the two parts of one request share its number.  *)
Ordered(q, h, n) ==
  /\ h <= n
  /\ \A i \in DOMAIN q : h < q[i].req /\ q[i].req <= n
  /\ \A i, j \in DOMAIN q : i < j => q[i].req < q[j].req \/ (j = i + 1 /\ q[i].part # "whole")

(* The part t that is still owed completes the last of them.               *)
Owed(q, h, n, t) ==
  t # None => /\ t.req = n /\ h < n
              /\ \A i \in DOMAIN q : q[i].req = n => i = Len(q) /\ q[i].part # "whole"

OrderOK ==
  \A c \in Clients : life[c] \in {"none", "live"} =>
    Ordered(Input(c), handled[c], nreq[c]) /\ Owed(Input(c), handled[c], nreq[c], rest[c])

(* Nothing is produced for a request that was not handled.                 *)
Bounded(s, h) == \A i \in DOMAIN s : s[i].req <= h
ReplyOK ==
  \A c \in Clients :
    /\ life[c] = "none" => sent[c] = <<>> /\ send[c] = <<>> /\ ~is_resp[c]
    /\ life[c] = "live" => Bounded(Produced(c), handled[c]) /\ (is_resp[c] => handled[c] > 0)

(* Concatenation, where the prover needs it said.                          *)
LEMMA ConcatAppend ==
  ASSUME NEW S, NEW s \in Seq(S), NEW t \in Seq(S), NEW e \in S
  PROVE  s \o Append(t, e) = Append(s \o t, e)
<1>1. s \o Append(t, e) \in Seq(S) /\ Append(s \o t, e) \in Seq(S)
  BY ConcatProperties, AppendProperties
<1>2. Len(s \o Append(t, e)) = Len(Append(s \o t, e))
  BY ConcatProperties, AppendProperties
<1>3. \A i \in 1..Len(s \o Append(t, e)) : (s \o Append(t, e))[i] = Append(s \o t, e)[i]
  BY SMTT(30)
<1> QED BY <1>1, <1>2, <1>3, SeqEqual

LEMMA SplitParts ==
  ASSUME NEW S, NEW t \in Seq(S), NEW n \in 1..Len(t)
  PROVE  /\ SubSeq(t, 1, n) \in Seq(S) /\ SubSeq(t, n + 1, Len(t)) \in Seq(S)
         /\ t = SubSeq(t, 1, n) \o SubSeq(t, n + 1, Len(t))
<1>1. Len(t) \in Nat
  BY LenProperties
<1>2. SubSeq(t, 1, n) \o SubSeq(t, n + 1, Len(t)) = SubSeq(t, 1, Len(t))
  BY <1>1, ConcatAdjacentSubSeq
<1>3. SubSeq(t, 1, Len(t)) = t
  BY SubSeqFull
<1>4. SubSeq(t, 1, n) \in Seq(S) /\ SubSeq(t, n + 1, Len(t)) \in Seq(S)
  OBVIOUS
<1> QED BY <1>2, <1>3, <1>4

LEMMA CutConcat ==
  ASSUME NEW s \in Seq(OutTokens), NEW p \in Seq(OutTokens)
  PROVE  /\ SubSeq(s \o p, 1, Len(s)) = s
         /\ SubSeq(s \o p, Len(s) + 1, Len(s \o p)) = p
         /\ Len(s) \in 0..Len(s \o p)
<1>1. s \o p \in Seq(OutTokens) /\ Len(s \o p) = Len(s) + Len(p) /\ Len(s) \in Nat /\ Len(p) \in Nat
  BY ConcatProperties, LenProperties
<1>2. SubSeq(s \o p, 1, Len(s)) = s
  <2>1. SubSeq(s \o p, 1, Len(s)) \in Seq(OutTokens) /\ Len(SubSeq(s \o p, 1, Len(s))) = Len(s)
    BY <1>1
  <2>2. \A i \in 1..Len(s) : SubSeq(s \o p, 1, Len(s))[i] = s[i]
    BY <1>1
  <2> QED BY <2>1, <2>2, SeqEqual
<1>3. SubSeq(s \o p, Len(s) + 1, Len(s \o p)) = p
  <2>1. /\ SubSeq(s \o p, Len(s) + 1, Len(s \o p)) \in Seq(OutTokens)
        /\ Len(SubSeq(s \o p, Len(s) + 1, Len(s \o p))) = Len(p)
    BY <1>1
  <2>2. \A i \in 1..Len(p) : SubSeq(s \o p, Len(s) + 1, Len(s \o p))[i] = p[i]
    BY <1>1
  <2> QED BY <2>1, <2>2, SeqEqual
<1> QED BY <1>1, <1>2, <1>3

LEMMA ReqsAreNumbers ==
  ASSUME NEW q \in Seq(InTokens)
  PROVE  \A i \in DOMAIN q : q[i].req \in Nat
<1> TAKE i \in DOMAIN q
<1>1. q[i] \in InTokens
  OBVIOUS
<1> QED BY <1>1, ParamAssumption DEF InTokens

(* A request, or its owed part, at the end; one taken from the front.      *)
LEMMA AppendOrdered ==
  ASSUME NEW q \in Seq(InTokens), NEW h \in Nat, NEW n \in Nat, NEW t \in InTokens,
         t.req = n + 1, Ordered(q, h, n)
  PROVE  /\ Ordered(Append(q, t), h, n + 1)
         /\ t.part # "whole" => \A i \in DOMAIN Append(q, t) :
              Append(q, t)[i].req = n + 1 => i = Len(Append(q, t)) /\ Append(q, t)[i].part # "whole"
<1> DEFINE a == Append(q, t)
<1>1. /\ DOMAIN a = 1..(Len(q) + 1) /\ a[Len(q) + 1] = t /\ Len(a) = Len(q) + 1 /\ Len(q) \in Nat
      /\ \A i \in 1..Len(q) : a[i] = q[i] /\ i \in DOMAIN q
  OBVIOUS
<1>2. \A i \in DOMAIN q : q[i].req \in Nat
  BY ReqsAreNumbers
<1> HIDE DEF a
<1>3. \A i \in DOMAIN a : i \in 1..Len(q) \/ i = Len(q) + 1
  BY <1>1
<1> QED BY <1>1, <1>2, <1>3 DEF Ordered, a

LEMMA AppendOwed ==
  ASSUME NEW q \in Seq(InTokens), NEW h \in Nat, NEW n \in Nat, NEW t \in InTokens,
         t # None, Ordered(q, h, n), Owed(q, h, n, t)
  PROVE  Ordered(Append(q, t), h, n)
<1> DEFINE a == Append(q, t)
<1>1. /\ DOMAIN a = 1..(Len(q) + 1) /\ a[Len(q) + 1] = t /\ Len(q) \in Nat
      /\ \A i \in 1..Len(q) : a[i] = q[i] /\ i \in DOMAIN q
  OBVIOUS
<1>2. \A i \in DOMAIN q : q[i].req \in Nat
  BY ReqsAreNumbers
<1> HIDE DEF a
<1>3. \A i \in DOMAIN a : i \in 1..Len(q) \/ i = Len(q) + 1
  BY <1>1
<1> QED BY <1>1, <1>2, <1>3 DEF Ordered, Owed, a

LEMMA DropOrdered ==
  ASSUME NEW q \in Seq(InTokens), NEW d \in Seq(InTokens), NEW h \in Nat, NEW n \in Nat, NEW t,
         Ordered(q, h, n), Owed(q, h, n, t),
         NEW k \in {1, 2}, k <= Len(q), q[1].part = "whole" => k = 1, q[1].part # "whole" => k = 2,
         Len(d) = Len(q) - k, \A i \in 1..Len(d) : d[i] = q[i + k]
  PROVE  h < q[1].req /\ Ordered(d, q[1].req, n) /\ Owed(d, q[1].req, n, t)
<1>1. DOMAIN q = 1..Len(q) /\ DOMAIN d = 1..Len(d) /\ Len(q) \in Nat /\ Len(d) \in Nat
  BY LenProperties
<1>2. /\ \A i \in DOMAIN d : i + k \in DOMAIN q /\ d[i] = q[i + k] /\ i \in Nat \ {0}
      /\ 1 \in DOMAIN q
  BY <1>1
<1>3. \A i \in DOMAIN q : q[i].req \in Nat
  BY ReqsAreNumbers
<1>4. h < q[1].req /\ q[1].req <= n
  BY <1>2 DEF Ordered
<1>5. ASSUME NEW i \in DOMAIN d PROVE q[1].req < d[i].req /\ d[i].req <= n
  <2>1. i + k \in DOMAIN q /\ d[i] = q[i + k] /\ 1 < i + k
    BY <1>2
  <2>2. q[1].req < q[i + k].req \/ (i + k = 2 /\ q[1].part # "whole")
    BY <1>2, <2>1 DEF Ordered
  <2>3. ~(i + k = 2 /\ q[1].part # "whole")
    BY <1>2
  <2> QED BY <2>1, <2>2, <2>3 DEF Ordered
<1>6. ASSUME NEW i \in DOMAIN d, NEW j \in DOMAIN d, i < j
      PROVE  d[i].req < d[j].req \/ (j = i + 1 /\ d[i].part # "whole")
  <2>1. i + k \in DOMAIN q /\ j + k \in DOMAIN q /\ i + k < j + k /\ d[i] = q[i + k] /\ d[j] = q[j + k]
    BY <1>2, <1>6
  <2>2. q[i + k].req < q[j + k].req \/ (j + k = (i + k) + 1 /\ q[i + k].part # "whole")
    BY <2>1 DEF Ordered
  <2>3. j + k = (i + k) + 1 => j = i + 1
    BY SMTT(30), <1>2
  <2> QED BY <2>1, <2>2, <2>3
<1>7. ASSUME t # None
      PROVE  /\ t.req = n /\ q[1].req < n
             /\ \A i \in DOMAIN d : d[i].req = n => i = Len(d) /\ d[i].part # "whole"
  <2>1. t.req = n /\ \A i \in DOMAIN q : q[i].req = n => i = Len(q) /\ q[i].part # "whole"
    BY <1>7 DEF Owed
  <2>2. q[1].req # n
    BY <1>1, <1>2, <2>1
  <2>3. q[1].req < n
    BY <1>2, <1>3, <1>4, <2>2
  <2>4. ASSUME NEW i \in DOMAIN d, d[i].req = n PROVE i = Len(d) /\ d[i].part # "whole"
    BY <1>1, <1>2, <2>1, <2>4
  <2> QED BY <2>1, <2>3, <2>4
<1>8. Ordered(d, q[1].req, n)
  BY <1>4, <1>5, <1>6 DEF Ordered
<1>9. Owed(d, q[1].req, n, t)
  BY <1>7 DEF Owed
<1> QED BY <1>4, <1>8, <1>9

LEMMA InputMoves ==
  ASSUME NEW s \in Seq(InTokens), NEW a \in Seq(InTokens), NEW b \in Seq(InTokens)
  PROVE  (s \o a) \o b = s \o (a \o b)
BY ConcatAssociative

LEMMA OutputNests ==
  ASSUME NEW s \in Seq(OutTokens), NEW a \in Seq(OutTokens), NEW b \in Seq(OutTokens)
  PROVE  (s \o a) \o b = s \o (a \o b)
BY ConcatAssociative

(* What the two socket calls move.                                         *)
LEMMA ReadMoves ==
  ASSUME IInv, ReadData
  PROVE  /\ cur \in Clients
         /\ \E a, b \in Seq(InTokens) :
              /\ net[cur] = a \o b
              /\ recv' = [recv EXCEPT ![cur] = recv[cur] \o a]
              /\ net' = [net EXCEPT ![cur] = b]
<1>1. cur \in Clients
  BY CurTyped DEF ReadData, IInv
<1>2. PICK n \in 1..Len(net[cur]) :
        /\ recv' = [recv EXCEPT ![cur] = recv[cur] \o SubSeq(net[cur], 1, n)]
        /\ net' = [net EXCEPT ![cur] = SubSeq(net[cur], n + 1, Len(net[cur]))]
  BY DEF ReadData
<1>3. net[cur] \in Seq(InTokens)
  BY <1>1 DEF IInv, ClientTypeOK
<1> QED BY <1>1, <1>2, <1>3, SplitParts

LEMMA WriteMoves ==
  ASSUME IInv, WriteData
  PROVE  /\ cur \in Clients
         /\ \E a, b \in Seq(OutTokens) :
              /\ send[cur] = a \o b
              /\ sent' = [sent EXCEPT ![cur] = sent[cur] \o a]
              /\ OnWrite(cur, b)
<1>1. cur \in Clients
  BY CurTyped DEF WriteData, IInv
<1>2. PICK n \in 1..Len(send[cur]) :
        /\ sent' = [sent EXCEPT ![cur] = sent[cur] \o SubSeq(send[cur], 1, n)]
        /\ OnWrite(cur, SubSeq(send[cur], n + 1, Len(send[cur])))
  BY DEF WriteData
<1>3. send[cur] \in Seq(OutTokens)
  BY <1>1 DEF IInv, ResponseOK, ResponseTypeOK
<1> QED BY <1>1, <1>2, <1>3, SplitParts

(* A client's requests, and what it owes of the last, stay in order.       *)
LEMMA ClientOrders ==
  ASSUME IInv, OrderOK, NEW c \in Clients, Client(c)
  PROVE  OrderOK'
<1> USE DEF IInv, ClientTypeOK, ConnTypeOK, HistTypeOK
<1>1. UNCHANGED <<recv, life, handled>>
  BY DEF Client, Connect, SendRequest, SendRest, Receive, Shutdown, server, hist
<1>2. /\ recv[c] \in Seq(InTokens) /\ net[c] \in Seq(InTokens) /\ handled[c] \in Nat /\ nreq[c] \in Nat
      /\ Input(c) \in Seq(InTokens)
  BY ConcatProperties, ParamAssumption DEF Input
<1>o. ASSUME NEW d \in Clients, UNCHANGED <<net[d], nreq[d], rest[d]>>, life'[d] \in {"none", "live"}
      PROVE  Ordered(Input(d)', handled'[d], nreq'[d]) /\ Owed(Input(d)', handled'[d], nreq'[d], rest'[d])
  BY <1>1, <1>o DEF OrderOK, Input
<1>3. CASE UNCHANGED <<net, nreq, rest>>
  BY <1>1, <1>3, <1>o DEF OrderOK
<1>4. ASSUME NEW route \in Routes, NEW shape \in Shapes, SendRequest(c, route, shape) PROVE OrderOK'
  <2> DEFINE t == InToken(nreq[c] + 1, FirstPart[shape], route)
  <2>1. /\ nreq[c] + 1 \in 0..MaxReqs /\ route \in AllRoutes
        /\ FirstPart[shape] \in {"whole", "start", "head", "bad"}
        /\ shape \in {"inHeaders", "inBody"} => FirstPart[shape] # "whole"
    BY <1>4, ParamAssumption DEF SendRequest, FirstPart, AllShapes
  <2>2. t \in InTokens /\ t.req = nreq[c] + 1 /\ t.part = FirstPart[shape]
    BY <2>1 DEF InToken, InTokens
  <2>3. /\ net' = [net EXCEPT ![c] = Append(net[c], t)]
        /\ nreq' = [nreq EXCEPT ![c] = nreq[c] + 1]
        /\ rest' = [rest EXCEPT ![c] =
             IF shape \in {"inHeaders", "inBody"} THEN InToken(nreq[c] + 1, "rest", route) ELSE None]
        /\ life[c] \in {"none", "live"}
    BY <1>4 DEF SendRequest, MaySend
  <2> HIDE DEF t
  <2>4. Input(c)' = Append(Input(c), t)
    <3>1. recv[c] \o Append(net[c], t) = Append(recv[c] \o net[c], t)
      BY SMTT(30), <1>2, <2>2, ConcatAppend
    <3> QED BY <1>1, <2>3, <3>1 DEF Input
  <2>5. Ordered(Input(c), handled[c], nreq[c])
    BY <2>3 DEF OrderOK
  <2>6. /\ Ordered(Input(c)', handled[c], nreq[c] + 1)
        /\ t.part # "whole" => \A i \in DOMAIN Input(c)' :
             Input(c)'[i].req = nreq[c] + 1 => i = Len(Input(c)') /\ Input(c)'[i].part # "whole"
    BY SMTT(30), <1>2, <2>2, <2>4, <2>5, AppendOrdered
  <2>7. Owed(Input(c)', handled[c], nreq[c] + 1, rest'[c])
    <3>1. CASE shape \in {"inHeaders", "inBody"}
      <4>1. rest'[c].req = nreq[c] + 1 /\ t.part # "whole"
        BY <2>1, <2>2, <2>3, <3>1 DEF InToken
      <4>2. handled[c] < nreq[c] + 1
        BY <1>2, <2>5 DEF Ordered
      <4> QED BY <2>6, <4>1, <4>2 DEF Owed
    <3>2. CASE shape \notin {"inHeaders", "inBody"}
      BY <2>3, <3>2 DEF Owed
    <3> QED BY <3>1, <3>2
  <2>8. nreq'[c] = nreq[c] + 1 /\ handled' = handled
    BY <1>1, <2>3
  <2>9. \A d \in Clients \ {c} : UNCHANGED <<net[d], nreq[d], rest[d]>>
    BY <2>3
  <2> QED BY <1>o, <2>6, <2>7, <2>8, <2>9 DEF OrderOK
<1>5. CASE SendRest(c)
  <2>1. /\ net' = [net EXCEPT ![c] = Append(net[c], rest[c])]
        /\ nreq' = nreq
        /\ rest' = [rest EXCEPT ![c] = None]
        /\ life[c] \in {"none", "live"} /\ rest[c] # None /\ rest[c] \in InTokens
    BY <1>5 DEF SendRest, MaySend
  <2>2. Input(c)' = Append(Input(c), rest[c])
    <3>1. recv[c] \o Append(net[c], rest[c]) = Append(recv[c] \o net[c], rest[c])
      BY SMTT(30), <1>2, <2>1, ConcatAppend
    <3> QED BY <1>1, <2>1, <3>1 DEF Input
  <2>3. Ordered(Input(c), handled[c], nreq[c]) /\ Owed(Input(c), handled[c], nreq[c], rest[c])
    BY <2>1 DEF OrderOK
  <2>4. Ordered(Input(c)', handled[c], nreq[c])
    BY <1>2, <2>1, <2>2, <2>3, AppendOwed
  <2>5. Owed(Input(c)', handled[c], nreq[c], rest'[c])
    BY <2>1 DEF Owed
  <2>6. \A d \in Clients \ {c} : UNCHANGED <<net[d], nreq[d], rest[d]>>
    BY <2>1
  <2> QED BY <1>1, <1>o, <2>1, <2>4, <2>5, <2>6 DEF OrderOK
<1>6. CASE Connect(c) \/ Receive(c) \/ \E how \in {"fin", "rst"} : Shutdown(c, how)
  BY <1>3, <1>6 DEF Connect, Receive, Shutdown
<1> QED BY <1>4, <1>5, <1>6 DEF Client

(* What is cut off the front of a part is cut off the front of the whole.  *)
LEMMA ConcatDrops ==
  ASSUME NEW S, NEW q \in Seq(S), NEW m \in Seq(S), NEW n \in 2..(Len(q) + 1)
  PROVE  LET s == q \o m
             e == SubSeq(q, n, Len(q)) \o m
         IN /\ s \in Seq(S) /\ e \in Seq(S)
            /\ n <= Len(s) + 1 /\ s[1] = q[1]
            /\ Len(e) = Len(s) - (n - 1)
            /\ \A i \in 1..Len(e) : e[i] = s[i + (n - 1)]
<1> DEFINE d == SubSeq(q, n, Len(q))
           k == n - 1
<1>1. Len(q) \in Nat /\ Len(m) \in Nat
  BY LenProperties
<1>k. k \in 1..Len(q) /\ n = k + 1
  BY <1>1
<1>2. d \in Seq(S) /\ Len(d) = Len(q) - k /\ \A i \in 1..Len(d) : d[i] = q[i + k]
  BY <1>1
<1> HIDE DEF d, k
<1>3. /\ q \o m \in Seq(S) /\ Len(q \o m) = Len(q) + Len(m)
      /\ \A i \in 1..(Len(q) + Len(m)) : (q \o m)[i] = IF i <= Len(q) THEN q[i] ELSE m[i - Len(q)]
  BY ConcatProperties
<1>4. /\ d \o m \in Seq(S) /\ Len(d \o m) = Len(d) + Len(m)
      /\ \A i \in 1..(Len(d) + Len(m)) : (d \o m)[i] = IF i <= Len(d) THEN d[i] ELSE m[i - Len(d)]
  BY <1>2, ConcatProperties
<1>5. (q \o m)[1] = q[1]
  BY <1>1, <1>3
<1>6. ASSUME NEW i \in 1..(Len(d) + Len(m)) PROVE (d \o m)[i] = (q \o m)[i + k]
  <2>1. i + k \in 1..(Len(q) + Len(m)) /\ i - Len(d) = i + k - Len(q) /\ (i <= Len(d) <=> i + k <= Len(q))
    BY <1>1, <1>2, <1>k
  <2>2. i <= Len(d) => d[i] = q[i + k]
    <3>1. i <= Len(d) => i \in 1..Len(d)
      BY <1>1, <1>2, <1>k
    <3> QED BY <1>2, <3>1
  <2>3. (d \o m)[i] = IF i <= Len(d) THEN d[i] ELSE m[i - Len(d)]
    BY <1>4
  <2>4. (q \o m)[i + k] = IF i + k <= Len(q) THEN q[i + k] ELSE m[i + k - Len(q)]
    BY <1>k, <1>3, <2>1
  <2>5. CASE i <= Len(d)
    BY Zenon, <2>1, <2>2, <2>3, <2>4, <2>5
  <2>6. CASE ~(i <= Len(d))
    BY Zenon, <2>1, <2>3, <2>4, <2>6
  <2> QED BY <2>5, <2>6
<1> DEFINE s == q \o m
           e == d \o m
<1>7. Len(s) = Len(q) + Len(m) /\ Len(e) = Len(d) + Len(m) /\ Len(d) = Len(q) - k
  BY <1>2, <1>3, <1>4
<1>8. n <= Len(s) + 1 /\ Len(e) = Len(s) - k
  <2> HIDE DEF s, e
  <2> QED BY <1>1, <1>7, <1>k
<1> QED BY Zenon, <1>3, <1>4, <1>5, <1>6, <1>8 DEF d, k

(* http_cb takes the next request, and all of it, off the front.           *)
LEMMA DropInput ==
  ASSUME NEW q \in Seq(InTokens), NEW m \in Seq(InTokens), NEW h \in Nat, NEW n \in Nat, NEW t,
         q # <<>>, Len(q) >= MessageLen(q), Ordered(q \o m, h, n), Owed(q \o m, h, n, t)
  PROVE  LET r == Head(q).req
             e == SubSeq(q, MessageLen(q) + 1, Len(q)) \o m
         IN h < r /\ Ordered(e, r, n) /\ Owed(e, r, n, t)
<1> DEFINE k == MessageLen(q)
           s == q \o m
           e == SubSeq(q, k + 1, Len(q)) \o m
<1>1. Head(q) = q[1] /\ Len(q) \in Nat
  OBVIOUS
<1>2. /\ k \in {1, 2} /\ k \in 1..Len(q)
      /\ q[1].part = "whole" => k = 1
      /\ q[1].part # "whole" => k = 2
  BY <1>1 DEF MessageLen
<1> HIDE DEF k
<1>3. /\ s \in Seq(InTokens) /\ e \in Seq(InTokens)
      /\ k <= Len(s) /\ s[1] = q[1]
      /\ Len(e) = Len(s) - k
      /\ \A i \in 1..Len(e) : e[i] = s[i + k]
  <2> DEFINE j == k + 1
  <2>1. j \in 2..(Len(q) + 1)
    BY <1>1, <1>2
  <2>2. /\ s \in Seq(InTokens) /\ SubSeq(q, j, Len(q)) \o m \in Seq(InTokens)
        /\ j <= Len(s) + 1 /\ s[1] = q[1]
        /\ Len(SubSeq(q, j, Len(q)) \o m) = Len(s) - (j - 1)
        /\ \A i \in 1..Len(SubSeq(q, j, Len(q)) \o m) : (SubSeq(q, j, Len(q)) \o m)[i] = s[i + (j - 1)]
    <3> HIDE DEF j
    <3> QED BY SMTT(30), <2>1, ConcatDrops
  <2>3. e = SubSeq(q, j, Len(q)) \o m
    OBVIOUS
  <2>4. j - 1 = k
    BY <1>2
  <2>5. Len(s) \in Nat
    BY <2>2, LenProperties
  <2> HIDE DEF j, s, e
  <2>6. k <= Len(s)
    BY <1>2, <2>1, <2>2, <2>4, <2>5
  <2> QED BY Zenon, <2>2, <2>3, <2>4, <2>6
<1>4. Ordered(s, h, n) /\ Owed(s, h, n, t)
  OBVIOUS
<1> HIDE DEF s, e
<1>5. h < s[1].req /\ Ordered(e, s[1].req, n) /\ Owed(e, s[1].req, n, t)
  BY <1>2, <1>3, <1>4, DropOrdered
<1> QED BY <1>1, <1>3, <1>5 DEF s, e, k

LEMMA DeliverOrders ==
  ASSUME IInv, VisitOK, OrderOK, Deliver, ret # "free"
  PROVE  /\ cur \in Clients /\ life[cur] = "live"
         /\ handled[cur] < Head(recv[cur]).req
         /\ Ordered(Input(cur)', handled'[cur], nreq'[cur])
         /\ Owed(Input(cur)', handled'[cur], nreq'[cur], rest'[cur])
<1> USE DEF IInv, ClientTypeOK, ConnTypeOK, HistTypeOK
<1> DEFINE q == recv[cur]
           e == SubSeq(q, MessageLen(q) + 1, Len(q))
<1>1. cur \in Clients /\ life[cur] = "live"
  BY CurLives DEF Deliver, Closing
<1>2. q \in Seq(InTokens) /\ net[cur] \in Seq(InTokens) /\ handled[cur] \in Nat /\ nreq[cur] \in Nat
  BY <1>1, ParamAssumption
<1>3. /\ q # <<>> /\ Len(q) >= MessageLen(q)
      /\ recv' = [recv EXCEPT ![cur] = e] /\ handled' = [handled EXCEPT ![cur] = Head(q).req]
      /\ UNCHANGED <<net, nreq, rest, todo>>
  BY DEF Deliver, MayDeliver, HeadersDone, Length, client, loop
<1>4. cur' = cur
  BY <1>3 DEF cur
<1>5. Input(cur)' = e \o net[cur] /\ handled'[cur] = Head(q).req
  BY <1>1, <1>3, <1>4 DEF Input
<1>6. Ordered(q \o net[cur], handled[cur], nreq[cur]) /\ Owed(q \o net[cur], handled[cur], nreq[cur], rest[cur])
  BY <1>1 DEF OrderOK, Input
<1>7. /\ handled[cur] < Head(q).req
      /\ Ordered(e \o net[cur], Head(q).req, nreq[cur])
      /\ Owed(e \o net[cur], Head(q).req, nreq[cur], rest[cur])
  <2> HIDE DEF q
  <2> QED BY <1>2, <1>3, <1>6, DropInput
<1> QED BY <1>1, <1>3, <1>4, <1>5, <1>7

LEMMA ServerOrders ==
  ASSUME IInv, VisitOK, OrderOK, Server
  PROVE  OrderOK'
<1> USE DEF IInv, ClientTypeOK, ConnTypeOK
<1> DEFINE InOrder(c) == Ordered(Input(c), handled[c], nreq[c]) /\ Owed(Input(c), handled[c], nreq[c], rest[c])
<1>o. ASSUME NEW c \in Clients, Input(c)' = Input(c),
             UNCHANGED <<nreq[c], rest[c], handled[c]>>, life[c] \in {"none", "live"}
      PROVE  InOrder(c)'
  BY <1>o DEF OrderOK
<1>1. CASE ReadData
  <2>1. /\ cur \in Clients
        /\ \E a, b \in Seq(InTokens) :
              /\ net[cur] = a \o b
              /\ recv' = [recv EXCEPT ![cur] = recv[cur] \o a]
              /\ net' = [net EXCEPT ![cur] = b]
    BY <1>1, ReadMoves
  <2>2. PICK a, b \in Seq(InTokens) :
              /\ net[cur] = a \o b
              /\ recv' = [recv EXCEPT ![cur] = recv[cur] \o a]
              /\ net' = [net EXCEPT ![cur] = b]
    BY <2>1
  <2>3. (recv[cur] \o a) \o b = recv[cur] \o (a \o b)
    <3>1. recv[cur] \in Seq(InTokens)
      BY <2>1
    <3> QED BY <3>1, InputMoves
  <2>4. UNCHANGED <<nreq, rest, handled, life>>
    BY <1>1 DEF ReadData, hist
  <2>5. \A c \in Clients : Input(c)' = Input(c)
    BY <2>1, <2>2, <2>3 DEF Input
  <2> QED BY <1>o, <2>4, <2>5 DEF OrderOK
<1>2. CASE Deliver /\ ret # "free"
  <2>1. InOrder(cur)' /\ cur \in Clients /\ cur' = cur
    BY <1>2, DeliverOrders DEF Deliver, loop, cur
  <2>2. /\ UNCHANGED <<net, nreq, rest, life>>
        /\ \A c \in Clients \ {cur} : UNCHANGED <<recv[c], handled[c]>>
    BY <1>2 DEF Deliver, client
  <2>3. \A c \in Clients \ {cur} : Input(c)' = Input(c)
    BY <2>2 DEF Input
  <2> QED BY <1>o, <2>1, <2>2, <2>3 DEF OrderOK
<1>3. CASE Deliver /\ ret = "free"
  <2>1. cur \in Clients /\ life[cur] = "closing"
    BY <1>3, CurLives DEF Deliver, Closing
  <2>2. /\ UNCHANGED <<net, nreq, rest, life>>
        /\ \A c \in Clients \ {cur} : UNCHANGED <<recv[c], handled[c]>>
    BY <1>3 DEF Deliver, client
  <2>3. \A c \in Clients \ {cur} : Input(c)' = Input(c)
    BY <2>2 DEF Input
  <2> QED BY <1>o, <2>1, <2>2, <2>3 DEF OrderOK
<1>4. CASE FreeConn
  <2>1. cur \in Clients /\ life' = [life EXCEPT ![cur] = "freed"] /\ recv' = [recv EXCEPT ![cur] = <<>>]
    BY <1>4, CurTyped DEF FreeConn
  <2>2. UNCHANGED <<net, nreq, rest, handled>>
    BY <1>4 DEF FreeConn, client, hist
  <2>3. \A c \in Clients \ {cur} : Input(c)' = Input(c) /\ life'[c] = life[c]
    BY <2>1, <2>2 DEF Input
  <2> QED BY <1>o, <2>1, <2>2, <2>3 DEF OrderOK
<1>5. CASE CloseConn \/ \E d \in Clients : AcceptConn(d)
  <2>1. UNCHANGED <<recv, net, nreq, rest, handled>>
    BY <1>5 DEF CloseConn, AcceptConn, client, hist
  <2>2. \A c \in Clients : life'[c] \in {"none", "live"} => life[c] \in {"none", "live"}
    <3>1. CASE CloseConn
      <4>1. cur \in Clients
        BY <3>1, CurTyped DEF CloseConn
      <4> QED BY <3>1, <4>1 DEF CloseConn
    <3>2. ASSUME NEW d \in Clients, AcceptConn(d)
          PROVE  \A c \in Clients : life'[c] \in {"none", "live"} => life[c] \in {"none", "live"}
      BY <3>2 DEF AcceptConn, InBacklog
    <3> QED BY <1>5, <3>1, <3>2
  <2> QED BY <1>o, <2>1, <2>2 DEF OrderOK, Input
<1>6. CASE Iotest \/ PollEvent \/ ReadNothing \/ ReadFails \/ HttpCbReturns \/ WriteNothing \/ WriteData
             \/ WriteFails \/ KeepConn \/ NoAccept
  <2>1. UNCHANGED <<recv, net, nreq, rest, handled, life>>
    BY <1>6 DEF Iotest, PollEvent, ReadNothing, ReadFails, HttpCbReturns, WriteNothing, WriteData, WriteFails,
                KeepConn, NoAccept, client, hist
  <2> QED BY <1>o, <2>1 DEF OrderOK, Input
<1> QED BY <1>1, <1>2, <1>3, <1>4, <1>5, <1>6 DEF Server

(* What the handlers and static_cb add to what was produced for the         *)
(* connection visited, and whether it is part of a response that goes on.  *)
Adds(c, p) ==
  /\ p \in Seq(OutTokens)
  /\ Produced(c)' = Produced(c) \o p
  /\ \A d \in Clients \ {c} : UNCHANGED <<sent[d], send[d], is_resp[d], handled[d]>>

(* A handler produces a whole response or the start of one.                *)
Answered(c, r, p) ==
  /\ send' = [send EXCEPT ![c] = send[c] \o p]
  /\ p # <<>>
  /\ \A i \in DOMAIN p : p[i].req = r /\ (p[i].part = "header" <=> i = 1)

LEMMA DispatherAdds ==
  ASSUME ResponseOK, NEW c \in Clients, NEW r \in 0..MaxReqs, NEW route, Dispather(c, r, route)
  PROVE  \E p \in Seq(OutTokens) : Answered(c, r, p)
<1> USE DEF ResponseOK, ResponseTypeOK
<1>1. ASSUME NEW p \in {<<Header(r)>>, HeaderBody(r)}
      PROVE  /\ p \in Seq(OutTokens) /\ p # <<>>
             /\ \A i \in DOMAIN p : p[i].req = r /\ (p[i].part = "header" <=> i = 1)
  <2>1. p \in Seq(OutTokens)
    BY TokensTyped
  <2>2. CASE p = <<Header(r)>>
    BY <2>1, <2>2 DEF Header, OutToken
  <2>3. CASE p = HeaderBody(r)
    BY <2>1, <2>3 DEF HeaderBody, Header, OutToken
  <2> QED BY <2>2, <2>3
<1>2. \E p \in {<<Header(r)>>, HeaderBody(r)} : Put(c, p)
  BY DEF Dispather, StaticServe, MgHttpReply, Image, Video, ServeHead, ServeFile
<1> QED BY <1>1, <1>2 DEF Put, Answered

(* static_cb adds pieces of the file, if anything.                         *)
Pieced(c, queue, p) ==
  /\ send' = [send EXCEPT ![c] = queue \o p]
  /\ \A i \in DOMAIN p : p[i].req = handled[c] /\ p[i].part = "piece"

LEMMA StaticCbAdds ==
  ASSUME ResponseOK, HistTypeOK, NEW c \in Clients, NEW queue \in Seq(OutTokens), NEW e,
         StaticCb(c, queue, e)
  PROVE  \E p \in Seq(OutTokens) : Pieced(c, queue, p)
<1>1. CASE Len(queue) >= SendSize
  <2>1. queue \o <<>> = queue /\ <<>> \in Seq(OutTokens)
    BY ConcatEmptySeq, EmptySeq
  <2> DEFINE p == <<>>
  <2>2. send' = [send EXCEPT ![c] = queue \o p]
    BY <1>1, <2>1 DEF StaticCb
  <2>3. p \in Seq(OutTokens) /\ \A i \in DOMAIN p : p[i].req = handled[c] /\ p[i].part = "piece"
    BY <2>1
  <2> HIDE DEF p
  <2> QED BY <2>2, <2>3 DEF Pieced
<1>2. CASE ~(Len(queue) >= SendSize)
  <2> DEFINE n == Pieces(c, SendSize - Len(queue))
             p == [i \in 1..n |-> OutToken(handled[c], "piece")]
  <2>1. n \in Nat /\ handled[c] \in 0..MaxReqs
    BY <1>2, ParamAssumption DEF Pieces, ResponseOK, ResponseTypeOK, HistTypeOK
  <2>2. p \in Seq(OutTokens)
    BY <2>1, TokensTyped
  <2>3. send' = [send EXCEPT ![c] = queue \o p]
    BY <1>2 DEF StaticCb
  <2>4. \A i \in DOMAIN p : p[i].req = handled[c] /\ p[i].part = "piece"
    BY DEF OutToken
  <2> HIDE DEF p
  <2> QED BY <2>2, <2>3, <2>4 DEF Pieced
<1> QED BY <1>1, <1>2

(* On MG_EV_POLL and MG_EV_WRITE a response may only go on.                *)
Goes(c, p) ==
  /\ handled'[c] = handled[c] /\ life'[c] = life[c]
  /\ \A i \in DOMAIN p : p[i].req = handled[c] /\ p[i].part # "header"
  /\ ~is_resp[c] => p = <<>> /\ ~is_resp'[c]

LEMMA PollGoes ==
  ASSUME IInv, PollEvent
  PROVE  cur \in Clients /\ \E p \in Seq(OutTokens) : Adds(cur, p) /\ Goes(cur, p)
<1> USE DEF IInv
<1>1. cur \in Clients /\ UNCHANGED <<sent, handled, life>>
  BY PollFills DEF PollEvent
<1>2. /\ sent[cur] \in Seq(OutTokens) /\ send[cur] \in Seq(OutTokens)
      /\ Produced(cur) \in Seq(OutTokens)
  BY <1>1, ConcatProperties DEF Produced, ConnTypeOK, ResponseOK, ResponseTypeOK
<1>3. CASE pfn[cur] = "static"
  <2>1. StaticCb(cur, send[cur], "poll") /\ is_resp[cur]
    BY <1>1, <1>3 DEF PollEvent, TransferGuarded, ResponseOK
  <2>2. PICK p \in Seq(OutTokens) :
          /\ send' = [send EXCEPT ![cur] = send[cur] \o p]
          /\ \A i \in DOMAIN p : p[i].req = handled[cur] /\ p[i].part = "piece"
    <3>1. \E p \in Seq(OutTokens) : Pieced(cur, send[cur], p)
      BY <1>1, <1>2, <2>1, StaticCbAdds
    <3> QED BY <3>1 DEF Pieced
  <2>3. sent[cur] \o (send[cur] \o p) = (sent[cur] \o send[cur]) \o p
    <3> DEFINE x == sent[cur]
               y == send[cur]
    <3>1. x \in Seq(OutTokens) /\ y \in Seq(OutTokens)
      BY <1>2
    <3> HIDE DEF x, y
    <3>2. x \o (y \o p) = (x \o y) \o p
      BY <3>1, OutputNests
    <3> QED BY <3>2 DEF x, y
  <2>4. Produced(cur)' = Produced(cur) \o p
    BY <1>1, <2>2, <2>3 DEF PollEvent, loop, cur, Produced, ConnTypeOK, ResponseOK, ResponseTypeOK
  <2>5. \A d \in Clients \ {cur} : UNCHANGED <<sent[d], send[d], is_resp[d], handled[d]>>
    BY <1>1, <2>2, PollFills DEF ConnTypeOK, ResponseOK, ResponseTypeOK
  <2> QED BY <1>1, <2>1, <2>2, <2>4, <2>5 DEF Adds, Goes
<1>4. CASE pfn[cur] # "static"
  <2>1. UNCHANGED <<send, is_resp>>
    BY <1>4 DEF PollEvent
  <2>2. Produced(cur)' = Produced(cur) \o <<>> /\ <<>> \in Seq(OutTokens)
    BY <1>1, <1>2, <2>1, ConcatEmptySeq, EmptySeq DEF PollEvent, loop, cur, Produced, ConnTypeOK, ResponseOK, ResponseTypeOK
  <2>3. \A i \in DOMAIN <<>> : FALSE
    OBVIOUS
  <2> DEFINE p == <<>>
  <2>4. Adds(cur, p) /\ Goes(cur, p) /\ p \in Seq(OutTokens)
    BY <1>1, <2>1, <2>2, <2>3 DEF Adds, Goes
  <2> HIDE DEF p
  <2> QED BY <1>1, <2>4
<1> QED BY <1>3, <1>4

LEMMA WriteGoes ==
  ASSUME IInv, WriteData
  PROVE  cur \in Clients /\ \E p \in Seq(OutTokens) : Adds(cur, p) /\ Goes(cur, p)
<1> USE DEF IInv
<1>1. cur \in Clients /\ UNCHANGED <<handled, life, todo>> /\ cur' = cur
  BY WriteFills DEF WriteData, loop, cur
<1>2. PICK a, b \in Seq(OutTokens) :
        /\ send[cur] = a \o b
        /\ sent' = [sent EXCEPT ![cur] = sent[cur] \o a]
        /\ OnWrite(cur, b)
  BY WriteMoves
<1>3. sent[cur] \in Seq(OutTokens)
  BY <1>1 DEF ConnTypeOK
<1>4. CASE pfn[cur] = "static"
  <2>1. StaticCb(cur, b, "write") /\ is_resp[cur]
    BY <1>1, <1>2, <1>4 DEF OnWrite, TransferGuarded, ResponseOK
  <2>2. PICK p \in Seq(OutTokens) :
          /\ send' = [send EXCEPT ![cur] = b \o p]
          /\ \A i \in DOMAIN p : p[i].req = handled[cur] /\ p[i].part = "piece"
    <3>1. \E p \in Seq(OutTokens) : Pieced(cur, b, p)
      BY <1>1, <1>2, <2>1, StaticCbAdds
    <3> QED BY <3>1 DEF Pieced
  <2>3. (sent[cur] \o a) \o (b \o p) = (sent[cur] \o (a \o b)) \o p
    <3> DEFINE x == sent[cur] \o a
    <3>1. x \in Seq(OutTokens)
      BY <1>3, ConcatProperties
    <3>2. x \o b = sent[cur] \o (a \o b)
      BY <1>3, OutputNests
    <3> HIDE DEF x
    <3>3. x \o (b \o p) = (x \o b) \o p
      BY <3>1, OutputNests
    <3> QED BY <3>2, <3>3 DEF x
  <2>4. Produced(cur)' = Produced(cur) \o p
    BY <1>1, <1>2, <2>2, <2>3 DEF Produced, ConnTypeOK, ResponseOK, ResponseTypeOK
  <2>5. \A d \in Clients \ {cur} : UNCHANGED <<sent[d], send[d], is_resp[d], handled[d]>>
    BY <1>1, <1>2, <2>2, WriteFills DEF ConnTypeOK, ResponseOK, ResponseTypeOK
  <2> QED BY <1>1, <2>1, <2>2, <2>4, <2>5 DEF Adds, Goes
<1>5. CASE pfn[cur] # "static"
  <2>1. send' = [send EXCEPT ![cur] = b] /\ is_resp' = is_resp
    BY <1>2, <1>5 DEF OnWrite
  <2>2. (sent[cur] \o a) \o b = sent[cur] \o (a \o b)
    BY <1>3, OutputNests
  <2>3. Produced(cur)' = Produced(cur)
    BY <1>1, <1>2, <2>1, <2>2 DEF Produced, ConnTypeOK, ResponseOK, ResponseTypeOK
  <2>4. Produced(cur) \in Seq(OutTokens)
    BY <1>1, ConcatProperties DEF Produced, ConnTypeOK, ResponseOK, ResponseTypeOK
  <2>5. Produced(cur)' = Produced(cur) \o <<>> /\ <<>> \in Seq(OutTokens)
    BY <2>3, <2>4, ConcatEmptySeq, EmptySeq
  <2>6. \A i \in DOMAIN <<>> : FALSE
    OBVIOUS
  <2> DEFINE p == <<>>
  <2>7. Adds(cur, p) /\ Goes(cur, p) /\ p \in Seq(OutTokens)
    BY <1>1, <1>2, <2>1, <2>5, <2>6 DEF Adds, Goes, ConnTypeOK, ResponseOK, ResponseTypeOK
  <2> HIDE DEF p
  <2> QED BY <1>1, <2>7
<1> QED BY <1>4, <1>5

(* A request that is handed over to a live connection begins a response.   *)
Begins(c, p) ==
  /\ ~is_resp[c] /\ life[c] = "live" /\ life'[c] = life[c]
  /\ handled[c] < handled'[c] /\ p # <<>>
  /\ \A i \in DOMAIN p : p[i].req = handled'[c] /\ (p[i].part = "header" <=> i = 1)

LEMMA DeliverBegins ==
  ASSUME IInv, VisitOK, OrderOK, Deliver, ret # "free"
  PROVE  cur \in Clients /\ \E p \in Seq(OutTokens) : Adds(cur, p) /\ Begins(cur, p)
<1> USE DEF IInv
<1> DEFINE r == Head(recv[cur]).req
<1>1. /\ cur \in Clients /\ life[cur] = "live" /\ handled[cur] < r
      /\ UNCHANGED <<sent, life, todo>> /\ cur' = cur
  BY DeliverOrders DEF Deliver, loop, cur
<1>2. handled' = [handled EXCEPT ![cur] = r] /\ ~is_resp[cur] /\ Dispather(cur, r, Head(recv[cur]).route)
  BY DEF Deliver, MayDeliver
<1>3. r \in 0..MaxReqs
  <2>1. recv[cur] \in Seq(InTokens) /\ recv[cur] # <<>>
    BY <1>1 DEF Deliver, MayDeliver, HeadersDone, ConnTypeOK
  <2>2. Head(recv[cur]) \in InTokens
    BY <2>1
  <2> QED BY <2>2 DEF InTokens
<1> HIDE DEF r
<1>4. PICK p \in Seq(OutTokens) : Answered(cur, r, p)
  BY <1>1, <1>2, <1>3, DispatherAdds
<1>5. sent[cur] \in Seq(OutTokens) /\ send[cur] \in Seq(OutTokens)
  BY <1>1 DEF ConnTypeOK, ResponseOK, ResponseTypeOK
<1>6. sent[cur] \o (send[cur] \o p) = (sent[cur] \o send[cur]) \o p
  BY <1>5, OutputNests
<1>7. Produced(cur)' = Produced(cur) \o p
  BY <1>1, <1>4, <1>6 DEF Answered, Produced, ConnTypeOK, ResponseOK, ResponseTypeOK
<1>8. \A d \in Clients \ {cur} : UNCHANGED <<sent[d], send[d], is_resp[d], handled[d]>>
  BY <1>1, <1>2, <1>4, DeliverFills DEF Answered, HistTypeOK, ConnTypeOK, ResponseOK, ResponseTypeOK
<1>9. handled'[cur] = r
  BY <1>1, <1>2 DEF HistTypeOK
<1>10. Adds(cur, p)
  BY <1>7, <1>8 DEF Adds
<1>11. p # <<>> /\ \A i \in DOMAIN p : p[i].req = handled'[cur] /\ (p[i].part = "header" <=> i = 1)
  BY <1>4, <1>9 DEF Answered
<1>12. Begins(cur, p)
  BY <1>1, <1>2, <1>9, <1>11 DEF Begins
<1> QED BY <1>1, <1>10, <1>12

(* What a step can do to what is produced for a connection: nothing, or    *)
(* open it, or go on with a response, or begin one, or close it, or end    *)
(* what is already closed.                                                 *)
Still(c) == UNCHANGED <<life[c], sent[c], send[c], is_resp[c], handled[c]>>
Opens(c) ==
  life[c] = "none" /\ life'[c] = "live" /\ UNCHANGED <<sent[c], send[c], is_resp[c], handled[c]>>
GoesOn(c) == life[c] = "live" /\ \E p \in Seq(OutTokens) : Adds(c, p) /\ Goes(c, p)
Answers(c) == \E p \in Seq(OutTokens) : Adds(c, p) /\ Begins(c, p)
Shuts(c) == life[c] = "live" /\ life'[c] = "closing" /\ sent'[c] = sent[c]
Ends(c) == life[c] = "closing" /\ life'[c] \in {"closing", "freed"} /\ sent'[c] = sent[c]

LEMMA StepKinds ==
  ASSUME IInv, VisitOK, OrderOK, [Next]_vars
  PROVE  \/ \A d \in Clients : Still(d)
         \/ \E c \in Clients :
              /\ \A d \in Clients \ {c} : Still(d)
              /\ Opens(c) \/ GoesOn(c) \/ Answers(c) \/ Shuts(c) \/ Ends(c)
<1> USE DEF IInv
<1> DEFINE Moves(c) == /\ \A d \in Clients \ {c} : Still(d)
                       /\ Opens(c) \/ GoesOn(c) \/ Answers(c) \/ Shuts(c) \/ Ends(c)
<1>1. CASE UNCHANGED vars \/ \E c \in Clients : Client(c)
  <2>1. UNCHANGED <<life, sent, send, is_resp, handled>>
    BY <1>1 DEF vars, Client, Connect, SendRequest, SendRest, Receive, Shutdown, server, hist
  <2> QED BY <2>1 DEF Still
<1>2. CASE Iotest \/ ReadNothing \/ ReadData \/ ReadFails \/ HttpCbReturns \/ WriteNothing \/ WriteFails
             \/ KeepConn \/ NoAccept
  <2>1. UNCHANGED <<life, sent, send, is_resp, handled>>
    BY <1>2 DEF Iotest, ReadNothing, ReadData, ReadFails, HttpCbReturns, WriteNothing, WriteFails, KeepConn,
                NoAccept, hist
  <2> QED BY <2>1 DEF Still
<1>3. CASE PollEvent
  <2>1. PICK p \in Seq(OutTokens) : Adds(cur, p) /\ Goes(cur, p)
    BY <1>3, PollGoes
  <2>2. cur \in Clients /\ life[cur] = "live" /\ life' = life
    BY <1>3, PollFills DEF PollEvent, VisitOK, cur, Closing, LoopTypeOK
  <2>3. Moves(cur)
    BY <2>1, <2>2 DEF Adds, Still, GoesOn
  <2> QED BY <2>2, <2>3
<1>4. CASE WriteData
  <2>1. PICK p \in Seq(OutTokens) : Adds(cur, p) /\ Goes(cur, p)
    BY <1>4, WriteGoes
  <2>2. cur \in Clients /\ life[cur] = "live" /\ life' = life
    BY <1>4, CurLives DEF WriteData, Closing
  <2>3. Moves(cur)
    BY <2>1, <2>2 DEF Adds, Still, GoesOn
  <2> QED BY <2>2, <2>3
<1>5. CASE Deliver /\ ret # "free"
  <2>1. PICK p \in Seq(OutTokens) : Adds(cur, p) /\ Begins(cur, p)
    BY <1>5, DeliverBegins
  <2>2. cur \in Clients /\ life' = life
    BY <1>5, DeliverBegins DEF Deliver
  <2>3. Moves(cur)
    BY <2>1, <2>2 DEF Adds, Still, Answers
  <2> QED BY <2>2, <2>3
<1>6. CASE Deliver /\ ret = "free"
  <2>1. cur \in Clients /\ life[cur] = "closing"
    BY <1>6, CurLives DEF Deliver, Closing
  <2>2. UNCHANGED <<life, sent>> /\ \A d \in Clients \ {cur} : UNCHANGED <<is_resp[d], handled[d]>>
    BY SMTT(30), <1>6, DeliverFills DEF Deliver
  <2>3. \A d \in Clients \ {cur} : send'[d] = send[d]
    BY <1>6, <2>1 DEF Deliver, Dispather, StaticServe, MgHttpReply, Image, Video, ServeHead, ServeFile, Put,
                      ResponseOK, ResponseTypeOK
  <2>4. Moves(cur)
    BY <2>1, <2>2, <2>3 DEF Still, Ends
  <2> QED BY <2>1, <2>4
<1>7. CASE CloseConn
  <2>1. cur \in Clients /\ life[cur] = "live"
    BY <1>7, CurLives DEF CloseConn, Closing
  <2>2. /\ life' = [life EXCEPT ![cur] = "closing"] /\ UNCHANGED <<sent, send, handled>>
        /\ \A d \in Clients \ {cur} : is_resp'[d] = is_resp[d]
    BY <1>7, <2>1 DEF CloseConn, OnClose, RestoreHttpCb, ResponseOK, ResponseTypeOK
  <2>3. Moves(cur)
    BY <2>1, <2>2 DEF Still, Shuts, ConnTypeOK
  <2> QED BY <2>1, <2>3
<1>8. CASE FreeConn
  <2>1. cur \in Clients /\ life[cur] = "closing"
    BY <1>8, CurLives DEF FreeConn, Closing
  <2>2. /\ life' = [life EXCEPT ![cur] = "freed"] /\ UNCHANGED <<sent, is_resp, handled>>
        /\ send' = [send EXCEPT ![cur] = <<>>]
    BY <1>8 DEF FreeConn, hist
  <2>3. Moves(cur)
    BY <2>1, <2>2 DEF Still, Ends, ConnTypeOK, ResponseOK, ResponseTypeOK
  <2> QED BY <2>1, <2>3
<1>9. ASSUME NEW c \in Clients, AcceptConn(c) PROVE Moves(c)
  BY <1>9 DEF AcceptConn, InBacklog, hist, Still, Opens, ConnTypeOK
<1> QED BY <1>1, <1>2, <1>3, <1>4, <1>5, <1>6, <1>7, <1>8, <1>9 DEF Next, Server

LEMMA BoundedGrows ==
  ASSUME NEW s \in Seq(OutTokens), NEW p \in Seq(OutTokens), NEW h \in Nat, NEW h1 \in Nat, h <= h1,
         Bounded(s, h), \A i \in DOMAIN p : p[i].req = h1
  PROVE  Bounded(s \o p, h1)
<1>1. /\ Len(s) \in Nat /\ Len(p) \in Nat /\ DOMAIN s = 1..Len(s) /\ DOMAIN p = 1..Len(p)
      /\ DOMAIN (s \o p) = 1..(Len(s) + Len(p))
  BY ConcatProperties, LenProperties
<1>2. ASSUME NEW i \in DOMAIN (s \o p) PROVE (s \o p)[i].req <= h1
  <2>1. CASE i <= Len(s)
    <3>1. i \in DOMAIN s /\ (s \o p)[i] = s[i]
      BY <1>1, <2>1
    <3>2. s[i] \in OutTokens /\ s[i].req <= h
      BY <1>1, <3>1 DEF Bounded
    <3>3. s[i].req \in Nat
      BY <3>2, ParamAssumption DEF OutTokens
    <3> QED BY <3>1, <3>2, <3>3
  <2>2. CASE ~(i <= Len(s))
    <3>1. i - Len(s) \in DOMAIN p /\ (s \o p)[i] = p[i - Len(s)]
      BY <1>1, <2>2
    <3> QED BY <3>1
  <2> QED BY <2>1, <2>2
<1> QED BY <1>2 DEF Bounded

(* Nothing is produced ahead of the request it answers.                    *)
LEMMA RepliesKeep ==
  ASSUME IInv, VisitOK, OrderOK, ReplyOK, [Next]_vars
  PROVE  ReplyOK'
<1> DEFINE Reply(c) ==
      /\ life[c] = "none" => sent[c] = <<>> /\ send[c] = <<>> /\ ~is_resp[c]
      /\ life[c] = "live" => Bounded(Produced(c), handled[c]) /\ (is_resp[c] => handled[c] > 0)
<1>t. \A c \in Clients : handled[c] \in Nat /\ handled'[c] \in Nat /\ Produced(c) \in Seq(OutTokens)
  <2>1. IInv'
    BY ClientKeeps, ServerKeeps, StutterKeeps DEF Next
  <2> QED BY <2>1, ConcatProperties, ParamAssumption
          DEF IInv, HistTypeOK, ConnTypeOK, ResponseOK, ResponseTypeOK, Produced
<1>1. ASSUME NEW c \in Clients, Still(c) PROVE Reply(c)'
  BY <1>1 DEF Still, ReplyOK, Produced
<1>2. ASSUME NEW c \in Clients, Opens(c) PROVE Reply(c)'
  <2>1. sent[c] = <<>> /\ send[c] = <<>> /\ ~is_resp[c] /\ life'[c] = "live"
        /\ UNCHANGED <<sent[c], send[c], is_resp[c]>>
    BY <1>2 DEF Opens, ReplyOK
  <2>2. Produced(c)' = <<>>
    BY <2>1 DEF Produced
  <2>3. Bounded(Produced(c)', handled'[c])
    BY <2>2 DEF Bounded
  <2> QED BY <2>1, <2>3
<1>3. ASSUME NEW c \in Clients, NEW p \in Seq(OutTokens), Produced(c)' = Produced(c) \o p,
             Bounded(Produced(c), handled[c]), handled[c] <= handled'[c], \A i \in DOMAIN p : p[i].req = handled'[c]
      PROVE  Bounded(Produced(c)', handled'[c])
  <2> DEFINE s == Produced(c)
             s1 == Produced(c)'
             h == handled[c]
             h1 == handled'[c]
  <2>1. s \in Seq(OutTokens) /\ s1 = s \o p /\ h \in Nat /\ h1 \in Nat
    BY <1>t, <1>3
  <2>2. Bounded(s, h) /\ h <= h1 /\ \A i \in DOMAIN p : p[i].req = h1
    BY <1>3
  <2> HIDE DEF s, s1, h, h1
  <2>3. Bounded(s1, h1)
    BY <2>1, <2>2, BoundedGrows
  <2> QED BY <2>3 DEF s1, h1
<1>4. ASSUME NEW c \in Clients, GoesOn(c) PROVE Reply(c)'
  <2>1. PICK p \in Seq(OutTokens) : Adds(c, p) /\ Goes(c, p)
    BY <1>4 DEF GoesOn
  <2>2. life[c] = "live" /\ life'[c] = "live" /\ handled'[c] = handled[c] /\ (is_resp'[c] => is_resp[c])
    BY <1>4, <2>1 DEF GoesOn, Goes
  <2>3. Bounded(Produced(c)', handled'[c])
    <3>1. Produced(c)' = Produced(c) \o p /\ \A i \in DOMAIN p : p[i].req = handled'[c]
      BY <2>1, <2>2 DEF Adds, Goes
    <3>2. Bounded(Produced(c), handled[c])
      BY <2>2 DEF ReplyOK
    <3>3. handled[c] <= handled'[c]
      BY <1>t, <2>2
    <3> QED BY <1>3, <3>1, <3>2, <3>3
  <2> QED BY <2>2, <2>3 DEF ReplyOK
<1>5. ASSUME NEW c \in Clients, Answers(c) PROVE Reply(c)'
  <2>1. PICK p \in Seq(OutTokens) : Adds(c, p) /\ Begins(c, p)
    BY <1>5 DEF Answers
  <2>2. life[c] = "live" /\ life'[c] = "live" /\ handled[c] < handled'[c]
    BY <2>1 DEF Begins
  <2>3. Bounded(Produced(c)', handled'[c])
    <3>1. Produced(c)' = Produced(c) \o p /\ \A i \in DOMAIN p : p[i].req = handled'[c]
      BY <2>1, <2>2 DEF Adds, Begins
    <3>2. Bounded(Produced(c), handled[c])
      BY <2>2 DEF ReplyOK
    <3>3. handled[c] <= handled'[c]
      BY <1>t, <2>2
    <3> QED BY <1>3, <3>1, <3>2, <3>3
  <2> QED BY <1>t, <2>2, <2>3
<1>6. ASSUME NEW c \in Clients, Shuts(c) \/ Ends(c) PROVE Reply(c)'
  BY <1>6 DEF Shuts, Ends
<1>7. \A c \in Clients : Reply(c)'
  BY <1>1, <1>2, <1>4, <1>5, <1>6, StepKinds
<1> QED BY <1>7 DEF ReplyOK

(* The invariants the refinement rests on hold in every reachable state.   *)
LEMMA OrderHolds == Spec => [](OrderOK /\ ReplyOK)
<1>1. ASSUME Init PROVE OrderOK /\ ReplyOK
  <2>1. \A c \in Clients : Input(c) = <<>> /\ nreq[c] = 0 /\ handled[c] = 0 /\ rest[c] = None
    BY <1>1 DEF Init, Input
  <2>2. OrderOK
    BY <2>1 DEF OrderOK, Ordered, Owed
  <2>3. ReplyOK
    BY <1>1 DEF Init, ReplyOK
  <2> QED BY <2>2, <2>3
<1>2. ASSUME IInv, LoopInv, OrderOK, ReplyOK, [Next]_vars PROVE (OrderOK /\ ReplyOK)'
  <2>1. ReplyOK'
    BY <1>2, RepliesKeep DEF LoopInv
  <2>2. CASE Server
    BY <1>2, <2>1, <2>2, ServerOrders DEF LoopInv
  <2>3. CASE \E c \in Clients : Client(c)
    BY <1>2, <2>1, <2>3, ClientOrders
  <2>4. CASE UNCHANGED vars
    BY <1>2, <2>1, <2>4 DEF vars, client, hist, OrderOK, Input
  <2> QED BY <1>2, <2>2, <2>3, <2>4 DEF Next
<1> QED BY <1>1, <1>2, InvariantHolds, LoopInvHolds, PTL DEF Spec

(* The three variables of HttpExchange, for one connection.                *)
Status(c) == CASE life[c] = "none" -> "none" [] life[c] = "live" -> "open" [] OTHER -> "closed"
Stream(c) == IF life[c] = "live" THEN sent[c] \o send[c] ELSE sent[c]
Busy(c) == IF life[c] = "live" /\ is_resp[c] THEN handled[c] ELSE 0
Same(c) == UNCHANGED <<Status(c), Stream(c), Busy(c)>>

LEMMA StillSame == \A c \in Clients : Still(c) => Same(c)
BY DEF Still, Same, Status, Stream, Busy

LEMMA StutterMaps ==
  ASSUME \A c \in Clients : Same(c)
  PROVE  UNCHANGED Exchange!vars
BY DEF Exchange!vars, Same, Status, Stream, Busy

LEMMA OpenMaps ==
  ASSUME ReplyOK, NEW c \in Clients, \A d \in Clients \ {c} : Same(d), Opens(c)
  PROVE  Exchange!Next
<1>1. Exchange!Others(c)
  BY SMTT(30) DEF Exchange!Others, Same, Status, Stream, Busy
<1>2. sent'[c] = <<>> /\ send'[c] = <<>> /\ ~is_resp'[c] /\ life[c] = "none" /\ life'[c] = "live"
  BY DEF ReplyOK, Opens
<1>3. sent'[c] \o send'[c] = <<>>
  BY <1>2
<1>4. Exchange!Open(c)
  BY <1>2, <1>3 DEF Exchange!Open
<1> QED BY <1>1, <1>4 DEF Exchange!Next

LEMMA CloseMaps ==
  ASSUME IInv, NEW c \in Clients, \A d \in Clients \ {c} : Same(d), Shuts(c)
  PROVE  Exchange!Next
<1>1. Exchange!Others(c)
  BY SMTT(30) DEF Exchange!Others, Same, Status, Stream, Busy
<1>2. sent[c] \in Seq(OutTokens) /\ send[c] \in Seq(OutTokens)
  BY DEF IInv, ConnTypeOK, ResponseOK, ResponseTypeOK
<1>3. \E n \in 0..Len(sent[c] \o send[c]) : sent[c] = SubSeq(sent[c] \o send[c], 1, n)
  <2>1. Len(sent[c]) \in 0..Len(sent[c] \o send[c]) /\ SubSeq(sent[c] \o send[c], 1, Len(sent[c])) = sent[c]
    BY <1>2, CutConcat
  <2> QED BY <2>1
<1>4. life[c] = "live" /\ life'[c] = "closing" /\ sent'[c] = sent[c]
  BY DEF Shuts
<1>5. Exchange!Close(c)
  BY <1>3, <1>4 DEF Exchange!Close, Exchange!Cut
<1> QED BY <1>1, <1>5 DEF Exchange!Next

LEMMA GoesOnMaps ==
  ASSUME IInv, ReplyOK, NEW c \in Clients, \A d \in Clients \ {c} : Same(d), GoesOn(c)
  PROVE  Exchange!Next \/ \A d \in Clients : Same(d)
<1>1. PICK p \in Seq(OutTokens) : Adds(c, p) /\ Goes(c, p)
  BY DEF GoesOn
<1> DEFINE s == Produced(c)
           s1 == Produced(c)'
<1>2. /\ s \in Seq(OutTokens) /\ s1 = s \o p
      /\ life[c] = "live" /\ life'[c] = "live" /\ handled'[c] = handled[c]
  BY <1>1, ConcatProperties DEF GoesOn, Goes, Adds, Produced, IInv, ConnTypeOK, ResponseOK, ResponseTypeOK
<1>3. Stream(c) = s /\ Stream(c)' = s1 /\ Status(c) = "open" /\ Status(c)' = "open"
  BY <1>2 DEF Stream, Status, Produced
<1>4. CASE is_resp[c]
  <2>1. Busy(c) = handled[c] /\ handled[c] # 0 /\ Busy(c)' \in {0, handled[c]}
    BY <1>2, <1>4 DEF Busy, ReplyOK
  <2>2. SubSeq(s1, 1, Len(s)) = s /\ SubSeq(s1, Len(s) + 1, Len(s1)) = p /\ Len(s) \in 0..Len(s1)
    <3> HIDE DEF s, s1
    <3> QED BY <1>2, CutConcat
  <2>3. \A i \in DOMAIN p : p[i].req = handled[c] /\ p[i].part # "header"
    BY <1>1 DEF Goes
  <2>4. Exchange!Others(c)
    BY SMTT(30) DEF Exchange!Others, Same, Status, Stream, Busy
  <2>5. Exchange!Continue(c)
    <3> HIDE DEF s, s1
    <3> QED BY <1>3, <2>1, <2>2, <2>3 DEF Exchange!Continue, Exchange!Cut, Exchange!Added, Status, Stream, Busy
  <2> QED BY <2>4, <2>5 DEF Exchange!Next
<1>5. CASE ~is_resp[c]
  <2>1. p = <<>> /\ ~is_resp'[c]
    BY <1>1, <1>5 DEF Goes
  <2>2. s1 = s
    <3> HIDE DEF s, s1
    <3> QED BY <1>2, <2>1, ConcatEmptySeq
  <2>3. Same(c)
    <3>1. Busy(c) = 0 /\ Busy(c)' = 0
      BY <1>5, <2>1 DEF Busy
    <3> HIDE DEF s, s1
    <3> QED BY <1>3, <2>2, <3>1 DEF Same
  <2> QED BY <2>3
<1> QED BY <1>4, <1>5

LEMMA AnswersMaps ==
  ASSUME IInv, ReplyOK, NEW c \in Clients, \A d \in Clients \ {c} : Same(d), Answers(c), handled'[c] \in Nat
  PROVE  Exchange!Next
<1>1. PICK p \in Seq(OutTokens) : Adds(c, p) /\ Begins(c, p)
  BY DEF Answers
<1> DEFINE s == Produced(c)
           s1 == Produced(c)'
           r == handled'[c]
<1>2. /\ s \in Seq(OutTokens) /\ s1 = s \o p /\ p # <<>>
      /\ life[c] = "live" /\ life'[c] = "live" /\ handled[c] < r /\ handled[c] \in Nat
  BY <1>1, ConcatProperties, ParamAssumption
     DEF Begins, Adds, Produced, IInv, ConnTypeOK, ResponseOK, ResponseTypeOK, HistTypeOK
<1>3. Stream(c) = s /\ Stream(c)' = s1 /\ Status(c) = "open" /\ Status(c)' = "open"
  BY <1>2 DEF Stream, Status, Produced
<1>4. Busy(c) = 0 /\ Busy(c)' \in {0, r}
  BY <1>1 DEF Busy, Begins
<1>5. SubSeq(s1, 1, Len(s)) = s /\ SubSeq(s1, Len(s) + 1, Len(s1)) = p /\ Len(s) \in 0..Len(s1)
  <2> HIDE DEF s, s1
  <2> QED BY <1>2, CutConcat
<1>6. /\ \A i \in DOMAIN p : p[i].req = r /\ (p[i].part = "header" <=> i = 1)
      /\ p[1].req = r
  <2>1. \A i \in DOMAIN p : p[i].req = r /\ (p[i].part = "header" <=> i = 1)
    BY <1>1 DEF Begins
  <2>2. 1 \in DOMAIN p
    BY <1>2
  <2> QED BY <2>1, <2>2
<1>7. r > Exchange!LastReq(s)
  <2>1. Bounded(s, handled[c])
    BY <1>2 DEF ReplyOK
  <2> HIDE DEF s
  <2>2. CASE s = <<>>
    BY <1>2, <2>2 DEF Exchange!LastReq
  <2>3. CASE s # <<>>
    <3>1. Len(s) \in DOMAIN s /\ s[Len(s)] \in OutTokens
      BY <1>2, <2>3
    <3>2. s[Len(s)].req <= handled[c] /\ s[Len(s)].req \in Nat
      BY <2>1, <3>1, ParamAssumption DEF Bounded, OutTokens
    <3> QED BY <1>2, <2>3, <3>2 DEF Exchange!LastReq
  <2> QED BY <2>2, <2>3
<1>8. Exchange!Others(c)
  BY SMTT(30) DEF Exchange!Others, Same, Status, Stream, Busy
<1>9. Exchange!Begin(c)
  <2> HIDE DEF s, s1, r
  <2>1. Exchange!Added(c) = p
    BY <1>3, <1>5 DEF Exchange!Added, Stream
  <2>2. Exchange!Cut(Stream(c)', Stream(c))
    BY <1>3, <1>5 DEF Exchange!Cut
  <2>3. Exchange!LastReq(Stream(c)) < r
    BY <1>3, <1>7
  <2> QED BY SMTT(30), <1>2, <1>3, <1>4, <1>6, <2>1, <2>2, <2>3
          DEF Exchange!Begin, Status, Stream, Busy
<1> QED BY <1>8, <1>9 DEF Exchange!Next

(* A connection that is closed stays as it is.                             *)
LEMMA EndsMaps ==
  ASSUME NEW c \in Clients, Ends(c)
  PROVE  Same(c)
BY DEF Ends, Same, Status, Stream, Busy

(* The static server answers as HttpExchange demands: responses leave each *)
(* connection in the order of the requests, never mixed, and each whole    *)
(* before the next begins, whatever is pipelined and however files are cut.*)
THEOREM ServerImplementsExchange == Spec => ExchangeSpec
<1>1. ASSUME Init PROVE Exchange!Init
  BY <1>1 DEF Init, Exchange!Init
<1>2. ASSUME IInv, IInv', LoopInv, OrderOK, ReplyOK, [Next]_vars PROVE [Exchange!Next]_Exchange!vars
  <2>1. CASE \A d \in Clients : Still(d)
    BY <2>1, StillSame, StutterMaps
  <2>2. ASSUME NEW c \in Clients, \A d \in Clients \ {c} : Still(d),
               Opens(c) \/ GoesOn(c) \/ Answers(c) \/ Shuts(c) \/ Ends(c)
        PROVE  [Exchange!Next]_Exchange!vars
    <3>1. \A d \in Clients \ {c} : Same(d)
      BY <2>2, StillSame
    <3>2. CASE Opens(c)
      BY <1>2, <3>1, <3>2, OpenMaps
    <3>3. CASE GoesOn(c)
      BY <1>2, <3>1, <3>3, GoesOnMaps, StutterMaps
    <3>4. CASE Answers(c)
      <4>1. handled'[c] \in Nat
        BY <1>2, ParamAssumption DEF IInv, HistTypeOK
      <4> QED BY <1>2, <3>1, <3>4, <4>1, AnswersMaps
    <3>5. CASE Shuts(c)
      BY <1>2, <3>1, <3>5, CloseMaps
    <3>6. CASE Ends(c)
      <4>1. \A d \in Clients : Same(d)
        BY <3>1, <3>6, EndsMaps
      <4> QED BY <4>1, StutterMaps
    <3> QED BY <2>2, <3>2, <3>3, <3>4, <3>5, <3>6
  <2> QED BY <1>2, <2>1, <2>2, StepKinds DEF LoopInv
<1> QED BY <1>1, <1>2, InvariantHolds, LoopInvHolds, OrderHolds, PTL DEF Spec, ExchangeSpec, Exchange!Spec
=============================================================================
