-------------------------- MODULE HttpClientProofs --------------------------
(***************************************************************************)
(* The client for any number of threads, requests, redirects, stops and     *)
(* descriptors: its types, its assertions, and its one socket; and how it   *)
(* comes by a connection, for any number of addresses and connections.     *)
(***************************************************************************)
EXTENDS MCHttpClient, TLAPS, SequenceTheorems

Sending == {"write", "read", "close", "decide", "exit"}

(* The requests in flight are the calls of send inside each other, but for  *)
(* the last as long as it has not begun and once it is done; they are all   *)
(* of the thread that holds the mutex.                                      *)
NestOK ==
  /\ pc = "idle" <=> owner = None
  /\ pc = "idle" <=> frames = <<>>
  /\ in_flight = IF pc \in Sending THEN Len(frames) ELSE IF pc = "idle" THEN 0 ELSE Len(frames) - 1
  /\ from = IF in_flight > 0 THEN owner ELSE None

(* Who follows a redirect could, and will be charged for it on return.      *)
FollowOK == \A i \in 1..(Len(frames) - 1) : frames[i].doing = "redirect" => frames[i].redirects > 0

(* The socket is the one descriptor in use, with TLS if at all; a request   *)
(* that writes or reads has it.                                            *)
SocketOK ==
  /\ ssl => sock # None
  /\ sock # None => (Ssl => ssl) /\ kernel[sock] # "free"
  /\ \A f \in Fds : kernel[f] # "free" => f = sock
  /\ pc \in {"write", "read"} => stream = sock /\ sock # None

(* An attempt begins without an error but a proxy's, or with the one of an  *)
(* attempt that has left no socket, which a connection made anew takes away.*)
NoError == {"success", "proxy_connection"}
ErrorOK ==
  /\ pc \in {"write", "read", "close", "decide"} => error \in NoError
  /\ pc \in {"close", "decide"} => ret
  /\ pc \in {"exit", "return", "idle"} /\ ret => error \in NoError
  /\ pc = "return" /\ (~ret \/ ~KeepAlive) => sock = None
  /\ pc = "send_" /\ sock # None => error \in NoError

CoreInv == NestOK /\ SocketOK /\ ErrorOK /\ AssertsHold
ClientInv == TypeOK /\ FollowOK /\ CoreInv

-----------------------------------------------------------------------------
(* The flags are flags after every step.                                    *)
LEMMA FlagsTypeStep == FlagsTypeOK /\ [Next]_vars => FlagsTypeOK'
BY SettingsAssumption DEF FlagsTypeOK, Next, Send, Step, Reuse, Connect, Begin, ConnectFails, Unconnected, ProxyRefuses, WriteRequest, PeerClosed, ReadFails, ReadResponse,
       CloseAsAsked, Closing, RedirectRefused, Redirect, RedirectElsewhere, Authorize, Finish, Decides, Exit,
       SendAgain, ReturnInside, ReturnResult, Returns, Refuted, Works, Stop, PeerCloses, vars, request, socket_, flight

(* What may be done with the calls inside each other.                       *)
LEMMA UpType ==
  ASSUME FramesTypeOK, frames # <<>>, NEW changed \in FrameType
  PROVE  /\ Up(changed) \in Seq(FrameType) /\ Len(Up(changed)) = Len(frames)
         /\ Up(changed)[Len(frames)] = changed
         /\ \A i \in 1..(Len(frames) - 1) : Up(changed)[i] = frames[i]
<1>1. Len(frames) \in 1..Len(frames) /\ frames \in Seq(FrameType)
  BY DEF FramesTypeOK
<1>2. /\ Up(changed) \in Seq(FrameType) /\ Len(Up(changed)) = Len(frames)
      /\ \A j \in 1..Len(frames) : Up(changed)[j] = IF j = Len(frames) THEN changed ELSE frames[j]
  BY <1>1, ExceptSeq DEF Up
<1> QED BY <1>1, <1>2

LEMMA TopType ==
  ASSUME FramesTypeOK, frames # <<>>
  PROVE  Top \in FrameType /\ Len(frames) \in Nat /\ Len(frames) > 0
<1>1. frames \in Seq(FrameType)
  BY DEF FramesTypeOK
<1> QED BY <1>1 DEF Top

LEMMA FrameOK ==
  ASSUME NEW redirects \in 0..Redirects, NEW auths \in 0..Auths
  PROVE  Frame(redirects, auths) \in FrameType
BY DEF Frame, FrameType

(* The last call changes; the calls before it do not.                       *)
LEMMA UpStep ==
  ASSUME FramesTypeOK, FollowOK, frames # <<>>, NEW changed \in FrameType, frames' = Up(changed)
  PROVE  FramesTypeOK' /\ FollowOK' /\ Len(frames') = Len(frames)
<1>1. frames' \in Seq(FrameType) /\ Len(frames') = Len(frames) /\ \A i \in 1..(Len(frames) - 1) : frames'[i] = frames[i]
  BY UpType
<1> QED BY <1>1 DEF FramesTypeOK, FollowOK

(* The last call sends another one.                                         *)
LEMMA PushStep ==
  ASSUME FramesTypeOK, FollowOK, frames # <<>>, NEW below \in FrameType, NEW top \in FrameType,
         below.doing = "redirect" => below.redirects > 0, frames' = Append(Up(below), top)
  PROVE  FramesTypeOK' /\ FollowOK' /\ Len(frames') = Len(frames) + 1
<1>1. /\ Up(below) \in Seq(FrameType) /\ Len(Up(below)) = Len(frames) /\ Up(below)[Len(frames)] = below
      /\ \A i \in 1..(Len(frames) - 1) : Up(below)[i] = frames[i]
  BY UpType
<1>2. /\ frames' \in Seq(FrameType) /\ Len(frames') = Len(frames) + 1
      /\ \A i \in 1..Len(frames) : frames'[i] = Up(below)[i]
  BY <1>1, AppendProperties
<1>3. Len(frames) \in Nat /\ Len(frames) > 0
  BY TopType
<1>4. ASSUME NEW i \in 1..Len(frames), frames'[i].doing = "redirect" PROVE frames'[i].redirects > 0
  <2>1. CASE i = Len(frames)
    BY <1>1, <1>2, <1>4, <2>1
  <2>2. CASE i # Len(frames)
    <3>1. i \in 1..(Len(frames) - 1)
      BY <1>3, <2>2
    <3> QED BY <1>1, <1>2, <1>4, <3>1 DEF FollowOK
  <2> QED BY <2>1, <2>2
<1>5. \A i \in 1..(Len(frames') - 1) : i \in 1..Len(frames)
  BY <1>2, <1>3
<1> QED BY <1>2, <1>4, <1>5 DEF FramesTypeOK, FollowOK

(* The last call returns to the one before, which may have to pay for it.   *)
LEMMA PopStep ==
  ASSUME FramesTypeOK, FollowOK, ReturnInside
  PROVE  FramesTypeOK' /\ FollowOK' /\ Len(frames') = Len(frames) - 1 /\ Len(frames) > 1
<1> DEFINE left == SubSeq(frames, 1, Len(frames) - 1)
<1>1. Len(frames) > 1 /\ frames \in Seq(FrameType) /\ Len(frames) \in Nat
  BY DEF ReturnInside, FramesTypeOK
<1>2. \A i \in 1..(Len(frames) - 1) : frames[i] \in FrameType
  BY <1>1
<1>3. /\ left \in Seq(FrameType) /\ Len(left) = Len(frames) - 1
      /\ \A i \in 1..(Len(frames) - 1) : left[i] = frames[i]
  BY <1>1, <1>2, SubSeqProperties
<1> DEFINE outer == frames[Len(frames) - 1]
           paid == [outer EXCEPT !.redirects = @ - 1]
<1>4. left[Len(left)] = outer /\ outer \in FrameType /\ Len(left) \in 1..Len(left)
  BY <1>1, <1>2, <1>3
<1>5. frames' = left \/ (outer.doing = "redirect" /\ frames' = [left EXCEPT ![Len(left)] = paid])
  BY <1>3, <1>4 DEF ReturnInside
<1> HIDE DEF left, paid, outer
<1>6. CASE frames' = left
  <2>1. \A i \in 1..(Len(frames') - 1) : i \in 1..(Len(frames) - 1)
    BY <1>1, <1>3, <1>6
  <2> QED BY <1>1, <1>3, <1>6, <2>1 DEF FramesTypeOK, FollowOK
<1>7. CASE outer.doing = "redirect" /\ frames' = [left EXCEPT ![Len(left)] = paid]
  <2>1. outer.redirects > 0
    BY <1>1, <1>7 DEF FollowOK, outer
  <2>2. outer.redirects - 1 \in 0..Redirects
    BY <1>4, <2>1, CountsAssumption DEF FrameType
  <2>3. paid \in FrameType
    BY <1>4, <2>2 DEF FrameType, paid
  <2>4. /\ frames' \in Seq(FrameType) /\ Len(frames') = Len(left)
        /\ \A i \in 1..Len(left) : frames'[i] = IF i = Len(left) THEN paid ELSE left[i]
    BY <1>3, <1>4, <1>7, <2>3, ExceptSeq
  <2>5. \A i \in 1..(Len(frames') - 1) : frames'[i] = frames[i] /\ i \in 1..(Len(frames) - 1)
    BY <1>1, <1>3, <2>4
  <2> QED BY <1>1, <1>3, <2>4, <2>5 DEF FramesTypeOK, FollowOK
<1> QED BY <1>5, <1>6, <1>7
-----------------------------------------------------------------------------
(* How each step changes the calls inside each other.                       *)
LEMMA FramesStep ==
  ASSUME TypeOK, FollowOK, CoreInv, [Next]_vars
  PROVE  /\ FramesTypeOK' /\ FollowOK'
         /\ Redirect \/ Authorize => Len(frames') = Len(frames) + 1 /\ frames' # <<>>
         /\ RedirectElsewhere \/ SendAgain => Len(frames') = Len(frames) /\ frames' # <<>>
         /\ ReturnInside => Len(frames') = Len(frames) - 1 /\ frames' # <<>>
<1> USE DEF TypeOK, CoreInv
<1>0. pc # "idle" => frames # <<>> /\ Top \in FrameType /\ Len(frames) \in Nat /\ Len(frames) > 0
  BY TopType DEF NestOK
<1>1. ASSUME Redirect \/ Authorize PROVE FramesTypeOK' /\ FollowOK' /\ Len(frames') = Len(frames) + 1
  <2>1. PICK below \in FrameType, top \in FrameType :
          frames' = Append(Up(below), top) /\ (below.doing = "redirect" => below.redirects > 0)
    <3>1. CASE Redirect
      <4>1. Top.redirects > 0 /\ Top \in FrameType
        BY <1>0, <3>1 DEF Redirect, Decides
      <4>2. [Top EXCEPT !.doing = "redirect"] \in FrameType /\ [Top EXCEPT !.doing = "redirect"].redirects > 0
        BY <4>1 DEF FrameType
      <4>3. Frame(Top.redirects - 1, Top.auths) \in FrameType
        <5>1. Top.redirects - 1 \in 0..Redirects /\ Top.auths \in 0..Auths
          BY <4>1, CountsAssumption DEF FrameType
        <5> QED BY <5>1, FrameOK
      <4> QED BY <3>1, <4>2, <4>3 DEF Redirect
    <3>2. CASE Authorize
      <4>1. Top.auths < Auths /\ Top \in FrameType
        BY <1>0, <3>2 DEF Authorize, Decides, Denied
      <4>2. [Top EXCEPT !.doing = "authorize"] \in FrameType /\ [Top EXCEPT !.doing = "authorize"].doing # "redirect"
        BY <4>1 DEF FrameType
      <4>3. Frame(Top.redirects, Top.auths + 1) \in FrameType
        <5>1. Top.redirects \in 0..Redirects /\ Top.auths + 1 \in 0..Auths
          BY <4>1, CountsAssumption DEF FrameType
        <5> QED BY <5>1, FrameOK
      <4> QED BY <3>2, <4>2, <4>3 DEF Authorize
    <3> QED BY <1>1, <3>1, <3>2
  <2> QED BY <1>0, <1>1, <2>1, PushStep DEF Redirect, Authorize, Decides
<1>2. ASSUME RedirectElsewhere \/ SendAgain PROVE FramesTypeOK' /\ FollowOK' /\ Len(frames') = Len(frames)
  <2>1. CASE frames' = frames
    BY <2>1 DEF FramesTypeOK, FollowOK
  <2>2. CASE frames' # frames
    <3>1. frames # <<>> /\ Top \in FrameType
      BY <1>0, <1>2 DEF RedirectElsewhere, SendAgain, Decides, Returns
    <3>2. PICK changed \in FrameType : frames' = Up(changed)
      <4>1. CASE RedirectElsewhere
        <5>1. Top.redirects - 1 \in 0..Redirects
          BY <3>1, <4>1, CountsAssumption DEF RedirectElsewhere, FrameType
        <5>2. [Top EXCEPT !.doing = "redirect", !.redirects = @ - 1] \in FrameType
          BY <3>1, <5>1 DEF FrameType
        <5> QED BY <2>2, <4>1, <5>2 DEF RedirectElsewhere
      <4>2. CASE SendAgain
        <5>1. [Top EXCEPT !.try = 2] \in FrameType
          BY <3>1 DEF FrameType
        <5> QED BY <4>2, <5>1 DEF SendAgain
      <4> QED BY <1>2, <4>1, <4>2
    <3> QED BY <3>1, <3>2, UpStep
  <2> QED BY <2>1, <2>2
<1>3. ASSUME ReturnInside PROVE FramesTypeOK' /\ FollowOK' /\ Len(frames') = Len(frames) - 1 /\ Len(frames) > 1
  BY <1>3, PopStep
<1>4. ASSUME NEW t \in Threads, Send(t) PROVE FramesTypeOK' /\ FollowOK'
  <2>1. Frame(Redirects, 0) \in FrameType
    BY CountsAssumption, FrameOK
  <2>2. frames' = <<Frame(Redirects, 0)>>
    BY <1>4 DEF Send
  <2>3. frames' \in Seq(FrameType) /\ Len(frames') = 1
    BY <2>1, <2>2
  <2> QED BY <2>3 DEF FramesTypeOK, FollowOK
<1>5. ASSUME ReturnResult PROVE FramesTypeOK' /\ FollowOK'
  <2>1. frames' = <<>>
    BY <1>5 DEF ReturnResult
  <2>2. frames' \in Seq(FrameType) /\ Len(frames') = 0
    BY <2>1
  <2> QED BY <2>2 DEF FramesTypeOK, FollowOK
<1>6. ASSUME frames' = frames PROVE FramesTypeOK' /\ FollowOK'
  BY <1>6 DEF FramesTypeOK, FollowOK
<1>7. \/ Redirect \/ Authorize \/ RedirectElsewhere \/ SendAgain \/ ReturnInside \/ ReturnResult
      \/ (\E t \in Threads : Send(t)) \/ frames' = frames
  BY DEF Next, Step, Reuse, Connect, Begin, ConnectFails, Unconnected, ProxyRefuses, WriteRequest, PeerClosed, ReadFails, ReadResponse, CloseAsAsked,
         RedirectRefused, Finish, Exit, Works, Stop, PeerCloses, vars, request
<1>8. FramesTypeOK' /\ FollowOK'
  BY <1>1, <1>2, <1>3, <1>4, <1>5, <1>6, <1>7
<1>9. Len(frames') > 0 /\ frames' \in Seq(FrameType) => frames' # <<>>
  OBVIOUS
<1>10. (pc # "idle" => Len(frames) > 0) /\ Len(frames) \in Nat
  BY <1>0 DEF FramesTypeOK
<1>11. Redirect \/ Authorize \/ RedirectElsewhere \/ SendAgain => pc # "idle"
  BY DEF Redirect, Authorize, RedirectElsewhere, SendAgain, Decides, Returns
<1> QED BY <1>1, <1>2, <1>3, <1>8, <1>9, <1>10, <1>11 DEF FramesTypeOK

(* Everything else but the flags.                                           *)
LEMMA RestTypeStep ==
  ASSUME TypeOK, CoreInv, [Next]_vars
  PROVE  CountsTypeOK' /\ PlacesTypeOK'
<1> USE CountsAssumption DEF TypeOK
<1>1. CountsTypeOK'
  <2>1. calls' \in [Threads -> 0..Calls]
    <3>1. CASE calls' = calls
      BY <3>1 DEF CountsTypeOK
    <3>2. ASSUME NEW t \in Threads, Send(t) PROVE calls' \in [Threads -> 0..Calls]
      BY <3>2 DEF Send, CountsTypeOK
    <3> QED BY <3>1, <3>2 DEF Next, Step, Reuse, Connect, Begin, ConnectFails, Unconnected, ProxyRefuses, WriteRequest, PeerClosed, ReadFails, ReadResponse,
       CloseAsAsked, RedirectRefused, Redirect, RedirectElsewhere, Authorize, Finish, Decides, Exit,
       SendAgain, ReturnInside, ReturnResult, Returns, Works, Stop, PeerCloses, vars, request
  <2>2. stops' \in 0..Stops
    BY DEF CountsTypeOK, Next, Send, Step, Reuse, Connect, Begin, ConnectFails, Unconnected, ProxyRefuses, WriteRequest, PeerClosed, ReadFails, ReadResponse,
       CloseAsAsked, RedirectRefused, Redirect, RedirectElsewhere, Authorize, Finish, Decides, Exit,
       SendAgain, ReturnInside, ReturnResult, Returns, Works, Stop, PeerCloses, vars, request
  <2>3. in_flight' \in Int
    BY DEF CountsTypeOK, Next, Send, Step, Reuse, Connect, Begin, ConnectFails, Unconnected, ProxyRefuses, WriteRequest, PeerClosed, ReadFails, ReadResponse,
       CloseAsAsked, RedirectRefused, Redirect, RedirectElsewhere, Authorize, Finish, Decides, Exit,
       SendAgain, ReturnInside, ReturnResult, Returns, Works, Stop, PeerCloses, vars, flight
  <2> QED BY <2>1, <2>2, <2>3 DEF CountsTypeOK
<1>2. \A f \in Fds : Freed[f] \in {"free", "live", "shut", "gone"}
  BY DEF Freed, PlacesTypeOK
<1>3. kernel' \in [Fds -> {"free", "live", "shut", "gone"}] /\ sock' \in Fds \cup {None}
  <2>1. CASE UNCHANGED <<sock, kernel>>
    BY <2>1 DEF PlacesTypeOK
  <2>2. CASE Closing
    BY <1>2, <2>2 DEF Closing, Freed
  <2>3. ASSUME NEW fd \in Fds, Connect(fd) PROVE kernel' \in [Fds -> {"free", "live", "shut", "gone"}] /\ sock' \in Fds \cup {None}
    BY <1>2, <2>3 DEF Connect, Freed
  <2>4. CASE Stop \/ \E fd \in Fds : PeerCloses(fd)
    BY <2>2, <2>4 DEF Stop, PeerCloses, PlacesTypeOK
  <2> QED BY <2>1, <2>2, <2>3, <2>4 DEF Next, Send, Step, Reuse, Begin, ConnectFails, Unconnected, ProxyRefuses, WriteRequest, PeerClosed, ReadFails, ReadResponse,
       CloseAsAsked, RedirectRefused, Redirect, RedirectElsewhere, Authorize, Finish, Decides, Exit,
       SendAgain, ReturnInside, ReturnResult, Returns, Works, vars, socket_
<1>4. owner' \in Threads \cup {None} /\ from' \in Threads \cup {None} /\ stream' \in Fds \cup {None}
  BY DEF PlacesTypeOK, Next, Send, Step, Reuse, Connect, Begin, ConnectFails, Unconnected, ProxyRefuses, WriteRequest, PeerClosed, ReadFails, ReadResponse,
       CloseAsAsked, RedirectRefused, Redirect, RedirectElsewhere, Authorize, Finish, Decides, Exit,
       SendAgain, ReturnInside, ReturnResult, Returns, Works, Stop, PeerCloses, vars, request, flight
<1>5. pc' \in {"idle", "send_", "write", "read", "close", "decide", "exit", "return"}
  BY DEF PlacesTypeOK, Next, Send, Step, Reuse, Connect, Begin, ConnectFails, Unconnected, ProxyRefuses, WriteRequest, PeerClosed, ReadFails, ReadResponse,
       CloseAsAsked, RedirectRefused, Redirect, RedirectElsewhere, Authorize, Finish, Decides, Exit, Refuted,
       SendAgain, ReturnInside, ReturnResult, Returns, Works, Stop, PeerCloses, vars, request
<1>6. error' \in Errors /\ status' \in {"final", "redirect", "unauthorized"}
  BY DEF PlacesTypeOK, Errors, Next, Send, Step, Reuse, Connect, Begin, ConnectFails, Unconnected, ProxyRefuses, WriteRequest, PeerClosed, ReadFails, ReadResponse,
       CloseAsAsked, RedirectRefused, Redirect, RedirectElsewhere, Authorize, Finish, Decides, Exit, Refuted,
       SendAgain, ReturnInside, ReturnResult, Returns, Works, Stop, PeerCloses, vars, request
<1> QED BY <1>1, <1>3, <1>4, <1>5, <1>6 DEF PlacesTypeOK
-----------------------------------------------------------------------------
(* With the types at hand: what NestOK says in each place.                  *)
LEMMA Nesting ==
  ASSUME TypeOK, NestOK
  PROVE  /\ Len(frames) \in Nat /\ in_flight \in Nat /\ (pc # "idle" => Len(frames) > 0 /\ owner # None /\ owner \in Threads)
         /\ in_flight # 0 => from = owner
         /\ pc \in Sending => in_flight = Len(frames)
         /\ pc = "idle" => in_flight = 0
         /\ pc \in {"send_", "return"} => in_flight = Len(frames) - 1
<1>1. Len(frames) \in Nat /\ (frames # <<>> => Len(frames) > 0)
  BY DEF TypeOK, FramesTypeOK
<1>2. pc # "idle" => Len(frames) > 0 /\ owner # None /\ owner \in Threads
  BY <1>1 DEF NestOK, TypeOK, PlacesTypeOK
<1>3. /\ pc \in Sending => in_flight = Len(frames)
      /\ pc = "idle" => in_flight = 0
      /\ pc \in {"send_", "return"} => in_flight = Len(frames) - 1
  BY DEF NestOK, Sending
<1>4. in_flight \in Nat
  <2>1. pc \in Sending \cup {"idle", "send_", "return"}
    BY DEF Sending, TypeOK, PlacesTypeOK
  <2> QED BY <1>1, <1>2, <1>3, <2>1 DEF Sending
<1>5. in_flight # 0 => from = owner
  <2>1. from = IF in_flight > 0 THEN owner ELSE None
    BY DEF NestOK
  <2> QED BY <1>4, <2>1
<1> QED BY <1>1, <1>2, <1>3, <1>4, <1>5

(* An attempt begins, on the socket there is or on a new one.              *)
LEMMA BeginStep ==
  ASSUME TypeOK, CoreInv, Reuse \/ \E fd \in Fds : Connect(fd)
  PROVE  CoreInv'
<1> USE DEF CoreInv
<1>1. /\ pc = "send_" /\ in_flight' = in_flight + 1 /\ from' = owner /\ pc' = "write" /\ owner' = owner /\ frames' = frames
      /\ ret' = ret
  BY DEF Reuse, Connect, Begin
<1>2. NestOK'
  BY <1>1, Nesting DEF NestOK, Sending
<1>3. PICK fd \in Fds, tls \in BOOLEAN : Begin(fd, tls) /\ (Ssl => tls) /\ sock' = fd /\ kernel'[fd] # "free" /\ stream' = fd
  <2>1. CASE Reuse
    BY <2>1 DEF Reuse, Alive, Begin, socket_, SocketOK, TypeOK, PlacesTypeOK, FlagsTypeOK
  <2>2. ASSUME NEW fd \in Fds, Connect(fd) PROVE Begin(fd, Ssl) /\ sock' = fd /\ kernel'[fd] = "live" /\ stream' = fd
    <3>1. Freed \in [Fds -> {"free", "live", "shut", "gone"}]
      BY DEF Freed, TypeOK, PlacesTypeOK
    <3> QED BY <2>2, <3>1 DEF Connect, Begin
  <2> QED BY <2>1, <2>2, SettingsAssumption
<1>4. SocketOK'
  <2>1. \A f \in Fds : kernel'[f] # "free" => f = sock'
    BY DEF Reuse, Connect, socket_, Freed, SocketOK, TypeOK, PlacesTypeOK
  <2>2. Ssl => ssl'
    BY DEF Reuse, Connect, Alive, socket_, SocketOK
  <2>3. sock' # None
    BY <1>3, NoneAssumption
  <2> QED BY <1>1, <1>3, <2>1, <2>2, <2>3 DEF SocketOK
<1>5. ErrorOK'
  BY <1>1 DEF Reuse, Connect, Alive, ErrorOK, NoError
<1>6. AssertsHold'
  <2>1. ~(in_flight > 1 /\ from # owner) /\ ~OthersUse(in_flight, owner)
    BY Nesting DEF OthersUse
  <2> QED BY <1>3, <2>1 DEF Begin, AssertsHold
<1> QED BY <1>2, <1>4, <1>5, <1>6

(* The socket is given up.                                                  *)
LEMMA ClosingStep ==
  ASSUME TypeOK, CoreInv, Closing, pc' \notin {"write", "read"}
  PROVE  SocketOK' /\ sock' = None
BY DEF CoreInv, Closing, Freed, SocketOK, TypeOK, PlacesTypeOK

LEMMA FailStep ==
  ASSUME TypeOK, CoreInv, ConnectFails \/ CloseAsAsked \/ Exit
  PROVE  CoreInv'
<1> USE DEF CoreInv
<1>1. CASE ConnectFails \/ CloseAsAsked
  <2>1. SocketOK' /\ sock' = None
    BY <1>1, ClosingStep DEF ConnectFails, CloseAsAsked
  <2>2. NestOK'
    BY <1>1, Nesting DEF ConnectFails, CloseAsAsked, NestOK, Sending, flight
  <2>3. ErrorOK'
    BY <1>1, <2>1 DEF ConnectFails, Unconnected, ProxyRefuses, CloseAsAsked, ErrorOK, NoError
  <2>4. AssertsHold'
    BY <1>1, Nesting DEF ConnectFails, CloseAsAsked, OthersUse, AssertsHold
  <2> QED BY <2>1, <2>2, <2>3, <2>4
<1>2. CASE Exit
  <2>1. SocketOK' /\ (~ret \/ ~KeepAlive => sock' = None)
    <3>1. CASE Closing
      BY <1>2, <3>1, ClosingStep DEF Exit
    <3>2. CASE ~Closing
      BY <1>2, <3>2 DEF Exit, socket_, SocketOK
    <3> QED BY <3>1, <3>2
  <2>2. /\ pc = "exit" /\ pc' = "return" /\ in_flight' = in_flight - 1 /\ owner' = owner /\ frames' = frames
        /\ from' = IF in_flight' <= 0 THEN None ELSE from
    BY <1>2 DEF Exit
  <2>3. in_flight = Len(frames) /\ Len(frames) \in Nat /\ Len(frames) > 0 /\ from = owner
    BY <2>2, Nesting DEF Sending
  <2>4. NestOK'
    BY <2>2, <2>3 DEF NestOK, Sending
  <2>5. ErrorOK'
    BY <1>2, <2>1 DEF Exit, ErrorOK, NoError
  <2>6. AssertsHold'
    <3>1. ~(in_flight' < 0) /\ ~OthersUse(in_flight', owner)
      BY <2>2, <2>3 DEF OthersUse
    <3> QED BY <1>2, <3>1 DEF Exit, AssertsHold
  <2> QED BY <2>1, <2>4, <2>5, <2>6
<1> QED BY <1>1, <1>2

(* What happens on the stream, and the answers that need nothing more.      *)
LEMMA AnswerStep ==
  ASSUME TypeOK, CoreInv,
         \/ WriteRequest \/ PeerClosed \/ ReadFails \/ RedirectRefused \/ Finish
         \/ \E s \in {"final", "redirect", "unauthorized"}, close \in BOOLEAN : ReadResponse(s, close)
  PROVE  CoreInv'
<1> USE DEF CoreInv
<1>1. /\ owner' = owner /\ frames' = frames /\ in_flight' = in_flight /\ from' = from /\ sock' = sock /\ ssl' = ssl
      /\ kernel' = kernel /\ stream' = stream /\ broken' = broken
      /\ pc \in Sending /\ pc' \in Sending
  BY DEF WriteRequest, PeerClosed, ReadFails, RedirectRefused, Finish, ReadResponse, Works, Refuted, Decides, Sending,
         socket_, flight
<1>2. NestOK'
  BY <1>1 DEF NestOK, Sending
<1>3. SocketOK'
  <2>1. pc' \in {"write", "read"} => pc \in {"write", "read"}
    BY DEF WriteRequest, PeerClosed, ReadFails, RedirectRefused, Finish, ReadResponse, Refuted
  <2> QED BY <1>1, <2>1 DEF SocketOK
<1>4. ErrorOK'
  BY <1>1 DEF WriteRequest, PeerClosed, ReadFails, RedirectRefused, Finish, ReadResponse, Refuted, Decides, ErrorOK, NoError
<1>5. AssertsHold'
  BY <1>1 DEF AssertsHold
<1> QED BY <1>2, <1>3, <1>4, <1>5

(* The steps from one call of send to another.                              *)
LEMMA NestStep ==
  ASSUME TypeOK, FollowOK, CoreInv, Next,
         Redirect \/ RedirectElsewhere \/ Authorize \/ SendAgain \/ ReturnInside \/ ReturnResult
  PROVE  CoreInv'
<1> USE DEF CoreInv
<1>1. /\ in_flight' = in_flight /\ from' = from /\ sock' = sock /\ ssl' = ssl /\ kernel' = kernel /\ stream' = stream
      /\ pc \in {"decide", "return"} /\ pc' \notin {"write", "read"}
  BY DEF Redirect, RedirectElsewhere, Authorize, SendAgain, ReturnInside, ReturnResult, Decides, Returns, socket_, flight
<1>2. SocketOK'
  BY <1>1 DEF SocketOK
<1>3. NestOK'
  <2>1. CASE Redirect \/ Authorize
    <3>1. pc = "decide" /\ pc' = "send_" /\ owner' = owner /\ Len(frames') = Len(frames) + 1 /\ frames' # <<>>
      BY <2>1, FramesStep DEF Redirect, Authorize, Decides
    <3>2. owner # None /\ in_flight = Len(frames) /\ Len(frames) \in Nat
      BY <3>1, Nesting DEF Sending
    <3> QED BY <1>1, <3>1, <3>2 DEF NestOK, Sending
  <2>2. CASE RedirectElsewhere
    BY <1>1, <2>2, FramesStep, Nesting DEF RedirectElsewhere, Decides, NestOK, Sending
  <2>3. CASE SendAgain
    BY <1>1, <2>3, FramesStep, Nesting DEF SendAgain, Returns, NestOK, Sending
  <2>4. CASE ReturnInside
    BY <1>1, <2>4, FramesStep, Nesting DEF ReturnInside, Returns, NestOK, Sending
  <2>5. CASE ReturnResult
    BY <1>1, <2>5, Nesting DEF ReturnResult, Returns, NestOK, Sending
  <2> QED BY <2>1, <2>2, <2>3, <2>4, <2>5
<1>4. ErrorOK'
  <2>1. CASE Redirect \/ Authorize \/ RedirectElsewhere
    BY <1>1, <2>1 DEF Redirect, Authorize, RedirectElsewhere, Decides, ErrorOK, NoError
  <2>2. CASE SendAgain
    BY <1>1, <2>2 DEF SendAgain, Again, Returns, ErrorOK, NoError
  <2>3. CASE ReturnInside \/ ReturnResult
    BY <1>1, <2>3 DEF ReturnInside, ReturnResult, Returns, ErrorOK, NoError
  <2> QED BY <2>1, <2>2, <2>3
<1>5. AssertsHold'
  BY DEF Redirect, Authorize, RedirectElsewhere, Decides, SendAgain, Again, ReturnInside, ReturnResult, Returns, ErrorOK, NoError, AssertsHold
<1> QED BY <1>2, <1>3, <1>4, <1>5

(* Whoever stops the client leaves the socket to a request that uses it.    *)
LEMMA OutsideStep ==
  ASSUME TypeOK, CoreInv, Stop \/ (\E fd \in Fds : PeerCloses(fd)) \/ UNCHANGED vars
  PROVE  CoreInv'
<1> USE DEF CoreInv
<1>1. /\ owner' = owner /\ frames' = frames /\ pc' = pc /\ ret' = ret /\ error' = error /\ stream' = stream
      /\ in_flight' = in_flight /\ from' = from /\ broken' = broken
  BY DEF Stop, PeerCloses, vars, request, flight
<1>2. NestOK' /\ AssertsHold'
  BY <1>1 DEF NestOK, AssertsHold
<1>3. SocketOK' /\ (sock' # None => sock = sock')
  <2>1. CASE Closing /\ in_flight <= 0
    <3>1. pc' \notin {"write", "read"}
      BY <1>1, <2>1, Nesting DEF Sending
    <3> QED BY <2>1, <3>1, ClosingStep
  <2>2. CASE Stop /\ in_flight > 0
    BY <1>1, <2>2 DEF Stop, SocketOK, TypeOK, PlacesTypeOK
  <2>3. CASE \E fd \in Fds : PeerCloses(fd)
    BY <1>1, <2>3 DEF PeerCloses, SocketOK, TypeOK, PlacesTypeOK
  <2>4. CASE UNCHANGED vars
    BY <1>1, <2>4 DEF vars, socket_, SocketOK
  <2>5. Stop => (Closing /\ in_flight <= 0) \/ in_flight > 0
    BY Nesting DEF Stop
  <2> QED BY <2>1, <2>2, <2>3, <2>4, <2>5
<1>4. ErrorOK'
  BY <1>1, <1>3 DEF ErrorOK, NoError
<1> QED BY <1>2, <1>3, <1>4

LEMMA SendStep ==
  ASSUME TypeOK, CoreInv, NEW t \in Threads, Send(t)
  PROVE  CoreInv'
<1> USE DEF CoreInv
<1>1. /\ owner = None /\ owner' = t /\ pc' = "send_" /\ error' = "success" /\ in_flight' = in_flight /\ from' = from
      /\ sock' = sock /\ ssl' = ssl /\ kernel' = kernel /\ broken' = broken /\ frames' = <<Frame(Redirects, 0)>>
  BY DEF Send, socket_, flight
<1>2. pc = "idle" /\ in_flight = 0
  BY <1>1, Nesting DEF NestOK
<1>3. NestOK'
  <2>1. Len(frames') = 1 /\ frames' # <<>>
    BY <1>1
  <2> QED BY <1>1, <1>2, <2>1, NoneAssumption DEF NestOK, Sending
<1> QED BY <1>1, <1>3 DEF SocketOK, ErrorOK, NoError, AssertsHold

LEMMA ClientStep == ClientInv /\ [Next]_vars => ClientInv'
<1> SUFFICES ASSUME ClientInv, [Next]_vars PROVE ClientInv'
  OBVIOUS
<1>1. TypeOK' /\ FollowOK'
  BY FlagsTypeStep, FramesStep, RestTypeStep DEF ClientInv, TypeOK
<1>2. CoreInv'
  BY BeginStep, FailStep, AnswerStep, NestStep, OutsideStep, SendStep DEF ClientInv, Next, Step
<1> QED BY <1>1, <1>2 DEF ClientInv

LEMMA InitOK == Init => ClientInv
<1> SUFFICES ASSUME Init PROVE ClientInv
  OBVIOUS
<1>1. FramesTypeOK /\ FollowOK
  BY DEF Init, FramesTypeOK, FollowOK
<1>2. FlagsTypeOK
  BY DEF Init, FlagsTypeOK
<1>3. CountsTypeOK /\ PlacesTypeOK
  BY CountsAssumption DEF Init, CountsTypeOK, PlacesTypeOK, Errors
<1>4. CoreInv
  BY DEF Init, CoreInv, NestOK, Sending, SocketOK, ErrorOK, NoError, AssertsHold
<1> QED BY <1>1, <1>2, <1>3, <1>4 DEF ClientInv, TypeOK

(* The invariant the theorems below rest on.                               *)
THEOREM ClientInvHolds == Spec => []ClientInv
<1>1. Init => ClientInv
  BY InitOK
<1>2. ClientInv /\ [Next]_vars => ClientInv'
  BY ClientStep
<1> QED BY <1>1, <1>2, PTL DEF Spec

(* The variables of the client keep to their sets: no call of send goes     *)
(* below no redirect or beyond the last authentication.                    *)
THEOREM TypeCorrect == Spec => []TypeOK
<1>1. ClientInv => TypeOK
  BY DEF ClientInv
<1> QED BY <1>1, ClientInvHolds, PTL

(* However many threads send, however requests nest and whenever stop()     *)
(* comes: no assertion of send_, send, shutdown_ssl or close_socket fails.  *)
THEOREM AssertionsHold == Spec => []AssertsHold
<1>1. ClientInv => AssertsHold
  BY DEF ClientInv, CoreInv
<1> QED BY <1>1, ClientInvHolds, PTL

(* No descriptor is lost, none is used that is not the client's, and no     *)
(* answer carries the error of an attempt before it.                        *)
THEOREM TheSocketIsOne == Spec => []OneSocket
<1>1. ClientInv => OneSocket
  BY DEF ClientInv, CoreInv, SocketOK, ErrorOK, NoError, OneSocket, NoneLost, OwnSocket, GoodHasNoError
<1> QED BY <1>1, ClientInvHolds, PTL

LEMMA DoneIsClosed ==
  ASSUME ClientInv, [Next]_vars, Done, ~KeepAlive
  PROVE  sock' = None
<1>1. ReturnResult
  BY DEF Done, Next, Send, Step, Reuse, Connect, Begin, ConnectFails, Unconnected, ProxyRefuses, WriteRequest, PeerClosed, ReadFails, ReadResponse,
     CloseAsAsked, RedirectRefused, Redirect, RedirectElsewhere, Authorize, Finish, Decides, Exit,
     SendAgain, ReturnInside, Works, Stop, PeerCloses, vars, request
<1> QED BY <1>1 DEF ReturnResult, Returns, socket_, ClientInv, CoreInv, ErrorOK

(* Without keep-alive no request leaves a connection behind, whatever       *)
(* happened to it.                                                          *)
THEOREM NothingIsKept == Spec => IdleIsClosed
<1>1. ClientInv /\ [Next]_vars => [Done /\ ~KeepAlive => sock' = None]_vars
  BY DoneIsClosed
<1> QED BY <1>1, ClientInvHolds, PTL DEF Spec, IdleIsClosed
-----------------------------------------------------------------------------
(* Connecting: where there is a socket, and where a session.                *)
Making == {"connect", "wait", "proxy", "ssl", "certs", "handshake", "verify"}
Shaking == {"certs", "handshake", "verify"}

(* What has been decided and asked on the way to each place.                *)
PlaceOK ==
  /\ settings.proxy \/ settings.verify => settings.ssl
  /\ connect_pc \in {"ssl"} \cup Shaking => settings.ssl
  /\ connect_pc \in {"certs", "verify"} => settings.verify
  /\ connect_pc \in {"connect", "wait"} => address <= Addresses
  /\ connect_pc \in {"resolve", "socket", "connect", "wait"} => asked = 0
  /\ connect_pc = "proxy" => asked <= 1
  /\ connect_pc # "returned" => result = "none"

(* What has been made on the way: a failure has that to take back, and what *)
(* an address before has left, an error or a non-blocking socket, is gone.  *)
MadeOK ==
  /\ connect_pc # "returned" =>
       sockets = (IF connect_pc \in Making THEN 1 ELSE 0) /\ session = (connect_pc \in Shaking)
  /\ connect_pc \in {"proxy", "ssl"} => nonblocking = FALSE
  /\ connect_pc \in {"proxy", "ssl"} \cup Shaking => connect_error = "success"

ConnectInv == PlaceOK /\ MadeOK /\ AllOrNothing

(* The types of connecting, with the flags one by one.                      *)
LEMMA ConnectTypes ==
  Connection!TypeOK <=>
    /\ settings \in Connection!Settings /\ times \in 1..Times
    /\ connect_pc \in {"resolve", "socket", "returned"} \cup Making
    /\ address \in 1..(Addresses + 1) /\ sockets \in 0..1 /\ asked \in 0..2
    /\ nonblocking \in BOOLEAN /\ session \in BOOLEAN
    /\ once \in BOOLEAN /\ certs \in BOOLEAN /\ trusted \in BOOLEAN
    /\ connect_error \in Connection!Errors
    /\ result \in {"none", "true", "false", "connected"} /\ res \in {"none", "proxy"}
BY DEF Connection!TypeOK, Making

LEMMA ConnectTypeStep ==
  ASSUME Connection!Constants, ConnectInv, [Connection!Next]_(Connection!vars)
  PROVE  Connection!TypeOK'
<1>0. PlaceOK /\ MadeOK /\ Connection!TypeOK
  BY DEF ConnectInv, AllOrNothing
<1>1. settings' \in Connection!Settings
  BY <1>0, ConnectTypes DEF Connection!Next, Connection!vars, Connection!net, Connection!store, Connection!outcome,
         Connection!Resolve, Connection!OutOfAddresses, Connection!Socket, Connection!ConnectSocket,
         Connection!WaitUntilReady, Connection!NextAddress, Connection!ConnectingFails, Connection!Connected,
         Connection!NoSocket, Connection!NoProxy, Connection!ProxyFails, Connection!ProxyAgrees,
         Connection!ProxyAsksOnce, Connection!ProxyRefuses, Connection!CloseEverything, Connection!SslNew,
         Connection!LoadCerts, Connection!Handshake, Connection!Verify, Connection!SetupFails, Connection!Ready,
         Connection!Again, Connection!Fresh, Connection!Goto, Connection!Return
<1>2. times' \in 1..Times
  BY <1>0, ConnectTypes DEF Connection!Constants, Connection!Next, Connection!vars, Connection!net, Connection!store, Connection!outcome,
         Connection!Resolve, Connection!OutOfAddresses, Connection!Socket, Connection!ConnectSocket,
         Connection!WaitUntilReady, Connection!NextAddress, Connection!ConnectingFails, Connection!Connected,
         Connection!NoSocket, Connection!NoProxy, Connection!ProxyFails, Connection!ProxyAgrees,
         Connection!ProxyAsksOnce, Connection!ProxyRefuses, Connection!CloseEverything, Connection!SslNew,
         Connection!LoadCerts, Connection!Handshake, Connection!Verify, Connection!SetupFails, Connection!Ready,
         Connection!Again, Connection!Fresh, Connection!Goto, Connection!Return
<1>3. connect_pc' \in {"resolve", "socket", "returned"} \cup Making
  BY <1>0, ConnectTypes DEF Making, Connection!Next, Connection!vars, Connection!net, Connection!store, Connection!outcome,
         Connection!Resolve, Connection!OutOfAddresses, Connection!Socket, Connection!ConnectSocket,
         Connection!WaitUntilReady, Connection!NextAddress, Connection!ConnectingFails, Connection!Connected,
         Connection!NoSocket, Connection!NoProxy, Connection!ProxyFails, Connection!ProxyAgrees,
         Connection!ProxyAsksOnce, Connection!ProxyRefuses, Connection!CloseEverything, Connection!SslNew,
         Connection!LoadCerts, Connection!Handshake, Connection!Verify, Connection!SetupFails, Connection!Ready,
         Connection!Again, Connection!Fresh, Connection!Goto, Connection!Return
<1>4. address' \in 1..(Addresses + 1)
  BY <1>0, ConnectTypes DEF Connection!Constants, PlaceOK, Connection!Next, Connection!vars, Connection!net, Connection!store, Connection!outcome,
         Connection!Resolve, Connection!OutOfAddresses, Connection!Socket, Connection!ConnectSocket,
         Connection!WaitUntilReady, Connection!NextAddress, Connection!ConnectingFails, Connection!Connected,
         Connection!NoSocket, Connection!NoProxy, Connection!ProxyFails, Connection!ProxyAgrees,
         Connection!ProxyAsksOnce, Connection!ProxyRefuses, Connection!CloseEverything, Connection!SslNew,
         Connection!LoadCerts, Connection!Handshake, Connection!Verify, Connection!SetupFails, Connection!Ready,
         Connection!Again, Connection!Fresh, Connection!Goto, Connection!Return
<1>5. sockets' \in 0..1
  BY <1>0, ConnectTypes DEF MadeOK, Making, AllOrNothing, Connection!AllOrNothing, ConnectInv, Connection!Next, Connection!vars, Connection!net, Connection!store, Connection!outcome,
         Connection!Resolve, Connection!OutOfAddresses, Connection!Socket, Connection!ConnectSocket,
         Connection!WaitUntilReady, Connection!NextAddress, Connection!ConnectingFails, Connection!Connected,
         Connection!NoSocket, Connection!NoProxy, Connection!ProxyFails, Connection!ProxyAgrees,
         Connection!ProxyAsksOnce, Connection!ProxyRefuses, Connection!CloseEverything, Connection!SslNew,
         Connection!LoadCerts, Connection!Handshake, Connection!Verify, Connection!SetupFails, Connection!Ready,
         Connection!Again, Connection!Fresh, Connection!Goto, Connection!Return
<1>6. asked' \in 0..2
  BY <1>0, ConnectTypes DEF PlaceOK, Connection!Next, Connection!vars, Connection!net, Connection!store, Connection!outcome,
         Connection!Resolve, Connection!OutOfAddresses, Connection!Socket, Connection!ConnectSocket,
         Connection!WaitUntilReady, Connection!NextAddress, Connection!ConnectingFails, Connection!Connected,
         Connection!NoSocket, Connection!NoProxy, Connection!ProxyFails, Connection!ProxyAgrees,
         Connection!ProxyAsksOnce, Connection!ProxyRefuses, Connection!CloseEverything, Connection!SslNew,
         Connection!LoadCerts, Connection!Handshake, Connection!Verify, Connection!SetupFails, Connection!Ready,
         Connection!Again, Connection!Fresh, Connection!Goto, Connection!Return
<1>7. nonblocking' \in BOOLEAN /\ session' \in BOOLEAN
  BY <1>0, ConnectTypes DEF Connection!Next, Connection!vars, Connection!net, Connection!store, Connection!outcome,
         Connection!Resolve, Connection!OutOfAddresses, Connection!Socket, Connection!ConnectSocket,
         Connection!WaitUntilReady, Connection!NextAddress, Connection!ConnectingFails, Connection!Connected,
         Connection!NoSocket, Connection!NoProxy, Connection!ProxyFails, Connection!ProxyAgrees,
         Connection!ProxyAsksOnce, Connection!ProxyRefuses, Connection!CloseEverything, Connection!SslNew,
         Connection!LoadCerts, Connection!Handshake, Connection!Verify, Connection!SetupFails, Connection!Ready,
         Connection!Again, Connection!Fresh, Connection!Goto, Connection!Return
<1>8. once' \in BOOLEAN /\ certs' \in BOOLEAN /\ trusted' \in BOOLEAN
  BY <1>0, ConnectTypes DEF Connection!Next, Connection!vars, Connection!net, Connection!store, Connection!outcome,
         Connection!Resolve, Connection!OutOfAddresses, Connection!Socket, Connection!ConnectSocket,
         Connection!WaitUntilReady, Connection!NextAddress, Connection!ConnectingFails, Connection!Connected,
         Connection!NoSocket, Connection!NoProxy, Connection!ProxyFails, Connection!ProxyAgrees,
         Connection!ProxyAsksOnce, Connection!ProxyRefuses, Connection!CloseEverything, Connection!SslNew,
         Connection!LoadCerts, Connection!Handshake, Connection!Verify, Connection!SetupFails, Connection!Ready,
         Connection!Again, Connection!Fresh, Connection!Goto, Connection!Return
<1>9. connect_error' \in Connection!Errors
  BY <1>0, ConnectTypes DEF Connection!Errors, Connection!Next, Connection!vars, Connection!net, Connection!store, Connection!outcome,
         Connection!Resolve, Connection!OutOfAddresses, Connection!Socket, Connection!ConnectSocket,
         Connection!WaitUntilReady, Connection!NextAddress, Connection!ConnectingFails, Connection!Connected,
         Connection!NoSocket, Connection!NoProxy, Connection!ProxyFails, Connection!ProxyAgrees,
         Connection!ProxyAsksOnce, Connection!ProxyRefuses, Connection!CloseEverything, Connection!SslNew,
         Connection!LoadCerts, Connection!Handshake, Connection!Verify, Connection!SetupFails, Connection!Ready,
         Connection!Again, Connection!Fresh, Connection!Goto, Connection!Return
<1>10. result' \in {"none", "true", "false", "connected"} /\ res' \in {"none", "proxy"}
  BY <1>0, ConnectTypes DEF Connection!Next, Connection!vars, Connection!net, Connection!store, Connection!outcome,
         Connection!Resolve, Connection!OutOfAddresses, Connection!Socket, Connection!ConnectSocket,
         Connection!WaitUntilReady, Connection!NextAddress, Connection!ConnectingFails, Connection!Connected,
         Connection!NoSocket, Connection!NoProxy, Connection!ProxyFails, Connection!ProxyAgrees,
         Connection!ProxyAsksOnce, Connection!ProxyRefuses, Connection!CloseEverything, Connection!SslNew,
         Connection!LoadCerts, Connection!Handshake, Connection!Verify, Connection!SetupFails, Connection!Ready,
         Connection!Again, Connection!Fresh, Connection!Goto, Connection!Return
<1> QED BY <1>1, <1>2, <1>3, <1>4, <1>5, <1>6, <1>7, <1>8, <1>9, <1>10 DEF Connection!TypeOK, Making

(* How far it has come before any connection is there.                     *)
LEMMA AddressStep ==
  ASSUME Connection!Constants, ConnectInv,
         \/ Connection!Resolve \/ Connection!OutOfAddresses \/ Connection!Socket
         \/ Connection!ConnectSocket \/ Connection!WaitUntilReady
  PROVE  ConnectInv'
<1>1. Connection!TypeOK'
  BY ConnectTypeStep DEF Connection!Next
<1>2. PlaceOK'
  BY DEF Connection!Constants, ConnectInv, PlaceOK, MadeOK, AllOrNothing, Making, Shaking, Connection!TypeOK,
         Connection!Resolve, Connection!OutOfAddresses, Connection!Socket, Connection!ConnectSocket,
         Connection!WaitUntilReady, Connection!Goto, Connection!Return, Connection!NoSocket, Connection!NextAddress,
         Connection!ConnectingFails, Connection!Connected, Connection!net, Connection!store, Connection!outcome
<1>3. MadeOK' /\ Connection!AllOrNothing' /\ Connection!OnlyTrusted'
  BY DEF Connection!Constants, ConnectInv, PlaceOK, MadeOK, AllOrNothing, Making, Shaking, Connection!TypeOK,
         Connection!AllOrNothing, Connection!OnlyTrusted,
         Connection!Resolve, Connection!OutOfAddresses, Connection!Socket, Connection!ConnectSocket,
         Connection!WaitUntilReady, Connection!Goto, Connection!Return, Connection!NoSocket, Connection!NextAddress,
         Connection!ConnectingFails, Connection!Connected, Connection!net, Connection!store, Connection!outcome
<1> QED BY <1>1, <1>2, <1>3 DEF ConnectInv, AllOrNothing

(* The proxy's tunnel.                                                      *)
LEMMA ProxyStep ==
  ASSUME Connection!Constants, ConnectInv,
         \/ Connection!NoProxy \/ Connection!ProxyFails \/ Connection!ProxyAgrees
         \/ Connection!ProxyAsksOnce \/ Connection!ProxyRefuses
  PROVE  ConnectInv'
<1>1. Connection!TypeOK'
  BY ConnectTypeStep DEF Connection!Next
<1>2. PlaceOK' /\ MadeOK' /\ Connection!AllOrNothing' /\ Connection!OnlyTrusted'
  BY DEF Connection!Constants, ConnectInv, PlaceOK, MadeOK, AllOrNothing, Making, Shaking, Connection!TypeOK, Connection!Settings,
         Connection!AllOrNothing, Connection!OnlyTrusted,
         Connection!NoProxy, Connection!ProxyFails, Connection!ProxyAgrees, Connection!ProxyAsksOnce,
         Connection!ProxyRefuses, Connection!CloseEverything, Connection!Goto, Connection!Return,
         Connection!net, Connection!store, Connection!outcome
<1> QED BY <1>1, <1>2 DEF ConnectInv, AllOrNothing

(* TLS, from the session to the certificate.                                *)
LEMMA HandshakeStep ==
  ASSUME Connection!Constants, ConnectInv,
         Connection!SslNew \/ Connection!LoadCerts \/ Connection!Handshake \/ Connection!Verify
  PROVE  ConnectInv'
<1>1. Connection!TypeOK'
  BY ConnectTypeStep DEF Connection!Next
<1>2. PlaceOK' /\ MadeOK' /\ Connection!AllOrNothing' /\ Connection!OnlyTrusted'
  <2> USE ConnectTypes DEF ConnectInv, PlaceOK, MadeOK, AllOrNothing, Making, Shaking, Connection!AllOrNothing,
          Connection!OnlyTrusted, Connection!Settings
  <2>1. CASE Connection!SslNew
    <3>1. CASE connect_pc' = "returned"
      BY <2>1, <3>1 DEF Connection!SslNew, Connection!CloseEverything, Connection!Goto, Connection!Return, Connection!store
    <3>2. CASE connect_pc' # "returned"
      <4>1. /\ connect_pc' = (IF settings.verify THEN "certs" ELSE "handshake") /\ settings' = settings
            /\ session' = TRUE /\ sockets' = sockets /\ connect_error' = connect_error /\ result' = result
            /\ connect_pc = "ssl" /\ certs' = certs /\ trusted' = trusted
        BY <2>1, <3>2 DEF Connection!SslNew, Connection!Goto, Connection!Return, Connection!outcome, Connection!store
      <4>2. connect_pc' \in Shaking /\ (connect_pc' \in {"certs", "verify"} => settings.verify)
        BY <4>1
      <4>3. sockets' = 1 /\ connect_error' = "success" /\ settings.ssl /\ result' = "none"
        BY <4>1
      <4> QED BY <4>1, <4>2, <4>3
    <3> QED BY <3>1, <3>2
  <2>2. CASE Connection!LoadCerts
    BY <2>2 DEF Connection!LoadCerts, Connection!SetupFails, Connection!Goto, Connection!Return,
         Connection!net, Connection!outcome
  <2>3. CASE Connection!Handshake
    BY <2>3 DEF Connection!Handshake, Connection!SetupFails, Connection!Ready, Connection!Goto, Connection!Return,
         Connection!net, Connection!store, Connection!outcome
  <2>4. CASE Connection!Verify
    BY <2>4 DEF Connection!Verify, Connection!SetupFails, Connection!Ready, Connection!Goto, Connection!Return,
         Connection!store
  <2> QED BY <2>1, <2>2, <2>3, <2>4
<1> QED BY <1>1, <1>2 DEF ConnectInv, AllOrNothing

LEMMA AgainStep ==
  ASSUME Connection!Constants, ConnectInv, Connection!Again \/ UNCHANGED Connection!vars
  PROVE  ConnectInv'
<1>0. Connection!TypeOK'
  BY ConnectTypeStep DEF Connection!Next
<1>1. CASE Connection!Again
  BY <1>0, <1>1 DEF ConnectInv, PlaceOK, MadeOK, AllOrNothing, Making, Shaking, Connection!TypeOK,
       Connection!AllOrNothing, Connection!OnlyTrusted, Connection!Again, Connection!Fresh, Connection!store
<1>2. CASE UNCHANGED Connection!vars
  BY <1>0, <1>2 DEF ConnectInv, PlaceOK, MadeOK, AllOrNothing, Connection!AllOrNothing, Connection!OnlyTrusted,
       Connection!vars, Connection!net, Connection!store, Connection!outcome
<1> QED BY <1>1, <1>2

LEMMA ConnectStep ==
  ASSUME ConnectInv, [Connection!Next]_(Connection!vars)
  PROVE  ConnectInv'
BY ConnectAssumption, AddressStep, ProxyStep, HandshakeStep, AgainStep DEF Connection!Next

LEMMA ConnectInitOK == Connection!Init => ConnectInv
<1> SUFFICES ASSUME Connection!Init PROVE ConnectInv
  OBVIOUS
<1>1. settings \in Connection!Settings /\ (settings.proxy \/ settings.verify => settings.ssl)
  BY DEF Connection!Init
<1>2. Connection!TypeOK
  <2>1. times \in 1..Times /\ address \in 1..(Addresses + 1)
    BY ConnectAssumption DEF Connection!Init, Connection!Constants
  <2>2. /\ nonblocking \in BOOLEAN /\ session \in BOOLEAN
        /\ once \in BOOLEAN /\ certs \in BOOLEAN /\ trusted \in BOOLEAN
    BY DEF Connection!Init
  <2>3. /\ connect_pc = "resolve" /\ sockets \in 0..1 /\ asked \in 0..2 /\ connect_error \in Connection!Errors
        /\ result = "none" /\ res = "none"
    BY DEF Connection!Init, Connection!Errors
  <2> QED BY <1>1, <2>1, <2>2, <2>3, ConnectTypes
<1>3. Connection!AllOrNothing /\ Connection!OnlyTrusted
  BY DEF Connection!Init, Connection!AllOrNothing, Connection!OnlyTrusted
<1>4. connect_pc \notin {"ssl", "certs", "verify", "proxy", "connect", "wait", "returned"} \cup Making \cup Shaking
  BY DEF Connection!Init, Making, Shaking
<1>5. PlaceOK
  BY <1>1, <1>4 DEF Connection!Init, PlaceOK
<1>6. MadeOK
  <2>1. connect_pc = "resolve" /\ sockets = 0 /\ session = FALSE /\ nonblocking = FALSE /\ connect_error = "success"
    BY DEF Connection!Init
  <2>2. session = (connect_pc \in Shaking)
    <3>1. (connect_pc \in Shaking) = FALSE
      BY <1>4
    <3> QED BY <2>1, <3>1
  <2> QED BY <1>4, <2>1, <2>2 DEF MadeOK
<1> QED BY <1>2, <1>3, <1>5, <1>6 DEF ConnectInv, AllOrNothing

(* For any number of addresses and of connections, whatever fails and with  *)
(* which settings: a connection is made whole and to a trusted server, or   *)
(* leaves nothing.                                                          *)
THEOREM ConnectionsAreWhole == MCSpec => []AllOrNothing
<1>1. MCInit => ConnectInv
  BY ConnectInitOK DEF MCInit
<1>2. ConnectInv /\ [MCNext]_all => ConnectInv'
  <2> SUFFICES ASSUME ConnectInv, [MCNext]_all PROVE ConnectInv'
    OBVIOUS
  <2>1. [Connection!Next]_(Connection!vars)
    BY DEF MCNext, all, connect_vars, Connection!vars, Connection!net, Connection!store, Connection!outcome
  <2> QED BY <2>1, ConnectStep
<1>3. ConnectInv => AllOrNothing
  BY DEF ConnectInv
<1> QED BY <1>1, <1>2, <1>3, PTL DEF MCSpec
-----------------------------------------------------------------------------
(* A client that keeps its connection and sends no request inside another:  *)
(* a stop() during a request is remembered until the request is done.       *)
PlainOK ==
  /\ pc = "idle" <=> owner = None
  /\ frames = IF pc = "idle" THEN <<>> ELSE <<Frame(0, 0)>>
  /\ error # "peer_closed"
  /\ in_flight = IF pc \in Sending THEN 1 ELSE 0
  /\ stopped /\ pc \in Sending => should_close
  /\ pc = "send_" => ~stopped
  /\ pc = "return" /\ stopped => sock = None

(* What such a client cannot do.                                            *)
LEMMA PlainNever ==
  ASSUME PlainOK
  PROVE  /\ ~Plain!Redirect /\ ~Plain!RedirectElsewhere /\ ~Plain!Authorize
         /\ ~Plain!PeerClosed /\ ~Plain!SendAgain /\ ~Plain!ReturnInside
<1>1. ~Plain!PeerClosed /\ ~Plain!SendAgain
  BY DEF PlainOK, Plain!PeerClosed, Plain!SendAgain, Plain!Again
<1>2. CASE pc = "idle"
  BY <1>2 DEF Plain!Redirect, Plain!RedirectElsewhere, Plain!Authorize, Plain!Decides, Plain!ReturnInside, Plain!Returns,
              Plain!PeerClosed, Plain!SendAgain
<1>3. CASE pc # "idle"
  <2>1. Len(frames) = 1 /\ Plain!Top = Frame(0, 0)
    BY <1>3 DEF PlainOK, Plain!Top
  <2>2. Plain!Top.redirects = 0 /\ Plain!Top.auths = 0
    BY <2>1 DEF Frame
  <2> QED BY <1>1, <2>1, <2>2 DEF Plain!Redirect, Plain!RedirectElsewhere, Plain!Authorize, Plain!Denied, Plain!ReturnInside
<1> QED BY <1>2, <1>3

(* A request begins, an attempt begins.                                     *)
LEMMA PlainBegins ==
  ASSUME PlainOK, (\E t \in Threads : Plain!Send(t)) \/ Plain!Reuse \/ \E fd \in Fds : Plain!Connect(fd)
  PROVE  PlainOK'
<1>1. CASE \E t \in Threads : Plain!Send(t)
  BY <1>1, NoneAssumption DEF Plain!Send, PlainOK, Sending, flight, Frame, Plain!Frame, Plain!flight
<1>2. CASE Plain!Reuse \/ \E fd \in Fds : Plain!Connect(fd)
  BY <1>2 DEF Plain!Reuse, Plain!Connect, Plain!Begin, PlainOK, Sending
<1> QED BY <1>1, <1>2

LEMMA PlainProceeds ==
  ASSUME PlainOK,
         \/ Plain!ConnectFails \/ Plain!WriteRequest \/ Plain!ReadFails \/ Plain!CloseAsAsked
         \/ Plain!RedirectRefused \/ Plain!Finish \/ Plain!Exit
         \/ \E s \in {"final", "redirect", "unauthorized"}, close \in BOOLEAN : Plain!ReadResponse(s, close)
  PROVE  PlainOK'
<1>1. CASE Plain!ConnectFails
  BY <1>1 DEF Plain!ConnectFails, Plain!Unconnected, Plain!ProxyRefuses, Plain!Closing, PlainOK, Sending, Plain!flight
<1>2. CASE Plain!Exit
  BY <1>2 DEF Plain!Exit, Plain!Closing, PlainOK, Sending
<1>3. CASE ~Plain!ConnectFails /\ ~Plain!Exit
  BY <1>3 DEF Plain!WriteRequest, Plain!ReadFails, Plain!CloseAsAsked, Plain!RedirectRefused, Plain!Finish,
       Plain!ReadResponse, Plain!Works, Plain!Refuted, Plain!Decides, Plain!Top, PlainOK, Sending, Plain!flight
<1> QED BY <1>1, <1>2, <1>3

LEMMA PlainEnds ==
  ASSUME PlainOK, Plain!ReturnResult
  PROVE  PlainOK' /\ (stopped => sock' = None)
BY DEF Plain!ReturnResult, Plain!Returns, PlainOK, Sending, Plain!flight, Plain!socket_

LEMMA PlainOutside ==
  ASSUME PlainOK, Plain!Stop \/ (\E fd \in Fds : Plain!PeerCloses(fd)) \/ UNCHANGED vars
  PROVE  PlainOK'
<1>1. CASE Plain!Stop
  BY <1>1 DEF Plain!Stop, Plain!Closing, PlainOK, Sending, Plain!flight, Plain!request
<1>2. CASE \E fd \in Fds : Plain!PeerCloses(fd)
  BY <1>2 DEF Plain!PeerCloses, PlainOK, Sending, Plain!flight, Plain!request
<1>3. CASE UNCHANGED vars
  BY <1>3 DEF vars, request, socket_, flight, PlainOK, Sending
<1> QED BY <1>1, <1>2, <1>3

LEMMA PlainStep ==
  ASSUME PlainOK, Plain!Next \/ UNCHANGED vars
  PROVE  PlainOK'
BY PlainNever, PlainBegins, PlainProceeds, PlainEnds, PlainOutside DEF Plain!Next, Plain!Step

LEMMA PlainDone ==
  ASSUME PlainOK, Plain!Next, Done
  PROVE  Plain!ReturnResult
BY DEF Done, Plain!Next, Plain!Step, Plain!Send, Plain!Reuse, Plain!Connect, Plain!Begin, Plain!ConnectFails,
  Plain!WriteRequest, Plain!PeerClosed, Plain!ReadFails, Plain!ReadResponse, Plain!CloseAsAsked, Plain!RedirectRefused,
  Plain!Redirect, Plain!RedirectElsewhere, Plain!Authorize, Plain!Finish, Plain!Decides, Plain!Exit, Plain!SendAgain,
  Plain!ReturnInside, Plain!Works, Plain!Stop, Plain!PeerCloses, Plain!request

(* The two clients of the run.                                              *)
PartsInv == (part = "nested" => ClientInv) /\ (part = "plain" => PlainOK)

(* For any number of threads, requests and stops: without keep-alive no     *)
(* request that is done leaves a connection, however requests nest; and a   *)
(* connection that is kept is gone when a stop() came during the request.   *)
THEOREM NothingStaysBehind == KeepAlive = FALSE => (MCSpec => NothingStays)
<1> SUFFICES ASSUME KeepAlive = FALSE PROVE MCSpec => NothingStays
  OBVIOUS
<1>1. MCInit => PartsInv
  <2>1. Init => PlainOK
    BY DEF Init, PlainOK, Sending
  <2> QED BY <2>1, InitOK DEF MCInit, PartsInv
<1>2. PartsInv /\ [MCNext]_all => PartsInv'
  <2> SUFFICES ASSUME PartsInv, [MCNext]_all PROVE PartsInv'
    OBVIOUS
  <2>1. part' = part /\ (part = "nested" => [Next]_vars) /\ (part = "plain" => Plain!Next \/ UNCHANGED vars)
    BY DEF MCNext, all
  <2> QED BY <2>1, ClientStep, PlainStep DEF PartsInv
<1>3. PartsInv /\ [MCNext]_all => [Done /\ (part = "plain" => stopped) => sock' = None]_vars
  <2> SUFFICES ASSUME PartsInv, [MCNext]_all, ~UNCHANGED vars, Done, part = "plain" => stopped PROVE sock' = None
    OBVIOUS
  <2>1. (part = "nested" /\ Next) \/ (part = "plain" /\ Plain!Next)
    BY DEF MCNext, all
  <2>2. CASE part = "nested" /\ Next
    BY <2>2, DoneIsClosed DEF PartsInv
  <2>3. CASE part = "plain" /\ Plain!Next
    BY <2>3, PlainDone, PlainEnds DEF PartsInv
  <2> QED BY <2>1, <2>2, <2>3
<1> QED BY <1>1, <1>2, <1>3, PTL DEF MCSpec, NothingStays
=============================================================================
