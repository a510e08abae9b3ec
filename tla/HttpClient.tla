----------------------------- MODULE HttpClient -----------------------------
(***************************************************************************)
(* ClientImpl and SSLClient of httplib: the life of the one socket that the *)
(* requests of several threads share.  A recursive mutex lets one request   *)
(* through at a time; a redirect or an authentication sends another from    *)
(* within; stop() comes from any thread and may only shut the socket down   *)
(* while a request uses it.  Each block under socket_mutex_ is one step.    *)
(***************************************************************************)
EXTENDS Integers, Sequences

CONSTANTS
  Threads,    (* threads that send                                          *)
  Calls,      (* requests a thread sends                                    *)
  Stops,      (* times stop() is called                                     *)
  Redirects,  (* CPPHTTPLIB_REDIRECT_MAX_COUNT; the code: 20                *)
  Auths,      (* authentications of a request; the code: 5                  *)
  KeepAlive,  (* keep_alive_                                                *)
  Ssl,        (* is_ssl()                                                   *)
  Fds,        (* file descriptors                                           *)
  None        (* no thread, no descriptor                                   *)

ASSUME CountsAssumption == Calls \in Nat /\ Stops \in Nat /\ Redirects \in Nat /\ Auths \in Nat
ASSUME SettingsAssumption == KeepAlive \in BOOLEAN /\ Ssl \in BOOLEAN
ASSUME NoneAssumption == None \notin Threads \cup Fds

VARIABLES
  calls, stops,      (* requests sent by each thread, stops                 *)
  owner,             (* holder of request_mutex_                            *)
  frames, pc,        (* calls of send inside each other; where the last is  *)
  ret, error, status,(* ... and what it has come to                         *)
  stream,            (* the descriptor its stream reads and writes          *)
  sock, ssl,         (* socket_                                             *)
  in_flight, from,   (* socket_requests_in_flight_, ..._are_from_thread_    *)
  should_close,      (* socket_should_be_closed_when_request_is_done_       *)
  kernel,            (* what the system makes of each descriptor            *)
  stopped,           (* stop() came while this request was in flight        *)
  broken             (* an assertion has failed                             *)

request == <<calls, owner, frames, pc, ret, error, status, stream>>
socket_ == <<sock, ssl, kernel>>
flight == <<in_flight, from>>
vars == <<request, socket_, flight, should_close, stops, stopped, broken>>

Init ==
  /\ calls = [t \in Threads |-> 0] /\ stops = 0
  /\ owner = None /\ frames = <<>> /\ pc = "idle"
  /\ ret = TRUE /\ error = "success" /\ status = "final" /\ stream = None
  /\ sock = None /\ ssl = FALSE
  /\ in_flight = 0 /\ from = None /\ should_close = FALSE
  /\ kernel = [f \in Fds |-> "free"]
  /\ stopped = FALSE /\ broken = FALSE

Top == frames[Len(frames)]
Frame(redirects, auths) ==
  [redirects |-> redirects, auths |-> auths, try |-> 1, doing |-> "request"]
Up(changed) == [frames EXCEPT ![Len(frames)] = changed]

(* shutdown_ssl, shutdown_socket and close_socket: assert that no request   *)
(* of another thread uses the socket.                                       *)
Freed == [f \in Fds |-> IF f = sock THEN "free" ELSE kernel[f]]
OthersUse(n, thread) == n # 0 /\ from # thread
Closing == sock' = None /\ ssl' = FALSE /\ kernel' = Freed

(***************************************************************************)
(* send_ up to the request.                                                 *)
(***************************************************************************)
Send(t) ==
  /\ owner = None /\ calls[t] < Calls
  /\ calls' = [calls EXCEPT ![t] = @ + 1]
  /\ owner' = t /\ frames' = <<Frame(Redirects, 0)>> /\ pc' = "send_"
  /\ error' = "success" /\ stopped' = FALSE
  /\ UNCHANGED <<ret, status, stream, socket_, flight, should_close, stops, broken>>

Alive == sock # None /\ kernel[sock] = "live"

Begin(fd, tls) ==
  /\ pc = "send_" /\ should_close' = FALSE
  /\ in_flight' = in_flight + 1 /\ from' = owner
  /\ stream' = fd /\ pc' = "write"
  /\ broken' = (broken \/ (in_flight > 1 /\ from # owner) \/ (Ssl /\ ~tls)
                       \/ (~Alive /\ OthersUse(in_flight, owner)))
  /\ UNCHANGED <<calls, owner, frames, ret, status, stops, stopped>>

Reuse == Alive /\ Begin(sock, ssl) /\ UNCHANGED <<socket_, error>>

Connect(fd) ==
  /\ ~Alive /\ Freed[fd] = "free"
  /\ Begin(fd, Ssl)
  /\ sock' = fd /\ ssl' = Ssl /\ kernel' = [Freed EXCEPT ![fd] = "live"]
  /\ error' = "success"

(* Mutant: a handshake that fails leaves the socket open.                   *)
ConnectLeaves ==
  /\ pc = "send_" /\ ~Alive /\ should_close' = FALSE
  /\ \E fd \in Fds : Freed[fd] = "free" /\ sock' = fd /\ kernel' = [Freed EXCEPT ![fd] = "live"]
  /\ ssl' = FALSE /\ error' = "ssl" /\ ret' = FALSE /\ pc' = "return"
  /\ broken' = (broken \/ OthersUse(in_flight, owner))
  /\ UNCHANGED <<calls, owner, frames, status, stream, flight, stops, stopped>>

(* No connection, no answer of the proxy, no handshake with the peer, or no *)
(* TLS to begin with: a context or a session that could not be made leaves  *)
(* error as it is.                                                         *)
Unconnected ==
  /\ ret' = FALSE /\ UNCHANGED status
  /\ \/ error' = (IF error = "success" THEN "connection" ELSE error)
     \/ error' = "connection"
     \/ Ssl /\ error' \in {error, "success", "ssl", "write", "read"}

(* A proxy that refuses: send_ returns true, and its answer as the answer   *)
(* to the request.  A proxy may be set for one connection and not another.  *)
ProxyRefuses ==
  /\ Ssl /\ ret' = TRUE /\ error' = "proxy_connection"
  /\ status' \in {"final", "redirect", "unauthorized"}

ConnectFails ==
  /\ pc = "send_" /\ ~Alive /\ should_close' = FALSE
  /\ Unconnected \/ ProxyRefuses
  /\ Closing /\ pc' = "return"
  /\ broken' = (broken \/ OthersUse(in_flight, owner))
  /\ UNCHANGED <<calls, owner, frames, stream, flight, stops, stopped>>

(***************************************************************************)
(* process_request.                                                         *)
(***************************************************************************)
Works == UNCHANGED <<calls, owner, frames, stream, socket_, flight, should_close, stops, stopped, broken>>
Refuted(e) == ret' = FALSE /\ error' = e /\ pc' = "exit" /\ UNCHANGED status

WriteRequest ==
  /\ pc = "write" /\ Works
  /\ \/ kernel[stream] = "live" /\ pc' = "read" /\ UNCHANGED <<ret, error, status>>
     \/ Refuted("write")

(* The peer has closed in order before it has answered: SSL_peek sees it.   *)
PeerClosed == pc = "read" /\ Ssl /\ kernel[stream] = "gone" /\ Works /\ Refuted("peer_closed")

ReadResponse(s, close) ==
  /\ pc = "read" /\ kernel[stream] \in {"live", "gone"} /\ Works
  /\ status' = s /\ ret' = TRUE /\ pc' = (IF close THEN "close" ELSE "decide")
  /\ UNCHANGED error

ReadFails == pc = "read" /\ Works /\ Refuted("read")

(***************************************************************************)
(* handle_request after the response.                                       *)
(***************************************************************************)
CloseAsAsked ==
  /\ pc = "close" /\ pc' = "decide"
  /\ Closing /\ broken' = (broken \/ OthersUse(in_flight, owner))
  /\ UNCHANGED <<calls, owner, frames, ret, error, status, stream, flight, should_close, stops, stopped>>

Decides == pc = "decide" /\ UNCHANGED <<calls, owner, stream, socket_, flight, should_close, stops, stopped, broken>>
Moved == status = "redirect" /\ Top.doing = "request"
Denied == status = "unauthorized" /\ Top.doing # "authorize" /\ Top.auths < Auths

RedirectRefused ==
  /\ Decides /\ Moved /\ UNCHANGED <<frames, status>>
  /\ ret' = FALSE /\ pc' = "exit"
  /\ error' = IF Top.redirects = 0 THEN "exceed_redirect" ELSE error

Redirect ==
  /\ Decides /\ Moved /\ Top.redirects > 0
  /\ frames' = Append(Up([Top EXCEPT !.doing = "redirect"]), Frame(Top.redirects - 1, Top.auths))
  /\ pc' = "send_" /\ UNCHANGED <<ret, error, status>>

(* To another server, with a client of its own and the same proxy.         *)
RedirectElsewhere ==
  /\ Decides /\ Moved /\ Top.redirects > 0
  /\ \/ /\ status' \in {"final", "unauthorized"} /\ error' \in {"success", "proxy_connection"}
        /\ frames' = Up([Top EXCEPT !.doing = "redirect", !.redirects = @ - 1])
        /\ UNCHANGED <<ret, pc>>
     \/ ret' = FALSE /\ error' = "read" /\ pc' = "exit" /\ UNCHANGED <<frames, status>>

(* Mutant: a server that denies again is authorized to again.               *)
AuthorizeAlways ==
  /\ Decides /\ status = "unauthorized" /\ Top.doing # "authorize"
  /\ frames' = Append(Up([Top EXCEPT !.doing = "authorize"]), Frame(Top.redirects, Top.auths + 1))
  /\ pc' = "send_" /\ UNCHANGED <<ret, error, status>>

Authorize ==
  /\ Decides /\ Denied
  /\ frames' = Append(Up([Top EXCEPT !.doing = "authorize"]), Frame(Top.redirects, Top.auths + 1))
  /\ pc' = "send_" /\ UNCHANGED <<ret, error, status>>

(* Also a 401 or 407 for which there are no credentials.                   *)
Finish == Decides /\ ~Moved /\ pc' = "exit" /\ UNCHANGED <<frames, ret, error, status>>

(***************************************************************************)
(* The end of send_, and send.                                              *)
(***************************************************************************)

Exit ==
  /\ pc = "exit" /\ pc' = "return"
  /\ error' = IF ~ret /\ error = "success" THEN "unknown" ELSE error
  /\ in_flight' = in_flight - 1
  /\ from' = IF in_flight' <= 0 THEN None ELSE from
  /\ IF should_close \/ ~KeepAlive \/ ~ret THEN Closing ELSE UNCHANGED socket_
  /\ broken' = (broken \/ in_flight' < 0 \/ OthersUse(in_flight', owner))
  /\ UNCHANGED <<calls, owner, frames, ret, status, stream, should_close, stops, stopped>>

Returns == pc = "return" /\ UNCHANGED <<calls, ret, error, status, stream, socket_, flight, should_close, stops, stopped>>
Again == error = "peer_closed" /\ Top.try = 1

(* Mutant: send tries for as long as the peer closes.                       *)
SendForEver ==
  /\ Returns /\ error = "peer_closed"
  /\ frames' = Up([Top EXCEPT !.try = 2]) /\ pc' = "send_"
  /\ broken' = (broken \/ ret)
  /\ UNCHANGED owner

SendAgain ==
  /\ Returns /\ Again
  /\ frames' = Up([Top EXCEPT !.try = 2]) /\ pc' = "send_"
  /\ broken' = (broken \/ ret)
  /\ UNCHANGED owner

ReturnInside ==
  /\ Returns /\ ~Again /\ Len(frames) > 1
  /\ LET outer == frames[Len(frames) - 1]
         left == SubSeq(frames, 1, Len(frames) - 1)
         more == ret /\ outer.doing = "redirect"
     IN /\ pc' = IF more THEN "decide" ELSE "exit"
        /\ frames' = IF more THEN [left EXCEPT ![Len(left)].redirects = @ - 1] ELSE left
  /\ UNCHANGED <<owner, broken>>

ReturnResult ==
  /\ Returns /\ ~Again /\ Len(frames) = 1
  /\ frames' = <<>> /\ owner' = None /\ pc' = "idle"
  /\ UNCHANGED broken

(***************************************************************************)
(* stop(), and the peer.                                                    *)
(***************************************************************************)

(* Mutant: stop closes the socket under the request that uses it.           *)
StopCloses ==
  /\ stops < Stops /\ stops' = stops + 1
  /\ Closing /\ should_close' = (in_flight > 0) /\ stopped' = (in_flight > 0)
  /\ UNCHANGED <<request, flight, broken>>

(* Mutant: stop counts on the request to fail and sets no flag.             *)
StopUnflagged ==
  /\ stops < Stops /\ stops' = stops + 1
  /\ IF in_flight > 0
     THEN /\ kernel' = [f \in Fds |-> IF f = sock THEN "shut" ELSE kernel[f]]
          /\ stopped' = TRUE
          /\ UNCHANGED <<sock, ssl, should_close, broken>>
     ELSE Closing /\ UNCHANGED <<should_close, stopped, broken>>
  /\ UNCHANGED <<request, flight>>

Stop ==
  /\ stops < Stops /\ stops' = stops + 1
  /\ IF in_flight > 0
     THEN /\ kernel' = [f \in Fds |-> IF f = sock THEN "shut" ELSE kernel[f]]
          /\ should_close' = TRUE /\ stopped' = TRUE
          /\ UNCHANGED <<sock, ssl, broken>>
     ELSE Closing /\ UNCHANGED <<should_close, stopped, broken>>
  /\ UNCHANGED <<request, flight>>

PeerCloses(fd) ==
  /\ kernel[fd] = "live" /\ kernel' = [kernel EXCEPT ![fd] = "gone"]
  /\ UNCHANGED <<request, sock, ssl, flight, should_close, stops, stopped, broken>>

Step ==
  \/ Reuse \/ (\E fd \in Fds : Connect(fd)) \/ ConnectFails
  \/ WriteRequest \/ PeerClosed \/ ReadFails
  \/ \E s \in {"final", "redirect", "unauthorized"}, close \in BOOLEAN : ReadResponse(s, close)
  \/ CloseAsAsked \/ RedirectRefused \/ Redirect \/ RedirectElsewhere \/ Authorize \/ Finish
  \/ Exit \/ SendAgain \/ ReturnInside \/ ReturnResult

Next ==
  \/ \E t \in Threads : Send(t)
  \/ Step \/ Stop \/ \E fd \in Fds : PeerCloses(fd)

Spec == Init /\ [][Next]_vars

(* Every wait of a request has its timeout.                                *)
FairSpec == Spec /\ WF_vars(Step)
-----------------------------------------------------------------------------
Errors == {"success", "connection", "ssl", "proxy_connection", "write", "read", "peer_closed",
           "exceed_redirect", "unknown"}
FrameType == [redirects : 0..Redirects, auths : 0..Auths, try : {1, 2},
              doing : {"request", "redirect", "authorize"}]
FramesTypeOK == frames \in Seq(FrameType)
FlagsTypeOK == {ret, ssl, should_close, stopped, broken} \subseteq BOOLEAN
CountsTypeOK == calls \in [Threads -> 0..Calls] /\ stops \in 0..Stops /\ in_flight \in Int
PlacesTypeOK ==
  /\ owner \in Threads \cup {None} /\ from \in Threads \cup {None}
  /\ pc \in {"idle", "send_", "write", "read", "close", "decide", "exit", "return"}
  /\ error \in Errors /\ status \in {"final", "redirect", "unauthorized"}
  /\ stream \in Fds \cup {None} /\ sock \in Fds \cup {None}
  /\ kernel \in [Fds -> {"free", "live", "shut", "gone"}]
TypeOK == FramesTypeOK /\ FlagsTypeOK /\ CountsTypeOK /\ PlacesTypeOK

(* No assertion of send_, send, shutdown_ssl, close_socket or               *)
(* process_socket ever fails, however requests nest and stop() comes.       *)
AssertsHold == ~broken

(* No descriptor is forgotten, and a TLS session has a socket.              *)
NoneLost == (\A f \in Fds : kernel[f] # "free" => f = sock) /\ (ssl => sock # None)

(* The descriptor a request writes and reads is still the client's own, so  *)
(* that the system cannot have given it to somebody else meanwhile.         *)
OwnSocket == pc \in {"write", "read"} => stream = sock /\ kernel[stream] # "free"

(* A result with a response has no error left by an attempt that was given *)
(* up; the one error that may come with a response is that of a proxy which *)
(* refused.                                                                *)
GoodHasNoError == pc \in {"return", "idle"} /\ ret => error \in {"success", "proxy_connection"}

(* One socket, whatever stops, fails or nests: none is forgotten, none is   *)
(* used that is not the client's, and no response carries the error of a    *)
(* connection, a handshake, a write or a read that failed before it.        *)
OneSocket == NoneLost /\ OwnSocket /\ GoodHasNoError

(* A request that is done leaves no connection behind, without keep-alive.  *)
Done == owner # None /\ owner' = None
IdleIsClosed == [][Done /\ ~KeepAlive => sock' = None]_vars

(* stop() during a request leaves no connection when the request is done.   *)
(* Kept only while no request runs inside it and none is tried again: send_ *)
(* begins by clearing the flag that stop() has set.                         *)
StopIsHeeded == [][Done /\ stopped => sock' = None]_vars

(* Every request returns.                                                   *)
Ends == owner # None ~> owner = None

(* A result without a response has an error. The code does not keep this: a *)
(* TLS session that could not be made leaves Success.                       *)
FailureHasError == pc = "idle" /\ ~ret => error # "success"

(* A result with a response has no error. The code does not keep this with  *)
(* a proxy: its refusal comes as a response with an error; and the error    *)
(* stays when a redirect to another server has met the refusal and the      *)
(* request, sent once more with credentials, is answered.                   *)
ResponseHasNoError == pc = "idle" /\ ret => error = "success"
=============================================================================
