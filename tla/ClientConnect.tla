---------------------------- MODULE ClientConnect ----------------------------
(***************************************************************************)
(* How httplib's client comes by a connection: it tries the addresses of    *)
(* the host one after the other with a non-blocking connect, asks the proxy *)
(* for a tunnel, and shakes hands.  Every step may fail, and whatever has   *)
(* been made before has to go.  The client connects Times times; what      *)
(* HttpClient makes one step of, Connect and ConnectFails, is here in full. *)
(***************************************************************************)
EXTENDS Integers

CONSTANTS
  Addresses,   (* addresses getaddrinfo finds                               *)
  Times        (* connections the client makes                              *)

Constants == Addresses \in Nat /\ Times \in Nat \ {0}

VARIABLES
  settings,     (* is_ssl(), proxy, its credentials, verification           *)
  times,        (* connections still to be made                             *)
  pc, address,  (* where it is, and with which address                      *)
  sockets,      (* sockets that are open                                    *)
  nonblocking,  (* the last of them is non-blocking                         *)
  session,      (* the SSL object exists                                    *)
  asked,        (* CONNECT requests the proxy was sent                      *)
  once, certs,  (* initialize_cert_ has run; the certificates are loaded    *)
  trusted,      (* the server's certificate was verified                    *)
  error, result, res   (* what send_ learns                                 *)

net == <<sockets, nonblocking, session>>
store == <<once, certs>>
outcome == <<error, result, res>>
vars == <<settings, times, pc, address, net, asked, store, trusted, outcome>>

Settings == [ssl : BOOLEAN, proxy : BOOLEAN, credentials : BOOLEAN, verify : BOOLEAN]
Fresh ==
  /\ address' = 1 /\ asked' = 0 /\ trusted' = FALSE
  /\ error' = "success" /\ result' = "none" /\ res' = "none"

Init ==
  /\ settings \in {s \in Settings : (s.proxy \/ s.verify => s.ssl) /\ (s.credentials => s.proxy)}
  /\ times = Times /\ pc = "resolve" /\ address = 1
  /\ sockets = 0 /\ nonblocking = FALSE /\ session = FALSE /\ asked = 0
  /\ once = FALSE /\ certs = FALSE /\ trusted = FALSE
  /\ error = "success" /\ result = "none" /\ res = "none"

Goto(next) == pc' = next /\ UNCHANGED <<settings, times>>
Return(ok, e) == result' = ok /\ error' = e /\ Goto("returned")

(***************************************************************************)
(* create_client_socket and create_socket.                                  *)
(***************************************************************************)
NoSocket == Return("false", IF error = "success" THEN "connection" ELSE error)

(* An unknown host sets no error: the caller does.                         *)
Resolve ==
  /\ pc = "resolve"
  /\ \/ Goto("socket") /\ UNCHANGED outcome
     \/ NoSocket /\ UNCHANGED res
  /\ UNCHANGED <<address, net, asked, store, trusted>>

NextAddress(e) ==
  /\ address' = address + 1 /\ Goto("socket")
  /\ error' = e /\ UNCHANGED <<result, res>>

OutOfAddresses ==
  /\ pc = "socket" /\ address > Addresses
  /\ NoSocket /\ UNCHANGED <<address, net, asked, store, trusted, res>>

Socket ==
  /\ pc = "socket" /\ address <= Addresses
  /\ \/ sockets' = sockets + 1 /\ Goto("connect") /\ UNCHANGED <<outcome, address>>
     \/ NextAddress(error) /\ UNCHANGED sockets       (* or fcntl failed: closed again *)
  /\ nonblocking' = FALSE
  /\ UNCHANGED <<session, asked, store, trusted>>

(* bind_or_connect returned false: create_socket closes.                    *)
ConnectingFails(e) == NextAddress(e) /\ sockets' = sockets - 1 /\ UNCHANGED nonblocking

Connected ==
  /\ nonblocking' = FALSE /\ error' = "success"
  /\ Goto("proxy") /\ UNCHANGED <<sockets, address, result, res>>

ConnectSocket ==
  /\ pc = "connect"
  /\ \/ Connected
     \/ ConnectingFails("connection")
     \/ nonblocking' = TRUE /\ Goto("wait") /\ UNCHANGED <<sockets, address, outcome>>
  /\ UNCHANGED <<session, asked, store, trusted>>

(* wait_until_socket_is_ready: writable, and without a pending error.       *)
WaitUntilReady ==
  /\ pc = "wait"
  /\ \/ Connected
     \/ \E e \in {"connection_timeout", "connection"} : ConnectingFails(e)
  /\ UNCHANGED <<session, asked, store, trusted>>

(***************************************************************************)
(* connect_with_proxy.                                                      *)
(***************************************************************************)
CloseEverything == sockets' = sockets - 1 /\ session' = FALSE /\ UNCHANGED nonblocking

NoProxy ==
  /\ pc = "proxy" /\ ~settings.proxy
  /\ IF settings.ssl THEN Goto("ssl") /\ UNCHANGED outcome
     ELSE Return("connected", error) /\ UNCHANGED res
  /\ UNCHANGED <<address, net, asked, store, trusted>>

ProxyFails ==
  /\ pc = "proxy" /\ settings.proxy
  /\ CloseEverything
  /\ \E e \in {"write", "read"} : Return("false", e)
  /\ UNCHANGED <<address, asked, store, trusted, res>>

ProxyAgrees ==
  /\ pc = "proxy" /\ settings.proxy
  /\ Goto("ssl") /\ asked' = asked + 1
  /\ UNCHANGED <<address, net, store, trusted, outcome>>

ProxyAsksOnce ==
  /\ pc = "proxy" /\ settings.proxy /\ settings.credentials /\ asked = 0
  /\ asked' = 1
  /\ UNCHANGED <<settings, times, pc, address, net, store, trusted, outcome>>

(* The answer of the proxy becomes the answer to the request.               *)
ProxyRefuses ==
  /\ pc = "proxy" /\ settings.proxy
  /\ CloseEverything /\ Return("true", "proxy_connection") /\ res' = "proxy"
  /\ UNCHANGED <<address, asked, store, trusted>>

(***************************************************************************)
(* initialize_ssl.                                                          *)
(***************************************************************************)

(* SSL_new may fail, and sets no error when it does.                       *)
SslNew ==
  /\ pc = "ssl"
  /\ \/ /\ session' = TRUE /\ nonblocking' = TRUE /\ UNCHANGED <<sockets, outcome>>
        /\ Goto(IF settings.verify THEN "certs" ELSE "handshake")
     \/ CloseEverything /\ Return("false", error) /\ UNCHANGED res
  /\ UNCHANGED <<address, asked, store, trusted>>

(* ssl_new frees the session and initialize_ssl closes the socket.          *)
SetupFails(e) ==
  /\ session' = FALSE /\ sockets' = sockets - 1 /\ nonblocking' = FALSE
  /\ Return("false", e) /\ UNCHANGED res

(* call_once: a second connection finds ret as it was set, true.            *)
LoadCerts ==
  /\ pc = "certs"
  /\ IF once THEN UNCHANGED certs ELSE certs' \in BOOLEAN
  /\ once' = TRUE
  /\ IF once \/ certs' THEN Goto("handshake") /\ UNCHANGED <<net, outcome>>
     ELSE SetupFails("ssl_loading_certs")
  /\ UNCHANGED <<address, asked, trusted>>

Ready ==
  /\ nonblocking' = FALSE /\ Return("connected", error)
  /\ UNCHANGED <<sockets, session, res>>

Handshake ==
  /\ pc = "handshake"
  /\ \/ SetupFails("ssl_connection")
     \/ ~settings.verify /\ Ready
     \/ settings.verify /\ Goto("verify") /\ UNCHANGED <<net, outcome>>
  /\ UNCHANGED <<address, asked, store, trusted>>

(* Mutant: the result of the verification is asked for, but not looked at.  *)
VerifyUnseen ==
  /\ pc = "verify" /\ trusted' = certs /\ Ready
  /\ UNCHANGED <<address, asked, store>>

(* The chain is good only with certificates to check it against; and the    *)
(* name in the certificate must be the host's.                             *)
Verify ==
  /\ pc = "verify"
  /\ \/ certs /\ trusted' = TRUE /\ Ready
     \/ trusted' = FALSE /\ SetupFails("ssl_server_verification")
  /\ UNCHANGED <<address, asked, store>>

(* The request is sent and its socket closed; the client may connect again. *)
Again ==
  /\ pc = "returned" /\ times > 1
  /\ times' = times - 1 /\ pc' = "resolve" /\ Fresh
  /\ sockets' = (IF result = "connected" THEN sockets - 1 ELSE sockets)
  /\ session' = FALSE /\ UNCHANGED <<settings, nonblocking, store>>

Next ==
  \/ Resolve \/ OutOfAddresses \/ Socket \/ ConnectSocket \/ WaitUntilReady
  \/ NoProxy \/ ProxyFails \/ ProxyAgrees \/ ProxyAsksOnce \/ ProxyRefuses
  \/ SslNew \/ LoadCerts \/ Handshake \/ Verify \/ Again

Spec == Init /\ [][Next]_vars
FairSpec == Spec /\ WF_vars(Next)
-----------------------------------------------------------------------------
Errors == {"success", "connection", "connection_timeout", "write", "read", "proxy_connection",
           "ssl_connection", "ssl_loading_certs", "ssl_server_verification"}
TypeOK ==
  /\ settings \in Settings /\ times \in 1..Times
  /\ pc \in {"resolve", "socket", "connect", "wait", "proxy", "ssl", "certs", "handshake", "verify", "returned"}
  /\ address \in 1..(Addresses + 1) /\ sockets \in 0..1 /\ asked \in 0..2
  /\ {nonblocking, session, once, certs, trusted} \subseteq BOOLEAN
  /\ error \in Errors /\ result \in {"none", "true", "false", "connected"} /\ res \in {"none", "proxy"}

(* A connection that was not made leaves neither socket nor session; the    *)
(* one that was is a single blocking socket, with a session exactly when    *)
(* the client speaks TLS, and no error of an address before.                *)
AllOrNothing ==
  pc = "returned" =>
    IF result = "connected"
    THEN sockets = 1 /\ ~nonblocking /\ session = settings.ssl /\ error = "success"
    ELSE sockets = 0 /\ ~session

(* With verification, no request goes to a server whose certificate was not *)
(* checked against loaded certificates, also when loading them has failed   *)
(* for an earlier connection.                                               *)
OnlyTrusted == result = "connected" /\ settings.verify => trusted /\ certs

(* Connecting ends, with whatever result.                                   *)
Ends == <>(pc = "returned")
=============================================================================
