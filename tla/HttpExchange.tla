---------------------------- MODULE HttpExchange ----------------------------
(***************************************************************************)
(* What an HTTP/1.1 server promises on each connection, whatever is inside *)
(* it: the bytes it produces are responses, one after the other, each to a *)
(* later request than the one before and whole before the next begins; a   *)
(* connection that ends may cut the stream, but changes nothing before the *)
(* cut.                                                                    *)
(***************************************************************************)
EXTENDS Integers, Sequences

CONSTANT Conns

VARIABLES
  status,   (* none, open, closed                                           *)
  stream,   (* response tokens produced for the connection so far           *)
  busy      (* the request being answered, 0 between responses              *)

vars == <<status, stream, busy>>

Init ==
  /\ status = [c \in Conns |-> "none"]
  /\ stream = [c \in Conns |-> <<>>]
  /\ busy = [c \in Conns |-> 0]

LastReq(s) == IF s = <<>> THEN 0 ELSE s[Len(s)].req
Others(c) == \A d \in Conns \ {c} :
  status'[d] = status[d] /\ stream'[d] = stream[d] /\ busy'[d] = busy[d]

Cut(s, t) == \E n \in 0..Len(s) : t = SubSeq(s, 1, n)
Added(c) == SubSeq(stream'[c], Len(stream[c]) + 1, Len(stream'[c]))

Open(c) ==
  /\ status[c] = "none" /\ status'[c] = "open"
  /\ stream'[c] = <<>> /\ busy'[c] = 0

(* A response begins with its header, when the one before is over. *)
Begin(c) ==
  LET r == Added(c)[1].req IN
  /\ status[c] = "open" /\ status'[c] = "open"
  /\ busy[c] = 0
  /\ Cut(stream'[c], stream[c]) /\ Added(c) # <<>>
  /\ r > LastReq(stream[c])
  /\ \A i \in DOMAIN Added(c) :
       Added(c)[i].req = r /\ (Added(c)[i].part = "header" <=> i = 1)
  /\ busy'[c] \in {0, r}

(* It goes on, or ends. *)
Continue(c) ==
  /\ status[c] = "open" /\ status'[c] = "open"
  /\ busy[c] # 0
  /\ Cut(stream'[c], stream[c])
  /\ \A i \in DOMAIN Added(c) : Added(c)[i].req = busy[c] /\ Added(c)[i].part # "header"
  /\ busy'[c] \in {0, busy[c]}

Close(c) ==
  /\ status[c] = "open" /\ status'[c] = "closed"
  /\ Cut(stream[c], stream'[c]) /\ busy'[c] = 0

Next == \E c \in Conns :
  Others(c) /\ (Open(c) \/ Begin(c) \/ Continue(c) \/ Close(c))

Spec == Init /\ [][Next]_vars
=============================================================================
