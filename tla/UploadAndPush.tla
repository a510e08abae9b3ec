---------------------------- MODULE UploadAndPush ----------------------------
(***************************************************************************)
(* httplib_upload_file_and_push_record, which uploads an image, asks for a  *)
(* token and pushes a warning record, each a POST over a TLS connection of  *)
(* its own.  (src/any/anything.cpp holds a copy, word for word.)  Below the *)
(* program lies httplib's send: a connection that the peer closes in order  *)
(* before it has answered is opened again and the request sent once more.   *)
(* A request that was written may be performed at any time after, also when *)
(* nobody waits for it any more.                                           *)
(***************************************************************************)
EXTENDS Naturals, FiniteSets

CONSTANT Tries   (* times httplib's send sends a request, at most; the code: 2 *)

Constants == Tries \in Nat \ {0}

VARIABLES
  step,      (* the POST the program is at, or "ended"                      *)
  result,    (* what the program returned                                   *)
  phase,     (* connect, or await the answer                                *)
  try,       (* which time the request is sent                              *)
  written,   (* requests on their way or received                           *)
  performed, (* ... and carried out                                         *)
  closed     (* ... and their connection closed without an answer           *)

program == <<step, result, phase, try>>
vars == <<program, written, performed, closed>>

Steps == {"upload", "token", "push"}
Requests == Steps \X (1..Tries)
Current == <<step, try>>
Uploaded == \E n \in 1..Tries : <<"upload", n>> \in performed
Records == {n \in 1..Tries : <<"push", n>> \in performed}

Init ==
  /\ step = "upload" /\ result = "none"
  /\ phase = "connect" /\ try = 1
  /\ written = {} /\ performed = {} /\ closed = {}

(* Every error ends the program, whatever has been done before.             *)
Fail ==
  /\ step' = "ended" /\ result' = "minus_one" /\ phase' = "connect" /\ try' = 1

(* A result that says Success and holds no response: the program, which     *)
(* looks only at the error, takes its body.                                 *)
Crash ==
  /\ step' = "ended" /\ result' = "crash" /\ phase' = "connect" /\ try' = 1

Goto(next) ==
  /\ step' = next /\ result' = (IF next = "ended" THEN "zero" ELSE "none")
  /\ phase' = "connect" /\ try' = 1

(***************************************************************************)
(* httplib's send.                                                          *)
(***************************************************************************)
Write ==
  /\ step # "ended" /\ phase = "connect"
  /\ phase' = "await"
  /\ written' = written \cup {Current}
  /\ UNCHANGED <<step, result, try, performed, closed>>

(* No connection, or none that could be written to.  When only the TLS      *)
(* session cannot be made for want of an SSL object, nothing is reported.   *)
ConnectFails ==
  /\ step # "ended" /\ phase = "connect"
  /\ Fail \/ Crash
  /\ UNCHANGED <<written, performed, closed>>

(* No answer within 5 seconds, or a connection that broke.                 *)
Timeout ==
  /\ phase = "await"
  /\ Fail /\ UNCHANGED <<written, performed, closed>>

(* The peer has closed the connection in order.                            *)
Closed ==
  /\ phase = "await"
  /\ closed' = closed \cup {Current}
  /\ IF try < Tries THEN phase' = "connect" /\ try' = try + 1 /\ UNCHANGED <<step, result>>
     ELSE Fail
  /\ UNCHANGED <<written, performed>>

(* The service.  A record is taken with the token the push carries, which   *)
(* it has when the program has come so far.                                *)
Perform(r) ==
  /\ r \in written \ performed
  /\ performed' = performed \cup {r}
  /\ UNCHANGED <<program, written, closed>>

(***************************************************************************)
(* The program.  An answer says that the request was carried out, or that   *)
(* it was not; and it may be unreadable either way.                        *)
(***************************************************************************)
Answered(s) == step = s /\ phase = "await" /\ UNCHANGED <<written, performed, closed>>
Unreadable(s) == Answered(s) /\ Fail

UploadAnswered ==
  \/ Answered("upload") /\ Current \in performed /\ Goto("token")
  \/ Unreadable("upload")

TokenAnswered ==
  \/ Answered("token") /\ Current \in performed /\ Goto("push")
  \/ Unreadable("token")

PushAnswered ==
  \/ Answered("push") /\ Current \in performed /\ Goto("ended")
  \/ Unreadable("push")

Next ==
  \/ Write \/ ConnectFails \/ Timeout \/ Closed
  \/ \E r \in Requests : Perform(r)
  \/ UploadAnswered \/ TokenAnswered \/ PushAnswered

Spec == Init /\ [][Next]_vars

Ended == Timeout \/ Closed \/ UploadAnswered \/ TokenAnswered \/ PushAnswered

(* Connecting takes 3 seconds at most, waiting for an answer 5.            *)
FairSpec ==
  /\ Spec
  /\ WF_vars(Write \/ ConnectFails)
  /\ WF_vars(Ended)
-----------------------------------------------------------------------------
TypeOK ==
  /\ step \in Steps \cup {"ended"} /\ result \in {"none", "zero", "minus_one", "crash"}
  /\ phase \in {"connect", "await"} /\ try \in 1..Tries
  /\ performed \subseteq written /\ written \subseteq Requests
  /\ closed \subseteq written

(* What 0 means: the image is there and so is the record.                  *)
ZeroMeansRecorded == result = "zero" => Uploaded /\ Records # {}

(* No record without its image, whatever fails, is late or is sent twice.   *)
RecordAfterImage == Records # {} => Uploaded

(* A run leaves a second record only when the push before it was cut off by *)
(* an orderly close, never because its answer was late.                    *)
TwiceOnlyIfClosed == Cardinality(Records) > 1 => \E n \in Records : <<"push", n>> \in closed

(* Not kept: a failure is reported, by the program's -1.                    *)
FailureIsReported == result # "crash"

(* The program comes to an end.                                            *)
Ends == <>(step = "ended")
=============================================================================
