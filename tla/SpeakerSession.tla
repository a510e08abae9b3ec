--------------------------- MODULE SpeakerSession ---------------------------
(***************************************************************************)
(* The client of the loudspeaker service (class Juansheng) and the programs *)
(* that use it: test_juansheng_class, which logs in, lists, plays a piece   *)
(* five times and cancels, and the three samples that make one call each.   *)
(* Every method posts one request over a connection of its own, prints the  *)
(* body of the answer and only then looks whether it is one.  The service   *)
(* is what the client takes it for: it performs a request or refuses it,    *)
(* and the answer may be lost, may not parse, or may lack a field.          *)
(***************************************************************************)
EXTENDS Naturals, Sequences

CONSTANTS
  MaxItems,   (* items on the one page a list call asks for, at most        *)
  MaxCalls    (* calls a free caller of the class makes, at most            *)

Constants == {MaxItems, MaxCalls} \subseteq Nat

VARIABLES
  program,  (* the function that runs                                       *)
  calls,    (* calls made so far                                            *)
  phase,    (* ready for a call, waiting for its answer, asking the user,   *)
            (* ended                                                        *)
  result,   (* what the function returned, or that it was cut down          *)
  m_token, m_user_id,   (* the login each of them comes from, 0 none        *)
  trusted,  (* the last Login returned success                              *)
  devices, sources,     (* items in the two lists the caller passes in      *)
  request,  (* the call on its way, with the credentials it carries         *)
  served,   (* what the service made of it                                  *)
  items,    (* what the service has to list                                 *)
  logins, playing, accepted   (* the service: logins, the device, pieces    *)

client == <<program, calls, phase, result, m_token, m_user_id, trusted, devices, sources>>
service == <<items, logins, playing, accepted>>
vars == <<client, request, served, service>>

Lists == {"get_device_list", "get_music_list_by_device_id", "get_music_list_by_user_id"}
Ops == Lists \cup {"login", "get_user_info", "get_device_volume", "upload_file",
                   "delete_file", "play_music", "cancle_play_music"}
Samples == {"login", "get_user_info", "get_device_list"}
NoRequest == [op |-> "none", token |-> 0, user |-> 0]

Plays == 5
First == <<"login", "get_user_info", "get_device_list", "get_music_list_by_user_id">>
Script == [i \in 1..(Len(First) + Plays + 1) |->
            IF i <= Len(First) THEN First[i]
            ELSE IF i <= Len(First) + Plays THEN "play_music" ELSE "cancle_play_music"]

Init ==
  /\ program \in {"class", "caller"} \cup Samples
  /\ calls = 0 /\ phase = "ready" /\ result = "none"
  /\ m_token = 0 /\ m_user_id = 0 /\ trusted = FALSE
  /\ devices = 0 /\ sources = 0
  /\ request = NoRequest /\ served = "nothing"
  /\ items \in 0..MaxItems
  /\ logins = 0 /\ playing = FALSE /\ accepted = 0

(***************************************************************************)
(* Which call comes next.  A caller of the class may call anything once a   *)
(* Login has succeeded, and may log in again.                               *)
(***************************************************************************)
Chosen(op) ==
  \/ program = "class" /\ op = Script[calls + 1]
  \/ program \in Samples /\ op = program
  \/ program = "caller" /\ calls < MaxCalls /\ (op = "login" \/ trusted)

Call(op) ==
  /\ phase = "ready" /\ Chosen(op)
  /\ request' = [op |-> op, token |-> m_token, user |-> m_user_id]
  /\ phase' = "waiting" /\ calls' = calls + 1 /\ served' = "nothing"
  /\ UNCHANGED <<program, result, m_token, m_user_id, trusted, devices, sources, service>>

(* The service performs the request, now or when nobody waits any more.    *)
Serve ==
  /\ request.op # "none" /\ served = "nothing"
  /\ request.op # "login" /\ program \notin Samples => request.token \in 1..logins
  /\ served' = "performed"
  /\ logins' = IF request.op = "login" THEN logins + 1 ELSE logins
  /\ playing' = (request.op = "play_music" \/ (playing /\ request.op # "cancle_play_music"))
  /\ accepted' = IF request.op = "play_music" THEN accepted + 1 ELSE accepted
  /\ UNCHANGED <<client, request, items>>

Refuse ==
  /\ request.op # "none" /\ served = "nothing"
  /\ served' = "refused"
  /\ UNCHANGED <<client, request, service>>

(* test_juansheng_class waits for the id of a piece.  Whatever is typed, or *)
(* the end of the input, which leaves the id empty, lets it go on.          *)
Input ==
  /\ phase = "asking" /\ phase' = "ready"
  /\ UNCHANGED <<program, calls, result, m_token, m_user_id, trusted, devices, sources>>
  /\ UNCHANGED <<request, served, service>>

PlayedOut == playing /\ playing' = FALSE /\ UNCHANGED <<client, request, served, items, logins, accepted>>

(***************************************************************************)
(* The answer.                                                              *)
(***************************************************************************)

Return(ok) ==
  /\ request' = NoRequest /\ served' = "nothing"
  /\ LET last == program \in Samples \/ (program = "class" /\ (~ok \/ calls = Len(Script)))
     IN /\ phase' = IF last THEN "ended"
                    ELSE IF program = "class" /\ calls = Len(First) THEN "asking" ELSE "ready"
        /\ result' = IF ~last THEN "none"
                     ELSE IF ok \/ program \in Samples THEN "zero" ELSE "minus_one"
  /\ trusted' = IF request.op = "login" THEN ok ELSE trusted
  /\ UNCHANGED <<program, calls, service>>

Answered(op) == phase = "waiting" /\ request.op = op /\ served # "nothing"
Credentials == <<m_token, m_user_id>>
Collected == <<devices, sources>>

(* Good only if the service did it; a good answer may still be garbled.     *)
Success == served = "performed" /\ program \notin Samples

(* A method that looks at nothing but the code.                            *)
CodeOnly(op) ==
  /\ Answered(op) /\ UNCHANGED <<Credentials, Collected>>
  /\ \E ok \in BOOLEAN : (ok => Success) /\ Return(ok)

(* A method that copies the items of a page one by one: the first that     *)
(* lacks a field ends it, after those before it.  A good answer without a   *)
(* list has no items to copy, and is a success.                             *)
Page(op, list) ==
  /\ Answered(op) /\ UNCHANGED Credentials
  /\ \E n \in 0..items, ok \in BOOLEAN :
       /\ n > 0 \/ ok => Success
       /\ n = 0 \/ (IF ok THEN n = items ELSE n < items)
       /\ list' = list + n
       /\ Return(ok)

(* Mutant: the catch clause of Login forgets the error type.                *)
LoginCaught ==
  /\ Answered("login") /\ UNCHANGED Collected
  /\ \E got \in {{}, {"token"}, {"token", "userId"}} :
       /\ got # {} => Success
       /\ m_token' = IF "token" \in got THEN logins ELSE m_token
       /\ m_user_id' = IF "userId" \in got THEN logins ELSE m_user_id
       /\ Return(TRUE)

(* The token is assigned before the user id, which may be missing.          *)
Login ==
  /\ Answered("login") /\ UNCHANGED Collected
  /\ \E got \in SUBSET {"token", "userId"} :
       /\ got # {} => Success /\ "token" \in got
       /\ m_token' = IF "token" \in got THEN logins ELSE m_token
       /\ m_user_id' = IF "userId" \in got THEN logins ELSE m_user_id
       /\ Return("userId" \in got)

GetUserInfoByUserID == CodeOnly("get_user_info")
GetDeviceList == Page("get_device_list", devices) /\ UNCHANGED sources
GetMusicListByDeviceId == Page("get_music_list_by_device_id", sources) /\ UNCHANGED devices
GetMusicListByUserId == Page("get_music_list_by_user_id", sources) /\ UNCHANGED devices
GetDeviceVolume == CodeOnly("get_device_volume")
UploadFile == CodeOnly("upload_file")
DeleteFile == CodeOnly("delete_file")
PlayMusic == CodeOnly("play_music")

(* Mutant: the result of the last call is not looked at.                   *)
CanclePlayMusicUnseen ==
  /\ Answered("cancle_play_music") /\ UNCHANGED <<Credentials, Collected>>
  /\ Return(TRUE)

CanclePlayMusic == CodeOnly("cancle_play_music")

Answer ==
  \/ Login \/ GetUserInfoByUserID
  \/ GetDeviceList \/ GetMusicListByDeviceId \/ GetMusicListByUserId
  \/ GetDeviceVolume \/ UploadFile \/ DeleteFile
  \/ PlayMusic \/ CanclePlayMusic

(* Mutant: the client asks again, for as long as it takes.                  *)
LostAsksAgain ==
  /\ phase = "waiting" /\ served' = "nothing"
  /\ UNCHANGED <<client, request, service>>

(* No answer comes, or none in time.  There is no body to print; the        *)
(* request may still be on its way.                                        *)
Lost ==
  /\ phase = "waiting"
  /\ phase' = "ended" /\ result' = "crash"
  /\ UNCHANGED <<program, calls, m_token, m_user_id, trusted, devices, sources, request, served, service>>

Next ==
  \/ \E op \in Ops : Call(op)
  \/ Input \/ Serve \/ Refuse \/ PlayedOut
  \/ Answer \/ Lost

Spec == Init /\ [][Next]_vars

(* A method sets its request off, and the client waits 5 seconds for an    *)
(* answer, whatever becomes of the request.  That the user answers as well  *)
(* is an assumption: nothing limits the wait for the input.                 *)
Fairness == WF_vars(\E op \in Ops : Call(op)) /\ WF_vars(Answer \/ Lost) /\ WF_vars(Input)
FairSpec == Spec /\ Fairness
-----------------------------------------------------------------------------
Logins == 0..(MaxCalls + 1)
TypeOK ==
  /\ program \in {"class", "caller"} \cup Samples
  /\ calls \in 0..(MaxCalls + Len(Script)) /\ phase \in {"ready", "waiting", "asking", "ended"}
  /\ result \in {"none", "zero", "minus_one", "crash"}
  /\ {m_token, m_user_id, logins} \subseteq Logins /\ {trusted, playing} \subseteq BOOLEAN
  /\ {devices, sources, items, accepted} \subseteq Nat
  /\ request \in [op : Ops \cup {"none"}, token : Logins, user : Logins]
  /\ served \in {"nothing", "performed", "refused"}

(* What 0 from test_juansheng_class means: the service has started the      *)
(* piece five times, neither more nor fewer, and the device is silent.      *)
ZeroMeansSilent ==
  program = "class" /\ result = "zero" => accepted = Plays /\ ~playing

(* The token and the user id of every request come from the same Login,     *)
(* also when a Login in between has failed half way, provided its failure   *)
(* is heeded.                                                               *)
OneSession ==
  request.op \notin {"none", "login"} /\ program \notin Samples =>
    request.token = request.user /\ request.token # 0

(* The lists test_juansheng_class prints are whole pages or empty, never    *)
(* the beginning of a page: it does not go on with what a call that failed  *)
(* has put there.                                                          *)
WholeOrEmpty ==
  program = "class" /\ phase \in {"ready", "asking"} =>
    (calls >= 3 => devices \in {0, items}) /\ (calls >= 4 => sources \in {0, items})

(* A list call that succeeds has brought what there is to list. The code    *)
(* does not keep this: an answer without a list counts as an empty one.     *)
ListsArrive ==
  program = "class" /\ phase \in {"ready", "asking"} =>
    (calls >= 3 => devices = items) /\ (calls >= 4 => sources = items)

(* Every program but a free caller ends.                                    *)
Ends == (program # "caller") ~> (phase = "ended")

(* A call that gets no answer makes the program report a failure. The code  *)
(* does not keep this: it prints the body of a result it has not looked at. *)
FailureIsReported == result # "crash"
=============================================================================
