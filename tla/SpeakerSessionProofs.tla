------------------------ MODULE SpeakerSessionProofs ------------------------
(***************************************************************************)
(* The programs that use the loudspeaker service, for any page and any      *)
(* number of calls: whose session a request carries, and what a result of 0 *)
(* from test_juansheng_class means.                                        *)
(***************************************************************************)
EXTENDS SpeakerSession, TLAPS

(* One Login gave both credentials.                                         *)
Paired(token, user) == token = user /\ token # 0

(* No call is under way.                                                    *)
Idle == phase \in {"ready", "asking"}

(* A caller heeds the failure of a Login, and so no request goes out whose  *)
(* credentials come from two of them.                                       *)
SessionOK ==
  /\ logins \in Nat
  /\ Idle /\ trusted => Paired(m_token, m_user_id)
  /\ program = "class" /\ Idle /\ calls # 0 => trusted
  /\ program = "class" => calls \in Nat
  /\ phase = "waiting" /\ program \notin Samples /\ request.op # "login" => trusted /\ Paired(m_token, m_user_id)
  /\ request.op \notin {"none", "login"} /\ program \notin Samples => Paired(request.token, request.user)
  /\ request.op = "login" /\ served = "performed" => logins # 0

(* The calls test_juansheng_class has returned from, and whether the service*)
(* has done the one it waits for.                                          *)
Done == IF Idle THEN calls ELSE calls - 1
Started == phase = "waiting" /\ request.op = "play_music" /\ served = "performed"

(* What it has done so far, to its lists and to the device.                 *)
ScriptOK ==
  program = "class" =>
    /\ calls \in 0..10 /\ accepted \in Nat /\ phase \in {"ready", "waiting", "asking", "ended"}
    /\ Idle => calls < 10 /\ request = NoRequest
    /\ phase = "waiting" => calls > 0 /\ request.op = Script[calls]
    /\ phase # "ended" => result # "zero"
    /\ phase # "ended" => devices \in {0, IF Done >= 3 THEN items ELSE 0} /\ sources \in {0, IF Done >= 4 THEN items ELSE 0}
    /\ phase # "ended" => accepted = (IF Done > 4 THEN Done - 4 ELSE 0) + (IF Started THEN 1 ELSE 0)
    /\ phase = "waiting" /\ request.op = "cancle_play_music" /\ served = "performed" => playing = FALSE
    /\ result = "zero" => accepted = Plays /\ playing = FALSE /\ request = NoRequest

SpeakerInv == items \in Nat /\ SessionOK /\ ScriptOK
-----------------------------------------------------------------------------
(* The calls of test_juansheng_class.                                       *)
LEMMA ScriptIs ==
  /\ Len(Script) = 10
  /\ Script[1] = "login" /\ Script[2] = "get_user_info" /\ Script[3] = "get_device_list"
  /\ Script[4] = "get_music_list_by_user_id" /\ Script[10] = "cancle_play_music"
  /\ \A k \in 5..9 : Script[k] = "play_music"
<1>1. Len(First) = 4 /\ First[1] = "login" /\ First[2] = "get_user_info" /\ First[3] = "get_device_list"
      /\ First[4] = "get_music_list_by_user_id"
  BY DEF First
<1>2. Script = [i \in 1..10 |-> IF i <= 4 THEN First[i] ELSE IF i <= 9 THEN "play_music" ELSE "cancle_play_music"]
  BY <1>1 DEF Script, Plays
<1> QED BY <1>1, <1>2

LEMMA ScriptOnce ==
  ASSUME NEW k \in 1..10
  PROVE  /\ Script[k] = "login" <=> k = 1
         /\ Script[k] = "get_device_list" <=> k = 3
         /\ Script[k] = "get_music_list_by_user_id" <=> k = 4
         /\ Script[k] = "play_music" <=> k \in 5..9
         /\ Script[k] = "cancle_play_music" <=> k = 10
         /\ Script[k] # "get_music_list_by_device_id"
<1>1. k \in {1, 2, 3, 4, 10} \/ k \in 5..9
  OBVIOUS
<1> QED BY <1>1, ScriptIs

(* The program calls.                                                       *)
LEMMA CallStep ==
  ASSUME SpeakerInv, NEW op \in Ops, Call(op)
  PROVE  SpeakerInv'
<1>1. /\ phase = "ready" /\ Idle /\ phase' = "waiting" /\ calls' = calls + 1 /\ served' = "nothing" /\ program' = program
      /\ request' = [op |-> op, token |-> m_token, user |-> m_user_id] /\ m_token' = m_token /\ m_user_id' = m_user_id
      /\ trusted' = trusted /\ devices' = devices /\ sources' = sources /\ result' = result
      /\ items' = items /\ logins' = logins /\ playing' = playing /\ accepted' = accepted
  BY DEF Call, service, Idle
<1>2. program = "class" => op = Script[calls + 1] /\ calls + 1 \in 1..10
  BY <1>1 DEF Call, Chosen, Samples, SpeakerInv, ScriptOK
<1>3. program \notin Samples /\ op # "login" => trusted
  <2>1. CASE program = "class"
    BY <1>1, <1>2, <2>1, ScriptOnce DEF SpeakerInv, SessionOK
  <2>2. CASE program # "class"
    BY <2>2 DEF Call, Chosen
  <2> QED BY <2>1, <2>2
<1>4. SessionOK'
  BY <1>1, <1>3 DEF SpeakerInv, SessionOK, Idle
<1>5. ScriptOK'
  BY <1>1, <1>2 DEF SpeakerInv, ScriptOK, Done, Started, Idle
<1> QED BY <1>1, <1>4, <1>5 DEF SpeakerInv

(* The user answers.                                                        *)
LEMMA InputStep == SpeakerInv /\ Input => SpeakerInv'
BY DEF Input, service, SpeakerInv, SessionOK, ScriptOK, Done, Started, Idle

(* The service, also when nobody waits for it.                              *)
LEMMA ServiceStep ==
  ASSUME SpeakerInv, Serve \/ Refuse \/ PlayedOut
  PROVE  SpeakerInv'
<1>1. /\ phase' = phase /\ calls' = calls /\ program' = program /\ request' = request /\ m_token' = m_token
      /\ m_user_id' = m_user_id /\ trusted' = trusted /\ devices' = devices /\ sources' = sources /\ result' = result
      /\ items' = items
  BY DEF Serve, Refuse, PlayedOut, client, service
<1>2. SessionOK'
  BY <1>1 DEF Serve, Refuse, PlayedOut, service, SpeakerInv, SessionOK, Idle
<1>3. ScriptOK'
  <2>1. CASE Serve
    <3> SUFFICES ASSUME program = "class" PROVE ScriptOK'
      BY <1>1 DEF ScriptOK
    <3>1. /\ request.op # "none" /\ served = "nothing" /\ served' = "performed"
          /\ playing' = (request.op = "play_music" \/ (playing /\ request.op # "cancle_play_music"))
          /\ accepted' = IF request.op = "play_music" THEN accepted + 1 ELSE accepted
      BY <2>1 DEF Serve
    <3>2. ~Idle /\ result # "zero"
      BY <3>1 DEF SpeakerInv, ScriptOK, NoRequest
    <3>3. request.op = "cancle_play_music" => playing' = FALSE
      BY <3>1
    <3>4. phase = "waiting" => accepted' = (IF Done > 4 THEN Done - 4 ELSE 0) + (IF Started' THEN 1 ELSE 0)
      <4>1. ~Started /\ (phase = "waiting" => (Started' <=> request.op = "play_music"))
        BY <1>1, <3>1 DEF Started
      <4>2. phase = "waiting" => accepted = (IF Done > 4 THEN Done - 4 ELSE 0) /\ accepted \in Nat
        BY <4>1 DEF SpeakerInv, ScriptOK, Done
      <4> QED BY <3>1, <4>1, <4>2
    <3>5. accepted' \in Nat
      BY <3>1 DEF SpeakerInv, ScriptOK
    <3>6. Done' = Done
      BY <1>1 DEF Done, Idle
    <3> QED BY <1>1, <3>2, <3>3, <3>4, <3>5, <3>6 DEF SpeakerInv, ScriptOK, Idle
  <2>2. CASE Refuse
    BY <1>1, <2>2 DEF Refuse, service, SpeakerInv, ScriptOK, Done, Started, Idle
  <2>3. CASE PlayedOut
    BY <1>1, <2>3 DEF PlayedOut, SpeakerInv, ScriptOK, Done, Started, Idle
  <2> QED BY <2>1, <2>2, <2>3
<1> QED BY <1>1, <1>2, <1>3 DEF SpeakerInv

(* An answer that is good says that the service did what it was asked to,   *)
(* and brings a whole page, or none, if it was asked for one.               *)
LEMMA AnswerStep ==
  ASSUME SpeakerInv, Answer
  PROVE  SpeakerInv'
<1>1. PICK op \in Ops, ok \in BOOLEAN :
        /\ Answered(op) /\ Return(ok) /\ (ok => Success)
        /\ op = "login" => (ok => m_token' = logins /\ m_user_id' = logins) /\ Collected' = Collected
        /\ op # "login" => Credentials' = Credentials
        /\ op = "get_device_list" => (ok => \E n \in {0, items} : devices' = devices + n) /\ sources' = sources
        /\ op \in {"get_music_list_by_device_id", "get_music_list_by_user_id"} =>
              (ok => \E n \in {0, items} : sources' = sources + n) /\ devices' = devices
        /\ op \notin {"login", "get_device_list", "get_music_list_by_device_id", "get_music_list_by_user_id"} =>
              Collected' = Collected
  <2>1. CASE Login
    <3>1. PICK got \in SUBSET {"token", "userId"} :
            /\ got # {} => Success /\ "token" \in got
            /\ m_token' = IF "token" \in got THEN logins ELSE m_token
            /\ m_user_id' = IF "userId" \in got THEN logins ELSE m_user_id
            /\ Return("userId" \in got)
      BY <2>1 DEF Login
    <3>2. "userId" \in got => Success /\ m_token' = logins /\ m_user_id' = logins
      BY <3>1
    <3>3. Answered("login") /\ Collected' = Collected /\ "login" \in Ops
      BY <2>1 DEF Login, Ops, Collected
    <3> DEFINE ok == "userId" \in got
    <3>4. ok \in BOOLEAN /\ Return(ok) /\ (ok => Success) /\ (ok => m_token' = logins /\ m_user_id' = logins)
      BY <3>1, <3>2
    <3> HIDE DEF ok
    <3> QED BY <3>3, <3>4
  <2>2. CASE GetDeviceList
    BY <2>2 DEF GetDeviceList, Page, Ops, Lists
  <2>3. CASE GetMusicListByDeviceId
    BY <2>3 DEF GetMusicListByDeviceId, Page, Ops, Lists
  <2>4. CASE GetMusicListByUserId
    BY <2>4 DEF GetMusicListByUserId, Page, Ops, Lists
  <2>5. CASE ~Login /\ ~GetDeviceList /\ ~GetMusicListByDeviceId /\ ~GetMusicListByUserId
    BY <2>5 DEF Answer, GetUserInfoByUserID, GetDeviceVolume, UploadFile, DeleteFile, PlayMusic, CanclePlayMusic,
                CodeOnly, Ops, Lists
  <2> QED BY <2>1, <2>2, <2>3, <2>4, <2>5
<1>2. /\ phase = "waiting" /\ request.op = op /\ request' = NoRequest /\ served' = "nothing" /\ program' = program
      /\ calls' = calls /\ items' = items /\ logins' = logins /\ playing' = playing /\ accepted' = accepted
      /\ trusted' = (IF op = "login" THEN ok ELSE trusted)
      /\ ok => served = "performed" /\ program \notin Samples
  BY <1>1 DEF Answered, Return, Success, service
<1>3. phase' \in {"ready", "asking", "ended"} /\ (Idle' => program \notin Samples)
      /\ (program = "class" => (Idle' <=> (ok /\ calls # 10)) /\ (result' = "zero" => phase' = "ended" /\ ok))
  BY <1>1, ScriptIs DEF Return, Samples, Idle
<1>4. SessionOK'
  BY <1>1, <1>2, <1>3 DEF Credentials, NoRequest, Paired, SpeakerInv, SessionOK, Idle
<1>5. ScriptOK'
  <2> SUFFICES ASSUME program = "class" PROVE ScriptOK'
    BY <1>2 DEF ScriptOK
  <2>1. calls \in 1..10 /\ op = Script[calls] /\ accepted \in Nat
    BY <1>2 DEF SpeakerInv, ScriptOK
  <2>2. ok => /\ devices' \in {0, IF calls >= 3 THEN items ELSE 0}
              /\ sources' \in {0, IF calls >= 4 THEN items ELSE 0}
    BY <1>1, <1>2, <2>1, ScriptOnce DEF Collected, SpeakerInv, ScriptOK, Done, Idle
  <2>3. ok => accepted' = (IF calls > 4 /\ calls < 10 THEN calls - 4 ELSE IF calls = 10 THEN 5 ELSE 0)
    BY <1>2, <2>1, ScriptOnce DEF SpeakerInv, ScriptOK, Done, Started, Idle
  <2>4. ok /\ calls = 10 => playing = FALSE
    BY <1>2, <2>1, ScriptOnce DEF SpeakerInv, ScriptOK
  <2> QED BY <1>2, <1>3, <2>1, <2>2, <2>3, <2>4 DEF ScriptOK, Done, Started, NoRequest, Plays, Idle
<1> QED BY <1>2, <1>4, <1>5 DEF SpeakerInv

LEMMA LostStep == SpeakerInv /\ (Lost \/ UNCHANGED vars) => SpeakerInv'
<1>1. SpeakerInv /\ Lost => SpeakerInv'
  BY DEF Lost, service, SpeakerInv, SessionOK, ScriptOK, Idle
<1>2. SpeakerInv /\ UNCHANGED vars => SpeakerInv'
  BY DEF vars, client, service, SpeakerInv, SessionOK, ScriptOK, Done, Started, Idle
<1> QED BY <1>1, <1>2

LEMMA SpeakerInit == Constants /\ Init => SpeakerInv
<1>1. Constants => MaxItems \in Nat
  BY DEF Constants
<1> QED BY <1>1 DEF Init, NoRequest, SpeakerInv, SessionOK, ScriptOK, Done, Started, Idle

LEMMA SpeakerStep == SpeakerInv /\ [Next]_vars => SpeakerInv'
BY CallStep, InputStep, ServiceStep, AnswerStep, LostStep DEF Next

LEMMA SpeakerMeans == SpeakerInv => OneSession /\ ZeroMeansSilent /\ WholeOrEmpty
BY DEF SpeakerInv, SessionOK, ScriptOK, Paired, Done, Idle, OneSession, ZeroMeansSilent, WholeOrEmpty

(* For any number of items and calls, and whatever the service refuses or   *)
(* the network loses: no request carries half of one login and half of      *)
(* another; 0 means five pieces started and a silent device; and no list    *)
(* holds part of a page: it is whole, or empty.                            *)
THEOREM SessionsAreWhole == Constants /\ Spec => [](OneSession /\ ZeroMeansSilent /\ WholeOrEmpty)
<1> SUFFICES ASSUME Constants PROVE Spec => [](OneSession /\ ZeroMeansSilent /\ WholeOrEmpty)
  OBVIOUS
<1> QED BY SpeakerInit, SpeakerStep, SpeakerMeans, PTL DEF Spec
-----------------------------------------------------------------------------
(* How often the service can have let somebody in: once for each call of    *)
(* Login, of which test_juansheng_class makes one; a sample calls once.     *)
Pending == request.op = "login" /\ served = "nothing"
LoginsOK ==
  /\ Idle => request = NoRequest
  /\ phase = "asking" => program = "class"
  /\ program \in Samples => calls = IF phase = "ready" THEN 0 ELSE 1
  /\ program = "caller" => calls <= MaxCalls
  /\ logins + (IF Pending THEN 1 ELSE 0) <= IF program = "class" /\ calls > 1 THEN 1 ELSE calls

TypeInv == SpeakerInv /\ LoginsOK /\ TypeOK

LEMMA LoginsStep ==
  ASSUME Constants, TypeInv, [Next]_vars
  PROVE  LoginsOK'
<1>0. calls \in Nat /\ logins \in Nat /\ MaxCalls \in Nat /\ LoginsOK /\ SpeakerInv
  BY ScriptIs DEF TypeInv, TypeOK, Logins, Constants
<1>1. ASSUME NEW op \in Ops, Call(op) PROVE LoginsOK'
  <2>1. /\ phase = "ready" /\ phase' = "waiting" /\ calls' = calls + 1 /\ served' = "nothing" /\ program' = program
        /\ request'.op = op /\ logins' = logins
    BY <1>1 DEF Call, service
  <2>2. ~Pending /\ logins <= (IF program = "class" /\ calls > 1 THEN 1 ELSE calls)
    BY <1>0, <2>1 DEF LoginsOK, Pending, NoRequest, Idle
  <2>3. program = "class" /\ calls > 0 => op # "login"
    BY <1>0, <1>1, <2>1, ScriptOnce DEF Call, Chosen, SpeakerInv, ScriptOK, Samples, Idle
  <2>4. program = "caller" => calls + 1 <= MaxCalls
    BY <1>0, <1>1 DEF Call, Chosen, Samples
  <2>5. program \in Samples => calls = 0
    BY <1>0, <2>1 DEF LoginsOK
  <2> QED BY <1>0, <2>1, <2>2, <2>3, <2>4, <2>5 DEF LoginsOK, Pending, Idle
<1>2. CASE Serve \/ Refuse \/ PlayedOut \/ UNCHANGED vars
  <2>1. phase' = phase /\ calls' = calls /\ program' = program /\ request' = request
    BY <1>2 DEF Serve, Refuse, PlayedOut, vars, client
  <2>2. \/ served' = served /\ logins' = logins
        \/ served = "nothing" /\ served' # "nothing" /\ logins' = (IF request.op = "login" THEN logins + 1 ELSE logins)
        \/ served = "nothing" /\ served' # "nothing" /\ logins' = logins
    BY <1>2 DEF Serve, Refuse, PlayedOut, vars, service
  <2> QED BY <1>0, <2>1, <2>2 DEF LoginsOK, Pending, Idle
<1>3. CASE Answer
  <2>1. PICK op, ok : Answered(op) /\ Return(ok)
    BY <1>3 DEF Answer, Login, GetUserInfoByUserID, GetDeviceList, GetMusicListByDeviceId, GetMusicListByUserId,
         GetDeviceVolume, UploadFile, DeleteFile, PlayMusic, CanclePlayMusic, CodeOnly, Page
  <2>2. /\ phase = "waiting" /\ phase' \in {"ready", "asking", "ended"} /\ request' = NoRequest
        /\ calls' = calls /\ program' = program /\ logins' = logins /\ (program \in Samples => phase' = "ended")
        /\ phase' = "asking" => program = "class"
    BY <2>1 DEF Answered, Return, service, Samples
  <2> QED BY <1>0, <2>2 DEF LoginsOK, Pending, NoRequest, Idle
<1>4. CASE Lost
  BY <1>0, <1>4 DEF Lost, service, LoginsOK, Pending, Idle
<1>5. CASE Input
  BY <1>0, <1>5 DEF Input, service, LoginsOK, Pending, Idle, Samples
<1> QED BY <1>1, <1>2, <1>3, <1>4, <1>5 DEF Next

LEMMA NoMore ==
  ASSUME NEW a \in Nat, NEW b \in Nat, NEW c \in Nat, a + b <= c
  PROVE  a <= c
OBVIOUS

LEMMA TypeStep ==
  ASSUME Constants, TypeInv, [Next]_vars
  PROVE  TypeInv'
<1>0. TypeOK /\ LoginsOK /\ SpeakerInv
  BY DEF TypeInv
<1>1. LoginsOK' /\ SpeakerInv'
  BY LoginsStep, SpeakerStep DEF TypeInv
<1>2. program' \in {"class", "caller"} \cup Samples /\ phase' \in {"ready", "waiting", "asking", "ended"}
  BY <1>0 DEF TypeOK, Next, Call, Input, Serve, Refuse, PlayedOut, Answer, Login, GetUserInfoByUserID, GetDeviceList,
         GetMusicListByDeviceId, GetMusicListByUserId, GetDeviceVolume, UploadFile, DeleteFile, PlayMusic,
         CanclePlayMusic, CodeOnly, Page, Return, Answered, Lost, vars, client, service
<1>3. result' \in {"none", "zero", "minus_one", "crash"} /\ served' \in {"nothing", "performed", "refused"}
  BY <1>0 DEF TypeOK, Next, Call, Input, Serve, Refuse, PlayedOut, Answer, Login, GetUserInfoByUserID, GetDeviceList,
         GetMusicListByDeviceId, GetMusicListByUserId, GetDeviceVolume, UploadFile, DeleteFile, PlayMusic,
         CanclePlayMusic, CodeOnly, Page, Return, Answered, Lost, vars, client, service
<1>4. trusted' \in BOOLEAN
  <2>1. CASE Answer
    <3>1. CASE Login
      <4>1. PICK got \in SUBSET {"token", "userId"} : Return("userId" \in got)
        BY <3>1 DEF Login
      <4> DEFINE ok == "userId" \in got
      <4>2. ok \in BOOLEAN
        OBVIOUS
      <4>3. Return(ok)
        BY <4>1
      <4> HIDE DEF ok
      <4> QED BY <1>0, <4>2, <4>3 DEF Return, TypeOK
    <3>2. CASE ~Login
      <4>1. PICK ok \in BOOLEAN : Return(ok)
        BY <2>1, <3>2 DEF Answer, GetUserInfoByUserID, GetDeviceList, GetMusicListByDeviceId, GetMusicListByUserId,
             GetDeviceVolume, UploadFile, DeleteFile, PlayMusic, CanclePlayMusic, CodeOnly, Page
      <4> QED BY <1>0, <4>1 DEF Return, TypeOK
    <3> QED BY <3>1, <3>2
  <2>2. CASE ~Answer
    <3>1. trusted' = trusted
      BY <2>2 DEF Next, Call, Input, Serve, Refuse, PlayedOut, Lost, vars, client
    <3> QED BY <1>0, <3>1 DEF TypeOK
  <2> QED BY <2>1, <2>2
<1>5. playing' \in BOOLEAN
  <2>1. CASE Serve
    BY <2>1 DEF Serve
  <2>2. CASE ~Serve
    <3>1. playing' = playing \/ playing' = FALSE
      BY <2>2 DEF Next, Call, Input, Refuse, PlayedOut, Answer, Login, GetUserInfoByUserID, GetDeviceList,
         GetMusicListByDeviceId, GetMusicListByUserId, GetDeviceVolume, UploadFile, DeleteFile, PlayMusic,
         CanclePlayMusic, CodeOnly, Page, Return, Lost, vars, service
    <3> QED BY <1>0, <3>1 DEF TypeOK
  <2> QED BY <2>1, <2>2
<1>6. {devices, sources, items, accepted}' \subseteq Nat
  <2>1. accepted' \in Nat /\ items' = items
    BY <1>0 DEF TypeOK, Next, Call, Input, Serve, Refuse, PlayedOut, Answer, Login, GetUserInfoByUserID, GetDeviceList,
         GetMusicListByDeviceId, GetMusicListByUserId, GetDeviceVolume, UploadFile, DeleteFile, PlayMusic,
         CanclePlayMusic, CodeOnly, Page, Return, Answered, Lost, vars, client, service
  <2>2. CASE Answer
    <3>1. \A n \in 0..items : devices + n \in Nat /\ sources + n \in Nat
      BY <1>0 DEF TypeOK
    <3>2. devices' \in Nat /\ sources' \in Nat
      BY <1>0, <2>2, <3>1 DEF TypeOK, Answer, Login, GetUserInfoByUserID, GetDeviceList,
         GetMusicListByDeviceId, GetMusicListByUserId, GetDeviceVolume, UploadFile, DeleteFile, PlayMusic,
         CanclePlayMusic, CodeOnly, Page, Collected
    <3> QED BY <1>0, <2>1, <3>2 DEF TypeOK
  <2>3. CASE ~Answer
    <3>1. devices' = devices /\ sources' = sources
      BY <2>3 DEF Next, Call, Input, Serve, Refuse, PlayedOut, Lost, vars, client
    <3> QED BY <1>0, <2>1, <3>1 DEF TypeOK
  <2> QED BY <2>2, <2>3
<1>7. calls' \in Nat /\ logins' \in Nat
  <2>1. calls \in Nat /\ logins \in Nat
    BY <1>0, ScriptIs DEF TypeOK, Logins, Constants
  <2>2. calls' \in {calls, calls + 1}
    BY <1>0 DEF Next, Call, Input, Serve, Refuse, PlayedOut, Answer, Login, GetUserInfoByUserID, GetDeviceList,
       GetMusicListByDeviceId, GetMusicListByUserId, GetDeviceVolume, UploadFile, DeleteFile, PlayMusic,
       CanclePlayMusic, CodeOnly, Page, Return, Lost, vars, client
  <2>3. logins' \in {logins, logins + 1}
    BY <1>0 DEF Next, Call, Input, Serve, Refuse, PlayedOut, Answer, Login, GetUserInfoByUserID, GetDeviceList,
       GetMusicListByDeviceId, GetMusicListByUserId, GetDeviceVolume, UploadFile, DeleteFile, PlayMusic,
       CanclePlayMusic, CodeOnly, Page, Return, Lost, vars, service
  <2> QED BY <2>1, <2>2, <2>3
<1>8. logins' \in Logins /\ calls' \in 0..(MaxCalls + Len(Script))
  <2>1. program' = "class" => calls' <= 10
    BY <1>1 DEF SpeakerInv, ScriptOK
  <2>2. program' \in Samples => calls' <= 1
    BY <1>1 DEF LoginsOK
  <2>3. program' = "caller" => calls' <= MaxCalls
    BY <1>1 DEF LoginsOK
  <2>4. logins' <= IF program' = "class" /\ calls' > 1 THEN 1 ELSE calls'
    <3>1. logins' + (IF Pending' THEN 1 ELSE 0) <= IF program' = "class" /\ calls' > 1 THEN 1 ELSE calls'
      BY <1>1 DEF LoginsOK
    <3> DEFINE more == IF Pending' THEN 1 ELSE 0
               most == IF program' = "class" /\ calls' > 1 THEN 1 ELSE calls'
    <3>2. more \in Nat /\ most \in Nat
      BY <1>7
    <3>3. logins' + more <= most
      BY <3>1
    <3> HIDE DEF more, most
    <3>4. logins' <= most
      BY <1>7, <3>2, <3>3, NoMore
    <3> QED BY <3>4 DEF most
  <2> QED BY <1>2, <1>7, <2>1, <2>2, <2>3, <2>4, ScriptIs DEF Constants, Logins
<1>9. m_token' \in Logins /\ m_user_id' \in Logins
  BY <1>0 DEF TypeOK, Next, Call, Input, Serve, Refuse, PlayedOut, Answer, Login, GetUserInfoByUserID, GetDeviceList,
         GetMusicListByDeviceId, GetMusicListByUserId, GetDeviceVolume, UploadFile, DeleteFile, PlayMusic,
         CanclePlayMusic, CodeOnly, Page, Return, Answered, Lost, vars, client, service, Credentials, Collected
<1>10. request' \in [op : Ops \cup {"none"}, token : Logins, user : Logins]
  <2>1. NoRequest \in [op : Ops \cup {"none"}, token : Logins, user : Logins]
    BY DEF NoRequest, Logins, Constants
  <2> QED BY <1>0, <2>1 DEF TypeOK, Next, Call, Input, Serve, Refuse, PlayedOut, Answer, Login, GetUserInfoByUserID, GetDeviceList,
         GetMusicListByDeviceId, GetMusicListByUserId, GetDeviceVolume, UploadFile, DeleteFile, PlayMusic,
         CanclePlayMusic, CodeOnly, Page, Return, Answered, Lost, vars, client, service
<1> QED BY <1>1, <1>2, <1>3, <1>4, <1>5, <1>6, <1>8, <1>9, <1>10 DEF TypeInv, TypeOK

LEMMA TypeInit == Constants /\ Init => TypeInv
<1> SUFFICES ASSUME Constants, Init PROVE TypeInv
  OBVIOUS
<1>1. MaxItems \in Nat /\ MaxCalls \in Nat /\ items \in Nat
  BY DEF Constants, Init
<1>2. SpeakerInv
  BY SpeakerInit
<1>3. LoginsOK
  <2>1. ~Pending /\ logins = 0 /\ calls = 0 /\ phase = "ready" /\ request = NoRequest
    BY DEF Init, Pending, NoRequest
  <2> QED BY <1>1, <2>1 DEF LoginsOK, Idle
<1>4. TypeOK
  <2>1. 0 \in Logins /\ 0 \in 0..(MaxCalls + Len(Script))
    BY <1>1, ScriptIs DEF Logins
  <2>2. request \in [op : Ops \cup {"none"}, token : Logins, user : Logins]
    BY <2>1 DEF Init, NoRequest
  <2>3. program \in {"class", "caller"} \cup Samples /\ phase = "ready" /\ result = "none" /\ served = "nothing"
    BY DEF Init
  <2>4. m_token = 0 /\ m_user_id = 0 /\ logins = 0 /\ devices = 0 /\ sources = 0 /\ accepted = 0 /\ calls = 0
    BY DEF Init
  <2>5. {trusted, playing} \subseteq BOOLEAN
    BY DEF Init
  <2> QED BY <1>1, <2>1, <2>2, <2>3, <2>4, <2>5 DEF TypeOK
<1> QED BY <1>2, <1>3, <1>4 DEF TypeInv

(* The client and the service keep to their types: there are never more     *)
(* logins than calls that could have made one.                              *)
THEOREM TypeCorrect == Constants /\ Spec => []TypeOK
<1> SUFFICES ASSUME Constants PROVE Spec => []TypeOK
  OBVIOUS
<1>1. TypeInv => TypeOK
  BY DEF TypeInv
<1> QED BY <1>1, TypeInit, TypeStep, PTL DEF Spec
=============================================================================
