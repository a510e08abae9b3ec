--------------------------- MODULE CommandDispatch ---------------------------
(***************************************************************************)
(* main of the four programs: the function named by --module is looked up   *)
(* in a table and called once, its result is dropped and main returns 0.    *)
(* One table stands for the four.  The functions that keep state of their   *)
(* own are here with their modules: the one called runs, the others stay    *)
(* where they begin.  (The servers and the player never return and have     *)
(* runs of their own.)                                                      *)
(***************************************************************************)
EXTENDS WateringPlants

CONSTANTS
  MaxItems, MaxCalls,               (* SpeakerSession                       *)
  Tries,                            (* UploadAndPush                        *)
  MaxImages, MaxLost,               (* MediaTools                           *)
  Threads, Main,                    (* Sleeper                              *)
  Ids, Positions, Radius, MaxMoves, (* Tracker                              *)
  Bytes, MaxLength, Ints            (* Base64                               *)

VARIABLES
  command, main,    (* the name given, and where main is                    *)
  program, calls, speaker_phase, speaker_result, m_token, m_user_id, trusted,
  devices, sources, request, served, items, logins, playing, accepted,
  step, upload_result, upload_phase, try, written, performed, closed,
  tool, tool_phase, tool_step, held, film, due, lost, left, files, tool_result,
  terminate, m, at,
  targets, rtree, answer, moves,
  in, val, bits, out

Speaker == INSTANCE SpeakerSession WITH phase <- speaker_phase, result <- speaker_result
Upload == INSTANCE UploadAndPush WITH phase <- upload_phase, result <- upload_result
Tool == INSTANCE MediaTools WITH phase <- tool_phase, step <- tool_step, result <- tool_result
Sleep == INSTANCE Sleeper
Track == INSTANCE Tracker
Picture == INSTANCE Base64 WITH valb <- bits

ASSUME FunctionsAssumption ==
  /\ Speaker!Constants /\ Upload!Constants /\ Tool!Constants
  /\ Sleep!Constants /\ Track!Constants /\ Picture!Constants

speaker == <<program, calls, speaker_phase, speaker_result, m_token, m_user_id, trusted,
             devices, sources, request, served, items, logins, playing, accepted>>
upload == <<step, upload_result, upload_phase, try, written, performed, closed>>
ffmpeg == <<tool, tool_phase, tool_step, held, film, due, lost, left, files, tool_result>>
sleeper == <<terminate, m, at>>
tracking == <<targets, rtree, answer, moves>>
base64 == <<in, val, bits, out>>
functions == <<vars, speaker, upload, ffmpeg, sleeper, tracking, base64>>
all == <<command, main, functions>>

Functions == {"code_2105", "juansheng", "upload and push", "ffmpeg", "sleeper", "tracking", "base64"}
Invalid == "invalid argument"

DispatchInit ==
  /\ command \in Functions \cup {Invalid} /\ main = "lookup"
  /\ Init /\ Speaker!Init /\ Upload!Init /\ Tool!Init /\ Sleep!Init /\ Track!Init /\ Picture!Init

(* An invalid argument is logged, and main returns all the same.            *)
Lookup ==
  /\ main = "lookup"
  /\ main' = IF command \in Functions THEN "calls" ELSE "returned"
  /\ UNCHANGED <<command, functions>>

Runs(name) == main = "calls" /\ command = name
Called(name) == Runs(name) /\ UNCHANGED <<command, main>>

CallWatering ==
  Called("code_2105") /\ Next
    /\ UNCHANGED <<speaker, upload, ffmpeg, sleeper, tracking, base64>>
CallSpeaker ==
  Called("juansheng") /\ Speaker!Next
    /\ UNCHANGED <<vars, upload, ffmpeg, sleeper, tracking, base64>>
CallUpload ==
  Called("upload and push") /\ Upload!Next
    /\ UNCHANGED <<vars, speaker, ffmpeg, sleeper, tracking, base64>>
CallTool ==
  Called("ffmpeg") /\ Tool!Next
    /\ UNCHANGED <<vars, speaker, upload, sleeper, tracking, base64>>
CallSleeper ==
  Called("sleeper") /\ Sleep!Next
    /\ UNCHANGED <<vars, speaker, upload, ffmpeg, tracking, base64>>
CallTracker ==
  Called("tracking") /\ Track!Next
    /\ UNCHANGED <<vars, speaker, upload, ffmpeg, sleeper, base64>>
CallPicture ==
  Called("base64") /\ Picture!Next
    /\ UNCHANGED <<vars, speaker, upload, ffmpeg, sleeper, tracking>>

(* The function has come to its return.  A thread that is joined but never  *)
(* ends keeps test_interruptible_sleeper from it; how many targets and bytes*)
(* the last two see is theirs to choose.                                   *)
Finished ==
  CASE command = "code_2105" -> phase = "done"
    [] command = "juansheng" -> speaker_phase = "ended" /\ speaker_result # "crash"
    [] command = "upload and push" -> step = "ended" /\ upload_result # "crash"
    [] command = "ffmpeg" -> tool_phase = "returned"
    [] command = "sleeper" -> FALSE
    [] OTHER -> TRUE

Crashed == speaker_result = "crash" \/ upload_result = "crash" \/ tool_phase = "crashed"

(* Whatever the function has returned.                                      *)
Return ==
  /\ main = "calls" /\ Finished
  /\ main' = "returned"
  /\ UNCHANGED <<command, functions>>

DispatchNext ==
  \/ Lookup \/ Return
  \/ CallWatering \/ CallSpeaker \/ CallUpload \/ CallTool \/ CallSleeper \/ CallTracker \/ CallPicture

(* Each function under the fairness of its module: two of its conjuncts are *)
(* assumptions, that the user answers when asked for the id of a piece and  *)
(* that a camera which is recorded sends packets.                           *)
DispatchFairness ==
  /\ WF_all(Lookup) /\ WF_all(Return)
  /\ WF_vars(Runs("code_2105") /\ Next)
  /\ WF_speaker(Runs("juansheng") /\ \E op \in Speaker!Ops : Speaker!Call(op))
  /\ WF_speaker(Runs("juansheng") /\ (Speaker!Answer \/ Speaker!Lost))
  /\ WF_speaker(Runs("juansheng") /\ Speaker!Input)
  /\ WF_upload(Runs("upload and push") /\ (Upload!Write \/ Upload!ConnectFails))
  /\ WF_upload(Runs("upload and push") /\ Upload!Ended)
  /\ WF_ffmpeg(Runs("ffmpeg") /\ Tool!Works) /\ WF_ffmpeg(Runs("ffmpeg") /\ Tool!RecordFrame)
  /\ WF_ffmpeg(Runs("ffmpeg") /\ Tool!DeadlinePasses)
  /\ \A t \in Threads : WF_sleeper(Runs("sleeper") /\ Sleep!Steps(t))
  /\ WF_sleeper(Runs("sleeper") /\ Sleep!Interrupt)

DispatchSpec == DispatchInit /\ [][DispatchNext]_all /\ DispatchFairness
-----------------------------------------------------------------------------
(* What a good result of a function means, whatever was refused, lost, late *)
(* or repeated on the way: the music played five times and has stopped, the *)
(* record is there and so is its image.                                     *)
GoodMeansDone == Speaker!ZeroMeansSilent /\ Upload!ZeroMeansRecorded

(* What a failure on the way leaves behind is not mixed into what follows:  *)
(* a request carries the credentials of one login, a list taken whole from  *)
(* one answer or left empty, a record has its image and is repeated only    *)
(* after an orderly close; a recording that returned has been given its     *)
(* trailer, or the writing of it was tried; and the ffmpeg tools give back  *)
(* their files, the camera, the temporary directory and all packets but one.*)
NothingHalf ==
  /\ Speaker!TypeOK /\ Speaker!OneSession /\ Speaker!WholeOrEmpty
  /\ Upload!TypeOK /\ Upload!RecordAfterImage /\ Upload!TwiceOnlyIfClosed
  /\ Tool!TypeOK /\ Tool!Closed /\ Tool!TrailerTried /\ Tool!OnePacketLost /\ Tool!NothingTemporary

(* The index holds every target where it is, once.                          *)
IndexInStep == Track!TypeOK /\ Track!EveryTargetFound /\ Track!OnceEach

(* Pictures as text: httplib's digits are those of base64 though its        *)
(* accumulator overflows; what is saved begins with the picture.            *)
EncodesAsBase64 == Picture!EncodesAsBase64 /\ Picture!FewBitsWait /\ Picture!SavedBeginsWithPicture

(* interrupt() reaches every sleeping thread, which until then sleeps on.   *)
InterruptHeeded == Sleep!InterruptHeeded /\ Sleep!SleepsLong

(* main returns, though cameras send for ever and services do not answer,   *)
(* unless its function goes on for ever or cuts it down.                    *)
Endless ==
  \/ command = "sleeper"
  \/ command = "juansheng" /\ program = "caller"
  \/ command = "ffmpeg" /\ tool \in {"jpg", "rtsp"}
ProgramsEnd == ~Endless ~> (main = "returned" \/ Crashed)
=============================================================================
