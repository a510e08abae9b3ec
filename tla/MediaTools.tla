----------------------------- MODULE MediaTools -----------------------------
(***************************************************************************)
(* The tools around ffmpeg: a camera recorded to a film for a given time    *)
(* ("record"), to pictures by hand ("jpg") or through OpenCV ("rtsp"), and  *)
(* pictures made into a film by the library ("film") or by the ffmpeg       *)
(* command ("command").  Each takes one thing after another from ffmpeg,    *)
(* loops over frames or images and gives back what it holds.  What matters  *)
(* is what each failure leaves: which things are held, how far the film     *)
(* has come, which result the tool returns.                                 *)
(***************************************************************************)
EXTENDS Integers, Sequences

CONSTANTS
  MaxImages,   (* images in the directory, at most                          *)
  MaxLost      (* bound on packets lost by the tools that lose any number   *)

Constants == {MaxImages, MaxLost} \subseteq Nat

VARIABLES
  tool,      (* which of the five runs                                      *)
  phase,     (* setup, loop, delete, returned or crashed                    *)
  step,      (* how many steps of the setup are done                        *)
  held,      (* what the tool has taken and not given back                  *)
  film,      (* the file written: none, open, headed, whole or, when its    *)
             (* trailer could not be written, spoilt                        *)
  due,       (* the time for the recording is over                          *)
  lost,      (* packets that were never given back                          *)
  left,      (* images still to do                                          *)
  files,     (* files in the temporary directory                            *)
  result     (* none; ok, which is 0 or what a success has left; or error   *)

vars == <<tool, phase, step, held, film, due, lost, left, files, result>>

Tools == {"record", "jpg", "rtsp", "film", "command"}
Resources == {"input", "options", "output", "file", "codec", "frame", "sws", "packet", "directory"}

(* The calls before the loop, in their order.                               *)
Setup ==
  [record  |-> <<"alloc", "open", "info", "output", "stream", "params", "file", "header">>,
   jpg     |-> <<"alloc", "open", "info", "video", "decoder", "codec", "frame">>,
   rtsp    |-> <<"frame", "alloc", "open", "info", "video", "decoder", "codec", "codec_open", "sws">>,
   film    |-> <<"output", "encoder", "stream", "codec", "codec_open", "file", "header", "frame", "buffer">>,
   command |-> <<"sort", "directory">>]

Takes(call) ==
  CASE call = "alloc" -> {"input", "options"}
    [] call = "open" -> {"input"}
    [] call \in {"output", "file", "codec", "frame", "sws", "directory"} -> {call}
    [] OTHER -> {}

(* What follows when a call fails: it is ignored; the tool returns its      *)
(* result, or the result of the last call that had one, which succeeded;    *)
(* it jumps to the code that gives back what is held; or it throws.  Memory *)
(* runs out only where the code looks whether it did.                       *)
OnFailure(call) ==
  IF call = "alloc" \/ (tool \in {"jpg", "rtsp"} /\ call \in {"codec", "frame"}) THEN "never"
  ELSE IF call = "sws" \/ <<tool, call>> = <<"record", "header">> THEN "ignored"
  ELSE CASE tool \in {"rtsp", "film"} -> "goto"
         [] <<tool, call>> \in {<<"record", "stream">>, <<"jpg", "video">>, <<"jpg", "decoder">>} -> "return last"
         [] call = "sort" -> "throw"
         [] OTHER -> "return"

Init ==
  /\ tool \in Tools /\ phase = "setup" /\ step = 0
  /\ held = {} /\ film = "none" /\ due = FALSE /\ lost = 0 /\ files = 0
  /\ left \in IF tool \in {"film", "command"} THEN 0..MaxImages ELSE {0}
  /\ result = "none"

Return(r) == phase' = "returned" /\ result' = r
Crash == phase' = "crashed" /\ result' = result

(* __RETURN_DATA.  The film tool looks into its output context, which may   *)
(* never have been made.                                                    *)
GiveBack(things) ==
  IF tool = "film" /\ "output" \notin things
  THEN Crash /\ held' = things
  ELSE /\ Return("ok")
       /\ held' = things \ CASE tool = "film" -> {"output", "file", "frame"}
                             [] tool = "rtsp" -> {"input", "codec", "frame"}
                             [] tool = "jpg" -> {"input", "codec", "frame"}
                             [] tool = "record" -> {"input", "output", "file", "options"}
                             [] OTHER -> {}

-----------------------------------------------------------------------------
NextCall == Setup[tool][step + 1]
Ready == step + 1 = Len(Setup[tool])

(* avformat_open_input uses up the options.                                 *)
Succeed ==
  /\ phase = "setup"
  /\ held' = (held \cup Takes(NextCall)) \ (IF NextCall = "open" THEN {"options"} ELSE {})
  /\ film' = CASE NextCall = "file" -> "open"
               [] NextCall = "header" -> "headed"
               [] OTHER -> film
  /\ step' = step + 1 /\ phase' = IF Ready THEN "loop" ELSE "setup"
  /\ UNCHANGED <<tool, due, lost, left, files, result>>

(* avformat_open_input gives back the context it could not open.  Names are *)
(* compared, and may turn out to have no number, when there are two.        *)
FailCall ==
  /\ phase = "setup"
  /\ OnFailure(NextCall) # "never"
  /\ NextCall = "sort" => left > 1
  /\ LET things == held \ IF NextCall = "open" THEN {"input"} ELSE {}
     IN CASE OnFailure(NextCall) = "ignored" ->
               held' = things /\ phase' = (IF Ready THEN "loop" ELSE "setup") /\ result' = result
          [] OnFailure(NextCall) = "goto" -> GiveBack(things)
          [] OnFailure(NextCall) = "return" -> Return("error") /\ held' = things
          [] OnFailure(NextCall) = "return last" -> Return("ok") /\ held' = things
          [] OTHER -> Crash /\ held' = things
  /\ step' = step + 1
  /\ UNCHANGED <<tool, film, due, lost, left, files>>

-----------------------------------------------------------------------------
(* After the last frame or image: the trailer, whose result is not looked   *)
(* at.  Nothing says what becomes of one without a header.                  *)
Finish ==
  \/ GiveBack(held) /\ film' \in IF film = "headed" THEN {"whole", "spoilt"} ELSE {film}
  \/ film = "open" /\ Crash /\ UNCHANGED <<held, film>>

(* Recording: the clock is looked at when a packet has come.  A packet is   *)
(* written, or not, without looking; to a film without a header as well.    *)
DeadlinePasses ==
  /\ tool = "record" /\ phase = "loop" /\ ~due
  /\ due' = TRUE
  /\ UNCHANGED <<tool, phase, step, held, film, lost, left, files, result>>

RecordFrame ==
  /\ tool = "record" /\ phase = "loop"
  /\ \/ due /\ Finish /\ lost' = lost + 1
     \/ ~due /\ UNCHANGED <<phase, result, held, film, lost>>
     \/ ~due /\ film = "open" /\ Crash /\ UNCHANGED <<held, film, lost>>
  /\ UNCHANGED <<tool, step, due, left, files>>

(* OpenCV: a packet of another stream, or one without a picture, is lost.   *)
RtspFrame ==
  /\ tool = "rtsp" /\ phase = "loop"
  /\ \/ lost' = lost /\ IF "sws" \in held THEN UNCHANGED <<phase, result>> ELSE Crash
     \/ lost < MaxLost /\ lost' = lost + 1 /\ UNCHANGED <<phase, result>>
  /\ UNCHANGED <<tool, step, held, film, due, left, files>>

(* By hand: the packet of the picture is given back only when there is      *)
(* none, and nothing says what is in it before it is first used.            *)
JpgFrame ==
  /\ tool = "jpg" /\ phase = "loop"
  /\ \/ UNCHANGED <<phase, lost, result>>
     \/ lost < MaxLost /\ lost' = lost + 1 /\ UNCHANGED <<phase, result>>
     \/ Crash /\ lost' = lost
  /\ UNCHANGED <<tool, step, held, film, due, left, files>>

StreamEnds ==
  /\ tool \in {"record", "rtsp", "jpg"} /\ phase = "loop"
  /\ Finish /\ UNCHANGED <<tool, step, due, lost, left, files>>

(* Film: an image that cannot be read is the last; an encoder that has no   *)
(* packet yet is an error like any other, and the packet stays behind.      *)
FilmImage ==
  /\ tool = "film" /\ phase = "loop" /\ left > 0
  /\ \/ left' = left - 1 /\ UNCHANGED <<phase, held, film, result>>
     \/ Finish /\ left' = left
     \/ GiveBack(held \cup {"packet"}) /\ left' = left - 1 /\ film' = film
  /\ UNCHANGED <<tool, step, due, lost, files>>

FilmEnds ==
  /\ tool = "film" /\ phase = "loop" /\ left = 0
  /\ Finish /\ UNCHANGED <<tool, step, due, lost, left, files>>

(* Command: the images that can be read become files, the command is run,   *)
(* whatever comes of it, and what was made is deleted.                      *)
WriteFile ==
  /\ tool = "command" /\ phase = "loop" /\ left > 0
  /\ left' = left - 1
  /\ files' \in {files, files + 1}
  /\ UNCHANGED <<tool, phase, step, held, film, due, lost, result>>

RunCommand ==
  /\ tool = "command" /\ phase = "loop" /\ left = 0
  /\ film' \in {film, "whole"} /\ phase' = "delete"
  /\ UNCHANGED <<tool, step, held, due, lost, left, files, result>>

(* rmdir removes what is empty.                                             *)
Delete ==
  /\ phase = "delete"
  /\ IF files > 0 THEN files' = files - 1 /\ UNCHANGED <<phase, held, result>>
     ELSE Return("ok") /\ held' = held \ {"directory"} /\ files' = files
  /\ UNCHANGED <<tool, step, film, due, lost, left>>

Goes == RecordFrame \/ RtspFrame \/ JpgFrame \/ StreamEnds
Works == Succeed \/ FailCall \/ FilmImage \/ FilmEnds \/ WriteFile \/ RunCommand \/ Delete

Next == Works \/ Goes \/ DeadlinePasses

(* Every call of ffmpeg returns, and time passes.  The camera may go on     *)
(* sending for ever.                                                        *)
Spec == Init /\ [][Next]_vars /\ WF_vars(Works) /\ WF_vars(RecordFrame) /\ WF_vars(DeadlinePasses)
-----------------------------------------------------------------------------
TypeOK ==
  /\ tool \in Tools /\ phase \in {"setup", "loop", "delete", "returned", "crashed"}
  /\ step \in 0..Len(Setup[tool]) /\ held \subseteq Resources
  /\ film \in {"none", "open", "headed", "whole", "spoilt"} /\ due \in BOOLEAN
  /\ lost \in Nat /\ left \in 0..MaxImages /\ files \in 0..MaxImages
  /\ result \in {"none", "ok", "error"}

(* Whatever fails, no tool returns with its output file open, nor with the  *)
(* camera when it jumped or came to its end.                                *)
Closed ==
  phase = "returned" =>
    /\ "file" \notin held
    /\ (tool = "rtsp" \/ (step = Len(Setup[tool]) /\ result = "ok")) => "input" \notin held

(* However a recording ended that returned well after its header was        *)
(* written, its trailer was tried before the file was closed.               *)
TrailerTried ==
  tool = "record" /\ phase = "returned" /\ result = "ok" => film # "headed"

(* The recording loses one packet at most, the one that came too late.      *)
OnePacketLost == tool = "record" => lost <= (IF due THEN 1 ELSE 0)

(* The command's temporary directory is gone when the tool returns.         *)
NothingTemporary == phase = "returned" /\ tool = "command" => "directory" \notin held

(* A recording ends though the camera sends for ever, and so do the tools   *)
(* that work through a directory.                                           *)
Ends == tool \in {"record", "film", "command"} ~> phase \in {"returned", "crashed"}

(* A recording that could not be made is not reported as one that was. The  *)
(* code does not keep this: the results of the header and of the trailer    *)
(* are not looked at, that of a missing stream is not set.                  *)
FailureIsSaid ==
  phase = "returned" /\ tool = "record" /\ film # "whole" => result = "error"

(* A tool that logs an error and jumps to its end returns. The code does    *)
(* not keep this: the end closes what was never made.                       *)
ErrorsReturn == tool = "film" => phase # "crashed"
=============================================================================
