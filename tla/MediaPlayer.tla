---------------------------- MODULE MediaPlayer ----------------------------
(***************************************************************************)
(* ffmpeg_unit::Media of ffmpeg/MediaPlayer.hpp: one thread of the caller, *)
(* which opens a stream, plays, closes and destroys the player and asks    *)
(* for the current image in any order, and the thread Play starts.  They   *)
(* share exit_flag and the image without a lock.                           *)
(*                                                                         *)
(* An image is a cv::Mat: a header that points to a buffer with a count of *)
(* references; an assignment releases the old buffer before it replaces    *)
(* the pointer, a copy loads the pointer before it counts itself.          *)
(***************************************************************************)
EXTENDS Integers

CONSTANTS
  Buffers,     (* bound: buffers of images                                   *)
  Null         (* the header of an empty image                               *)

ASSUME NullAssumption == Null \notin Buffers

VARIABLES
  context,     (* format_context_ptr: allocated, open, null, freed           *)
  stream,      (* video_stream_index # -1                                    *)
  codec,       (* codec_context_ptr: null, closed, open, freed               *)
  scaler,      (* sws_context_ptr # null                                     *)
  opened,      (* what Open returned last                                    *)
  exit_flag,
  thread,      (* none, running, ended: joinable unless none                 *)
  ppc,         (* position of the play thread                                *)
  image,       (* where the header of the member image points                *)
  fresh,       (* the buffer made for the frame just decoded                 *)
  refs,        (* references to a buffer, 0 when it is free                  *)
  whole,       (* buffers that hold a converted picture                      *)
  upc,         (* position of the caller: idle, copying, joining, leaving    *)
  held,        (* the picture the caller has from GetImage                   *)
  program,     (* up, crashed, terminated, undefined, or over                *)
  careful,     (* history: every Play followed an Open that returned true    *)
  late         (* history: frames shown since exit_flag, at most counted to 2 *)

ffmpeg == <<context, stream, codec, scaler, opened>>
mats   == <<image, fresh, refs, whole>>
player == <<thread, ppc, late>>
caller == <<upc, held, careful>>
vars   == <<ffmpeg, exit_flag, player, mats, caller, program>>

Init ==
  /\ context = "allocated" /\ stream = FALSE /\ codec = "null"
  /\ scaler = FALSE /\ opened = FALSE
  /\ exit_flag = FALSE
  /\ thread = "none" /\ ppc = "check" /\ late = 0
  /\ image = Null /\ fresh = Null /\ refs = [b \in Buffers |-> 0] /\ whole = {}
  /\ upc = "idle" /\ held = Null /\ careful = TRUE
  /\ program = "up"

Fresh(b) == refs[b] = 0
Released(b) == IF b = Null THEN refs ELSE [refs EXCEPT ![b] = @ - 1]

----------------------------------------------------------------------------
(* The caller.                                                             *)

CallerMay(position) == program = "up" /\ upc = position

(* What Open leaves behind at each of its returns.                         *)
OpenLeaves(ctx, video, dec, res) ==
  /\ context' = ctx /\ stream' = video /\ codec' = dec /\ opened' = res
  /\ IF res THEN scaler' \in BOOLEAN ELSE UNCHANGED scaler

(* Mutant: no decoder is no failure. *)
OpenWithoutDecoder ==
  /\ CallerMay("idle") /\ context \in {"allocated", "null"}
  /\ \/ OpenLeaves("null", FALSE, "null", FALSE)
     \/ OpenLeaves("open", TRUE, "null", TRUE)
     \/ OpenLeaves("open", TRUE, "open", TRUE)
  /\ UNCHANGED <<exit_flag, player, mats, caller, program>>

(* avformat_open_input frees the context it cannot open; the later         *)
(* failures leave what has been built.  Last comes sws_getContext, whose    *)
(* result is not looked at: an Open that returns true may have no scaler.   *)
(* An open context is opened no more.                                      *)
Open ==
  /\ CallerMay("idle") /\ context \in {"allocated", "null"}
  /\ \/ OpenLeaves("null", FALSE, "null", FALSE)    \* no input
     \/ OpenLeaves("open", FALSE, "null", FALSE)    \* no stream info or video
     \/ OpenLeaves("open", TRUE, "null", FALSE)     \* no decoder
     \/ OpenLeaves("open", TRUE, "closed", FALSE)   \* avcodec_open2 fails
     \/ OpenLeaves("open", TRUE, "open", TRUE)
  /\ UNCHANGED <<exit_flag, player, mats, caller, program>>

(* To assign to a std::thread that is joinable ends the program. *)
Play ==
  /\ CallerMay("idle")
  /\ careful' = (careful /\ opened /\ thread = "none")
  /\ IF thread = "none"
     THEN thread' = "running" /\ ppc' = "check" /\ UNCHANGED program
     ELSE program' = "terminated" /\ UNCHANGED <<thread, ppc>>
  /\ UNCHANGED <<ffmpeg, exit_flag, late, mats, upc, held>>

(* Close, by itself or as the first thing the destructor does. *)
Close(purpose) ==
  /\ CallerMay("idle")
  /\ exit_flag' = TRUE
  /\ upc' = purpose
  /\ UNCHANGED <<ffmpeg, player, mats, held, careful, program>>

Joined == thread # "running"

CloseReturns ==
  /\ CallerMay("joining") /\ Joined
  /\ thread' = "none"
  /\ upc' = "idle"
  /\ UNCHANGED <<ffmpeg, exit_flag, ppc, late, mats, held, careful, program>>

(* Mutant: the destructor does not wait for the thread. *)
DestroyAtOnce ==
  /\ CallerMay("leaving")
  /\ context' = "freed" /\ codec' = "freed"
  /\ refs' = Released(image) /\ image' = Null
  /\ program' = "over"
  /\ UNCHANGED <<stream, scaler, opened, exit_flag, player, fresh, whole, upc, held, careful>>

(* The rest of the destructor.  What the caller still has is its own. *)
Destroy ==
  /\ CallerMay("leaving") /\ Joined
  /\ thread' = "none"
  /\ context' = "freed" /\ codec' = "freed"
  /\ refs' = Released(image) /\ image' = Null
  /\ program' = "over"
  /\ UNCHANGED <<stream, scaler, opened, exit_flag, ppc, late, fresh, whole, upc, held, careful>>

(* Mutant: a reference to the member is returned. *)
GetImageByReference ==
  /\ CallerMay("idle") /\ held = Null /\ image # Null
  /\ held' = image
  /\ UNCHANGED <<ffmpeg, exit_flag, player, mats, upc, careful, program>>

(* GetImage loads the header; an empty image has no buffer to count. *)
GetImage ==
  /\ CallerMay("idle") /\ held = Null /\ image # Null
  /\ held' = image
  /\ upc' = "copying"
  /\ UNCHANGED <<ffmpeg, exit_flag, player, mats, careful, program>>

(* The copy counts itself: in a buffer freed meanwhile anything may follow, *)
(* in one that already belongs to the next frame it is counted there.      *)
Copied ==
  /\ CallerMay("copying")
  /\ IF Fresh(held)
     THEN program' = "undefined" /\ UNCHANGED <<refs, upc>>
     ELSE refs' = [refs EXCEPT ![held] = @ + 1] /\ upc' = "idle" /\ UNCHANGED program
  /\ UNCHANGED <<ffmpeg, exit_flag, player, image, fresh, whole, held, careful>>

Drop ==
  /\ program \in {"up", "over"} /\ upc \in {"idle", "leaving"} /\ held # Null
  /\ refs' = Released(held)
  /\ held' = Null
  /\ UNCHANGED <<ffmpeg, exit_flag, player, image, fresh, whole, upc, careful, program>>

Caller ==
  \/ Open \/ Play
  \/ \E purpose \in {"joining", "leaving"} : Close(purpose)
  \/ CloseReturns \/ Destroy
  \/ GetImage \/ Copied \/ Drop

----------------------------------------------------------------------------
(* The play thread.                                                        *)

At(position) == program = "up" /\ thread = "running" /\ ppc = position
Crash == program' = "crashed" /\ UNCHANGED <<thread, ppc>>
Goto(label) == ppc' = label /\ UNCHANGED <<thread, program>>
End == thread' = "ended" /\ UNCHANGED <<ppc, program>>

(* Mutant: the flag is not looked at. *)
GoOn ==
  /\ At("check") /\ Goto("read")
  /\ UNCHANGED <<ffmpeg, exit_flag, late, mats, caller>>

CheckExit ==
  /\ At("check")
  /\ IF exit_flag THEN End ELSE Goto("read")
  /\ UNCHANGED <<ffmpeg, exit_flag, late, mats, caller>>

(* av_read_frame: an end or an error, a packet of another stream, or one of *)
(* the video's.  It needs a context that is open.                          *)
ReadFrame ==
  /\ At("read")
  /\ IF context # "open"
     THEN Crash
     ELSE End \/ Goto("check") \/ (stream /\ Goto("decode"))
  /\ UNCHANGED <<ffmpeg, exit_flag, late, mats, caller>>

(* A decoder that is closed, or has no frame yet, gives none. *)
Decode ==
  /\ At("decode")
  /\ \/ codec = "null" /\ Crash
     \/ codec \in {"closed", "open"} /\ Goto("check")
     \/ codec = "open" /\ Goto("create")
  /\ UNCHANGED <<ffmpeg, exit_flag, late, mats, caller>>

(* image = cv::Mat(...): a new buffer, the release of the old one, ...      *)
Create ==
  /\ At("create")
  /\ \E b \in Buffers :
       /\ Fresh(b)
       /\ fresh' = b
       /\ refs' = [refs EXCEPT ![b] = 1]
       /\ whole' = whole \ {b}
  /\ Goto("release")
  /\ UNCHANGED <<ffmpeg, exit_flag, late, image, caller>>

(* Mutant: the old image is released by hand as well. *)
ReleaseTwice ==
  /\ At("release")
  /\ refs' = IF image = Null THEN refs ELSE [refs EXCEPT ![image] = @ - 2]
  /\ Goto("assign")
  /\ UNCHANGED <<ffmpeg, exit_flag, late, image, fresh, whole, caller>>

Release ==
  /\ At("release")
  /\ refs' = Released(image)
  /\ Goto("assign")
  /\ UNCHANGED <<ffmpeg, exit_flag, late, image, fresh, whole, caller>>

(* ... and the new header. *)
Assign ==
  /\ At("assign")
  /\ image' = fresh /\ fresh' = Null
  /\ Goto("paint")
  /\ UNCHANGED <<ffmpeg, exit_flag, late, refs, whole, caller>>

(* sws_scale and cvtColor fill the buffer in place; there must be a scaler. *)
Paint ==
  /\ At("paint")
  /\ IF scaler
     THEN whole' = whole \cup {image} /\ Goto("show")
     ELSE Crash /\ UNCHANGED whole
  /\ UNCHANGED <<ffmpeg, exit_flag, late, image, fresh, refs, caller>>

Show ==
  /\ At("show")
  /\ late' = IF exit_flag /\ late < 2 THEN late + 1 ELSE late
  /\ Goto("check")
  /\ UNCHANGED <<ffmpeg, exit_flag, mats, caller>>

Player ==
  \/ CheckExit \/ ReadFrame \/ Decode
  \/ Create \/ Release \/ Assign
  \/ Paint \/ Show

Next == Caller \/ Player

Spec == Init /\ [][Next]_vars

(* Both threads run, and av_read_frame returns; a caller that waits in      *)
(* join() goes on when it can.                                             *)
FairSpec == Spec /\ WF_vars(Player) /\ WF_vars(CloseReturns \/ Destroy)

----------------------------------------------------------------------------
(* Properties.                                                             *)

FfmpegTypeOK ==
  /\ context \in {"allocated", "open", "null", "freed"}
  /\ codec \in {"null", "closed", "open", "freed"}
  /\ {stream, scaler, opened, exit_flag, careful} \subseteq BOOLEAN

ThreadsTypeOK ==
  /\ thread \in {"none", "running", "ended"}
  /\ ppc \in {"check", "read", "decode", "create", "release", "assign", "paint", "show"}
  /\ upc \in {"idle", "copying", "joining", "leaving"}
  /\ program \in {"up", "crashed", "terminated", "undefined", "over"}
  /\ late \in 0..2

MatsTypeOK ==
  /\ {image, fresh, held} \subseteq Buffers \cup {Null}
  /\ refs \in [Buffers -> 0..2]
  /\ whole \subseteq Buffers

TypeOK == FfmpegTypeOK /\ ThreadsTypeOK /\ MatsTypeOK

(* A picture the caller has got is not freed while it has it, whatever the  *)
(* play thread, Close and the destructor do meanwhile.                     *)
HeldAlive == held # Null /\ upc # "copying" => refs[held] > 0

(* A program that plays once, and only after Open has returned true, is     *)
(* ended by one thing at most: the first frame of a stream for which        *)
(* sws_getContext made no scaler.  No step of the thread finds a context or *)
(* a decoder missing or freed.                                             *)
CarefulIsSafe ==
  careful => program # "terminated" /\ (program = "crashed" => ppc = "paint" /\ ~scaler)

(* An Open that returned true is all that Play, once, relies on. The code   *)
(* does not keep this: Open returns true without a scaler as well.          *)
OpenSuffices == careful => program \notin {"crashed", "terminated"}

(* ffmpeg's structures are freed only when no thread can use them. *)
FreedUnused == context = "freed" \/ codec = "freed" => thread = "none"

(* After Close at most the frame that is being worked on is still shown,    *)
(* and a second Play shows nothing: exit_flag is never taken back.         *)
AtMostOneMore == late <= 1

(* Close and the destructor return, however long the stream goes on. *)
Stops == (upc \in {"joining", "leaving"}) ~> (upc = "idle" \/ program # "up")

(* What GetImage returns while the player plays is a picture: the test that *)
(* calls it gives every image that is not empty to the face detector.      *)
WholePicture == held # Null /\ upc # "copying" => held \in whole
=============================================================================
