------------------------- MODULE MediaPlayerProofs -------------------------
(***************************************************************************)
(* The player for any number of image buffers: its types, the count of     *)
(* references that keeps a caller's picture alive, and what Close and the  *)
(* destructor promise.                                                     *)
(***************************************************************************)
EXTENDS MediaPlayer, TLAPS

(* The references to buffer b: of the member image, unless the play thread  *)
(* has just released it, of the caller's copy and of the new frame.        *)
OfImage(b)  == IF image = b /\ ppc # "assign" THEN 1 ELSE 0
OfCaller(b) == IF held = b /\ upc # "copying" THEN 1 ELSE 0
OfFrame(b)  == IF fresh = b THEN 1 ELSE 0

Count(b) == OfImage(b) + OfCaller(b) + OfFrame(b)

Counted == \A b \in Buffers : refs[b] = Count(b)

(* A new frame exists only between its creation and its assignment, and an  *)
(* ended thread left the loop where it looks at exit_flag or reads.        *)
FrameOK ==
  /\ fresh # Null <=> ppc \in {"release", "assign"}
  /\ fresh # Null => fresh # image
  /\ thread # "running" => ppc \in {"check", "read"}
  /\ ppc \in {"paint", "show"} => image # Null
  /\ upc = "copying" => held # Null

(* What a true return of Open stands for, until the destructor. *)
OpenOK ==
  /\ opened /\ program # "over" => context = "open" /\ codec = "open"
  /\ careful /\ thread = "running" => opened
  /\ context = "freed" \/ codec = "freed" => program = "over" /\ thread = "none"
  /\ program = "over" => thread = "none"

(* A frame shown after Close is followed by a look at exit_flag. *)
LateOK == late # 0 => exit_flag /\ late = 1 /\ ppc = "check"

IInv == TypeOK /\ Counted /\ FrameOK /\ OpenOK /\ LateOK /\ CarefulIsSafe

----------------------------------------------------------------------------
(* The initial state: no thread, no image, nothing counted. *)
LEMMA InitOK == Init => IInv
<1> SUFFICES ASSUME Init PROVE IInv
  OBVIOUS
<1> USE DEF Init
<1>1. TypeOK
  <2>1. FfmpegTypeOK
    BY DEF FfmpegTypeOK
  <2>2. ThreadsTypeOK /\ MatsTypeOK
    BY DEF ThreadsTypeOK, MatsTypeOK
  <2> QED BY <2>1, <2>2 DEF TypeOK
<1>2. ASSUME NEW b \in Buffers
      PROVE  refs[b] = Count(b)
  BY NullAssumption DEF Count, OfImage, OfCaller, OfFrame
<1>3. FrameOK /\ OpenOK /\ LateOK /\ CarefulIsSafe
  BY DEF FrameOK, OpenOK, LateOK, CarefulIsSafe
<1> QED BY <1>1, <1>2, <1>3 DEF IInv, Counted

(* Where the references are counted no buffer has more than two: the member *)
(* image and the new frame are never the same buffer.                      *)
LEMMA CountBound ==
  ASSUME refs' \in [Buffers -> Int], Counted', FrameOK'
  PROVE  refs' \in [Buffers -> 0..2]
<1>1. ASSUME NEW b \in Buffers
      PROVE  refs'[b] \in 0..2
  BY <1>1, NullAssumption DEF Counted, FrameOK, Count, OfImage, OfCaller, OfFrame
<1> QED BY <1>1

(* Steps that touch no image: the caller's use of ffmpeg and the thread's   *)
(* way to a frame keep every reference counted.                            *)
LEMMA MatsUntouched ==
  ASSUME IInv, UNCHANGED <<mats, held>>,
         upc' = "copying" <=> upc = "copying",
         ppc' = "assign" <=> ppc = "assign"
  PROVE  Counted' /\ MatsTypeOK'
<1> USE DEF mats
<1>1. ASSUME NEW b \in Buffers
      PROVE  refs'[b] = Count(b)'
  BY DEF IInv, Counted, Count, OfImage, OfCaller, OfFrame
<1>2. MatsTypeOK'
  BY DEF IInv, TypeOK, MatsTypeOK
<1> QED BY <1>1, <1>2 DEF Counted

(* Open: a true return leaves the context and the decoder open. *)
LEMMA OpenStep == IInv /\ Open => IInv'
<1> SUFFICES ASSUME IInv, Open PROVE IInv'
  OBVIOUS
<1> USE DEF Open, OpenLeaves, CallerMay, player, caller
<1>1. Counted' /\ MatsTypeOK'
  BY MatsUntouched
<1>2. FfmpegTypeOK' /\ ThreadsTypeOK'
  BY DEF IInv, TypeOK, FfmpegTypeOK, ThreadsTypeOK
<1>3. FrameOK' /\ LateOK' /\ CarefulIsSafe'
  BY DEF IInv, FrameOK, LateOK, CarefulIsSafe, mats
<1>4. OpenOK'
  BY DEF IInv, OpenOK
<1> QED BY <1>1, <1>2, <1>3, <1>4 DEF IInv, TypeOK

(* Play: a second call ends the program, and is not careful. *)
LEMMA PlayStep == IInv /\ Play => IInv'
<1> SUFFICES ASSUME IInv, Play PROVE IInv'
  OBVIOUS
<1> USE DEF Play, CallerMay, ffmpeg
<1>1. ppc' = "assign" <=> ppc = "assign"
  BY DEF IInv, FrameOK
<1>2. Counted' /\ MatsTypeOK'
  BY <1>1, MatsUntouched
<1>3. FfmpegTypeOK' /\ ThreadsTypeOK'
  BY DEF IInv, TypeOK, FfmpegTypeOK, ThreadsTypeOK
<1>4. FrameOK' /\ LateOK' /\ CarefulIsSafe'
  BY DEF IInv, FrameOK, LateOK, CarefulIsSafe, mats
<1>5. OpenOK'
  BY DEF IInv, OpenOK
<1> QED BY <1>2, <1>3, <1>4, <1>5 DEF IInv, TypeOK

(* Close and the return from it: the flag is set, the thread is gone. *)
LEMMA CloseStep ==
  ASSUME IInv, (\E purpose \in {"joining", "leaving"} : Close(purpose)) \/ CloseReturns
  PROVE  IInv'
<1> USE DEF Close, CloseReturns, Joined, CallerMay, ffmpeg, player
<1>1. Counted' /\ MatsTypeOK'
  BY MatsUntouched
<1>2. FfmpegTypeOK' /\ ThreadsTypeOK'
  BY DEF IInv, TypeOK, FfmpegTypeOK, ThreadsTypeOK
<1>3. FrameOK' /\ LateOK' /\ CarefulIsSafe'
  BY DEF IInv, FrameOK, LateOK, CarefulIsSafe, mats
<1>4. OpenOK'
  BY DEF IInv, OpenOK
<1> QED BY <1>1, <1>2, <1>3, <1>4 DEF IInv, TypeOK

(* The destructor: no thread is left when it frees, and only the reference  *)
(* of the member image is given back.                                      *)
LEMMA DestroyStep == IInv /\ Destroy => IInv'
<1> SUFFICES ASSUME IInv, Destroy PROVE IInv'
  OBVIOUS
<1> USE DEF Destroy, Joined, CallerMay
<1>1. thread # "running" /\ ppc \in {"check", "read"} /\ fresh = Null
  BY DEF IInv, FrameOK
<1>2. refs' \in [Buffers -> Int] /\ Counted'
  <2>1. refs' \in [Buffers -> Int]
    BY DEF IInv, TypeOK, MatsTypeOK, Released
  <2>2. ASSUME NEW b \in Buffers
        PROVE  refs'[b] = Count(b)'
    BY <1>1, NullAssumption
    DEF IInv, TypeOK, MatsTypeOK, Counted, Count, OfImage, OfCaller, OfFrame, Released
  <2> QED BY <2>1, <2>2 DEF Counted
<1>3. FrameOK' /\ LateOK' /\ CarefulIsSafe' /\ OpenOK'
  BY <1>1 DEF IInv, FrameOK, LateOK, CarefulIsSafe, OpenOK
<1>4. FfmpegTypeOK' /\ ThreadsTypeOK'
  BY DEF IInv, TypeOK, FfmpegTypeOK, ThreadsTypeOK
<1>5. MatsTypeOK'
  BY <1>2, <1>3, CountBound DEF IInv, TypeOK, MatsTypeOK
<1> QED BY <1>2, <1>3, <1>4, <1>5 DEF IInv, TypeOK

(* The caller's copy: loaded, then counted, and given back once. *)
LEMMA PictureStep ==
  ASSUME IInv, GetImage \/ Copied \/ Drop
  PROVE  IInv'
<1> USE DEF GetImage, Copied, Drop, CallerMay, ffmpeg, player, mats
<1> USE DEF IInv, TypeOK, MatsTypeOK
<1>1. refs' \in [Buffers -> Int] /\ Counted'
  <2>1. refs' \in [Buffers -> Int]
    BY DEF Released, FrameOK
  <2>2. ASSUME NEW b \in Buffers
        PROVE  refs'[b] = Count(b)'
    <3> USE DEF Counted, Count, OfImage, OfCaller, OfFrame
    <3>1. CASE GetImage
      BY <3>1, NullAssumption
    <3>2. CASE Copied
      BY <3>2 DEF FrameOK
    <3>3. CASE Drop
      <4>1. refs' = [refs EXCEPT ![held] = @ - 1] /\ held \in Buffers /\ upc # "copying"
        BY <3>3 DEF Released
      <4>2. Count(b)' = OfImage(b) + OfFrame(b)
        BY <3>3, NullAssumption
      <4>3. refs[b] = Count(b)
        OBVIOUS
      <4> QED BY <4>1, <4>2, <4>3
    <3> QED BY <3>1, <3>2, <3>3
  <2> QED BY <2>1, <2>2 DEF Counted
<1>2. FrameOK' /\ LateOK' /\ CarefulIsSafe' /\ OpenOK'
  BY DEF IInv, FrameOK, LateOK, CarefulIsSafe, OpenOK
<1>3. FfmpegTypeOK' /\ ThreadsTypeOK'
  BY DEF IInv, TypeOK, FfmpegTypeOK, ThreadsTypeOK
<1>4. MatsTypeOK'
  BY <1>1, <1>2, CountBound DEF IInv, TypeOK, MatsTypeOK
<1> QED BY <1>1, <1>2, <1>3, <1>4 DEF IInv, TypeOK

(* The thread's way to a frame: after a careful Play it never crashes. *)
LEMMA ReadStep ==
  ASSUME IInv, CheckExit \/ ReadFrame \/ Decode
  PROVE  IInv'
<1> USE DEF CheckExit, ReadFrame, Decode, At, Goto, End, Crash, ffmpeg, caller
<1>1. Counted' /\ MatsTypeOK'
  BY MatsUntouched
<1>2. FfmpegTypeOK' /\ ThreadsTypeOK'
  BY DEF IInv, TypeOK, FfmpegTypeOK, ThreadsTypeOK
<1>3. FrameOK' /\ LateOK'
  BY DEF IInv, FrameOK, LateOK, mats
<1>4. OpenOK'
  BY DEF IInv, OpenOK
<1>5. CarefulIsSafe'
  BY DEF IInv, CarefulIsSafe, OpenOK
<1> QED BY <1>1, <1>2, <1>3, <1>4, <1>5 DEF IInv, TypeOK

(* The new image: made, exchanged for the old one and filled. *)
LEMMA FrameStep ==
  ASSUME IInv, Create \/ Release \/ Assign \/ Paint \/ Show
  PROVE  IInv'
<1> USE DEF Create, Release, Assign, Paint, Show, At, Goto, Crash, ffmpeg, caller, Fresh
<1>1. refs' \in [Buffers -> Int] /\ Counted'
  <2> USE DEF IInv, TypeOK, MatsTypeOK, mats
  <2>1. refs' \in [Buffers -> Int]
    BY DEF Released
  <2>2. ASSUME NEW b \in Buffers
        PROVE  refs'[b] = Count(b)'
    <3> USE DEF Counted, Count, OfImage, OfCaller, OfFrame
    <3>1. CASE Create
      BY <3>1, NullAssumption DEF FrameOK
    <3>2. CASE Release
      BY <3>2, NullAssumption DEF Released
    <3>3. CASE Assign
      BY <3>3, NullAssumption DEF FrameOK
    <3>4. CASE Paint \/ Show
      BY <3>4
    <3> QED BY <3>1, <3>2, <3>3, <3>4
  <2> QED BY <2>1, <2>2 DEF Counted
<1>2. FrameOK'
  <2>1. CASE Create
    <3>1. PICK b \in Buffers : refs[b] = 0 /\ fresh' = b
      BY <2>1
    <3>2. b # image
      BY <2>1, <3>1 DEF IInv, Counted, Count, OfImage, OfCaller, OfFrame
    <3> QED BY <2>1, <3>1, <3>2, NullAssumption DEF IInv, FrameOK
  <2>2. CASE Release \/ Assign \/ Paint \/ Show
    BY <2>2 DEF IInv, FrameOK, mats
  <2> QED BY <2>1, <2>2
<1>3. LateOK' /\ CarefulIsSafe' /\ OpenOK'
  BY DEF IInv, LateOK, CarefulIsSafe, OpenOK
<1>4. FfmpegTypeOK' /\ ThreadsTypeOK'
  BY DEF IInv, TypeOK, FfmpegTypeOK, ThreadsTypeOK
<1>5. MatsTypeOK'
  <2>1. {image', fresh', held'} \subseteq Buffers \cup {Null} /\ whole' \subseteq Buffers
    BY DEF IInv, TypeOK, MatsTypeOK, FrameOK, mats
  <2> QED BY <1>1, <1>2, <2>1, CountBound DEF MatsTypeOK
<1> QED BY <1>1, <1>2, <1>3, <1>4, <1>5 DEF IInv, TypeOK

(* Every step keeps the inductive invariant. *)
LEMMA NextOK == IInv /\ [Next]_vars => IInv'
<1> SUFFICES ASSUME IInv, [Next]_vars PROVE IInv'
  OBVIOUS
<1>1. CASE Caller
  BY <1>1, OpenStep, PlayStep, CloseStep, DestroyStep, PictureStep DEF Caller
<1>2. CASE Player
  BY <1>2, ReadStep, FrameStep DEF Player
<1>3. CASE UNCHANGED vars
  BY <1>3
  DEF vars, ffmpeg, player, mats, caller, IInv, TypeOK, FfmpegTypeOK, ThreadsTypeOK,
      MatsTypeOK, Counted, Count, OfImage, OfCaller, OfFrame, FrameOK, OpenOK,
      LateOK, CarefulIsSafe
<1> QED BY <1>1, <1>2, <1>3 DEF Next

(* The inductive invariant of the player and its caller. *)
THEOREM InvariantHolds == Spec => []IInv
  BY InitOK, NextOK, PTL DEF Spec

(* TypeOK: every variable has its type; no buffer has ever more than two    *)
(* references or fewer than none.                                          *)
THEOREM TypeCorrect == Spec => []TypeOK
<1>1. IInv => TypeOK
  BY DEF IInv
<1> QED BY <1>1, InvariantHolds, PTL

(* HeldAlive: once GetImage has returned, its picture outlives the frames   *)
(* that replace it, Close and the player itself.                           *)
THEOREM PictureStaysAlive == Spec => []HeldAlive
<1>1. IInv => HeldAlive
  BY DEF IInv, HeldAlive, TypeOK, MatsTypeOK, Counted, Count, OfImage, OfCaller, OfFrame
<1> QED BY <1>1, InvariantHolds, PTL

(* CarefulIsSafe: the program that plays once, and only after Open has      *)
(* returned true, is ended by no step of Play, nor by one of its thread but *)
(* the conversion of a frame without a scaler.                             *)
THEOREM CarefulCallerSafe == Spec => []CarefulIsSafe
<1>1. IInv => CarefulIsSafe
  BY DEF IInv
<1> QED BY <1>1, InvariantHolds, PTL

(* FreedUnused: the destructor frees the context and the decoder only when  *)
(* the play thread is gone.                                                *)
THEOREM FreedStaysUnused == Spec => []FreedUnused
<1>1. IInv => FreedUnused
  BY DEF IInv, OpenOK, FreedUnused
<1> QED BY <1>1, InvariantHolds, PTL

(* AtMostOneMore: after Close one frame at most is shown, whatever is       *)
(* played, closed and played again.                                        *)
THEOREM OneMoreFrame == Spec => []AtMostOneMore
<1>1. IInv => AtMostOneMore
  BY DEF IInv, LateOK, AtMostOneMore, TypeOK, ThreadsTypeOK
<1> QED BY <1>1, InvariantHolds, PTL
=============================================================================
