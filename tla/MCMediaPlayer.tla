--------------------------- MODULE MCMediaPlayer ---------------------------
(* The player with a few buffers for its images. *)
EXTENDS MediaPlayer
=============================================================================
