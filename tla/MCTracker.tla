----------------------------- MODULE MCTracker -----------------------------
(* Three targets on three places: two places at the same distance, and one they can come back to. *)
EXTENDS Tracker
=============================================================================
