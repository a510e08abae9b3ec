-------------------------- MODULE MCCommandDispatch --------------------------
(* Short lists, few images, three threads and targets, and rows of at most  *)
(* six plants.  A function that is not called begins in one way only.       *)
EXTENDS CommandDispatch, SequencesExt

MCRows == SeqOf(1..3, 6)
MCCapacities == 3..4

MCInit ==
  /\ command \in Functions \cup {Invalid}
  /\ command # "code_2105" => plants = <<>> /\ capacityA = 3 /\ capacityB = 3
  /\ command # "juansheng" => program = "class" /\ items = 0
  /\ command # "ffmpeg" => tool = "record" /\ left = 0
  /\ DispatchInit

MCSpec == MCInit /\ [][DispatchNext]_all /\ DispatchFairness
=============================================================================
