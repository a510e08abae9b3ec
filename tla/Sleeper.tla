------------------------------- MODULE Sleeper -------------------------------
(***************************************************************************)
(* InterruptibleSleeper, a mutex, a flag and a condition variable, and the  *)
(* program around it: threads that work and sleep in turn until the main    *)
(* thread interrupts them and joins them.  (test_interruptible_sleeper      *)
(* starts one.)  A wait may end because it was notified, because its time   *)
(* is up, or for no reason.                                                 *)
(***************************************************************************)
CONSTANTS
  Threads,
  Main      (* the main thread                                              *)

VARIABLES
  terminate,  (* the flag                                                   *)
  m,          (* who holds the mutex                                        *)
  at          (* where each thread is                                       *)

vars == <<terminate, m, at>>

Nobody == "nobody"

Constants == Main \notin Threads /\ Nobody \notin Threads \cup {Main}

Holding == {"checks", "blocks", "last", "sets", "notifies"}

Init ==
  /\ terminate = FALSE /\ m = Nobody
  /\ at = [t \in Threads \cup {Main} |-> IF t = Main THEN "sleeps" ELSE "works"]

Goto(t, where) == at' = [at EXCEPT ![t] = where]

Lock(t, from, where) ==
  /\ at[t] = from /\ m = Nobody
  /\ m' = t /\ Goto(t, where) /\ UNCHANGED terminate

(* m is released.                                                           *)
Leave(t, from, where) ==
  /\ at[t] = from
  /\ m' = Nobody /\ Goto(t, where) /\ UNCHANGED terminate

-----------------------------------------------------------------------------
(* wait_for.                                                                *)
Enter(t) == at[t] = "works" /\ Goto(t, "enters") /\ UNCHANGED <<terminate, m>>

LockToWait(t) == Lock(t, "enters", "checks") \/ Lock(t, "woken", "checks")

(* Its time is up: the flag no longer decides but on the result.            *)
LockToReturn(t) == Lock(t, "timed out", "last")

(* The predicate.                                                           *)
Check(t) ==
  /\ at[t] = "checks"
  /\ IF terminate THEN Leave(t, "checks", "works")
     ELSE Goto(t, "blocks") /\ UNCHANGED <<terminate, m>>

(* Releases the mutex and waits in one step.                                *)
Block(t) == Leave(t, "blocks", "waits")

WakeUp(t) == at[t] = "waits" /\ Goto(t, "woken") /\ UNCHANGED <<terminate, m>>
TimeOut(t) == at[t] = "waits" /\ Goto(t, "timed out") /\ UNCHANGED <<terminate, m>>
ReturnTimedOut(t) == Leave(t, "last", "works")

-----------------------------------------------------------------------------
(* interrupt, after ten seconds.                                            *)
LockToInterrupt == Lock(Main, "sleeps", "sets")

Set ==
  /\ at[Main] = "sets"
  /\ terminate' = TRUE /\ Goto(Main, "notifies") /\ UNCHANGED m

(* Mutant: one thread is notified.                                          *)
NotifyOne ==
  /\ at[Main] = "notifies"
  /\ \E t \in Threads :
       at' = [at EXCEPT ![Main] = "joins", ![t] = IF @ = "waits" THEN "woken" ELSE @]
  /\ m' = Nobody /\ UNCHANGED terminate

(* notify_all, and the mutex is released.  Nothing comes after join(), for  *)
(* no thread ever ends.                                                     *)
NotifyAll ==
  /\ at[Main] = "notifies"
  /\ at' = [t \in Threads \cup {Main} |->
              IF t = Main THEN "joins" ELSE IF at[t] = "waits" THEN "woken" ELSE at[t]]
  /\ m' = Nobody /\ UNCHANGED terminate

Steps(t) == Enter(t) \/ LockToWait(t) \/ LockToReturn(t) \/ Check(t) \/ Block(t) \/ ReturnTimedOut(t)
Interrupt == LockToInterrupt \/ Set \/ NotifyAll

Next ==
  \/ \E t \in Threads : Steps(t) \/ WakeUp(t) \/ TimeOut(t)
  \/ Interrupt

(* Every thread that can run does; nothing is said of who gets the mutex,   *)
(* and no wait has to time out.                                             *)
Spec ==
  /\ Init /\ [][Next]_vars
  /\ \A t \in Threads : WF_vars(Steps(t))
  /\ WF_vars(Interrupt)
-----------------------------------------------------------------------------
(* The mutex is held by the one thread that is where it is held.            *)
TypeOK ==
  /\ terminate \in BOOLEAN /\ m \in Threads \cup {Main, Nobody}
  /\ DOMAIN at = Threads \cup {Main} /\ at[Main] \in {"sleeps", "sets", "notifies", "joins"}
  /\ \A t \in Threads :
       at[t] \in {"works", "enters", "checks", "blocks", "waits", "woken", "timed out", "last"}
  /\ \A t \in DOMAIN at : at[t] \in Holding <=> m = t

(* Until it is interrupted a thread sleeps its whole time, whatever wakes   *)
(* it before.                                                               *)
SleepsLong ==
  [][\A t \in Threads : at[t] = "checks" /\ at'[t] = "works" => terminate]_vars

(* interrupt() reaches a thread wherever it is in wait_for, also between    *)
(* the predicate and the wait: once interrupted it never sleeps for good,   *)
(* though no wait times out.                                                *)
InterruptHeeded == \A t \in Threads : terminate ~> [](at[t] # "waits")

(* After interrupt() the threads stop working, come to clean up and can be  *)
(* joined. The code does not keep this: no thread looks at the result of    *)
(* its wait.                                                                *)
WorkEnds == \A t \in Threads : terminate ~> [](at[t] # "works")
=============================================================================
