---------------------------- MODULE WorkerThread ----------------------------
(***************************************************************************)
(* What the process relies on of one worker's thread (src/worker.hpp,      *)
(* start() and join()): it returns only after it was asked to stop or its  *)
(* queue failed, and then only with nothing left to answer.  Module Worker *)
(* is shown to keep this contract; the threads of module Lifecycle take    *)
(* its actions as they are.                                                *)
(***************************************************************************)
EXTENDS Integers

VARIABLES phase,   \* bound, running, leaving, exited
          owed,    \* packets taken from the kernel and not answered yet
          stop,    \* the stop fd has been written
          failed   \* the queue has given up

tvars == <<phase, owed, stop, failed>>

Init == phase \in {"bound", "running"} /\ owed = 0 /\ stop = FALSE /\ failed = FALSE

Start == phase = "bound" /\ phase' = "running" /\ UNCHANGED <<owed, stop, failed>>
Take == phase = "running" /\ owed' = owed + 1 /\ UNCHANGED <<phase, stop, failed>>
Answer == /\ phase \in {"running", "leaving"} /\ owed > 0
          /\ owed' = owed - 1
          /\ UNCHANGED <<phase, stop, failed>>
Fail == phase = "running" /\ phase' = "leaving" /\ failed' = TRUE /\ UNCHANGED <<owed, stop>>
Leave == phase = "running" /\ stop /\ phase' = "leaving" /\ UNCHANGED <<owed, stop, failed>>
Return == phase = "leaving" /\ owed = 0 /\ phase' = "exited" /\ UNCHANGED <<owed, stop, failed>>
RequestStop == ~stop /\ stop' = TRUE /\ UNCHANGED <<phase, owed, failed>>

Next == Start \/ Take \/ Answer \/ Fail \/ Leave \/ Return \/ RequestStop

Spec == Init /\ [][Next]_tvars
=============================================================================
