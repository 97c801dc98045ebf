---------------------------- MODULE PacketLedger ----------------------------
(***************************************************************************)
(* What a verdict loop owes the kernel.  A packet the kernel has handed    *)
(* over is pending until it is answered.  It is answered once, and a       *)
(* packet that was never handed over is never answered: no packet is lost, *)
(* and none is verdicted twice.                                            *)
(***************************************************************************)
EXTENDS Integers, Sequences, FiniteSets

VARIABLES pending,   \* ids handed over and not answered
          log        \* answers, in the order they were given: [id, verdict]

lvars == <<pending, log>>

LogIds(l) == {l[i].id : i \in 1..Len(l)}

Init == pending = {} /\ log = <<>>

Receive ==
  /\ \E id \in pending' : /\ id \notin pending \cup LogIds(log)
                         /\ pending' = pending \cup {id}
  /\ UNCHANGED log

\* A batch of pending packets is answered; no packet twice.
Answer ==
  /\ Len(log') > Len(log)
  /\ \A i \in 1..Len(log) : log'[i] = log[i]
  /\ \A i, j \in 1..Len(log') : i # j /\ j > Len(log) => log'[i].id # log'[j].id
  /\ \A i \in (Len(log) + 1)..Len(log') : log'[i].id \in pending
  /\ pending' = pending \ LogIds(log')

Next == Receive \/ Answer

Spec == Init /\ [][Next]_lvars
=============================================================================
