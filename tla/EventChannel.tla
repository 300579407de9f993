---------------------------- MODULE EventChannel ----------------------------
(***************************************************************************)
(* What read() of the misc driver promises, without locks, wait queue and  *)
(* handler: a channel that holds at most one pending event and hands it to *)
(* exactly one reader.  An event posted while one is pending merges with   *)
(* it.  Readers come one at a time; a reader may give up, but never turns  *)
(* away from an event that is already there.                               *)
(***************************************************************************)
CONSTANT Readers

VARIABLES
  pending, \* an event is there for the next reader
  waiting, \* readers that wait for one
  taken    \* readers that have taken one and are about to look at it

vars == <<pending, waiting, taken>>

Init == pending = FALSE /\ waiting = {} /\ taken = {}

Post == pending' = TRUE /\ UNCHANGED <<waiting, taken>>

Arrive(r) ==
  /\ waiting \cup taken = {}
  /\ waiting' = {r}
  /\ UNCHANGED <<pending, taken>>

GiveUp(r) ==
  /\ r \in waiting /\ ~pending
  /\ waiting' = waiting \ {r}
  /\ UNCHANGED <<pending, taken>>

Take(r) ==
  /\ r \in waiting /\ pending
  /\ pending' = FALSE
  /\ waiting' = waiting \ {r}
  /\ taken' = taken \cup {r}

Look(r) ==
  /\ r \in taken
  /\ taken' = taken \ {r}
  /\ UNCHANGED <<pending, waiting>>

Next == Post \/ \E r \in Readers : Arrive(r) \/ GiveUp(r) \/ Take(r) \/ Look(r)

Spec == Init /\ [][Next]_vars

(* The liveness the channel promises besides: a reader that waits while an *)
(* event is pending gets it.                                               *)
Served == \A r \in Readers : (pending /\ r \in waiting) ~> r \in taken
=============================================================================
