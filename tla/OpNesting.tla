----------------------------- MODULE OpNesting -----------------------------
(***************************************************************************)
(* What V8 asks of the code that drives it, whatever Fibers the operations *)
(* run on: the operations on one isolate unwind in the reverse of the      *)
(* order they started, and an isolate is destroyed only when none is left. *)
(* OpStack implements it.                                                  *)
(***************************************************************************)
EXTENDS Naturals, Sequences

CONSTANTS Isolates, Fibers

VARIABLES
  live,      \* the isolates that exist
  depth,     \* how many operations each of them is in
  inflight   \* inflight[i]: the Fiber of each operation on i, oldest first

Init ==
  /\ live = {}
  /\ depth = [i \in Isolates |-> 0]
  /\ inflight = [i \in Isolates |-> <<>>]

Create(i) ==
  /\ i \notin live
  /\ live' = live \cup {i}
  /\ UNCHANGED <<depth, inflight>>

Begin(i, f) ==
  /\ i \in live
  /\ depth' = [depth EXCEPT ![i] = @ + 1]
  /\ inflight' = [inflight EXCEPT ![i] = Append(@, f)]
  /\ UNCHANGED live

End(i) ==
  /\ depth[i] > 0
  /\ depth' = [depth EXCEPT ![i] = @ - 1]
  /\ inflight' = [inflight EXCEPT ![i] = SubSeq(@, 1, Len(@) - 1)]
  /\ UNCHANGED live

Destroy(i) ==
  /\ i \in live
  /\ depth[i] = 0
  /\ live' = live \ {i}
  /\ UNCHANGED <<depth, inflight>>

Next ==
  \E i \in Isolates :
     \/ Create(i) \/ End(i) \/ Destroy(i)
     \/ \E f \in Fibers : Begin(i, f)

Spec == Init /\ [][Next]_<<live, depth, inflight>>
=============================================================================
