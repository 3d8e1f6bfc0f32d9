------------------------------ MODULE Ownership -----------------------------
(***************************************************************************)
(* What transferring an ArrayBuffer promises: its memory is one isolate's, *)
(* or in the post, or nobody's, and no two parties ever have it at once.   *)
(***************************************************************************)
CONSTANTS
  Isolates,  \* the isolates of the process
  Memories,  \* the memories a transfer may move
  Post,      \* has what was sent and not received
  Nobody     \* has what is not made yet, or is freed

VARIABLE owner

Init == owner = [m \in Memories |-> Nobody]

\* A fresh buffer.
Make(i, m) == owner[m] = Nobody /\ owner' = [owner EXCEPT ![m] = i]

\* The sender gives it up before anybody can receive it.
Send(i, m) == owner[m] = i /\ owner' = [owner EXCEPT ![m] = Post]

\* One isolate receives it.
Receive(i, m) == owner[m] = Post /\ owner' = [owner EXCEPT ![m] = i]

\* The message is discarded, or the owner has no use for it any more.
Free(m) == owner[m] # Nobody /\ owner' = [owner EXCEPT ![m] = Nobody]

Next == \E m \in Memories :
          Free(m) \/ \E i \in Isolates : Make(i, m) \/ Send(i, m) \/ Receive(i, m)

Spec == Init /\ [][Next]_owner
=============================================================================
