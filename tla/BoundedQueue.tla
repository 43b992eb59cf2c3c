---------------------------- MODULE BoundedQueue ----------------------------
(***************************************************************************)
(* A bounded first-in first-out queue: what the threads of the server      *)
(* expect of a RingBufferSPSCLockFree. Each producer p pushes its messages *)
(* <<p, 1>>, <<p, 2>>, ... in this order; received is what tryPop returned *)
(* so far.                                                                 *)
(***************************************************************************)
EXTENDS Integers, Sequences

CONSTANTS Producers, Capacity, MaxMessages

VARIABLES queue, sent, received

Init ==
  /\ queue = <<>>
  /\ sent = [p \in Producers |-> 0]
  /\ received = <<>>

Push(p) ==
  /\ sent[p] < MaxMessages
  /\ Len(queue) < Capacity
  /\ queue' = Append(queue, <<p, sent[p] + 1>>)
  /\ sent' = [sent EXCEPT ![p] = @ + 1]
  /\ UNCHANGED received

Pop ==
  /\ queue # <<>>
  /\ received' = Append(received, Head(queue))
  /\ queue' = Tail(queue)
  /\ UNCHANGED sent

Next == Pop \/ \E p \in Producers : Push(p)

Spec == Init /\ [][Next]_<<queue, sent, received>>
=============================================================================
