------------------------------ MODULE LogQueue ------------------------------
(***************************************************************************)
(* What the log ring promises: a bounded queue that loses an item only     *)
(* when it is full, and otherwise delivers every item once, whole and in   *)
(* order.                                                                  *)
(***************************************************************************)
EXTENDS Naturals, Sequences

CONSTANTS Capacity, Items

VARIABLES queue,  \* the items accepted and not delivered yet
          lost,   \* how many items were refused
          out     \* the item delivered last

vars == <<queue, lost, out>>

Init == queue = <<>> /\ lost = 0 /\ out = 0

Accept(x) ==
  /\ Len(queue) < Capacity
  /\ queue' = Append(queue, x)
  /\ UNCHANGED <<lost, out>>

Refuse ==
  /\ Len(queue) = Capacity
  /\ lost' = lost + 1
  /\ UNCHANGED <<queue, out>>

Deliver ==
  /\ queue # <<>>
  /\ out' = Head(queue)
  /\ queue' = Tail(queue)
  /\ UNCHANGED lost

Next == (\E x \in Items : Accept(x)) \/ Refuse \/ Deliver

Spec == Init /\ [][Next]_vars
=============================================================================
