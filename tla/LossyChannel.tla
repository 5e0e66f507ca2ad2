---------------------------- MODULE LossyChannel ----------------------------
(***************************************************************************)
(* What the telemetry pipeline promises of the batches it is offered: each *)
(* is delivered at most once and in the order of the numbers.  It may lose *)
(* any of them, and says nothing of when.                                  *)
(***************************************************************************)
EXTENDS Naturals

VARIABLES made,       \* how many batches were offered
          inTransit,  \* the batches accepted, neither delivered nor lost yet
          delivered   \* the batches delivered

vars == <<made, inTransit, delivered>>

Init == made = 0 /\ inTransit = {} /\ delivered = {}

\* The next batch is accepted, or refused.
Offer ==
  /\ made' = made + 1
  /\ inTransit' = inTransit \cup {made'} \/ UNCHANGED inTransit
  /\ UNCHANGED delivered

Lose(b) ==
  /\ inTransit' = inTransit \ {b}
  /\ UNCHANGED <<made, delivered>>

\* Only the oldest batch can be delivered.
Deliver(b) ==
  /\ \A c \in inTransit : b <= c
  /\ inTransit' = inTransit \ {b}
  /\ delivered' = delivered \cup {b}
  /\ UNCHANGED made

Next == Offer \/ \E b \in inTransit : Lose(b) \/ Deliver(b)

Spec == Init /\ [][Next]_vars
=============================================================================
