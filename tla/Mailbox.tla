------------------------------ MODULE Mailbox ------------------------------
(***************************************************************************)
(* What the driver station's exchange of three caches promises: a register *)
(* that holds the packet put last.  Putting and taking are atomic, the     *)
(* taker always gets the last packet put, whole, and what it got does not  *)
(* change until it takes again.                                            *)
(***************************************************************************)
EXTENDS Naturals

VARIABLES box,   \* the packet put last
          read   \* the packet taken last

vars == <<box, read>>

\* No packet yet.
Nothing == [num |-> 0, button |-> FALSE]

Init == box = Nothing /\ read = Nothing

\* The next packet, with the button pressed or not.
Put(button) ==
  /\ box' = [num |-> box.num + 1, button |-> button]
  /\ UNCHANGED read

Take ==
  /\ read' = box
  /\ UNCHANGED box

Next == (\E button \in BOOLEAN : Put(button)) \/ Take

Spec == Init /\ [][Next]_vars
=============================================================================
