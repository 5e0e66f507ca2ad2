------------------------------ MODULE SpscRing ------------------------------
(***************************************************************************)
(* SPSCRingBuffer, the ring between the composer thread (push) and the     *)
(* logger thread (pop).  Each thread owns one counter and only loads the   *)
(* other's; items are copied into and out of a slot without a lock.  A     *)
(* copy is not atomic, so an item has two halves that are copied in two    *)
(* steps.  The release store of a counter and the acquire load of it order *)
(* the copies before and after them, so the steps may be interleaved as    *)
(* if they were sequentially consistent.                                   *)
(***************************************************************************)
EXTENDS Integers, Sequences

CONSTANTS
  Capacity,   \* a power of 2: head & (Capacity - 1) is head % Capacity
  MaxPushes   \* bound: calls of push

ASSUME RingAssumption == Capacity \in Nat \ {0} /\ MaxPushes \in Nat

VARIABLES
  head, tail, dropped, buffer,  \* head_, tail_, dropped_, buffer_
  item, ppc,                    \* the item being pushed, the composer's place
  copy, cpc,                    \* the copy being popped, the logger's place
  out,                          \* the item pop() returned last
  pushes                        \* calls of push so far, for the bound

producerVars == <<head, dropped, item, ppc, pushes>>
consumerVars == <<tail, copy, cpc, out>>
vars == <<producerVars, consumerVars, buffer>>

Torn == -1   \* the halves of a popped item do not belong together
Items  == 1 .. MaxPushes
Values == 0 .. MaxPushes   \* 0 for what a slot holds before its first item
Halves == [a : Values, b : Values]
Slots  == 0 .. (Capacity - 1)
Slot(n) == n % Capacity

-----------------------------------------------------------------------------
\* Mutant of PushBegin: the test for a full ring is off by one.
PushBeginOffByOne ==
  /\ ppc = "idle" /\ pushes < MaxPushes
  /\ pushes' = pushes + 1
  /\ item' = pushes + 1
  /\ IF head - tail > Capacity
     THEN dropped' = dropped + 1 /\ UNCHANGED ppc
     ELSE ppc' = "first" /\ UNCHANGED dropped
  /\ UNCHANGED <<head, buffer, consumerVars>>

\* push: the counters are loaded; a full ring refuses the item.
PushBegin ==
  /\ ppc = "idle" /\ pushes < MaxPushes
  /\ pushes' = pushes + 1
  /\ item' = pushes + 1
  /\ IF head - tail >= Capacity
     THEN dropped' = dropped + 1 /\ UNCHANGED ppc
     ELSE ppc' = "first" /\ UNCHANGED dropped
  /\ UNCHANGED <<head, buffer, consumerVars>>

\* buffer_[head & (Capacity - 1)] = item, the first half ...
PushFirst ==
  /\ ppc = "first"
  /\ buffer' = [buffer EXCEPT ![Slot(head)] = [@ EXCEPT !.a = item]]
  /\ ppc' = "second"
  /\ UNCHANGED <<head, dropped, item, pushes, consumerVars>>

\* ... and the second.
PushSecond ==
  /\ ppc = "second"
  /\ buffer' = [buffer EXCEPT ![Slot(head)] = [@ EXCEPT !.b = item]]
  /\ ppc' = "store"
  /\ UNCHANGED <<head, dropped, item, pushes, consumerVars>>

\* head_.store(head + 1): the item becomes visible.
PushStore ==
  /\ ppc = "store"
  /\ head' = head + 1
  /\ ppc' = "idle"
  /\ UNCHANGED <<dropped, item, pushes, buffer, consumerVars>>

-----------------------------------------------------------------------------
\* Mutant of PopBegin: the test for an empty ring is off by one.
PopBeginOffByOne ==
  /\ cpc = "idle" /\ tail <= head
  /\ cpc' = "first"
  /\ UNCHANGED <<tail, copy, out, buffer, producerVars>>

\* pop: the counters are loaded; an empty ring has nothing to return.
PopBegin ==
  /\ cpc = "idle" /\ tail < head
  /\ cpc' = "first"
  /\ UNCHANGED <<tail, copy, out, buffer, producerVars>>

\* item = buffer_[tail & (Capacity - 1)], the first half ...
PopFirst ==
  /\ cpc = "first"
  /\ copy' = [copy EXCEPT !.a = buffer[Slot(tail)].a]
  /\ cpc' = "second"
  /\ UNCHANGED <<tail, out, buffer, producerVars>>

\* ... and the second.
PopSecond ==
  /\ cpc = "second"
  /\ copy' = [copy EXCEPT !.b = buffer[Slot(tail)].b]
  /\ cpc' = "store"
  /\ UNCHANGED <<tail, out, buffer, producerVars>>

\* tail_.store(tail + 1): the slot is free again and pop returns the item.
PopStore ==
  /\ cpc = "store"
  /\ tail' = tail + 1
  /\ out' = IF copy.a = copy.b THEN copy.a ELSE Torn
  /\ cpc' = "idle"
  /\ UNCHANGED <<copy, buffer, producerVars>>

-----------------------------------------------------------------------------
Init ==
  /\ head = 0 /\ tail = 0 /\ dropped = 0
  /\ buffer = [s \in Slots |-> [a |-> 0, b |-> 0]]
  /\ item = 0 /\ ppc = "idle"
  /\ copy = [a |-> 0, b |-> 0] /\ cpc = "idle"
  /\ out = 0 /\ pushes = 0

Push == PushBegin \/ PushFirst \/ PushSecond \/ PushStore
Pop  == PopBegin \/ PopFirst \/ PopSecond \/ PopStore
Next == Push \/ Pop

Spec == Init /\ [][Next]_vars

-----------------------------------------------------------------------------
ProducerOK ==
  /\ head \in Nat /\ dropped \in Nat
  /\ pushes \in Values /\ item \in Values
  /\ ppc \in {"idle", "first", "second", "store"}

ConsumerOK ==
  /\ tail \in Nat /\ copy \in Halves /\ out \in Values \cup {Torn}
  /\ cpc \in {"idle", "first", "second", "store"}

\* Every variable stays in its type, and the slot indices stay in the buffer.
TypeOK == ProducerOK /\ ConsumerOK /\ buffer \in [Slots -> Halves]

(* The inductive invariant.                                                *)

\* The counters bound the items in the ring, also for the item being copied.
Counters ==
  /\ tail <= head /\ head <= tail + Capacity
  /\ ppc # "idle" => head < tail + Capacity /\ item \in Items
  /\ cpc # "idle" => tail < head

\* The slots between the counters hold whole items; the copies under way agree
\* with the slots they are made from or to.
Whole ==
  /\ \A n \in tail .. (head - 1) : buffer[Slot(n)].a = buffer[Slot(n)].b
  /\ ppc \in {"second", "store"} => buffer[Slot(head)].a = item
  /\ ppc = "store" => buffer[Slot(head)].b = item
  /\ cpc \in {"second", "store"} => copy.a = buffer[Slot(tail)].a
  /\ cpc = "store" => copy.b = buffer[Slot(tail)].b

IInv == TypeOK /\ Counters /\ Whole

\* The two threads never have the same slot in hand: no copy into a slot overlaps a
\* copy out of it, although neither thread ever waits for the other.
SlotsApart == ppc # "idle" /\ cpc # "idle" => Slot(head) # Slot(tail)

\* The items in the ring, oldest first.
Content == [i \in 1 .. (head - tail) |-> buffer[Slot(tail + (i - 1))].a]

Queue == INSTANCE LogQueue WITH queue <- Content, lost <- dropped

\* SPSCRingBuffer implements the bounded queue: every item that push accepts is
\* popped once, in order and untorn, and only a full ring refuses an item.
ImplementsQueue == Queue!Spec
=============================================================================
