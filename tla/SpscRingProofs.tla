--------------------------- MODULE SpscRingProofs ---------------------------
(***************************************************************************)
(* Proofs about SpscRing, for every capacity and every number of pushes:   *)
(* the two threads never share a slot, and the ring implements LogQueue.   *)
(***************************************************************************)
EXTENDS SpscRing, SequenceTheorems, TLAPS

(* Arithmetic of the slots.                                                *)

\* Division with remainder.
LEMMA DivMod ==
  ASSUME NEW C \in Nat \ {0}, NEW n \in Nat
  PROVE  n \div C \in Int /\ n % C \in 0 .. (C - 1) /\ n = C * (n \div C) + (n % C)
  BY Z3

\* No positive multiple of C lies below C.
LEMMA Multiples ==
  ASSUME NEW C \in Nat \ {0}, NEW k \in Int
  PROVE  C * k \in Int /\ (C * k <= 0 \/ C * k >= C)
  BY Z3

\* Two counter values that are less than one round apart use different slots.
LEMMA SlotsDiffer ==
  ASSUME NEW m \in Nat, NEW n \in Nat, m < n, n < m + Capacity
  PROVE  Slot(m) # Slot(n)
<1> SUFFICES ASSUME m % Capacity = n % Capacity PROVE FALSE
  BY DEF Slot
<1> DEFINE p == m \div Capacity
           q == n \div Capacity
<1>1. /\ p \in Int /\ m = Capacity * p + (m % Capacity) /\ m % Capacity \in Int
      /\ q \in Int /\ n = Capacity * q + (n % Capacity) /\ n % Capacity \in Int
      /\ Capacity \in Nat \ {0}
  BY RingAssumption, DivMod
<1> HIDE DEF p, q
<1>2. Capacity * q - Capacity * p = Capacity * (q - p)
  BY <1>1
<1>3. Capacity * (q - p) <= 0 \/ Capacity * (q - p) >= Capacity
  BY <1>1, Multiples
<1>4. Capacity * p \in Int /\ Capacity * q \in Int /\ Capacity * (q - p) \in Int
  BY <1>1
<1> QED
  BY <1>1, <1>2, <1>3, <1>4

\* Every counter value has a slot of the buffer.
LEMMA SlotType ==
  ASSUME NEW n \in Nat
  PROVE  Slot(n) \in Slots
  BY RingAssumption, DivMod DEF Slot, Slots

-----------------------------------------------------------------------------
(* The inductive invariant.                                                *)

\* The empty ring satisfies the invariant.
LEMMA InitIInv == Init => IInv
  BY RingAssumption DEF Init, IInv, TypeOK, ProducerOK, ConsumerOK, Counters, Whole,
         Slots, Halves, Values

\* Every step keeps the types.
LEMMA TypeStep ==
  ASSUME TypeOK, Counters, [Next]_vars
  PROVE  TypeOK'
<1> USE RingAssumption DEF TypeOK, ProducerOK, ConsumerOK, Counters, Values, Halves, Items,
        Torn, producerVars, consumerVars
<1>1. Slot(head) \in Slots /\ Slot(tail) \in Slots
  BY SlotType
<1>2. CASE PushBegin
  BY <1>2 DEF PushBegin
<1>3. CASE PushFirst
  BY <1>1, <1>3 DEF PushFirst
<1>4. CASE PushSecond
  BY <1>1, <1>4 DEF PushSecond
<1>5. CASE PushStore
  BY <1>5 DEF PushStore
<1>6. CASE PopBegin
  BY <1>6 DEF PopBegin
<1>7. CASE PopFirst
  BY <1>1, <1>7 DEF PopFirst
<1>8. CASE PopSecond
  BY <1>1, <1>8 DEF PopSecond
<1>9. CASE PopStore
  BY <1>9 DEF PopStore
<1>10. CASE UNCHANGED vars
  BY <1>10 DEF vars
<1> QED
  BY <1>2, <1>3, <1>4, <1>5, <1>6, <1>7, <1>8, <1>9, <1>10 DEF Next, Push, Pop

\* Every step keeps the counters within one round of each other: push tests for room
\* and only pop makes room, pop tests for an item and only push adds one.
LEMMA CountersStep ==
  ASSUME TypeOK, Counters, [Next]_vars
  PROVE  Counters'
<1> USE RingAssumption DEF TypeOK, ProducerOK, ConsumerOK, Counters, Values, Items,
        producerVars, consumerVars
<1>1. CASE PushBegin
  BY <1>1 DEF PushBegin
<1>2. CASE PushFirst \/ PushSecond \/ PushStore
  BY <1>2 DEF PushFirst, PushSecond, PushStore
<1>3. CASE PopBegin
  BY <1>3 DEF PopBegin
<1>4. CASE PopFirst \/ PopSecond \/ PopStore
  BY <1>4 DEF PopFirst, PopSecond, PopStore
<1>5. CASE UNCHANGED vars
  BY <1>5 DEF vars
<1> QED
  BY <1>1, <1>2, <1>3, <1>4, <1>5 DEF Next, Push, Pop

\* A copy into the slot at head leaves every slot between the counters alone.
LEMMA CopyIn ==
  ASSUME TypeOK, Counters, ppc # "idle", NEW n \in tail .. (head - 1)
  PROVE  Slot(n) # Slot(head) /\ Slot(n) \in Slots /\ n \in Nat
<1>1. n \in Nat /\ n < head /\ head < n + Capacity /\ head \in Nat
  BY RingAssumption DEF TypeOK, ProducerOK, ConsumerOK, Counters
<1> QED
  BY <1>1, SlotsDiffer, SlotType

\* Every step keeps the items between the counters whole.
LEMMA WholeStep ==
  ASSUME TypeOK, Counters, Whole, [Next]_vars
  PROVE  Whole'
<1> USE DEF TypeOK, ProducerOK, ConsumerOK, Whole, producerVars, consumerVars
<1>1. /\ Slot(head) \in Slots /\ Slot(tail) \in Slots
      /\ ppc # "idle" => \A n \in tail .. (head - 1) : Slot(n) # Slot(head)
      /\ cpc # "idle" => tail \in tail .. (head - 1)
  BY SlotType, CopyIn DEF Counters
<1>2. CASE PushBegin
  BY <1>1, <1>2 DEF PushBegin
<1>3. CASE PushFirst
  <2>1. \A s \in Slots : s # Slot(head) => buffer'[s] = buffer[s]
    BY <1>3 DEF PushFirst
  <2>2. buffer'[Slot(head)].a = item
    BY <1>1, <1>3 DEF PushFirst, Halves
  <2>3. \A n \in tail .. (head - 1) : Slot(n) \in Slots
    BY <1>3, CopyIn DEF PushFirst
  <2> QED
    BY <1>1, <1>3, <2>1, <2>2, <2>3 DEF PushFirst
<1>4. CASE PushSecond
  <2>1. \A s \in Slots : s # Slot(head) => buffer'[s] = buffer[s]
    BY <1>4 DEF PushSecond
  <2>2. buffer'[Slot(head)].a = item /\ buffer'[Slot(head)].b = item
    BY <1>1, <1>4 DEF PushSecond, Halves
  <2>3. \A n \in tail .. (head - 1) : Slot(n) \in Slots
    BY <1>4, CopyIn DEF PushSecond
  <2> QED
    BY <1>1, <1>4, <2>1, <2>2, <2>3 DEF PushSecond
<1>5. CASE PushStore
  <2>1. \A n \in tail' .. (head' - 1) : n = head \/ n \in tail .. (head - 1)
    BY <1>5 DEF PushStore
  <2> QED
    BY <1>1, <1>5, <2>1 DEF PushStore
<1>6. CASE PopBegin
  BY <1>6 DEF PopBegin
<1>7. CASE PopFirst
  BY <1>7 DEF PopFirst, Halves
<1>8. CASE PopSecond
  BY <1>8 DEF PopSecond, Halves
<1>9. CASE PopStore
  <2>1. \A n \in tail' .. (head' - 1) : n \in tail .. (head - 1)
    BY <1>9 DEF PopStore
  <2> QED
    BY <1>9, <2>1 DEF PopStore
<1>10. CASE UNCHANGED vars
  BY <1>10 DEF vars
<1> QED
  BY <1>2, <1>3, <1>4, <1>5, <1>6, <1>7, <1>8, <1>9, <1>10 DEF Next, Push, Pop

\* Every behaviour keeps the inductive invariant.
LEMMA SpecIInv == Spec => []IInv
<1>1. IInv /\ [Next]_vars => IInv'
  BY TypeStep, CountersStep, WholeStep DEF IInv
<1> QED
  BY InitIInv, <1>1, PTL DEF Spec

\* For every capacity and number of pushes, every variable of the ring keeps its type.
THEOREM RingTyped == Spec => []TypeOK
<1>1. IInv => TypeOK
  BY DEF IInv
<1> QED
  BY SpecIInv, <1>1, PTL

\* For every capacity and number of pushes, push and pop never have the same slot of
\* buffer_ in hand.
THEOREM RingSlotsApart == Spec => []SlotsApart
<1>1. IInv => SlotsApart
  <2> SUFFICES ASSUME IInv, ppc # "idle", cpc # "idle"
               PROVE  Slot(head) # Slot(tail)
    BY DEF SlotsApart
  <2>1. tail \in tail .. (head - 1)
    BY DEF IInv, TypeOK, ProducerOK, ConsumerOK, Counters
  <2> QED
    BY <2>1, CopyIn DEF IInv
<1> QED
  BY SpecIInv, <1>1, PTL

-----------------------------------------------------------------------------
(* The refinement.                                                         *)

\* The content of the ring has the length the counters say.
LEMMA ContentLength ==
  ASSUME IInv
  PROVE  /\ Content \in Seq(Values)
         /\ Len(Content) = head - tail /\ head - tail \in 0 .. Capacity
         /\ \A i \in 1 .. (head - tail) : Content[i] = buffer[Slot(tail + (i - 1))].a
<1>1. head - tail \in 0 .. Capacity /\ head - tail \in Nat /\ tail \in Nat
  BY RingAssumption DEF IInv, TypeOK, ProducerOK, ConsumerOK, Counters
<1>2. \A i \in 1 .. (head - tail) : buffer[Slot(tail + (i - 1))].a \in Values
  <2> SUFFICES ASSUME NEW i \in 1 .. (head - tail)
               PROVE  buffer[Slot(tail + (i - 1))].a \in Values
    OBVIOUS
  <2>1. Slot(tail + (i - 1)) \in Slots
    BY <1>1, SlotType
  <2> QED
    BY <2>1 DEF IInv, TypeOK, Halves
<1> QED
  BY <1>1, <1>2 DEF Content

\* The same after a step.
LEMMA ContentLengthNext ==
  ASSUME IInv'
  PROVE  /\ Content' \in Seq(Values)
         /\ Len(Content') = head' - tail'
         /\ \A i \in 1 .. (head' - tail') :
               Content'[i] = buffer'[Slot(tail' + (i - 1))].a
<1>1. head' - tail' \in Nat /\ tail' \in Nat
  <2>1. head' \in Nat /\ tail' \in Nat /\ tail' <= head'
    BY DEF IInv, TypeOK, ProducerOK, ConsumerOK, Counters
  <2>2. \A m, n \in Nat : m <= n => n - m \in Nat
    OBVIOUS
  <2> QED
    BY <2>1, <2>2
<1>2. \A i \in 1 .. (head' - tail') : buffer'[Slot(tail' + (i - 1))].a \in Values
  <2> SUFFICES ASSUME NEW i \in 1 .. (head' - tail')
               PROVE  buffer'[Slot(tail' + (i - 1))].a \in Values
    OBVIOUS
  <2>1. Slot(tail' + (i - 1)) \in Slots
    BY <1>1, SlotType
  <2> QED
    BY <2>1 DEF IInv, TypeOK, Halves
<1> QED
  BY <1>1, <1>2 DEF Content, Slot

\* A step that moves neither counter and writes at most the slot at head leaves the
\* content as it was.
LEMMA ContentKept ==
  ASSUME IInv, head' = head, tail' = tail,
         \A n \in tail .. (head - 1) : buffer'[Slot(n)] = buffer[Slot(n)]
  PROVE  Content' = Content
<1>1. \A i \in 1 .. (head - tail) : tail + (i - 1) \in tail .. (head - 1)
  BY DEF IInv, TypeOK, ProducerOK, ConsumerOK
<1> QED
  BY <1>1 DEF Content, Slot

\* Publishing head + 1 appends the item that was copied in.
LEMMA ContentAppended ==
  ASSUME IInv, IInv', PushStore
  PROVE  Content' = Append(Content, item) /\ Len(Content) < Capacity /\ item \in Items
<1>1. /\ head \in Nat /\ tail \in Nat /\ tail <= head /\ head < tail + Capacity
      /\ buffer[Slot(head)].a = item /\ item \in Items /\ item \in Values
      /\ head' = head + 1 /\ tail' = tail /\ buffer' = buffer
  BY DEF PushStore, IInv, TypeOK, ProducerOK, ConsumerOK, Counters, Whole, consumerVars,
         Items, Values
<1>2. /\ Len(Content) = head - tail /\ Content \in Seq(Values)
      /\ \A i \in 1 .. (head - tail) : Content[i] = buffer[Slot(tail + (i - 1))].a
  BY ContentLength
<1>3. /\ Len(Content') = head - tail + 1 /\ Content' \in Seq(Values)
      /\ \A i \in 1 .. (head - tail + 1) : Content'[i] = buffer[Slot(tail + (i - 1))].a
  BY <1>1, ContentLengthNext DEF Slot
<1> DEFINE longer == Append(Content, item)
<1>4. /\ longer \in Seq(Values) /\ Len(longer) = head - tail + 1
      /\ \A i \in 1 .. (head - tail) : longer[i] = Content[i]
      /\ longer[head - tail + 1] = item
  BY <1>1, <1>2, AppendProperties
<1> HIDE DEF longer
<1>5. \A i \in 1 .. (head - tail + 1) : Content'[i] = longer[i]
  <2> SUFFICES ASSUME NEW i \in 1 .. (head - tail + 1)
               PROVE  Content'[i] = longer[i]
    OBVIOUS
  <2>1. CASE i \in 1 .. (head - tail)
    BY <1>2, <1>3, <1>4, <2>1
  <2>2. CASE i = head - tail + 1
    <3>1. tail + (i - 1) = head
      BY <1>1, <2>2
    <3> QED
      BY <1>1, <1>3, <1>4, <2>2, <3>1
  <2> QED
    BY <1>1, <2>1, <2>2
<1>6. Content' = longer
  BY <1>3, <1>4, <1>5, SeqEqual
<1>7. Len(Content) < Capacity
  BY <1>1, <1>2, RingAssumption
<1> QED
  BY <1>1, <1>6, <1>7 DEF longer

\* Publishing tail + 1 removes the item that was copied out, and pop returns it whole.
LEMMA ContentRemoved ==
  ASSUME IInv, IInv', PopStore
  PROVE  Content # <<>> /\ Content' = Tail(Content) /\ out' = Head(Content)
<1>1. /\ head \in Nat /\ tail \in Nat /\ tail < head
      /\ head' = head /\ tail' = tail + 1 /\ buffer' = buffer
  BY DEF PopStore, IInv, TypeOK, ProducerOK, ConsumerOK, Counters, producerVars
<1>2. /\ Len(Content) = head - tail /\ Content \in Seq(Values)
      /\ \A i \in 1 .. (head - tail) : Content[i] = buffer[Slot(tail + (i - 1))].a
  BY ContentLength
<1>3. /\ Len(Content') = head - tail - 1 /\ Content' \in Seq(Values)
      /\ \A i \in 1 .. (head - tail - 1) : Content'[i] = buffer[Slot(tail + i)].a
  <2>1. head' - tail' = head - tail - 1
    BY <1>1
  <2>2. \A i \in 1 .. (head - tail - 1) : tail' + (i - 1) = tail + i
    BY <1>1
  <2> QED
    BY <1>1, <2>1, <2>2, ContentLengthNext DEF Slot
<1>4. out' = buffer[Slot(tail)].a
  <2>1. buffer[Slot(tail)].a = buffer[Slot(tail)].b
    BY <1>1 DEF IInv, Whole
  <2> QED
    BY <2>1 DEF PopStore, IInv, Whole
<1>5. Content[1] = buffer[Slot(tail)].a
  <2>1. 1 \in 1 .. (head - tail) /\ tail + (1 - 1) = tail
    BY <1>1
  <2> QED
    BY <1>2, <2>1
<1>6. Content # <<>>
  BY <1>1, <1>2
<1> DEFINE rest == Tail(Content)
<1>7. /\ rest \in Seq(Values) /\ Len(rest) = head - tail - 1
      /\ \A i \in 1 .. (head - tail - 1) : rest[i] = Content[i + 1]
  BY <1>2, <1>6, HeadTailProperties
<1> HIDE DEF rest
<1>8. \A i \in 1 .. (head - tail - 1) : Content'[i] = rest[i]
  <2> SUFFICES ASSUME NEW i \in 1 .. (head - tail - 1)
               PROVE  Content'[i] = rest[i]
    OBVIOUS
  <2>1. i + 1 \in 1 .. (head - tail) /\ tail + ((i + 1) - 1) = tail + i
    BY <1>1
  <2> QED
    BY <1>2, <1>3, <1>7, <2>1
<1>9. Content' = rest
  BY <1>3, <1>7, <1>8, SeqEqual
<1> QED
  BY <1>2, <1>4, <1>5, <1>6, <1>9 DEF rest

\* For every capacity and number of pushes, SPSCRingBuffer implements the bounded queue
\* LogQueue: push and pop take effect at the store of head_ and of tail_.
THEOREM RingImplementsQueue == Spec => ImplementsQueue
<1>1. Init => Queue!Init
  BY DEF Init, Queue!Init, Content
<1>2. IInv /\ IInv' /\ [Next]_vars => [Queue!Next]_Queue!vars
  <2> SUFFICES ASSUME IInv, IInv', [Next]_vars
               PROVE  [Queue!Next]_Queue!vars
    OBVIOUS
  <2> USE DEF Queue!Next, Queue!vars, producerVars, consumerVars
  <2>1. CASE PushBegin
    <3>1. Content' = Content
      BY <2>1, ContentKept DEF PushBegin
    <3>2. CASE head - tail >= Capacity
      <4>1. Len(Content) = Capacity
        BY <3>2, ContentLength, RingAssumption
      <4> QED
        BY <2>1, <3>1, <3>2, <4>1 DEF PushBegin, Queue!Refuse
    <3>3. CASE ~(head - tail >= Capacity)
      BY <2>1, <3>1, <3>3 DEF PushBegin
    <3> QED
      BY <3>2, <3>3
  <2>2. CASE PushFirst
    <3>1. \A n \in tail .. (head - 1) : Slot(n) # Slot(head) /\ Slot(n) \in Slots
      BY <2>2, CopyIn DEF PushFirst, IInv
    <3>2. \A n \in tail .. (head - 1) : buffer'[Slot(n)] = buffer[Slot(n)]
      BY <2>2, <3>1 DEF PushFirst, IInv, TypeOK
    <3> QED
      BY <2>2, <3>2, ContentKept DEF PushFirst
  <2>3. CASE PushSecond
    <3>1. \A n \in tail .. (head - 1) : Slot(n) # Slot(head) /\ Slot(n) \in Slots
      BY <2>3, CopyIn DEF PushSecond, IInv
    <3>2. \A n \in tail .. (head - 1) : buffer'[Slot(n)] = buffer[Slot(n)]
      BY <2>3, <3>1 DEF PushSecond, IInv, TypeOK
    <3> QED
      BY <2>3, <3>2, ContentKept DEF PushSecond
  <2>4. CASE PushStore
    BY <2>4, ContentAppended DEF PushStore, Queue!Accept
  <2>5. CASE PopBegin \/ PopFirst \/ PopSecond
    BY <2>5, ContentKept DEF PopBegin, PopFirst, PopSecond
  <2>6. CASE PopStore
    BY <2>6, ContentRemoved DEF PopStore, Queue!Deliver
  <2>7. CASE UNCHANGED vars
    BY <2>7, ContentKept DEF vars
  <2> QED
    BY <2>1, <2>2, <2>3, <2>4, <2>5, <2>6, <2>7 DEF Next, Push, Pop
<1> QED
  BY SpecIInv, <1>1, <1>2, PTL DEF Spec, ImplementsQueue, Queue!Spec
=============================================================================
