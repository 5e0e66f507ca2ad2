------------------------- MODULE DoubleBufferProofs -------------------------
(***************************************************************************)
(* A double buffer hands over whole and newest items, to any set of        *)
(* readers.                                                                *)
(***************************************************************************)
EXTENDS DoubleBuffer, TLAPS

DBType ==
  /\ buf \in [{0, 1} -> Item] /\ idx \in {0, 1} /\ load \in Nat /\ done \in Nat
  /\ at \in {"idle", "first", "second", "flip"}
  /\ rd \in [Readers -> Read]

\* The buffer write_idx names is the newest item and whole; the other one is the item
\* being written, as far as the writer has come.
Whole ==
  /\ buf[idx].a = done /\ buf[idx].b = done
  /\ at \in {"second", "flip"} => buf[1 - idx].a = done + 1
  /\ at = "flip" => buf[1 - idx].b = done + 1

\* A copy that has not been lapped reads a whole item: either the newest one, or the
\* one before, and then no publish is under way.
Reading(r) ==
  rd[r].on /\ ~rd[r].lapped =>
    /\ buf[rd[r].slot].a = rd[r].want /\ buf[rd[r].slot].b = rd[r].want
    /\ \/ rd[r].slot = idx /\ rd[r].want = done
       \/ rd[r].slot = 1 - idx /\ rd[r].want < done /\ at = "idle"

DBInv == DBType /\ Whole /\ (\A r \in Readers : Reading(r)) /\ ReadsNewest

\* A step of the double buffer preserves its invariant.
LEMMA DBStep == DBInv /\ [DBNext]_dbVars => DBInv'
<1> USE DEF DBType, Item, Read, Unread
<1> SUFFICES ASSUME DBInv, [DBNext]_dbVars PROVE DBInv'
  OBVIOUS
<1> USE DEF DBInv
<1>1. ASSUME NEW seq \in Nat, PutBegin(seq) PROVE DBInv'
  <2>1. DBType'
    BY <1>1 DEF PutBegin
  <2>2. Whole'
    BY <1>1 DEF PutBegin, Whole
  <2>3. ASSUME NEW r \in Readers PROVE Reading(r)'
    BY <1>1, <2>3 DEF PutBegin, Reading
  <2>4. ReadsNewest'
    BY <1>1 DEF PutBegin, ReadsNewest
  <2> QED BY <2>1, <2>2, <2>3, <2>4
<1>2. CASE PutFirst
  <2>1. DBType'
    BY <1>2 DEF PutFirst
  <2>2. Whole'
    BY <1>2 DEF PutFirst, Whole
  <2>3. ASSUME NEW r \in Readers PROVE Reading(r)'
    BY <1>2, <2>3 DEF PutFirst, Reading
  <2>4. ReadsNewest'
    BY <1>2 DEF PutFirst, ReadsNewest
  <2> QED BY <2>1, <2>2, <2>3, <2>4
<1>3. CASE PutSecond
  <2>1. DBType'
    BY <1>3 DEF PutSecond
  <2>2. Whole'
    BY <1>3 DEF PutSecond, Whole
  <2>3. ASSUME NEW r \in Readers PROVE Reading(r)'
    BY <1>3, <2>3 DEF PutSecond, Reading
  <2>4. ReadsNewest'
    BY <1>3 DEF PutSecond, ReadsNewest
  <2> QED BY <2>1, <2>2, <2>3, <2>4
<1>4. CASE Flip
  <2>1. DBType'
    BY <1>4 DEF Flip
  <2>2. Whole'
    BY <1>4 DEF Flip, Whole
  <2>3. ASSUME NEW r \in Readers PROVE Reading(r)'
    BY <1>4, <2>3 DEF Flip, Reading
  <2>4. ReadsNewest'
    BY <1>4 DEF Flip, ReadsNewest
  <2> QED BY <2>1, <2>2, <2>3, <2>4
<1>5. ASSUME NEW q \in Readers, GetIndex(q) PROVE DBInv'
  <2>1. DBType'
    BY <1>5 DEF GetIndex
  <2>2. Whole'
    BY <1>5 DEF GetIndex, Whole
  <2>3. ASSUME NEW r \in Readers PROVE Reading(r)'
    BY <1>5, <2>3 DEF GetIndex, Reading, Whole
  <2>4. ReadsNewest'
    BY <1>5 DEF GetIndex, ReadsNewest
  <2> QED BY <2>1, <2>2, <2>3, <2>4
<1>6. ASSUME NEW q \in Readers, GetFirst(q) PROVE DBInv'
  <2>1. DBType'
    <3>1. rd[q] \in Read /\ buf[rd[q].slot] \in Item
      OBVIOUS
    <3>2. rd'[q] = [rd[q] EXCEPT !.a = buf[rd[q].slot].a, !.on = (rd[q].b = Unread)]
      BY <1>6 DEF GetFirst
    <3>3. rd'[q] \in Read
      BY <3>1, <3>2
    <3> QED BY <1>6, <3>3 DEF GetFirst
  <2>2. Whole'
    BY <1>6 DEF GetFirst, Whole
  <2>3. ASSUME NEW r \in Readers PROVE Reading(r)'
    BY <1>6, <2>3 DEF GetFirst, Reading
  <2>4. ReadsNewest'
    BY <1>6 DEF GetFirst, ReadsNewest, Reading
  <2> QED BY <2>1, <2>2, <2>3, <2>4
<1>7. ASSUME NEW q \in Readers, GetSecond(q) PROVE DBInv'
  <2>1. DBType'
    <3>1. rd[q] \in Read /\ buf[rd[q].slot] \in Item
      OBVIOUS
    <3>2. rd'[q] = [rd[q] EXCEPT !.b = buf[rd[q].slot].b, !.seq = buf[rd[q].slot].seq,
                               !.on = (rd[q].a = Unread)]
      BY <1>7 DEF GetSecond
    <3>3. rd'[q] \in Read
      BY <3>1, <3>2
    <3> QED BY <1>7, <3>3 DEF GetSecond
  <2>2. Whole'
    BY <1>7 DEF GetSecond, Whole
  <2>3. ASSUME NEW r \in Readers PROVE Reading(r)'
    BY <1>7, <2>3 DEF GetSecond, Reading
  <2>4. ReadsNewest'
    BY <1>7 DEF GetSecond, ReadsNewest, Reading
  <2> QED BY <2>1, <2>2, <2>3, <2>4
<1>8. CASE UNCHANGED dbVars
  BY <1>8 DEF dbVars, Whole, Reading, ReadsNewest
<1> QED BY <1>1, <1>2, <1>3, <1>4, <1>5, <1>6, <1>7, <1>8 DEF DBNext

\* The zeroed segment satisfies the invariant.
LEMMA DBStart == DBInit => DBInv
BY DEF DBInit, DBInv, DBType, Item, Read, Unread, Whole, Reading, ReadsNewest

\* Every hand-over through a double buffer, by any number of readers, satisfies
\* ReadsNewest: SourceDoubleBuffer and the inline copies of its steps.
THEOREM BufferReadsNewest == DBSpec => []ReadsNewest
<1>1. DBInv => ReadsNewest
  BY DEF DBInv
<1> QED BY DBStart, DBStep, <1>1, PTL DEF DBSpec
=============================================================================
