---------------------------- MODULE DoubleBuffer ----------------------------
(***************************************************************************)
(* The hand-over of data through shared memory: a double buffer without a  *)
(* lock.  The one writer copies an item into the buffer that write_idx     *)
(* does not name and then stores write_idx; a reader copies the buffer     *)
(* that write_idx named when it began.  A copy is not atomic, so an item   *)
(* has two halves.  A reader may copy them in either order: the leg uses   *)
(* a command in place and looks at its last field first.                   *)
(*                                                                         *)
(* Staged sensor data (SourceDoubleBuffer), the composed snapshot and the  *)
(* command are handed over in this way; the last two repeat the same steps *)
(* inline.                                                                 *)
(***************************************************************************)
EXTENDS Integers

CONSTANT Readers   \* the threads that read

VARIABLES
  buf, idx,        \* the two buffers and write_idx
  at, load,        \* the writer: where it is, and the sequence number it publishes
  rd,              \* per reader: the copy being made, or made last
  done             \* history: how many items have been published

dbVars == <<buf, idx, at, load, rd, done>>

Unread == -1       \* a half that has not been copied yet

\* An item: the number of the publish that wrote each half, and the sequence number
\* in the second half.
Item == [a : Nat, b : Nat, seq : Nat]

\* A copy: whether it is under way, the buffer it reads, what it has read, the number
\* of publishes that ended before it began, and whether a publish has lapped it.
Read == [on : BOOLEAN, slot : {0, 1}, a : Nat \cup {Unread}, b : Nat \cup {Unread},
         seq : Nat, want : Nat, lapped : BOOLEAN]

-----------------------------------------------------------------------------
(* SourceDoubleBuffer::publish.                                            *)

\* A publish begins; wb = 1 - write_idx is fixed until it ends.  A copy during which
\* another publish has ended is lapped by this one.
PutBegin(seq) ==
  /\ at = "idle"
  /\ at' = "first" /\ load' = seq
  /\ rd' = [r \in Readers |->
              [rd[r] EXCEPT !.lapped = @ \/ (rd[r].on /\ rd[r].want < done)]]
  /\ UNCHANGED <<buf, idx, done>>

\* Mutant of PutFirst: the buffer that write_idx names is overwritten.
PutFirstInPlace ==
  /\ at = "first"
  /\ buf' = [buf EXCEPT ![idx].a = done + 1]
  /\ at' = "second"
  /\ UNCHANGED <<idx, load, rd, done>>

\* memcpy(&buffers[wb], &data, sizeof(T)): the first half ...
PutFirst ==
  /\ at = "first"
  /\ buf' = [buf EXCEPT ![1 - idx].a = done + 1]
  /\ at' = "second"
  /\ UNCHANGED <<idx, load, rd, done>>

\* ... and the second.
PutSecond ==
  /\ at = "second"
  /\ buf' = [buf EXCEPT ![1 - idx] = [a |-> buf[1 - idx].a, b |-> done + 1, seq |-> load]]
  /\ at' = "flip"
  /\ UNCHANGED <<idx, load, rd, done>>

\* Mutant of Flip: write_idx counts on.
FlipOverruns ==
  /\ at = "flip"
  /\ idx' = idx + 1
  /\ done' = done + 1
  /\ at' = "idle"
  /\ UNCHANGED <<buf, load, rd>>

\* write_idx.store(wb): the item is published.
Flip ==
  /\ at = "flip"
  /\ idx' = 1 - idx
  /\ done' = done + 1
  /\ at' = "idle"
  /\ UNCHANGED <<buf, load, rd>>

-----------------------------------------------------------------------------
(* SourceDoubleBuffer::read.                                               *)

\* rb = write_idx.load().
GetIndex(r) ==
  /\ ~rd[r].on
  /\ rd' = [rd EXCEPT ![r] = [on |-> TRUE, slot |-> idx, a |-> Unread, b |-> Unread,
                              seq |-> 0, want |-> done, lapped |-> FALSE]]
  /\ UNCHANGED <<buf, idx, at, load, done>>

\* memcpy(&result, &buffers[rb], sizeof(T)): one half or the other; with the second
\* of them the read ends.
GetFirst(r) ==
  /\ rd[r].on /\ rd[r].a = Unread
  /\ rd' = [rd EXCEPT ![r].a = buf[rd[r].slot].a, ![r].on = (rd[r].b = Unread)]
  /\ UNCHANGED <<buf, idx, at, load, done>>

GetSecond(r) ==
  /\ rd[r].on /\ rd[r].b = Unread
  /\ rd' = [rd EXCEPT ![r].b = buf[rd[r].slot].b, ![r].seq = buf[rd[r].slot].seq,
                      ![r].on = (rd[r].a = Unread)]
  /\ UNCHANGED <<buf, idx, at, load, done>>

\* The zeroed shared-memory segment.
DBInit ==
  /\ buf = [i \in {0, 1} |-> [a |-> 0, b |-> 0, seq |-> 0]]
  /\ idx = 0
  /\ at = "idle" /\ load = 0
  /\ rd = [r \in Readers |-> [on |-> FALSE, slot |-> 0, a |-> 0, b |-> 0, seq |-> 0,
                              want |-> 0, lapped |-> FALSE]]
  /\ done = 0

DBNext ==
  \/ \E seq \in Nat : PutBegin(seq)
  \/ PutFirst \/ PutSecond \/ Flip
  \/ \E r \in Readers : GetIndex(r) \/ GetFirst(r) \/ GetSecond(r)

DBSpec == DBInit /\ [][DBNext]_dbVars

-----------------------------------------------------------------------------
\* A reader copies one whole item, the newest one published before it began, although
\* one publish may end during the copy and others be under way: only a publish that
\* begins after another has ended within the copy can tear it.
ReadsNewest ==
  \A r \in Readers :
    ~rd[r].lapped => rd[r].a \in {Unread, rd[r].want} /\ rd[r].b \in {Unread, rd[r].want}
=============================================================================
