--------------------------- MODULE ScancodeQueue ---------------------------
(***************************************************************************)
(* The ring buffer of src/src/shell.rs between the keyboard interrupt and  *)
(* the shell thread.  push and pop run under the queue's lock, so each is  *)
(* one step (module Kernel looks at the lock).                             *)
(***************************************************************************)
EXTENDS Integers, Sequences

CONSTANTS
  Capacity,    \* SCANCODE_QUEUE_CAPACITY, 128 in the source
  Scancodes    \* the bytes the keyboard sends

ASSUME QueueAssumption == Capacity \in Nat \ {0} /\ 0 \in Scancodes

VARIABLES
  data, head, tail, len,   \* the fields of ScancodeQueue
  pushed,                  \* what the last push returned
  popped                   \* what the last pop returned: <<s>> or <<>>

ring == <<data, head, tail, len>>
vars == <<ring, pushed, popped>>

Slots == 0 .. Capacity - 1

Init ==
  /\ data = [i \in Slots |-> 0]
  /\ head = 0
  /\ tail = 0
  /\ len = 0
  /\ pushed = FALSE
  /\ popped = <<>>

Following(i) == (i + 1) % Capacity
Full == len = Capacity

push(scancode) ==
  /\ IF Full THEN pushed' = FALSE /\ UNCHANGED ring
     ELSE /\ data' = [data EXCEPT ![tail] = scancode]
          /\ tail' = Following(tail)
          /\ len' = len + 1
          /\ pushed' = TRUE
          /\ UNCHANGED head
  /\ UNCHANGED popped

\* Slip: the newest scancode comes out first.
Oldest_Newest == data[(tail + Capacity - 1) % Capacity]
Oldest == data[head]

pop ==
  /\ IF len = 0 THEN popped' = <<>> /\ UNCHANGED ring
     ELSE /\ popped' = <<Oldest>>
          /\ head' = Following(head)
          /\ len' = len - 1
          /\ UNCHANGED <<data, tail>>
  /\ UNCHANGED pushed

Next == (\E scancode \in Scancodes : push(scancode)) \/ pop

Spec == Init /\ [][Next]_vars

----------------------------------------------------------------------------
\* The slot of the i-th oldest scancode.
Slot(i) == IF head + i - 1 < Capacity THEN head + i - 1 ELSE head + i - 1 - Capacity

\* The ring is well formed: the indices stay inside the array, and tail is
\* len slots ahead of head, also when the ring is full and the two coincide.
RingOK ==
  /\ data \in [Slots -> Scancodes]
  /\ head \in Slots /\ tail \in Slots /\ len \in 0 .. Capacity
  /\ tail = IF head + len < Capacity THEN head + len ELSE head + len - Capacity

\* The scancodes in the queue, oldest first.
Contents == [i \in 1 .. len |-> data[Slot(i)]]

Fifo == INSTANCE BoundedFifo WITH fifo <- Contents

\* The ring buffer is a bounded FIFO: scancodes come out once each, in the order
\* they went in, and are refused only when Capacity of them are waiting.
ImplementsFifo == Fifo!Spec
=============================================================================
