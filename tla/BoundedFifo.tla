---------------------------- MODULE BoundedFifo ----------------------------
(***************************************************************************)
(* What the keyboard handler and poll_input rely on: a first-in first-out  *)
(* queue of scancodes that refuses a scancode when it is full.             *)
(***************************************************************************)
EXTENDS Integers, Sequences

CONSTANTS Capacity, Scancodes

VARIABLES
  fifo,     \* the scancodes in the queue, oldest first
  pushed,   \* what the last push returned
  popped    \* what the last pop returned: <<s>> for Some(s), <<>> for None

Init == fifo = <<>> /\ pushed = FALSE /\ popped = <<>>

push(scancode) ==
  /\ pushed' = (Len(fifo) < Capacity)
  /\ fifo' = IF Len(fifo) < Capacity THEN Append(fifo, scancode) ELSE fifo
  /\ UNCHANGED popped

pop ==
  /\ popped' = IF fifo = <<>> THEN <<>> ELSE <<Head(fifo)>>
  /\ fifo' = IF fifo = <<>> THEN <<>> ELSE Tail(fifo)
  /\ UNCHANGED pushed

Next == (\E scancode \in Scancodes : push(scancode)) \/ pop

Spec == Init /\ [][Next]_<<fifo, pushed, popped>>
=============================================================================
