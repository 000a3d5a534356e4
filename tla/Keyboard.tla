------------------------------ MODULE Keyboard ------------------------------
(***************************************************************************)
(* From the keys of a PS/2 keyboard to the actions of the shell: the bytes *)
(* a key sends, the interrupt that queues them or drops them when the      *)
(* queue is full, and the decoder process_scancode of shell.rs.  What an   *)
(* action does to the line is module LineEditor.                           *)
(***************************************************************************)
EXTENDS Integers, Sequences, FiniteSets

CONSTANTS
  SCANCODE_QUEUE_CAPACITY,
  Keys,      \* the keys in use
  MaxDown    \* bound: keys held at once

VARIABLES
  down,            \* the keys held
  caps,            \* history: caps lock was struck an odd number of times
  wire,            \* bytes the keyboard has still to send
  SCANCODE_QUEUE,  \* bytes queued; module ScancodeQueue has the ring buffer
  KEYBOARD_STATE,
  action,          \* what process_scancode made of the last byte
  wanted,          \* history: what the key that sent it stands for
  plain,           \* history: no byte was lost, no second shift was held and
                   \* caps lock was not held until it repeats
  heal             \* history: a shift stroke has arrived whole since the last loss

keyboard_vars ==
  <<down, caps, wire, SCANCODE_QUEUE, KEYBOARD_STATE, action, wanted, plain, heal>>

-----------------------------------------------------------------------------
(* The keyboard: scancode set 1.  Keys from 256 on send the prefix 0xE0.   *)

E0 == 224
LShift == 42
RShift == 54
CapsLock == 58
Up == 256 + 72
Down == 256 + 80
Left == 256 + 75

Shifts == {LShift, RShift}
Extended(k) == k >= 256
Prefix(k) == IF Extended(k) THEN <<E0>> ELSE <<>>

\* What is printed on some keys, plain and with shift: a, 8, keypad 8, keypad 4.
Legend(k) ==
  CASE k = 30 -> <<"a", "A">>
    [] k = 9  -> <<"8", "*">>
    [] k = 72 -> <<"8", "8">>
    [] k = 75 -> <<"4", "4">>

\* Any of these keys: 28 is enter, 14 backspace, 15 tab; the last four have a legend.
ASSUME KeysAssumption ==
  Keys \subseteq Shifts \cup {CapsLock, Up, Down, Left, 28, 14, 15, 30, 9, 72, 75}

\* What pressing k asks the shell for.
Meaning(k) ==
  CASE k \in Shifts \cup {CapsLock, Left} -> "None"
    [] k = Up   -> "HistoryUp"
    [] k = Down -> "HistoryDown"
    [] k = 28   -> "Enter"
    [] k = 14   -> "Backspace"
    [] k = 15   -> "Tab"
    [] k = 30   -> Legend(k)[IF (down \cap Shifts # {}) # caps THEN 2 ELSE 1]
    [] OTHER    -> Legend(k)[IF down \cap Shifts # {} THEN 2 ELSE 1]

\* The bytes of one event; only the last one of a press asks for something.
Send(bytes, meaning) ==
  [i \in DOMAIN bytes |->
     [byte |-> bytes[i], wanted |-> IF i = Len(bytes) THEN meaning ELSE "None"]]

\* Around a cursor key that is struck while a shift is held, a keyboard may undo
\* the shift with an extended release and restore it with an extended press.
FakeShifts(k) == IF Extended(k) THEN down \cap Shifts ELSE {}
FakeRelease(k) == {<<>>} \cup {<<E0, s + 128>> : s \in FakeShifts(k)}
FakePress(k) == {<<>>} \cup {<<E0, s>> : s \in FakeShifts(k)}

-----------------------------------------------------------------------------
(* shell.rs *)

\* map_letter_base and map_non_letter: tables made of rows of neighbouring scancodes.
Row(first, chars) == [c \in first .. first + Len(chars) - 1 |-> chars[c - first + 1]]
Table(rows) ==
  [c \in UNION {DOMAIN r : r \in rows} |-> (CHOOSE r \in rows : c \in DOMAIN r)[c]]

Lower == Table(
  {Row(16, <<"q", "w", "e", "r", "t", "y", "u", "i", "o", "p">>),
   Row(30, <<"a", "s", "d", "f", "g", "h", "j", "k", "l">>),
   Row(44, <<"z", "x", "c", "v", "b", "n", "m">>)})
Upper == Table(
  {Row(16, <<"Q", "W", "E", "R", "T", "Y", "U", "I", "O", "P">>),
   Row(30, <<"A", "S", "D", "F", "G", "H", "J", "K", "L">>),
   Row(44, <<"Z", "X", "C", "V", "B", "N", "M">>)})

Keypad ==
  {Row(55, <<"*">>),
   Row(71, <<"7", "8", "9", "-", "4", "5", "6", "+", "1", "2", "3", "0", ".">>)}
Unshifted == Table(Keypad \cup
  {Row(2, <<"1", "2", "3", "4", "5", "6", "7", "8", "9", "0", "-", "=">>),
   Row(26, <<"[", "]">>), Row(39, <<";", "'", "grave">>), Row(43, <<"\\">>),
   Row(51, <<",", ".", "/">>), Row(57, <<" ">>)})
Shifted == Table(Keypad \cup
  {Row(2, <<"!", "@", "#", "$", "%", "^", "&", "*", "(", ")", "_", "+">>),
   Row(26, <<"{", "}">>), Row(39, <<":", "\"", "~">>), Row(43, <<"|">>),
   Row(51, <<"<", ">", "?">>), Row(57, <<" ">>)})

\* Slip: shift does not undo caps lock.
map_key_Or(code, shifted, caps_lock) ==
  IF code \in DOMAIN Lower THEN (IF caps_lock \/ shifted THEN Upper ELSE Lower)[code]
  ELSE IF code \in DOMAIN Unshifted THEN (IF shifted THEN Shifted ELSE Unshifted)[code]
  ELSE "None"

map_key(code, shifted, caps_lock) ==
  IF code \in DOMAIN Lower THEN (IF caps_lock # shifted THEN Upper ELSE Lower)[code]
  ELSE IF code \in DOMAIN Unshifted THEN (IF shifted THEN Shifted ELSE Unshifted)[code]
  ELSE "None"

is_release(scancode) == scancode >= 128
code_of(scancode) == scancode % 128

\* Slip: a release leaves the prefix set.
AfterPrefix_Kept(kb, scancode) ==
  [kb EXCEPT !.extended_prefix = is_release(scancode)]

\* The keyboard state after a byte that follows 0xE0, and what the byte asks for.
AfterPrefix(kb, scancode) == [kb EXCEPT !.extended_prefix = FALSE]
ExtendedAction(scancode) ==
  CASE scancode = 72 -> "HistoryUp"
    [] scancode = 80 -> "HistoryDown"
    [] OTHER -> "None"

\* The same for a byte without prefix.
AfterPlain(kb, scancode) ==
  CASE code_of(scancode) \in {42, 54} -> [kb EXCEPT !.shift_pressed = ~is_release(scancode)]
    [] scancode = 58 -> [kb EXCEPT !.caps_lock = ~@]
    [] OTHER -> kb
PlainAction(kb, scancode) ==
  CASE is_release(scancode) \/ scancode \in {42, 54, 58} -> "None"
    [] scancode = 14 -> "Backspace"
    [] scancode = 28 -> "Enter"
    [] scancode = 15 -> "Tab"
    [] OTHER -> map_key(scancode, kb.shift_pressed, kb.caps_lock)

\* One round of poll_input: a byte is popped and decoded.
process_scancode ==
  /\ SCANCODE_QUEUE # <<>>
  /\ LET scancode == Head(SCANCODE_QUEUE).byte
         kb == KEYBOARD_STATE
     IN  \/ /\ scancode = E0
            /\ KEYBOARD_STATE' = [kb EXCEPT !.extended_prefix = TRUE]
            /\ action' = "None"
         \/ /\ scancode # E0 /\ kb.extended_prefix
            /\ KEYBOARD_STATE' = AfterPrefix(kb, scancode)
            /\ action' = ExtendedAction(scancode)
         \/ /\ scancode # E0 /\ ~kb.extended_prefix
            /\ KEYBOARD_STATE' = AfterPlain(kb, scancode)
            /\ action' = PlainAction(kb, scancode)
  /\ wanted' = Head(SCANCODE_QUEUE).wanted
  /\ SCANCODE_QUEUE' = Tail(SCANCODE_QUEUE)
  /\ UNCHANGED <<down, caps, wire, plain, heal>>

Room == Len(SCANCODE_QUEUE) < SCANCODE_QUEUE_CAPACITY

\* keyboard_interrupt_handler and enqueue_scancode_from_irq: push may refuse,
\* and nobody looks.
keyboard_interrupt ==
  /\ wire # <<>>
  /\ wire' = Tail(wire)
  /\ \/ Room /\ SCANCODE_QUEUE' = Append(SCANCODE_QUEUE, Head(wire)) /\ UNCHANGED <<plain, heal>>
     \/ ~Room /\ plain' = FALSE /\ heal' = "lost" /\ UNCHANGED SCANCODE_QUEUE
  /\ UNCHANGED <<down, caps, KEYBOARD_STATE, action, wanted>>

-----------------------------------------------------------------------------
(* Fingers.  A key is struck when the last one has left the keyboard.      *)

press(k) ==
  /\ wire = <<>> /\ k \notin down /\ Cardinality(down) < MaxDown
  /\ \E undo \in FakeRelease(k) :
       wire' = Send(undo \o Prefix(k) \o <<k % 256>>, Meaning(k))
  /\ down' = down \cup {k}
  /\ caps' = (caps # (k = CapsLock))
  /\ plain' = (plain /\ (k \in Shifts => down \cap Shifts = {}))
  /\ heal' = IF k \in Shifts /\ heal = "lost" THEN "shift pressed" ELSE heal
  /\ UNCHANGED <<SCANCODE_QUEUE, KEYBOARD_STATE, action, wanted>>

\* A key that is held is sent again and again.
typematic(k) ==
  /\ wire = <<>> /\ k \in down
  /\ wire' = Send(Prefix(k) \o <<k % 256>>, Meaning(k))
  /\ plain' = (plain /\ k # CapsLock)
  /\ UNCHANGED <<down, caps, SCANCODE_QUEUE, KEYBOARD_STATE, action, wanted, heal>>

release(k) ==
  /\ wire = <<>> /\ k \in down
  /\ \E redo \in FakePress(k) :
       wire' = Send(Prefix(k) \o <<(k % 256) + 128>> \o redo, "None")
  /\ down' = down \ {k}
  /\ heal' = IF k \in Shifts /\ heal = "shift pressed" THEN "healed" ELSE heal
  /\ UNCHANGED <<caps, SCANCODE_QUEUE, KEYBOARD_STATE, action, wanted, plain>>

KeyboardInit ==
  /\ down = {} /\ caps = FALSE /\ wire = <<>> /\ SCANCODE_QUEUE = <<>>
  /\ KEYBOARD_STATE =
       [shift_pressed |-> FALSE, caps_lock |-> FALSE, extended_prefix |-> FALSE]
  /\ action = "None" /\ wanted = "None" /\ plain = TRUE /\ heal = "healed"

KeyboardNext ==
  \/ process_scancode
  \/ keyboard_interrupt
  \/ \E k \in Keys : press(k) \/ typematic(k) \/ release(k)

KeyboardSpec == KeyboardInit /\ [][KeyboardNext]_keyboard_vars

-----------------------------------------------------------------------------
(* Properties *)

\* However far the shell lags behind the keyboard, and whatever is held, struck
\* twice or wrapped in fake shifts, a byte makes the decoder do exactly what the
\* key stood for when it was struck.  (A lost byte, the second of two shifts and
\* a repeating caps lock are outside this promise.)
DecodesAsMeant == plain => action = wanted

Idle == wire = <<>> /\ SCANCODE_QUEUE = <<>>

\* Bytes may be lost, but one shift key struck after the loss mends everything:
\* once the bytes are decoded no prefix is pending, and shift_pressed is not
\* stuck when no shift key is held.
LossHeals ==
  Idle /\ heal = "healed" =>
    /\ ~KEYBOARD_STATE.extended_prefix
    /\ KEYBOARD_STATE.shift_pressed => down \cap Shifts # {}
=============================================================================
