----------------------------- MODULE VgaBuffer ------------------------------
(***************************************************************************)
(* The Writer of vga_buffer.rs as functions on its state: the cells of the *)
(* screen, the column and the cursor register of the display.  Text enters *)
(* in the last row and scrolls up.  Colours never change and are left out. *)
(***************************************************************************)
EXTENDS Integers, Sequences

CONSTANTS
  BUFFER_WIDTH, BUFFER_HEIGHT,
  Printable      \* the bytes 0x20..=0x7e in use, " " among them

ASSUME ScreenAssumption == BUFFER_WIDTH \in Nat \ {0} /\ BUFFER_HEIGHT \in Nat \ {0}

ASSUME PrintableAssumption == " " \in Printable /\ "LF" \notin Printable /\ "BS" \notin Printable

Columns == 1 .. BUFFER_WIDTH
BlankRow == [col \in Columns |-> " "]

\* What the boot loader left on the screen.
Leftover == [col \in Columns |-> "?"]

update_cursor(w) ==
  [w EXCEPT !.cursor = (BUFFER_HEIGHT - 1) * BUFFER_WIDTH + w.column_position]

new_line(w) == [w EXCEPT !.chars = Append(Tail(@), BlankRow), !.column_position = 0]

\* A full row is left only when another character comes.
write_byte(w, byte) ==
  IF byte = "LF" THEN new_line(w)
  ELSE LET v == IF w.column_position >= BUFFER_WIDTH THEN new_line(w) ELSE w
       IN  [v EXCEPT !.chars[BUFFER_HEIGHT][v.column_position + 1] = byte,
                     !.column_position = @ + 1]

\* Slip: the column moves back, the character stays.
backspace_Keep(w) ==
  IF w.column_position = 0 THEN w ELSE [w EXCEPT !.column_position = @ - 1]

\* Nothing happens in column 0: the row above is out of reach.
backspace(w) ==
  IF w.column_position = 0 THEN w
  ELSE [w EXCEPT !.column_position = @ - 1,
                 !.chars[BUFFER_HEIGHT][w.column_position] = " "]

put(w, byte) ==
  CASE byte = "BS" -> backspace(w)
    [] byte \in Printable \cup {"LF"} -> write_byte(w, byte)
    [] OTHER -> write_byte(w, "box")

\* The loop of write_string, byte by byte.
put_all(w, s) ==
  LET v[n \in 0 .. Len(s)] == IF n = 0 THEN w ELSE put(v[n - 1], s[n])
  IN  v[Len(s)]

write_string(w, s) == update_cursor(put_all(w, s))

clear_screen(w) ==
  update_cursor([w EXCEPT !.chars = [row \in 1 .. BUFFER_HEIGHT |-> BlankRow],
                          !.column_position = 0])

\* The screen after the first println of kernel_main.
Booted ==
  update_cursor(
    new_line([chars |-> [row \in 1 .. BUFFER_HEIGHT |-> Leftover],
              column_position |-> 0, cursor |-> 0]))
=============================================================================
