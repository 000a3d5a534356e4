----------------------------- MODULE LineEditor -----------------------------
(***************************************************************************)
(* The command line of the shell: the input buffer, the command history    *)
(* and what the user sees of them.  Only the shell thread touches buffer   *)
(* and history, so a key changes them in one step; but a handler prints in *)
(* several calls of _print, and a system call of the ring 3 program can    *)
(* print between any two of them.  The calls still to be made are todo.    *)
(***************************************************************************)
EXTENDS VgaBuffer, FiniteSetsExt

CONSTANTS
  MAX_INPUT_LEN, MAX_HISTORY_ENTRIES,
  Keys    \* the characters typed, " " among them

\* 256 characters and the prompt fit on 25 rows of 80.
ASSUME LineAssumption ==
  /\ MAX_INPUT_LEN \in Nat /\ MAX_HISTORY_ENTRIES \in Nat \ {0}
  /\ MAX_INPUT_LEN + 2 <= BUFFER_HEIGHT * BUFFER_WIDTH

ASSUME TextAssumption ==
  Keys \subseteq Printable /\ " " \in Keys /\ "#" \in Printable /\ "$" \in Printable

VARIABLES
  WRITER, INPUT_BUFFER, HISTORY,
  user,     \* SESSION.user, which decides the prompt
  todo,     \* calls of _print and clear_screen the shell has still to make
  exact,    \* history: since the prompt nobody else printed, and no backspace
            \* met column 0
  before    \* history: the line when the user began to browse the history

vars == <<WRITER, INPUT_BUFFER, HISTORY, user, todo, exact, before>>

-----------------------------------------------------------------------------
(* Text *)

None == 0   \* of HISTORY.index, which counts from 1 here

trim(line) ==
  LET ink == {i \in DOMAIN line : line[i] # " "}
  IN  IF ink = {} THEN <<>> ELSE SubSeq(line, Min(ink), Max(ink))

Repeat(x, n) == [i \in 1 .. n |-> x]

PromptOf(u) == IF u = "Enos" THEN <<"#">> ELSE <<"$", " ">>

Show(s) == [op |-> "print", text |-> s]
print_prompt(u) == [op |-> "prompt", text |-> PromptOf(u)]
Clear == [op |-> "clear", text |-> <<>>]

-----------------------------------------------------------------------------
(* HistoryState *)

reset_navigation(h) == [h EXCEPT !.index = None, !.draft = <<>>]

\* Slip: a command is recorded again.
record_Always(h, command) ==
  IF command = <<>> THEN reset_navigation(h)
  ELSE LET kept == IF Len(h.entries) >= MAX_HISTORY_ENTRIES THEN Tail(h.entries) ELSE h.entries
       IN  reset_navigation([h EXCEPT !.entries = Append(kept, command)])

record(h, command) ==
  IF command = <<>> \/ (h.entries # <<>> /\ h.entries[Len(h.entries)] = command)
  THEN reset_navigation(h)
  ELSE LET kept == IF Len(h.entries) >= MAX_HISTORY_ENTRIES THEN Tail(h.entries) ELSE h.entries
       IN  reset_navigation([h EXCEPT !.entries = Append(kept, command)])

\* Slip: every step up saves the line as the draft.
previous_Overwrite(h, line) ==
  CASE h.index = None -> [h EXCEPT !.draft = line, !.index = Len(h.entries)]
    [] h.index = 1    -> h
    [] h.index > 1    -> [h EXCEPT !.draft = line, !.index = @ - 1]

\* With entries to show.
previous(h, line) ==
  CASE h.index = None -> [h EXCEPT !.draft = line, !.index = Len(h.entries)]
    [] h.index = 1    -> h
    [] h.index > 1    -> [h EXCEPT !.index = @ - 1]

\* While browsing.
next(h) == [h EXCEPT !.index = IF @ < Len(h.entries) THEN @ + 1 ELSE None]

-----------------------------------------------------------------------------
(* Key handlers: process_scancode has decoded the key. *)

Ready == todo = <<>>
Forget == before' = IF HISTORY'.index = None THEN <<>> ELSE before

\* Slip: the old line is not erased first.
replace_input_line_Over(text) == INPUT_BUFFER' = text /\ todo' = <<Show(text)>>

\* clear_visible_input prints one backspace at a time.
replace_input_line(text) ==
  LET rendered == SubSeq(text, 1, IF Len(text) < MAX_INPUT_LEN THEN Len(text) ELSE MAX_INPUT_LEN)
  IN  /\ INPUT_BUFFER' = rendered
      /\ todo' = Append(Repeat(Show(<<"BS">>), Len(INPUT_BUFFER)), Show(rendered))

history_up ==
  /\ Ready
  /\ \/ /\ HISTORY.entries = <<>>
        /\ UNCHANGED <<INPUT_BUFFER, HISTORY, todo, before>>
     \/ /\ HISTORY.entries # <<>>
        /\ HISTORY' = previous(HISTORY, INPUT_BUFFER)
        /\ before' = IF HISTORY.index = None THEN INPUT_BUFFER ELSE before
        /\ replace_input_line(HISTORY.entries[HISTORY'.index])
  /\ UNCHANGED <<WRITER, user, exact>>

history_down ==
  /\ Ready
  /\ \/ /\ HISTORY.index = None
        /\ UNCHANGED <<INPUT_BUFFER, HISTORY, todo>>
     \/ /\ HISTORY.index # None
        /\ HISTORY' = next(HISTORY)
        /\ replace_input_line(IF HISTORY'.index = None THEN HISTORY.draft
                              ELSE HISTORY.entries[HISTORY'.index])
  /\ Forget
  /\ UNCHANGED <<WRITER, user, exact>>

push_char_backspace ==
  /\ Ready
  /\ HISTORY' = reset_navigation(HISTORY)
  /\ \/ INPUT_BUFFER = <<>> /\ UNCHANGED <<INPUT_BUFFER, todo>>
     \/ /\ INPUT_BUFFER # <<>>
        /\ INPUT_BUFFER' = SubSeq(INPUT_BUFFER, 1, Len(INPUT_BUFFER) - 1)
        /\ todo' = <<Show(<<"BS">>)>>
  /\ Forget
  /\ UNCHANGED <<WRITER, user, exact>>

\* Slip: typing does not leave the history.
push_char_Browsing(c, n) ==
  /\ Ready
  /\ LET room == MAX_INPUT_LEN - Len(INPUT_BUFFER)
         pushed == Repeat(c, IF n < room THEN n ELSE room)
     IN  /\ INPUT_BUFFER' = INPUT_BUFFER \o pushed
         /\ todo' = [i \in DOMAIN pushed |-> Show(<<c>>)]
  /\ UNCHANGED <<WRITER, HISTORY, user, exact, before>>

\* push_char(c), n times in a row: a key, or the four spaces of Tab.
push_char(c, n) ==
  /\ Ready
  /\ LET room == MAX_INPUT_LEN - Len(INPUT_BUFFER)
         pushed == Repeat(c, IF n < room THEN n ELSE room)
     IN  /\ INPUT_BUFFER' = INPUT_BUFFER \o pushed
         /\ todo' = [i \in DOMAIN pushed |-> Show(<<c>>)]
         /\ HISTORY' = IF pushed = <<>> THEN HISTORY ELSE reset_navigation(HISTORY)
  /\ Forget
  /\ UNCHANGED <<WRITER, user, exact>>

\* What a command prints, line by line, and the session it leaves.
Output(u) ==
  {[calls |-> <<Clear>>, user |-> u], [calls |-> <<Show(<<"o", "LF">>)>>, user |-> u]}
  \cup {[calls |-> <<Show(<<"o", "LF">>)>>, user |-> v] : v \in {"Enos", "Guest"}}

\* push_char('\n') and evaluate_command.
push_char_newline ==
  /\ Ready
  /\ LET command_line == trim(INPUT_BUFFER)
     IN  /\ HISTORY' = record(HISTORY, command_line)
         /\ \/ /\ command_line = <<>>
               /\ todo' = <<Show(<<"LF">>), print_prompt(user)>>
               /\ UNCHANGED user
            \/ /\ command_line # <<>>
               /\ \E out \in Output(user) :
                    /\ todo' = <<Show(<<"LF">>)>> \o out.calls \o <<print_prompt(out.user)>>
                    /\ user' = out.user
  /\ INPUT_BUFFER' = <<>>
  /\ Forget
  /\ UNCHANGED <<WRITER, exact>>

\* The next call of _print or clear_screen.
_print ==
  /\ todo # <<>>
  /\ WRITER' = IF Head(todo).op = "clear" THEN clear_screen(WRITER)
               ELSE write_string(WRITER, Head(todo).text)
  /\ exact' = CASE Head(todo).op = "prompt" -> WRITER.column_position = 0
                [] Head(todo).text = <<"BS">> -> exact /\ WRITER.column_position > 0
                [] OTHER -> exact
  /\ todo' = Tail(todo)
  /\ UNCHANGED <<INPUT_BUFFER, HISTORY, user, before>>

\* SYS_PRINT of the ring 3 program, a println.
syscall_print ==
  /\ WRITER' = write_string(WRITER, <<"u", "LF">>)
  /\ exact' = FALSE
  /\ UNCHANGED <<INPUT_BUFFER, HISTORY, user, todo, before>>

Init ==
  /\ WRITER = Booted
  /\ INPUT_BUFFER = <<>>
  /\ HISTORY = [entries |-> <<>>, index |-> None, draft |-> <<>>]
  /\ user = "Enos"
  /\ todo = <<print_prompt("Enos")>>
  /\ exact = FALSE
  /\ before = <<>>

Next ==
  \/ history_up \/ history_down
  \/ push_char_backspace \/ push_char_newline
  \/ \E c \in Keys : push_char(c, 1)
  \/ push_char(" ", 4)
  \/ _print
  \/ syscall_print

Spec == Init /\ [][Next]_vars

-----------------------------------------------------------------------------
(* Properties *)

Line == PromptOf(user) \o INPUT_BUFFER
LastRow == WRITER.chars[BUFFER_HEIGHT]

\* Between two keys the last row of the screen shows the end of the line being
\* edited and nothing else, wherever ring 3 printed and however the line wrapped
\* or was replaced from the history.
LastRowShowsLine ==
  Ready =>
    /\ WRITER.column_position <= Len(Line)
    /\ \A col \in Columns :
         LastRow[col] = IF col <= WRITER.column_position
                        THEN Line[Len(Line) - WRITER.column_position + col] ELSE " "

\* If nobody else printed and no backspace fell into column 0 since the prompt,
\* the user sees the whole line: prompt and buffer fill some rows and begin the last.
WholeLineShown ==
  Ready /\ exact =>
    \E full \in 0 .. BUFFER_HEIGHT - 1 :
      /\ Len(Line) = full * BUFFER_WIDTH + WRITER.column_position
      /\ \A row \in 0 .. full, col \in Columns :
           row * BUFFER_WIDTH + col <= Len(Line) =>
             Line[row * BUFFER_WIDTH + col] = WRITER.chars[BUFFER_HEIGHT - full + row][col]

\* While the user browses, the buffer is the entry the index points at: Enter
\* runs what is shown, and Up and Down move from there.
BrowsingShowsEntry ==
  HISTORY.index # None => INPUT_BUFFER = HISTORY.entries[HISTORY.index]

\* record keeps at most MAX_HISTORY_ENTRIES entries, each trimmed and not empty,
\* and no two neighbours are equal, also after the oldest was dropped.
HistoryIsClean ==
  /\ Len(HISTORY.entries) <= MAX_HISTORY_ENTRIES
  /\ \A i \in DOMAIN HISTORY.entries :
       /\ HISTORY.entries[i] # <<>> /\ trim(HISTORY.entries[i]) = HISTORY.entries[i]
       /\ i > 1 => HISTORY.entries[i] # HISTORY.entries[i - 1]

\* Going down past the newest entry gives back the line that was being typed when
\* the browsing began.
DraftComesBack ==
  [][history_down /\ HISTORY.index # None /\ HISTORY'.index = None
       => INPUT_BUFFER' = before]_vars
=============================================================================
