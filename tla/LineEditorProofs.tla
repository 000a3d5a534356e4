-------------------------- MODULE LineEditorProofs --------------------------
(***************************************************************************)
(* The input buffer, the command history and what the screen shows of      *)
(* them, for any screen, any length of the line and any number of entries, *)
(* whoever prints between two keys.  LineInv is about buffer and history   *)
(* alone; ShowInv relates them to the cells of the screen and to the calls *)
(* of _print still to be made.                                             *)
(***************************************************************************)
EXTENDS LineEditor, DataLemmas

Text == Seq(Keys)

\* A line that fits into the input buffer.
Fits(line) == line \in Text /\ Len(line) <= MAX_INPUT_LEN

\* A command as the history may hold it.
Recordable(line) == Fits(line) /\ line # <<>> /\ trim(line) = line

\* HistoryIsClean of a list, with the length of its entries.
Clean(es) ==
  /\ es \in Seq(Text)
  /\ Len(es) <= MAX_HISTORY_ENTRIES
  /\ \A i \in 1 .. Len(es) : Recordable(es[i])
  /\ \A i \in 2 .. Len(es) : es[i] # es[i - 1]

\* The inductive invariant: while the user browses the buffer is the entry shown
\* and the draft is the line they left, which still fits into the buffer.
LineInv ==
  /\ Fits(INPUT_BUFFER)
  /\ HISTORY \in [entries : Seq(Text), index : Nat, draft : Text]
  /\ Clean(HISTORY.entries)
  /\ HISTORY.index <= Len(HISTORY.entries)
  /\ Fits(HISTORY.draft)
  /\ HISTORY.index # None => /\ INPUT_BUFFER = HISTORY.entries[HISTORY.index]
                             /\ HISTORY.draft = before

----------------------------------------------------------------------------
(* Text *)

\* trim shortens a line, and what it leaves has no blank to trim.
LEMMA TrimTrims ==
  ASSUME NEW line \in Text
  PROVE  /\ trim(line) \in Text /\ Len(trim(line)) <= Len(line)
         /\ trim(trim(line)) = trim(line)
<1> DEFINE Ink(s) == {i \in DOMAIN s : s[i] # " "}
<1>1. CASE Ink(line) = {}
  <2>1. trim(line) = <<>>
    BY <1>1 DEF trim
  <2>2. trim(<<>>) = <<>>
    BY DEF trim
  <2> QED BY <2>1, <2>2 DEF Text
<1>2. CASE Ink(line) # {}
  <2> DEFINE n == Len(line)
             a == Min(Ink(line))
             b == Max(Ink(line))
             s == SubSeq(line, a, b)
             m == b - a + 1
  <2>1. trim(line) = s
    BY <1>2, Zenon DEF trim
  <2>2. n \in Nat /\ DOMAIN line = 1 .. n
    BY DEF Text
  <2> HIDE DEF n
  <2>3. Ink(line) \in SUBSET Nat /\ Ink(line) \in SUBSET (0 .. n)
    <3>1. \A i \in 1 .. n : i \in Nat /\ i \in 0 .. n
      BY <2>2
    <3> QED BY <3>1, <2>2, Zenon
  <2>4. a \in Ink(line) /\ \A y \in Ink(line) : a <= y
    BY <2>3, <1>2, MinIsLeast, Zenon
  <2>5. b \in Ink(line) /\ \A y \in Ink(line) : y <= b
    BY <2>2, <2>3, <1>2, MaxIsGreatest, Zenon
  <2> HIDE DEF a, b
  <2>6. a \in 1 .. n /\ b \in 1 .. n /\ line[a] # " " /\ line[b] # " "
    BY <2>2, <2>4, <2>5
  <2>7. a <= b
    BY <2>4, <2>5, Zenon
  <2>8. a \in 1 .. n /\ b \in 1 .. n
    BY <2>6
  <2>9. /\ m \in Nat \ {0} /\ m <= n
        /\ 1 \in 1 .. m /\ m \in 1 .. m /\ a + 1 - 1 = a /\ a + m - 1 = b
    BY <2>2, <2>7, <2>8
  <2>10. /\ s \in Text /\ Len(s) = m
         /\ \A j \in 1 .. m : s[j] = line[a + j - 1]
    BY <2>2, <2>7, <2>8 DEF Text, n
  <2> HIDE DEF s, m
  <2>11. s[1] # " " /\ s[m] # " "
    <3>1. s[1] = line[a + 1 - 1] /\ s[m] = line[a + m - 1]
      BY <2>9, <2>10
    <3> QED BY <3>1, <2>6, <2>9, Zenon
  <2>12. DOMAIN s = 1 .. m
    BY <2>10 DEF Text
  <2>13. /\ 1 \in Ink(s) /\ m \in Ink(s)
         /\ Ink(s) \in SUBSET Nat /\ Ink(s) \in SUBSET (0 .. m)
         /\ \A y \in Ink(s) : 1 <= y /\ y <= m
    <3>1. \A i \in 1 .. m : i \in Nat /\ i \in 0 .. m /\ 1 <= i /\ i <= m
      BY <2>9
    <3> QED BY <3>1, <2>9, <2>11, <2>12, Zenon
  <2> HIDE DEF Ink
  <2>14. Min(Ink(s)) = 1
    <3>1. Min(Ink(s)) \in Ink(s) /\ \A y \in Ink(s) : Min(Ink(s)) <= y
      BY <2>13, MinIsLeast
    <3> QED BY <3>1, <2>13
  <2>15. Max(Ink(s)) = m
    <3>1. Max(Ink(s)) \in Ink(s) /\ \A y \in Ink(s) : y <= Max(Ink(s))
      BY <2>13, <2>9, MaxIsGreatest, Zenon
    <3> QED BY <3>1, <2>13, <2>9
  <2>16. trim(s) = SubSeq(s, 1, m)
    <3>1. trim(s) = SubSeq(s, Min(Ink(s)), Max(Ink(s)))
      BY <2>13, Zenon DEF trim, Ink
    <3> QED BY <3>1, <2>14, <2>15, Zenon
  <2>17. SubSeq(s, 1, m) = s
    BY <2>10 DEF Text
  <2> QED BY <2>1, <2>9, <2>10, <2>16, <2>17, Zenon DEF n
<1> QED BY <1>1, <1>2

\* What is put into the buffer is put there whole.
LEMMA ReplacedWhole ==
  ASSUME NEW text, Fits(text), replace_input_line(text)
  PROVE  INPUT_BUFFER' = text
<1>1. SubSeq(text, 1, Len(text)) = text
  BY DEF Fits, Text
<1>2. Len(text) \in Nat /\ Len(text) <= MAX_INPUT_LEN
  BY DEF Fits, Text
<1>3. (IF Len(text) < MAX_INPUT_LEN THEN Len(text) ELSE MAX_INPUT_LEN) = Len(text)
  BY <1>2, LineAssumption
<1> QED BY <1>1, <1>3, Zenon DEF replace_input_line

\* record adds a command at the end, after it made room at the front.
LEMMA RecordKeepsClean ==
  ASSUME NEW h \in [entries : Seq(Text), index : Nat, draft : Text], Clean(h.entries),
         NEW command, command = <<>> \/ Recordable(command)
  PROVE  /\ record(h, command) \in [entries : Seq(Text), index : {None}, draft : {<<>>}]
         /\ Clean(record(h, command).entries)
<1> DEFINE es == h.entries
           old == command = <<>> \/ (es # <<>> /\ es[Len(es)] = command)
           kept == IF Len(es) >= MAX_HISTORY_ENTRIES THEN Tail(es) ELSE es
           fs == Append(kept, command)
<1>0. <<>> \in Text
  BY DEF Text
<1>1. CASE old
  <2>1. record(h, command) = [h EXCEPT !.index = None, !.draft = <<>>]
    BY <1>1, Zenon DEF record, reset_navigation
  <2> QED BY <2>1, Zenon
<1>2. CASE ~old
  <2>1. record(h, command)
          = [[h EXCEPT !.entries = fs] EXCEPT !.index = None, !.draft = <<>>]
    BY <1>2, Zenon DEF record, reset_navigation
  <2>2. /\ es \in Seq(Text) /\ Len(es) \in Nat /\ Len(es) <= MAX_HISTORY_ENTRIES
        /\ \A i \in 1 .. Len(es) : Recordable(es[i])
        /\ \A i \in 2 .. Len(es) : es[i] # es[i - 1]
    BY DEF Clean
  <2>3. Recordable(command) /\ command \in Text
    BY <1>2 DEF Recordable, Fits
  <2>4. Len(es) > 0 => es[Len(es)] # command
    BY <1>2, <2>2
  <2> DEFINE k == Len(es) - Len(kept)
  <2>5. /\ kept \in Seq(Text) /\ Len(kept) \in Nat
        /\ Len(kept) + 1 <= MAX_HISTORY_ENTRIES
        /\ k \in {0, 1} /\ Len(es) = Len(kept) + k
        /\ \A i \in 1 .. Len(kept) : kept[i] = es[i + k]
    <3>1. CASE Len(es) >= MAX_HISTORY_ENTRIES
      <4>1. Len(es) > 0 /\ kept = Tail(es)
        BY <3>1, <2>2, LineAssumption
      <4>2. /\ Tail(es) \in Seq(Text) /\ Len(Tail(es)) = Len(es) - 1
            /\ \A i \in 1 .. Len(es) - 1 : Tail(es)[i] = es[i + 1]
        BY <4>1, <2>2
      <4>3. k = 1 /\ Len(es) - 1 \in Nat /\ Len(es) - 1 + 1 <= MAX_HISTORY_ENTRIES
            /\ Len(es) = Len(es) - 1 + 1
        BY <4>1, <4>2, <2>2, LineAssumption
      <4> QED BY <4>1, <4>2, <4>3, Zenon
    <3>2. CASE ~(Len(es) >= MAX_HISTORY_ENTRIES)
      BY <3>2, <2>2, LineAssumption
    <3> QED BY <3>1, <3>2, Zenon
  <2> HIDE DEF kept, k
  <2> DEFINE n == Len(kept)
  <2>6. /\ fs \in Seq(Text) /\ Len(fs) = n + 1 /\ fs[n + 1] = command
        /\ \A i \in 1 .. n : fs[i] = kept[i]
    BY <2>3, <2>5
  <2> HIDE DEF fs, es, n
  <2>7. n \in Nat /\ k \in 0 .. 1 /\ Len(es) = n + k
    BY <2>5 DEF n
  <2>8. \A i \in 1 .. n : fs[i] = es[i + k]
    BY <2>5, <2>6 DEF n
  <2>9. \A i \in 1 .. n + 1 : Recordable(fs[i])
    <3> TAKE i \in 1 .. n + 1
    <3>1. CASE i = n + 1
      BY <3>1, <2>3, <2>6
    <3>2. CASE i # n + 1
      <4>1. i \in 1 .. n /\ i + k \in 1 .. Len(es)
        BY <3>2, <2>7
      <4> QED BY <4>1, <2>2, <2>8
    <3> QED BY <3>1, <3>2
  <2>10. \A i \in 2 .. n + 1 : fs[i] # fs[i - 1]
    <3> TAKE i \in 2 .. n + 1
    <3>1. i - 1 \in 1 .. n /\ fs[i - 1] = es[i - 1 + k]
      BY <2>7, <2>8
    <3>2. CASE i = n + 1
      <4>1. Len(es) > 0 /\ i - 1 + k = Len(es)
        BY <3>1, <3>2, <2>7
      <4> QED BY <3>1, <3>2, <4>1, <2>4, <2>6
    <3>3. CASE i # n + 1
      <4> DEFINE j == i + k
      <4>1. i \in 1 .. n /\ j \in 2 .. Len(es) /\ j - 1 = i - 1 + k
        BY <3>3, <2>7
      <4>2. fs[i] = es[j]
        BY <4>1, <2>8
      <4> HIDE DEF j
      <4>3. es[j] # es[j - 1]
        BY <4>1, <2>2
      <4> QED BY <3>1, <4>1, <4>2, <4>3, Zenon
    <3> QED BY <3>2, <3>3
  <2>11. Clean(fs)
    BY <2>5, <2>6, <2>7, <2>9, <2>10 DEF Clean, n
  <2>12. fs \in Seq(Text)
    BY <2>6
  <2>13. /\ record(h, command) \in [entries : Seq(Text), index : {None}, draft : {<<>>}]
         /\ record(h, command).entries = fs
    BY <2>1, <2>12, Zenon
  <2> QED BY <2>11, <2>13
<1> QED BY <1>1, <1>2

----------------------------------------------------------------------------
(* The keys *)

HistoryType == [entries : Seq(Text), index : Nat, draft : Text]

\* The history g is h, moved to index i and with draft d.
MovedTo(h, g, i, d) ==
  g \in HistoryType /\ g.entries = h.entries /\ g.index = i /\ g.draft = d

\* The assignments of HistoryState change nothing but index and draft.
LEMMA Moved ==
  ASSUME NEW h \in HistoryType, NEW g, NEW i \in Nat, NEW d \in Text
  PROVE  /\ g = [h EXCEPT !.index = i] => MovedTo(h, g, i, h.draft)
         /\ g = [h EXCEPT !.index = i, !.draft = d] => MovedTo(h, g, i, d)
         /\ g = [h EXCEPT !.draft = d, !.index = i] => MovedTo(h, g, i, d)
BY Zenon DEF HistoryType, MovedTo

\* Leaving the history keeps its entries.
LEMMA ResetKeeps ==
  ASSUME LineInv, HISTORY' = reset_navigation(HISTORY), Fits(INPUT_BUFFER')
  PROVE  LineInv'
<1>1. <<>> \in Text /\ Len(<<>>) = 0 /\ Fits(<<>>)
  BY LineAssumption DEF Text, Fits
<1>2. HISTORY' = [HISTORY EXCEPT !.index = None, !.draft = <<>>]
  BY Zenon DEF reset_navigation
<1>3. /\ HISTORY \in HistoryType /\ Clean(HISTORY.entries) /\ Len(HISTORY.entries) \in Nat
  BY DEF LineInv, HistoryType
<1>4. MovedTo(HISTORY, HISTORY', None, <<>>)
  <2>1. None \in Nat
    BY DEF None
  <2> QED BY <2>1, <1>1, <1>2, <1>3, Moved, Zenon
<1>5. HISTORY'.index <= Len(HISTORY'.entries)
  BY <1>3, <1>4 DEF None, MovedTo
<1> QED BY <1>1, <1>3, <1>4, <1>5
    DEF LineInv, HistoryType, MovedTo, Fits, Clean, Recordable

\* What browsing shows fits into the buffer.
LEMMA EntriesFit ==
  ASSUME LineInv, NEW i \in 1 .. Len(HISTORY.entries)
  PROVE  Fits(HISTORY.entries[i])
BY Zenon DEF LineInv, Clean, Recordable

\* What Up shows: the newest entry first, then older ones.
LEMMA UpShows ==
  ASSUME LineInv, history_up, HISTORY.entries # <<>>
  PROVE  /\ HISTORY' \in HistoryType /\ HISTORY'.entries = HISTORY.entries
         /\ HISTORY'.index \in 1 .. Len(HISTORY.entries)
         /\ HISTORY'.draft = IF HISTORY.index = None THEN INPUT_BUFFER ELSE HISTORY.draft
         /\ before' = IF HISTORY.index = None THEN INPUT_BUFFER ELSE before
         /\ Fits(HISTORY.entries[HISTORY'.index])
         /\ replace_input_line(HISTORY.entries[HISTORY'.index])
<1> DEFINE h == HISTORY
           es == HISTORY.entries
<1>1. /\ HISTORY' = previous(HISTORY, INPUT_BUFFER)
      /\ before' = IF HISTORY.index = None THEN INPUT_BUFFER ELSE before
      /\ replace_input_line(es[HISTORY'.index])
  BY Zenon DEF history_up
<1>2. /\ h \in HistoryType /\ h.index <= Len(es) /\ es \in Seq(Text)
      /\ Len(es) \in Nat /\ Len(es) # 0 /\ INPUT_BUFFER \in Text
  BY DEF LineInv, HistoryType, Fits
<1>3. /\ HISTORY' \in HistoryType /\ HISTORY'.entries = es
      /\ HISTORY'.index \in 1 .. Len(es)
      /\ HISTORY'.draft = IF h.index = None THEN INPUT_BUFFER ELSE h.draft
  <2>1. CASE h.index = None
    <3>1. HISTORY' = [h EXCEPT !.draft = INPUT_BUFFER, !.index = Len(es)]
      BY <1>1, <2>1 DEF previous, None
    <3>2. MovedTo(h, HISTORY', Len(es), INPUT_BUFFER)
      BY <1>2, <3>1, Moved, Zenon
    <3> QED BY <1>2, <2>1, <3>2 DEF MovedTo
  <2>2. CASE h.index = 1
    <3>1. HISTORY' = h /\ h.index # None
      BY <1>1, <2>2 DEF previous, None
    <3> QED BY <1>2, <2>2, <3>1 DEF HistoryType
  <2>3. CASE h.index > 1
    <3>1. h.index # None /\ h.index # 1 /\ h.index \in Nat
      BY <1>2, <2>3 DEF HistoryType, None
    <3>2. HISTORY' = [h EXCEPT !.index = h.index - 1]
      BY <1>1, <2>3, <3>1 DEF previous, None
    <3>3. h.index - 1 \in 1 .. Len(es)
      BY <1>2, <2>3, <3>1
    <3>4. h.index - 1 \in Nat
      BY <2>3, <3>1
    <3>5. MovedTo(h, HISTORY', h.index - 1, h.draft)
      BY <1>2, <3>2, <3>4, Moved, Zenon
    <3> QED BY <3>1, <3>3, <3>5, Zenon DEF MovedTo
  <2> QED BY <1>2, <2>1, <2>2, <2>3 DEF HistoryType, None
<1>4. Fits(es[HISTORY'.index])
  BY <1>3, EntriesFit
<1> QED BY <1>1, <1>3, <1>4, Zenon

\* history_up saves the line once and then only moves.
LEMMA UpKeeps ==
  ASSUME LineInv, history_up
  PROVE  LineInv'
<1> DEFINE es == HISTORY.entries
<1>1. CASE es = <<>>
  <2>1. UNCHANGED <<INPUT_BUFFER, HISTORY, before>>
    BY <1>1 DEF history_up
  <2> QED BY <2>1 DEF LineInv, Fits, Clean, Recordable
<1>2. CASE es # <<>>
  <2>1. INPUT_BUFFER' = es[HISTORY'.index] /\ Fits(es[HISTORY'.index])
    BY <1>2, UpShows, ReplacedWhole, Zenon
  <2>2. Fits(HISTORY'.draft) /\ HISTORY'.draft = before'
    BY <1>2, UpShows DEF LineInv
  <2>3. /\ HISTORY' \in HistoryType /\ HISTORY'.entries = es
        /\ HISTORY'.index \in 1 .. Len(es)
    BY <1>2, UpShows, Zenon
  <2>4. Clean(es) /\ HISTORY'.index \in Nat /\ HISTORY'.index <= Len(es)
    BY <2>3 DEF LineInv
  <2> QED BY <2>1, <2>2, <2>3, <2>4 DEF LineInv, HistoryType, Fits, Clean, Recordable
<1> QED BY <1>1, <1>2

\* What Down shows: the next entry, or past the newest one the draft.
LEMMA DownShows ==
  ASSUME LineInv, history_down, HISTORY.index # None
  PROVE  /\ HISTORY' \in HistoryType /\ HISTORY'.entries = HISTORY.entries
         /\ HISTORY'.draft = HISTORY.draft
         /\ HISTORY'.index \in 0 .. Len(HISTORY.entries)
         /\ Fits(INPUT_BUFFER')
         /\ INPUT_BUFFER' = IF HISTORY'.index = None THEN HISTORY.draft
                            ELSE HISTORY.entries[HISTORY'.index]
<1> DEFINE h == HISTORY
           es == HISTORY.entries
           shown == IF HISTORY'.index = None THEN h.draft ELSE es[HISTORY'.index]
<1>1. HISTORY' = next(HISTORY) /\ replace_input_line(shown)
  BY DEF history_down
<1>2. /\ h \in HistoryType /\ h.index <= Len(es) /\ es \in Seq(Text)
      /\ Len(es) \in Nat /\ Fits(h.draft) /\ h.index \in Nat
  BY DEF LineInv, HistoryType
<1>3. HISTORY' = [h EXCEPT !.index = IF h.index < Len(es) THEN h.index + 1 ELSE None]
  BY <1>1 DEF next
<1>4. (IF h.index < Len(es) THEN h.index + 1 ELSE None) \in 0 .. Len(es)
  BY <1>2 DEF None
<1>5. /\ HISTORY' \in HistoryType /\ HISTORY'.entries = es
      /\ HISTORY'.draft = h.draft
      /\ HISTORY'.index \in 0 .. Len(es)
  BY <1>2, <1>3, <1>4 DEF HistoryType
<1>6. Fits(shown)
  <2>1. CASE HISTORY'.index = None
    BY <2>1, <1>2
  <2>2. CASE HISTORY'.index # None
    <3>1. HISTORY'.index \in 1 .. Len(es)
      BY <2>2, <1>2, <1>5 DEF None
    <3> QED BY <2>2, <3>1, EntriesFit
  <2> QED BY <2>1, <2>2
<1> HIDE DEF shown
<1>7. INPUT_BUFFER' = shown
  BY <1>1, <1>6, ReplacedWhole
<1> QED BY <1>5, <1>6, <1>7 DEF shown

\* history_down keeps the draft while it moves, and drops it with the index.
LEMMA DownKeeps ==
  ASSUME LineInv, history_down
  PROVE  LineInv'
<1>1. CASE HISTORY.index = None
  <2>1. UNCHANGED <<INPUT_BUFFER, HISTORY>>
    BY <1>1 DEF history_down
  <2> QED BY <1>1, <2>1 DEF LineInv, Fits, Clean, Recordable
<1>2. CASE HISTORY.index # None
  <2>1. before' = IF HISTORY'.index = None THEN <<>> ELSE before
    BY DEF history_down, Forget
  <2>2. HISTORY'.index \in Nat /\ HISTORY'.index <= Len(HISTORY.entries)
    BY <1>2, DownShows DEF LineInv
  <2>3. HISTORY.draft = before /\ Clean(HISTORY.entries) /\ Fits(HISTORY.draft)
    BY <1>2 DEF LineInv
  <2> QED BY <1>2, <2>1, <2>2, <2>3, DownShows
      DEF LineInv, HistoryType, Fits, Clean, Recordable
<1> QED BY <1>1, <1>2

\* push_char(8) shortens the line and leaves the history.
LEMMA BackspaceKeeps ==
  ASSUME LineInv, push_char_backspace
  PROVE  LineInv'
<1>1. Fits(INPUT_BUFFER')
  <2>1. CASE INPUT_BUFFER = <<>> /\ UNCHANGED <<INPUT_BUFFER, todo>>
    BY <2>1 DEF LineInv, Fits
  <2>2. CASE INPUT_BUFFER # <<>> /\ INPUT_BUFFER' = SubSeq(INPUT_BUFFER, 1, Len(INPUT_BUFFER) - 1)
    <3>1. /\ INPUT_BUFFER \in Seq(Keys) /\ Len(INPUT_BUFFER) \in Nat
          /\ Len(INPUT_BUFFER) <= MAX_INPUT_LEN /\ Len(INPUT_BUFFER) # 0
      BY <2>2 DEF LineInv, Fits, Text
    <3> DEFINE front == SubSeq(INPUT_BUFFER, 1, Len(INPUT_BUFFER) - 1)
    <3>2. front \in Seq(Keys) /\ Len(front) = Len(INPUT_BUFFER) - 1
      <4> DEFINE n == Len(INPUT_BUFFER) - 1
      <4>1. n \in Nat /\ n <= Len(INPUT_BUFFER)
        BY <3>1
      <4> HIDE DEF n
      <4>2. \A i \in 1 .. n : INPUT_BUFFER[i] \in Keys
        BY <3>1, <4>1
      <4>3. SubSeq(INPUT_BUFFER, 1, n) \in Seq(Keys) /\ Len(SubSeq(INPUT_BUFFER, 1, n)) = n
        BY <3>1, <4>1, <4>2
      <4> QED BY <4>3 DEF n
    <3> HIDE DEF front
    <3>3. Len(front) <= MAX_INPUT_LEN
      BY <3>1, <3>2, LineAssumption
    <3> QED BY <2>2, <3>2, <3>3, Zenon DEF front, Fits, Text
  <2> QED BY <2>1, <2>2 DEF push_char_backspace
<1>2. HISTORY' = reset_navigation(HISTORY)
  BY DEF push_char_backspace
<1> QED BY <1>1, <1>2, ResetKeeps

\* push_char stops at the end of the buffer; only a character that went in
\* leaves the history.
LEMMA CharKeeps ==
  ASSUME LineInv, NEW c \in Keys, NEW n \in Nat, push_char(c, n)
  PROVE  LineInv'
<1> DEFINE room == MAX_INPUT_LEN - Len(INPUT_BUFFER)
           k == IF n < room THEN n ELSE room
           pushed == Repeat(c, k)
<1>1. /\ INPUT_BUFFER \in Seq(Keys) /\ Len(INPUT_BUFFER) \in Nat
      /\ Len(INPUT_BUFFER) <= MAX_INPUT_LEN
  BY DEF LineInv, Fits, Text
<1>2. k \in Nat /\ Len(INPUT_BUFFER) + k <= MAX_INPUT_LEN
  BY <1>1, LineAssumption
<1>3. /\ INPUT_BUFFER' = INPUT_BUFFER \o pushed
      /\ HISTORY' = IF pushed = <<>> THEN HISTORY ELSE reset_navigation(HISTORY)
      /\ before' = IF HISTORY'.index = None THEN <<>> ELSE before
  BY Zenon DEF push_char, Forget
<1> HIDE DEF k
<1>4. pushed \in Seq(Keys) /\ Len(pushed) = k
  BY <1>2 DEF Repeat
<1> HIDE DEF pushed
<1>5. Fits(INPUT_BUFFER')
  <2> DEFINE longer == INPUT_BUFFER \o pushed
  <2>1. longer \in Seq(Keys) /\ Len(longer) = Len(INPUT_BUFFER) + Len(pushed)
    BY <1>1, <1>4
  <2> HIDE DEF longer
  <2>2. Len(longer) <= MAX_INPUT_LEN
    BY <2>1, <1>2, <1>4
  <2> QED BY <1>3, <2>1, <2>2, Zenon DEF longer, Fits, Text
<1>6. CASE pushed # <<>>
  BY <1>3, <1>5, <1>6, ResetKeeps
<1>7. CASE pushed = <<>>
  <2>1. HISTORY' = HISTORY /\ INPUT_BUFFER' = INPUT_BUFFER
    BY <1>1, <1>3, <1>7
  <2> QED BY <1>3, <2>1 DEF LineInv, Fits, Clean, Recordable
<1> QED BY <1>6, <1>7

\* push_char(10) records the trimmed line and empties the buffer.
LEMMA NewlineKeeps ==
  ASSUME LineInv, push_char_newline
  PROVE  LineInv'
<1> DEFINE command_line == trim(INPUT_BUFFER)
<1>1. HISTORY' = record(HISTORY, command_line) /\ INPUT_BUFFER' = <<>>
  BY Zenon DEF push_char_newline
<1>2. /\ INPUT_BUFFER \in Text /\ Len(INPUT_BUFFER) \in Nat
      /\ Len(INPUT_BUFFER) <= MAX_INPUT_LEN
  BY DEF LineInv, Fits, Text
<1>3. /\ command_line \in Text /\ Len(command_line) <= Len(INPUT_BUFFER)
      /\ trim(command_line) = command_line
  BY <1>2, TrimTrims
<1> HIDE DEF command_line
<1>4. Len(command_line) \in Nat
  BY <1>3 DEF Text
<1>5. Fits(command_line)
  BY <1>2, <1>3, <1>4, LineAssumption DEF Fits
<1>6. command_line = <<>> \/ Recordable(command_line)
  BY <1>3, <1>5 DEF Recordable
<1>7. HISTORY \in [entries : Seq(Text), index : Nat, draft : Text] /\ Clean(HISTORY.entries)
  BY DEF LineInv
<1>8. /\ HISTORY' \in [entries : Seq(Text), index : {None}, draft : {<<>>}]
      /\ Clean(HISTORY'.entries)
  BY <1>1, <1>6, <1>7, RecordKeepsClean
<1>9. <<>> \in Text /\ Len(<<>>) = 0 /\ Fits(<<>>)
  BY LineAssumption DEF Text, Fits
<1>10. /\ HISTORY' \in [entries : Seq(Text), index : Nat, draft : Text]
       /\ HISTORY'.index = None /\ HISTORY'.draft = <<>>
       /\ HISTORY'.index <= Len(HISTORY'.entries)
  BY <1>8, <1>9 DEF None
<1> QED BY <1>1, <1>8, <1>9, <1>10 DEF LineInv, Fits, Clean, Recordable

----------------------------------------------------------------------------
(* Theorems *)

\* The line and the history begin empty.
LEMMA InitLine == Init => LineInv
<1> SUFFICES ASSUME Init PROVE LineInv
  OBVIOUS
<1>1. <<>> \in Text /\ Len(<<>>) = 0 /\ Fits(<<>>)
  BY LineAssumption DEF Text, Fits
<1>2. <<>> \in Seq(Text) /\ Clean(<<>>)
  BY LineAssumption DEF Clean
<1>3. /\ INPUT_BUFFER = <<>>
      /\ HISTORY = [entries |-> <<>>, index |-> None, draft |-> <<>>]
  BY DEF Init
<1> QED BY <1>1, <1>2, <1>3 DEF LineInv, None

\* Every key keeps the invariant, and printing does not touch what it is about.
LEMMA NextKeepsLine == LineInv /\ [Next]_vars => LineInv'
<1> SUFFICES ASSUME LineInv, [Next]_vars PROVE LineInv'
  OBVIOUS
<1>1. CASE \E c \in Keys : push_char(c, 1)
  BY <1>1, CharKeeps
<1>2. CASE push_char(" ", 4)
  <2>1. " " \in Keys
    BY TextAssumption, Zenon
  <2>2. 4 \in Nat
    OBVIOUS
  <2> QED BY <1>2, <2>1, <2>2, CharKeeps, Zenon
<1>3. CASE _print \/ syscall_print \/ UNCHANGED vars
  <2>1. UNCHANGED <<INPUT_BUFFER, HISTORY, before>>
    BY <1>3 DEF _print, syscall_print, vars
  <2> QED BY <2>1 DEF LineInv, Fits, Clean, Recordable
<1> QED BY <1>1, <1>2, <1>3, UpKeeps, DownKeeps, BackspaceKeeps, NewlineKeeps DEF Next

\* LineInv holds in every state of the line editor.
THEOREM LineInductive == Spec => []LineInv
BY InitLine, NextKeepsLine, PTL DEF Spec

\* HistoryState::record, with trim in evaluate_command and the removal of the
\* oldest entry: the history stays clean over every sequence of keys.
THEOREM HistoryStaysClean == Spec => []HistoryIsClean
<1>1. LineInv => HistoryIsClean
  <2> SUFFICES ASSUME LineInv PROVE HistoryIsClean
    OBVIOUS
  <2> DEFINE es == HISTORY.entries
  <2>1. /\ es \in Seq(Text) /\ Len(es) <= MAX_HISTORY_ENTRIES
        /\ \A i \in 1 .. Len(es) : es[i] # <<>> /\ trim(es[i]) = es[i]
        /\ \A i \in 2 .. Len(es) : es[i] # es[i - 1]
    BY DEF LineInv, Clean, Recordable
  <2>2. DOMAIN es = 1 .. Len(es) /\ Len(es) \in Nat
    BY <2>1
  <2>3. \A i \in 1 .. Len(es) : i > 1 => i \in 2 .. Len(es)
    BY <2>2
  <2> QED BY <2>1, <2>2, <2>3, Zenon DEF HistoryIsClean
<1> QED BY <1>1, LineInductive, PTL

\* history_up and history_down show the entry HISTORY.index points at, and every
\* key that changes the buffer leaves the history.
THEOREM BrowsingIsFaithful == Spec => []BrowsingShowsEntry
<1>1. LineInv => BrowsingShowsEntry
  BY DEF LineInv, BrowsingShowsEntry
<1> QED BY <1>1, LineInductive, PTL

\* HistoryState keeps the draft while the user moves up and down, and
\* history_down puts it back whole.
THEOREM DraftIsKept == Spec => DraftComesBack
<1>1. LineInv /\ [Next]_vars
        => [history_down /\ HISTORY.index # None /\ HISTORY'.index = None
              => INPUT_BUFFER' = before]_vars
  <2> SUFFICES ASSUME LineInv, history_down, HISTORY.index # None, HISTORY'.index = None
               PROVE  INPUT_BUFFER' = before
    OBVIOUS
  <2>1. INPUT_BUFFER' = HISTORY.draft
    BY DownShows
  <2> QED BY <2>1 DEF LineInv
<1> QED BY <1>1, LineInductive, PTL DEF Spec, DraftComesBack


-----------------------------------------------------------------------------
(* The screen *)

Cell == Printable \cup {"?", "box"}
Row == [Columns -> Cell]
Screen == [chars : [1 .. BUFFER_HEIGHT -> Row], column_position : 0 .. BUFFER_WIDTH, cursor : Nat]

Blank == " "

\* A blank row is a row of blanks.
LEMMA BlankIsRow ==
  Blank \in Cell /\ BlankRow \in Row /\ \A col \in Columns : BlankRow[col] = Blank
BY PrintableAssumption, Zenon DEF Blank, BlankRow, Row, Cell

\* new_line moves every row up and blanks the last one.
LEMMA NewLine ==
  ASSUME NEW w \in Screen
  PROVE  /\ new_line(w) \in Screen
         /\ new_line(w).column_position = 0
         /\ new_line(w).chars[BUFFER_HEIGHT] = BlankRow
         /\ \A row \in 1 .. BUFFER_HEIGHT - 1 : new_line(w).chars[row] = w.chars[row + 1]
<1> DEFINE H == BUFFER_HEIGHT
           cs == w.chars
           ds == Append(Tail(cs), BlankRow)
<1>1. H \in Nat /\ H >= 1 /\ cs \in [1 .. H -> Row] /\ BlankRow \in Row
  BY ScreenAssumption, BlankIsRow DEF Screen
<1>2. cs \in Seq(Row) /\ Len(cs) = H
  BY <1>1
<1>3. /\ Tail(cs) \in Seq(Row) /\ Len(Tail(cs)) = H - 1
      /\ \A row \in 1 .. H - 1 : Tail(cs)[row] = cs[row + 1]
  BY <1>1, <1>2
<1>4. /\ ds \in Seq(Row) /\ Len(ds) = H /\ ds[H] = BlankRow
      /\ \A row \in 1 .. H - 1 : ds[row] = cs[row + 1]
  BY <1>1, <1>3
<1> HIDE DEF ds
<1>5. ds \in [1 .. H -> Row]
  BY <1>1, <1>4
<1> USE DEF ds
<1>6. new_line(w) = [w EXCEPT !.chars = ds, !.column_position = 0]
  BY Zenon DEF new_line
<1>7. 0 \in 0 .. BUFFER_WIDTH
  BY ScreenAssumption
<1> HIDE DEF ds
<1>8. /\ new_line(w) \in Screen /\ new_line(w).chars = ds
      /\ new_line(w).column_position = 0
  BY <1>5, <1>6, <1>7, Zenon DEF Screen
<1> QED BY <1>4, <1>8 DEF H

\* Writing byte into the last row at the column.
Put(w, v, byte) ==
  /\ v \in Screen
  /\ v.column_position = w.column_position + 1
  /\ \A row \in 1 .. BUFFER_HEIGHT - 1 : v.chars[row] = w.chars[row]
  /\ \A col \in Columns :
       v.chars[BUFFER_HEIGHT][col] =
         IF col = w.column_position + 1 THEN byte ELSE w.chars[BUFFER_HEIGHT][col]

\* The part of write_byte after the row was made free.
LEMMA Written ==
  ASSUME NEW w \in Screen, w.column_position < BUFFER_WIDTH, NEW byte \in Cell
  PROVE  Put(w, [w EXCEPT !.chars[BUFFER_HEIGHT][w.column_position + 1] = byte,
                          !.column_position = @ + 1], byte)
<1> DEFINE H == BUFFER_HEIGHT
           c == w.column_position + 1
           cs == w.chars
           r == [cs[H] EXCEPT ![c] = byte]
           ds == [cs EXCEPT ![H] = r]
           v == [w EXCEPT !.chars = ds, !.column_position = c]
<1>1. H \in 1 .. H /\ cs \in [1 .. H -> Row] /\ cs[H] \in Row
  BY ScreenAssumption DEF Screen
<1>2. c \in Columns /\ c \in 0 .. BUFFER_WIDTH
  BY ScreenAssumption DEF Screen, Columns
<1>3. r \in Row /\ \A col \in Columns : r[col] = IF col = c THEN byte ELSE cs[H][col]
  BY <1>1, <1>2 DEF Row
<1> HIDE DEF r
<1>4. /\ ds \in [1 .. H -> Row] /\ ds[H] = r
      /\ \A row \in 1 .. H - 1 : ds[row] = cs[row]
  BY <1>1, <1>3, ScreenAssumption
<1> HIDE DEF ds
<1>5. v \in Screen /\ v.chars = ds /\ v.column_position = c
  BY <1>2, <1>4, Zenon DEF Screen
<1>6. [w EXCEPT !.chars[H][w.column_position + 1] = byte, !.column_position = @ + 1] = v
  BY Zenon DEF Screen, ds, r
<1> HIDE DEF v
<1> QED BY <1>3, <1>4, <1>5, <1>6, Zenon DEF Put

-----------------------------------------------------------------------------
(* What the screen shows of a text *)

LastLine(w) == w.chars[BUFFER_HEIGHT]

\* The last row shows the end of the text T, and nothing else.
Shown(w, T) ==
  /\ w.column_position <= Len(T)
  /\ \A col \in Columns :
       LastLine(w)[col] = IF col <= w.column_position
                          THEN T[Len(T) - w.column_position + col] ELSE Blank

\* The text T is on the screen from its first character on: it fills some rows and
\* begins the last one.
InRows(w, T, full) ==
  /\ full \in 0 .. BUFFER_HEIGHT - 1
  /\ Len(T) = full * BUFFER_WIDTH + w.column_position
  /\ \A row \in 0 .. full, col \in Columns :
       row * BUFFER_WIDTH + col <= Len(T) =>
         T[row * BUFFER_WIDTH + col] = w.chars[BUFFER_HEIGHT - full + row][col]

Whole(w, T) == \E full : InRows(w, T, full)

\* A row ends before a later one begins.
LEMMA RowsApart ==
  ASSUME NEW W \in Nat, NEW a \in Nat, NEW b \in Nat, a < b
  PROVE  a * W + W <= b * W /\ a * W \in Nat /\ b * W \in Nat
<1>1. PICK d \in Nat : b = a + 1 + d
  <2>1. b - a - 1 \in Nat /\ b = a + 1 + (b - a - 1)
    OBVIOUS
  <2> QED BY <2>1
<1>2. b * W = a * W + W + d * W
  BY <1>1
<1>3. d * W \in Nat /\ a * W \in Nat
  OBVIOUS
<1> QED BY <1>2, <1>3

\* One more character, in a row that has room.
LEMMA GoesOn ==
  ASSUME NEW w \in Screen, w.column_position < BUFFER_WIDTH, NEW T \in Seq(Printable),
         NEW b \in Printable, NEW u, Put(w, u, b)
  PROVE  /\ Shown(w, T) => Shown(u, Append(T, b))
         /\ Whole(w, T) => Whole(u, Append(T, b))
<1> DEFINE W == BUFFER_WIDTH
           H == BUFFER_HEIGHT
           n == Len(T)
           k == w.column_position
           S == Append(T, b)
<1>1. W \in Nat /\ H \in Nat /\ W > 0 /\ H > 0 /\ n \in Nat /\ k \in 0 .. W - 1
  BY ScreenAssumption DEF Screen
<1>2. Len(S) = n + 1 /\ S[n + 1] = b /\ \A i \in 1 .. n : S[i] = T[i]
  OBVIOUS
<1>3. /\ u.column_position = k + 1
      /\ \A row \in 1 .. H - 1 : u.chars[row] = w.chars[row]
      /\ \A col \in 1 .. W : u.chars[H][col] = IF col = k + 1 THEN b ELSE w.chars[H][col]
  BY DEF Put, Columns
<1> HIDE DEF S, n, k, W, H
<1>4. ASSUME Shown(w, T) PROVE Shown(u, S)
  <2>1. k <= n /\ \A col \in 1 .. W : w.chars[H][col] = IF col <= k THEN T[n - k + col] ELSE Blank
    BY <1>4 DEF Shown, LastLine, Columns, W, H, n, k
  <2> DEFINE m == u.column_position
             l == Len(S)
  <2>2. m = k + 1 /\ l = n + 1
    BY <1>2, <1>3
  <2> HIDE DEF m, l
  <2>3. ASSUME NEW col \in 1 .. W
        PROVE  u.chars[H][col] = IF col <= m THEN S[l - m + col] ELSE Blank
    <3>1. l - m + col = n - k + col
      BY <1>1, <2>2
    <3>2. CASE col <= k
      <4>1. n - k + col \in 1 .. n /\ col <= m /\ col # k + 1
        BY <1>1, <2>1, <2>2, <3>2
      <4>2. S[n - k + col] = T[n - k + col]
        BY <1>2, <4>1, Zenon
      <4>3. u.chars[H][col] = w.chars[H][col]
        BY <1>3, <4>1, Zenon
      <4>4. w.chars[H][col] = T[n - k + col]
        BY <2>1, <3>2, Zenon
      <4> QED BY <3>1, <4>1, <4>2, <4>3, <4>4, Zenon
    <3>3. CASE col = k + 1
      <4>1. n - k + col = n + 1 /\ col <= m
        BY <1>1, <2>2, <3>3
      <4> QED BY <1>2, <1>3, <3>1, <3>3, <4>1, Zenon
    <3>4. CASE col > k + 1
      <4>1. ~(col <= k) /\ ~(col <= m) /\ col # k + 1
        BY <1>1, <2>2, <3>4
      <4> QED BY <1>3, <2>1, <4>1, Zenon
    <3> QED BY <1>1, <3>2, <3>3, <3>4
  <2>4. m <= l
    BY <1>1, <2>1, <2>2
  <2> QED BY <2>3, <2>4, Zenon DEF Shown, LastLine, Columns, W, H, m, l
<1>5. ASSUME NEW full, InRows(w, T, full) PROVE InRows(u, S, full)
  <2>1. /\ full \in 0 .. H - 1 /\ n = full * W + k
        /\ \A row \in 0 .. full, col \in 1 .. W :
             row * W + col <= n => T[row * W + col] = w.chars[H - full + row][col]
    BY <1>5 DEF InRows, Columns, W, H, n, k
  <2>2. full \in Nat /\ full * W \in Nat
    BY <1>1, <2>1
  <2>3. ASSUME NEW row \in 0 .. full, NEW col \in 1 .. W, row * W + col <= n + 1
        PROVE  S[row * W + col] = u.chars[H - full + row][col]
    <3> DEFINE i == row * W + col
    <3>0. row * W \in Nat /\ i \in Nat /\ i >= 1
      BY <1>1
    <3>1. CASE row < full
      <4>1. row * W + W <= full * W
        BY <1>1, <2>2, <3>1, RowsApart
      <4>2. i <= n
        BY <1>1, <2>1, <2>2, <3>0, <4>1
      <4>3. H - full + row \in 1 .. H - 1
        BY <1>1, <2>1, <3>1
      <4>4. S[i] = T[i] /\ T[i] = w.chars[H - full + row][col]
        BY <1>2, <2>1, <3>0, <4>2
      <4> QED BY <1>3, <4>3, <4>4
    <3>2. CASE row = full
      <4>1. H - full + row = H /\ i = full * W + col
        BY <1>1, <2>1, <3>2
      <4>2. CASE col = k + 1
        <5>1. i = n + 1
          BY <1>1, <2>1, <2>2, <4>1, <4>2
        <5> HIDE DEF i
        <5> QED BY <1>2, <1>3, <4>1, <4>2, <5>1 DEF i
      <4>3. CASE col # k + 1
        <5>1. i <= n
          BY <1>1, <2>1, <2>2, <2>3, <4>1, <4>3
        <5>2. S[i] = T[i] /\ T[i] = w.chars[H][col]
          BY <1>2, <2>1, <3>0, <4>1, <5>1
        <5> QED BY <1>3, <4>1, <4>3, <5>2
      <4> QED BY <4>2, <4>3
    <3> QED BY <2>1, <3>1, <3>2
  <2>4. n + 1 = full * W + (k + 1)
    BY <1>1, <2>1, <2>2
  <2> QED BY <1>2, <1>3, <2>1, <2>3, <2>4 DEF InRows, Columns, W, H
<1> QED BY <1>4, <1>5 DEF Whole, S

\* One more character after a full row: the text scrolls up.
LEMMA GoesOnBelow ==
  ASSUME NEW w \in Screen, w.column_position = BUFFER_WIDTH, NEW T \in Seq(Printable),
         NEW b \in Printable, NEW u, Put(new_line(w), u, b)
  PROVE  /\ Shown(u, Append(T, b))
         /\ Whole(w, T) /\ Len(T) < BUFFER_HEIGHT * BUFFER_WIDTH => Whole(u, Append(T, b))
<1> DEFINE W == BUFFER_WIDTH
           H == BUFFER_HEIGHT
           n == Len(T)
           S == Append(T, b)
<1>1. W \in Nat /\ H \in Nat /\ W > 0 /\ H > 0 /\ n \in Nat
  BY ScreenAssumption
<1>2. Len(S) = n + 1 /\ S[n + 1] = b /\ \A i \in 1 .. n : S[i] = T[i]
  OBVIOUS
<1>3. /\ u.column_position = 1
      /\ \A row \in 1 .. H - 1 : u.chars[row] = w.chars[row + 1]
      /\ \A col \in 1 .. W : u.chars[H][col] = IF col = 1 THEN b ELSE Blank
  <2>1. /\ u.column_position = 0 + 1
        /\ \A row \in 1 .. H - 1 : u.chars[row] = w.chars[row + 1]
        /\ \A col \in Columns : u.chars[H][col] = IF col = 0 + 1 THEN b ELSE BlankRow[col]
    BY NewLine, Zenon DEF Put
  <2> QED BY <2>1, BlankIsRow DEF Columns
<1> HIDE DEF S, n, W, H
<1>4. Shown(u, S)
  <2> DEFINE m == u.column_position
             l == Len(S)
  <2>1. m = 1 /\ l = n + 1
    BY <1>2, <1>3
  <2> HIDE DEF m, l
  <2>2. ASSUME NEW col \in 1 .. W
        PROVE  u.chars[H][col] = IF col <= m THEN S[l - m + col] ELSE Blank
    <3>1. CASE col = 1
      <4>1. l - m + col = n + 1 /\ col <= m
        BY <1>1, <2>1, <3>1
      <4> QED BY <1>2, <1>3, <3>1, <4>1, Zenon
    <3>2. CASE col # 1
      <4>1. ~(col <= m)
        BY <1>1, <2>1, <3>2
      <4> QED BY <1>3, <3>2, <4>1, Zenon
    <3> QED BY <3>1, <3>2
  <2>3. m <= l
    BY <1>1, <2>1
  <2> QED BY <2>2, <2>3, Zenon DEF Shown, LastLine, Columns, W, H, m, l
<1>5. ASSUME n < H * W, NEW full, InRows(w, T, full) PROVE InRows(u, S, full + 1)
  <2>1. /\ full \in 0 .. H - 1 /\ n = full * W + W
        /\ \A row \in 0 .. full, col \in 1 .. W :
             row * W + col <= n => T[row * W + col] = w.chars[H - full + row][col]
    BY <1>5 DEF InRows, Columns, W, H, n
  <2>2. full \in Nat /\ full * W \in Nat /\ (full + 1) * W = full * W + W
    BY <1>1, <2>1
  <2>3. full + 1 \in 0 .. H - 1
    <3>1. full + 1 # H
      BY <1>1, <1>5, <2>1, <2>2
    <3> QED BY <1>1, <2>1, <3>1
  <2>4. ASSUME NEW row \in 0 .. full + 1, NEW col \in 1 .. W, row * W + col <= n + 1
        PROVE  S[row * W + col] = u.chars[H - (full + 1) + row][col]
    <3> DEFINE i == row * W + col
    <3>0. row * W \in Nat /\ i \in Nat /\ i >= 1
      BY <1>1
    <3>1. CASE row \in 0 .. full
      <4>1. row * W + W <= (full + 1) * W
        BY <1>1, <2>2, <3>1, RowsApart
      <4>2. i <= n
        BY <1>1, <2>1, <2>2, <3>0, <4>1
      <4>3. H - (full + 1) + row \in 1 .. H - 1 /\ H - (full + 1) + row + 1 = H - full + row
        BY <1>1, <2>1, <2>3, <3>1
      <4>4. S[i] = T[i] /\ T[i] = w.chars[H - full + row][col]
        BY <1>2, <2>1, <3>0, <3>1, <4>2
      <4> HIDE DEF i
      <4> QED BY <1>3, <4>3, <4>4 DEF i
    <3>2. CASE row = full + 1
      <4>1. H - (full + 1) + row = H /\ i = n + col
        BY <1>1, <2>1, <2>2, <3>2
      <4>2. col = 1
        BY <1>1, <2>4, <4>1
      <4>3. i = n + 1
        BY <4>1, <4>2
      <4> HIDE DEF i
      <4> QED BY <1>1, <1>2, <1>3, <4>1, <4>2, <4>3, Zenon DEF i
    <3> QED BY <2>1, <3>1, <3>2
  <2>5. n + 1 = (full + 1) * W + 1
    BY <1>1, <2>1, <2>2
  <2> QED BY <1>2, <1>3, <2>3, <2>4, <2>5, Zenon DEF InRows, Columns, W, H
<1> QED BY <1>4, <1>5, Zenon DEF Whole, S, n, W, H

\* A character goes to the last row; if that is full, to a new one.
LEMMA ByteWritten ==
  ASSUME NEW w \in Screen, NEW b \in Cell, b # "LF"
  PROVE  \/ w.column_position < BUFFER_WIDTH /\ Put(w, write_byte(w, b), b)
         \/ w.column_position = BUFFER_WIDTH /\ Put(new_line(w), write_byte(w, b), b)
<1> DEFINE v == IF w.column_position >= BUFFER_WIDTH THEN new_line(w) ELSE w
           u == [v EXCEPT !.chars[BUFFER_HEIGHT][v.column_position + 1] = b,
                          !.column_position = @ + 1]
<1>1. write_byte(w, b) = u
  BY Zenon DEF write_byte
<1>2. w.column_position \in 0 .. BUFFER_WIDTH /\ BUFFER_WIDTH \in Nat \ {0}
  BY ScreenAssumption DEF Screen
<1>3. CASE w.column_position < BUFFER_WIDTH
  <2>1. v = w
    BY <1>2, <1>3
  <2>2. Put(w, u, b)
    BY <1>3, <2>1, Written, Zenon
  <2> QED BY <1>1, <1>3, <2>2, Zenon
<1>4. CASE w.column_position = BUFFER_WIDTH
  <2>1. v = new_line(w) /\ 0 < BUFFER_WIDTH
    BY <1>2, <1>4
  <2>2. v \in Screen /\ v.column_position < BUFFER_WIDTH
    BY <2>1, NewLine
  <2>3. Put(v, u, b)
    BY <2>2, Written, Zenon
  <2> QED BY <1>1, <1>4, <2>1, <2>3, Zenon
<1> QED BY <1>2, <1>3, <1>4

\* Printing a character after a text shows the longer text.
LEMMA TypeShown ==
  ASSUME NEW w \in Screen, NEW T \in Seq(Printable), Shown(w, T), NEW b \in Printable
  PROVE  /\ put(w, b) \in Screen /\ Shown(put(w, b), Append(T, b))
         /\ Whole(w, T) /\ Len(T) < BUFFER_HEIGHT * BUFFER_WIDTH
              => Whole(put(w, b), Append(T, b))
<1>1. b # "BS" /\ b # "LF" /\ b \in Cell
  BY PrintableAssumption, Zenon DEF Cell
<1>2. put(w, b) = write_byte(w, b)
  BY <1>1, Zenon DEF put
<1>3. CASE w.column_position < BUFFER_WIDTH /\ Put(w, put(w, b), b)
  <2>1. put(w, b) \in Screen
    BY <1>3, Zenon DEF Put
  <2> QED BY <1>3, <2>1, GoesOn, Zenon
<1>4. CASE w.column_position = BUFFER_WIDTH /\ Put(new_line(w), put(w, b), b)
  <2>1. put(w, b) \in Screen
    BY <1>4, Zenon DEF Put
  <2> QED BY <1>4, <2>1, GoesOnBelow, Zenon
<1> QED BY <1>1, <1>2, <1>3, <1>4, ByteWritten, Zenon

\* A backspace takes the last character back.
LEMMA EraseShown ==
  ASSUME NEW w \in Screen, NEW T \in Seq(Printable), NEW x, Shown(w, Append(T, x))
  PROVE  /\ put(w, "BS") \in Screen /\ Shown(put(w, "BS"), T)
         /\ Whole(w, Append(T, x)) /\ w.column_position > 0 => Whole(put(w, "BS"), T)
<1> DEFINE W == BUFFER_WIDTH
           H == BUFFER_HEIGHT
           n == Len(T)
           k == w.column_position
           S == Append(T, x)
           cs == w.chars
           u == put(w, "BS")
<1>0. u = backspace(w)
  BY PrintableAssumption, Zenon DEF put
<1>1. W \in Nat /\ H \in Nat /\ W > 0 /\ H > 0 /\ n \in Nat /\ k \in 0 .. W /\ H \in 1 .. H
  BY ScreenAssumption DEF Screen
<1>2. Len(S) = n + 1 /\ \A i \in 1 .. n : S[i] = T[i]
  OBVIOUS
<1>3. /\ k <= Len(S)
      /\ \A col \in 1 .. W : cs[H][col] = IF col <= k THEN S[Len(S) - k + col] ELSE Blank
  BY Zenon DEF Shown, LastLine, Columns
<1>4. CASE k = 0
  <2>1. u = w
    BY <1>0, <1>4, Zenon DEF backspace
  <2>2. Shown(w, T)
    <3>1. 0 <= n
      BY <1>1
    <3>2. \A col \in 1 .. W : ~(col <= 0)
      BY <1>1
    <3>3. \A col \in 1 .. W : cs[H][col] = Blank
      BY <1>3, <1>4, <3>2, Zenon
    <3> QED BY <1>4, <3>1, <3>2, <3>3, Zenon DEF Shown, LastLine, Columns
  <2> QED BY <1>1, <1>4, <2>1, <2>2
<1>5. CASE k > 0
  <2> DEFINE r == [cs[H] EXCEPT ![k] = Blank]
             ds == [cs EXCEPT ![H] = r]
             v == [w EXCEPT !.column_position = k - 1, !.chars = ds]
  <2>1. cs \in [1 .. H -> Row] /\ cs[H] \in Row
    BY <1>1 DEF Screen
  <2>2. k \in Columns /\ k - 1 \in 0 .. W /\ k # 0
    BY <1>1, <1>5 DEF Columns
  <2>3. r \in Row /\ \A col \in 1 .. W : r[col] = IF col = k THEN Blank ELSE cs[H][col]
    BY <2>1, <2>2, BlankIsRow, Zenon DEF Row, Columns
  <2> HIDE DEF r
  <2>4. /\ ds \in [1 .. H -> Row] /\ ds[H] = r
        /\ \A row \in 1 .. H - 1 : ds[row] = cs[row]
    BY <1>1, <2>1, <2>3
  <2> HIDE DEF ds
  <2>5. v \in Screen /\ v.chars = ds /\ v.column_position = k - 1
    BY <2>2, <2>4, Zenon DEF Screen
  <2>6. u = v
    BY <1>0, <2>2, Zenon DEF backspace, Screen, ds, r, Blank
  <2> HIDE DEF v, u
  <2>7. u \in Screen /\ u.chars = ds /\ u.column_position = k - 1
    BY <2>5, <2>6
  <2> HIDE DEF S, n, W, H, cs, k
  <2> DEFINE m == u.column_position
  <2>8. m = k - 1 /\ m <= n
    BY <1>1, <1>2, <1>3, <2>7
  <2> HIDE DEF m
  <2>9. Shown(u, T)
    <3>1. ASSUME NEW col \in 1 .. W
          PROVE  ds[H][col] = IF col <= m THEN T[n - m + col] ELSE Blank
      <4>1. Len(S) - k + col = n - m + col
        BY <1>1, <1>2, <2>8
      <4>2. CASE col <= m
        <5>1. n - m + col \in 1 .. n /\ col <= k /\ col # k
          BY <1>1, <2>8, <4>2
        <5>2. S[n - m + col] = T[n - m + col]
          BY <1>2, <5>1, Zenon
        <5>3. ds[H][col] = cs[H][col]
          BY <2>3, <2>4, <5>1, Zenon
        <5>4. cs[H][col] = S[n - m + col]
          BY <1>3, <4>1, <5>1, Zenon
        <5> QED BY <4>2, <5>2, <5>3, <5>4, Zenon
      <4>3. CASE col = k
        <5>1. ~(col <= m)
          BY <1>1, <2>8, <4>3
        <5> QED BY <2>3, <2>4, <4>3, <5>1, Zenon
      <4>4. CASE col > k
        <5>1. ~(col <= m) /\ ~(col <= k) /\ col # k
          BY <1>1, <2>8, <4>4
        <5> QED BY <1>3, <2>3, <2>4, <5>1, Zenon
      <4> QED BY <1>1, <2>8, <4>2, <4>3, <4>4
    <3>2. u.chars = ds
      BY <2>7
    <3> QED BY <2>8, <3>1, <3>2, Zenon DEF Shown, LastLine, Columns, W, H, n, m
  <2>10. ASSUME NEW full, InRows(w, S, full) PROVE InRows(u, T, full)
    <3>1. /\ full \in 0 .. H - 1 /\ n + 1 = full * W + k
          /\ \A row \in 0 .. full, col \in 1 .. W :
               row * W + col <= n + 1 => S[row * W + col] = cs[H - full + row][col]
      BY <1>2, <2>10, Zenon DEF InRows, Columns, W, H, cs, k
    <3>2. full \in Nat /\ full * W \in Nat /\ n = full * W + m
      BY <1>1, <2>8, <3>1
    <3>3. ASSUME NEW row \in 0 .. full, NEW col \in 1 .. W, row * W + col <= n
          PROVE  T[row * W + col] = ds[H - full + row][col]
      <4> DEFINE i == row * W + col
      <4>1. i \in 1 .. n /\ i <= n + 1
        BY <1>1, <3>3
      <4>2. S[i] = T[i]
        BY <1>2, <4>1, Zenon
      <4>3. S[i] = cs[H - full + row][col]
        BY <3>1, <4>1, Zenon
      <4>4. CASE row < full
        <5>1. H - full + row \in 1 .. H - 1
          BY <1>1, <3>1, <4>4
        <5> QED BY <2>4, <4>2, <4>3, <5>1, Zenon
      <4>5. CASE row = full
        <5>1. H - full + row = H
          BY <1>1, <3>1, <4>5
        <5>2. col # k
          BY <1>1, <2>8, <3>2, <3>3, <4>5
        <5> QED BY <2>3, <2>4, <4>2, <4>3, <5>1, <5>2, Zenon
      <4> QED BY <3>1, <4>4, <4>5
    <3>4. u.chars = ds
      BY <2>7
    <3> QED BY <3>1, <3>2, <3>3, <3>4, Zenon DEF InRows, Columns, W, H, n, m
  <2> QED BY <2>7, <2>9, <2>10, Zenon DEF Whole, S, u
<1> QED BY <1>1, <1>4, <1>5

-----------------------------------------------------------------------------
(* Printing a text: write_string puts one byte after the other. *)

\* g is the recursive function of put_all, for the first n bytes of s.
Applies(g, w, s, n) ==
  g = [i \in 0 .. n |-> IF i = 0 THEN w ELSE put(g[i - 1], s[i])]

\* It has a value for every text.
LEMMA AppliesExists ==
  ASSUME NEW w, NEW s, NEW n \in Nat
  PROVE  \E g : Applies(g, w, s, n)
<1> DEFINE Bad == {m \in Nat : ~ \E g : Applies(g, w, s, m)}
<1> SUFFICES ASSUME Bad # {} PROVE FALSE
  BY Zenon
<1>1. Bad \in SUBSET Nat
  BY Zenon
<1> HIDE DEF Bad
<1>2. PICK m \in Bad : \A y \in Bad : m <= y
  BY <1>1, LeastExists
<1>3. m \in Nat /\ ~ \E g : Applies(g, w, s, m)
  BY <1>2, Zenon DEF Bad
<1>4. CASE m = 0
  <2> DEFINE g == [i \in 0 .. 0 |-> w]
  <2>1. \A i \in 0 .. 0 : i = 0
    OBVIOUS
  <2>2. g = [i \in 0 .. 0 |-> IF i = 0 THEN w ELSE put(g[i - 1], s[i])]
    BY <2>1, Zenon
  <2>3. Applies(g, w, s, 0)
    BY <2>2, Zenon DEF Applies
  <2> QED BY <1>3, <1>4, <2>3, Zenon
<1>5. CASE m # 0
  <2>1. m - 1 \in Nat /\ m - 1 \notin Bad
    BY <1>2, <1>3, <1>5
  <2>2. PICK f : Applies(f, w, s, m - 1)
    BY <2>1, Zenon DEF Bad
  <2> DEFINE h == [i \in 0 .. m |-> IF i = m THEN put(f[m - 1], s[m]) ELSE f[i]]
  <2>3. ASSUME NEW i \in 0 .. m
        PROVE  h[i] = IF i = 0 THEN w ELSE put(h[i - 1], s[i])
    <3>1. CASE i = m
      <4>1. m - 1 \in 0 .. m /\ m - 1 # m /\ m \in 0 .. m
        BY <1>3, <2>1
      <4>2. h[m] = put(f[m - 1], s[m]) /\ h[m - 1] = f[m - 1]
        BY <4>1, Zenon
      <4> HIDE DEF h
      <4> QED BY <1>5, <3>1, <4>2, Zenon
    <3>2. CASE i # m
      <4>1. i \in 0 .. m - 1 /\ (i # 0 => i - 1 \in 0 .. m /\ i - 1 # m)
        BY <1>3, <3>2
      <4>2. h[i] = f[i] /\ (i # 0 => h[i - 1] = f[i - 1])
        BY <3>2, <4>1, Zenon
      <4>3. f[i] = IF i = 0 THEN w ELSE put(f[i - 1], s[i])
        BY <2>2, <4>1, Zenon DEF Applies
      <4> HIDE DEF h
      <4> QED BY <4>2, <4>3, Zenon
    <3> QED BY <3>1, <3>2
  <2>4. Applies(h, w, s, m)
    BY <2>3, Zenon DEF Applies
  <2> QED BY <1>3, <2>4, Zenon
<1> QED BY <1>4, <1>5

\* The screens while a text is printed, one after the other.
Screens(st, w, s) ==
  st[0] = w /\ \A i \in 1 .. Len(s) : st[i] = put(st[i - 1], s[i])

\* put_all(w, s) is the last of them.
LEMMA PrintedByteByByte ==
  ASSUME NEW w, NEW X, NEW s \in Seq(X)
  PROVE  \E st : Screens(st, w, s) /\ put_all(w, s) = st[Len(s)]
<1> DEFINE n == Len(s)
           Body(g) == [i \in 0 .. n |-> IF i = 0 THEN w ELSE put(g[i - 1], s[i])]
           st == CHOOSE g : g = Body(g)
<1>1. n \in Nat
  OBVIOUS
<1>2. put_all(w, s) = st[n]
  BY Zenon DEF put_all
<1>3. st = Body(st)
  <2>1. PICK g : Applies(g, w, s, n)
    BY <1>1, AppliesExists, Zenon
  <2>2. g = Body(g)
    BY <2>1, Zenon DEF Applies
  <2> QED BY <2>2, Zenon
<1> HIDE DEF st, n
<1>4. 0 \in 0 .. n /\ \A i \in 1 .. n : i \in 0 .. n /\ i # 0
  BY <1>1
<1>5. Screens(st, w, s)
  BY <1>3, <1>4, Zenon DEF Screens, n
<1> QED BY <1>2, <1>5, Zenon DEF n

\* The screen shows the text T, and if e then all of it.
Shows(w, T, e) == w \in Screen /\ Shown(w, T) /\ (e => Whole(w, T))

\* The last row is empty.
Fresh(w) == w \in Screen /\ w.column_position = 0 /\ LastLine(w) = BlankRow

\* The cursor is not part of what is shown.
LEMMA CursorAside ==
  ASSUME NEW w \in Screen
  PROVE  /\ update_cursor(w) \in Screen
         /\ update_cursor(w).chars = w.chars
         /\ update_cursor(w).column_position = w.column_position
<1>1. /\ BUFFER_HEIGHT - 1 \in Nat /\ BUFFER_WIDTH \in Nat /\ w.column_position \in Nat
  BY ScreenAssumption DEF Screen
<1>2. (BUFFER_HEIGHT - 1) * BUFFER_WIDTH + w.column_position \in Nat
  BY <1>1
<1> QED BY <1>2 DEF update_cursor, Screen

\* Moving the cursor leaves the text as it is.
LEMMA CursorShows ==
  ASSUME NEW w, NEW T, NEW e, Shows(w, T, e)
  PROVE  Shows(update_cursor(w), T, e)
<1> DEFINE u == update_cursor(w)
<1>1. u \in Screen /\ u.chars = w.chars /\ u.column_position = w.column_position
  BY CursorAside, Zenon DEF Shows
<1> HIDE DEF u
<1>2. Shown(u, T)
  BY <1>1 DEF Shows, Shown, LastLine
<1>3. ASSUME NEW full, InRows(w, T, full) PROVE InRows(u, T, full)
  BY <1>1, <1>3 DEF InRows
<1> QED BY <1>1, <1>2, <1>3, Zenon DEF Shows, Whole, u

\* Printing a text after another one shows both.
LEMMA TextShown ==
  ASSUME NEW w, NEW e, NEW T \in Seq(Printable), NEW s \in Seq(Printable),
         Shows(w, T, e), Len(T) + Len(s) <= BUFFER_HEIGHT * BUFFER_WIDTH
  PROVE  Shows(write_string(w, s), T \o s, e)
<1> DEFINE n == Len(s)
           P(i) == T \o SubSeq(s, 1, i)
<1>1. PICK st : Screens(st, w, s) /\ put_all(w, s) = st[n]
  BY PrintedByteByByte, Zenon
<1> DEFINE Bad == {i \in 0 .. n : ~Shows(st[i], P(i), e)}
<1>2. n \in Nat /\ Len(T) \in Nat
  OBVIOUS
<1>3. Bad = {}
  <2> SUFFICES ASSUME Bad # {} PROVE FALSE
    BY Zenon
  <2>1. Bad \in SUBSET Nat
    <3>1. 0 .. n \subseteq Nat
      BY <1>2
    <3> QED BY <3>1, Zenon
  <2> HIDE DEF Bad
  <2>2. PICK i \in Bad : \A y \in Bad : i <= y
    BY <2>1, LeastExists
  <2>3. i \in 0 .. n /\ ~Shows(st[i], P(i), e)
    BY <2>2, Zenon DEF Bad
  <2>4. i # 0
    <3>1. P(0) = T
      BY <1>2
    <3> QED BY <1>1, <2>3, <3>1, Zenon DEF Screens
  <2>5. i \in 1 .. n /\ i - 1 \in 0 .. n /\ ~(i <= i - 1)
    BY <1>2, <2>3, <2>4
  <2>6. Shows(st[i - 1], P(i - 1), e)
    BY <2>2, <2>5, Zenon DEF Bad
  <2> DEFINE Q == P(i - 1)
  <2>7. /\ Q \in Seq(Printable) /\ s[i] \in Printable
        /\ Len(Q) = Len(T) + (i - 1) /\ P(i) = Append(Q, s[i])
    BY <1>2, <2>5
  <2>8. Len(Q) < BUFFER_HEIGHT * BUFFER_WIDTH
    <3>1. BUFFER_HEIGHT * BUFFER_WIDTH \in Nat
      BY ScreenAssumption
    <3> HIDE DEF Q
    <3> QED BY <1>2, <2>5, <2>7, <3>1
  <2>9. st[i] = put(st[i - 1], s[i])
    BY <1>1, <2>5, Zenon DEF Screens
  <2> HIDE DEF P, Q
  <2>10. Shows(st[i - 1], Q, e)
    BY <2>6 DEF Q
  <2>11. Shows(st[i], Append(Q, s[i]), e)
    BY <2>7, <2>8, <2>9, <2>10, TypeShown, Zenon DEF Shows
  <2> QED BY <2>3, <2>7, <2>11, Zenon
<1>4. Shows(st[n], P(n), e)
  <2>1. n \in 0 .. n
    BY <1>2
  <2> QED BY <1>3, <2>1, Zenon
<1>5. P(n) = T \o s
  OBVIOUS
<1> QED BY <1>1, <1>4, <1>5, CursorShows, Zenon DEF write_string

\* Erasing the last character of what is shown.
LEMMA ErasedShown ==
  ASSUME NEW w, NEW e, NEW T \in Seq(Printable), NEW x, Shows(w, Append(T, x), e)
  PROVE  Shows(write_string(w, <<"BS">>), T, e /\ w.column_position > 0)
<1>1. /\ <<"BS">> \in Seq({"BS"}) /\ Len(<<"BS">>) = 1 /\ <<"BS">>[1] = "BS"
      /\ 1 \in 1 .. 1 /\ 1 - 1 = 0
  OBVIOUS
<1>2. PICK st : Screens(st, w, <<"BS">>) /\ put_all(w, <<"BS">>) = st[1]
  BY <1>1, PrintedByteByByte, Zenon
<1>3. st[1] = put(w, "BS")
  BY <1>1, <1>2, Zenon DEF Screens
<1>4. Shows(put(w, "BS"), T, e /\ w.column_position > 0)
  BY EraseShown, Zenon DEF Shows
<1> QED BY <1>2, <1>3, <1>4, CursorShows, Zenon DEF write_string

\* After a line end the last row is empty.
LEMMA LineEnded ==
  ASSUME NEW w \in Screen, NEW b, b # "BS", b # "LF"
  PROVE  Fresh(write_string(w, <<"LF">>)) /\ Fresh(write_string(w, <<b, "LF">>))
<1>1. ASSUME NEW v \in Screen PROVE Fresh(put(v, "LF"))
  <2>1. put(v, "LF") = new_line(v)
    BY PrintableAssumption, Zenon DEF put, write_byte
  <2> QED BY <2>1, NewLine, Zenon DEF Fresh, LastLine
<1>2. ASSUME NEW v, Fresh(v) PROVE Fresh(update_cursor(v))
  BY <1>2, CursorAside, Zenon DEF Fresh, LastLine
<1>3. put(w, b) \in Screen
  <2>1. \E c \in Cell : c # "LF" /\ put(w, b) = write_byte(w, c)
    <3>1. CASE b \in Printable
      BY <3>1, Zenon DEF put, Cell
    <3>2. CASE b \notin Printable
      BY <3>2, Zenon DEF put, Cell
    <3> QED BY <3>1, <3>2
  <2> QED BY <2>1, ByteWritten, Zenon DEF Put
<1>4. Fresh(write_string(w, <<"LF">>))
  <2> DEFINE s == <<"LF">>
  <2>1. s \in Seq({"LF"}) /\ Len(s) = 1 /\ s[1] = "LF" /\ 1 \in 1 .. 1 /\ 1 - 1 = 0
    OBVIOUS
  <2> HIDE DEF s
  <2>2. PICK st : Screens(st, w, s) /\ put_all(w, s) = st[1]
    BY <2>1, PrintedByteByByte, Zenon
  <2>3. st[1] = put(w, "LF")
    BY <2>1, <2>2, Zenon DEF Screens
  <2> QED BY <1>1, <1>2, <2>2, <2>3, Zenon DEF write_string, s
<1>5. Fresh(write_string(w, <<b, "LF">>))
  <2> DEFINE s == <<b, "LF">>
  <2>1. /\ s \in Seq({b, "LF"}) /\ Len(s) = 2 /\ s[1] = b /\ s[2] = "LF"
        /\ 1 \in 1 .. 2 /\ 2 \in 1 .. 2 /\ 1 - 1 = 0 /\ 2 - 1 = 1
    OBVIOUS
  <2> HIDE DEF s
  <2>2. PICK st : Screens(st, w, s) /\ put_all(w, s) = st[2]
    BY <2>1, PrintedByteByByte, Zenon
  <2>3. st[1] = put(w, b) /\ st[2] = put(st[1], "LF")
    BY <2>1, <2>2, Zenon DEF Screens
  <2> QED BY <1>1, <1>2, <1>3, <2>2, <2>3, Zenon DEF write_string, s
<1> QED BY <1>4, <1>5

\* Clearing the screen leaves the last row empty, too.
LEMMA Cleared ==
  ASSUME NEW w \in Screen
  PROVE  Fresh(clear_screen(w))
<1> DEFINE cs == [row \in 1 .. BUFFER_HEIGHT |-> BlankRow]
           v == [w EXCEPT !.chars = cs, !.column_position = 0]
<1>1. cs \in [1 .. BUFFER_HEIGHT -> Row] /\ cs[BUFFER_HEIGHT] = BlankRow
  BY ScreenAssumption, BlankIsRow
<1>2. 0 \in 0 .. BUFFER_WIDTH
  BY ScreenAssumption
<1> HIDE DEF cs
<1>3. v \in Screen /\ v.chars = cs /\ v.column_position = 0
  BY <1>1, <1>2, Zenon DEF Screen
<1> HIDE DEF v
<1>4. clear_screen(w) = update_cursor(v)
  BY Zenon DEF clear_screen, v, cs
<1> QED BY <1>1, <1>3, <1>4, CursorAside, Zenon DEF Fresh, LastLine

\* An empty last row shows the end of every text; of the empty text it shows all.
LEMMA FreshShows ==
  ASSUME NEW w, Fresh(w), NEW T \in Seq(Printable)
  PROVE  Shows(w, T, FALSE) /\ (T = <<>> => Shows(w, T, TRUE))
<1>1. /\ w \in Screen /\ w.column_position = 0 /\ Len(T) \in Nat
      /\ BUFFER_WIDTH \in Nat /\ BUFFER_HEIGHT \in Nat \ {0}
  BY ScreenAssumption DEF Fresh
<1>2. \A col \in Columns : LastLine(w)[col] = Blank /\ ~(col <= 0)
  BY <1>1, BlankIsRow DEF Fresh, Columns
<1>3. Shown(w, T)
  <2>1. 0 <= Len(T)
    BY <1>1
  <2> QED BY <1>1, <1>2, <2>1, Zenon DEF Shown
<1>4. ASSUME T = <<>> PROVE InRows(w, T, 0)
  <2>1. Len(T) = 0 /\ 0 * BUFFER_WIDTH = 0 /\ 0 \in 0 .. BUFFER_HEIGHT - 1
    BY <1>1, <1>4
  <2>2. \A row \in 0 .. 0, col \in Columns : ~(row * BUFFER_WIDTH + col <= 0)
    BY <1>1 DEF Columns
  <2>3. Len(T) = 0 * BUFFER_WIDTH + 0
    BY <2>1
  <2> QED BY <1>1, <2>1, <2>2, <2>3, Zenon DEF InRows
<1> QED BY <1>1, <1>3, <1>4, Zenon DEF Shows, Whole

-----------------------------------------------------------------------------
(* The screen while calls are pending *)

Prompt == PromptOf(user)
Back == Show(<<"BS">>)

\* The screen lacks the last n characters of the line, which are printed one by one.
\* With n = 0 nothing is pending.
Typing(n) ==
  /\ n \in 0 .. Len(Line)
  /\ todo = [i \in 1 .. n |-> Show(<<Line[Len(Line) - n + i]>>)]
  /\ Shows(WRITER, SubSeq(Line, 1, Len(Line) - n), exact)

\* The screen shows an older line, which is erased before the new one is printed.
Erasing(old) ==
  /\ Fits(old)
  /\ todo = Append(Repeat(Back, Len(old)), Show(INPUT_BUFFER))
  /\ Shows(WRITER, Prompt \o old, exact)

\* The screen shows one character too many.
Backspacing(c) == todo = <<Back>> /\ Shows(WRITER, Append(Line, c), exact)

\* The line is done: its end, what the command prints, and the next prompt.
LineCalls == {Clear, Show(<<"o", "LF">>), Show(<<"LF">>)}
Prompting ==
  /\ INPUT_BUFFER = <<>> /\ WRITER \in Screen
  /\ todo # <<>> /\ todo \in Seq(LineCalls \cup {print_prompt(user)})
  /\ \A i \in 1 .. Len(todo) - 1 : todo[i] \in LineCalls
  /\ todo[Len(todo)] = print_prompt(user)
  /\ Len(todo) = 1 => Fresh(WRITER)

\* What is on the screen and the calls still to be made add up to the line.
ShowInv ==
  /\ user \in {"Enos", "Guest"}
  /\ \/ \E n : Typing(n)
     \/ \E old : Erasing(old)
     \/ \E c \in Printable : Backspacing(c)
     \/ Prompting

\* Short texts.
LEMMA ShortTexts ==
  ASSUME NEW X, NEW a \in X, NEW b \in X
  PROVE  /\ <<a>> \in Seq(X) /\ Len(<<a>>) = 1 /\ <<a>>[1] = a
         /\ <<a, b>> \in Seq(X) /\ Len(<<a, b>>) = 2 /\ <<a, b>>[1] = a
OBVIOUS

\* The prompt is a short printable text.
LEMMA PromptText ==
  ASSUME NEW u
  PROVE  /\ PromptOf(u) \in Seq(Printable) /\ Len(PromptOf(u)) \in 1 .. 2
         /\ PromptOf(u) # <<"BS">>
<1>1. "#" \in Printable /\ "$" \in Printable /\ " " \in Printable
  BY TextAssumption, PrintableAssumption, Zenon
<1>2. PromptOf(u) = <<"#">> \/ PromptOf(u) = <<"$", " ">>
  BY Zenon DEF PromptOf
<1>3. /\ PromptOf(u) \in Seq(Printable)
      /\ Len(PromptOf(u)) = 1 \/ Len(PromptOf(u)) = 2
      /\ PromptOf(u)[1] \in Printable
  <2>1. CASE PromptOf(u) = <<"#">>
    <3>1. <<"#">> \in Seq(Printable) /\ Len(<<"#">>) = 1 /\ <<"#">>[1] = "#"
      BY <1>1, ShortTexts, Zenon
    <3> QED BY <1>1, <2>1, <3>1, Zenon
  <2>2. CASE PromptOf(u) = <<"$", " ">>
    <3>1. /\ <<"$", " ">> \in Seq(Printable) /\ Len(<<"$", " ">>) = 2
          /\ <<"$", " ">>[1] = "$"
      BY <1>1, ShortTexts, Zenon
    <3> QED BY <1>1, <2>2, <3>1, Zenon
  <2> QED BY <1>2, <2>1, <2>2, Zenon
<1>4. PromptOf(u) # <<"BS">>
  <2>1. <<"BS">>[1] = "BS"
    OBVIOUS
  <2> QED BY <1>3, <2>1, PrintableAssumption, Zenon
<1> QED BY <1>3, <1>4

\* A line with its prompt fits on the screen.
LEMMA LineText ==
  ASSUME NEW u, NEW line, Fits(line)
  PROVE  /\ PromptOf(u) \o line \in Seq(Printable)
         /\ Len(PromptOf(u) \o line) = Len(PromptOf(u)) + Len(line)
         /\ Len(PromptOf(u) \o line) <= BUFFER_HEIGHT * BUFFER_WIDTH
         /\ line \in Seq(Printable) /\ Len(line) \in Nat
         /\ line # <<"BS">>
<1> DEFINE p == PromptOf(u)
<1>1. p \in Seq(Printable) /\ Len(p) \in 1 .. 2
  BY PromptText
<1> HIDE DEF p
<1>2. line \in Seq(Keys) /\ Len(line) \in Nat /\ Len(line) <= MAX_INPUT_LEN
  BY DEF Fits, Text
<1>3. Keys \subseteq Printable
  BY TextAssumption, Zenon
<1>4. line \in Seq(Printable)
  BY <1>2, <1>3
<1>5. line # <<"BS">>
  <2> SUFFICES ASSUME line = <<"BS">> PROVE FALSE
    OBVIOUS
  <2>1. line[1] = "BS" /\ 1 \in 1 .. Len(line)
    OBVIOUS
  <2>2. line[1] \in Printable
    BY <1>4, <2>1
  <2> QED BY <2>1, <2>2, PrintableAssumption, Zenon
<1>6. p \o line \in Seq(Printable) /\ Len(p \o line) = Len(p) + Len(line)
  BY <1>1, <1>4
<1>7. Len(p) + Len(line) <= BUFFER_HEIGHT * BUFFER_WIDTH
  <2> DEFINE area == BUFFER_HEIGHT * BUFFER_WIDTH
  <2>1. area \in Nat /\ MAX_INPUT_LEN \in Nat /\ MAX_INPUT_LEN + 2 <= area
    BY ScreenAssumption, LineAssumption
  <2> DEFINE a == Len(p)
             b == Len(line)
  <2>2. a \in 1 .. 2 /\ b \in Nat /\ b <= MAX_INPUT_LEN
    BY <1>1, <1>2
  <2> HIDE DEF area, a, b
  <2>3. a + b <= area
    BY <2>1, <2>2
  <2> QED BY <2>3 DEF area, a, b
<1> QED BY <1>2, <1>4, <1>5, <1>6, <1>7 DEF p

\* A call of _print that prints text.
LEMMA PrintsText ==
  ASSUME _print, NEW s, Head(todo) = Show(s), s # <<"BS">>
  PROVE  /\ WRITER' = write_string(WRITER, s) /\ exact' = exact /\ todo' = Tail(todo)
         /\ UNCHANGED <<INPUT_BUFFER, user>>
<1>1. Head(todo).op = "print" /\ Head(todo).text = s
  BY DEF Show
<1> QED BY <1>1, Zenon DEF _print

\* A call of _print that prints a backspace.
LEMMA PrintsBack ==
  ASSUME _print, Head(todo) = Back
  PROVE  /\ WRITER' = write_string(WRITER, <<"BS">>)
         /\ exact' = (exact /\ WRITER.column_position > 0) /\ todo' = Tail(todo)
         /\ UNCHANGED <<INPUT_BUFFER, user>>
<1>1. Head(todo).op = "print" /\ Head(todo).text = <<"BS">>
  BY DEF Show, Back
<1> QED BY <1>1, Zenon DEF _print

\* The call of _print that prints the prompt.
LEMMA PrintsPrompt ==
  ASSUME _print, Head(todo) = print_prompt(user)
  PROVE  /\ WRITER' = write_string(WRITER, Prompt)
         /\ exact' = (WRITER.column_position = 0) /\ todo' = Tail(todo)
         /\ UNCHANGED <<INPUT_BUFFER, user>>
<1>1. Head(todo).op = "prompt" /\ Head(todo).text = Prompt
  BY DEF print_prompt, Prompt
<1>2. Prompt # <<"BS">>
  BY PromptText DEF Prompt
<1> QED BY <1>1, <1>2, Zenon DEF _print

\* The line end, the output of a command and clear leave the last row empty.
LEMMA PrintsLine ==
  ASSUME _print, Head(todo) \in LineCalls, WRITER \in Screen
  PROVE  /\ Fresh(WRITER') /\ todo' = Tail(todo)
         /\ UNCHANGED <<INPUT_BUFFER, user>>
<1>1. CASE Head(todo) = Clear
  <2>1. Head(todo).op = "clear"
    BY <1>1 DEF Clear
  <2> QED BY <2>1, Cleared, Zenon DEF _print
<1>2. CASE Head(todo) = Show(<<"o", "LF">>)
  <2>1. Head(todo).op = "print" /\ Head(todo).text = <<"o", "LF">>
    BY <1>2 DEF Show
  <2> QED BY <2>1, LineEnded, Zenon DEF _print
<1>3. CASE Head(todo) = Show(<<"LF">>)
  <2>1. Head(todo).op = "print" /\ Head(todo).text = <<"LF">>
    BY <1>3 DEF Show
  <2> QED BY <2>1, LineEnded, Zenon DEF _print
<1> QED BY <1>1, <1>2, <1>3, Zenon DEF LineCalls

\* The calls of clear_visible_input, and the one that follows them.
LEMMA Repeats ==
  ASSUME NEW x, NEW y, NEW k \in Nat
  PROVE  /\ Append(Repeat(x, k), y) # <<>>
         /\ k = 0 => Append(Repeat(x, k), y) = <<y>>
         /\ k > 0 => /\ Head(Append(Repeat(x, k), y)) = x
                    /\ Tail(Append(Repeat(x, k), y)) = Append(Repeat(x, k - 1), y)
<1> DEFINE X == {x, y}
           r == Repeat(x, k)
           q == Repeat(x, k - 1)
           f == Append(r, y)
<1>1. x \in X /\ y \in X
  OBVIOUS
<1> HIDE DEF X
<1>2. r \in Seq(X) /\ Len(r) = k /\ \A i \in 1 .. k : r[i] = x
  BY <1>1 DEF Repeat
<1>3. k > 0 => q \in Seq(X) /\ Len(q) = k - 1 /\ \A i \in 1 .. k - 1 : q[i] = x
  BY <1>1 DEF Repeat
<1> HIDE DEF r, q
<1>4. f \in Seq(X) /\ Len(f) = k + 1 /\ f[k + 1] = y /\ \A i \in 1 .. k : f[i] = r[i]
  BY <1>1, <1>2
<1>5. f # <<>>
  BY <1>4
<1>6. k = 0 => f = <<y>>
  BY <1>2
<1>7. ASSUME k > 0 PROVE Head(f) = x /\ Tail(f) = Append(q, y)
  <2>1. Head(f) = f[1] /\ 1 \in 1 .. k
    BY <1>4, <1>7
  <2>2. /\ Tail(f) \in Seq(X) /\ Len(Tail(f)) = k
        /\ \A i \in 1 .. k : Tail(f)[i] = f[i + 1]
    BY <1>4, <1>7
  <2>3. /\ Append(q, y) \in Seq(X) /\ Len(Append(q, y)) = k /\ Append(q, y)[k] = y
        /\ \A i \in 1 .. k - 1 : Append(q, y)[i] = q[i]
    BY <1>1, <1>3, <1>7
  <2> HIDE DEF f
  <2>4. \A i \in 1 .. k : Tail(f)[i] = Append(q, y)[i]
    <3> TAKE i \in 1 .. k
    <3>1. CASE i = k
      BY <3>1, <2>2, <2>3, <1>4
    <3>2. CASE i # k
      <4>1. i \in 1 .. k - 1 /\ i + 1 \in 1 .. k
        BY <3>2
      <4> QED BY <4>1, <2>2, <2>3, <1>2, <1>3, <1>4, <1>7, Zenon
    <3> QED BY <3>1, <3>2, Zenon
  <2>5. Tail(f) = Append(q, y)
    BY <2>2, <2>3, <2>4
  <2> QED BY <2>1, <2>5, <1>2, <1>4, Zenon
<1> QED BY <1>5, <1>6, <1>7 DEF f, r, q

\* Nothing is pending: the screen shows the line.
LEMMA ReadyShows ==
  ASSUME LineInv, ShowInv, Ready
  PROVE  Shows(WRITER, Line, exact)
<1>1. Line \in Seq(Printable) /\ todo = <<>>
  BY LineText, Zenon DEF Line, LineInv, Ready
<1>2. ASSUME NEW n, Typing(n) PROVE Shows(WRITER, Line, exact)
  <2>1. /\ n \in 0 .. Len(Line) /\ Len(Line) \in Nat
        /\ <<>> = [i \in 1 .. n |-> Show(<<Line[Len(Line) - n + i]>>)]
        /\ Shows(WRITER, SubSeq(Line, 1, Len(Line) - n), exact)
    BY <1>1, <1>2 DEF Typing
  <2>2. n = 0
    <3>1. DOMAIN <<>> = 1 .. n
      BY <2>1
    <3> QED BY <2>1, <3>1
  <2>3. SubSeq(Line, 1, Len(Line) - 0) = Line
    BY <1>1
  <2> QED BY <2>1, <2>2, <2>3, Zenon
<1>3. ASSUME NEW old, Erasing(old) PROVE FALSE
  <2>1. Len(old) \in Nat /\ <<>> = Append(Repeat(Back, Len(old)), Show(INPUT_BUFFER))
    BY <1>1, <1>3 DEF Erasing, Fits, Text
  <2> QED BY <2>1, Repeats, Zenon
<1>4. ASSUME NEW c, Backspacing(c) PROVE FALSE
  BY <1>1, <1>4 DEF Backspacing
<1> QED BY <1>1, <1>2, <1>3, <1>4, Zenon DEF ShowInv, Prompting

\* The last call was made.
LEMMA AllShown ==
  ASSUME Fits(INPUT_BUFFER'), todo' = <<>>, Shows(WRITER', Line', exact')
  PROVE  Typing(0)'
<1>1. Line' \in Seq(Printable)
  BY LineText, Zenon DEF Line
<1>2. Len(Line') \in Nat /\ SubSeq(Line', 1, Len(Line') - 0) = Line'
  BY <1>1
<1>3. 0 \in 0 .. Len(Line')
  BY <1>2
<1>4. todo' = [i \in 1 .. 0 |-> Show(<<(Line')[Len(Line') - 0 + i]>>)]
  <2> DEFINE f == [i \in 1 .. 0 |-> Show(<<(Line')[Len(Line') - 0 + i]>>)]
  <2>1. f = <<>>
    OBVIOUS
  <2> QED BY <2>1
<1> QED BY <1>2, <1>3, <1>4, Zenon DEF Typing

\* A character of the line is printed.
LEMMA TypingGoesOn ==
  ASSUME LineInv, NEW n, Typing(n), todo # <<>>, _print
  PROVE  Typing(n - 1)'
<1> DEFINE l == Len(Line)
           T == SubSeq(Line, 1, l - n)
           c == Line[l - n + 1]
           f == [i \in 1 .. n |-> Show(<<Line[l - n + i]>>)]
           g == [i \in 1 .. n - 1 |-> Show(<<Line[l - (n - 1) + i]>>)]
<1>0. Line \in Seq(Printable) /\ l <= BUFFER_HEIGHT * BUFFER_WIDTH
  BY LineText, Zenon DEF Line, LineInv
<1>1. Line \in Seq(Printable) /\ l \in Nat /\ l <= BUFFER_HEIGHT * BUFFER_WIDTH
  BY <1>0
<1>2. n \in 0 .. l /\ todo = f /\ Shows(WRITER, T, exact)
  BY DEF Typing
<1>3. n # 0
  <2> SUFFICES ASSUME n = 0 PROVE f = <<>>
    BY <1>2, Zenon
  <2> QED OBVIOUS
<1>4. n \in 1 .. l /\ l - n + 1 \in 1 .. l /\ n - 1 \in 0 .. l
  BY <1>1, <1>2, <1>3
<1>5. c \in Printable
  BY <1>1, <1>4
<1>6. f \in Seq({Show(<<Line[i]>>) : i \in 1 .. l}) /\ Head(f) = Show(<<c>>) /\ Tail(f) = g
  <2>1. \A i \in 1 .. n : l - n + i \in 1 .. l
    BY <1>1, <1>4
  <2> DEFINE X == {Show(<<Line[i]>>) : i \in 1 .. l}
             F(i) == Show(<<Line[l - n + i]>>)
  <2>2. \A i \in 1 .. n : F(i) \in X
    BY <2>1, Zenon
  <2>3. F(1) = Show(<<c>>) /\ \A i \in 1 .. n - 1 : F(i + 1) = Show(<<Line[l - (n - 1) + i]>>)
    <3>1. \A i \in 1 .. n - 1 : l - n + (i + 1) = l - (n - 1) + i
      BY <1>1, <1>4
    <3> QED BY <3>1, Zenon
  <2>4. g = [i \in 1 .. n - 1 |-> F(i + 1)]
    BY <2>3, Zenon
  <2> HIDE DEF X, F
  <2>5. [i \in 1 .. n |-> F(i)] \in Seq(X) /\ Len([i \in 1 .. n |-> F(i)]) = n
    BY <1>4, <2>2
  <2>6. /\ Head([i \in 1 .. n |-> F(i)]) = F(1)
        /\ Tail([i \in 1 .. n |-> F(i)]) = [i \in 1 .. n - 1 |-> F(i + 1)]
    BY <1>4, <2>5
  <2> QED BY <2>3, <2>4, <2>5, <2>6, Zenon DEF X, F
<1>7. <<c>> \in Seq(Printable) /\ <<c>> # <<"BS">> /\ Len(<<c>>) = 1
  <2>1. c # "BS"
    BY <1>5, PrintableAssumption, Zenon
  <2> HIDE DEF c
  <2> QED BY <1>5, <2>1
<1>8. /\ WRITER' = write_string(WRITER, <<c>>) /\ exact' = exact /\ todo' = g
      /\ UNCHANGED <<INPUT_BUFFER, user>>
  BY <1>2, <1>6, <1>7, PrintsText, Zenon
<1>9. T \in Seq(Printable) /\ Len(T) = l - n /\ T \o <<c>> = SubSeq(Line, 1, l - (n - 1))
  BY <1>1, <1>4, <1>5
<1>10. Len(T) + Len(<<c>>) <= BUFFER_HEIGHT * BUFFER_WIDTH
  <2> DEFINE area == BUFFER_HEIGHT * BUFFER_WIDTH
             m == Len(T)
             k == Len(<<c>>)
  <2>1. l <= area /\ area \in Nat /\ m = l - n /\ k = 1
    BY <1>1, <1>7, <1>9, ScreenAssumption
  <2> HIDE DEF area, l, m, k
  <2>2. m + k <= area
    BY <1>1, <1>4, <2>1
  <2> QED BY <2>2, Zenon DEF area, m, k
<1> HIDE DEF T, c, f, g
<1>11. Shows(WRITER', T \o <<c>>, exact')
  BY <1>2, <1>7, <1>8, <1>9, <1>10, TextShown, Zenon
<1>12. Line' = Line
  BY <1>8 DEF Line
<1> QED BY <1>4, <1>8, <1>9, <1>11, <1>12, Zenon DEF Typing, g

\* A text without its last character.
LEMMA LastTaken ==
  ASSUME NEW X, NEW s \in Seq(X), Len(s) # 0
  PROVE  /\ SubSeq(s, 1, Len(s) - 1) \in Seq(X) /\ Len(SubSeq(s, 1, Len(s) - 1)) = Len(s) - 1
         /\ s[Len(s)] \in X /\ s = Append(SubSeq(s, 1, Len(s) - 1), s[Len(s)])
<1> DEFINE n == Len(s)
           m == n - 1
           f == SubSeq(s, 1, m)
<1>1. n \in Nat \ {0} /\ m \in Nat /\ n = m + 1 /\ n \in 1 .. n
  OBVIOUS
<1>2. s[n] \in X
  BY <1>1
<1>3. \A i \in 1 .. m : i \in 1 .. n /\ s[i] \in X
  BY <1>1
<1> HIDE DEF n, m
<1>4. f \in Seq(X) /\ Len(f) = m /\ \A i \in 1 .. m : f[i] = s[i]
  BY <1>1, <1>3 DEF n
<1> HIDE DEF f
<1>5. /\ Append(f, s[n]) \in Seq(X) /\ Len(Append(f, s[n])) = m + 1 /\ Append(f, s[n])[m + 1] = s[n]
      /\ \A i \in 1 .. m : Append(f, s[n])[i] = f[i]
  BY <1>1, <1>2, <1>4
<1> DEFINE g == Append(f, s[n])
<1> HIDE DEF g
<1>6. \A i \in 1 .. n : g[i] = s[i]
  BY <1>1, <1>4, <1>5 DEF g
<1>7. g = s
  BY <1>1, <1>5, <1>6 DEF n, g
<1> QED BY <1>1, <1>2, <1>4, <1>7 DEF n, m, f, g

\* The calls left after the next one.
LEMMA HeadTaken ==
  ASSUME NEW X, NEW s \in Seq(X), s # <<>>
  PROVE  /\ Len(s) \in Nat \ {0} /\ Head(s) = s[1]
         /\ Tail(s) \in Seq(X) /\ Len(Tail(s)) = Len(s) - 1
         /\ \A i \in 1 .. Len(s) - 1 : Tail(s)[i] = s[i + 1]
         /\ Len(s) = 1 => Tail(s) = <<>>
<1>1. /\ Len(s) \in Nat \ {0} /\ Head(s) = s[1]
      /\ Tail(s) \in Seq(X) /\ Len(Tail(s)) = Len(s) - 1
      /\ \A i \in 1 .. Len(s) - 1 : Tail(s)[i] = s[i + 1]
  OBVIOUS
<1>2. ASSUME Len(s) = 1 PROVE Tail(s) = <<>>
  <2> DEFINE t == Tail(s)
  <2>1. t \in Seq(X) /\ Len(t) = 0
    BY <1>1, <1>2
  <2> HIDE DEF t
  <2>2. t = <<>>
    BY <2>1
  <2> QED BY <2>2 DEF t
<1> QED BY <1>1, <1>2

\* A character of the old line is erased, or the new line is printed.
LEMMA ErasingGoesOn ==
  ASSUME LineInv, NEW old, Erasing(old), _print
  PROVE  Typing(0)' \/ \E short : Erasing(short)'
<1> DEFINE n == Len(old)
           short == SubSeq(old, 1, n - 1)
           x == old[n]
<1>1. /\ Fits(old) /\ Shows(WRITER, Prompt \o old, exact)
      /\ todo = Append(Repeat(Back, n), Show(INPUT_BUFFER))
  BY Zenon DEF Erasing
<1>2. old \in Seq(Keys) /\ n \in Nat /\ n <= MAX_INPUT_LEN
  BY <1>1 DEF Fits, Text
<1>3. Prompt \in Seq(Printable) /\ Len(Prompt) \in Nat
  BY PromptText DEF Prompt
<1>4. Fits(INPUT_BUFFER)
  BY DEF LineInv
<1>5. CASE n = 0
  <2>1. todo = <<Show(INPUT_BUFFER)>>
    BY <1>1, <1>2, <1>5, Repeats, Zenon
  <2>2. Head(todo) = Show(INPUT_BUFFER) /\ Tail(todo) = <<>>
    BY <2>1
  <2>3. /\ INPUT_BUFFER # <<"BS">> /\ INPUT_BUFFER \in Seq(Printable)
        /\ Len(INPUT_BUFFER) \in Nat
        /\ Len(Prompt \o INPUT_BUFFER) = Len(Prompt) + Len(INPUT_BUFFER)
        /\ Len(Prompt \o INPUT_BUFFER) <= BUFFER_HEIGHT * BUFFER_WIDTH
    BY <1>4, LineText, Zenon DEF Prompt
  <2>4. /\ WRITER' = write_string(WRITER, INPUT_BUFFER) /\ exact' = exact /\ todo' = <<>>
        /\ INPUT_BUFFER' = INPUT_BUFFER /\ user' = user
    BY <2>2, <2>3, PrintsText, Zenon
  <2>5. Prompt \o old = Prompt
    BY <1>2, <1>3, <1>5
  <2>6. Len(Prompt) + Len(INPUT_BUFFER) <= BUFFER_HEIGHT * BUFFER_WIDTH
    BY <2>3, Zenon
  <2>7. Shows(WRITER', Prompt \o INPUT_BUFFER, exact')
    BY <1>1, <1>3, <2>3, <2>4, <2>5, <2>6, TextShown, Zenon
  <2>8. Line' = Prompt \o INPUT_BUFFER
    BY <2>4 DEF Line, Prompt
  <2> QED BY <1>4, <2>4, <2>7, <2>8, AllShown, Zenon
<1>6. CASE n > 0
  <2>1. Head(todo) = Back /\ Tail(todo) = Append(Repeat(Back, n - 1), Show(INPUT_BUFFER))
    BY <1>1, <1>2, <1>6, Repeats, Zenon
  <2>2. /\ WRITER' = write_string(WRITER, <<"BS">>)
        /\ exact' = (exact /\ WRITER.column_position > 0) /\ todo' = Tail(todo)
        /\ INPUT_BUFFER' = INPUT_BUFFER /\ user' = user
    BY <2>1, PrintsBack
  <2>3. short \in Seq(Keys) /\ Len(short) = n - 1 /\ x \in Keys /\ old = Append(short, x)
    <3>1. n # 0
      BY <1>2, <1>6
    <3> QED BY <1>2, <3>1, LastTaken, Zenon
  <2>4. Fits(short)
    <3>1. n - 1 <= MAX_INPUT_LEN
      BY <1>2, LineAssumption
    <3> QED BY <2>3, <3>1 DEF Fits, Text
  <2> HIDE DEF short, x
  <2>5. short \in Seq(Printable) /\ x \in Printable
    BY <2>3, <2>4, LineText, TextAssumption, Zenon
  <2>6. Prompt \o Append(short, x) = Append(Prompt \o short, x) /\ Prompt \o short \in Seq(Printable)
    BY <1>3, <2>5
  <2>7. Shows(WRITER', Prompt \o short, exact')
    <3>1. Shows(WRITER, Append(Prompt \o short, x), exact)
      BY <1>1, <2>3, <2>6, Zenon
    <3> QED BY <2>2, <2>6, <3>1, ErasedShown, Zenon
  <2>8. Prompt' = Prompt
    BY <2>2 DEF Prompt
  <2>9. todo' = Append(Repeat(Back, Len(short)), Show(INPUT_BUFFER'))
    BY <2>1, <2>2, <2>3, Zenon
  <2>10. Erasing(short)'
    BY <2>4, <2>7, <2>8, <2>9 DEF Erasing, Back, Fits
  <2> QED BY <2>10, Zenon
<1> QED BY <1>2, <1>5, <1>6

\* The character the user took back is erased.
LEMMA BackspacingEnds ==
  ASSUME LineInv, NEW c, Backspacing(c), _print
  PROVE  Typing(0)'
<1>1. todo = <<Back>> /\ Shows(WRITER, Append(Line, c), exact)
  BY Zenon DEF Backspacing
<1>2. Head(todo) = Back /\ Tail(todo) = <<>>
  BY <1>1
<1>3. /\ WRITER' = write_string(WRITER, <<"BS">>)
      /\ exact' = (exact /\ WRITER.column_position > 0) /\ todo' = <<>>
      /\ INPUT_BUFFER' = INPUT_BUFFER /\ user' = user
  BY <1>2, PrintsBack, Zenon
<1>4. Line \in Seq(Printable) /\ Fits(INPUT_BUFFER)
  BY LineText, Zenon DEF Line, LineInv
<1>5. Shows(WRITER', Line, exact')
  BY <1>1, <1>3, <1>4, ErasedShown, Zenon
<1>6. Line' = Line
  BY <1>3 DEF Line
<1> QED BY <1>3, <1>4, <1>5, <1>6, AllShown, Zenon

\* The line ends, the command prints line by line, and the prompt begins a row.
LEMMA PromptingGoesOn ==
  ASSUME LineInv, Prompting, _print
  PROVE  Typing(0)' \/ Prompting'
<1> DEFINE n == Len(todo)
           X == LineCalls \cup {print_prompt(user)}
<1>1. /\ INPUT_BUFFER = <<>> /\ WRITER \in Screen /\ todo # <<>> /\ todo \in Seq(X)
      /\ \A i \in 1 .. n - 1 : todo[i] \in LineCalls
      /\ todo[n] = print_prompt(user) /\ (n = 1 => Fresh(WRITER))
  BY Zenon DEF Prompting
<1> HIDE DEF X
<1>2. n \in Nat \ {0} /\ Head(todo) = todo[1] /\ (n = 1 => Tail(todo) = <<>>)
  BY <1>1, HeadTaken, Zenon
<1>3. CASE n = 1
  <2>1. Head(todo) = print_prompt(user) /\ Tail(todo) = <<>>
    BY <1>1, <1>2, <1>3, Zenon
  <2>2. /\ WRITER' = write_string(WRITER, Prompt) /\ todo' = <<>>
        /\ INPUT_BUFFER' = <<>> /\ user' = user
    BY <1>1, <2>1, PrintsPrompt, Zenon
  <2>3. <<>> \in Seq(Printable) /\ Shows(WRITER, <<>>, TRUE)
    <3>1. <<>> \in Seq(Printable)
      OBVIOUS
    <3> QED BY <1>1, <1>3, <3>1, FreshShows, Zenon
  <2>4. /\ Prompt \in Seq(Printable) /\ <<>> \o Prompt = Prompt /\ Prompt \o <<>> = Prompt
        /\ Len(<<>>) + Len(Prompt) = Len(Prompt)
    BY PromptText DEF Prompt
  <2>5. Fits(INPUT_BUFFER) /\ Fits(INPUT_BUFFER')
    BY <1>1, <2>2, Zenon DEF LineInv
  <2>6. Len(<<>>) + Len(Prompt) <= BUFFER_HEIGHT * BUFFER_WIDTH
    <3>1. Len(Prompt \o INPUT_BUFFER) <= BUFFER_HEIGHT * BUFFER_WIDTH
      BY <2>5, LineText, Zenon DEF Prompt
    <3> QED BY <1>1, <2>4, <3>1, Zenon
  <2>7. Shows(WRITER', Prompt, TRUE)
    BY <2>2, <2>3, <2>4, <2>6, TextShown, Zenon
  <2>8. Line' = Prompt \o <<>>
    BY <2>2 DEF Line, Prompt
  <2>9. Shows(WRITER', Line', exact')
    BY <2>4, <2>7, <2>8, Zenon DEF Shows
  <2> QED BY <2>2, <2>5, <2>9, AllShown, Zenon
<1>4. CASE n > 1
  <2>1. 1 \in 1 .. n - 1 /\ Head(todo) \in LineCalls
    BY <1>1, <1>2, <1>4
  <2>2. /\ Fresh(WRITER') /\ todo' = Tail(todo) /\ INPUT_BUFFER' = INPUT_BUFFER
        /\ user' = user
    BY <1>1, <2>1, PrintsLine
  <2>3. /\ Tail(todo) \in Seq(X) /\ Len(Tail(todo)) = n - 1 /\ Tail(todo) # <<>>
        /\ \A i \in 1 .. n - 1 : Tail(todo)[i] = todo[i + 1]
    <3>1. /\ Tail(todo) \in Seq(X) /\ Len(Tail(todo)) = n - 1
          /\ \A i \in 1 .. n - 1 : Tail(todo)[i] = todo[i + 1]
      BY <1>1, HeadTaken, Zenon
    <3>2. n - 1 # Len(<<>>)
      <4>1. n \in Nat /\ n > 1 /\ Len(<<>>) = 0
        BY <1>2, <1>4
      <4> HIDE DEF n
      <4> QED BY <4>1
    <3> QED BY <3>1, <3>2, Zenon
  <2> DEFINE t == Tail(todo)
             m == n - 1
  <2>4. m \in 1 .. m /\ m + 1 = n /\ \A i \in 1 .. m - 1 : i \in 1 .. m /\ i + 1 \in 1 .. n - 1
    BY <1>2, <1>4
  <2>5. t[m] = print_prompt(user) /\ \A i \in 1 .. m - 1 : t[i] \in LineCalls
    BY <1>1, <2>3, <2>4, Zenon
  <2>6. print_prompt(user)' = print_prompt(user) /\ LineCalls' = LineCalls
    BY <2>2 DEF print_prompt, LineCalls, PromptOf, Show, Clear
  <2> HIDE DEF t
  <2>7. Prompting'
    BY <1>1, <2>2, <2>3, <2>5, <2>6 DEF Prompting, t, X, Fresh
  <2> QED BY <2>7
<1>5. n = 1 \/ n > 1
  <2>1. n \in Nat \ {0}
    BY <1>2, Zenon
  <2> HIDE DEF n
  <2> QED BY <2>1
<1> QED BY <1>3, <1>4, <1>5, Zenon

\* A call of _print takes the next of them off the list.
LEMMA PrintKeepsShow ==
  ASSUME LineInv, ShowInv, _print
  PROVE  ShowInv'
<1>1. todo # <<>> /\ user' \in {"Enos", "Guest"}
  BY Zenon DEF _print, ShowInv
<1> QED BY <1>1, TypingGoesOn, ErasingGoesOn, BackspacingEnds, PromptingGoesOn, Zenon DEF ShowInv

\* Ring 3 prints a line between any two calls: the last row begins anew, and the
\* screen has lost the line.
LEMMA SyscallKeepsShow ==
  ASSUME LineInv, ShowInv, syscall_print
  PROVE  ShowInv'
<1>1. /\ WRITER' = write_string(WRITER, <<"u", "LF">>) /\ exact' = FALSE
      /\ INPUT_BUFFER' = INPUT_BUFFER /\ user' = user /\ todo' = todo
  BY DEF syscall_print
<1>2. Line' = Line /\ Prompt' = Prompt /\ user' \in {"Enos", "Guest"}
  BY <1>1 DEF Line, Prompt, ShowInv
<1>3. Line \in Seq(Printable)
  BY LineText, Zenon DEF Line, LineInv
<1>4. ASSUME WRITER \in Screen PROVE Fresh(WRITER')
  <2>1. "u" # "BS" /\ "u" # "LF"
    OBVIOUS
  <2> QED BY <1>1, <1>4, <2>1, LineEnded, Zenon
<1>5. ASSUME NEW T \in Seq(Printable), WRITER \in Screen PROVE Shows(WRITER', T, exact')
  BY <1>1, <1>4, <1>5, FreshShows, Zenon
<1>6. ASSUME NEW n, Typing(n) PROVE Typing(n)'
  <2>1. /\ n \in 0 .. Len(Line) /\ WRITER \in Screen
        /\ todo = [i \in 1 .. n |-> Show(<<Line[Len(Line) - n + i]>>)]
    BY <1>6, Zenon DEF Typing, Shows
  <2>2. SubSeq(Line, 1, Len(Line) - n) \in Seq(Printable)
    BY <1>3, <2>1
  <2>3. Shows(WRITER', SubSeq(Line, 1, Len(Line) - n), exact')
    BY <1>5, <2>1, <2>2, Zenon
  <2> QED BY <1>1, <1>2, <2>1, <2>3, Zenon DEF Typing
<1>7. ASSUME NEW old, Erasing(old) PROVE Erasing(old)'
  <2>1. /\ Fits(old) /\ WRITER \in Screen
        /\ todo = Append(Repeat(Back, Len(old)), Show(INPUT_BUFFER))
    BY <1>7, Zenon DEF Erasing, Shows
  <2>2. Prompt \o old \in Seq(Printable)
    BY <2>1, LineText, Zenon DEF Prompt
  <2>3. Shows(WRITER', Prompt \o old, exact')
    BY <1>5, <2>1, <2>2, Zenon
  <2> QED BY <1>1, <1>2, <2>1, <2>3, Zenon DEF Erasing, Back
<1>8. ASSUME NEW c \in Printable, Backspacing(c) PROVE Backspacing(c)'
  <2>1. todo = <<Back>> /\ WRITER \in Screen
    BY <1>8, Zenon DEF Backspacing, Shows
  <2>2. Append(Line, c) \in Seq(Printable)
    BY <1>3
  <2>3. Shows(WRITER', Append(Line, c), exact')
    BY <1>5, <2>1, <2>2, Zenon
  <2> QED BY <1>1, <1>2, <2>1, <2>3, Zenon DEF Backspacing, Back
<1>9. ASSUME Prompting PROVE Prompting'
  <2>1. Fresh(WRITER') /\ WRITER' \in Screen
    BY <1>4, <1>9, Zenon DEF Prompting, Fresh
  <2>2. print_prompt(user') = print_prompt(user)
    BY <1>1, Zenon
  <2> QED BY <1>1, <1>9, <2>1, <2>2, Zenon DEF Prompting, LineCalls
<1> QED BY <1>2, <1>6, <1>7, <1>8, <1>9, Zenon DEF ShowInv

\* A key that prints nothing.
LEMMA NothingPrinted ==
  ASSUME LineInv, ShowInv, Ready, UNCHANGED <<WRITER, INPUT_BUFFER, user, todo, exact>>
  PROVE  ShowInv'
<1>1. Shows(WRITER, Line, exact)
  BY ReadyShows
<1>2. Line' = Line /\ WRITER' = WRITER /\ exact' = exact /\ user' = user
  BY DEF Line
<1>3. Fits(INPUT_BUFFER') /\ todo' = <<>>
  BY Zenon DEF LineInv, Ready
<1>4. Typing(0)'
  BY <1>1, <1>2, <1>3, AllShown, Zenon
<1> QED BY <1>2, <1>4, Zenon DEF ShowInv

\* replace_input_line: as many backspaces as the old line has characters.
LEMMA ReplaceKeepsShow ==
  ASSUME LineInv, ShowInv, Ready, NEW text, Fits(text), replace_input_line(text),
         UNCHANGED <<WRITER, user, exact>>
  PROVE  ShowInv'
<1>1. PICK old : old = INPUT_BUFFER
  OBVIOUS
<1>2. Shows(WRITER, Prompt \o old, exact) /\ Fits(old)
  BY <1>1, ReadyShows, Zenon DEF Line, Prompt, LineInv
<1>3. INPUT_BUFFER' = text
  BY ReplacedWhole, Zenon
<1>4. todo' = Append(Repeat(Back, Len(old)), Show(INPUT_BUFFER'))
  BY <1>1, Zenon DEF replace_input_line, Back
<1>5. Prompt' = Prompt /\ WRITER' = WRITER /\ exact' = exact /\ user' = user
  BY DEF Prompt
<1>6. Erasing(old)'
  BY <1>2, <1>4, <1>5, Zenon DEF Erasing, Back
<1> QED BY <1>5, <1>6, Zenon DEF ShowInv

\* Up and Down replace the line, or do nothing.
LEMMA BrowsingKeepsShow ==
  ASSUME LineInv, ShowInv, history_up \/ history_down
  PROVE  ShowInv'
<1>1. CASE history_up
  <2>1. Ready /\ UNCHANGED <<WRITER, user, exact>>
    BY <1>1, Zenon DEF history_up
  <2>2. CASE HISTORY.entries = <<>>
    <3>1. UNCHANGED <<INPUT_BUFFER, todo>>
      BY <1>1, <2>2 DEF history_up
    <3> QED BY <2>1, <3>1, NothingPrinted
  <2>3. CASE HISTORY.entries # <<>>
    BY <1>1, <2>1, <2>3, UpShows, ReplaceKeepsShow, Zenon
  <2> QED BY <2>2, <2>3
<1>2. CASE history_down
  <2>1. Ready /\ UNCHANGED <<WRITER, user, exact>>
    BY <1>2, Zenon DEF history_down
  <2>2. CASE HISTORY.index = None
    <3>1. UNCHANGED <<INPUT_BUFFER, todo>>
      BY <1>2, <2>2 DEF history_down
    <3> QED BY <2>1, <3>1, NothingPrinted
  <2>3. CASE HISTORY.index # None
    <3> DEFINE shown == IF HISTORY'.index = None THEN HISTORY.draft
                        ELSE HISTORY.entries[HISTORY'.index]
    <3>1. replace_input_line(shown)
      BY <1>2, <2>3, Zenon DEF history_down
    <3>2. Fits(INPUT_BUFFER') /\ INPUT_BUFFER' = shown
      BY <1>2, <2>3, DownShows, Zenon
    <3> HIDE DEF shown
    <3>3. Fits(shown)
      BY <3>2, Zenon
    <3> QED BY <2>1, <3>1, <3>3, ReplaceKeepsShow, Zenon
  <2> QED BY <2>2, <2>3
<1> QED BY <1>1, <1>2

\* r is s and then t.
Joins(r, s, t, X) ==
  /\ r \in Seq(X) /\ Len(r) = Len(s) + Len(t)
  /\ \A i \in 1 .. Len(s) : r[i] = s[i]
  /\ \A i \in 1 .. Len(t) : r[Len(s) + i] = t[i]

\* A text and what follows it.
LEMMA Joined ==
  ASSUME NEW X, NEW s \in Seq(X), NEW t \in Seq(X)
  PROVE  Joins(s \o t, s, t, X)
<1>1. s \o t \in Seq(X) /\ Len(s \o t) = Len(s) + Len(t)
  OBVIOUS
<1>2. ASSUME NEW i \in 1 .. Len(s) PROVE (s \o t)[i] = s[i]
  OBVIOUS
<1>3. ASSUME NEW i \in 1 .. Len(t) PROVE (s \o t)[Len(s) + i] = t[i]
  OBVIOUS
<1> QED BY <1>1, <1>2, <1>3, Zenon DEF Joins

\* push_char prints the characters that went into the buffer.
LEMMA CharKeepsShow ==
  ASSUME LineInv, ShowInv, NEW c \in Keys, NEW n \in Nat, push_char(c, n), LineInv'
  PROVE  ShowInv'
<1> DEFINE room == MAX_INPUT_LEN - Len(INPUT_BUFFER)
           k == IF n < room THEN n ELSE room
           pushed == Repeat(c, k)
           l == Len(Line)
<1>1. Shows(WRITER, Line, exact)
  BY ReadyShows, Zenon DEF push_char
<1>2. /\ INPUT_BUFFER' = INPUT_BUFFER \o pushed
      /\ todo' = [i \in DOMAIN pushed |-> Show(<<c>>)]
      /\ WRITER' = WRITER /\ user' = user /\ exact' = exact
  BY Zenon DEF push_char
<1>3. /\ INPUT_BUFFER \in Seq(Keys) /\ Len(INPUT_BUFFER) \in Nat
      /\ Len(INPUT_BUFFER) <= MAX_INPUT_LEN
  BY DEF LineInv, Fits, Text
<1>4. k \in Nat
  BY <1>3, LineAssumption
<1> HIDE DEF k
<1>5. Line \in Seq(Printable) /\ Prompt \in Seq(Printable) /\ INPUT_BUFFER \in Seq(Printable)
  BY LineText, PromptText, Zenon DEF Line, LineInv, Prompt
<1>6. l \in Nat /\ c \in Printable
  <2>1. c \in Printable
    BY TextAssumption, Zenon
  <2> QED BY <1>5, <2>1
<1>7. /\ pushed \in Seq(Printable) /\ Len(pushed) = k /\ DOMAIN pushed = 1 .. k
      /\ \A i \in 1 .. k : pushed[i] = c
  BY <1>4, <1>6 DEF Repeat
<1> HIDE DEF pushed
<1>8. Line' = Line \o pushed
  <2>1. Line' = Prompt \o (INPUT_BUFFER \o pushed)
    BY <1>2, Zenon DEF Line, Prompt
  <2>2. Line = Prompt \o INPUT_BUFFER
    BY Zenon DEF Line, Prompt
  <2>3. Prompt \o (INPUT_BUFFER \o pushed) = (Prompt \o INPUT_BUFFER) \o pushed
    BY <1>5, <1>7
  <2> QED BY <2>1, <2>2, <2>3, Zenon
<1>9. \E j : Typing(j)'
  <2> DEFINE L == Line \o pushed
  <2>1. /\ L \in Seq(Printable) /\ Len(L) = l + k
        /\ \A i \in 1 .. l : L[i] = Line[i]
        /\ \A i \in 1 .. k : L[l + i] = pushed[i]
    <3>1. Joins(L, Line, pushed, Printable)
      BY <1>5, <1>7, Joined, Zenon
    <3> HIDE DEF L
    <3> QED BY <1>7, <3>1, Zenon DEF Joins
  <2> HIDE DEF L, l
  <2>2. k \in 0 .. Len(L) /\ Len(L) - k = l
    BY <1>4, <1>6, <2>1
  <2>3. \A i \in 1 .. k : L[Len(L) - k + i] = c
    BY <1>7, <2>1, <2>2, Zenon
  <2>4. [i \in 1 .. k |-> Show(<<c>>)] = [i \in 1 .. k |-> Show(<<L[Len(L) - k + i]>>)]
    BY <2>3, Zenon
  <2>5. SubSeq(L, 1, l) = Line
    <3> DEFINE S == SubSeq(L, 1, l)
    <3>1. /\ S \in Seq(Printable) /\ Len(S) = l /\ \A i \in 1 .. l : S[i] = L[i]
      <4>1. l <= Len(L) /\ Len(L) \in Nat
        BY <1>4, <1>6, <2>1
      <4>2. \A i \in 1 .. l : i \in 1 .. Len(L)
        BY <1>6, <4>1
      <4> QED BY <1>6, <2>1, <4>1, <4>2
    <3> HIDE DEF S
    <3>2. S = Line
      BY <1>5, <2>1, <3>1 DEF l
    <3> QED BY <3>2 DEF S
  <2>6. Shows(WRITER', SubSeq(L, 1, Len(L) - k), exact')
    BY <1>1, <1>2, <2>2, <2>5, Zenon
  <2>7. todo' = [i \in 1 .. k |-> Show(<<L[Len(L) - k + i]>>)]
    BY <1>2, <1>7, <2>4, Zenon
  <2>8. Line' = L
    BY <1>8, Zenon DEF L
  <2>9. PICK j : j = k
    OBVIOUS
  <2>10. /\ j \in 0 .. Len(Line') /\ todo' = [i \in 1 .. j |-> Show(<<(Line')[Len(Line') - j + i]>>)]
         /\ Shows(WRITER', SubSeq(Line', 1, Len(Line') - j), exact')
    BY <2>2, <2>6, <2>7, <2>8, <2>9, Zenon
  <2>11. Typing(j)'
    BY <2>10, Zenon DEF Typing
  <2> QED BY <2>11, Zenon
<1> QED BY <1>2, <1>9, Zenon DEF ShowInv

\* push_char(8) prints one backspace for the character it takes away.
LEMMA BackspaceKeepsShow ==
  ASSUME LineInv, ShowInv, push_char_backspace
  PROVE  ShowInv'
<1>1. Ready /\ WRITER' = WRITER /\ user' = user /\ exact' = exact
  BY DEF push_char_backspace
<1>2. CASE INPUT_BUFFER = <<>> /\ UNCHANGED <<INPUT_BUFFER, todo>>
  BY <1>1, <1>2, NothingPrinted
<1>3. CASE /\ INPUT_BUFFER # <<>>
           /\ INPUT_BUFFER' = SubSeq(INPUT_BUFFER, 1, Len(INPUT_BUFFER) - 1)
           /\ todo' = <<Show(<<"BS">>)>>
  <2> DEFINE b == INPUT_BUFFER
             short == SubSeq(b, 1, Len(b) - 1)
  <2>1. Shows(WRITER, Prompt \o b, exact)
    BY <1>1, ReadyShows, Zenon DEF Line, Prompt
  <2>2. b \in Seq(Printable) /\ Prompt \in Seq(Printable)
    BY LineText, PromptText, Zenon DEF LineInv, Prompt
  <2>3. Len(b) # 0
    BY <1>3, <2>2
  <2>4. PICK c : c = b[Len(b)]
    OBVIOUS
  <2>5. short \in Seq(Printable) /\ c \in Printable /\ b = Append(short, c)
    BY <2>2, <2>3, <2>4, LastTaken, Zenon
  <2>6. INPUT_BUFFER' = short
    BY <1>3, Zenon
  <2> HIDE DEF short, b
  <2>7. Prompt \o Append(short, c) = Append(Prompt \o short, c)
    BY <2>2, <2>5
  <2>8. Line' = Prompt \o short
    BY <1>1, <2>6, Zenon DEF Line, Prompt
  <2>9. Shows(WRITER', Append(Line', c), exact') /\ todo' = <<Back>>
    BY <1>1, <1>3, <2>1, <2>5, <2>7, <2>8, Zenon DEF Back
  <2>10. Backspacing(c)'
    BY <2>9, Zenon DEF Backspacing, Back
  <2> QED BY <1>1, <2>5, <2>10, Zenon DEF ShowInv
<1> QED BY <1>2, <1>3, Zenon DEF push_char_backspace

\* Two and three calls, the last of which is p.
LEMMA FewCalls ==
  ASSUME NEW C, NEW a \in C, NEW b \in C, NEW p
  PROVE  /\ <<a, p>> \in Seq(C \cup {p}) /\ Len(<<a, p>>) = 2 /\ <<a, p>>[1] = a /\ <<a, p>>[2] = p
         /\ <<a>> \o <<b>> \o <<p>> = <<a, b, p>>
         /\ <<a, b, p>> \in Seq(C \cup {p}) /\ Len(<<a, b, p>>) = 3
         /\ <<a, b, p>>[1] = a /\ <<a, b, p>>[2] = b /\ <<a, b, p>>[3] = p
<1> DEFINE X == C \cup {p}
<1>1. a \in X /\ b \in X /\ p \in X
  OBVIOUS
<1> HIDE DEF X
<1>2. <<a, p>> \in Seq(X) /\ Len(<<a, p>>) = 2 /\ <<a, p>>[1] = a /\ <<a, p>>[2] = p
  BY <1>1
<1>3. /\ <<a, b, p>> \in Seq(X) /\ Len(<<a, b, p>>) = 3
      /\ <<a, b, p>>[1] = a /\ <<a, b, p>>[2] = b /\ <<a, b, p>>[3] = p
  BY <1>1
<1>4. <<a>> \o <<b>> = <<a, b>>
  <2> DEFINE t == <<a>> \o <<b>>
  <2>1. <<a>> \in Seq(X) /\ <<b>> \in Seq(X) /\ Len(<<a>>) = 1 /\ Len(<<b>>) = 1
    BY <1>1
  <2>2. t \in Seq(X) /\ Len(t) = 2 /\ t[1] = a /\ t[2] = b
    <3>1. Joins(t, <<a>>, <<b>>, X)
      BY <2>1, Joined, Zenon
    <3> HIDE DEF t
    <3>2. t \in Seq(X) /\ Len(t) = 1 + 1 /\ t[1] = <<a>>[1] /\ t[1 + 1] = <<b>>[1]
      <4>1. 1 \in 1 .. 1
        OBVIOUS
      <4> QED BY <2>1, <3>1, <4>1, Zenon DEF Joins
    <3>3. <<a>>[1] = a /\ <<b>>[1] = b /\ 1 + 1 = 2
      OBVIOUS
    <3> QED BY <3>2, <3>3, Zenon
  <2> HIDE DEF t
  <2>3. t = <<a, b>>
    BY <2>2
  <2> QED BY <2>3 DEF t
<1>5. <<a, b>> \o <<p>> = <<a, b, p>>
  <2> DEFINE t == <<a, b>> \o <<p>>
  <2>1. <<a, b>> \in Seq(X) /\ <<p>> \in Seq(X) /\ Len(<<a, b>>) = 2 /\ Len(<<p>>) = 1
    BY <1>1
  <2>2. t \in Seq(X) /\ Len(t) = 3 /\ t[1] = a /\ t[2] = b /\ t[3] = p
    <3>1. Joins(t, <<a, b>>, <<p>>, X)
      BY <2>1, Joined, Zenon
    <3> HIDE DEF t
    <3> QED BY <2>1, <3>1 DEF Joins
  <2> HIDE DEF t
  <2>3. t = <<a, b, p>>
    BY <2>2
  <2> QED BY <2>3 DEF t
<1> QED BY <1>2, <1>3, <1>4, <1>5, Zenon DEF X

\* push_char(10): the line end, what the command prints, and a prompt.
LEMMA NewlineKeepsShow ==
  ASSUME LineInv, ShowInv, push_char_newline
  PROVE  ShowInv'
<1>1. WRITER' = WRITER /\ INPUT_BUFFER' = <<>> /\ WRITER \in Screen
  <2>1. Ready /\ WRITER' = WRITER /\ INPUT_BUFFER' = <<>>
    BY DEF push_char_newline
  <2> QED BY <2>1, ReadyShows, Zenon DEF Shows
<1>2. Show(<<"LF">>) \in LineCalls /\ Show(<<"o", "LF">>) \in LineCalls /\ Clear \in LineCalls
  BY Zenon DEF LineCalls
<1>3. ASSUME NEW u \in {"Enos", "Guest"}, user' = u,
             \/ todo' = <<Show(<<"LF">>), print_prompt(u)>>
             \/ \E b \in LineCalls : todo' = <<Show(<<"LF">>)>> \o <<b>> \o <<print_prompt(u)>>
      PROVE  ShowInv'
  <2> DEFINE C == LineCalls
             a == Show(<<"LF">>)
             p == print_prompt(u)
             Ends(t) == /\ t # <<>> /\ t \in Seq(C \cup {p}) /\ Len(t) \in Nat /\ Len(t) # 1
                        /\ \A i \in 1 .. Len(t) - 1 : t[i] \in C
                        /\ t[Len(t)] = p
  <2>1. a \in C
    BY <1>2
  <2> HIDE DEF C, a, p
  <2>2. ASSUME NEW b \in C PROVE Ends(<<a, p>>) /\ Ends(<<a>> \o <<b>> \o <<p>>)
    <3>1. Ends(<<a, p>>)
      <4> DEFINE t == <<a, p>>
      <4>1. t \in Seq(C \cup {p}) /\ Len(t) = 2 /\ t[1] = a /\ t[2] = p
        BY <2>1, FewCalls
      <4> HIDE DEF t
      <4>2. Ends(t)
        BY <2>1, <4>1
      <4> QED BY <4>2 DEF t
    <3>2. Ends(<<a>> \o <<b>> \o <<p>>)
      <4> DEFINE t == <<a, b, p>>
      <4>1. /\ <<a>> \o <<b>> \o <<p>> = t /\ t \in Seq(C \cup {p}) /\ Len(t) = 3
            /\ t[1] = a /\ t[2] = b /\ t[3] = p
        BY <2>1, <2>2, FewCalls
      <4> HIDE DEF t
      <4>2. Ends(t)
        BY <2>1, <2>2, <4>1
      <4> QED BY <4>1, <4>2, Zenon
    <3> QED BY <3>1, <3>2, Zenon
  <2>3. Ends(todo')
    <3>1. Clear \in C
      BY <1>2, Zenon DEF C
    <3> QED BY <1>3, <2>2, <3>1, Zenon DEF C, a, p
  <2>4. Prompting'
    BY <1>1, <1>3, <2>3, Zenon DEF Prompting, C, p, LineCalls
  <2> QED BY <1>3, <2>4, Zenon DEF ShowInv
<1>4. CASE todo' = <<Show(<<"LF">>), print_prompt(user)>> /\ UNCHANGED user
  BY <1>3, <1>4, Zenon DEF ShowInv
<1>5. CASE \E out \in Output(user) :
             /\ todo' = <<Show(<<"LF">>)>> \o out.calls \o <<print_prompt(out.user)>>
             /\ user' = out.user
  <2>1. PICK out \in Output(user) :
             /\ todo' = <<Show(<<"LF">>)>> \o out.calls \o <<print_prompt(out.user)>>
             /\ user' = out.user
    BY <1>5, Zenon
  <2> DEFINE c == Clear
             o == Show(<<"o", "LF">>)
  <2>2. \/ out = [calls |-> <<c>>, user |-> user]
        \/ out = [calls |-> <<o>>, user |-> user]
        \/ \E v \in {"Enos", "Guest"} : out = [calls |-> <<o>>, user |-> v]
    BY <2>1, Zenon DEF Output
  <2>3. user \in {"Enos", "Guest"}
    BY Zenon DEF ShowInv
  <2> HIDE DEF c, o
  <2>4. out.user \in {"Enos", "Guest"} /\ (out.calls = <<c>> \/ out.calls = <<o>>)
    BY <2>2, <2>3
  <2> QED BY <1>2, <1>3, <2>1, <2>4, Zenon DEF c, o
<1> QED BY <1>4, <1>5, Zenon DEF push_char_newline

-----------------------------------------------------------------------------
(* Theorems on the screen *)

\* kernel_main printed a line, and the prompt follows.
LEMMA InitShow == Init => ShowInv
<1> SUFFICES ASSUME Init PROVE ShowInv
  OBVIOUS
<1> DEFINE w == [chars |-> [row \in 1 .. BUFFER_HEIGHT |-> Leftover],
                 column_position |-> 0, cursor |-> 0]
           p == print_prompt("Enos")
<1>1. /\ WRITER = update_cursor(new_line(w)) /\ INPUT_BUFFER = <<>> /\ user = "Enos"
      /\ todo = <<p>>
  BY Zenon DEF Init, Booted
<1>2. w \in Screen
  <2>1. Leftover \in Row
    BY DEF Leftover, Row, Cell
  <2>2. 0 \in 0 .. BUFFER_WIDTH /\ 0 \in Nat
    BY ScreenAssumption
  <2> QED BY <2>1, <2>2 DEF Screen
<1> HIDE DEF w, p
<1>3. Fresh(new_line(w))
  BY <1>2, NewLine, Zenon DEF Fresh, LastLine
<1>4. Fresh(WRITER)
  BY <1>1, <1>3, CursorAside, Zenon DEF Fresh, LastLine
<1>5. /\ todo # <<>> /\ todo \in Seq(LineCalls \cup {p}) /\ Len(todo) = 1 /\ todo[Len(todo)] = p
      /\ \A i \in 1 .. Len(todo) - 1 : FALSE
  <2> DEFINE X == LineCalls \cup {p}
  <2>1. p \in X
    OBVIOUS
  <2> HIDE DEF X
  <2>2. todo # <<>> /\ todo \in Seq(X) /\ Len(todo) = 1 /\ todo[1] = p
    BY <1>1, <2>1
  <2>3. \A i \in 1 .. 1 - 1 : FALSE
    OBVIOUS
  <2> QED BY <2>2, <2>3, Zenon DEF X
<1>6. Prompting
  BY <1>1, <1>4, <1>5, Zenon DEF Prompting, Fresh, p
<1> QED BY <1>1, <1>6, Zenon DEF ShowInv

\* Every key, every call of _print and every line of ring 3 keep ShowInv.
LEMMA NextKeepsShow == LineInv /\ LineInv' /\ ShowInv /\ [Next]_vars => ShowInv'
<1> SUFFICES ASSUME LineInv, LineInv', ShowInv, [Next]_vars PROVE ShowInv'
  OBVIOUS
<1>1. CASE \E c \in Keys : push_char(c, 1)
  <2>1. 1 \in Nat
    OBVIOUS
  <2> QED BY <1>1, <2>1, CharKeepsShow, Zenon
<1>2. CASE push_char(" ", 4)
  <2>1. " " \in Keys
    BY TextAssumption, Zenon
  <2>2. 4 \in Nat
    OBVIOUS
  <2> QED BY <1>2, <2>1, <2>2, CharKeepsShow, Zenon
<1>3. CASE UNCHANGED vars
  <2>1. UNCHANGED <<WRITER, INPUT_BUFFER, user, todo, exact>>
    BY <1>3 DEF vars
  <2> QED BY <2>1, Zenon DEF ShowInv, Typing, Erasing, Backspacing, Prompting, Line, Prompt
<1> QED BY <1>1, <1>2, <1>3, BrowsingKeepsShow, BackspaceKeepsShow, NewlineKeepsShow,
           PrintKeepsShow, SyscallKeepsShow, Zenon DEF Next

\* ShowInv holds in every state of the line editor: what the screen shows and the
\* calls the shell has still to make add up to the prompt and the input buffer.
THEOREM ShowInductive == Spec => []ShowInv
BY InitShow, NextKeepsShow, LineInductive, PTL DEF Spec

\* The writer, the key handlers and SYS_PRINT together: between two keys the last
\* row shows the end of the line, on a screen of any size.
THEOREM LastRowIsTrue == Spec => []LastRowShowsLine
<1>1. LineInv /\ ShowInv => LastRowShowsLine
  <2> SUFFICES ASSUME LineInv, ShowInv, Ready PROVE Shown(WRITER, Line)
    BY Zenon DEF LastRowShowsLine, LastRow, Shown, LastLine, Blank
  <2> QED BY ReadyShows, Zenon DEF Shows
<1> QED BY <1>1, LineInductive, ShowInductive, PTL

\* If nobody else printed and no backspace met column 0, prompt and buffer are on
\* the screen from their first character to their last.
THEOREM WholeLineIsShown == Spec => []WholeLineShown
<1>1. LineInv /\ ShowInv => WholeLineShown
  <2> SUFFICES ASSUME LineInv, ShowInv, Ready, exact PROVE Whole(WRITER, Line)
    BY Zenon DEF WholeLineShown, Whole, InRows
  <2> QED BY ReadyShows, Zenon DEF Shows
<1> QED BY <1>1, LineInductive, ShowInductive, PTL
=============================================================================
