---------------------------- MODULE KernelProofs ----------------------------
(***************************************************************************)
(* Locks and interrupts of the kernel, for every set of commands and keys, *)
(* every queue capacity and any ring 3 program.                            *)
(*                                                                         *)
(* First the code, piece by piece: no piece takes a lock it already holds, *)
(* every piece releases what it takes, a thread holds a lock of a handler  *)
(* with interrupts off only, and never HISTORY and INPUT_BUFFER at once.   *)
(* Then the running kernel.  That a handler is never cut into is what lets *)
(* TaskManager take a whole method for one step.                           *)
(***************************************************************************)
EXTENDS Kernel, TLAPS, SequenceTheorems

\* The locks that thread code takes with interrupts off, and the locks that the
\* code of handlers takes at any time.
Guarded == {"SCHEDULER", "PICS", "SERIAL1"}
HandlerLocks == Guarded \cup {"WRITER", "SCANCODE_QUEUE"}

\* The state of one continuation: the locks it holds, whether interrupts are on
\* while it executes, and whether it belongs to the thread or to a handler.
State(h, i, w) == [held |-> h, irq |-> i, who |-> w]
Off(s) == State(s.held, "off", s.who)

\* The states that are safe for a thread, and for a handler that takes locks of ls.
ThreadStates ==
  {s \in [held : SUBSET Locks, irq : {"on", "off"}, who : {"thread"}] :
     /\ s.irq = "on" => s.held \cap Guarded = {}
     /\ ~({"HISTORY", "INPUT_BUFFER"} \subseteq s.held)}
HandlerStates(ls) == [held : SUBSET ls, irq : {"off"}, who : {"handler"}]

\* The instructions; the body of a without_interrupts has no such block of its own.
OpsOf(w) ==
  IF w = "thread" THEN {"pop", "kill", "hlt"}
  ELSE {"push", "eoi", "schedule", "sleep", "terminate", "loop"}
SimpleInstructions ==
  [op : {"pop", "kill", "hlt", "eoi", "schedule", "sleep", "terminate", "loop", "sti"}]
    \cup [op : {"lock", "unlock"}, lock : Locks]
    \cup [op : {"push"}, key : Keys]
Instructions ==
  SimpleInstructions \cup [op : {"cli"}, body : Seq(SimpleInstructions)]

\* What one instruction may do to the state of its continuation.  A lock is not
\* taken twice, only the holder releases it, and no handler executes sti.
Moves(i, s, t) ==
  \/ i.op = "lock" /\ i.lock \notin s.held /\ t = State(s.held \cup {i.lock}, s.irq, s.who)
  \/ i.op = "unlock" /\ i.lock \in s.held /\ t = State(s.held \ {i.lock}, s.irq, s.who)
  \/ i.op = "sti" /\ s.who = "thread" /\ t = State(s.held, "on", s.who)
  \/ i.op \in OpsOf(s.who) /\ t = s

\* Code c leads from state s to state t through states of S only; B is the set of
\* the blocks, paired with the states they are entered in, that c may contain.
Runs(S, B, c, s, t) ==
  /\ c \in Seq(Instructions)
  /\ \E tr \in [1 .. Len(c) + 1 -> S] :
       /\ tr[1] = s /\ tr[Len(c) + 1] = t
       /\ \A k \in 1 .. Len(c) :
            \/ Moves(c[k], tr[k], tr[k + 1])
            \/ <<c[k], tr[k]>> \in B /\ tr[k + 1] = tr[k]

\* The without_interrupts blocks whose body gives back all it takes.
Blocks(S) ==
  {b \in [op : {"cli"}, body : Seq(SimpleInstructions)] \X S :
     Runs(S, {}, b[1].body, Off(b[2]), Off(b[2]))}

-----------------------------------------------------------------------------
(* Code in general *)

\* No code, no effect.
LEMMA RunsEmpty ==
  ASSUME NEW S, NEW B, NEW s \in S
  PROVE  Runs(S, B, <<>>, s, s)
<1> DEFINE tr == [k \in 1 .. 1 |-> s]
<1>1. <<>> \in Seq(Instructions) /\ Len(<<>>) = 0
  OBVIOUS
<1>2. tr \in [1 .. 0 + 1 -> S] /\ tr[1] = s /\ tr[0 + 1] = s
  OBVIOUS
<1> HIDE DEF tr
<1> QED BY <1>1, <1>2 DEF Runs

\* Code that is over has reached its last state.
LEMMA RunsOver ==
  ASSUME NEW S, NEW B, NEW s, NEW t, Runs(S, B, <<>>, s, t)
  PROVE  s = t /\ s \in S
<1>1. Len(<<>>) = 0
  OBVIOUS
<1>2. PICK tr \in [1 .. 0 + 1 -> S] : tr[1] = s /\ tr[0 + 1] = t
  BY <1>1 DEF Runs
<1> QED BY <1>2

\* One instruction.
LEMMA RunsOne ==
  ASSUME NEW S, NEW B, NEW i \in Instructions, NEW s \in S, NEW t \in S,
         Moves(i, s, t) \/ (<<i, s>> \in B /\ t = s)
  PROVE  Runs(S, B, <<i>>, s, t)
<1> DEFINE tr == [k \in 1 .. 2 |-> IF k = 1 THEN s ELSE t]
<1>1. <<i>> \in Seq(Instructions) /\ Len(<<i>>) = 1 /\ <<i>>[1] = i
  OBVIOUS
<1>2. tr \in [1 .. 1 + 1 -> S] /\ tr[1] = s /\ tr[1 + 1] = t
  OBVIOUS
<1> HIDE DEF tr
<1>3. \A k \in 1 .. 1 : \/ Moves(<<i>>[k], tr[k], tr[k + 1])
                        \/ <<<<i>>[k], tr[k]>> \in B /\ tr[k + 1] = tr[k]
  BY <1>1, <1>2
<1> QED BY <1>1, <1>2, <1>3 DEF Runs

\* Two pieces of code in a row.
LEMMA RunsBoth ==
  ASSUME NEW S, NEW B, NEW c, NEW d, NEW s, NEW t, NEW u,
         Runs(S, B, c, s, t), Runs(S, B, d, t, u)
  PROVE  Runs(S, B, c \o d, s, u)
<1> DEFINE m == Len(c)
           n == Len(d)
<1>1. c \in Seq(Instructions) /\ d \in Seq(Instructions) /\ m \in Nat /\ n \in Nat
  BY DEF Runs
<1>2. PICK p \in [1 .. m + 1 -> S] :
        /\ p[1] = s /\ p[m + 1] = t
        /\ \A k \in 1 .. m : \/ Moves(c[k], p[k], p[k + 1])
                             \/ <<c[k], p[k]>> \in B /\ p[k + 1] = p[k]
  BY DEF Runs
<1>3. PICK q \in [1 .. n + 1 -> S] :
        /\ q[1] = t /\ q[n + 1] = u
        /\ \A k \in 1 .. n : \/ Moves(d[k], q[k], q[k + 1])
                             \/ <<d[k], q[k]>> \in B /\ q[k + 1] = q[k]
  BY DEF Runs
<1>4. /\ c \o d \in Seq(Instructions) /\ Len(c \o d) = m + n
      /\ \A k \in 1 .. m + n : (c \o d)[k] = IF k <= m THEN c[k] ELSE d[k - m]
  BY <1>1, ConcatProperties
<1> DEFINE tr == [k \in 1 .. m + n + 1 |-> IF k <= m THEN p[k] ELSE q[k - m]]
<1> HIDE DEF m, n
<1>5. tr \in [1 .. m + n + 1 -> S]
  <2> SUFFICES ASSUME NEW k \in 1 .. m + n + 1
               PROVE  (IF k <= m THEN p[k] ELSE q[k - m]) \in S
    OBVIOUS
  <2>1. CASE k <= m
    <3>1. k \in 1 .. m + 1
      BY <1>1, <2>1
    <3> QED BY <3>1, <2>1
  <2>2. CASE ~(k <= m)
    <3>1. k - m \in 1 .. n + 1
      BY <1>1, <2>2
    <3> QED BY <3>1, <2>2
  <2> QED BY <2>1, <2>2
<1>6. /\ \A k \in 1 .. m : tr[k] = p[k]
      /\ \A j \in 1 .. n + 1 : tr[m + j] = q[j]
  <2>1. ASSUME NEW k \in 1 .. m PROVE tr[k] = p[k]
    <3>1. k \in 1 .. m + n + 1 /\ k <= m
      BY <1>1
    <3> QED BY <3>1
  <2>2. ASSUME NEW j \in 1 .. n + 1 PROVE tr[m + j] = q[j]
    <3> DEFINE k == m + j
    <3>1. k \in 1 .. m + n + 1 /\ ~(k <= m) /\ k - m = j
      BY <1>1
    <3> HIDE DEF k
    <3>2. tr[k] = q[j]
      BY <3>1
    <3> QED BY <3>2 DEF k
  <2> QED BY <2>1, <2>2
<1> HIDE DEF tr
<1>7. tr[1] = s /\ tr[m + n + 1] = u
  <2>1. tr[m + (n + 1)] = u /\ m + (n + 1) = m + n + 1
    BY <1>1, <1>3, <1>6
  <2>2. CASE m = 0
    <3>1. tr[0 + 1] = q[1]
      BY <2>2, <1>1, <1>6
    <3> QED BY <3>1, <2>1, <2>2, <1>2, <1>3
  <2>3. CASE m # 0
    BY <2>1, <2>3, <1>1, <1>2, <1>6
  <2> QED BY <2>2, <2>3
<1>8. tr[m + 1] = p[m + 1]
  <2>1. 1 \in 1 .. n + 1
    BY <1>1
  <2> QED BY <2>1, <1>2, <1>3, <1>6
<1>9. ASSUME NEW k \in 1 .. m + n
      PROVE  \/ Moves((c \o d)[k], tr[k], tr[k + 1])
             \/ <<(c \o d)[k], tr[k]>> \in B /\ tr[k + 1] = tr[k]
  <2>1. CASE k <= m
    <3>1. tr[k] = p[k] /\ (c \o d)[k] = c[k] /\ k \in 1 .. m
      BY <2>1, <1>1, <1>4, <1>6
    <3>2. tr[k + 1] = p[k + 1]
      <4>1. CASE k = m
        BY <4>1, <1>8
      <4>2. CASE k # m
        <5>1. k + 1 \in 1 .. m
          BY <4>2, <3>1, <1>1
        <5> QED BY <5>1, <1>6
      <4> QED BY <4>1, <4>2
    <3> QED BY <3>1, <3>2, <1>2
  <2>2. CASE ~(k <= m)
    <3> DEFINE j == k - m
    <3>1. j \in 1 .. n /\ j \in 1 .. n + 1 /\ j + 1 \in 1 .. n + 1
          /\ k = m + j /\ k + 1 = m + (j + 1)
      BY <2>2, <1>1
    <3>2. (c \o d)[k] = d[j]
      BY <2>2, <1>4
    <3> HIDE DEF j
    <3>3. tr[k] = q[j] /\ tr[k + 1] = q[j + 1]
      BY <3>1, <1>6
    <3> QED BY <3>1, <3>2, <3>3, <1>3
  <2> QED BY <2>1, <2>2
<1> QED BY <1>4, <1>5, <1>7, <1>9 DEF Runs

\* Executing the first instruction leaves code that runs on from there.
LEMMA RunsHead ==
  ASSUME NEW S, NEW B, NEW c, NEW s, NEW u, Runs(S, B, c, s, u), c # <<>>
  PROVE  /\ Head(c) \in Instructions /\ s \in S
         /\ \E t \in S :
              /\ Moves(Head(c), s, t) \/ (<<Head(c), s>> \in B /\ t = s)
              /\ Runs(S, B, Tail(c), t, u)
<1> DEFINE n == Len(c)
<1>1. /\ c \in Seq(Instructions) /\ n \in Nat /\ n # 0
      /\ Tail(c) \in Seq(Instructions) /\ Len(Tail(c)) = n - 1
      /\ Head(c) = c[1] /\ Head(c) \in Instructions
      /\ \A k \in 1 .. n - 1 : Tail(c)[k] = c[k + 1]
  BY DEF Runs
<1>2. PICK p \in [1 .. n + 1 -> S] :
        /\ p[1] = s /\ p[n + 1] = u
        /\ \A k \in 1 .. n : \/ Moves(c[k], p[k], p[k + 1])
                             \/ <<c[k], p[k]>> \in B /\ p[k + 1] = p[k]
  BY DEF Runs
<1> HIDE DEF n
<1> DEFINE tr == [k \in 1 .. n - 1 + 1 |-> p[k + 1]]
<1>3. tr \in [1 .. n - 1 + 1 -> S] /\ tr[1] = p[2] /\ tr[n - 1 + 1] = p[n + 1]
      /\ 1 \in 1 .. n /\ 2 \in 1 .. n + 1 /\ 1 \in 1 .. n + 1
  BY <1>1
<1>4. \A k \in 1 .. n - 1 : /\ tr[k] = p[k + 1] /\ tr[k + 1] = p[k + 1 + 1]
                            /\ k + 1 \in 1 .. n
  BY <1>1
<1> HIDE DEF tr
<1>5. \A k \in 1 .. n - 1 : \/ Moves(Tail(c)[k], tr[k], tr[k + 1])
                            \/ <<Tail(c)[k], tr[k]>> \in B /\ tr[k + 1] = tr[k]
  BY <1>1, <1>2, <1>4
<1>6. Runs(S, B, Tail(c), p[2], u)
  BY <1>1, <1>2, <1>3, <1>5 DEF Runs
<1>7. p[1] \in S /\ p[2] \in S
  BY <1>2, <1>3
<1> QED BY <1>1, <1>2, <1>3, <1>6, <1>7

\* Code without blocks runs whatever the blocks are.
LEMMA RunsPlain ==
  ASSUME NEW S, NEW B, NEW c, NEW s, NEW t, Runs(S, {}, c, s, t)
  PROVE  Runs(S, B, c, s, t)
BY DEF Runs

\* Both ends of a run are allowed states.
LEMMA RunsEnds ==
  ASSUME NEW S, NEW B, NEW c, NEW s, NEW t, Runs(S, B, c, s, t)
  PROVE  s \in S /\ t \in S /\ c \in Seq(Instructions)
<1> DEFINE n == Len(c)
<1>1. c \in Seq(Instructions) /\ n \in Nat
  BY DEF Runs
<1>2. PICK p \in [1 .. n + 1 -> S] : p[1] = s /\ p[n + 1] = t
  BY DEF Runs
<1> HIDE DEF n
<1>3. 1 \in 1 .. n + 1 /\ n + 1 \in 1 .. n + 1
  BY <1>1
<1> QED BY <1>1, <1>2, <1>3

\* Code that contains no block is made of simple instructions.
LEMMA RunsSimple ==
  ASSUME NEW S, NEW c, NEW s, NEW t, Runs(S, {}, c, s, t)
  PROVE  c \in Seq(SimpleInstructions)
<1>1. c \in Seq(Instructions)
  BY DEF Runs
<1>2. ASSUME NEW k \in 1 .. Len(c) PROVE c[k] \in SimpleInstructions
  <2>1. PICK p : Moves(c[k], p[k], p[k + 1])
    BY DEF Runs
  <2>2. c[k] \in Instructions
    BY <1>1
  <2>3. c[k].op # "cli"
    BY <2>1 DEF Moves, OpsOf
  <2> QED BY <2>2, <2>3 DEF Instructions
<1> QED BY <1>1, <1>2

\* An instruction that touches neither a lock nor the interrupt flag.
LEMMA OpRuns ==
  ASSUME NEW S, NEW B, NEW s \in S, NEW op, op \in OpsOf(s.who), op # "push"
  PROVE  Runs(S, B, Do(op), s, s)
<1> DEFINE i == [op |-> op]
<1>1. i \in Instructions /\ i.op = op
  BY DEF Instructions, SimpleInstructions, OpsOf
<1>2. Do(op) = <<i>>
  BY DEF Do
<1> HIDE DEF i
<1>3. Moves(i, s, s)
  BY <1>1 DEF Moves
<1> QED BY <1>1, <1>2, <1>3, RunsOne

\* With: code under a lock that is not held yet, released at the end.
LEMMA LockedRuns ==
  ASSUME NEW S, NEW B, NEW h, NEW q, NEW w, NEW l \in Locks, l \notin h, NEW body,
         State(h, q, w) \in S,
         Runs(S, B, body, State(h \cup {l}, q, w), State(h \cup {l}, q, w))
  PROVE  Runs(S, B, With(l, body), State(h, q, w), State(h, q, w))
<1> DEFINE a == [op |-> "lock", lock |-> l]
           b == [op |-> "unlock", lock |-> l]
           s == State(h, q, w)
           t == State(h \cup {l}, q, w)
<1>1. a \in Instructions /\ b \in Instructions
  BY DEF Instructions, SimpleInstructions
<1>2. With(l, body) = (<<a>> \o body) \o <<b>>
  BY DEF With
<1>3. t \in S
  BY RunsEnds
<1>4. Moves(a, s, t)
  BY DEF Moves, State
<1>5. Moves(b, t, s)
  <2>1. (h \cup {l}) \ {l} = h
    OBVIOUS
  <2> QED BY <2>1 DEF Moves, State
<1>6. s \in S /\ Runs(S, B, body, t, t)
  OBVIOUS
<1> HIDE DEF a, b, s, t
<1>7. Runs(S, B, <<a>>, s, t) /\ Runs(S, B, <<b>>, t, s)
  BY <1>1, <1>3, <1>4, <1>5, <1>6, RunsOne
<1>8. Runs(S, B, <<a>> \o body, s, t)
  BY <1>6, <1>7, RunsBoth
<1>9. Runs(S, B, (<<a>> \o body) \o <<b>>, s, s)
  BY <1>7, <1>8, RunsBoth
<1> QED BY <1>2, <1>9 DEF s

\* without_interrupts, entered with interrupts on or off.
LEMMA GuardedRuns ==
  ASSUME NEW S, NEW h, NEW q, NEW w, NEW body, State(h, q, w) \in S,
         Runs(S, {}, body, State(h, "off", w), State(h, "off", w))
  PROVE  Runs(S, Blocks(S), without_interrupts(body), State(h, q, w), State(h, q, w))
<1> DEFINE i == [op |-> "cli", body |-> body]
           s == State(h, q, w)
<1>1. body \in Seq(SimpleInstructions)
  BY RunsSimple
<1>2. i \in [op : {"cli"}, body : Seq(SimpleInstructions)] /\ i.body = body
  BY <1>1
<1>3. i \in Instructions
  BY <1>2 DEF Instructions
<1>4. Off(s) = State(h, "off", w)
  BY DEF Off, State
<1>5. s \in S
  OBVIOUS
<1>6. without_interrupts(body) = <<i>>
  BY DEF without_interrupts
<1> HIDE DEF i, s
<1>7. <<i, s>> \in Blocks(S)
  BY <1>2, <1>4, <1>5 DEF Blocks
<1> QED BY <1>3, <1>5, <1>6, <1>7, RunsOne DEF s

-----------------------------------------------------------------------------
(* The code of the shell thread *)

\* The locks a thread may hold with interrupts on.
FreeSets == {h \in SUBSET (Locks \ Guarded) : ~({"HISTORY", "INPUT_BUFFER"} \subseteq h)}

\* Thread code that starts and ends with interrupts on and the locks h held.
ThreadRuns(c, h) ==
  Runs(ThreadStates, Blocks(ThreadStates), c, State(h, "on", "thread"), State(h, "on", "thread"))

\* With interrupts off a thread may also hold the locks of handlers.
LEMMA ThreadStateOf ==
  ASSUME NEW h \in FreeSets
  PROVE  /\ State(h, "on", "thread") \in ThreadStates
         /\ \A g \in SUBSET Guarded : State(h \cup g, "off", "thread") \in ThreadStates
<1>1. /\ State(h, "on", "thread") \in [held : SUBSET Locks, irq : {"on", "off"}, who : {"thread"}]
      /\ h \cap Guarded = {} /\ ~({"HISTORY", "INPUT_BUFFER"} \subseteq h)
  BY DEF FreeSets, State
<1>2. State(h, "on", "thread").held = h
  BY DEF State
<1>3. ASSUME NEW g \in SUBSET Guarded
      PROVE  State(h \cup g, "off", "thread") \in ThreadStates
  <2>1. h \cup g \in SUBSET Locks /\ ~({"HISTORY", "INPUT_BUFFER"} \subseteq h \cup g)
    BY DEF FreeSets, Locks, Guarded
  <2>2. /\ State(h \cup g, "off", "thread") \in [held : SUBSET Locks, irq : {"on", "off"}, who : {"thread"}]
        /\ State(h \cup g, "off", "thread").held = h \cup g
        /\ State(h \cup g, "off", "thread").irq = "off"
    BY <2>1 DEF State
  <2> QED BY <2>1, <2>2 DEF ThreadStates
<1> QED BY <1>1, <1>2, <1>3 DEF ThreadStates

\* The thread may have nothing to do.
LEMMA ThreadEmpty ==
  ASSUME NEW h \in FreeSets PROVE ThreadRuns(<<>>, h)
BY ThreadStateOf, RunsEmpty DEF ThreadRuns

\* The thread may do one thing after the other.
LEMMA ThreadBoth ==
  ASSUME NEW h, NEW c, NEW d, ThreadRuns(c, h), ThreadRuns(d, h)
  PROVE  ThreadRuns(c \o d, h)
BY RunsBoth DEF ThreadRuns

\* The pop of poll_input, and hlt.
LEMMA ThreadOp ==
  ASSUME NEW op \in {"pop", "hlt"}
  PROVE  ThreadRuns(Do(op), {})
<1>1. State({}, "on", "thread") \in ThreadStates
  BY ThreadStateOf DEF FreeSets
<1>2. State({}, "on", "thread").who = "thread"
  BY DEF State
<1> QED BY <1>1, <1>2, OpRuns DEF ThreadRuns, OpsOf

\* A lock that no handler needs may be taken with interrupts on.
LEMMA ThreadLocked ==
  ASSUME NEW h \in FreeSets, NEW l \in Locks, l \notin h, h \cup {l} \in FreeSets,
         NEW c, ThreadRuns(c, h \cup {l})
  PROVE  ThreadRuns(With(l, c), h)
BY ThreadStateOf, LockedRuns DEF ThreadRuns

\* Every lock may be taken with interrupts off.
LEMMA ThreadGuarded ==
  ASSUME NEW h \in FreeSets, NEW l \in Locks, l \notin h, h \cup {l} \in FreeSets \/ l \in Guarded,
         NEW c,
         LET t == State(h \cup {l}, "off", "thread") IN Runs(ThreadStates, {}, c, t, t)
  PROVE  ThreadRuns(without_interrupts(With(l, c)), h)
<1>1. State(h, "off", "thread") \in ThreadStates /\ State(h, "on", "thread") \in ThreadStates
  <2>1. h \cup {} = h /\ {} \in SUBSET Guarded
    OBVIOUS
  <2> QED BY <2>1, ThreadStateOf
<1>2. Runs(ThreadStates, {}, With(l, c), State(h, "off", "thread"), State(h, "off", "thread"))
  BY <1>1, LockedRuns
<1> QED BY <1>1, <1>2, GuardedRuns DEF ThreadRuns

\* Allocating, printing and calling the scheduler.
LEMMA ThreadParts ==
  ASSUME NEW h \in FreeSets
  PROVE  /\ "ALLOCATOR" \notin h => ThreadRuns(alloc, h)
         /\ "WRITER" \notin h => ThreadRuns(vga_print, h)
         /\ ThreadRuns(serial_print, h)
         /\ ThreadRuns(scheduler_stats, h)
         /\ "ALLOCATOR" \notin h => ThreadRuns(scheduler_process_snapshot, h)
         /\ ThreadRuns(scheduler_kill_task, h)
<1> DEFINE off(l) == State(h \cup {l}, "off", "thread")
<1>1. \A l \in {"WRITER", "ALLOCATOR"} : h \cup {l} \in FreeSets /\ l \in Locks
  BY DEF FreeSets, Locks, Guarded
<1>2. \A l \in Guarded : l \notin h /\ l \in Locks
  BY DEF FreeSets, Locks, Guarded
<1>3. \A l \in Guarded \cup {"WRITER", "ALLOCATOR"} : off(l) \in ThreadStates
  <2>1. ASSUME NEW l \in {"WRITER", "ALLOCATOR"} PROVE off(l) \in ThreadStates
    <3>1. (h \cup {l}) \cup {} = h \cup {l} /\ {} \in SUBSET Guarded
      OBVIOUS
    <3> QED BY <3>1, <1>1, ThreadStateOf
  <2>2. ASSUME NEW l \in Guarded PROVE off(l) \in ThreadStates
    BY ThreadStateOf
  <2> QED BY <2>1, <2>2
<1>4. \A l \in Guarded \cup {"WRITER", "ALLOCATOR"} : Runs(ThreadStates, {}, <<>>, off(l), off(l))
  BY <1>3, RunsEmpty
<1>5. "ALLOCATOR" \notin h => ThreadRuns(alloc, h)
  BY <1>1, ThreadEmpty, ThreadLocked DEF alloc
<1>6. "WRITER" \notin h => ThreadRuns(vga_print, h)
  BY <1>1, <1>4, ThreadGuarded DEF vga_print
<1>7. ThreadRuns(serial_print, h) /\ ThreadRuns(scheduler_stats, h)
  BY <1>2, <1>4, ThreadGuarded DEF serial_print, scheduler_stats, Guarded
<1>8. ASSUME "ALLOCATOR" \notin h PROVE ThreadRuns(scheduler_process_snapshot, h)
  <2> DEFINE both == State((h \cup {"SCHEDULER"}) \cup {"ALLOCATOR"}, "off", "thread")
  <2>1. both \in ThreadStates
    <3>1. /\ (h \cup {"SCHEDULER"}) \cup {"ALLOCATOR"} = (h \cup {"ALLOCATOR"}) \cup {"SCHEDULER"}
          /\ {"SCHEDULER"} \in SUBSET Guarded
      BY DEF Guarded
    <3> QED BY <3>1, <1>1, ThreadStateOf
  <2>2. Runs(ThreadStates, {}, <<>>, both, both)
    BY <2>1, RunsEmpty
  <2>3. "ALLOCATOR" \notin h \cup {"SCHEDULER"} /\ "SCHEDULER" \in Guarded
    BY <1>8 DEF Guarded
  <2>4. Runs(ThreadStates, {}, alloc, off("SCHEDULER"), off("SCHEDULER"))
    BY <1>1, <1>3, <2>2, <2>3, LockedRuns DEF alloc
  <2> QED BY <1>2, <2>3, <2>4, ThreadGuarded DEF scheduler_process_snapshot
<1>9. ThreadRuns(scheduler_kill_task, h)
  <2>1. "SCHEDULER" \in Guarded
    BY DEF Guarded
  <2>2. off("SCHEDULER").who = "thread"
    BY DEF State
  <2>3. Runs(ThreadStates, {}, Do("kill"), off("SCHEDULER"), off("SCHEDULER"))
    BY <1>3, <2>1, <2>2, OpRuns DEF OpsOf
  <2> QED BY <1>2, <2>1, <2>3, ThreadGuarded DEF scheduler_kill_task
<1> QED BY <1>5, <1>6, <1>7, <1>8, <1>9

\* All programs of P start and end with no lock held.
Whole(P) == \A c \in P : ThreadRuns(c, {})

\* A choice of programs followed by a choice of programs.
LEMMA ThenRuns ==
  ASSUME NEW P, NEW Q, Whole(P), Whole(Q)
  PROVE  Whole(Then(P, Q))
<1> SUFFICES ASSUME NEW c \in Then(P, Q) PROVE ThreadRuns(c, {})
  BY DEF Whole
<1>1. PICK p \in P, q \in Q : c = p \o q
  BY DEF Then
<1>2. ThreadRuns(p, {}) /\ ThreadRuns(q, {})
  BY DEF Whole
<1> QED BY <1>1, <1>2, ThreadBoth

\* A lock that is taken with no other held, around nothing or an allocation.
Own(l) == ThreadRuns(With(l, <<>>), {}) /\ ThreadRuns(With(l, alloc), {})

\* The critical sections of the shell that contain at most an allocation.
LEMMA PlainLocks ==
  /\ \A l \in {"INPUT_BUFFER", "HISTORY", "KEYBOARD_STATE", "SESSION", "FILES"} : Own(l)
  /\ ThreadRuns(With("WRITER", <<>>), {})
  /\ ThreadRuns(With("SCANCODE_QUEUE", Do("pop")), {})
<1>1. {} \in FreeSets /\ \A l \in Locks \ Guarded : {} \cup {l} \in FreeSets
  BY DEF FreeSets
<1>2. \A l \in Locks \ Guarded : ThreadRuns(With(l, <<>>), {})
  BY <1>1, ThreadEmpty, ThreadLocked
<1>3. ASSUME NEW l \in {"INPUT_BUFFER", "HISTORY", "KEYBOARD_STATE", "SESSION", "FILES"}
      PROVE  Own(l)
  <2>1. l \in Locks \ Guarded /\ "ALLOCATOR" \notin {} \cup {l}
    BY DEF Locks, Guarded
  <2>2. ThreadRuns(alloc, {} \cup {l})
    BY <1>1, <2>1, ThreadParts
  <2> QED BY <1>1, <1>2, <2>1, <2>2, ThreadLocked DEF Own
<1>4. "WRITER" \in Locks \ Guarded /\ "SCANCODE_QUEUE" \in Locks \ Guarded
  BY DEF Locks, Guarded
<1>5. ThreadRuns(Do("pop"), {} \cup {"SCANCODE_QUEUE"})
  <2> DEFINE s == State({} \cup {"SCANCODE_QUEUE"}, "on", "thread")
  <2>1. s \in ThreadStates
    BY <1>1, <1>4, ThreadStateOf
  <2>2. s.who = "thread"
    BY DEF State
  <2> QED BY <2>1, <2>2, OpRuns DEF ThreadRuns, OpsOf
<1> QED BY <1>1, <1>2, <1>3, <1>4, <1>5, ThreadLocked

\* The parts of ThreadParts where no lock is held.
LEMMA FreeParts ==
  /\ ThreadRuns(<<>>, {}) /\ ThreadRuns(alloc, {}) /\ ThreadRuns(vga_print, {})
  /\ ThreadRuns(serial_print, {}) /\ ThreadRuns(scheduler_stats, {})
  /\ ThreadRuns(scheduler_process_snapshot, {}) /\ ThreadRuns(scheduler_kill_task, {})
<1>1. {} \in FreeSets
  BY DEF FreeSets
<1> QED BY <1>1, ThreadEmpty, ThreadParts

\* Every shell command.
LEMMA CommandRuns ==
  ASSUME NEW c \in Commands
  PROVE  Whole(command(c))
<1> USE PlainLocks, FreeParts DEF Own
<1>1. ThreadRuns(command_ps, {})
  BY ThreadBoth DEF command_ps
<1>2. ThreadRuns(command_uptime, {})
  BY ThreadBoth DEF command_uptime
<1>3. ThreadRuns(command_top, {})
  BY ThreadBoth DEF command_top
<1>4. ThreadRuns(command_tasks, {})
  BY <1>1, ThreadBoth DEF command_tasks
<1>5. ThreadRuns(command_meminfo, {})
  BY ThreadBoth DEF command_meminfo
<1>6. /\ ThreadRuns(command_whoami, {}) /\ ThreadRuns(command_touch, {})
      /\ ThreadRuns(command_fsinfo, {})
  BY ThreadBoth DEF command_whoami, command_touch, command_fsinfo
<1>7. ThreadRuns(command_echo, {}) /\ ThreadRuns(clear_screen, {})
  BY DEF command_echo, clear_screen
<1>8. Whole({With("SESSION", <<>>)})
  BY DEF Whole
<1>9. Whole(command_kill)
  <2>1. ThreadRuns(scheduler_kill_task \o vga_print \o command_ps, {})
    BY <1>1, ThreadBoth
  <2>2. Whole({vga_print, scheduler_kill_task \o vga_print \o command_ps})
    BY <2>1 DEF Whole
  <2> QED BY <1>8, <2>2, ThenRuns DEF command_kill
<1>10. Whole(command_rm)
  <2>1. ThreadRuns(With("FILES", alloc) \o vga_print, {})
    BY ThreadBoth
  <2>2. Whole({vga_print, With("FILES", alloc) \o vga_print})
    BY <2>1 DEF Whole
  <2> QED BY <1>8, <2>2, ThenRuns DEF command_rm
<1> DEFINE plain == {clear_screen, command_echo, command_uptime, command_ps, command_top,
                     command_tasks, command_meminfo, command_whoami, command_touch,
                     command_fsinfo}
<1>11. \A p \in plain : Whole({p})
  BY <1>1, <1>2, <1>3, <1>4, <1>5, <1>6, <1>7 DEF Whole
<1>12. Whole(command_ls)
  <2>1. ThreadRuns(With("FILES", <<>>) \o vga_print, {})
    BY ThreadBoth
  <2>2. ThreadRuns(With("FILES", alloc) \o alloc \o vga_print \o alloc \o vga_print, {})
    BY ThreadBoth
  <2> QED BY <2>1, <2>2 DEF Whole, command_ls
<1>13. \/ \E p \in plain : command(c) = {p}
       \/ command(c) = command_kill \/ command(c) = command_rm \/ command(c) = command_ls
  BY CodeAssumption DEF command
<1> HIDE DEF plain
<1> QED BY <1>9, <1>10, <1>11, <1>12, <1>13

\* Enter: the line is taken, recorded and executed, and the prompt printed.
LEMMA EnterRuns == Whole(evaluate_command)
<1> USE PlainLocks, FreeParts DEF Own
<1>1. Whole({With("INPUT_BUFFER", alloc)}) /\ Whole({With("HISTORY", alloc)})
      /\ Whole({With("HISTORY", <<>>)})
  BY DEF Whole
<1>2. Whole({print_prompt})
  BY ThreadBoth DEF Whole, print_prompt
<1> DEFINE all == UNION {command(c) : c \in Commands}
           recorded == Then({With("HISTORY", alloc)}, all)
<1>3. Whole(all)
  BY CommandRuns DEF Whole
<1> HIDE DEF all
<1>4. Whole(recorded)
  BY <1>1, <1>3, ThenRuns
<1> HIDE DEF recorded
<1>5. Whole({With("HISTORY", <<>>)} \cup recorded)
  BY <1>1, <1>4 DEF Whole
<1>6. Whole(Then({With("HISTORY", <<>>)} \cup recorded, {print_prompt}))
  BY <1>2, <1>5, ThenRuns
<1>7. evaluate_command =
        Then({With("INPUT_BUFFER", alloc)},
             Then({With("HISTORY", <<>>)} \cup recorded, {print_prompt}))
  BY DEF evaluate_command, recorded, all
<1> QED BY <1>1, <1>6, <1>7, ThenRuns

\* Every key: editing, browsing and Enter.
LEMMA ScancodeRuns ==
  ASSUME NEW k \in Keys
  PROVE  Whole(process_scancode(k))
<1> USE PlainLocks, FreeParts DEF Own
<1>1. ThreadRuns(replace_input_line, {})
  <2>1. {} \in FreeSets /\ {} \cup {"INPUT_BUFFER"} \in FreeSets /\ "INPUT_BUFFER" \in Locks
        /\ "ALLOCATOR" \notin {} \cup {"INPUT_BUFFER"} /\ "WRITER" \notin {} \cup {"INPUT_BUFFER"}
    BY DEF FreeSets, Locks, Guarded
  <2>2. ThreadRuns(vga_print \o alloc, {} \cup {"INPUT_BUFFER"})
    BY <2>1, ThreadParts, ThreadBoth
  <2>3. ThreadRuns(With("INPUT_BUFFER", vga_print \o alloc), {})
    BY <2>1, <2>2, ThreadLocked
  <2> QED BY <2>3, ThreadBoth DEF replace_input_line
<1>2. Whole({<<>>, replace_input_line}) /\ Whole({<<>>, vga_print}) /\ Whole({<<>>})
      /\ Whole({vga_print}) /\ Whole({With("INPUT_BUFFER", <<>>)})
      /\ Whole({With("HISTORY", alloc)}) /\ Whole({With("KEYBOARD_STATE", <<>>)})
  BY <1>1 DEF Whole
<1>3. Whole(history_up)
  <2>1. ThreadRuns(With("INPUT_BUFFER", alloc) \o With("HISTORY", alloc), {})
    BY ThreadBoth
  <2>2. Whole({With("INPUT_BUFFER", alloc) \o With("HISTORY", alloc)})
    BY <2>1 DEF Whole
  <2> QED BY <1>2, <2>2, ThenRuns DEF history_up
<1>4. Whole(history_down)
  BY <1>2, ThenRuns DEF history_down
<1>5. Whole(push_char("backspace"))
  <2>1. ThreadRuns(With("HISTORY", <<>>) \o With("INPUT_BUFFER", <<>>), {})
    BY ThreadBoth
  <2>2. Whole({With("HISTORY", <<>>) \o With("INPUT_BUFFER", <<>>)})
    BY <2>1 DEF Whole
  <2> QED BY <1>2, <2>2, ThenRuns DEF push_char
<1>6. Whole(push_char("enter"))
  BY <1>2, EnterRuns, ThenRuns DEF push_char
<1>7. Whole(push_char("char"))
  <2>1. ThreadRuns(With("HISTORY", <<>>) \o With("INPUT_BUFFER", alloc) \o vga_print, {})
    BY ThreadBoth
  <2>2. Whole({<<>>, With("HISTORY", <<>>) \o With("INPUT_BUFFER", alloc) \o vga_print})
    BY <2>1 DEF Whole
  <2> QED BY <1>2, <2>2, ThenRuns DEF push_char
<1> DEFINE rest == CASE k = "modifier" -> {<<>>}
                     [] k = "up"   -> history_up
                     [] k = "down" -> history_down
                     [] OTHER      -> push_char(k)
<1>8. Whole(rest)
  <2>1. k \in {"modifier", "up", "down", "backspace", "enter", "char"}
    BY CodeAssumption
  <2>2. rest \in {{<<>>}, history_up, history_down, push_char("backspace"),
                  push_char("enter"), push_char("char")}
    BY <2>1
  <2> HIDE DEF rest
  <2> QED BY <1>2, <1>3, <1>4, <1>5, <1>6, <1>7, <2>2
<1> HIDE DEF rest
<1>9. Whole(Then({With("KEYBOARD_STATE", <<>>)}, rest))
  BY <1>2, <1>8, ThenRuns
<1> QED BY <1>9 DEF process_scancode, rest

\* The end of a round of background_thread.
LEMMA HeartbeatRuns == Whole(heartbeat_and_hlt)
<1>1. Whole({<<>>, serial_print}) /\ Whole({Do("hlt")})
  BY FreeParts, ThreadOp DEF Whole
<1> QED BY <1>1, ThenRuns DEF heartbeat_and_hlt

-----------------------------------------------------------------------------
(* The code of the handlers *)

\* Handler code that takes locks of ls only and gives back all it takes.
HandlerDone == State({}, "off", "handler")
HandlerRuns(ls, c) ==
  Runs(HandlerStates(ls), Blocks(HandlerStates(ls)), c, HandlerDone, HandlerDone)

\* The states of handlers.
LEMMA HandlerStateOf ==
  ASSUME NEW ls, NEW h \in SUBSET ls
  PROVE  State(h, "off", "handler") \in HandlerStates(ls) /\ State(h, "off", "handler").who = "handler"
BY DEF HandlerStates, State

\* A handler may do one thing after the other.
LEMMA HandlerBoth ==
  ASSUME NEW ls, NEW c, NEW d, HandlerRuns(ls, c), HandlerRuns(ls, d)
  PROVE  HandlerRuns(ls, c \o d)
BY RunsBoth DEF HandlerRuns

\* A critical section around one instruction, and the prints.
LEMMA HandlerParts ==
  ASSUME NEW ls \in SUBSET Locks, HandlerLocks \subseteq ls
  PROVE  /\ HandlerRuns(ls, <<>>)
         /\ HandlerRuns(ls, Do("loop"))
         /\ HandlerRuns(ls, ack)
         /\ HandlerRuns(ls, vga_print) /\ HandlerRuns(ls, serial_print)
         /\ \A k \in Keys :
              HandlerRuns(ls, With("SCANCODE_QUEUE", <<[op |-> "push", key |-> k]>>))
         /\ main_task_tracked \/ "ALLOCATOR" \in ls =>
              \A op \in {"schedule", "sleep", "terminate"} :
                HandlerRuns(ls, With("SCHEDULER", track \o Do(op)))
<1> DEFINE S == HandlerStates(ls)
           with(l) == State({} \cup {l}, "off", "handler")
<1>1. HandlerLocks \subseteq Locks /\ HandlerDone \in S /\ HandlerDone.who = "handler"
  BY HandlerStateOf DEF HandlerLocks, Guarded, Locks, HandlerDone
<1>2. \A l \in ls : with(l) \in S /\ with(l).who = "handler"
  BY HandlerStateOf
<1>3. ASSUME NEW B, NEW l \in ls, NEW c, Runs(S, B, c, with(l), with(l))
      PROVE  Runs(S, B, With(l, c), HandlerDone, HandlerDone)
  BY <1>1, <1>3, LockedRuns DEF HandlerDone
<1> HIDE DEF S, with
<1>4. HandlerRuns(ls, <<>>) /\ HandlerRuns(ls, Do("loop"))
  BY <1>1, RunsEmpty, OpRuns DEF HandlerRuns, S, OpsOf
<1>5. HandlerRuns(ls, ack)
  <2>1. Runs(S, Blocks(S), Do("eoi"), with("PICS"), with("PICS"))
    BY <1>2, OpRuns DEF OpsOf, HandlerLocks, Guarded
  <2> QED BY <1>3, <2>1 DEF ack, HandlerRuns, S, HandlerLocks, Guarded
<1>6. ASSUME NEW l \in ls PROVE HandlerRuns(ls, without_interrupts(With(l, <<>>)))
  <2>1. Runs(S, {}, With(l, <<>>), HandlerDone, HandlerDone)
    BY <1>2, <1>3, RunsEmpty
  <2> QED BY <1>1, <2>1, GuardedRuns DEF HandlerRuns, S, HandlerDone
<1>7. HandlerRuns(ls, vga_print) /\ HandlerRuns(ls, serial_print)
  BY <1>6 DEF vga_print, serial_print, HandlerLocks, Guarded
<1>8. ASSUME NEW k \in Keys
      PROVE  HandlerRuns(ls, With("SCANCODE_QUEUE", <<[op |-> "push", key |-> k]>>))
  <2> DEFINE i == [op |-> "push", key |-> k]
             s == with("SCANCODE_QUEUE")
  <2>1. i \in Instructions /\ i.op = "push"
    BY DEF Instructions, SimpleInstructions
  <2>2. s \in S /\ s.who = "handler"
    BY <1>2 DEF HandlerLocks
  <2> HIDE DEF i, s
  <2>3. Moves(i, s, s)
    BY <2>1, <2>2 DEF Moves, OpsOf
  <2>4. Runs(S, Blocks(S), <<i>>, s, s)
    BY <2>1, <2>2, <2>3, RunsOne
  <2> QED BY <1>3, <2>4 DEF HandlerRuns, S, HandlerLocks, i, s
<1>9. ASSUME main_task_tracked \/ "ALLOCATOR" \in ls,
             NEW op \in {"schedule", "sleep", "terminate"}
      PROVE  HandlerRuns(ls, With("SCHEDULER", track \o Do(op)))
  <2> DEFINE s == with("SCHEDULER")
  <2>1. "SCHEDULER" \in ls /\ s \in S /\ s.who = "handler"
    BY <1>2 DEF HandlerLocks, Guarded
  <2>2. Runs(S, Blocks(S), Do(op), s, s)
    BY <2>1, OpRuns DEF OpsOf
  <2>3. Runs(S, Blocks(S), track, s, s)
    <3>1. CASE main_task_tracked
      BY <2>1, <3>1, RunsEmpty DEF track
    <3>2. CASE ~main_task_tracked
      <4> DEFINE t == State(({} \cup {"SCHEDULER"}) \cup {"ALLOCATOR"}, "off", "handler")
      <4>1. t \in S
        BY <2>1, <3>2, <1>9, HandlerStateOf DEF S
      <4>2. Runs(S, Blocks(S), <<>>, t, t)
        BY <4>1, RunsEmpty
      <4>3. "ALLOCATOR" \notin {} \cup {"SCHEDULER"} /\ "ALLOCATOR" \in Locks
        BY DEF Locks
      <4> QED BY <2>1, <3>2, <4>2, <4>3, LockedRuns DEF track, alloc, with
    <3> QED BY <3>1, <3>2
  <2>4. Runs(S, Blocks(S), track \o Do(op), s, s)
    BY <2>2, <2>3, RunsBoth
  <2> QED BY <1>3, <2>1, <2>4 DEF HandlerRuns, S
<1> QED BY <1>4, <1>5, <1>7, <1>8, <1>9

\* Every handler.  It allocates only while user_main is not tracked.
LEMMA InterruptRuns ==
  ASSUME NEW ls \in SUBSET Locks, HandlerLocks \subseteq ls,
         main_task_tracked \/ "ALLOCATOR" \in ls
  PROVE  /\ HandlerRuns(ls, timer_interrupt)
         /\ \A k \in Keys : HandlerRuns(ls, keyboard_interrupt(k))
         /\ \A e \in UserEvents : HandlerRuns(ls, gate(e))
<1>1. HandlerRuns(ls, timer_interrupt)
  BY HandlerParts, HandlerBoth DEF timer_interrupt
<1>2. \A k \in Keys : HandlerRuns(ls, keyboard_interrupt(k))
  BY HandlerParts, HandlerBoth DEF keyboard_interrupt
<1>3. HandlerRuns(ls, vga_print \o serial_print)
  BY HandlerParts, HandlerBoth
<1>4. HandlerRuns(ls, page_fault_dispatcher)
  BY HandlerParts, HandlerBoth DEF page_fault_dispatcher
<1>5. HandlerRuns(ls, default_exception_handler)
  BY HandlerParts, HandlerBoth DEF default_exception_handler
<1>6. ASSUME NEW e \in UserEvents PROVE HandlerRuns(ls, gate(e))
  <2>1. gate(e) \in {page_fault_dispatcher, default_exception_handler, vga_print \o serial_print,
                     With("SCHEDULER", track \o Do("sleep")), serial_print, <<>>}
    <3>1. e \in {"print", "sleep", "unknown", "invalid", "fault", "exception"}
      BY CodeAssumption
    <3> QED BY <3>1 DEF gate, syscall_dispatcher
  <2>2. HandlerRuns(ls, With("SCHEDULER", track \o Do("sleep")))
    BY HandlerParts
  <2> QED BY <1>3, <1>4, <1>5, <2>1, <2>2, HandlerParts
<1> QED BY <1>1, <1>2, <1>6

-----------------------------------------------------------------------------
(* Acknowledging *)

\* The end-of-interrupt command is among the instructions of c.
Acknowledges(c) == \E k \in 1 .. Len(c) : c[k].op = "eoi"

\* It stays among them when code is added before or after.
LEMMA AckIn ==
  ASSUME NEW c \in Seq(Instructions), NEW d \in Seq(Instructions), Acknowledges(c)
  PROVE  Acknowledges(c \o d) /\ Acknowledges(d \o c)
<1>1. PICK k \in 1 .. Len(c) : c[k].op = "eoi"
  BY DEF Acknowledges
<1>2. /\ Len(c \o d) = Len(c) + Len(d) /\ Len(d \o c) = Len(d) + Len(c)
      /\ k \in 1 .. Len(c \o d) /\ (c \o d)[k] = c[k]
  BY ConcatProperties
<1>3. Len(d) + k \in 1 .. Len(d \o c) /\ (d \o c)[Len(d) + k] = c[k]
  BY <1>2
<1> QED BY <1>1, <1>2, <1>3 DEF Acknowledges

\* It stays among them until it is executed.
LEMMA AckLater ==
  ASSUME NEW c \in Seq(Instructions), Acknowledges(c)
  PROVE  c # <<>> /\ (Head(c).op # "eoi" => Acknowledges(Tail(c)))
<1>1. PICK k \in 1 .. Len(c) : c[k].op = "eoi"
  BY DEF Acknowledges
<1>2. c # <<>>
  OBVIOUS
<1>3. ASSUME Head(c).op # "eoi" PROVE Acknowledges(Tail(c))
  <2>1. Head(c) = c[1] /\ Len(Tail(c)) = Len(c) - 1
        /\ \A j \in 1 .. Len(c) - 1 : Tail(c)[j] = c[j + 1]
    BY <1>2
  <2>2. k # 1
    BY <1>1, <1>3, <2>1
  <2>3. k - 1 \in 1 .. Len(c) - 1 /\ k - 1 + 1 = k
    BY <2>2
  <2>4. Tail(c)[k - 1] = c[k - 1 + 1]
    BY <2>1, <2>3
  <2>5. Tail(c)[k - 1].op = "eoi" /\ k - 1 \in 1 .. Len(Tail(c))
    BY <1>1, <2>1, <2>3, <2>4
  <2> QED BY <2>5 DEF Acknowledges
<1> QED BY <1>2, <1>3

\* Both interrupt handlers acknowledge.
LEMMA InterruptsAcknowledge ==
  /\ Acknowledges(timer_interrupt)
  /\ \A k \in Keys : Acknowledges(keyboard_interrupt(k))
<1> DEFINE a == [op |-> "lock", lock |-> "PICS"]
           b == [op |-> "unlock", lock |-> "PICS"]
           i == [op |-> "eoi"]
<1>1. a \in Instructions /\ b \in Instructions /\ i \in Instructions /\ i.op = "eoi"
  BY DEF Instructions, SimpleInstructions, Locks
<1>2. ack = (<<a>> \o <<i>>) \o <<b>>
  BY DEF ack, With, Do
<1> HIDE DEF a, b, i
<1>3. /\ <<a>> \in Seq(Instructions) /\ <<b>> \in Seq(Instructions) /\ <<i>> \in Seq(Instructions)
      /\ <<a>> \o <<i>> \in Seq(Instructions)
  BY <1>1
<1>4. Acknowledges(<<i>>)
  BY <1>1 DEF Acknowledges
<1>5. ack \in Seq(Instructions) /\ Acknowledges(ack)
  <2>1. Acknowledges(<<a>> \o <<i>>)
    BY <1>3, <1>4, AckIn
  <2>2. Acknowledges((<<a>> \o <<i>>) \o <<b>>)
    BY <1>3, <2>1, AckIn
  <2>3. (<<a>> \o <<i>>) \o <<b>> \in Seq(Instructions)
    BY <1>3
  <2> QED BY <1>2, <2>2, <2>3
<1>6. HandlerLocks \cup {"ALLOCATOR"} \in SUBSET Locks
  BY DEF HandlerLocks, Guarded, Locks
<1>7. \A c : HandlerRuns(HandlerLocks \cup {"ALLOCATOR"}, c) => c \in Seq(Instructions)
  BY RunsEnds DEF HandlerRuns
<1>8. With("SCHEDULER", track \o Do("schedule")) \in Seq(Instructions)
  BY <1>6, <1>7, HandlerParts
<1>9. \A k \in Keys : With("SCANCODE_QUEUE", <<[op |-> "push", key |-> k]>>) \in Seq(Instructions)
  BY <1>6, <1>7, HandlerParts
<1> HIDE DEF HandlerRuns
<1> QED BY <1>5, <1>8, <1>9, AckIn DEF timer_interrupt, keyboard_interrupt

-----------------------------------------------------------------------------
(* The running kernel. *)

\* The shell thread is in state s of its code, which gives back all locks and turns
\* interrupts on.  While it does not execute, interrupts are on in it.
ThreadFree == State({}, "on", "thread")
ThreadSide(s) ==
  /\ Runs(ThreadStates, Blocks(ThreadStates), shell, s, ThreadFree)
  /\ s.irq = IF if_flag \/ InHandler \/ running # ShellPid THEN "on" ELSE "off"

\* The one active handler, if any, is in state h of its code, with interrupts off.  It
\* needs the allocator only if it cut in where the thread held no lock.
MayTake(ls, s) ==
  \/ ls = HandlerLocks
  \/ ls = HandlerLocks \cup {"ALLOCATOR"} /\ s.held = {}
HandlerSide(h, s) ==
  \/ handlers = <<>> /\ h = HandlerDone
  \/ /\ ~if_flag /\ running # TM!KernelMain
     /\ \E c, ls : /\ handlers = <<c>>
                   /\ MayTake(ls, s)
                   /\ Runs(HandlerStates(ls), Blocks(HandlerStates(ls)), c, h, HandlerDone)

\* The inductive invariant: every lock that is held is held by the thread or by the
\* handler, not by both, and both run code that is safe from here on.
LockInv ==
  /\ running = ShellPid => main_task_tracked
  /\ main_task_tracked \/ shell = <<>>
  /\ \E s, h : /\ ThreadSide(s) /\ HandlerSide(h, s)
               /\ held = s.held \cup h.held /\ s.held \cap h.held = {}

-----------------------------------------------------------------------------
(* The steps *)

\* The task manager never goes back to kernel_main, it enters the shell thread only
\* when user_main is tracked, and it does not forget that user_main is.
LEMMA ManagerStep ==
  ASSUME running # TM!KernelMain, running = ShellPid => main_task_tracked, manager_step
  PROVE  /\ running' # TM!KernelMain
         /\ running' = ShellPid => main_task_tracked'
         /\ main_task_tracked => main_task_tracked'
<1>1. ASSUME NEW s, NEW f PROVE TM!OwnerOf(s, f) # TM!KernelMain
  <2>1. CASE \E p \in TM!Pids : s[p] = f
    <3>1. TM!OwnerOf(s, f) \in TM!Pids
      BY <2>1, Zenon DEF TM!OwnerOf
    <3> QED BY <3>1, KernelAssumption DEF TM!Pids, TM!KernelMain
  <2>2. CASE ~\E p \in TM!Pids : s[p] = f
    BY <2>2 DEF TM!OwnerOf, TM!Lost, TM!KernelMain
  <2> QED BY <2>1, <2>2
<1>2. ASSUME NEW m, NEW s, TM!SwitchToNext(m, s)
      PROVE  /\ running' # TM!KernelMain
             /\ running' = ShellPid => main_task_tracked'
             /\ main_task_tracked => main_task_tracked'
  BY <1>1, <1>2 DEF TM!SwitchToNext, TM!Resume
<1>3. CASE TM!scheduler_tick
  BY <1>2, <1>3 DEF TM!scheduler_tick, TM!schedule_next
<1>4. CASE TM!terminate_current_user_task_from_fault
  BY <1>2, <1>4 DEF TM!terminate_current_user_task_from_fault
<1>5. CASE \E ticks \in SleepArgs : TM!sleep_current_task(ticks)
  BY <1>5 DEF TM!sleep_current_task
<1>6. CASE (\E pid \in TM!Pids : TM!kill_task(pid)) \/ UNCHANGED manager
  BY <1>6 DEF TM!kill_task, manager
<1> QED BY <1>3, <1>4, <1>5, <1>6 DEF manager_step

\* An instruction of the active handler: it goes on with code c in state h.
LEMMA HandlerGoesOn ==
  ASSUME NEW s, NEW h, NEW c, NEW ls,
         ThreadSide(s), InHandler, main_task_tracked' \/ shell = <<>>, MayTake(ls, s),
         Runs(HandlerStates(ls), Blocks(HandlerStates(ls)), c, h, HandlerDone),
         handlers' = <<c>>, shell' = shell, ~if_flag', running' # TM!KernelMain,
         running' = ShellPid => main_task_tracked',
         held' = s.held \cup h.held, s.held \cap h.held = {}
  PROVE  LockInv'
<1>1. <<c>> # <<>>
  OBVIOUS
<1>2. ThreadSide(s)'
  BY <1>1 DEF ThreadSide, InHandler
<1>3. HandlerSide(h, s)'
  BY DEF HandlerSide
<1> QED BY <1>2, <1>3 DEF LockInv

\* An instruction of the shell thread, which is then in state s.
LEMMA ThreadGoesOn ==
  ASSUME NEW s, ~InHandler, running = ShellPid, main_task_tracked, handlers' = handlers,
         running' = running, main_task_tracked' = main_task_tracked,
         Runs(ThreadStates, Blocks(ThreadStates), shell', s, ThreadFree),
         s.irq = IF if_flag' THEN "on" ELSE "off", held' = s.held
  PROVE  LockInv'
<1>1. handlers = <<>> /\ handlers' = <<>>
  BY DEF InHandler
<1>2. ThreadSide(s)'
  BY <1>1 DEF ThreadSide, InHandler
<1>3. HandlerSide(HandlerDone, s)'
  BY <1>1 DEF HandlerSide
<1>4. HandlerDone.held = {}
  BY DEF HandlerDone, State
<1> QED BY <1>2, <1>3, <1>4 DEF LockInv

\* Entering a handler where none is active and interrupts are on.
LEMMA EnterKeeps ==
  ASSUME LockInv, ~InHandler, if_flag \/ running # ShellPid, running # TM!KernelMain, NEW c,
         \A ls \in SUBSET Locks :
           HandlerLocks \subseteq ls /\ (main_task_tracked \/ "ALLOCATOR" \in ls) => HandlerRuns(ls, c),
         Enter(c)
  PROVE  LockInv'
<1>1. /\ handlers = <<>> /\ handlers' = <<c>> \o handlers /\ if_flag' = FALSE
      /\ running' = running /\ main_task_tracked' = main_task_tracked /\ held' = held
      /\ shell' = IF AtHlt THEN Tail(shell) ELSE shell
  BY DEF Enter, InHandler, manager
<1>2. handlers' = <<c>> /\ handlers' # <<>>
  BY <1>1
<1>3. PICK s : ThreadSide(s) /\ held = s.held
  <2>1. HandlerDone.held = {}
    BY DEF HandlerDone, State
  <2>2. <<>> # <<c>> /\ \A d : <<>> # <<d>>
    OBVIOUS
  <2> QED BY <1>1, <2>1, <2>2 DEF LockInv, HandlerSide
<1>4. s.irq = "on" /\ Runs(ThreadStates, Blocks(ThreadStates), shell, s, ThreadFree)
  BY <1>3 DEF ThreadSide
<1>5. Runs(ThreadStates, Blocks(ThreadStates), shell', s, ThreadFree)
  <2>1. CASE ~AtHlt
    BY <1>1, <1>4, <2>1
  <2>2. CASE AtHlt
    <3>1. shell # <<>> /\ Head(shell).op = "hlt" /\ shell' = Tail(shell)
      BY <1>1, <2>2 DEF AtHlt, At, code, InHandler
    <3>2. PICK t \in ThreadStates :
            /\ Moves(Head(shell), s, t) \/ t = s
            /\ Runs(ThreadStates, Blocks(ThreadStates), Tail(shell), t, ThreadFree)
      BY <1>4, <3>1, RunsHead
    <3>3. t = s
      BY <3>1, <3>2 DEF Moves
    <3> QED BY <3>1, <3>2, <3>3
  <2> QED BY <2>1, <2>2
<1>6. ThreadSide(s)'
  BY <1>2, <1>4, <1>5 DEF ThreadSide, InHandler
<1>7. HandlerSide(HandlerDone, s)'
  <2>1. HandlerLocks \subseteq Locks /\ "ALLOCATOR" \in Locks
    BY DEF HandlerLocks, Guarded, Locks
  <2>2. CASE main_task_tracked
    <3>1. HandlerRuns(HandlerLocks, c)
      BY <2>1, <2>2
    <3> QED BY <1>1, <1>2, <3>1 DEF HandlerSide, MayTake, HandlerRuns
  <2>3. CASE ~main_task_tracked
    <3>1. HandlerRuns(HandlerLocks \cup {"ALLOCATOR"}, c)
      BY <2>1
    <3>2. s = ThreadFree
      BY <2>3, <1>4, RunsOver DEF LockInv
    <3>3. s.held = {}
      BY <3>2 DEF ThreadFree, State
    <3> QED BY <1>1, <1>2, <3>1, <3>3 DEF HandlerSide, MayTake, HandlerRuns
  <2> QED BY <2>2, <2>3
<1>8. HandlerDone.held = {}
  BY DEF HandlerDone, State
<1>9. main_task_tracked' \/ shell' = <<>>
  BY <1>1 DEF LockInv, AtHlt, At, code, InHandler
<1>10. held' = s.held \cup HandlerDone.held /\ s.held \cap HandlerDone.held = {}
  BY <1>1, <1>3, <1>8
<1> QED BY <1>1, <1>6, <1>7, <1>9, <1>10 DEF LockInv

\* What the invariant says where a handler is active: its code is c.
LEMMA InTheHandler ==
  ASSUME LockInv, InHandler
  PROVE  \E s, h, c, ls :
           /\ ThreadSide(s) /\ MayTake(ls, s) /\ handlers = <<c>> /\ code = c
           /\ ~if_flag /\ running # TM!KernelMain
           /\ h \in HandlerStates(ls) /\ h.who = "handler" /\ Off(h) = h
           /\ Runs(HandlerStates(ls), Blocks(HandlerStates(ls)), c, h, HandlerDone)
           /\ held = s.held \cup h.held /\ s.held \cap h.held = {}
           /\ \A d : Continue(d) => handlers' = <<d>> /\ shell' = shell
<1>1. PICK s, h : /\ ThreadSide(s) /\ HandlerSide(h, s)
                  /\ held = s.held \cup h.held /\ s.held \cap h.held = {}
  BY DEF LockInv
<1>2. PICK c, ls : /\ handlers = <<c>> /\ MayTake(ls, s) /\ ~if_flag
                   /\ running # TM!KernelMain
                   /\ Runs(HandlerStates(ls), Blocks(HandlerStates(ls)), c, h, HandlerDone)
  BY <1>1 DEF HandlerSide, InHandler
<1>3. h \in HandlerStates(ls)
  BY <1>2, RunsEnds
<1>4. h.who = "handler" /\ Off(h) = h
  BY <1>3 DEF HandlerStates, Off, State
<1>5. Head(handlers) = c /\ Tail(handlers) = <<>>
  BY <1>2
<1>6. ASSUME NEW d, Continue(d) PROVE handlers' = <<d>> /\ shell' = shell
  <2>1. <<d>> \o <<>> = <<d>>
    OBVIOUS
  <2> QED BY <2>1, <1>5, <1>6 DEF Continue
<1> QED BY <1>1, <1>2, <1>3, <1>4, <1>5, <1>6 DEF code

\* An instruction of a handler keeps the invariant.
LEMMA HandlerKeeps ==
  ASSUME LockInv, InHandler, Execute
  PROVE  LockInv'
<1>1. PICK s, h, c, ls :
        /\ ThreadSide(s) /\ MayTake(ls, s) /\ handlers = <<c>> /\ code = c
        /\ ~if_flag /\ running # TM!KernelMain
        /\ h \in HandlerStates(ls) /\ h.who = "handler" /\ Off(h) = h
        /\ Runs(HandlerStates(ls), Blocks(HandlerStates(ls)), c, h, HandlerDone)
        /\ held = s.held \cup h.held /\ s.held \cap h.held = {}
        /\ \A d : Continue(d) => handlers' = <<d>> /\ shell' = shell
  BY InTheHandler
<1>2. (running = ShellPid => main_task_tracked) /\ (main_task_tracked \/ shell = <<>>)
  BY DEF LockInv
<1> DEFINE S == HandlerStates(ls)
           On(d, t) == Runs(S, Blocks(S), d, t, HandlerDone)
<1>3. ASSUME NEW op, At(op)
      PROVE  /\ c # <<>> /\ Head(c).op = op
             /\ \E t \in S : /\ Moves(Head(c), h, t) \/ (<<Head(c), h>> \in Blocks(S) /\ t = h)
                             /\ On(Tail(c), t)
  <2>1. c # <<>> /\ Head(c).op = op
    BY <1>1, <1>3 DEF At
  <2> QED BY <1>1, <2>1, RunsHead
<1>4. \A i, t : <<i, t>> \in Blocks(S) => i.op = "cli" /\ Runs(S, {}, i.body, Off(t), Off(t))
  BY DEF Blocks
<1> HIDE DEF S, On
<1>5. CASE lock
  <2>1. /\ At("lock") /\ Head(c).lock \notin held /\ held' = held \cup {Head(c).lock}
        /\ Continue(Tail(c)) /\ running' = running /\ main_task_tracked' = main_task_tracked
        /\ if_flag' = if_flag
    BY <1>1, <1>5 DEF lock, Advance, manager
  <2>2. PICK t \in S : Moves(Head(c), h, t) /\ On(Tail(c), t) /\ Head(c).op = "lock"
    BY <1>3, <1>4, <2>1
  <2>3. t.held = h.held \cup {Head(c).lock}
    BY <2>2, <1>1 DEF Moves, OpsOf, State
  <2>4. held' = s.held \cup t.held /\ s.held \cap t.held = {}
    BY <1>1, <2>1, <2>3
  <2> QED BY <1>1, <1>2, <2>1, <2>2, <2>4, HandlerGoesOn DEF On, S
<1>6. CASE unlock
  <2>1. /\ At("unlock") /\ held' = held \ {Head(c).lock}
        /\ Continue(Tail(c)) /\ running' = running /\ main_task_tracked' = main_task_tracked
        /\ if_flag' = if_flag
    BY <1>1, <1>6 DEF unlock, Advance, manager
  <2>2. PICK t \in S : Moves(Head(c), h, t) /\ On(Tail(c), t) /\ Head(c).op = "unlock"
    BY <1>3, <1>4, <2>1
  <2>3. t.held = h.held \ {Head(c).lock} /\ Head(c).lock \in h.held
    BY <2>2, <1>1 DEF Moves, OpsOf, State
  <2>4. held' = s.held \cup t.held /\ s.held \cap t.held = {}
    BY <1>1, <2>1, <2>3
  <2> QED BY <1>1, <1>2, <2>1, <2>2, <2>4, HandlerGoesOn DEF On, S
<1>7. CASE cli
  <2> DEFINE b == Head(c).body
  <2>1. /\ At("cli") /\ if_flag' = FALSE
        /\ Continue(b \o <<>> \o Tail(c)) /\ running' = running
        /\ main_task_tracked' = main_task_tracked /\ held' = held
    BY <1>1, <1>7 DEF cli, manager
  <2>2. PICK t \in S : /\ Moves(Head(c), h, t) \/ (<<Head(c), h>> \in Blocks(S) /\ t = h)
                       /\ On(Tail(c), t) /\ Head(c).op = "cli"
    BY <1>3, <2>1
  <2>3. ~Moves(Head(c), h, t)
    BY <2>2 DEF Moves, OpsOf
  <2>4. t = h /\ Runs(S, {}, b, h, h)
    BY <1>1, <1>4, <2>2, <2>3
  <2>5. Runs(S, Blocks(S), b, h, h) /\ Runs(S, Blocks(S), <<>>, h, h)
    BY <1>1, <2>4, RunsPlain, RunsEmpty DEF S
  <2>6. Runs(S, Blocks(S), b \o <<>>, h, h)
    BY <2>5, RunsBoth
  <2>7. Runs(S, Blocks(S), (b \o <<>>) \o Tail(c), h, HandlerDone)
    BY <2>2, <2>4, <2>6, RunsBoth DEF On
  <2> HIDE DEF b
  <2> QED BY <1>1, <1>2, <2>1, <2>7, HandlerGoesOn DEF S
<1>8. ASSUME NEW op \in {"eoi", "schedule", "sleep", "terminate", "kill", "push", "pop", "sti"},
             At(op)
      PROVE  op \notin {"kill", "pop", "sti"} /\ On(Tail(c), h)
  <2>1. PICK t \in S : Moves(Head(c), h, t) /\ On(Tail(c), t) /\ Head(c).op = op
    BY <1>3, <1>4, <1>8
  <2>2. op \in OpsOf("handler") /\ t = h
    BY <1>1, <2>1 DEF Moves, OpsOf
  <2> QED BY <2>1, <2>2 DEF OpsOf
<1>9. CASE notify_end_of_interrupt \/ push
  <2>1. /\ At("eoi") \/ At("push")
        /\ held' = held /\ if_flag' = if_flag
        /\ Continue(Tail(c)) /\ running' = running /\ main_task_tracked' = main_task_tracked
    BY <1>1, <1>9 DEF notify_end_of_interrupt, push, Advance, manager
  <2>2. On(Tail(c), h) => LockInv'
    BY <1>1, <1>2, <2>1, HandlerGoesOn DEF On, S
  <2> QED BY <1>8, <2>1, <2>2
<1>10. CASE manager_step
  <2>1. /\ \E op \in {"schedule", "sleep", "terminate", "kill"} : At(op)
        /\ held' = held /\ if_flag' = if_flag /\ Continue(Tail(c))
    BY <1>1, <1>10 DEF manager_step, Advance
  <2>2. /\ running' # TM!KernelMain
        /\ running' = ShellPid => main_task_tracked'
        /\ main_task_tracked => main_task_tracked'
    BY <1>1, <1>2, <1>10, ManagerStep
  <2>3. On(Tail(c), h) => LockInv'
    BY <1>1, <1>2, <2>1, <2>2, HandlerGoesOn DEF On, S
  <2> QED BY <1>8, <2>1, <2>3
<1>11. ~sti /\ ~pop
  BY <1>8 DEF sti, pop
<1>12. CASE iret
  <2>1. /\ c = <<>> /\ handlers' = <<>> /\ if_flag' = TRUE /\ shell' = shell /\ held' = held
        /\ running' = running /\ main_task_tracked' = main_task_tracked
    BY <1>1, <1>12 DEF iret, manager
  <2>2. h = HandlerDone
    BY <1>1, <2>1, RunsOver
  <2>3. ThreadSide(s)' /\ HandlerSide(h, s)'
    BY <1>1, <2>1, <2>2 DEF ThreadSide, HandlerSide, InHandler
  <2> QED BY <1>1, <1>2, <2>1, <2>3 DEF LockInv
<1>13. ~poll
  BY DEF poll
<1> QED BY <1>5, <1>6, <1>7, <1>9, <1>10, <1>11, <1>12, <1>13 DEF Execute

\* An instruction of the shell thread keeps the invariant.
LEMMA ThreadKeeps ==
  ASSUME LockInv, ~InHandler, running = ShellPid, Execute, queue \in Seq(Keys)
  PROVE  LockInv'
<1>1. PICK s : ThreadSide(s) /\ held = s.held
  <2>1. HandlerDone.held = {}
    BY DEF HandlerDone, State
  <2>2. \A d : <<>> # <<d>>
    OBVIOUS
  <2> QED BY <2>1, <2>2 DEF LockInv, HandlerSide, InHandler
<1> DEFINE S == ThreadStates
           On(d, t) == Runs(S, Blocks(S), d, t, ThreadFree)
<1>2. On(shell, s) /\ s.irq = IF if_flag THEN "on" ELSE "off"
  BY <1>1 DEF ThreadSide
<1>3. s \in S /\ s.who = "thread" /\ s = State(s.held, s.irq, s.who)
  <2>1. s \in S
    BY <1>2, RunsEnds
  <2> QED BY <2>1 DEF ThreadStates, State
<1>4. main_task_tracked /\ code = shell
      /\ \A d : Continue(d) => shell' = d /\ handlers' = handlers
  BY DEF LockInv, code, Continue
<1>5. ASSUME NEW op, At(op)
      PROVE  /\ shell # <<>> /\ Head(shell).op = op
             /\ \E t \in S : /\ Moves(Head(shell), s, t) \/ (<<Head(shell), s>> \in Blocks(S) /\ t = s)
                             /\ On(Tail(shell), t)
  <2>1. shell # <<>> /\ Head(shell).op = op
    BY <1>4, <1>5 DEF At
  <2> QED BY <1>2, <2>1, RunsHead
<1>6. \A i, t : <<i, t>> \in Blocks(S) => i.op = "cli" /\ Runs(S, {}, i.body, Off(t), Off(t))
  BY DEF Blocks
<1> HIDE DEF S, On
<1>7. CASE lock
  <2>1. /\ At("lock") /\ held' = held \cup {Head(shell).lock}
        /\ Continue(Tail(shell)) /\ running' = running /\ main_task_tracked' = main_task_tracked
        /\ if_flag' = if_flag
    BY <1>4, <1>7 DEF lock, Advance, manager
  <2>2. PICK t \in S : Moves(Head(shell), s, t) /\ On(Tail(shell), t) /\ Head(shell).op = "lock"
    BY <1>5, <1>6, <2>1
  <2>3. t.held = s.held \cup {Head(shell).lock} /\ t.irq = s.irq
    BY <2>2, <1>3 DEF Moves, OpsOf, State
  <2> QED BY <1>1, <1>2, <1>4, <2>1, <2>2, <2>3, ThreadGoesOn DEF On, S
<1>8. CASE unlock
  <2>1. /\ At("unlock") /\ held' = held \ {Head(shell).lock}
        /\ Continue(Tail(shell)) /\ running' = running /\ main_task_tracked' = main_task_tracked
        /\ if_flag' = if_flag
    BY <1>4, <1>8 DEF unlock, Advance, manager
  <2>2. PICK t \in S : Moves(Head(shell), s, t) /\ On(Tail(shell), t) /\ Head(shell).op = "unlock"
    BY <1>5, <1>6, <2>1
  <2>3. t.held = s.held \ {Head(shell).lock} /\ t.irq = s.irq
    BY <2>2, <1>3 DEF Moves, OpsOf, State
  <2> QED BY <1>1, <1>2, <1>4, <2>1, <2>2, <2>3, ThreadGoesOn DEF On, S
<1>9. CASE sti
  <2>1. /\ At("sti") /\ held' = held /\ if_flag' = TRUE
        /\ Continue(Tail(shell)) /\ running' = running /\ main_task_tracked' = main_task_tracked
    BY <1>4, <1>9 DEF sti, Advance, manager
  <2>2. PICK t \in S : Moves(Head(shell), s, t) /\ On(Tail(shell), t) /\ Head(shell).op = "sti"
    BY <1>5, <1>6, <2>1
  <2>3. t.held = s.held /\ t.irq = "on"
    BY <2>2, <1>3 DEF Moves, OpsOf, State
  <2> QED BY <1>1, <1>4, <2>1, <2>2, <2>3, ThreadGoesOn DEF On, S
<1>10. CASE cli
  <2> DEFINE b == Head(shell).body
             e == IF if_flag THEN Do("sti") ELSE <<>>
             o == Off(s)
  <2>1. /\ At("cli") /\ if_flag' = FALSE
        /\ Continue((b \o e) \o Tail(shell)) /\ running' = running
        /\ main_task_tracked' = main_task_tracked /\ held' = held
    BY <1>4, <1>10 DEF cli, manager
  <2>2. PICK t \in S : /\ Moves(Head(shell), s, t) \/ (<<Head(shell), s>> \in Blocks(S) /\ t = s)
                       /\ On(Tail(shell), t) /\ Head(shell).op = "cli"
    BY <1>5, <2>1
  <2>3. ~Moves(Head(shell), s, t)
    BY <2>2, <1>3 DEF Moves, OpsOf
  <2>4. t = s /\ Runs(S, Blocks(S), b, o, o)
    BY <1>6, <2>2, <2>3, RunsPlain
  <2>5. o \in S /\ o.held = s.held /\ o.irq = "off" /\ o.who = "thread"
    BY <1>3, <2>4, RunsEnds DEF Off, State
  <2>6. Runs(S, Blocks(S), e, o, s)
    <3>1. CASE if_flag
      <4> DEFINE i == [op |-> "sti"]
      <4>1. e = <<i>> /\ i \in Instructions /\ i.op = "sti"
        BY <3>1 DEF Do, Instructions, SimpleInstructions
      <4>2. s = State(o.held, "on", o.who)
        BY <1>2, <1>3, <2>5, <3>1
      <4> HIDE DEF e, i, o
      <4>3. Moves(i, o, s)
        BY <4>1, <4>2, <2>5 DEF Moves
      <4> QED BY <1>3, <2>5, <4>1, <4>3, RunsOne
    <3>2. CASE ~if_flag
      <4>1. o = s
        BY <1>2, <1>3, <3>2 DEF Off
      <4> QED BY <1>3, <3>2, <4>1, RunsEmpty
    <3> QED BY <3>1, <3>2
  <2> HIDE DEF b, e, o
  <2>7. Runs(S, Blocks(S), b \o e, o, s)
    BY <2>4, <2>6, RunsBoth
  <2>8. Runs(S, Blocks(S), (b \o e) \o Tail(shell), o, ThreadFree)
    BY <2>2, <2>4, <2>7, RunsBoth DEF On
  <2> QED BY <1>1, <1>4, <2>1, <2>5, <2>8, ThreadGoesOn DEF S
<1>11. ASSUME NEW op \in {"eoi", "schedule", "sleep", "terminate", "kill", "push", "pop"}, At(op)
       PROVE  op \in {"kill", "pop"} /\ On(Tail(shell), s)
  <2>1. PICK t \in S : Moves(Head(shell), s, t) /\ On(Tail(shell), t) /\ Head(shell).op = op
    BY <1>5, <1>6, <1>11
  <2>2. op \in OpsOf("thread") /\ t = s
    BY <1>3, <2>1 DEF Moves, OpsOf
  <2> QED BY <2>1, <2>2 DEF OpsOf
<1>12. ~notify_end_of_interrupt /\ ~push
  BY <1>11 DEF notify_end_of_interrupt, push
<1>13. CASE manager_step
  <2>1. /\ At("kill") /\ held' = held /\ if_flag' = if_flag /\ Continue(Tail(shell))
        /\ (\E pid \in TM!Pids : TM!kill_task(pid)) \/ UNCHANGED manager
    BY <1>4, <1>11, <1>13 DEF manager_step, Advance
  <2>2. running' = running /\ main_task_tracked' = main_task_tracked
    BY <2>1 DEF TM!kill_task, manager
  <2> QED BY <1>1, <1>2, <1>4, <1>11, <2>1, <2>2, ThreadGoesOn DEF On, S
<1>14. ASSUME NEW d, ThreadRuns(d, {}), NEW c, On(c, s), shell' = c \o d, held' = held,
              if_flag' = if_flag, handlers' = handlers, running' = running,
              main_task_tracked' = main_task_tracked
       PROVE  LockInv'
  <2>1. On(c \o d, s)
    BY <1>14, RunsBoth DEF On, S, ThreadRuns, ThreadFree
  <2> QED BY <1>1, <1>2, <1>4, <1>14, <2>1, ThreadGoesOn DEF On, S
<1>15. CASE pop
  <2>1. PICK d \in IF queue = <<>> THEN heartbeat_and_hlt ELSE process_scancode(Head(queue)) :
          shell' = Tail(shell) \o d
    BY <1>4, <1>15 DEF pop
  <2>2. queue # <<>> => Head(queue) \in Keys
    OBVIOUS
  <2>3. ThreadRuns(d, {})
    BY <2>1, <2>2, HeartbeatRuns, ScancodeRuns DEF Whole
  <2>4. On(Tail(shell), s)
    BY <1>11, <1>15 DEF pop
  <2> QED BY <1>14, <1>15, <2>1, <2>3, <2>4 DEF pop, manager
<1>16. CASE poll
  <2>1. shell = <<>> /\ (shell' = With("SCANCODE_QUEUE", Do("pop")) \/ shell' \in heartbeat_and_hlt)
    BY <1>16 DEF poll
  <2>2. ThreadRuns(shell', {})
    BY <2>1, HeartbeatRuns, PlainLocks DEF Whole
  <2>3. shell' \in Seq(Instructions)
    BY <2>2, RunsEnds DEF ThreadRuns
  <2>4. shell' = <<>> \o shell'
    BY <2>3
  <2> QED BY <1>2, <1>14, <1>16, <2>1, <2>2, <2>4 DEF poll, manager
<1>17. ~iret
  BY DEF iret
<1> QED BY <1>7, <1>8, <1>9, <1>10, <1>12, <1>13, <1>15, <1>16, <1>17 DEF Execute

\* Every step keeps the invariant.
LEMMA NextKeeps ==
  ASSUME LockInv, queue \in Seq(Keys), [Next]_vars
  PROVE  LockInv'
<1>1. CASE boot
  <2>1. /\ running = TM!KernelMain /\ running' \in {TM!KernelMain, TM!MainPid}
        /\ handlers' = handlers /\ shell' = shell /\ held' = held
        /\ main_task_tracked' = main_task_tracked
    BY <1>1 DEF boot, TM!register_named_task, TM!switch_to_user_mode, TM!manager
  <2>2. running # ShellPid /\ running' # ShellPid
    BY <2>1 DEF ShellPid, TM!KernelMain, TM!MainPid
  <2>3. PICK s, h : /\ ThreadSide(s) /\ HandlerSide(h, s)
                    /\ held = s.held \cup h.held /\ s.held \cap h.held = {}
    BY DEF LockInv
  <2>4. ThreadSide(s)' /\ HandlerSide(h, s)'
    BY <2>1, <2>2, <2>3 DEF ThreadSide, HandlerSide, InHandler
  <2> QED BY <2>1, <2>2, <2>3, <2>4 DEF LockInv
<1>2. CASE Execute
  <2>1. InHandler \/ running = ShellPid
    BY <1>2 DEF Execute, lock, unlock, cli, sti, notify_end_of_interrupt, manager_step,
                push, poll, pop, iret, At, Executing
  <2> QED BY <1>2, <2>1, HandlerKeeps, ThreadKeeps
<1>3. CASE spin \/ UNCHANGED vars
  <2>1. /\ running' = running /\ main_task_tracked' = main_task_tracked /\ shell' = shell
        /\ handlers' = handlers /\ if_flag' = if_flag /\ held' = held
    BY <1>3 DEF spin, vars, manager, cpu
  <2>2. \A s, h : (ThreadSide(s) => ThreadSide(s)') /\ (HandlerSide(h, s) => HandlerSide(h, s)')
    BY <2>1 DEF ThreadSide, HandlerSide, InHandler
  <2> QED BY <2>1, <2>2 DEF LockInv
<1>4. CASE timer_irq \/ keyboard_irq
  <2>1. if_flag /\ running # TM!KernelMain
    BY <1>4 DEF timer_irq, keyboard_irq, Deliverable
  <2>2. ~InHandler
    BY <2>1 DEF LockInv, HandlerSide, InHandler
  <2>3. PICK c \in {timer_interrupt} \cup {keyboard_interrupt(k) : k \in Keys} : Enter(c)
    BY <1>4 DEF timer_irq, keyboard_irq
  <2>4. \A ls \in SUBSET Locks :
          HandlerLocks \subseteq ls /\ (main_task_tracked \/ "ALLOCATOR" \in ls) => HandlerRuns(ls, c)
    BY InterruptRuns
  <2> QED BY <2>1, <2>2, <2>3, <2>4, EnterKeeps
<1>5. CASE user_event
  <2>1. ~InHandler /\ running # TM!KernelMain /\ running # ShellPid
    BY <1>5 DEF user_event, TM!MainPid, TM!KernelMain, ShellPid
  <2>2. PICK e \in UserEvents : Enter(gate(e))
    BY <1>5 DEF user_event
  <2>3. \A ls \in SUBSET Locks :
          HandlerLocks \subseteq ls /\ (main_task_tracked \/ "ALLOCATOR" \in ls)
            => HandlerRuns(ls, gate(e))
    BY InterruptRuns
  <2> QED BY <2>1, <2>2, <2>3, EnterKeeps
<1> QED BY <1>1, <1>2, <1>3, <1>4, <1>5 DEF Next

-----------------------------------------------------------------------------
(* The queue and the interrupt controller *)

\* An IRQ in service is the active handler's, which has yet to acknowledge it.
AckInv ==
  \/ in_service = {}
  \/ /\ \E n \in {0, 1} : in_service = {n}
     /\ InHandler /\ Acknowledges(Head(handlers))

\* The code being executed is made of instructions.
LEMMA CodeType ==
  ASSUME LockInv
  PROVE  code \in Seq(Instructions)
<1>1. CASE InHandler
  BY <1>1, InTheHandler, RunsEnds
<1>2. CASE ~InHandler
  BY <1>2, RunsEnds DEF LockInv, ThreadSide, code
<1> QED BY <1>1, <1>2

\* The queue holds scancodes.
LEMMA QueueType ==
  ASSUME LockInv, queue \in Seq(Keys), [Next]_vars
  PROVE  queue' \in Seq(Keys)
<1>1. CASE push
  <2>1. code # <<>> /\ Head(code).op = "push"
    BY <1>1 DEF push, At
  <2>2. Head(code) \in Instructions
    BY <2>1, CodeType
  <2> DEFINE i == Head(code)
  <2>3. i \in Instructions /\ i.op = "push"
    BY <2>1, <2>2
  <2>4. queue' \in {queue, Append(queue, i.key)}
    BY <1>1 DEF push
  <2> HIDE DEF i
  <2>5. i.key \in Keys
    BY <2>3 DEF Instructions, SimpleInstructions
  <2> QED BY <2>4, <2>5
<1>2. CASE pop
  <2>1. queue' = IF queue = <<>> THEN <<>> ELSE Tail(queue)
    BY <1>2 DEF pop
  <2> QED BY <2>1
<1>3. CASE ~push /\ ~pop
  <2>1. queue' = queue
    BY <1>3 DEF Next, boot, Execute, lock, unlock, cli, sti, notify_end_of_interrupt, manager_step,
                poll, iret, spin, timer_irq, keyboard_irq, user_event, Enter, vars, io
  <2> QED BY <2>1
<1> QED BY <1>1, <1>2, <1>3

\* Every step keeps AckInv.
LEMMA NextKeepsAck ==
  ASSUME LockInv, AckInv, [Next]_vars
  PROVE  AckInv'
<1>1. CASE timer_irq \/ keyboard_irq
  <2>1. if_flag
    BY <1>1 DEF timer_irq, keyboard_irq, Deliverable
  <2>2. handlers = <<>> /\ in_service = {}
    BY <2>1 DEF LockInv, HandlerSide, InHandler, AckInv
  <2>3. PICK c \in {timer_interrupt} \cup {keyboard_interrupt(k) : k \in Keys} :
          handlers' = <<c>> \o handlers
    BY <1>1 DEF timer_irq, keyboard_irq, Enter
  <2>4. handlers' = <<c>> /\ <<c>> # <<>> /\ Head(<<c>>) = c
    BY <2>2, <2>3
  <2>5. Acknowledges(c)
    BY InterruptsAcknowledge
  <2>6. \E n \in {0, 1} : in_service' = {n}
    BY <1>1, <2>2 DEF timer_irq, keyboard_irq
  <2> QED BY <2>4, <2>5, <2>6 DEF AckInv, InHandler
<1>2. CASE notify_end_of_interrupt
  <2>1. in_service' = {n \in in_service : \E m \in in_service : m < n}
    BY <1>2 DEF notify_end_of_interrupt
  <2>2. in_service' = {}
    BY <2>1 DEF AckInv
  <2> QED BY <2>2 DEF AckInv
<1>3. CASE ~timer_irq /\ ~keyboard_irq /\ ~notify_end_of_interrupt
  <2>1. in_service' = in_service
    BY <1>3 DEF Next, boot, Execute, lock, unlock, cli, sti, manager_step, push, poll, pop,
                iret, spin, user_event, vars, io
  <2> SUFFICES ASSUME in_service # {} PROVE AckInv'
    BY <2>1 DEF AckInv
  <2>2. InHandler /\ Acknowledges(code) /\ \E n \in {0, 1} : in_service = {n}
    BY DEF AckInv, code
  <2>3. PICK c : code = c /\ handlers = <<c>> /\ \A d : Continue(d) => handlers' = <<d>>
    BY <2>2, InTheHandler
  <2>4. c \in Seq(Instructions) /\ Acknowledges(c)
    BY <2>2, <2>3, CodeType
  <2>5. c # <<>> /\ (Head(c).op # "eoi" => Acknowledges(Tail(c)))
    BY <2>4, AckLater
  <2>6. ASSUME NEW d, Acknowledges(d), handlers' = <<d>> PROVE AckInv'
    <3>1. <<d>> # <<>> /\ Head(<<d>>) = d
      OBVIOUS
    <3> QED BY <2>1, <2>2, <2>6, <3>1 DEF AckInv, InHandler
  <2>7. CASE handlers' = handlers
    BY <2>3, <2>4, <2>6, <2>7
  <2>8. CASE lock \/ unlock \/ sti \/ manager_step \/ push
    <3>1. Continue(Tail(c)) /\ Head(c).op # "eoi"
      BY <2>3, <2>8 DEF lock, unlock, sti, manager_step, push, At, Advance
    <3> QED BY <2>3, <2>5, <2>6, <3>1
  <2>9. CASE cli
    <3>1. Head(c).op = "cli" /\ ~if_flag
      BY <2>2, <2>3, <2>9, InTheHandler DEF cli, At
    <3>2. Continue((Head(c).body \o <<>>) \o Tail(c))
      BY <2>3, <2>9, <3>1 DEF cli
    <3>3. Head(c).body \o <<>> \in Seq(Instructions)
      <4> DEFINE i == Head(c)
      <4>1. i \in Instructions /\ i.op = "cli"
        BY <2>4, <2>5, <3>1
      <4> HIDE DEF i
      <4>2. i.body \in Seq(SimpleInstructions)
        BY <4>1 DEF Instructions, SimpleInstructions
      <4>3. i.body \in Seq(Instructions)
        BY <4>2 DEF Instructions
      <4> QED BY <4>3 DEF i
    <3>4. Acknowledges(Tail(c)) /\ Tail(c) \in Seq(Instructions)
      BY <2>4, <2>5, <3>1
    <3>5. Acknowledges((Head(c).body \o <<>>) \o Tail(c))
      BY <3>3, <3>4, AckIn
    <3> QED BY <2>3, <2>6, <3>2, <3>5
  <2>10. ~iret
    BY <2>3, <2>5 DEF iret
  <2>11. ~user_event
    BY <2>2 DEF user_event
  <2> QED BY <1>3, <2>7, <2>8, <2>9, <2>10, <2>11
       DEF Next, Execute, boot, poll, pop, spin, vars, cpu
<1> QED BY <1>1, <1>2, <1>3

-----------------------------------------------------------------------------
(* The theorems *)

\* The invariant holds at all times.
LEMMA Invariant == Spec => [](LockInv /\ queue \in Seq(Keys) /\ AckInv)
<1>1. ASSUME Init PROVE LockInv /\ queue \in Seq(Keys) /\ AckInv
  <2>1. /\ shell = <<>> /\ handlers = <<>> /\ held = {} /\ queue = <<>> /\ in_service = {}
        /\ running = TM!KernelMain
    BY <1>1 DEF Init, TM!Init
  <2>2. running # ShellPid
    BY <2>1 DEF ShellPid, TM!KernelMain
  <2>3. {} \in FreeSets
    BY DEF FreeSets
  <2>4. ThreadFree.held = {} /\ ThreadFree.irq = "on" /\ HandlerDone.held = {}
    BY DEF ThreadFree, HandlerDone, State
  <2>5. ThreadSide(ThreadFree)
    BY <2>1, <2>2, <2>3, <2>4, ThreadEmpty DEF ThreadSide, ThreadRuns, ThreadFree
  <2>6. HandlerSide(HandlerDone, ThreadFree)
    BY <2>1 DEF HandlerSide
  <2>7. queue \in Seq(Keys)
    BY <2>1
  <2> QED BY <2>1, <2>2, <2>4, <2>5, <2>6, <2>7 DEF LockInv, AckInv
<1>2. LockInv /\ queue \in Seq(Keys) /\ AckInv /\ [Next]_vars
        => (LockInv /\ queue \in Seq(Keys) /\ AckInv)'
  BY NextKeeps, QueueType, NextKeepsAck
<1> QED BY <1>1, <1>2, PTL DEF Spec

\* No handler is ever interrupted: there is one at a time, and interrupts stay
\* off in it although its prints go through without_interrupts.
THEOREM AtomicHandlers == Spec => []HandlersAreAtomic
<1>1. ASSUME LockInv PROVE HandlersAreAtomic
  <2>1. handlers = <<>> \/ (~if_flag /\ \E c : handlers = <<c>>)
    BY <1>1 DEF LockInv, HandlerSide
  <2>2. CASE handlers = <<>>
    BY <2>2 DEF HandlersAreAtomic, InHandler
  <2>3. ASSUME ~if_flag, NEW c, handlers = <<c>> PROVE HandlersAreAtomic
    <3>1. Len(handlers) = 1
      BY <2>3
    <3> QED BY <2>3, <3>1 DEF HandlersAreAtomic
  <2> QED BY <2>1, <2>2, <2>3
<1> QED BY <1>1, Invariant, PTL

\* An interrupt handler never finds a lock taken, except for SCANCODE_QUEUE and
\* WRITER, which poll_input and clear_screen take with interrupts on.
THEOREM HandlersNeverSpin == Spec => []GuardedLocksNeverSpin
<1>1. ASSUME LockInv, InHandler, NEW l \in Locks \ {"SCANCODE_QUEUE", "WRITER"}, SpinsOn(l)
      PROVE  FALSE
  <2>1. PICK s, h, c, ls :
          /\ ThreadSide(s) /\ MayTake(ls, s) /\ code = c
          /\ h \in HandlerStates(ls) /\ h.who = "handler"
          /\ Runs(HandlerStates(ls), Blocks(HandlerStates(ls)), c, h, HandlerDone)
          /\ held = s.held \cup h.held
    BY <1>1, InTheHandler
  <2>2. c # <<>> /\ Head(c).op = "lock" /\ Head(c).lock = l /\ l \in held
    BY <1>1, <2>1 DEF SpinsOn, At
  <2>3. PICK t \in HandlerStates(ls) :
          Moves(Head(c), h, t) \/ <<Head(c), h>> \in Blocks(HandlerStates(ls))
    BY <2>1, <2>2, RunsHead
  <2>4. <<Head(c), h>> \notin Blocks(HandlerStates(ls))
    BY <2>2 DEF Blocks
  <2>5. l \notin h.held /\ l \in t.held
    BY <2>1, <2>2, <2>3, <2>4 DEF Moves, OpsOf, State
  <2>6. l \in ls /\ l \in s.held
    BY <2>1, <2>2, <2>5 DEF HandlerStates
  <2>7. l \in Guarded
    BY <2>1, <2>6 DEF MayTake, HandlerLocks
  <2>8. s.irq = "on" /\ s \in ThreadStates
    BY <1>1, <2>1, RunsEnds DEF ThreadSide
  <2>9. s.held \cap Guarded = {}
    BY <2>8 DEF ThreadStates
  <2> QED BY <2>6, <2>7, <2>9
<1>2. LockInv => GuardedLocksNeverSpin
  BY <1>1 DEF GuardedLocksNeverSpin
<1> QED BY <1>2, Invariant, PTL

\* The shell thread never waits for a lock.
THEOREM ShellNeverWaits == Spec => []ShellNeverSpins
<1>1. ASSUME LockInv, ~InHandler, NEW l \in Locks, SpinsOn(l) PROVE FALSE
  <2>1. PICK s : ThreadSide(s) /\ held = s.held
    <3>1. HandlerDone.held = {}
      BY DEF HandlerDone, State
    <3>2. \A d : <<>> # <<d>>
      OBVIOUS
    <3> QED BY <1>1, <3>1, <3>2 DEF LockInv, HandlerSide, InHandler
  <2>2. shell # <<>> /\ Head(shell).op = "lock" /\ Head(shell).lock = l /\ l \in held
    BY <1>1 DEF SpinsOn, At, code
  <2>3. PICK t : Moves(Head(shell), s, t) \/ <<Head(shell), s>> \in Blocks(ThreadStates)
    BY <2>1, <2>2, RunsHead DEF ThreadSide
  <2>4. <<Head(shell), s>> \notin Blocks(ThreadStates)
    BY <2>2 DEF Blocks
  <2>5. s \in ThreadStates
    BY <2>1, RunsEnds DEF ThreadSide
  <2>6. s.who = "thread"
    BY <2>5 DEF ThreadStates
  <2>7. l \notin s.held
    BY <2>2, <2>3, <2>4, <2>6 DEF Moves, OpsOf
  <2> QED BY <2>1, <2>2, <2>7
<1>2. LockInv => ShellNeverSpins
  BY <1>1 DEF ShellNeverSpins
<1> QED BY <1>2, Invariant, PTL

\* HISTORY and INPUT_BUFFER are never held together.
THEOREM NeverBoth == Spec => []InputAndHistoryApart
<1>1. ASSUME LockInv PROVE InputAndHistoryApart
  <2>1. PICK s, h : ThreadSide(s) /\ HandlerSide(h, s) /\ held = s.held \cup h.held
    BY <1>1 DEF LockInv
  <2>2. s \in ThreadStates
    BY <2>1, RunsEnds DEF ThreadSide
  <2>3. h.held \subseteq HandlerLocks \cup {"ALLOCATOR"}
    <3>1. CASE h = HandlerDone
      BY <3>1 DEF HandlerDone, State
    <3>2. CASE h # HandlerDone
      <4>1. PICK ls : h \in HandlerStates(ls) /\ MayTake(ls, s)
        BY <2>1, <3>2, RunsEnds DEF HandlerSide
      <4>2. h.held \subseteq ls
        BY <4>1 DEF HandlerStates
      <4> QED BY <4>1, <4>2 DEF MayTake
    <3> QED BY <3>1, <3>2
  <2>4. ~({"HISTORY", "INPUT_BUFFER"} \subseteq s.held)
    BY <2>2 DEF ThreadStates
  <2> QED BY <2>1, <2>3, <2>4 DEF InputAndHistoryApart, HandlerLocks, Guarded
<1> QED BY <1>1, Invariant, PTL

\* No IRQ is left unacknowledged when its handler returns.
THEOREM IrqsAreAcknowledged == Spec => []IrqsAcknowledged
<1>1. AckInv => IrqsAcknowledged
  BY DEF AckInv, IrqsAcknowledged
<1> QED BY <1>1, Invariant, PTL
=============================================================================
