----------------------------- MODULE KernelCode -----------------------------
(***************************************************************************)
(* The code of the ENOS kernel as far as its spin locks and interrupts are *)
(* concerned: what the handlers and the shell thread execute.              *)
(*                                                                         *)
(* Code is represented by what interleaving can tell apart: a sequence of  *)
(* instructions that take or release a spin::Mutex, turn interrupts off    *)
(* and on, or touch shared state.  Kernel.tla executes it.                 *)
(***************************************************************************)
EXTENDS Integers, Sequences

CONSTANTS
  Keys,            \* kinds of keys that are typed
  Commands,        \* shell commands that are typed
  UserEvents       \* what the ring 3 program does

VARIABLE
  main_task_tracked   \* as in TaskManager

Locks == {"SCHEDULER", "PICS", "SERIAL1", "WRITER", "SCANCODE_QUEUE", "ALLOCATOR",
          "INPUT_BUFFER", "HISTORY", "KEYBOARD_STATE", "SESSION", "FILES"}

ASSUME CodeAssumption ==
  /\ Keys \subseteq {"modifier", "up", "down", "backspace", "enter", "char"}
  /\ Commands \subseteq {"clear", "echo", "uptime", "ps", "top", "tasks", "meminfo",
                         "whoami", "touch", "ls", "fsinfo", "kill", "rm"}
  /\ UserEvents \subseteq {"print", "sleep", "unknown", "invalid", "fault", "exception"}

----------------------------------------------------------------------------
(***************************************************************************)
(* Instructions and the functions made of them.                            *)
(***************************************************************************)
Do(op) == <<[op |-> op]>>
With(l, body) ==
  <<[op |-> "lock", lock |-> l]>> \o body \o <<[op |-> "unlock", lock |-> l]>>
without_interrupts(body) == <<[op |-> "cli", body |-> body]>>

alloc == With("ALLOCATOR", <<>>)
vga_print == without_interrupts(With("WRITER", <<>>))
serial_print == without_interrupts(With("SERIAL1", <<>>))
ack_Forgotten == <<>>
ack == With("PICS", Do("eoi"))

\* Thread side API of the scheduler.
scheduler_stats == without_interrupts(With("SCHEDULER", <<>>))
scheduler_process_snapshot_Unguarded == With("SCHEDULER", alloc)
scheduler_process_snapshot == without_interrupts(With("SCHEDULER", alloc))
scheduler_kill_task == without_interrupts(With("SCHEDULER", Do("kill")))

\* Handlers.  The task manager allocates when it first meets user_main.
track == IF main_task_tracked THEN <<>> ELSE alloc
timer_interrupt == ack \o With("SCHEDULER", track \o Do("schedule"))
keyboard_interrupt(k) ==
  With("SCANCODE_QUEUE", <<[op |-> "push", key |-> k]>>) \o ack

\* What the ring 3 program can do to the kernel, and the code that answers.
\* "invalid" is a refused buffer, "unknown" a number that is no system call.
syscall_dispatcher(e) ==
  CASE e = "print"   -> vga_print \o serial_print
    [] e = "sleep"   -> With("SCHEDULER", track \o Do("sleep"))
    [] e = "unknown" -> serial_print
    [] e = "invalid" -> <<>>
page_fault_dispatcher == serial_print \o With("SCHEDULER", track \o Do("terminate"))
\* gpf_handler and double_fault_handler end the same way.  breakpoint_handler
\* returns, but its gate is closed to ring 3.
default_exception_handler == serial_print \o Do("loop")
gate(e) ==
  CASE e = "fault"     -> page_fault_dispatcher
    [] e = "exception" -> default_exception_handler
    [] OTHER           -> syscall_dispatcher(e)

----------------------------------------------------------------------------
(***************************************************************************)
(* The shell.  A function whose branches take different locks is the set   *)
(* of its programs.                                                        *)
(***************************************************************************)
Then(P, Q) == {p \o q : p \in P, q \in Q}

print_prompt == With("SESSION", <<>>) \o vga_print
replace_input_line == With("INPUT_BUFFER", vga_print \o alloc) \o vga_print

history_up_Nested ==
  Then({With("INPUT_BUFFER", alloc \o With("HISTORY", alloc))},
       {<<>>, replace_input_line})
history_up ==
  Then({With("INPUT_BUFFER", alloc) \o With("HISTORY", alloc)},
       {<<>>, replace_input_line})
history_down_Nested ==
  Then({With("HISTORY", alloc)}, {<<>>, With("INPUT_BUFFER", replace_input_line)})
history_down == Then({With("HISTORY", alloc)}, {<<>>, replace_input_line})

clear_screen == With("WRITER", <<>>)
command_echo == vga_print   \* calc, help, about and unknown commands too
command_uptime == scheduler_stats \o vga_print
command_ps == scheduler_process_snapshot \o vga_print
command_top == scheduler_stats \o scheduler_process_snapshot \o vga_print
command_tasks == scheduler_stats \o vga_print \o command_ps
command_meminfo == alloc \o With("FILES", <<>>) \o vga_print \o alloc \o vga_print
command_whoami == With("SESSION", <<>>) \o vga_print   \* id, login, su, logout
command_touch == With("FILES", alloc) \o vga_print     \* write, cat
command_fsinfo == With("FILES", <<>>) \o vga_print \o alloc \o vga_print

\* "(empty)", or the list is sorted and printed row by row.
command_ls == {With("FILES", <<>>) \o vga_print,
               With("FILES", alloc) \o alloc \o vga_print \o alloc \o vga_print}

\* require_root may refuse.
command_kill ==
  Then({With("SESSION", <<>>)},
       {vga_print, scheduler_kill_task \o vga_print \o command_ps})
command_rm ==
  Then({With("SESSION", <<>>)}, {vga_print, With("FILES", alloc) \o vga_print})

command(c) ==
  CASE c = "clear"   -> {clear_screen}
    [] c = "echo"    -> {command_echo}
    [] c = "uptime"  -> {command_uptime}
    [] c = "ps"      -> {command_ps}
    [] c = "top"     -> {command_top}
    [] c = "tasks"   -> {command_tasks}
    [] c = "meminfo" -> {command_meminfo}
    [] c = "whoami"  -> {command_whoami}
    [] c = "touch"   -> {command_touch}
    [] c = "ls"      -> command_ls
    [] c = "fsinfo"  -> {command_fsinfo}
    [] c = "kill"    -> command_kill
    [] c = "rm"      -> command_rm

evaluate_command ==
  Then({With("INPUT_BUFFER", alloc)},
       Then({With("HISTORY", <<>>)} \cup
              Then({With("HISTORY", alloc)}, UNION {command(c) : c \in Commands}),
            {print_prompt}))

\* Tab is four times "char".
push_char(k) ==
  CASE k = "backspace" ->
         Then({With("HISTORY", <<>>) \o With("INPUT_BUFFER", <<>>)}, {<<>>, vga_print})
    [] k = "enter" -> Then({vga_print}, evaluate_command)
    [] k = "char" ->
         Then({With("INPUT_BUFFER", <<>>)},
              {<<>>, With("HISTORY", <<>>) \o With("INPUT_BUFFER", alloc) \o vga_print})

process_scancode(k) ==
  Then({With("KEYBOARD_STATE", <<>>)},
       CASE k = "modifier" -> {<<>>}   \* shift, caps lock, prefix, releases
         [] k = "up"   -> history_up
         [] k = "down" -> history_down
         [] OTHER      -> push_char(k))

\* The end of a round of background_thread: the heartbeat is logged now and
\* then, and hlt waits for an interrupt.
heartbeat_and_hlt == Then({<<>>, serial_print}, {Do("hlt")})
=============================================================================
