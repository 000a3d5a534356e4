------------------------------- MODULE Kernel -------------------------------
(***************************************************************************)
(* The one CPU of ENOS with its interrupts and spin locks: the ring 3      *)
(* program, the kernel thread that runs the shell, the interrupt handlers  *)
(* that cut into both, and the task manager they share (TaskManager.tla).  *)
(*                                                                         *)
(* The code is KernelCode.tla's: sequences of instructions.  The shell     *)
(* thread and every handler have a continuation, the instructions still to *)
(* be executed.  A handler that finds its lock held spins with interrupts  *)
(* off, for ever.                                                          *)
(***************************************************************************)
EXTENDS KernelCode

CONSTANTS
  NumKernelTasks, Depths, SleepArgs, TickModulus, MaxTicks, KillFrom,
  QueueCapacity,   \* SCANCODE_QUEUE_CAPACITY
  MaxKeys          \* bound: scancodes the keyboard sends

VARIABLES
  tasks, current_task_idx, next_task_id, tick_count, panicked, running, saved,
  deadline,     \* as in TaskManager
  shell,        \* continuation of background_thread; <<>> at the while of poll_input
  handlers,     \* continuations of the active handlers, innermost first
  if_flag,      \* EFLAGS.IF
  held,         \* the spin locks that are taken
  in_service,   \* the IRQs the PIC waits to see acknowledged
  queue,        \* the scancode queue, oldest first
  processed,    \* the counter of poll_input
  accepted,     \* history: scancodes that entered the queue
  typed         \* scancodes sent so far

TM == INSTANCE TaskManager

manager == <<tasks, current_task_idx, next_task_id, tick_count, main_task_tracked,
             panicked, running, saved, deadline>>
cpu == <<shell, handlers, if_flag>>
io == <<in_service, queue, processed, accepted, typed>>
vars == <<manager, cpu, held, io>>

ShellPid == 2   \* the kernel thread kernel_main registers

ASSUME KernelAssumption ==
  /\ NumKernelTasks = 1
  /\ QueueCapacity \in Nat \ {0}
  /\ MaxKeys \in Nat

----------------------------------------------------------------------------
(***************************************************************************)
(* Execution.  The CPU executes the innermost handler or, with none, the   *)
(* task running.                                                           *)
(***************************************************************************)
InHandler == handlers # <<>>
Executing == InHandler \/ running = ShellPid
code == IF InHandler THEN Head(handlers) ELSE shell

At(op) == Executing /\ code # <<>> /\ Head(code).op = op

Continue(c) ==
  IF InHandler THEN handlers' = <<c>> \o Tail(handlers) /\ UNCHANGED shell
  ELSE shell' = c /\ UNCHANGED handlers
Advance == Continue(Tail(code))

Init ==
  /\ TM!Init
  /\ shell = <<>>
  /\ handlers = <<>>
  /\ if_flag = FALSE
  /\ held = {}
  /\ in_service = {}
  /\ queue = <<>>
  /\ processed = 0
  /\ accepted = 0
  /\ typed = 0

\* kernel_main, with interrupts off until the iretd that enters ring 3.
boot ==
  /\ \/ TM!register_named_task /\ UNCHANGED if_flag
     \/ TM!switch_to_user_mode /\ if_flag' = TRUE
  /\ UNCHANGED <<shell, handlers, held, io>>

lock ==
  /\ At("lock")
  /\ Head(code).lock \notin held
  /\ held' = held \cup {Head(code).lock}
  /\ Advance
  /\ UNCHANGED <<manager, if_flag, io>>

\* Busy loops: Mutex::lock on a lock that is taken, and the loop {} after an
\* exception.
spin ==
  /\ \/ At("lock") /\ Head(code).lock \in held
     \/ At("loop")
  /\ UNCHANGED vars

unlock ==
  /\ At("unlock")
  /\ held' = held \ {Head(code).lock}
  /\ Advance
  /\ UNCHANGED <<manager, if_flag, io>>

\* Entering without_interrupts: the flags are saved and interrupts go off.
\* On the way out sti is executed only if they were on.
cli_AlwaysSti ==
  /\ At("cli")
  /\ if_flag' = FALSE
  /\ Continue(Head(code).body \o Do("sti") \o Tail(code))
  /\ UNCHANGED <<manager, held, io>>
cli ==
  /\ At("cli")
  /\ if_flag' = FALSE
  /\ Continue(Head(code).body \o (IF if_flag THEN Do("sti") ELSE <<>>) \o Tail(code))
  /\ UNCHANGED <<manager, held, io>>

sti ==
  /\ At("sti")
  /\ if_flag' = TRUE
  /\ Advance
  /\ UNCHANGED <<manager, held, io>>

\* A non-specific EOI retires the highest-priority IRQ in service.
notify_end_of_interrupt ==
  /\ At("eoi")
  /\ in_service' = {n \in in_service : \E m \in in_service : m < n}
  /\ Advance
  /\ UNCHANGED <<manager, if_flag, held, queue, processed, accepted, typed>>

\* The critical sections of the task manager.
manager_step ==
  /\ \/ At("schedule") /\ TM!scheduler_tick
     \/ At("sleep") /\ \E ticks \in SleepArgs : TM!sleep_current_task(ticks)
     \/ At("terminate") /\ TM!terminate_current_user_task_from_fault
     \/ At("kill") /\ \E pid \in TM!Pids : TM!kill_task(pid)
     \/ At("kill") /\ UNCHANGED manager   \* an error is returned
  /\ Advance
  /\ UNCHANGED <<if_flag, held, io>>

\* enqueue_scancode_from_irq: a full queue drops the scancode.
push ==
  /\ At("push")
  /\ IF Len(queue) < QueueCapacity
     THEN queue' = Append(queue, Head(code).key) /\ accepted' = accepted + 1
     ELSE UNCHANGED <<queue, accepted>>
  /\ Advance
  /\ UNCHANGED <<manager, if_flag, held, in_service, processed, typed>>

\* poll_input: the while condition, then the pop under the lock.
poll_NoReset ==
  /\ Executing /\ ~InHandler /\ shell = <<>>
  /\ IF processed < QueueCapacity
     THEN shell' = With("SCANCODE_QUEUE", Do("pop"))
     ELSE shell' \in heartbeat_and_hlt
  /\ UNCHANGED <<manager, handlers, if_flag, held, io>>
poll ==
  /\ Executing /\ ~InHandler /\ shell = <<>>
  /\ IF processed < QueueCapacity
     THEN shell' = With("SCANCODE_QUEUE", Do("pop")) /\ UNCHANGED processed
     ELSE shell' \in heartbeat_and_hlt /\ processed' = 0
  /\ UNCHANGED <<manager, handlers, if_flag, held, in_service, queue, accepted, typed>>

pop ==
  /\ At("pop")
  /\ \E rest \in IF queue = <<>> THEN heartbeat_and_hlt
                 ELSE process_scancode(Head(queue)) : shell' = Tail(code) \o rest
  /\ queue' = IF queue = <<>> THEN <<>> ELSE Tail(queue)
  /\ processed' = IF queue = <<>> THEN 0 ELSE processed + 1
  /\ UNCHANGED <<manager, handlers, if_flag, held, in_service, accepted, typed>>

----------------------------------------------------------------------------
(***************************************************************************)
(* Interrupts.  Every gate is an interrupt gate: IF is off in the handler. *)
(***************************************************************************)
AtHlt == ~InHandler /\ At("hlt")

Enter(c) ==
  /\ handlers' = <<c>> \o handlers
  /\ if_flag' = FALSE
  /\ shell' = IF AtHlt THEN Tail(shell) ELSE shell
  /\ UNCHANGED <<manager, held, queue, processed, accepted>>

\* The PIC holds back an IRQ while one of its own or a higher priority is in
\* service (IRQ 0 is the highest).
Deliverable(irq) == if_flag /\ running # TM!KernelMain /\ \A n \in in_service : irq < n

timer_irq ==
  /\ Deliverable(0)
  /\ tick_count < MaxTicks
  /\ Enter(timer_interrupt)
  /\ in_service' = in_service \cup {0}
  /\ UNCHANGED typed

keyboard_irq ==
  /\ Deliverable(1)
  /\ typed < MaxKeys
  /\ \E k \in Keys : Enter(keyboard_interrupt(k))
  /\ in_service' = in_service \cup {1}
  /\ typed' = typed + 1

\* int 0x80, a page fault or another exception in the ring 3 program.
user_event ==
  /\ ~InHandler /\ running = TM!MainPid
  /\ \E e \in UserEvents : Enter(gate(e))
  /\ UNCHANGED <<in_service, typed>>

\* iretd.  Interrupts are only taken where IF is on, so they come back on.
iret ==
  /\ InHandler /\ code = <<>>
  /\ handlers' = Tail(handlers)
  /\ if_flag' = TRUE
  /\ UNCHANGED <<manager, shell, held, io>>

Execute ==
  \/ lock \/ unlock \/ cli \/ sti \/ notify_end_of_interrupt \/ manager_step
  \/ push \/ poll \/ pop \/ iret

Next == boot \/ Execute \/ spin \/ timer_irq \/ keyboard_irq \/ user_event

Spec == Init /\ [][Next]_vars

\* The CPU executes; the PIT does not stop; a thread gets to execute again and
\* again because 10 ms pass between two ticks and keys come at a human pace.
FairSpec ==
  /\ Spec
  /\ WF_vars(boot)
  /\ WF_vars(InHandler /\ Execute)
  /\ SF_vars(~InHandler /\ Execute)
  /\ SF_vars(timer_irq)

----------------------------------------------------------------------------
(***************************************************************************)
(* Properties.                                                             *)
(***************************************************************************)
SpinsOn(l) == At("lock") /\ Head(code).lock = l /\ l \in held

\* task.rs and interrupts.rs: a lock that handlers take is held by a thread
\* only with interrupts off, so that no handler finds it held.  True of every
\* lock but SCANCODE_QUEUE and WRITER; for ALLOCATOR, which no thread guards,
\* because handlers allocate only before the shell thread first runs.
GuardedLocksNeverSpin ==
  \A l \in Locks \ {"SCANCODE_QUEUE", "WRITER"} : ~(InHandler /\ SpinsOn(l))

\* The shell never waits for a lock it holds itself (INPUT_BUFFER and HISTORY
\* are taken over and over on the way from a key to the screen), and never for
\* one that somebody else holds.
ShellNeverSpins == InHandler \/ \A l \in Locks : ~SpinsOn(l)

\* push_char's comments: HISTORY and INPUT_BUFFER are never held together.
InputAndHistoryApart == ~({"HISTORY", "INPUT_BUFFER"} \subseteq held)

\* Handlers are atomic: the nested without_interrupts of a handler's print does
\* not turn interrupts on, so no second handler cuts into the first.
HandlersAreAtomic == Len(handlers) <= 1 /\ (InHandler => ~if_flag)

\* Every IRQ has been acknowledged when its handler returns, also the tick
\* that went on in another task: nothing blocks the next one.
IrqsAcknowledged == ~InHandler => in_service = {}

\* The processor stays in a handler for ever: one that waits for a lock, or the
\* loop an exception ends in.
Hung == InHandler /\ (At("loop") \/ \E l \in Locks : SpinsOn(l))

\* Every scancode that entered the queue is taken out and processed, unless
\* the kernel hangs or an exception stops it first: no wakeup is lost between the last pop of poll_input
\* and hlt, and the bound on one round of poll_input leaves nothing behind.
KeysProcessed ==
  \A n \in 1 .. MaxKeys : accepted >= n ~> (accepted - Len(queue) >= n \/ Hung)

\* without_interrupts "prevents deadlocks when a thread acquires a lock that
\* an interrupt handler might also need" (interrupts.rs): the keyboard handler
\* never finds the queue held by poll_input.
QueueLockNeverSpins == ~(InHandler /\ SpinsOn("SCANCODE_QUEUE"))

\* The same for the screen: the print system call never finds WRITER held.
WriterLockNeverSpins == ~(InHandler /\ SpinsOn("WRITER"))
=============================================================================
