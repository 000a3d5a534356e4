---------------------------- MODULE TaskManager ----------------------------
(***************************************************************************)
(* The scheduler of src/src/task.rs together with the part of the CPU it   *)
(* drives: which task's instructions are being executed, and where on the  *)
(* kernel stacks the context of every suspended task lies.                 *)
(*                                                                         *)
(* A task manager method runs with the SCHEDULER lock held and interrupts  *)
(* off, so one method is one step.  (That the lock is always free when a   *)
(* handler wants it is the business of module Kernel.)  The manager never  *)
(* learns which task executes: it only reads and returns stack pointers.   *)
(* The variables running and saved say what those pointers do to the CPU.  *)
(*                                                                         *)
(* Pids: 0 is the virtual kernel_idle, 1 the initial ring 3 thread, 2 and  *)
(* up the kernel threads registered at boot.  current_task_idx counts from *)
(* 0, as in the source; the task it names is tasks[current_task_idx + 1].  *)
(***************************************************************************)
EXTENDS Integers, Sequences, FiniteSets, FiniteSetsExt

CONSTANTS
  NumKernelTasks,  \* calls of register_named_task made by kernel_main
  Depths,          \* depths at which a kernel thread can be interrupted
  SleepArgs,       \* SYS_SLEEP arguments a ring 3 program passes
  TickModulus,     \* the u64 counters wrap at this value
  MaxTicks,        \* bound: no timer tick once tick_count reaches it
  KillFrom         \* privileges of the tasks from which kill_task is called

ASSUME ConstantsAssumption ==
  /\ NumKernelTasks \in Nat \ {0}
  /\ 0 \in Depths
  /\ SleepArgs \subseteq Nat
  /\ TickModulus \in Nat \ {0}
  /\ MaxTicks \in Nat
  /\ KillFrom \subseteq {"Kernel", "User"}

VARIABLES
  tasks,              \* TaskManager.tasks
  current_task_idx,   \* TaskManager.current_task_idx
  next_task_id,       \* TaskManager.next_task_id
  tick_count,         \* TaskManager.tick_count
  main_task_tracked,  \* TaskManager.main_task_tracked
  panicked,           \* TRUE once a panic! of the manager has been reached
  running,            \* pid whose instructions the CPU executes
  saved,              \* where the context of each suspended task lies
  deadline            \* history: tick before which the sleeper must not run

manager == <<tasks, current_task_idx, next_task_id, tick_count,
             main_task_tracked>>
vars == <<manager, panicked, running, saved, deadline>>

MainPid == 1
Pids == 1 .. NumKernelTasks + 1
KernelMain == 0   \* running, while kernel_main still boots
Lost == -1        \* running, after a switch to a frame that holds no context

----------------------------------------------------------------------------
(***************************************************************************)
(* Stacks.  A frame is the place <<p, d>> at depth d of the 8 KiB stack of *)
(* kernel thread p.  Ring 3 code has no such stack: every interrupt taken  *)
(* from ring 3 pushes its frame at the one address TSS.esp0 names.         *)
(***************************************************************************)
TssFrame == <<MainPid, 0>>
Frames == Pids \X Depths
Nowhere == <<0, 0>>

InterruptFrames(p) == IF p = MainPid THEN {TssFrame} ELSE {p} \X Depths

\* Pushing a frame destroys whatever context lay at that place.
Push(s, p, frame) ==
  [q \in Pids |-> IF q = p THEN frame
                  ELSE IF s[q] = frame THEN Nowhere ELSE s[q]]

\* popad; iretd with esp = frame: the CPU goes on with the context found there.
OwnerOf(s, frame) ==
  IF \E p \in Pids : s[p] = frame THEN CHOOSE p \in Pids : s[p] = frame ELSE Lost

Resume(s, frame) ==
  /\ running' = OwnerOf(s, frame)
  /\ saved' = [q \in Pids |-> IF s[q] = frame THEN Nowhere ELSE s[q]]

----------------------------------------------------------------------------
(***************************************************************************)
(* The parts the methods are made of.  They work on a view m of the        *)
(* manager: the task list m.ts and the current index m.c.                  *)
(***************************************************************************)
View(ts, c) == [ts |-> ts, c |-> c]

\* A task that is not asleep has wake_at = 0.
Task(id, privilege, frame) ==
  [id |-> id, privilege |-> privilege, state |-> "Ready", wake_at |-> 0,
   stack_ptr |-> frame, run_ticks |-> 0]

Tasks ==
  [id : Pids, privilege : {"Kernel", "User"},
   state : {"Ready", "Sleeping", "Terminated"}, wake_at : Nat,
   stack_ptr : Frames, run_ticks : Nat]

\* Task::new builds a mock interrupt frame at the top of the new stack.
new_task(id) == Task(id, "Kernel", <<id, 0>>)
placeholder_main(frame) == Task(MainPid, "User", frame)

\* Slip: the pid is looked up instead of the flag.
ensure_main_task_tracked_ByPid(frame) ==
  IF \E i \in DOMAIN tasks : tasks[i].id = MainPid
  THEN View(tasks, current_task_idx)
  ELSE View(<<placeholder_main(frame)>> \o tasks, 0)
ensure_main_task_tracked(frame) ==
  IF main_task_tracked THEN View(tasks, current_task_idx)
  ELSE View(<<placeholder_main(frame)>> \o tasks, 0)

\* Slip: the comparison is off by one.
Expired_Late(t, now) == t.state = "Sleeping" /\ now > t.wake_at
Expired(t, now) == t.state = "Sleeping" /\ now >= t.wake_at

wake_sleeping_tasks(m, now) ==
  LET Woken(t) == IF Expired(t, now)
                  THEN [t EXCEPT !.state = "Ready", !.wake_at = 0] ELSE t
  IN  View([i \in DOMAIN m.ts |-> Woken(m.ts[i])], m.c)

Clamp(ts, c) == IF c >= Len(ts) THEN 0 ELSE c

\* Drops every Terminated task but the current one and moves the index down
\* by the number of tasks dropped before it.
KthOf(S, k) == CHOOSE i \in S : Cardinality({j \in S : j <= i}) = k
KeptIndices(m) ==
  {i \in DOMAIN m.ts : i = m.c + 1 \/ m.ts[i].state # "Terminated"}
cleanup_terminated_non_current(m) ==
  LET kept == KeptIndices(m)
      ts   == [k \in 1 .. Cardinality(kept) |-> m.ts[KthOf(kept, k)]]
  IN  View(ts, Clamp(ts, Cardinality({i \in kept : i <= m.c})))

\* Vec::remove: what comes after the removed element moves down.
remove(ts, i) == [j \in 1 .. Len(ts) - 1 |-> ts[IF j < i THEN j ELSE j + 1]]

RemoveCurrent(m) ==
  LET ts == remove(m.ts, m.c + 1) IN View(ts, Clamp(ts, m.c))

\* The current task of a tick: one that is marked is dropped, a live one has
\* its frame saved and is charged the tick.
\* Slips: the frame is not stored; a marked task is treated like any other.
ChargeCurrent_FrameLost(m, frame) ==
  IF m.ts[m.c + 1].state = "Terminated" THEN RemoveCurrent(m)
  ELSE View([m.ts EXCEPT ![m.c + 1].run_ticks = (@ + 1) % TickModulus], m.c)
ChargeCurrent_MarkIgnored(m, frame) ==
  View([m.ts EXCEPT ![m.c + 1].stack_ptr = frame,
                    ![m.c + 1].run_ticks = (@ + 1) % TickModulus], m.c)
ChargeCurrent(m, frame) ==
  IF m.ts[m.c + 1].state = "Terminated" THEN RemoveCurrent(m)
  ELSE View([m.ts EXCEPT ![m.c + 1].stack_ptr = frame,
                         ![m.c + 1].run_ticks = (@ + 1) % TickModulus], m.c)

\* The offsets 1..=len at which next_ready_after finds a ready task.
\* Slips: any task that is not dead will do; the scan starts at the front.
ReadyOffsets_NotDead(m) ==
  {o \in 1 .. Len(m.ts) : m.ts[((m.c + o) % Len(m.ts)) + 1].state # "Terminated"}
ReadyOffsets(m) ==
  {o \in 1 .. Len(m.ts) : m.ts[((m.c + o) % Len(m.ts)) + 1].state = "Ready"}
next_ready_after_First(m) == Min(ReadyOffsets(View(m.ts, 0))) % Len(m.ts)
next_ready_after(m) == (m.c + Min(ReadyOffsets(m))) % Len(m.ts)

Position(ts, pid) == {i \in DOMAIN ts : ts[i].id = pid}
Ids == {tasks[i].id : i \in DOMAIN tasks}

----------------------------------------------------------------------------
Init ==
  /\ tasks = <<>>
  /\ current_task_idx = 0
  /\ next_task_id = 2
  /\ tick_count = 0
  /\ main_task_tracked = FALSE
  /\ panicked = FALSE
  /\ running = KernelMain
  /\ saved = [p \in Pids |-> Nowhere]
  /\ deadline = 0

(***************************************************************************)
(* kernel_main registers the kernel threads with interrupts off, then      *)
(* leaves for ring 3.                                                      *)
(***************************************************************************)
register_named_task ==
  /\ running = KernelMain
  /\ next_task_id < NumKernelTasks + 2
  /\ tasks' = Append(tasks, new_task(next_task_id))
  /\ next_task_id' = next_task_id + 1
  /\ saved' = [saved EXCEPT ![next_task_id] = <<next_task_id, 0>>]
  /\ UNCHANGED <<current_task_idx, tick_count, main_task_tracked, panicked,
                 running, deadline>>

switch_to_user_mode ==
  /\ running = KernelMain
  /\ next_task_id = NumKernelTasks + 2
  /\ running' = MainPid
  /\ UNCHANGED <<manager, panicked, saved, deadline>>

(***************************************************************************)
(* The common end of schedule_next and of the fault path: the next ready   *)
(* task of m becomes current and its frame goes to esp.  s says where the  *)
(* contexts lie at that moment.  The two or_else fallbacks of the code     *)
(* (the current task, first_ready_index) try indices that next_ready_after *)
(* has tried before, so with no ready offset the code panics.              *)
(***************************************************************************)
SwitchToNext(m, s) ==
  IF ReadyOffsets(m) = {}
  THEN /\ panicked' = TRUE
       /\ UNCHANGED <<tasks, current_task_idx, main_task_tracked, running, saved>>
  ELSE /\ tasks' = m.ts
       /\ current_task_idx' = next_ready_after(m)
       /\ main_task_tracked' = TRUE
       /\ Resume(s, m.ts[next_ready_after(m) + 1].stack_ptr)
       /\ UNCHANGED panicked

(***************************************************************************)
(* timer_interrupt_wrapper and scheduler_tick: the timer interrupts the    *)
(* running task at frame, and schedule_next picks the frame to resume.     *)
(***************************************************************************)
schedule_next(frame) ==
  LET now == (tick_count + 1) % TickModulus
      Prepared == cleanup_terminated_non_current(
                    wake_sleeping_tasks(ensure_main_task_tracked(frame), now))
      After(m) == cleanup_terminated_non_current(ChargeCurrent(m, frame))
  IN  /\ tick_count' = now
      /\ UNCHANGED <<next_task_id, deadline>>
      /\ IF tasks = <<>>
         THEN UNCHANGED <<tasks, current_task_idx, main_task_tracked, panicked,
                          running, saved>>
         ELSE \E m \in {Prepared} : \E n \in {After(m)} :
                SwitchToNext(n, Push(saved, running, frame))

scheduler_tick ==
  /\ running \in Pids
  /\ ~panicked
  /\ tick_count < MaxTicks
  /\ \E frame \in InterruptFrames(running) : schedule_next(frame)

(***************************************************************************)
(* SYS_SLEEP and SYS_YIELD (a sleep of 1): int 0x80 from ring 3.  The call *)
(* returns to the caller, which goes on until the next tick.               *)
(***************************************************************************)
Refused(m) ==
  \/ m.c >= Len(m.ts)
  \/ m.ts[m.c + 1].privilege # "User"
  \/ m.ts[m.c + 1].state = "Terminated"

sleep_current_task(ticks) ==
  LET m == ensure_main_task_tracked(TssFrame)
      n == IF ticks > 1 THEN ticks ELSE 1
  IN  /\ running = MainPid
      /\ ~panicked
      /\ tasks # <<>>   \* else it returns false at once
      /\ main_task_tracked' = TRUE
      /\ current_task_idx' = m.c
      /\ IF Refused(m) THEN tasks' = m.ts /\ UNCHANGED deadline
         ELSE /\ tasks' = [m.ts EXCEPT
                             ![m.c + 1].stack_ptr = TssFrame,
                             ![m.c + 1].state = "Sleeping",
                             ![m.c + 1].wake_at = (tick_count + n) % TickModulus]
              /\ deadline' = tick_count + n
      /\ saved' = [Push(saved, running, TssFrame) EXCEPT ![running] = Nowhere]
      /\ UNCHANGED <<next_task_id, tick_count, panicked, running>>

(***************************************************************************)
(* kill_task, from thread context.  The error returns (pid 0, unknown pid, *)
(* kernel task) change nothing.                                            *)
(***************************************************************************)
Killable_AnyPrivilege(pid, i) == i \in Position(tasks, pid)
Killable(pid, i) == i \in Position(tasks, pid) /\ tasks[i].privilege = "User"

kill_current(pid) ==
  /\ Killable(pid, current_task_idx + 1)
  /\ tasks' = [tasks EXCEPT ![current_task_idx + 1].state = "Terminated",
                            ![current_task_idx + 1].wake_at = 0]
  /\ UNCHANGED current_task_idx

\* The index moves down when a task before it goes away.
IdxAfterRemoval_Kept(i) == current_task_idx
IdxAfterRemoval(i) ==
  IF i <= current_task_idx THEN current_task_idx - 1 ELSE current_task_idx

kill_other(pid) ==
  \E i \in DOMAIN tasks \ {current_task_idx + 1} :
    /\ Killable(pid, i)
    /\ tasks' = remove(tasks, i)
    /\ current_task_idx' = Clamp(tasks', IdxAfterRemoval(i))

PrivilegeOf(p) == IF p = MainPid THEN "User" ELSE "Kernel"

kill_task(pid) ==
  /\ running \in Pids
  /\ PrivilegeOf(running) \in KillFrom
  /\ ~panicked
  /\ kill_current(pid) \/ kill_other(pid)
  /\ UNCHANGED <<next_task_id, tick_count, main_task_tracked, panicked,
                 running, saved, deadline>>

(***************************************************************************)
(* page_fault_dispatcher on a ring 3 fault: the faulting task goes away    *)
(* and the CPU resumes another one.                                        *)
(***************************************************************************)
terminate_current_user_task_from_fault ==
  LET tracked == ensure_main_task_tracked(TssFrame)
      left(m) == cleanup_terminated_non_current(
                   wake_sleeping_tasks(RemoveCurrent(m), tick_count))
  IN  /\ running = MainPid
      /\ ~panicked
      /\ UNCHANGED <<next_task_id, tick_count, deadline>>
      /\ \E m \in {View(tracked.ts, Clamp(tracked.ts, tracked.c))} :
           IF m.ts[m.c + 1].privilege = "User"
           THEN \E n \in {left(m)} :
                  SwitchToNext(n, [Push(saved, running, TssFrame)
                                     EXCEPT ![running] = Nowhere])
           ELSE /\ panicked' = TRUE
                /\ UNCHANGED <<tasks, current_task_idx, main_task_tracked, running,
                               saved>>

----------------------------------------------------------------------------
(***************************************************************************)
(* What ps, tasks and top read, each in a critical section of its own.     *)
(***************************************************************************)
state_label(t, is_current) ==
  CASE t.state = "Ready"      -> IF is_current THEN "running" ELSE "ready"
    [] t.state = "Sleeping"   -> "sleep"
    [] t.state = "Terminated" -> "dead"

Row(t, is_current) ==
  [id |-> t.id, state |-> state_label(t, is_current), run_ticks |-> t.run_ticks]
IdleRow == [id |-> 0, state |-> "idle", run_ticks |-> 0]
PendingMainRow == [id |-> MainPid, state |-> "running", run_ticks |-> 0]

process_snapshot ==
  LET rows == [i \in DOMAIN tasks |->
                 Row(tasks[i], main_task_tracked /\ i = current_task_idx + 1)]
  IN  IF main_task_tracked THEN <<IdleRow>> \o rows
      ELSE <<IdleRow, PendingMainRow>> \o rows

stats_NoPendingMain ==
  [total_tasks |-> Len(tasks) + 1,
   current_task_id |-> IF main_task_tracked THEN tasks[current_task_idx + 1].id ELSE 0]
stats ==
  [total_tasks |-> Len(tasks) + IF main_task_tracked THEN 1 ELSE 2,
   current_task_id |->
     IF main_task_tracked /\ current_task_idx < Len(tasks)
     THEN tasks[current_task_idx + 1].id ELSE 0]

----------------------------------------------------------------------------
Next ==
  \/ register_named_task
  \/ switch_to_user_mode
  \/ scheduler_tick
  \/ \E ticks \in SleepArgs : sleep_current_task(ticks)
  \/ \E pid \in Pids : kill_task(pid)
  \/ terminate_current_user_task_from_fault

Spec == Init /\ [][Next]_vars

\* kernel_main keeps executing until it has left for ring 3.  From then on the
\* PIT raises IRQ0 100 times a second, and ring 3 code and the loop of a kernel
\* thread run with interrupts on: the tick is always served.
FairSpec ==
  /\ Spec
  /\ WF_vars(register_named_task)
  /\ WF_vars(switch_to_user_mode)
  /\ WF_vars(scheduler_tick)

----------------------------------------------------------------------------
(***************************************************************************)
(* Properties.                                                             *)
(***************************************************************************)
\* Every variable stays in its type; in particular current_task_idx never
\* leaves the list, so that no tasks[current_task_idx] of task.rs is out of
\* bounds, and no pid is handed out twice.
TypeOK ==
  /\ tasks \in Seq(Tasks)
  /\ current_task_idx \in 0 .. (IF tasks = <<>> THEN 0 ELSE Len(tasks) - 1)
  /\ next_task_id \in 2 .. NumKernelTasks + 2
  /\ tick_count \in 0 .. TickModulus - 1
  /\ main_task_tracked \in BOOLEAN
  /\ panicked \in BOOLEAN
  /\ running \in Pids \cup {KernelMain}
  /\ saved \in [Pids -> Frames \cup {Nowhere}]
  /\ deadline \in Nat
  /\ \A i, j \in DOMAIN tasks : tasks[i].id = tasks[j].id => i = j

\* The manager knows who runs: once the main task is tracked, the entry at
\* current_task_idx is the task the CPU executes.  sleep_current_task and the
\* page fault path act on that entry without any other evidence of who called.
RunningIsCurrent ==
  main_task_tracked => tasks[current_task_idx + 1].id = running

\* No context is lost, shared or stale: the stack_ptr of every suspended task
\* is the place where that task's own latest context lies, although all ring 3
\* frames share TSS.esp0 and a fresh task's frame was never pushed by the CPU.
ContextsIntact ==
  \A i \in DOMAIN tasks :
    tasks[i].id # running => /\ saved[tasks[i].id] # Nowhere
                             /\ tasks[i].stack_ptr = saved[tasks[i].id]

\* None of the panic! sites of the manager is reachable, whatever the ring 3
\* program does (sleep, yield, fault) and whatever the shell kills.
NoPanic == ~panicked

(***************************************************************************)
(* The inductive strengthening of the four invariants above.               *)
(***************************************************************************)
\* ts is a list in which pid 1, if there, is the only User task; the kernel
\* threads 2 .. last are all there and are Ready.
WellFormed(ts, last) ==
  /\ ts \in Seq(Tasks)
  /\ \A i, j \in DOMAIN ts : ts[i].id = ts[j].id => i = j
  /\ \A i \in DOMAIN ts :
       /\ ts[i].id <= last
       /\ ts[i].privilege = PrivilegeOf(ts[i].id)
       /\ ts[i].privilege = "Kernel" => ts[i].state = "Ready"
  /\ \A p \in 2 .. last : \E i \in DOMAIN ts : ts[i].id = p

\* kernel_main has tracked nothing; it leaves when all threads are registered;
\* the first tick or sleep comes from ring 3 and finds user_main untracked.
BootProgress ==
  /\ running = KernelMain => ~main_task_tracked
  /\ running # KernelMain => next_task_id = NumKernelTasks + 2
  /\ ~main_task_tracked => /\ running \in {KernelMain, MainPid}
                           /\ MainPid \notin Ids
                           /\ current_task_idx = 0

\* Only the current task can be marked, and only after user_main is tracked.
MarkedIsCurrent ==
  \A i \in DOMAIN tasks : tasks[i].state = "Terminated" =>
    main_task_tracked /\ i = current_task_idx + 1

\* A context lies where that task's interrupts are taken.
SavedInPlace == \A p \in Pids : saved[p] \in InterruptFrames(p) \cup {Nowhere}

\* Together: each part is kept by every step of Next.
IInv ==
  /\ TypeOK
  /\ NoPanic
  /\ RunningIsCurrent
  /\ ContextsIntact
  /\ WellFormed(tasks, next_task_id - 1)
  /\ BootProgress
  /\ MarkedIsCurrent
  /\ SavedInPlace

\* A sleeper is Ready exactly from its deadline on: wake_sleeping_tasks neither
\* wakes it a tick early nor leaves it asleep on the tick it asked for.
WakesOnTime ==
  \A i \in Position(tasks, MainPid) :
    /\ tasks[i].state = "Ready" => tick_count >= deadline
    /\ tasks[i].state = "Sleeping" => tick_count < deadline

\* A ring 3 task that asked for n ticks of sleep is not switched to again
\* before its deadline (it may run on until the tick that suspends it).
NeverResumedEarly ==
  [][running # MainPid /\ running' = MainPid => tick_count' >= deadline]_vars

\* Every tick is charged to exactly one task: the run_ticks add up to the
\* total_ticks that top divides them by, less what removed tasks had used.
TickAccounting ==
  LET used == SumFunction([i \in DOMAIN tasks |-> tasks[i].run_ticks])
  IN  IF main_task_tracked /\ MainPid \notin Ids THEN used <= tick_count
      ELSE used = tick_count

\* A task that was killed or that faulted never runs or gets listed again:
\* ensure_main_task_tracked does not bring user_main back.
RemovedStaysRemoved ==
  [][\A p \in Pids : main_task_tracked /\ p \notin Ids =>
        p \notin Ids' /\ running' # p]_vars

\* shell.rs promises that a task marked for termination goes away on the next
\* timer tick; until then nothing, a sleep call included, revives it.
MarkedDiesNextTick ==
  [][\A i \in DOMAIN tasks : tasks[i].state = "Terminated" =>
        \/ tasks[i].id \notin Ids' /\ running' # tasks[i].id
        \/ tick_count' = tick_count /\ tasks'[i] = tasks[i]]_vars

\* With kill called from the kernel's shell thread only, every successful kill
\* is KilledNow: the entry it names is never the current one.
KillIsImmediate == \A i \in DOMAIN tasks : tasks[i].state # "Terminated"

\* ps and tasks tell the truth: one row per live task and the idle row, as many
\* as stats counts; the row labelled running is the executing task's, and
\* stats names the executing task.
PsTruthful ==
  running # KernelMain =>
    /\ Len(process_snapshot) = stats.total_tasks
    /\ \A i, j \in DOMAIN process_snapshot :
         process_snapshot[i].id = process_snapshot[j].id => i = j
    /\ \A i \in DOMAIN process_snapshot :
         process_snapshot[i].state = "running" => process_snapshot[i].id = running
    /\ stats.current_task_id \in {0, running}

\* How many places after the current task entry i stands.
TurnsAway(i) == (i - 1 - current_task_idx) % Len(tasks)

\* Round robin: each tick brings every waiting Ready task strictly closer to
\* its turn, or runs it, so that no task overtakes it twice.
RoundRobin ==
  [][tick_count' # tick_count /\ main_task_tracked =>
       \A i \in DOMAIN tasks :
         tasks[i].state = "Ready" /\ tasks[i].id # running =>
           \/ running' = tasks[i].id
           \/ TurnsAway(i)' < TurnsAway(i)]_vars

\* No starvation: a Ready task eventually executes, or has been removed.
ReadyRuns ==
  \A p \in Pids :
    (\E i \in Position(tasks, p) : tasks[i].state = "Ready")
      ~> (running = p \/ p \notin Ids)

\* A sleeping task eventually becomes Ready, or has been removed: also when
\* the tick counter wraps around between the call and the deadline.
SleeperWakes ==
  (\E i \in Position(tasks, MainPid) : tasks[i].state = "Sleeping")
    ~> \A i \in Position(tasks, MainPid) : tasks[i].state = "Ready"
=============================================================================
