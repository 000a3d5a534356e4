---------------------------- MODULE StatusReport ----------------------------
(***************************************************************************)
(* The shell's status commands over the task manager: ps, top, tasks and *)
(* kill.  Most of them ask the manager twice, in two critical sections,    *)
(* and timer ticks, sleeps and faults happen in between.                   *)
(***************************************************************************)
EXTENDS TaskManager

VARIABLES
  asked,    \* the command between its two critical sections, with what it knows
  printed   \* the last report

report == <<asked, printed>>
allvars == <<vars, report>>

ShellPid == 2   \* the kernel thread that runs the shell

Idle == [cmd |-> "none"]

-----------------------------------------------------------------------------
\* Slip: the percentage is rounded up.
cpu_pct_Up(run_ticks, total) ==
  IF total = 0 THEN 0 ELSE (run_ticks * 100 + total - 1) \div total

cpu_pct(run_ticks, total) == IF total = 0 THEN 0 ELSE (run_ticks * 100) \div total

-----------------------------------------------------------------------------
(* Commands.  The shell thread executes them.                              *)

AtShell == running = ShellPid /\ ~panicked

\* top up to its second question.
command_top ==
  /\ AtShell /\ asked = Idle
  /\ asked' = [cmd |-> "top", total |-> tick_count]
  /\ UNCHANGED <<vars, printed>>

\* The list, divided by the ticks read before.  (missed is not printed.)
command_top_list ==
  /\ AtShell /\ asked.cmd = "top"
  /\ printed' = [cmd |-> "top", total |-> asked.total, missed |-> tick_count - asked.total,
                 pct |-> [i \in DOMAIN process_snapshot |->
                            cpu_pct(process_snapshot[i].run_ticks, asked.total)]]
  /\ asked' = Idle
  /\ UNCHANGED vars

\* tasks up to its call of command_ps.  (The uptime it prints is left out.)
command_tasks ==
  /\ AtShell /\ asked = Idle
  /\ asked' = [cmd |-> "tasks", count |-> stats.total_tasks,
               current |-> stats.current_task_id]
  /\ UNCHANGED <<vars, printed>>

\* kill up to its call of command_ps, for a root session and a number as pid:
\* the other cases change nothing and print no list.
command_kill(pid) ==
  /\ AtShell /\ asked = Idle
  /\ UNCHANGED printed
  /\ \/ /\ kill_task(pid)
        /\ asked' = [cmd |-> "kill", pid |-> pid,
                     answer |-> IF Killable(pid, current_task_idx + 1)
                                THEN "MarkedForTermination" ELSE "KilledNow"]
     \/ /\ \A i \in DOMAIN tasks : ~Killable(pid, i)
        /\ asked' = [cmd |-> "kill", pid |-> pid, answer |-> "Err"]
        /\ UNCHANGED vars

\* The list, as the end of tasks and kill or as a command of its own; said is
\* what the command has told the user before.
command_ps ==
  /\ AtShell /\ asked.cmd # "top"
  /\ printed' = [cmd |-> asked.cmd, said |-> asked, rows |-> process_snapshot]
  /\ asked' = Idle
  /\ UNCHANGED vars

-----------------------------------------------------------------------------
InitReport == Init /\ asked = Idle /\ printed = Idle

\* The rest of the kernel.
Meanwhile ==
  /\ \/ register_named_task \/ switch_to_user_mode \/ scheduler_tick
     \/ \E ticks \in SleepArgs : sleep_current_task(ticks)
     \/ terminate_current_user_task_from_fault
  /\ UNCHANGED report

NextReport ==
  \/ Meanwhile
  \/ command_top \/ command_top_list
  \/ command_tasks
  \/ \E pid \in Pids \cup {0} : command_kill(pid)
  \/ command_ps

SpecReport == InitReport /\ [][NextReport]_allvars

-----------------------------------------------------------------------------
(* Properties *)

\* The column CPU% of top adds up to at most 100, but for the ticks that passed
\* between its two critical sections: those are in the list and not in the total.
PercentagesAddUp ==
  printed.cmd = "top" =>
    LET sum == SumFunction(printed.pct)
    IN  IF printed.total = 0 THEN sum = 0
        ELSE sum * printed.total <= 100 * (printed.total + printed.missed)

\* tasks names the shell itself as the current task.  It never lists more
\* processes than it has just counted, and fewer only when the user task has
\* faulted before command_ps asked again.
CountCoversList ==
  printed.cmd = "tasks" =>
    LET listed == {printed.rows[i].id : i \in DOMAIN printed.rows}
    IN  /\ printed.said.current = ShellPid
        /\ Len(printed.rows) = printed.said.count
           \/ (Len(printed.rows) = printed.said.count - 1 /\ MainPid \notin listed)

\* After "PID n terminated." the list command_kill prints does not show process
\* n, whatever ran before command_ps took its snapshot.
KilledIsNotListed ==
  (printed.cmd = "kill" /\ printed.said.answer = "KilledNow") =>
    \A i \in DOMAIN printed.rows : printed.rows[i].id # printed.said.pid
=============================================================================
