-------------------------- MODULE SchedulingProofs --------------------------
(***************************************************************************)
(* Proofs about when tasks run, and about what the shell's status commands *)
(* report while they do: sleepers wake on their tick, ticks go round and   *)
(* are charged once, and the reports of tasks, kill and top survive what   *)
(* happens between their two critical sections.                            *)
(***************************************************************************)
EXTENDS StatusReport, TaskManagerProofs

(***************************************************************************)
(* What a tick makes of the entries of the list.                           *)
(***************************************************************************)
\* u is entry t after a tick: awake if its time has come, otherwise as it was.
Aged(u, t, now) ==
  /\ u.id = t.id
  /\ Expired(t, now) => u.state = "Ready"
  /\ ~Expired(t, now) => u.state = t.state /\ u.wake_at = t.wake_at

\* wake_sleeping_tasks works entry by entry.
LEMMA WakeEntries ==
  ASSUME NEW ts, NEW c, GoodList(ts, c), NEW now
  PROVE  \E ws :
           /\ wake_sleeping_tasks(View(ts, c), now) = View(ws, c)
           /\ GoodList(ws, c)
           /\ DOMAIN ws = DOMAIN ts
           /\ \A i \in DOMAIN ts : Aged(ws[i], ts[i], now)
<1>1. PICK ws : /\ wake_sleeping_tasks(View(ts, c), now) = View(ws, c)
                /\ GoodList(ws, c)
                /\ DOMAIN ws = DOMAIN ts
  BY WakeKeepsGood
<1> DEFINE W(t) == IF Expired(t, now)
                   THEN [t EXCEPT !.state = "Ready", !.wake_at = 0] ELSE t
<1>2. ws = [i \in DOMAIN ts |-> W(ts[i])]
  BY <1>1 DEF wake_sleeping_tasks, View
<1>3. \A i \in DOMAIN ts : ts[i] \in Tasks /\ ws[i] = W(ts[i])
  <2> HIDE DEF W
  <2> QED BY <1>2 DEF GoodList, WellFormed
<1>4. ASSUME NEW t \in Tasks
      PROVE  Aged(W(t), t, now)
  <2>1. CASE Expired(t, now)
    <3>1. W(t) = [t EXCEPT !.state = "Ready", !.wake_at = 0]
      BY <2>1
    <3> HIDE DEF W
    <3>2. W(t).id = t.id /\ W(t).state = "Ready"
      BY <3>1 DEF Tasks
    <3> QED BY <2>1, <3>2 DEF Aged
  <2>2. CASE ~Expired(t, now)
    BY <2>2 DEF Aged
  <2> QED BY <2>1, <2>2
<1> HIDE DEF W
<1>5. \A i \in DOMAIN ts : Aged(ws[i], ts[i], now)
  BY <1>3, <1>4
<1> QED BY <1>1, <1>5

\* Every entry a tick leaves is an entry it found, aged; when nobody was marked
\* all of them are left, at their places.
LEMMA TickEntries ==
  ASSUME NEW frame, NEW ts, NEW c, NEW us, NEW d, TickMakes(frame, ts, c, us, d)
  PROVE  /\ \A j \in DOMAIN us : \E k \in DOMAIN ts : Aged(us[j], ts[k], tick_count')
         /\ (\A k \in DOMAIN ts : ts[k].state # "Terminated") =>
              /\ d = c /\ DOMAIN us = DOMAIN ts
              /\ \A k \in DOMAIN ts : Aged(us[k], ts[k], tick_count')
<1> DEFINE now == tick_count'
<1>1. GoodList(ts, c) /\ GoodList(us, d)
  BY DEF TickMakes
<1>2. PICK ws : /\ wake_sleeping_tasks(View(ts, c), now) = View(ws, c)
                /\ GoodList(ws, c)
                /\ DOMAIN ws = DOMAIN ts
                /\ \A i \in DOMAIN ts : Aged(ws[i], ts[i], now)
  BY <1>1, WakeEntries
<1>3. ChargeCurrent(View(ws, c), frame) = View(us, d)
  BY <1>2 DEF TickMakes
<1>4. /\ ws \in Seq(Tasks) /\ DOMAIN ws = 1 .. Len(ws)
      /\ c + 1 \in DOMAIN ws /\ ws[c + 1] \in Tasks
      /\ View(ws, c).ts = ws /\ View(ws, c).c = c
  BY <1>2 DEF GoodList, WellFormed, View
<1> HIDE DEF now
<1>5. CASE ws[c + 1].state = "Terminated"
  <2>1. ws[c + 1].privilege = "User"
    BY <1>2, <1>4, <1>5 DEF GoodList, WellFormed, PrivilegeOf
  <2>2. PICK vs, e :
          /\ RemoveCurrent(View(ws, c)) = View(vs, e)
          /\ GoodList(vs, e)
          /\ Len(vs) = Len(ws) - 1
          /\ \A j \in DOMAIN vs :
               /\ vs[j].state # "Terminated"
               /\ \E k \in DOMAIN ws \ {c + 1} : vs[j] = ws[k]
    BY <2>1, <1>2, RemoveCurrentIsGood, Zenon
  <2>3. us = vs
    BY <2>2, <1>3, <1>4, <1>5 DEF ChargeCurrent, View
  <2>4. \A j \in DOMAIN us : \E k \in DOMAIN ts : Aged(us[j], ts[k], now)
    BY <2>2, <2>3, <1>2
  <2>5. ts[c + 1].state = "Terminated"
    BY <1>2, <1>4, <1>5 DEF Aged, Expired
  <2> QED BY <2>4, <2>5, <1>2, <1>4 DEF now
<1>6. CASE ws[c + 1].state # "Terminated"
  <2> DEFINE n == (ws[c + 1].run_ticks + 1) % TickModulus
             u == [ws[c + 1] EXCEPT !.stack_ptr = frame, !.run_ticks = n]
  <2>1. ChargeCurrent(View(ws, c), frame) = View([ws EXCEPT ![c + 1] = u], c)
    <3>1. [ws EXCEPT ![c + 1].stack_ptr = frame,
                     ![c + 1].run_ticks = (@ + 1) % TickModulus]
            = [ws EXCEPT ![c + 1] = u]
      BY <1>4, Zenon DEF Tasks
    <3> QED BY <1>4, <1>6, <3>1 DEF ChargeCurrent
  <2>2. us = [ws EXCEPT ![c + 1] = u] /\ d = c
    <3> HIDE DEF u
    <3> QED BY <2>1, <1>3 DEF View
  <2>3. u.id = ws[c + 1].id /\ u.state = ws[c + 1].state /\ u.wake_at = ws[c + 1].wake_at
    <3> HIDE DEF n
    <3> QED BY <1>4 DEF Tasks
  <2> HIDE DEF u
  <2>4. /\ DOMAIN us = DOMAIN ws /\ us[c + 1] = u
        /\ \A i \in DOMAIN ws \ {c + 1} : us[i] = ws[i]
    BY <2>2, <1>4
  <2>5. \A i \in DOMAIN ts : Aged(us[i], ts[i], now)
    BY <2>3, <2>4, <1>2 DEF Aged
  <2> QED BY <2>2, <2>4, <2>5, <1>2 DEF now
<1> QED BY <1>5, <1>6
----------------------------------------------------------------------------
(***************************************************************************)
(* Sleeping.  The counters are u64 and count 100 ticks a second, so that   *)
(* neither they nor a deadline wraps while the machine runs.               *)
(***************************************************************************)
\* The tick counter does not reach its width, nor does any deadline.
NoWrap ==
  /\ MaxTicks + 1 < TickModulus
  /\ \A n \in SleepArgs : MaxTicks + n < TickModulus

\* The entry of user_main at tick now, when limit is its latest deadline.
OnTime(t, now, limit) ==
  /\ t.state = "Ready" => now >= limit
  /\ t.state = "Sleeping" => now < limit /\ t.wake_at = limit

\* WakesOnTime with what it rests on: wake_at is the deadline itself.
TimeInv ==
  /\ tick_count <= MaxTicks
  /\ ~main_task_tracked => deadline = 0
  /\ \A i \in DOMAIN tasks :
       tasks[i].id = MainPid => OnTime(tasks[i], tick_count, deadline)

\* Tracking user_main adds it Ready, before any sleep.
LEMMA TrackedOnTime ==
  ASSUME IInv, TimeInv, NEW frame, NEW ts, NEW c,
         ensure_main_task_tracked(frame) = View(ts, c)
  PROVE  \A k \in DOMAIN ts :
           ts[k].id = MainPid => OnTime(ts[k], tick_count, deadline)
<1>1. CASE main_task_tracked
  <2>1. ts = tasks
    BY <1>1 DEF ensure_main_task_tracked, View
  <2> QED BY <2>1 DEF TimeInv
<1>2. CASE ~main_task_tracked
  <2> DEFINE p == placeholder_main(frame)
  <2>1. ts = <<p>> \o tasks
    BY <1>2 DEF ensure_main_task_tracked, View
  <2>2. p.state = "Ready"
    BY DEF placeholder_main, Task
  <2>3. /\ deadline = 0 /\ tick_count \in Nat /\ tasks \in Seq(Tasks)
        /\ \A i \in DOMAIN tasks : tasks[i].id # MainPid
    BY <1>2 DEF TimeInv, IInv, TypeOK, BootProgress, Ids
  <2> HIDE DEF p
  <2>4. \A k \in DOMAIN ts : ts[k] = p \/ \E i \in DOMAIN tasks : ts[k] = tasks[i]
    <3> TAKE k \in DOMAIN ts
    <3>1. Len(tasks) \in Nat /\ DOMAIN tasks = 1 .. Len(tasks)
      BY <2>3
    <3>2. k \in 1 .. 1 + Len(tasks)
      BY <2>1, <2>3
    <3>3. CASE k = 1
      BY <2>1, <2>3, <3>3
    <3>4. CASE k # 1
      <4>1. k - 1 \in 1 .. Len(tasks)
        BY <3>1, <3>2, <3>4
      <4>2. ts[k] = tasks[k - 1]
        BY <2>1, <2>3, <3>1, <3>2, <3>4
      <4> QED BY <4>1, <4>2, <3>1
    <3> QED BY <3>3, <3>4
  <2>5. OnTime(p, tick_count, deadline)
    BY <2>2, <2>3 DEF OnTime
  <2> QED BY <2>3, <2>4, <2>5
<1> QED BY <1>1, <1>2

\* A tick wakes user_main when, and only when, its deadline has come.
LEMMA TickKeepsTime ==
  ASSUME NoWrap, IInv, TimeInv, scheduler_tick
  PROVE  TimeInv'
<1>1. PICK frame, ts, c, us, d : TickMakes(frame, ts, c, us, d)
  BY TickKeepsIInv
<1>2. /\ tick_count \in Nat /\ deadline \in Nat /\ MaxTicks \in Nat
      /\ TickModulus \in Nat /\ tick_count < MaxTicks
  BY ConstantsAssumption DEF scheduler_tick, IInv, TypeOK
<1>3. tick_count' = tick_count + 1
  <2>1. tick_count' = (tick_count + 1) % TickModulus
    BY TickKeepsIInv
  <2>2. tick_count + 1 \in 0 .. TickModulus - 1
    BY <1>2 DEF NoWrap
  <2> QED BY <2>1, <2>2, <1>2
<1>4. deadline' = deadline /\ main_task_tracked' = TRUE
  BY TickKeepsIInv DEF Swept
<1>5. \A k \in DOMAIN ts :
        ts[k].id = MainPid => OnTime(ts[k], tick_count, deadline)
  BY <1>1, TrackedOnTime DEF TickMakes
<1>6. \A j \in DOMAIN us : \E k \in DOMAIN ts : Aged(us[j], ts[k], tick_count')
  BY <1>1, TickEntries
<1>7. ASSUME NEW u, NEW t, Aged(u, t, tick_count'),
             OnTime(t, tick_count, deadline)
      PROVE  OnTime(u, tick_count', deadline)
  <2>1. CASE Expired(t, tick_count')
    BY <2>1, <1>7, <1>2, <1>3 DEF Aged, OnTime, Expired
  <2>2. CASE ~Expired(t, tick_count')
    BY <2>2, <1>7, <1>2, <1>3 DEF Aged, OnTime, Expired
  <2> QED BY <2>1, <2>2
<1>8. \A j \in DOMAIN us :
        us[j].id = MainPid => OnTime(us[j], tick_count', deadline)
  <2> SUFFICES ASSUME NEW j \in DOMAIN us, us[j].id = MainPid
               PROVE  OnTime(us[j], tick_count', deadline)
    OBVIOUS
  <2>1. PICK k \in DOMAIN ts : Aged(us[j], ts[k], tick_count')
    BY <1>6
  <2>2. OnTime(ts[k], tick_count, deadline)
    BY <2>1, <1>5 DEF Aged
  <2> QED BY <2>1, <2>2, <1>7
<1>9. tasks' = us
  BY <1>1 DEF TickMakes
<1> QED BY <1>2, <1>3, <1>4, <1>8, <1>9 DEF TimeInv, OnTime

\* A sleep call that is accepted sets the deadline wake_at stands for; one that
\* is refused changes neither.
LEMMA SleepKeepsTime ==
  ASSUME NoWrap, IInv, TimeInv,
         NEW ticks \in SleepArgs, sleep_current_task(ticks)
  PROVE  TimeInv'
<1>1. /\ running \in Pids /\ TssFrame \in InterruptFrames(running)
      /\ running = MainPid
  BY ConstantsAssumption DEF sleep_current_task, InterruptFrames, MainPid, Pids
<1>2. PICK ts, c : /\ ensure_main_task_tracked(TssFrame) = View(ts, c)
                   /\ GoodList(ts, c)
                   /\ ts[c + 1].id = running
                   /\ OthersIn(ts, saved)
  BY <1>1, TrackedIsGood
<1>3. /\ View(ts, c).ts = ts /\ View(ts, c).c = c
      /\ ts \in Seq(Tasks) /\ DOMAIN ts = 1 .. Len(ts)
      /\ c + 1 \in DOMAIN ts /\ ts[c + 1] \in Tasks
      /\ \A i, j \in DOMAIN ts : ts[i].id = ts[j].id => i = j
  BY <1>2 DEF View, GoodList, WellFormed
<1>4. \A k \in DOMAIN ts :
        ts[k].id = MainPid => OnTime(ts[k], tick_count, deadline)
  BY <1>2, TrackedOnTime
<1> DEFINE n == IF ticks > 1 THEN ticks ELSE 1
           w == (tick_count + n) % TickModulus
<1>5. /\ tick_count \in Nat /\ n \in Nat \ {0} /\ tick_count <= MaxTicks
      /\ w = tick_count + n
  <2>1. /\ tick_count \in Nat /\ tick_count <= MaxTicks /\ MaxTicks \in Nat
        /\ TickModulus \in Nat /\ ticks \in Nat
    BY ConstantsAssumption DEF IInv, TypeOK, TimeInv
  <2>2. n \in Nat \ {0} /\ tick_count + n \in 0 .. TickModulus - 1
    BY <2>1 DEF NoWrap
  <2> HIDE DEF n
  <2> QED BY <2>1, <2>2
<1> HIDE DEF w, n
<1>6. /\ main_task_tracked' = TRUE /\ tick_count' = tick_count
      /\ IF Refused(View(ts, c)) THEN tasks' = ts /\ deadline' = deadline
         ELSE /\ tasks' = [ts EXCEPT ![c + 1].stack_ptr = TssFrame,
                                     ![c + 1].state = "Sleeping",
                                     ![c + 1].wake_at = w]
              /\ deadline' = tick_count + n
  BY <1>2, <1>3 DEF sleep_current_task, w, n
<1>7. CASE Refused(View(ts, c))
  BY <1>4, <1>5, <1>6, <1>7 DEF TimeInv, OnTime
<1>8. CASE ~Refused(View(ts, c))
  <2> DEFINE u == [ts[c + 1] EXCEPT !.stack_ptr = TssFrame, !.state = "Sleeping",
                                    !.wake_at = w]
  <2>1. tasks' = [ts EXCEPT ![c + 1] = u] /\ deadline' = tick_count + n
    <3>1. [ts EXCEPT ![c + 1].stack_ptr = TssFrame,
                     ![c + 1].state = "Sleeping",
                     ![c + 1].wake_at = w] = [ts EXCEPT ![c + 1] = u]
      BY <1>3, Zenon DEF Tasks
    <3> QED BY <3>1, <1>6, <1>8
  <2>2. u.state = "Sleeping" /\ u.wake_at = w
    BY <1>3 DEF Tasks
  <2> HIDE DEF u
  <2>3. /\ DOMAIN tasks' = DOMAIN ts /\ tasks'[c + 1] = u
        /\ \A i \in DOMAIN ts \ {c + 1} : tasks'[i] = ts[i]
    BY <2>1, <1>3
  <2>4. \A i \in DOMAIN ts \ {c + 1} : ts[i].id # MainPid
    BY <1>1, <1>2, <1>3
  <2>5. OnTime(u, tick_count', deadline')
    BY <2>1, <2>2, <1>5, <1>6 DEF OnTime
  <2>6. \A i \in DOMAIN tasks' :
          tasks'[i].id = MainPid => OnTime(tasks'[i], tick_count', deadline')
    BY <2>3, <2>4, <2>5
  <2> QED BY <2>6, <1>5, <1>6 DEF TimeInv, OnTime
<1> QED BY <1>7, <1>8

\* Every step keeps user_main on time.
LEMMA NextKeepsTime ==
  ASSUME NoWrap, IInv, TimeInv, [Next]_vars
  PROVE  TimeInv'
<1>1. CASE register_named_task
  <2>1. tasks \in Seq(Tasks) /\ tasks' = Append(tasks, new_task(next_task_id))
    BY <1>1 DEF register_named_task, IInv, TypeOK
  <2>2. new_task(next_task_id).id # MainPid
    BY ConstantsAssumption DEF new_task, Task, MainPid, IInv, TypeOK
  <2>3. \A i \in DOMAIN tasks' :
          tasks'[i] = new_task(next_task_id) \/ (i \in DOMAIN tasks /\ tasks'[i] = tasks[i])
    BY <2>1
  <2>4. UNCHANGED <<tick_count, main_task_tracked, deadline>>
    BY <1>1 DEF register_named_task
  <2> QED BY <2>2, <2>3, <2>4 DEF TimeInv, OnTime
<1>2. CASE scheduler_tick
  BY <1>2, TickKeepsTime
<1>3. CASE \E ticks \in SleepArgs : sleep_current_task(ticks)
  BY <1>3, SleepKeepsTime
<1>4. CASE \E pid \in Pids : kill_task(pid)
  <2> DEFINE c == current_task_idx
             u == [tasks[c + 1] EXCEPT !.state = "Terminated", !.wake_at = 0]
  <2>1. /\ c + 1 \in DOMAIN tasks
        /\ \/ tasks' = [tasks EXCEPT ![c + 1] = u]
           \/ \A j \in DOMAIN tasks' : \E k \in DOMAIN tasks : tasks'[j] = tasks[k]
    BY <1>4, KillOutcome
  <2>2. tasks \in Seq(Tasks) /\ UNCHANGED <<tick_count, main_task_tracked, deadline>>
    BY <1>4 DEF IInv, TypeOK, kill_task
  <2>3. u.state = "Terminated"
    BY <2>1, <2>2 DEF Tasks
  <2> HIDE DEF u
  <2>4. CASE tasks' = [tasks EXCEPT ![c + 1] = u]
    <3>1. \A i \in DOMAIN tasks' : tasks'[i] = u \/ (i \in DOMAIN tasks /\ tasks'[i] = tasks[i])
      BY <2>1, <2>2, <2>4
    <3> QED BY <3>1, <2>2, <2>3 DEF TimeInv, OnTime
  <2>5. CASE \A j \in DOMAIN tasks' : \E k \in DOMAIN tasks : tasks'[j] = tasks[k]
    BY <2>2, <2>5 DEF TimeInv, OnTime
  <2> QED BY <2>1, <2>4, <2>5
<1>5. CASE terminate_current_user_task_from_fault
  <2>1. /\ \A j \in DOMAIN tasks' : tasks'[j].id # MainPid
        /\ UNCHANGED <<tick_count, deadline>> /\ main_task_tracked' = TRUE
    BY <1>5, FaultKeepsIInv DEF Ids, Swept
  <2> QED BY <2>1 DEF TimeInv
<1>6. CASE switch_to_user_mode \/ UNCHANGED vars
  BY <1>6 DEF vars, manager, switch_to_user_mode, TimeInv, OnTime
<1> QED BY <1>1, <1>2, <1>3, <1>4, <1>5, <1>6 DEF Next

\* As long as the tick counter does not wrap, the clock invariant holds.
LEMMA TimeInductive ==
  ASSUME NoWrap
  PROVE  Spec => []TimeInv
<1>1. Init => TimeInv
  BY ConstantsAssumption DEF Init, TimeInv
<1>2. IInv /\ TimeInv /\ [Next]_vars => TimeInv'
  BY NextKeepsTime
<1> QED BY <1>1, <1>2, Inductive, PTL DEF Spec

\* A sleeper is Ready exactly from the tick it asked for, for any sleep times
\* and any number of ticks before the counter wraps.
THEOREM SleepersWakeOnTime ==
  ASSUME NoWrap
  PROVE  Spec => []WakesOnTime
<1>1. TimeInv => WakesOnTime
  BY DEF TimeInv, WakesOnTime, Position, OnTime
<1> QED BY <1>1, TimeInductive, PTL

\* No tick switches to a sleeper before its deadline.
THEOREM SleepersStayAsleep ==
  ASSUME NoWrap
  PROVE  Spec => NeverResumedEarly
<1>1. ASSUME IInv, TimeInv, [Next]_vars, running # MainPid, running' = MainPid
      PROVE  tick_count' >= deadline
  <2>1. TimeInv' /\ tick_count \in Nat
    BY <1>1, NextKeepsTime DEF IInv, TypeOK
  <2>2. CASE scheduler_tick
    <3>1. PICK frame, ts, c, us, d : TickMakes(frame, ts, c, us, d)
      BY <1>1, <2>2, TickKeepsIInv
    <3>2. IInv' /\ main_task_tracked' = TRUE /\ deadline' = deadline
      BY <1>1, <2>2, TickKeepsIInv DEF Swept
    <3>3. /\ current_task_idx' \in 0 .. Len(us) - 1
          /\ tasks'[current_task_idx' + 1].state = "Ready"
          /\ GoodList(us, d) /\ tasks' = us
      BY <3>1, NextIsReady DEF TickMakes
    <3>4. current_task_idx' + 1 \in DOMAIN tasks'
      BY <3>3 DEF GoodList, WellFormed
    <3>5. tasks'[current_task_idx' + 1].id = MainPid
      BY <1>1, <3>2 DEF IInv, RunningIsCurrent
    <3> QED BY <2>1, <3>2, <3>3, <3>4, <3>5 DEF TimeInv, OnTime
  <2>3. CASE switch_to_user_mode
    <3>1. deadline = 0 /\ tick_count' = tick_count
      BY <1>1, <2>3 DEF switch_to_user_mode, manager, IInv, BootProgress, TimeInv
    <3> QED BY <2>1, <3>1
  <2>4. \/ scheduler_tick \/ switch_to_user_mode
        \/ running' = running \/ running = MainPid
    BY <1>1 DEF Next, vars, register_named_task, sleep_current_task, kill_task,
                terminate_current_user_task_from_fault
  <2> QED BY <1>1, <2>2, <2>3, <2>4
<1>2. IInv /\ TimeInv /\ [Next]_vars =>
        [running # MainPid /\ running' = MainPid => tick_count' >= deadline]_vars
  BY <1>1
<1> QED BY <1>2, TimeInductive, Inductive, PTL DEF Spec, NeverResumedEarly
----------------------------------------------------------------------------
(***************************************************************************)
(* Accounting.                                                             *)
(***************************************************************************)
\* The ticks that the tasks of ts have used.
RanOf(ts) == [i \in DOMAIN ts |-> ts[i].run_ticks]
Used(ts) == SumFunctionOnSet(RanOf(ts), DOMAIN ts)

\* The terms of the sum.
LEMMA Terms ==
  ASSUME NEW ts \in Seq(Tasks)
  PROVE  /\ Len(ts) \in Nat /\ DOMAIN ts = 1 .. Len(ts) /\ IsFiniteSet(DOMAIN ts)
         /\ \A i \in DOMAIN ts : /\ RanOf(ts)[i] = ts[i].run_ticks
                                 /\ RanOf(ts)[i] \in Nat /\ RanOf(ts)[i] \in Int
<1>1. Len(ts) \in Nat /\ DOMAIN ts = 1 .. Len(ts) /\ \A i \in DOMAIN ts : ts[i] \in Tasks
  OBVIOUS
<1>2. IsFiniteSet(1 .. Len(ts))
  BY <1>1, FS_Interval
<1>3. \A t \in Tasks : t.run_ticks \in Nat
  BY DEF Tasks
<1> QED BY <1>1, <1>2, <1>3 DEF RanOf

\* No task has used more than all of them together.
LEMMA UsedIsNat ==
  ASSUME NEW ts \in Seq(Tasks)
  PROVE  Used(ts) \in Nat /\ \A i \in DOMAIN ts : ts[i].run_ticks <= Used(ts)
<1> DEFINE S == DOMAIN ts
           v == RanOf(ts)
<1>1. IsFiniteSet(S) /\ \A i \in S : v[i] \in Nat /\ v[i] = ts[i].run_ticks
  BY Terms
<1>2. Used(ts) = SumFunctionOnSet(v, S)
  BY DEF Used
<1> HIDE DEF S, v
<1>3. SumFunctionOnSet(v, S) \in Nat /\ \A i \in S : v[i] <= SumFunctionOnSet(v, S)
  BY <1>1, SumOfNaturals
<1> QED BY <1>1, <1>2, <1>3 DEF S

\* Fewer tasks have used fewer ticks.
LEMMA UsedByFewer ==
  ASSUME NEW ts \in Seq(Tasks), NEW us \in Seq(Tasks), TicksFrom(us, ts),
         \A i, j \in DOMAIN us : us[i].id = us[j].id => i = j
  PROVE  Used(us) <= Used(ts)
<1> DEFINE S == DOMAIN us
           T == DOMAIN ts
           v == RanOf(us)
           w == RanOf(ts)
           b == [j \in S |-> CHOOSE k \in T : us[j].id = ts[k].id
                                             /\ us[j].run_ticks = ts[k].run_ticks]
<1>1. \A j \in S : b[j] \in T /\ us[j].id = ts[b[j]].id
                            /\ us[j].run_ticks = ts[b[j]].run_ticks
  BY DEF TicksFrom
<1>2. IsFiniteSet(S) /\ \A j \in S : v[j] = us[j].run_ticks
  BY Terms
<1>3. IsFiniteSet(T) /\ \A k \in T : w[k] = ts[k].run_ticks /\ w[k] \in Nat
  BY Terms
<1> HIDE DEF b, v, w
<1>4. /\ \A x \in S : b[x] \in T /\ w[b[x]] = v[x]
      /\ \A x, y \in S : b[x] = b[y] => x = y
  BY <1>1, <1>2, <1>3
<1> HIDE DEF S, T
<1>5. SumFunctionOnSet(v, S) <= SumFunctionOnSet(w, T)
  BY <1>2, <1>3, <1>4, SumOfFewer
<1> QED BY <1>5 DEF Used, v, w, S, T

\* A list in which entry i has used n ticks instead.
LEMMA UsedChanged ==
  ASSUME NEW ts \in Seq(Tasks), NEW us \in Seq(Tasks), DOMAIN us = DOMAIN ts,
         NEW i \in DOMAIN ts,
         \A k \in DOMAIN ts : k # i => us[k].run_ticks = ts[k].run_ticks
  PROVE  Used(us) = Used(ts) + (us[i].run_ticks - ts[i].run_ticks)
<1> DEFINE n == Len(ts)
           v == RanOf(ts)
           u == RanOf(us)
<1>1. /\ n \in Nat /\ DOMAIN ts = 1 .. n /\ DOMAIN us = 1 .. n
      /\ \A j \in 1 .. n : v[j] = ts[j].run_ticks /\ v[j] \in Int
  BY Terms
<1>2. \A j \in 1 .. n : u[j] = us[j].run_ticks /\ u[j] \in Int
  BY <1>1, Terms
<1>3. Used(ts) = SumFunctionOnSet(v, 1 .. n) /\ Used(us) = SumFunctionOnSet(u, 1 .. n)
  BY <1>1 DEF Used
<1> HIDE DEF n, v, u
<1>4. u[i] \in Int /\ i \in 1 .. n /\ \A j \in 1 .. n : j # i => u[j] = v[j]
  BY <1>1, <1>2
<1>5. SumFunctionOnSet(u, 1 .. n) = SumFunctionOnSet(v, 1 .. n) + (u[i] - v[i])
  BY <1>1, <1>4, SumChanged
<1>6. u[i] = us[i].run_ticks /\ v[i] = ts[i].run_ticks
  BY <1>1, <1>2, <1>4
<1> QED BY <1>3, <1>5, <1>6

\* ts is us with one entry more, at i, that has used nothing.
LEMMA UsedWithout ==
  ASSUME NEW ts \in Seq(Tasks), NEW us \in Seq(Tasks), Len(ts) = Len(us) + 1,
         NEW i \in DOMAIN ts, ts[i].run_ticks = 0,
         Without(us, ts, Len(ts), i)
  PROVE  Used(ts) = Used(us)
<1> DEFINE n == Len(ts)
           v == RanOf(ts)
           u == RanOf(us)
<1>1. /\ n \in Nat /\ DOMAIN ts = 1 .. n /\ DOMAIN us = 1 .. n - 1
  BY Terms
<1>2. /\ \A j \in 1 .. n : v[j] = ts[j].run_ticks /\ v[j] \in Int
      /\ \A j \in 1 .. n - 1 : u[j] = us[j].run_ticks
  BY <1>1, Terms
<1>3. Used(ts) = SumFunctionOnSet(v, 1 .. n) /\ Used(us) = SumFunctionOnSet(u, 1 .. n - 1)
  BY <1>1 DEF Used
<1>4. v[i] = 0 /\ i \in 1 .. n
  BY <1>1, <1>2
<1> HIDE DEF n, v, u
<1>5. Without(u, v, n, i)
  <2> SUFFICES ASSUME NEW j \in 1 .. n - 1
               PROVE  u[j] = IF j < i THEN v[j] ELSE v[j + 1]
    BY Zenon DEF Without
  <2>1. j \in 1 .. n /\ j + 1 \in 1 .. n
    BY <1>1
  <2>2. us[j] = IF j < i THEN ts[j] ELSE ts[j + 1]
    BY Zenon DEF Without, n
  <2>3. u[j] = us[j].run_ticks /\ v[j] = ts[j].run_ticks /\ v[j + 1] = ts[j + 1].run_ticks
    BY <2>1, <1>2
  <2> QED BY <2>2, <2>3, Zenon
<1>6. SumFunctionOnSet(v, 1 .. n) = v[i] + SumFunctionOnSet(u, 1 .. n - 1)
  <2>1. n \in Nat /\ \A j \in 1 .. n : v[j] \in Int
    BY <1>1, <1>2
  <2> QED BY <1>4, <1>5, <2>1, SumWithout
<1>7. Used(us) \in Nat
  BY UsedIsNat
<1> QED BY <1>3, <1>4, <1>6, <1>7

\* The tasks of ts have used at most now ticks; all of them, if user_main, the
\* only task that can go away, is still there.
Account(ts, now) ==
  /\ Used(ts) <= now
  /\ (\E k \in DOMAIN ts : ts[k].id = MainPid) => Used(ts) = now

\* TickAccounting with what it rests on.
AccountInv ==
  /\ tick_count <= MaxTicks
  /\ Account(tasks, tick_count)
  /\ ~main_task_tracked => Used(tasks) = tick_count

\* Changing neither pids nor ticks keeps the account.
LEMMA AccountKept ==
  ASSUME NEW ts \in Seq(Tasks), NEW us \in Seq(Tasks), DOMAIN us = DOMAIN ts,
         \A k \in DOMAIN ts : us[k].id = ts[k].id /\ us[k].run_ticks = ts[k].run_ticks,
         NEW now, Account(ts, now)
  PROVE  Account(us, now)
<1>1. RanOf(us) = RanOf(ts)
  BY Zenon DEF RanOf
<1> QED BY <1>1 DEF Account, Used

\* Taking user_main out keeps it, at any later tick.
LEMMA AccountWithout ==
  ASSUME NEW ts \in Seq(Tasks), NEW us \in Seq(Tasks), TicksFrom(us, ts),
         \A i, j \in DOMAIN us : us[i].id = us[j].id => i = j,
         \A j \in DOMAIN us : us[j].id # MainPid,
         NEW now \in Nat, Account(ts, now), NEW later \in Nat, now <= later
  PROVE  Account(us, later)
<1>1. Used(us) <= Used(ts) /\ Used(us) \in Nat /\ Used(ts) \in Nat
  BY UsedByFewer, UsedIsNat
<1> QED BY <1>1 DEF Account

\* Tracking user_main adds an entry that has used nothing.
LEMMA AccountTracked ==
  ASSUME IInv, AccountInv, NEW frame, NEW ts, NEW c,
         ensure_main_task_tracked(frame) = View(ts, c), GoodList(ts, c)
  PROVE  Account(ts, tick_count)
<1>1. CASE main_task_tracked
  <2>1. ts = tasks
    BY <1>1 DEF ensure_main_task_tracked, View
  <2> QED BY <2>1 DEF AccountInv
<1>2. CASE ~main_task_tracked
  <2> DEFINE p == placeholder_main(frame)
  <2>1. ts = <<p>> \o tasks
    BY <1>2 DEF ensure_main_task_tracked, View
  <2>2. p.run_ticks = 0
    BY DEF placeholder_main, Task
  <2>3. tasks \in Seq(Tasks) /\ ts \in Seq(Tasks)
    BY DEF IInv, TypeOK, GoodList, WellFormed
  <2> HIDE DEF p
  <2>4. /\ Len(ts) = Len(tasks) + 1 /\ 1 \in DOMAIN ts /\ ts[1] = p
        /\ \A j \in 1 .. Len(ts) - 1 : tasks[j] = ts[j + 1]
    BY <2>1, <2>3
  <2>5. Used(ts) = Used(tasks)
    <3>1. Without(tasks, ts, Len(ts), 1)
      BY <2>4 DEF Without
    <3> QED BY <3>1, <2>2, <2>3, <2>4, UsedWithout
  <2>6. Used(tasks) = tick_count /\ Used(tasks) <= tick_count
    BY <1>2 DEF AccountInv, Account
  <2> QED BY <2>5, <2>6 DEF Account
<1> QED BY <1>1, <1>2

\* A tick is charged to the current task, or takes user_main out.
LEMMA TickCharges ==
  ASSUME NEW frame, NEW ts, NEW c, NEW us, NEW d, TickMakes(frame, ts, c, us, d)
  PROVE  \/ TicksFrom(us, ts) /\ \A j \in DOMAIN us : us[j].id # MainPid
         \/ /\ DOMAIN us = DOMAIN ts
            /\ \A k \in DOMAIN ts : us[k].id = ts[k].id
            /\ \A k \in DOMAIN ts : k # c + 1 => us[k].run_ticks = ts[k].run_ticks
            /\ us[c + 1].run_ticks = (ts[c + 1].run_ticks + 1) % TickModulus
<1> DEFINE now == tick_count'
<1>1. GoodList(ts, c) /\ GoodList(us, d)
  BY DEF TickMakes
<1>2. PICK ws : /\ wake_sleeping_tasks(View(ts, c), now) = View(ws, c)
                /\ GoodList(ws, c)
                /\ DOMAIN ws = DOMAIN ts
                /\ \A i \in DOMAIN ts :
                     ws[i].id = ts[i].id /\ ws[i].stack_ptr = ts[i].stack_ptr
                /\ \A i \in DOMAIN ts : ws[i].run_ticks = ts[i].run_ticks
  BY <1>1, WakeKeepsGood
<1>3. ChargeCurrent(View(ws, c), frame) = View(us, d)
  BY <1>2 DEF TickMakes
<1>4. /\ ws \in Seq(Tasks) /\ DOMAIN ws = 1 .. Len(ws)
      /\ c + 1 \in DOMAIN ws /\ ws[c + 1] \in Tasks
      /\ View(ws, c).ts = ws /\ View(ws, c).c = c
  BY <1>2 DEF GoodList, WellFormed, View
<1> HIDE DEF now
<1>5. CASE ws[c + 1].state = "Terminated"
  <2>1. ws[c + 1].privilege = "User" /\ ws[c + 1].id = MainPid
    BY <1>2, <1>4, <1>5 DEF GoodList, WellFormed, PrivilegeOf
  <2>2. PICK vs, e :
          /\ RemoveCurrent(View(ws, c)) = View(vs, e)
          /\ GoodList(vs, e)
          /\ Len(vs) = Len(ws) - 1
          /\ \A j \in DOMAIN vs :
               /\ vs[j].state # "Terminated"
               /\ \E k \in DOMAIN ws \ {c + 1} : vs[j] = ws[k]
    BY <2>1, <1>2, RemoveCurrentIsGood, Zenon
  <2>3. us = vs
    BY <2>2, <1>3, <1>4, <1>5 DEF ChargeCurrent, View
  <2>4. \A k \in DOMAIN ws \ {c + 1} : ws[k].id # MainPid
    BY <2>1, <1>2, <1>4 DEF GoodList, WellFormed
  <2> QED BY <2>2, <2>3, <2>4, <1>2 DEF TicksFrom
<1>6. CASE ws[c + 1].state # "Terminated"
  <2> DEFINE n == (ws[c + 1].run_ticks + 1) % TickModulus
             u == [ws[c + 1] EXCEPT !.stack_ptr = frame, !.run_ticks = n]
  <2>1. ChargeCurrent(View(ws, c), frame) = View([ws EXCEPT ![c + 1] = u], c)
    <3>1. [ws EXCEPT ![c + 1].stack_ptr = frame,
                     ![c + 1].run_ticks = (@ + 1) % TickModulus]
            = [ws EXCEPT ![c + 1] = u]
      BY <1>4, Zenon DEF Tasks
    <3> QED BY <1>4, <1>6, <3>1 DEF ChargeCurrent
  <2>2. us = [ws EXCEPT ![c + 1] = u]
    <3> HIDE DEF u
    <3> QED BY <2>1, <1>3 DEF View
  <2>3. u.id = ws[c + 1].id /\ u.run_ticks = n
    <3> HIDE DEF n
    <3> QED BY <1>4 DEF Tasks
  <2> HIDE DEF u
  <2>4. /\ DOMAIN us = DOMAIN ws /\ us[c + 1] = u
        /\ \A i \in DOMAIN ws \ {c + 1} : us[i] = ws[i]
    BY <2>2, <1>4
  <2>5. n = (ts[c + 1].run_ticks + 1) % TickModulus
    BY <1>2, <1>4
  <2> HIDE DEF n
  <2> QED BY <2>3, <2>4, <2>5, <1>2, <1>4
<1> QED BY <1>5, <1>6

\* Every tick is charged once.
LEMMA TickKeepsAccount ==
  ASSUME MaxTicks < TickModulus, IInv, AccountInv, scheduler_tick
  PROVE  AccountInv'
<1>1. PICK frame, ts, c, us, d : TickMakes(frame, ts, c, us, d)
  BY TickKeepsIInv
<1>2. /\ tick_count \in Nat /\ MaxTicks \in Nat /\ TickModulus \in Nat
      /\ tick_count < MaxTicks
  BY ConstantsAssumption DEF scheduler_tick, IInv, TypeOK
<1>3. tick_count' = tick_count + 1 /\ main_task_tracked' = TRUE /\ tasks' = us
  <2>1. /\ tick_count' = (tick_count + 1) % TickModulus
        /\ main_task_tracked' = TRUE /\ tasks' = us
    BY <1>1, TickKeepsIInv DEF Swept, TickMakes
  <2>2. tick_count + 1 \in 0 .. TickModulus - 1
    BY <1>2
  <2> QED BY <2>1, <2>2, <1>2
<1>4. /\ GoodList(ts, c) /\ GoodList(us, d)
      /\ ts \in Seq(Tasks) /\ us \in Seq(Tasks)
      /\ c + 1 \in DOMAIN ts /\ ts[c + 1] \in Tasks
      /\ \A i, j \in DOMAIN us : us[i].id = us[j].id => i = j
  <2>1. GoodList(ts, c) /\ GoodList(us, d)
    BY <1>1 DEF TickMakes
  <2> QED BY <2>1 DEF GoodList, WellFormed
<1>5. Account(ts, tick_count)
  BY <1>1, <1>4, AccountTracked DEF TickMakes
<1>6. CASE TicksFrom(us, ts) /\ \A j \in DOMAIN us : us[j].id # MainPid
  <2>1. Account(us, tick_count + 1)
    BY <1>2, <1>4, <1>5, <1>6, AccountWithout
  <2> QED BY <2>1, <1>2, <1>3 DEF AccountInv
<1>7. CASE /\ DOMAIN us = DOMAIN ts
           /\ \A k \in DOMAIN ts : us[k].id = ts[k].id
           /\ \A k \in DOMAIN ts : k # c + 1 => us[k].run_ticks = ts[k].run_ticks
           /\ us[c + 1].run_ticks = (ts[c + 1].run_ticks + 1) % TickModulus
  <2> DEFINE r == ts[c + 1].run_ticks
             q == us[c + 1].run_ticks
  <2>1. /\ Used(ts) \in Nat /\ r <= Used(ts) /\ r \in Nat
        /\ Used(ts) <= tick_count
    <3>1. r \in Nat
      BY <1>4 DEF Tasks
    <3> QED BY <3>1, <1>4, <1>5, UsedIsNat DEF Account
  <2>2. Used(us) = Used(ts) + (q - r)
    BY <1>4, <1>7, UsedChanged
  <2>3. q = (r + 1) % TickModulus
    BY <1>7
  <2> HIDE DEF r, q
  <2>4. r + 1 \in 0 .. TickModulus - 1
    BY <2>1, <1>2
  <2>5. q = r + 1
    BY <2>3, <2>4, <1>2
  <2>6. Used(us) = Used(ts) + 1
    BY <2>1, <2>2, <2>5
  <2>7. Account(us, tick_count + 1)
    BY <2>1, <2>6, <1>2, <1>5, <1>7 DEF Account
  <2> QED BY <2>7, <1>2, <1>3 DEF AccountInv
<1> QED BY <1>1, <1>6, <1>7, TickCharges

\* A sleep call charges nobody.
LEMMA SleepKeepsAccount ==
  ASSUME IInv, AccountInv, NEW ticks \in SleepArgs, sleep_current_task(ticks)
  PROVE  AccountInv'
<1>1. /\ running \in Pids /\ TssFrame \in InterruptFrames(running)
  BY ConstantsAssumption DEF sleep_current_task, InterruptFrames, MainPid, Pids
<1>2. PICK ts, c : /\ ensure_main_task_tracked(TssFrame) = View(ts, c)
                   /\ GoodList(ts, c)
  BY <1>1, TrackedIsGood
<1>3. /\ View(ts, c).ts = ts /\ View(ts, c).c = c
      /\ ts \in Seq(Tasks) /\ c + 1 \in DOMAIN ts /\ ts[c + 1] \in Tasks
  BY <1>2 DEF View, GoodList, WellFormed
<1>4. Account(ts, tick_count)
  BY <1>2, AccountTracked
<1> DEFINE w == (tick_count + (IF ticks > 1 THEN ticks ELSE 1)) % TickModulus
<1> HIDE DEF w
<1>5. /\ main_task_tracked' = TRUE /\ tick_count' = tick_count
      /\ Refused(View(ts, c)) => tasks' = ts
      /\ ~Refused(View(ts, c)) =>
           tasks' = [ts EXCEPT ![c + 1].stack_ptr = TssFrame,
                               ![c + 1].state = "Sleeping",
                               ![c + 1].wake_at = w]
  BY <1>2, <1>3 DEF sleep_current_task, w
<1>6. Account(tasks', tick_count)
  <2>1. CASE Refused(View(ts, c))
    BY <2>1, <1>4, <1>5
  <2>2. CASE ~Refused(View(ts, c))
    <3> DEFINE u == [ts[c + 1] EXCEPT !.stack_ptr = TssFrame, !.state = "Sleeping",
                                      !.wake_at = w]
    <3>1. tasks' = [ts EXCEPT ![c + 1] = u]
      BY <2>2, <1>3, <1>5, Zenon DEF Tasks
    <3>2. u.id = ts[c + 1].id /\ u.run_ticks = ts[c + 1].run_ticks
      BY <1>3 DEF Tasks
    <3> HIDE DEF u
    <3>3. /\ DOMAIN tasks' = DOMAIN ts
          /\ \A k \in DOMAIN ts :
               tasks'[k].id = ts[k].id /\ tasks'[k].run_ticks = ts[k].run_ticks
      BY <3>1, <3>2, <1>3
    <3>4. tasks' \in Seq(Tasks)
      BY SleepKeepsIInv DEF IInv, TypeOK
    <3> QED BY <3>3, <3>4, <1>3, <1>4, AccountKept
  <2> QED BY <2>1, <2>2
<1> QED BY <1>5, <1>6 DEF AccountInv

\* A kill charges nobody; what it takes out is user_main.
LEMMA KillKeepsAccount ==
  ASSUME IInv, AccountInv, NEW pid \in Pids, kill_task(pid)
  PROVE  AccountInv'
<1> DEFINE c == current_task_idx
           u == [tasks[c + 1] EXCEPT !.state = "Terminated", !.wake_at = 0]
<1>1. /\ main_task_tracked' /\ c + 1 \in DOMAIN tasks
      /\ \/ tasks' = [tasks EXCEPT ![c + 1] = u]
         \/ /\ MainPid \notin Ids'
            /\ \A j \in DOMAIN tasks' : \E k \in DOMAIN tasks : tasks'[j] = tasks[k]
  BY KillOutcome
<1>2. /\ tasks \in Seq(Tasks) /\ tasks' \in Seq(Tasks)
      /\ \A i, j \in DOMAIN tasks' : tasks'[i].id = tasks'[j].id => i = j
      /\ tick_count' = tick_count /\ tick_count \in Nat
  <2>1. IInv'
    BY KillKeepsIInv
  <2>2. tick_count' = tick_count
    BY DEF kill_task
  <2> QED BY <2>1, <2>2 DEF IInv, TypeOK
<1>3. Account(tasks, tick_count)
  BY DEF AccountInv
<1>4. u.id = tasks[c + 1].id /\ u.run_ticks = tasks[c + 1].run_ticks
  BY <1>1, <1>2 DEF Tasks
<1> HIDE DEF u
<1>5. CASE tasks' = [tasks EXCEPT ![c + 1] = u]
  <2>1. /\ DOMAIN tasks' = DOMAIN tasks
        /\ \A k \in DOMAIN tasks :
             tasks'[k].id = tasks[k].id /\ tasks'[k].run_ticks = tasks[k].run_ticks
    BY <1>1, <1>2, <1>4, <1>5
  <2>2. Account(tasks', tick_count)
    BY <2>1, <1>2, <1>3, AccountKept
  <2> QED BY <2>2, <1>1, <1>2 DEF AccountInv
<1>6. CASE /\ MainPid \notin Ids'
           /\ \A j \in DOMAIN tasks' : \E k \in DOMAIN tasks : tasks'[j] = tasks[k]
  <2>1. TicksFrom(tasks', tasks) /\ \A j \in DOMAIN tasks' : tasks'[j].id # MainPid
    BY <1>6 DEF TicksFrom, Ids
  <2>2. Account(tasks', tick_count)
    BY <2>1, <1>2, <1>3, AccountWithout
  <2> QED BY <2>2, <1>1, <1>2 DEF AccountInv
<1> QED BY <1>1, <1>5, <1>6

\* So does a fault; and a new thread has used nothing.
LEMMA NextKeepsAccount ==
  ASSUME MaxTicks < TickModulus, IInv, AccountInv, [Next]_vars
  PROVE  AccountInv'
<1>1. CASE register_named_task
  <2> DEFINE t == new_task(next_task_id)
  <2>1. /\ tasks' = Append(tasks, t) /\ ~main_task_tracked
        /\ tick_count' = tick_count /\ main_task_tracked' = main_task_tracked
    BY <1>1 DEF register_named_task, IInv, BootProgress
  <2>2. tasks \in Seq(Tasks) /\ tasks' \in Seq(Tasks) /\ tick_count \in Nat
    BY <1>1, BootKeepsIInv DEF IInv, TypeOK
  <2>3. t.run_ticks = 0
    BY DEF new_task, Task
  <2> HIDE DEF t
  <2>4. /\ Len(tasks') = Len(tasks) + 1 /\ Len(tasks') \in DOMAIN tasks'
        /\ tasks'[Len(tasks')] = t
        /\ \A j \in 1 .. Len(tasks') - 1 : j < Len(tasks') /\ tasks[j] = tasks'[j]
    BY <2>1, <2>2
  <2>5. Used(tasks') = Used(tasks)
    <3>1. Without(tasks, tasks', Len(tasks'), Len(tasks'))
      BY <2>4 DEF Without
    <3> QED BY <3>1, <2>2, <2>3, <2>4, UsedWithout
  <2>6. Used(tasks') = tick_count
    BY <2>1, <2>5 DEF AccountInv
  <2> QED BY <2>1, <2>2, <2>6 DEF AccountInv, Account
<1>2. CASE scheduler_tick
  BY <1>2, TickKeepsAccount
<1>3. CASE \E ticks \in SleepArgs : sleep_current_task(ticks)
  BY <1>3, SleepKeepsAccount
<1>4. CASE \E pid \in Pids : kill_task(pid)
  BY <1>4, KillKeepsAccount
<1>5. CASE terminate_current_user_task_from_fault
  <2>1. /\ IInv' /\ tick_count' = tick_count /\ main_task_tracked' = TRUE
        /\ \A j \in DOMAIN tasks' : tasks'[j].id # MainPid
    BY <1>5, FaultKeepsIInv DEF Ids, Swept
  <2>2. PICK ts, c : /\ ensure_main_task_tracked(TssFrame) = View(ts, c)
                     /\ GoodList(ts, c) /\ TicksFrom(tasks', ts)
    BY <1>5, FaultKeepsIInv
  <2>3. Account(ts, tick_count) /\ ts \in Seq(Tasks)
    BY <2>2, AccountTracked DEF GoodList, WellFormed
  <2>4. /\ tasks' \in Seq(Tasks) /\ tick_count \in Nat
        /\ \A i, j \in DOMAIN tasks' : tasks'[i].id = tasks'[j].id => i = j
    BY <2>1 DEF IInv, TypeOK
  <2>5. Account(tasks', tick_count)
    BY <2>1, <2>2, <2>3, <2>4, AccountWithout
  <2> QED BY <2>1, <2>5 DEF AccountInv
<1>6. CASE switch_to_user_mode \/ UNCHANGED vars
  BY <1>6 DEF vars, manager, switch_to_user_mode, AccountInv
<1> QED BY <1>1, <1>2, <1>3, <1>4, <1>5, <1>6 DEF Next

\* As long as the tick counter does not wrap, the books balance.
LEMMA AccountInductive ==
  ASSUME MaxTicks < TickModulus
  PROVE  Spec => []AccountInv
<1>1. Init => AccountInv
  <2> SUFFICES ASSUME Init PROVE AccountInv
    OBVIOUS
  <2>1. tasks = <<>> /\ tick_count = 0 /\ DOMAIN tasks = {} /\ tick_count <= MaxTicks
    BY ConstantsAssumption DEF Init
  <2>2. Used(tasks) = 0
    <3>1. IsFiniteSet({})
      BY FS_EmptySet
    <3> QED BY <3>1, <2>1, SumSplits DEF Used
  <2> QED BY <2>1, <2>2 DEF AccountInv, Account
<1>2. IInv /\ AccountInv /\ [Next]_vars => AccountInv'
  BY NextKeepsAccount
<1> QED BY <1>1, <1>2, Inductive, PTL DEF Spec

\* top's arithmetic starts from sound books: every tick is charged to exactly
\* one task, for any number of tasks and ticks before the counter wraps.
THEOREM TicksAreCharged ==
  ASSUME MaxTicks < TickModulus
  PROVE  Spec => []TickAccounting
<1>1. ASSUME AccountInv PROVE TickAccounting
  <2> DEFINE used == SumFunction([i \in DOMAIN tasks |-> tasks[i].run_ticks])
  <2>1. used = Used(tasks)
    BY Zenon DEF SumFunction, Used, RanOf
  <2> HIDE DEF used
  <2>2. IF main_task_tracked /\ MainPid \notin Ids THEN used <= tick_count
        ELSE used = tick_count
    BY <1>1, <2>1 DEF AccountInv, Account, Ids
  <2> QED BY <2>2, Zenon DEF TickAccounting, used
<1> QED BY <1>1, AccountInductive, PTL
----------------------------------------------------------------------------
(***************************************************************************)
(* Round robin.                                                            *)
(***************************************************************************)
\* Reducing a number that is at most one turn away.
LEMMA OneTurn ==
  ASSUME NEW n \in Nat \ {0}, NEW a \in Int
  PROVE  /\ a \in 0 .. n - 1 => a % n = a
         /\ a \in n .. n + n - 1 => a % n = a - n
         /\ a \in -n .. -1 => a % n = a + n
OBVIOUS

\* Advancing the index by m places brings it m places closer to entry i.
LEMMA Closer ==
  ASSUME NEW n \in Nat \ {0}, NEW c \in 0 .. n - 1, NEW i \in 1 .. n, i - 1 # c
  PROVE  LET d == (i - 1 - c) % n
         IN  /\ d \in 1 .. n - 1
             /\ (c + d) % n = i - 1
             /\ \A m \in 1 .. d - 1 : (i - 1 - ((c + m) % n)) % n = d - m
<1> DEFINE d == (i - 1 - c) % n
<1>1. d = IF c < i - 1 THEN i - 1 - c ELSE i - 1 - c + n
  <2> DEFINE a == i - 1 - c
  <2>1. a \in Int /\ (c < i - 1 => a \in 0 .. n - 1) /\ (~(c < i - 1) => a \in -n .. -1)
    OBVIOUS
  <2>2. a % n = IF c < i - 1 THEN a ELSE a + n
    <3> HIDE DEF a
    <3> QED BY <2>1, OneTurn
  <2> QED BY <2>2
<1> HIDE DEF d
<1>2. d \in 1 .. n - 1
  BY <1>1
<1>3. (c + d) % n = i - 1
  <2>1. CASE c < i - 1
    <3>1. c + d = i - 1 /\ i - 1 \in 0 .. n - 1
      BY <1>1, <2>1
    <3> QED BY <3>1, OneTurn
  <2>2. CASE ~(c < i - 1)
    <3> DEFINE a == c + d
    <3>1. a = i - 1 + n /\ a \in Int /\ a \in n .. n + n - 1 /\ a - n = i - 1
      BY <1>1, <2>2
    <3>2. a % n = a - n
      <4> HIDE DEF a
      <4> QED BY <3>1, OneTurn
    <3> QED BY <3>1, <3>2
  <2> QED BY <2>1, <2>2
<1>4. ASSUME NEW m \in 1 .. d - 1
      PROVE  (i - 1 - ((c + m) % n)) % n = d - m
  <2> DEFINE a == c + m
             e == a % n
             b == i - 1 - e
  <2>0. (i - 1 - ((c + m) % n)) % n = b % n
    BY Zenon
  <2>1. a \in Int /\ a \in 0 .. n + n - 1
    BY <1>2
  <2>2. e = IF a < n THEN a ELSE a - n
    <3> HIDE DEF a
    <3>1. a < n => a \in 0 .. n - 1
      BY <2>1
    <3>2. ~(a < n) => a \in n .. n + n - 1
      BY <2>1
    <3> QED BY <2>1, <3>1, <3>2, OneTurn
  <2> HIDE DEF e
  <2>3. /\ b \in Int
        /\ b = d - m \/ b = d - m - n
        /\ d - m \in 0 .. n - 1 /\ d - m - n \in -n .. -1
        /\ d - m - n + n = d - m
    BY <1>1, <1>2, <2>1, <2>2
  <2>4. b % n = d - m
    <3>1. CASE b = d - m
      <4> HIDE DEF b
      <4> QED BY <2>3, <3>1, OneTurn
    <3>2. CASE b = d - m - n
      <4>1. b \in -n .. -1 /\ b + n = d - m
        <5> HIDE DEF b
        <5> QED BY <2>3, <3>2
      <4>2. b % n = b + n
        <5> HIDE DEF b
        <5> QED BY <2>3, <4>1, OneTurn
      <4> QED BY <4>1, <4>2
    <3> QED BY <2>3, <3>1, <3>2
  <2> HIDE DEF b
  <2> QED BY <2>0, <2>4, Zenon
<1> QED BY <1>2, <1>3, <1>4 DEF d

\* A tick that finds nobody marked keeps every entry at its place and goes on
\* from the current one.
LEMMA UnmarkedTick ==
  ASSUME IInv, KillIsImmediate, scheduler_tick, main_task_tracked
  PROVE  /\ IInv' /\ main_task_tracked'
         /\ DOMAIN tasks' = DOMAIN tasks
         /\ \A i \in DOMAIN tasks : Aged(tasks'[i], tasks[i], tick_count')
         /\ GoodList(tasks, current_task_idx)
         /\ GoodList(tasks', current_task_idx)
         /\ current_task_idx' = next_ready_after(View(tasks', current_task_idx))
<1>1. PICK frame, ts, c, us, d : TickMakes(frame, ts, c, us, d)
  BY TickKeepsIInv
<1>2. IInv' /\ main_task_tracked'
  BY TickKeepsIInv DEF Swept
<1>3. ts = tasks /\ c = current_task_idx
  BY <1>1 DEF TickMakes, ensure_main_task_tracked, View
<1>4. /\ d = c /\ DOMAIN us = DOMAIN ts
      /\ \A k \in DOMAIN ts : Aged(us[k], ts[k], tick_count')
  BY <1>1, <1>3, TickEntries DEF KillIsImmediate
<1> QED BY <1>1, <1>2, <1>3, <1>4 DEF TickMakes

\* The scan starts behind the current task and stops at the first Ready one.
LEMMA TickGoesRound ==
  ASSUME IInv, KillIsImmediate, scheduler_tick, main_task_tracked,
         NEW i \in DOMAIN tasks, tasks[i].state = "Ready", tasks[i].id # running
  PROVE  \/ running' = tasks[i].id
         \/ TurnsAway(i)' < TurnsAway(i)
<1> DEFINE n == Len(tasks)
           c == current_task_idx
           us == tasks'
<1>1. /\ IInv' /\ main_task_tracked' /\ DOMAIN us = DOMAIN tasks
      /\ \A k \in DOMAIN tasks : Aged(us[k], tasks[k], tick_count')
      /\ GoodList(tasks, c) /\ GoodList(us, c)
      /\ current_task_idx' = next_ready_after(View(us, c))
  BY UnmarkedTick
<1>2. /\ n \in Nat \ {0} /\ c \in 0 .. n - 1 /\ DOMAIN tasks = 1 .. n /\ i \in 1 .. n
  BY <1>1 DEF GoodList, WellFormed
<1>3. Len(us) = n
  <2>1. Len(us) \in Nat \ {0} /\ DOMAIN us = 1 .. Len(us)
    BY <1>1 DEF GoodList, WellFormed
  <2> DEFINE m == Len(us)
  <2>2. m \in Nat \ {0} /\ m \in 1 .. n /\ n \in 1 .. m
    BY <2>1, <1>1, <1>2
  <2> HIDE DEF m, n
  <2>3. m = n
    BY <1>2, <2>2
  <2> QED BY <2>3 DEF m
<1>4. us[i].id = tasks[i].id /\ us[i].state = "Ready"
  BY <1>1 DEF Aged, Expired
<1>5. i - 1 # c
  <2>1. tasks[c + 1].id = running
    BY DEF IInv, RunningIsCurrent
  <2> QED BY <2>1, <1>2
<1> DEFINE d == (i - 1 - c) % n
           m == Min(ReadyOffsets(View(us, c)))
<1>6. /\ d \in 1 .. n - 1 /\ (c + d) % n = i - 1
      /\ \A k \in 1 .. d - 1 : (i - 1 - ((c + k) % n)) % n = d - k
  <2> HIDE DEF n, c
  <2> QED BY <1>2, <1>5, Closer
<1>7. ReadyOffsets(View(us, c)) =
        {o \in 1 .. n : us[((c + o) % n) + 1].state = "Ready"}
  <2>1. View(us, c).ts = us /\ View(us, c).c = c
    BY DEF View
  <2> QED BY <2>1, <1>3, Zenon DEF ReadyOffsets
<1> HIDE DEF d
<1>8. d \in ReadyOffsets(View(us, c))
  <2>1. ((c + d) % n) + 1 = i
    <3>1. (i - 1) + 1 = i
      BY <1>2
    <3> QED BY <3>1, <1>6, Zenon
  <2>2. d \in 1 .. n
    BY <1>2, <1>6
  <2> HIDE DEF n, c
  <2> QED BY <2>1, <2>2, <1>4, <1>7
<1>9. m \in 1 .. d /\ m \in Nat
  <2>1. ReadyOffsets(View(us, c)) \in SUBSET Nat /\ ReadyOffsets(View(us, c)) # {}
    BY <1>2, <1>7, <1>8
  <2>2. m \in ReadyOffsets(View(us, c)) /\ m <= d
    BY <2>1, <1>8, MinIsLeast
  <2>3. m \in 1 .. n
    <3> HIDE DEF m, n, c, us
    <3> QED BY <2>2, <1>7
  <2> HIDE DEF m, n
  <2> QED BY <2>2, <2>3, <1>2, <1>6
<1>10. current_task_idx' = (c + m) % n
  <2>1. View(us, c).ts = us /\ View(us, c).c = c
    BY DEF View
  <2> QED BY <2>1, <1>1, <1>3 DEF next_ready_after
<1>11. us[current_task_idx' + 1].id = running'
  BY <1>1 DEF IInv, RunningIsCurrent
<1> HIDE DEF m
<1>12. CASE m = d
  <2>1. current_task_idx' + 1 = i
    <3>1. (i - 1) + 1 = i
      BY <1>2
    <3> QED BY <3>1, <1>6, <1>10, <1>12, Zenon
  <2> QED BY <2>1, <1>4, <1>11
<1>13. CASE m # d
  <2>1. m \in 1 .. d - 1
    BY <1>6, <1>9, <1>13
  <2>2. (i - 1 - ((c + m) % n)) % n = d - m
    <3> HIDE DEF n, c
    <3> QED BY <2>1, <1>6
  <2>3. TurnsAway(i) = d /\ TurnsAway(i)' = d - m
    <3>1. TurnsAway(i) = d
      BY Zenon DEF TurnsAway, d
    <3>2. TurnsAway(i)' = (i - 1 - current_task_idx') % Len(us)
      BY Zenon DEF TurnsAway
    <3>3. TurnsAway(i)' = (i - 1 - ((c + m) % n)) % n
      BY <3>2, <1>3, <1>10, Zenon
    <3> QED BY <3>1, <3>3, <2>2, Zenon
  <2>4. d - m < d
    BY <1>6, <1>9
  <2> QED BY <2>3, <2>4
<1> QED BY <1>12, <1>13

\* Each tick brings every waiting Ready task closer to its turn, or runs it,
\* for any number of tasks, as long as only kernel threads kill.
THEOREM TicksGoRound ==
  ASSUME KillFrom = {"Kernel"}
  PROVE  Spec => RoundRobin
<1>1. ASSUME IInv, KillIsImmediate, [Next]_vars, tick_count' # tick_count,
             main_task_tracked
      PROVE  \A i \in DOMAIN tasks :
               tasks[i].state = "Ready" /\ tasks[i].id # running =>
                 \/ running' = tasks[i].id
                 \/ TurnsAway(i)' < TurnsAway(i)
  <2>1. scheduler_tick
    BY <1>1 DEF Next, vars, manager, register_named_task, switch_to_user_mode,
       sleep_current_task, kill_task, terminate_current_user_task_from_fault
  <2> QED BY <1>1, <2>1, TickGoesRound
<1>2. IInv /\ KillIsImmediate /\ [Next]_vars =>
        [tick_count' # tick_count /\ main_task_tracked =>
           \A i \in DOMAIN tasks :
             tasks[i].state = "Ready" /\ tasks[i].id # running =>
               \/ running' = tasks[i].id
               \/ TurnsAway(i)' < TurnsAway(i)]_vars
  BY <1>1
<1>3. Spec => []KillIsImmediate
  BY KillsAreImmediate
<1> QED BY <1>2, <1>3, Inductive, PTL DEF Spec, RoundRobin
----------------------------------------------------------------------------
(***************************************************************************)
(* The shell's reports.                                                    *)
(***************************************************************************)
\* When the shell's thread executes, user_main has been tracked and the current
\* entry is the shell's own.
LEMMA ShellIsCurrent ==
  ASSUME IInv, AtShell
  PROVE  /\ running \in Pids /\ running # MainPid /\ running = ShellPid
         /\ main_task_tracked = TRUE
         /\ Len(tasks) \in Nat /\ DOMAIN tasks = 1 .. Len(tasks)
         /\ current_task_idx \in 0 .. Len(tasks) - 1
         /\ tasks[current_task_idx + 1].id = ShellPid
         /\ tasks[current_task_idx + 1].privilege = "Kernel"
<1>1. /\ running = ShellPid /\ running \in Pids
      /\ running # MainPid /\ running # KernelMain
  BY ConstantsAssumption DEF AtShell, ShellPid, MainPid, KernelMain, Pids
<1>2. main_task_tracked = TRUE /\ tasks \in Seq(Tasks)
  BY <1>1 DEF IInv, BootProgress, TypeOK
<1>3. tasks[current_task_idx + 1].id = ShellPid
  BY <1>1, <1>2 DEF IInv, RunningIsCurrent
<1>4. tasks # <<>>
  <2>1. 2 \in 2 .. next_task_id - 1
    BY <1>1, ConstantsAssumption DEF IInv, BootProgress
  <2>2. \E i \in DOMAIN tasks : tasks[i].id = 2
    BY <2>1 DEF IInv, WellFormed
  <2> QED BY <2>2
<1>5. current_task_idx \in 0 .. Len(tasks) - 1
  BY <1>4 DEF IInv, TypeOK
<1>6. current_task_idx + 1 \in DOMAIN tasks
  BY <1>2, <1>5
<1>7. tasks[current_task_idx + 1].privilege = "Kernel"
  BY <1>3, <1>6 DEF IInv, WellFormed, PrivilegeOf, ShellPid, MainPid
<1> QED BY <1>1, <1>2, <1>3, <1>5, <1>7

\* The list ps prints: the idle row and one row for each entry.
LEMMA SnapshotOfList ==
  ASSUME IInv, main_task_tracked
  PROVE  /\ Len(process_snapshot) = Len(tasks) + 1
         /\ \A i \in DOMAIN process_snapshot :
              process_snapshot[i].id = 0 \/ process_snapshot[i].id \in Ids
<1> DEFINE n == Len(tasks)
           ps == process_snapshot
<1>1. n \in Nat /\ DOMAIN tasks = 1 .. n
  BY DEF IInv, TypeOK
<1>2. /\ TaskRows \in Seq(SnapshotRows) /\ Len(TaskRows) = n
      /\ \A i \in 1 .. n : TaskRows[i].id = tasks[i].id
  BY TaskRowsAreTrue
<1>3. ps = <<IdleRow>> \o TaskRows /\ IdleRow \in SnapshotRows /\ IdleRow.id = 0
  BY DEF process_snapshot, TaskRows, IdleRow, SnapshotRows, Labels
<1> HIDE DEF ps, n
<1>4. /\ Len(ps) = n + 1 /\ DOMAIN ps = 1 .. n + 1
      /\ ps[1] = IdleRow
      /\ \A i \in 2 .. n + 1 : i - 1 \in 1 .. n /\ ps[i] = TaskRows[i - 1]
  BY <1>1, <1>2, <1>3
<1>5. ASSUME NEW i \in 1 .. n + 1
      PROVE  ps[i].id = 0 \/ ps[i].id \in Ids
  <2>1. CASE i = 1
    BY <2>1, <1>3, <1>4
  <2>2. CASE i # 1
    <3>1. i \in 2 .. n + 1
      BY <2>2, <1>1
    <3>2. i - 1 \in 1 .. n /\ ps[i].id = tasks[i - 1].id
      BY <3>1, <1>2, <1>4
    <3> QED BY <3>2, <1>1 DEF Ids
  <2> QED BY <2>1, <2>2
<1> QED BY <1>4, <1>5 DEF ps, n

\* What tasks has counted: the list as it is, or with user_main still in it.
Counted(count) ==
  \/ count = Len(tasks) + 1
  \/ count = Len(tasks) + 2 /\ MainPid \notin Ids

\* Nobody is ever marked, and what a command has said before its list still
\* covers what the list will show.
ReportInv ==
  /\ KillIsImmediate
  /\ asked.cmd = "tasks" =>
       main_task_tracked /\ asked.current = ShellPid /\ Counted(asked.count)
  /\ asked.cmd = "kill" /\ asked.answer = "KilledNow" =>
       main_task_tracked /\ asked.pid \in Pids /\ asked.pid \notin Ids
  /\ CountCoversList
  /\ KilledIsNotListed

\* What the rest of the kernel does between the halves of a command.
LEMMA MeanwhileKeepsReport ==
  ASSUME IInv, ReportInv, Meanwhile
  PROVE  IInv' /\ ReportInv'
<1>1. Next /\ UNCHANGED <<asked, printed>>
  BY DEF Meanwhile, Next, report
<1>2. IInv'
  BY <1>1, NextKeepsIInv
<1>3. KillIsImmediate'
  <2>1. CASE register_named_task
    <3>1. tasks \in Seq(Tasks) /\ tasks' = Append(tasks, new_task(next_task_id))
      BY <2>1 DEF register_named_task, IInv, TypeOK
    <3>2. \A i \in DOMAIN tasks' :
            tasks'[i] = new_task(next_task_id) \/ (i \in DOMAIN tasks /\ tasks'[i] = tasks[i])
      BY <3>1
    <3> QED BY <3>2 DEF new_task, Task, ReportInv, KillIsImmediate
  <2>2. CASE switch_to_user_mode
    BY <2>2 DEF switch_to_user_mode, manager, ReportInv, KillIsImmediate
  <2>3. CASE scheduler_tick \/ terminate_current_user_task_from_fault
    BY <2>3, TickKeepsIInv, FaultKeepsIInv DEF Swept, KillIsImmediate
  <2>4. CASE \E ticks \in SleepArgs : sleep_current_task(ticks)
    <3>1. tasks' = tasks \/ \A i \in DOMAIN tasks' : tasks'[i].state # "Terminated"
      BY <2>4, SleepOutcome
    <3> QED BY <3>1 DEF ReportInv, KillIsImmediate
  <2> QED BY <2>1, <2>2, <2>3, <2>4 DEF Meanwhile
<1>4. ASSUME main_task_tracked
      PROVE  main_task_tracked' /\ Ids' \subseteq Ids
  BY <1>1, <1>4, NobodyJoins
<1>5. ASSUME main_task_tracked, NEW count, Counted(count)
      PROVE  Counted(count)'
  <2>1. running # KernelMain
    BY <1>5 DEF IInv, BootProgress
  <2>2. CASE DOMAIN tasks' = DOMAIN tasks
    <3>1. tasks \in Seq(Tasks) /\ tasks' \in Seq(Tasks)
      BY <1>2 DEF IInv, TypeOK
    <3>2. /\ Len(tasks) \in Nat /\ DOMAIN tasks = 1 .. Len(tasks)
          /\ Len(tasks') \in Nat /\ DOMAIN tasks' = 1 .. Len(tasks')
      BY <3>1
    <3> DEFINE m == Len(tasks)
               n == Len(tasks')
    <3>3. m \in Nat /\ n \in Nat /\ 1 .. m = 1 .. n
      BY <2>2, <3>2
    <3>4. m = n
      <4> HIDE DEF m, n
      <4>1. CASE m = 0
        <5>1. n \notin 1 .. m
          BY <4>1, <3>3
        <5> QED BY <5>1, <4>1, <3>3
      <4>2. CASE n = 0
        <5>1. m \notin 1 .. n
          BY <4>2, <3>3
        <5> QED BY <5>1, <4>2, <3>3
      <4>3. CASE m # 0 /\ n # 0
        <5>1. m \in 1 .. n /\ n \in 1 .. m
          BY <4>3, <3>3
        <5> QED BY <5>1, <3>3
      <4> QED BY <4>1, <4>2, <4>3
    <3>5. Len(tasks') = Len(tasks)
      BY <3>4
    <3> QED BY <3>5, <1>4, <1>5 DEF Counted
  <2>3. CASE scheduler_tick
    <3>1. DOMAIN tasks' = DOMAIN tasks
      BY <1>5, <2>3, UnmarkedTick DEF ReportInv
    <3> QED BY <2>2, <3>1
  <2>4. CASE \E ticks \in SleepArgs : sleep_current_task(ticks)
    <3>1. DOMAIN tasks' = DOMAIN tasks
      BY <1>5, <2>4, SleepOutcome
    <3> QED BY <2>2, <3>1
  <2>5. CASE terminate_current_user_task_from_fault
    <3>1. Len(tasks') = Len(tasks) - 1 /\ MainPid \notin Ids'
      BY <1>5, <2>5, FaultKeepsIInv
    <3>2. MainPid \in Ids
      <4>1. running = MainPid /\ MainPid \in Pids
        BY <2>5, ConstantsAssumption
           DEF terminate_current_user_task_from_fault, MainPid, Pids
      <4>2. TssFrame \in InterruptFrames(running)
        BY <4>1 DEF InterruptFrames
      <4>3. PICK ts, c : /\ ensure_main_task_tracked(TssFrame) = View(ts, c)
                         /\ GoodList(ts, c)
                         /\ ts[c + 1].id = running
        BY <4>1, <4>2, TrackedIsGood
      <4>4. ts = tasks
        BY <4>3, <1>5 DEF ensure_main_task_tracked, View
      <4>5. c + 1 \in DOMAIN tasks
        BY <4>3, <4>4 DEF GoodList, WellFormed
      <4> QED BY <4>1, <4>3, <4>4, <4>5 DEF Ids
    <3>3. Len(tasks) \in Nat
      BY DEF IInv, TypeOK
    <3> QED BY <3>1, <3>2, <3>3, <1>5 DEF Counted
  <2> QED
    BY <2>1, <2>3, <2>4, <2>5 DEF Meanwhile, register_named_task, switch_to_user_mode
<1>6. asked'.cmd = "tasks" =>
        main_task_tracked' /\ asked'.current = ShellPid /\ Counted(asked.count)'
  BY <1>1, <1>4, <1>5 DEF ReportInv
<1>7. asked'.cmd = "kill" /\ asked'.answer = "KilledNow" =>
        main_task_tracked' /\ asked'.pid \in Pids /\ asked'.pid \notin Ids'
  BY <1>1, <1>4 DEF ReportInv
<1>8. CountCoversList' /\ KilledIsNotListed'
  BY <1>1 DEF ReportInv, CountCoversList, KilledIsNotListed
<1> QED BY <1>1, <1>2, <1>3, <1>6, <1>7, <1>8 DEF ReportInv, Counted

\* What the commands themselves do.
LEMMA CommandsKeepReport ==
  ASSUME IInv, ReportInv,
         \/ command_top \/ command_top_list \/ command_tasks
         \/ \E pid \in Pids \cup {0} : command_kill(pid)
         \/ command_ps
  PROVE  IInv' /\ ReportInv' /\ [Next]_vars
<1>1. AtShell
  BY DEF command_top, command_top_list, command_tasks, command_kill, command_ps
<1>2. /\ running \in Pids /\ running # MainPid /\ running = ShellPid
      /\ main_task_tracked = TRUE
      /\ Len(tasks) \in Nat /\ DOMAIN tasks = 1 .. Len(tasks)
      /\ current_task_idx \in 0 .. Len(tasks) - 1
      /\ tasks[current_task_idx + 1].id = ShellPid
      /\ tasks[current_task_idx + 1].privilege = "Kernel"
  BY <1>1, ShellIsCurrent
<1>3. ASSUME UNCHANGED vars
      PROVE  /\ IInv' /\ KillIsImmediate' /\ [Next]_vars
             /\ Ids' = Ids /\ tasks' = tasks /\ main_task_tracked' = main_task_tracked
  <2>1. IInv'
    BY <1>3, NextKeepsIInv
  <2> QED BY <1>3, <2>1 DEF vars, manager, ReportInv, KillIsImmediate, Ids
<1>4. ASSUME UNCHANGED printed
      PROVE  CountCoversList' /\ KilledIsNotListed'
  BY <1>4 DEF ReportInv, CountCoversList, KilledIsNotListed
<1>5. CASE command_top
  <2>1. asked'.cmd = "top" /\ UNCHANGED vars /\ UNCHANGED printed
    BY <1>5 DEF command_top
  <2> QED BY <2>1, <1>3, <1>4 DEF ReportInv
<1>6. CASE command_top_list
  <2>1. asked'.cmd = "none" /\ printed'.cmd = "top" /\ UNCHANGED vars
    BY <1>6 DEF command_top_list, Idle
  <2> QED BY <2>1, <1>3 DEF ReportInv, CountCoversList, KilledIsNotListed
<1>7. CASE command_tasks
  <2>1. /\ asked'.cmd = "tasks" /\ asked'.count = stats.total_tasks
        /\ asked'.current = stats.current_task_id
        /\ UNCHANGED vars /\ UNCHANGED printed
    BY <1>7 DEF command_tasks
  <2>2. stats.total_tasks = Len(tasks) + 1 /\ stats.current_task_id = ShellPid
    BY <1>2 DEF stats
  <2> QED BY <2>1, <2>2, <1>2, <1>3, <1>4 DEF ReportInv, Counted
<1>8. CASE \E pid \in Pids \cup {0} : command_kill(pid)
  <2>1. PICK pid \in Pids \cup {0} : command_kill(pid)
    BY <1>8
  <2>2. CASE /\ kill_task(pid)
             /\ asked' = [cmd |-> "kill", pid |-> pid,
                          answer |-> IF Killable(pid, current_task_idx + 1)
                                     THEN "MarkedForTermination" ELSE "KilledNow"]
    <3>1. pid \in Pids
      <4>1. PICK i \in DOMAIN tasks : tasks[i].id = pid
        BY <2>2 DEF kill_task, kill_current, kill_other, Killable, Position
      <4>2. tasks[i] \in Tasks
        BY DEF IInv, TypeOK
      <4> QED BY <4>1, <4>2 DEF Tasks
    <3>2. /\ main_task_tracked' /\ pid = MainPid /\ MainPid \notin Ids'
          /\ \A j \in DOMAIN tasks' : \E k \in DOMAIN tasks : tasks'[j] = tasks[k]
      BY <1>2, <2>2, <3>1, KillOutcome
    <3>3. Next /\ IInv'
      BY <2>2, <3>1, NextKeepsIInv DEF Next
    <3>4. KillIsImmediate'
      BY <3>2 DEF ReportInv, KillIsImmediate
    <3>5. asked'.cmd = "kill" /\ asked'.pid = pid /\ printed' = printed
      BY <2>1, <2>2 DEF command_kill
    <3> QED BY <3>1, <3>2, <3>3, <3>4, <3>5, <1>4 DEF ReportInv
  <2>3. CASE /\ asked' = [cmd |-> "kill", pid |-> pid, answer |-> "Err"]
             /\ UNCHANGED vars
    <3>1. asked'.cmd = "kill" /\ asked'.answer = "Err" /\ printed' = printed
      BY <2>1, <2>3 DEF command_kill
    <3> QED BY <2>3, <3>1, <1>3, <1>4 DEF ReportInv
  <2> QED BY <2>1, <2>2, <2>3 DEF command_kill
<1>9. CASE command_ps
  <2> DEFINE ps == process_snapshot
  <2>1. /\ asked'.cmd = "none" /\ UNCHANGED vars
        /\ printed'.cmd = asked.cmd /\ printed'.said = asked /\ printed'.rows = ps
    BY <1>9 DEF command_ps, Idle
  <2>2. /\ Len(ps) = Len(tasks) + 1
        /\ \A i \in DOMAIN ps : ps[i].id = 0 \/ ps[i].id \in Ids
    BY <1>2, SnapshotOfList
  <2> HIDE DEF ps
  <2>3. CountCoversList'
    <3> SUFFICES ASSUME asked.cmd = "tasks"
                 PROVE  /\ asked.current = ShellPid
                        /\ \/ Len(ps) = asked.count
                           \/ /\ Len(ps) = asked.count - 1
                              /\ MainPid \notin {ps[i].id : i \in DOMAIN ps}
      BY <2>1 DEF CountCoversList
    <3>1. asked.current = ShellPid /\ Counted(asked.count)
      BY DEF ReportInv
    <3>2. CASE asked.count = Len(tasks) + 1
      BY <3>1, <3>2, <2>2
    <3>3. CASE asked.count = Len(tasks) + 2 /\ MainPid \notin Ids
      <4>1. Len(ps) = asked.count - 1
        BY <3>3, <2>2, <1>2
      <4>2. MainPid # 0
        BY DEF MainPid
      <4> QED BY <3>1, <3>3, <4>1, <4>2, <2>2
    <3> QED BY <3>1, <3>2, <3>3 DEF Counted
  <2>4. KilledIsNotListed'
    <3> SUFFICES ASSUME asked.cmd = "kill", asked.answer = "KilledNow",
                        NEW i \in DOMAIN ps
                 PROVE  ps[i].id # asked.pid
      BY <2>1 DEF KilledIsNotListed
    <3>1. asked.pid \in Pids /\ asked.pid \notin Ids
      BY DEF ReportInv
    <3>2. asked.pid # 0
      BY <3>1 DEF Pids
    <3> QED BY <3>1, <3>2, <2>2
  <2> QED BY <2>1, <2>3, <2>4, <1>3 DEF ReportInv
<1> QED BY <1>5, <1>6, <1>7, <1>8, <1>9

\* Both invariants hold while the shell reports, and it only ever takes steps
\* of the scheduler.
LEMMA ReportInductive ==
  SpecReport => [](IInv /\ ReportInv) /\ [][Next]_vars
<1>1. InitReport => IInv /\ ReportInv
  <2> SUFFICES ASSUME InitReport PROVE IInv /\ ReportInv
    OBVIOUS
  <2>1. asked.cmd = "none" /\ printed.cmd = "none" /\ tasks = <<>>
    BY DEF InitReport, Init, Idle
  <2>2. IInv
    BY InitIInv DEF InitReport
  <2> QED
    BY <2>1, <2>2 DEF ReportInv, KillIsImmediate, CountCoversList, KilledIsNotListed
<1>2. ASSUME IInv, ReportInv, [NextReport]_allvars
      PROVE  IInv' /\ ReportInv' /\ [Next]_vars
  <2>1. CASE Meanwhile
    <3>1. Next
      BY <2>1 DEF Meanwhile, Next
    <3> QED BY <1>2, <2>1, <3>1, MeanwhileKeepsReport
  <2>2. CASE \/ command_top \/ command_top_list \/ command_tasks
             \/ \E pid \in Pids \cup {0} : command_kill(pid)
             \/ command_ps
    BY <1>2, <2>2, CommandsKeepReport
  <2>3. CASE UNCHANGED allvars
    <3>1. UNCHANGED vars /\ UNCHANGED <<asked, printed>>
      BY <2>3 DEF allvars, report
    <3>2. IInv'
      BY <1>2, <3>1, NextKeepsIInv
    <3>3. Ids' = Ids /\ tasks' = tasks /\ main_task_tracked' = main_task_tracked
      BY <3>1 DEF vars, manager, Ids
    <3>4. ReportInv'
      BY <1>2, <3>1, <3>3
         DEF ReportInv, KillIsImmediate, Counted, CountCoversList, KilledIsNotListed
    <3> QED BY <3>1, <3>2, <3>4
  <2> QED BY <1>2, <2>1, <2>2, <2>3 DEF NextReport
<1>3. IInv /\ ReportInv /\ [NextReport]_allvars => (IInv /\ ReportInv)' /\ [Next]_vars
  BY <1>2
<1> QED BY <1>1, <1>3, PTL DEF SpecReport

\* The shell's commands do to the task manager only what the scheduler's
\* specification allows: all theorems about Spec hold while the shell reports.
THEOREM ReportsRefineScheduler == SpecReport => Spec
<1>1. InitReport => Init
  BY DEF InitReport
<1> QED BY <1>1, ReportInductive, PTL DEF SpecReport, Spec

\* The list tasks prints is the one it has counted, but for a user task that
\* faulted in between.
THEOREM TasksCountsItsList == SpecReport => []CountCoversList
<1>1. IInv /\ ReportInv => CountCoversList
  BY DEF ReportInv
<1> QED BY <1>1, ReportInductive, PTL

\* A process reported as terminated is not in the list that follows.
THEOREM KilledStaysUnlisted == SpecReport => []KilledIsNotListed
<1>1. IInv /\ ReportInv => KilledIsNotListed
  BY DEF ReportInv
<1> QED BY <1>1, ReportInductive, PTL
----------------------------------------------------------------------------
(***************************************************************************)
(* The percentages of top.                                                 *)
(***************************************************************************)
\* What integer division rounds away.
LEMMA DivRoundsDown ==
  ASSUME NEW a \in Nat, NEW b \in Nat \ {0}
  PROVE  a \div b \in Nat /\ (a \div b) * b <= a
OBVIOUS

\* The rows of a snapshot carry the ticks of the list; the idle row has none.
LEMMA SnapshotTicks ==
  ASSUME IInv, main_task_tracked
  PROVE  LET ps == process_snapshot
         IN  /\ IsFiniteSet(DOMAIN ps)
             /\ \A i \in DOMAIN ps : ps[i].run_ticks \in Nat
             /\ SumFunctionOnSet([i \in DOMAIN ps |-> ps[i].run_ticks], DOMAIN ps) = Used(tasks)
<1> DEFINE n == Len(tasks)
           ps == process_snapshot
           v == [i \in DOMAIN ps |-> ps[i].run_ticks]
           u == RanOf(tasks)
<1>1. /\ n \in Nat /\ DOMAIN tasks = 1 .. n /\ tasks \in Seq(Tasks)
      /\ \A j \in 1 .. n : u[j] = tasks[j].run_ticks /\ u[j] \in Nat
  BY Terms DEF IInv, TypeOK
<1>2. TaskRows \in Seq(SnapshotRows) /\ Len(TaskRows) = n
  BY TaskRowsAreTrue
<1>3. \A i \in 1 .. n : TaskRows[i].run_ticks = tasks[i].run_ticks
  BY <1>1 DEF TaskRows, Row
<1>4. /\ ps = <<IdleRow>> \o TaskRows
      /\ IdleRow \in SnapshotRows /\ IdleRow.run_ticks = 0
  BY DEF process_snapshot, TaskRows, IdleRow, SnapshotRows, Labels
<1> HIDE DEF ps, n
<1>5. /\ DOMAIN ps = 1 .. n + 1 /\ ps[1] = IdleRow
      /\ \A j \in 1 .. n : j + 1 \in 1 .. n + 1 /\ ps[j + 1] = TaskRows[j]
  BY <1>1, <1>2, <1>4
<1>6. \A i \in 1 .. n + 1 : v[i] = ps[i].run_ticks
  BY <1>5
<1> HIDE DEF v, u
<1>7. v[1] = 0 /\ 1 \in 1 .. n + 1 /\ \A j \in 1 .. n : v[j + 1] = u[j]
  <2>1. 1 \in 1 .. n + 1
    BY <1>1
  <2>2. v[1] = 0
    BY <2>1, <1>4, <1>5, <1>6, Zenon
  <2>3. ASSUME NEW j \in 1 .. n
        PROVE  v[j + 1] = u[j]
    BY <1>1, <1>3, <1>5, <1>6, Zenon
  <2> QED BY <2>1, <2>2, <2>3
<1>8. \A i \in 1 .. n + 1 : v[i] \in Nat /\ v[i] \in Int
  <2> TAKE i \in 1 .. n + 1
  <2>1. CASE i = 1
    BY <2>1, <1>7
  <2>2. CASE i # 1
    <3>1. i - 1 \in 1 .. n /\ (i - 1) + 1 = i
      BY <2>2, <1>1
    <3>2. v[(i - 1) + 1] = u[i - 1] /\ u[i - 1] \in Nat
      BY <3>1, <1>1, <1>7
    <3> QED BY <3>1, <3>2
  <2> QED BY <2>1, <2>2
<1> DEFINE m == n + 1
<1>9. m \in Nat /\ 1 \in 1 .. m /\ m - 1 = n /\ \A i \in 1 .. m : v[i] \in Int
  BY <1>1, <1>8
<1>10. Without(u, v, m, 1)
  BY <1>1, <1>7, <1>9 DEF Without
<1>11. SumFunctionOnSet(v, 1 .. m) = v[1] + SumFunctionOnSet(u, 1 .. m - 1)
  <2> HIDE DEF m
  <2> QED BY <1>9, <1>10, SumWithout
<1>12. Used(tasks) \in Nat /\ SumFunctionOnSet(u, 1 .. m - 1) = Used(tasks)
  BY <1>1, <1>9, UsedIsNat DEF Used, u
<1>13. SumFunctionOnSet(v, DOMAIN ps) = Used(tasks)
  <2>1. SumFunctionOnSet(v, 1 .. m) = Used(tasks)
    BY <1>7, <1>11, <1>12
  <2> QED BY <2>1, <1>5
<1>14. IsFiniteSet(DOMAIN ps)
  BY <1>5, <1>9, FS_Interval
<1>15. \A i \in DOMAIN ps : ps[i].run_ticks \in Nat
  BY <1>5, <1>6, <1>8
<1> QED BY <1>13, <1>14, <1>15 DEF ps, v

\* The percentages of a column that has used at most now ticks, when top
\* divides by total.
LEMMA PercentagesOf ==
  ASSUME NEW S, IsFiniteSet(S), NEW w, \A i \in S : w[i] \in Nat,
         NEW total \in Nat, NEW now \in Nat, SumFunctionOnSet(w, S) <= now,
         NEW pct, \A i \in S : pct[i] = cpu_pct(w[i], total)
  PROVE  LET sum == SumFunctionOnSet(pct, S)
         IN  IF total = 0 THEN sum = 0 ELSE sum * total <= 100 * now
<1> DEFINE P == SumFunctionOnSet(pct, S)
           W == SumFunctionOnSet(w, S)
<1>1. W \in Nat
  BY SumOfNaturals
<1>2. CASE total = 0
  <2>1. \A i \in S : pct[i] = 0
    BY <1>2 DEF cpu_pct
  <2>2. \A i \in S : /\ pct[i] \in Nat /\ pct[i] \in Int /\ w[i] \in Int
                     /\ pct[i] * 1 <= 0 * w[i]
    BY <2>1
  <2>3. P \in Nat
    BY <2>2, SumOfNaturals
  <2>4. P * 1 <= 0 * W
    BY <2>2, SumScaled
  <2> HIDE DEF P, W
  <2>5. P = 0
    BY <2>3, <2>4, <1>1
  <2> QED BY <2>5, <1>2 DEF P
<1>3. CASE total # 0
  <2>1. ASSUME NEW r \in Nat
        PROVE  cpu_pct(r, total) \in Int /\ cpu_pct(r, total) * total <= 100 * r
    <3>1. cpu_pct(r, total) = (r * 100) \div total
      BY <1>3 DEF cpu_pct
    <3>2. r * 100 \in Nat /\ total \in Nat \ {0} /\ r * 100 = 100 * r
      BY <1>3
    <3> QED BY <3>1, <3>2, DivRoundsDown
  <2>2. \A i \in S : pct[i] \in Int /\ w[i] \in Int /\ pct[i] * total <= 100 * w[i]
    BY <2>1
  <2>3. P * total <= 100 * W
    BY <2>2, SumScaled
  <2>4. P \in Int
    BY <2>2, SumSplits
  <2> HIDE DEF P
  <2> DEFINE q == P * total
  <2>5. q \in Int /\ q <= 100 * W
    BY <2>3, <2>4
  <2> HIDE DEF q, W
  <2>6. W <= now
    BY DEF W
  <2>7. q <= 100 * now
    BY <2>5, <2>6, <1>1
  <2> QED BY <2>7, <1>3 DEF q, P
<1> QED BY <1>2, <1>3

\* The ticks top has read lie in the past, and its last report adds up.
TopInv ==
  /\ asked.cmd = "top" => asked.total \in Nat /\ asked.total <= tick_count
  /\ PercentagesAddUp

\* The list top prints adds up, whatever ran since it read the ticks.
LEMMA TopListAddsUp ==
  ASSUME IInv, AccountInv, TopInv, command_top_list
  PROVE  PercentagesAddUp'
<1>1. main_task_tracked /\ tick_count \in Nat /\ tasks \in Seq(Tasks)
  <2>1. AtShell
    BY DEF command_top_list
  <2>2. main_task_tracked
    BY <2>1, ShellIsCurrent
  <2> QED BY <2>2 DEF IInv, TypeOK
<1> DEFINE ps == process_snapshot
           S == DOMAIN ps
           w == [i \in S |-> ps[i].run_ticks]
           total == asked.total
           pct == [i \in S |-> cpu_pct(ps[i].run_ticks, total)]
           sum == SumFunctionOnSet(pct, S)
<1>2. total \in Nat /\ total <= tick_count
  BY DEF command_top_list, TopInv
<1>3. /\ IsFiniteSet(S) /\ \A i \in S : ps[i].run_ticks \in Nat
      /\ SumFunctionOnSet(w, S) = Used(tasks)
  BY <1>1, SnapshotTicks
<1>4. printed' = [cmd |-> "top", total |-> total, missed |-> tick_count - total,
                  pct |-> pct]
  BY DEF command_top_list
<1>5. Used(tasks) <= tick_count
  BY DEF AccountInv, Account
<1> HIDE DEF ps, S, total
<1>6. /\ \A i \in S : w[i] = ps[i].run_ticks /\ pct[i] = cpu_pct(ps[i].run_ticks, total)
      /\ DOMAIN pct = S
  OBVIOUS
<1> HIDE DEF w, pct
<1>7. /\ \A i \in S : w[i] \in Nat /\ pct[i] = cpu_pct(w[i], total)
      /\ SumFunctionOnSet(w, S) <= tick_count
  BY <1>3, <1>5, <1>6
<1>8. IF total = 0 THEN sum = 0 ELSE sum * total <= 100 * tick_count
  BY <1>1, <1>2, <1>3, <1>7, PercentagesOf
<1>9. SumFunction(pct) = sum
  BY <1>6, Zenon DEF SumFunction
<1> HIDE DEF sum
<1>10. total + (tick_count - total) = tick_count
  BY <1>1, <1>2
<1>11. /\ printed'.total = total /\ printed'.missed = tick_count - total
       /\ printed'.pct = pct
  BY <1>4
<1> QED BY <1>8, <1>9, <1>10, <1>11 DEF PercentagesAddUp

\* Every step of the kernel or of a command keeps TopInv.
LEMMA StepKeepsTop ==
  ASSUME MaxTicks < TickModulus, IInv, AccountInv, TopInv, [NextReport]_allvars
  PROVE  TopInv'
<1>1. /\ tick_count \in Nat /\ MaxTicks \in Nat /\ TickModulus \in Nat
  BY ConstantsAssumption DEF IInv, TypeOK
<1>2. CASE Meanwhile
  <2>1. asked' = asked /\ printed' = printed
    BY <1>2 DEF Meanwhile, report
  <2>2. tick_count' \in Nat /\ tick_count <= tick_count'
    <3>1. CASE scheduler_tick
      <4>1. tick_count' = (tick_count + 1) % TickModulus /\ tick_count < MaxTicks
        BY <3>1, TickKeepsIInv DEF scheduler_tick
      <4>2. tick_count + 1 \in 0 .. TickModulus - 1
        BY <4>1, <1>1
      <4> QED BY <4>1, <4>2, <1>1
    <3>2. CASE ~scheduler_tick
      <4>1. tick_count' = tick_count
        <5>1. CASE register_named_task \/ switch_to_user_mode
          BY <5>1 DEF register_named_task, switch_to_user_mode, manager
        <5>2. CASE \E ticks \in SleepArgs : sleep_current_task(ticks)
          BY <5>2 DEF sleep_current_task
        <5>3. CASE terminate_current_user_task_from_fault
          BY <5>3, FaultKeepsIInv
        <5> QED BY <3>2, <1>2, <5>1, <5>2, <5>3 DEF Meanwhile
      <4> QED BY <4>1, <1>1
    <3> QED BY <3>1, <3>2
  <2>3. asked.cmd = "top" => asked.total \in Nat /\ asked.total <= tick_count'
    BY <2>2, <1>1 DEF TopInv
  <2> QED BY <2>1, <2>3 DEF TopInv, PercentagesAddUp
<1>3. CASE command_top
  <2>1. /\ asked' = [cmd |-> "top", total |-> tick_count] /\ printed' = printed
        /\ tick_count' = tick_count
    BY <1>3 DEF command_top, vars, manager
  <2> QED BY <2>1, <1>1 DEF TopInv, PercentagesAddUp
<1>4. CASE command_top_list
  <2>1. asked'.cmd # "top"
    BY <1>4 DEF command_top_list, Idle
  <2> QED BY <1>4, <2>1, TopListAddsUp DEF TopInv
<1>5. CASE command_tasks \/ \E pid \in Pids \cup {0} : command_kill(pid)
  <2>1. asked'.cmd # "top" /\ printed' = printed
    BY <1>5 DEF command_tasks, command_kill
  <2> QED BY <2>1 DEF TopInv, PercentagesAddUp
<1>6. CASE command_ps
  <2>1. asked'.cmd # "top" /\ printed'.cmd # "top"
    BY <1>6 DEF command_ps, Idle
  <2> QED BY <2>1 DEF TopInv, PercentagesAddUp
<1>7. CASE UNCHANGED allvars
  BY <1>7 DEF allvars, report, vars, manager, TopInv, PercentagesAddUp
<1> QED BY <1>2, <1>3, <1>4, <1>5, <1>6, <1>7 DEF NextReport

\* The CPU% column of top never adds up to more than the ticks that had passed
\* when it was printed, however many tasks there are.
THEOREM TopAddsUp ==
  ASSUME MaxTicks < TickModulus
  PROVE  SpecReport => []PercentagesAddUp
<1>1. InitReport => TopInv
  BY DEF InitReport, Idle, TopInv, PercentagesAddUp
<1>2. IInv /\ AccountInv /\ TopInv /\ [NextReport]_allvars => TopInv'
  BY StepKeepsTop
<1>3. TopInv => PercentagesAddUp
  BY DEF TopInv
<1> QED
  BY <1>1, <1>2, <1>3, ReportsRefineScheduler, Inductive, AccountInductive, PTL
     DEF SpecReport
=============================================================================
