------------------------- MODULE TaskManagerProofs -------------------------
(***************************************************************************)
(* Proofs about TaskManager, for any number of kernel threads, any stack   *)
(* depths, any sleep arguments, any counter width and any callers of kill: *)
(* what each part of a method does to a well formed task list and a switch *)
(* to the saved contexts, one lemma per action, then the theorems.         *)
(***************************************************************************)
EXTENDS TaskManager, DataLemmas

----------------------------------------------------------------------------
(***************************************************************************)
(* Removal from a list.                                                    *)
(***************************************************************************)
\* Vec::remove: the elements after the removed one move down by one place.
LEMMA RemoveElements ==
  ASSUME NEW S, NEW ts \in Seq(S), NEW i \in 1 .. Len(ts)
  PROVE  /\ remove(ts, i) \in Seq(S)
         /\ Len(remove(ts, i)) = Len(ts) - 1
         /\ \A j \in 1 .. Len(ts) - 1 :
              remove(ts, i)[j] = IF j < i THEN ts[j] ELSE ts[j + 1]
<1>1. Len(ts) - 1 \in Nat /\ \A j \in 1 .. Len(ts) : ts[j] \in S
  OBVIOUS
<1>2. \A j \in 1 .. Len(ts) - 1 : j \in 1 .. Len(ts) /\ j + 1 \in 1 .. Len(ts)
  BY <1>1
<1>3. remove(ts, i) \in [1 .. Len(ts) - 1 -> S]
  BY <1>1, <1>2 DEF remove
<1>4. remove(ts, i) \in Seq(S) /\ Len(remove(ts, i)) = Len(ts) - 1
  BY <1>1, <1>3
<1>5. \A j \in 1 .. Len(ts) - 1 :
        remove(ts, i)[j] = IF j < i THEN ts[j] ELSE ts[j + 1]
  BY DEF remove
<1> QED BY <1>4, <1>5

----------------------------------------------------------------------------
(***************************************************************************)
(* The parts of schedule_next and of the fault path.                       *)
(***************************************************************************)
\* A list and an index between two parts of a method: as in IInv, once all
\* kernel threads are registered.
GoodList(ts, c) ==
  /\ WellFormed(ts, NumKernelTasks + 1)
  /\ c \in 0 .. Len(ts) - 1
  /\ \A i \in DOMAIN ts : ts[i].state = "Terminated" => i = c + 1

\* With nothing to drop, cleanup_terminated_non_current changes nothing.
LEMMA CleanupIsIdentity ==
  ASSUME NEW ts, NEW c, GoodList(ts, c)
  PROVE  cleanup_terminated_non_current(View(ts, c)) = View(ts, c)
<1> DEFINE n == Len(ts)
<1>1. /\ ts \in Seq(Tasks) /\ n \in Nat /\ DOMAIN ts = 1 .. n
      /\ c \in 0 .. n - 1
  BY DEF GoodList, WellFormed
<1>2. KeptIndices(View(ts, c)) = 1 .. n
  BY <1>1 DEF KeptIndices, View, GoodList
<1>3. \A i \in 0 .. n : Cardinality({j \in 1 .. n : j <= i}) = i
  <2> TAKE i \in 0 .. n
  <2>1. i \in Nat
    BY <1>1
  <2>2. {j \in 1 .. n : j <= i} = 1 .. i
    BY <1>1
  <2>3. Cardinality(1 .. i) = i
    BY <2>1, IntervalCardinality
  <2> QED BY <2>2, <2>3, Zenon
<1>4. Cardinality(1 .. n) = n
  BY <1>1, IntervalCardinality
<1>5. \A k \in 1 .. n : KthOf(1 .. n, k) = k
  <2> TAKE k \in 1 .. n
  <2>1. \A i \in 1 .. n : i \in 0 .. n
    BY <1>1
  <2>2. \A i \in 1 .. n : Cardinality({j \in 1 .. n : j <= i}) = i
    BY <1>3, <2>1
  <2> QED BY <2>2 DEF KthOf
<1>6. [k \in 1 .. n |-> ts[KthOf(1 .. n, k)]] = ts
  BY <1>1, <1>5
<1>7. c \in 0 .. n /\ Clamp(ts, c) = c
  BY <1>1 DEF Clamp
<1>8. Cardinality({i \in 1 .. n : i <= c}) = c
  BY <1>3, <1>7
<1>9. View(ts, c).ts = ts /\ View(ts, c).c = c
  BY DEF View
<1> HIDE DEF n
<1> QED
  BY <1>2, <1>4, <1>6, <1>7, <1>8, <1>9, Zenon DEF cleanup_terminated_non_current

\* What waking does to one entry.
LEMMA WokenTask ==
  ASSUME NEW t \in Tasks, NEW u, u = [t EXCEPT !.state = "Ready", !.wake_at = 0]
  PROVE  /\ u \in Tasks
         /\ u.id = t.id /\ u.stack_ptr = t.stack_ptr /\ u.privilege = t.privilege
         /\ u.state = "Ready" /\ u.run_ticks = t.run_ticks
<1>1. u \in Tasks
  BY Zenon DEF Tasks
<1>2. /\ u.id = t.id /\ u.stack_ptr = t.stack_ptr /\ u.privilege = t.privilege
      /\ u.state = "Ready" /\ u.run_ticks = t.run_ticks
  BY DEF Tasks
<1> QED BY <1>1, <1>2

\* Waking sleepers touches neither pids nor frames, and marks nobody.
LEMMA WakeKeepsGood ==
  ASSUME NEW ts, NEW c, GoodList(ts, c), NEW now
  PROVE  \E us :
           /\ wake_sleeping_tasks(View(ts, c), now) = View(us, c)
           /\ GoodList(us, c)
           /\ DOMAIN us = DOMAIN ts
           /\ \A i \in DOMAIN ts :
                us[i].id = ts[i].id /\ us[i].stack_ptr = ts[i].stack_ptr
           /\ \A i \in DOMAIN ts : us[i].run_ticks = ts[i].run_ticks
           /\ \A i \in DOMAIN ts :
                us[i].state = "Terminated" <=> ts[i].state = "Terminated"
<1> DEFINE W(t) == IF Expired(t, now)
                   THEN [t EXCEPT !.state = "Ready", !.wake_at = 0] ELSE t
           us == [i \in DOMAIN ts |-> W(ts[i])]
<1>1. /\ ts \in Seq(Tasks) /\ Len(ts) \in Nat /\ DOMAIN ts = 1 .. Len(ts)
      /\ \A i \in DOMAIN ts : ts[i] \in Tasks
  BY DEF GoodList, WellFormed
<1>2. wake_sleeping_tasks(View(ts, c), now) = View(us, c)
  BY DEF wake_sleeping_tasks, View
<1>3. ASSUME NEW t \in Tasks
      PROVE  /\ W(t) \in Tasks
             /\ W(t).id = t.id /\ W(t).stack_ptr = t.stack_ptr
             /\ W(t).privilege = t.privilege /\ W(t).run_ticks = t.run_ticks
             /\ \/ W(t).state = "Ready" /\ t.state = "Sleeping"
                \/ W(t).state = t.state
  <2>1. CASE Expired(t, now)
    <3>1. W(t) = [t EXCEPT !.state = "Ready", !.wake_at = 0]
      BY <2>1
    <3> HIDE DEF W
    <3>2. t.state = "Sleeping"
      BY <2>1 DEF Expired
    <3> QED BY <3>1, <3>2, WokenTask, Zenon
  <2>2. CASE ~Expired(t, now)
    <3>1. W(t) = t
      BY <2>2
    <3> QED BY <3>1
  <2> QED BY <2>1, <2>2
<1> HIDE DEF W
<1>4. \A i \in DOMAIN ts :
        /\ us[i] \in Tasks
        /\ us[i].id = ts[i].id /\ us[i].stack_ptr = ts[i].stack_ptr
        /\ us[i].privilege = ts[i].privilege /\ us[i].run_ticks = ts[i].run_ticks
        /\ \/ us[i].state = "Ready" /\ ts[i].state = "Sleeping"
           \/ us[i].state = ts[i].state
  BY <1>1, <1>3
<1>5. us \in Seq(Tasks) /\ Len(us) = Len(ts) /\ DOMAIN us = DOMAIN ts
  <2>1. us \in [1 .. Len(ts) -> Tasks]
    BY <1>1, <1>3
  <2> HIDE DEF us
  <2> QED BY <1>1, <2>1
<1> HIDE DEF us
<1>6. GoodList(us, c)
  BY <1>1, <1>4, <1>5 DEF GoodList, WellFormed
<1> QED BY <1>2, <1>4, <1>5, <1>6

\* When a task that is not a kernel thread is removed, the list stays well
\* formed and is not empty.
LEMMA RemoveKeepsWellFormed ==
  ASSUME NEW ts, WellFormed(ts, NumKernelTasks + 1),
         NEW i \in DOMAIN ts, ts[i].privilege = "User"
  PROVE  /\ WellFormed(remove(ts, i), NumKernelTasks + 1)
         /\ Len(remove(ts, i)) = Len(ts) - 1
         /\ remove(ts, i) # <<>>
         /\ \A j \in DOMAIN remove(ts, i) :
              remove(ts, i)[j] = ts[IF j < i THEN j ELSE j + 1]
<1>1. /\ ts \in Seq(Tasks) /\ Len(ts) \in Nat /\ DOMAIN ts = 1 .. Len(ts)
      /\ i \in 1 .. Len(ts)
  BY DEF WellFormed
<1> DEFINE us == remove(ts, i)
           old(j) == IF j < i THEN j ELSE j + 1
<1> HIDE DEF old
<1>2. /\ us \in Seq(Tasks)
      /\ Len(us) = Len(ts) - 1
      /\ \A j \in 1 .. Len(ts) - 1 : us[j] = IF j < i THEN ts[j] ELSE ts[j + 1]
  BY <1>1, RemoveElements, Zenon
<1> USE DEF old
<1> HIDE DEF us
<1>3. DOMAIN us = 1 .. Len(ts) - 1
  BY <1>1, <1>2
<1>4. \A j \in DOMAIN us : us[j] = ts[old(j)] /\ old(j) \in DOMAIN ts \ {i}
  BY <1>1, <1>2, <1>3
<1>5. \A j, k \in DOMAIN us : old(j) = old(k) => j = k
  BY <1>1, <1>3
<1>6. \A k \in DOMAIN ts \ {i} : \E j \in DOMAIN us : old(j) = k
  <2> TAKE k \in DOMAIN ts \ {i}
  <2>1. CASE k < i
    BY <2>1, <1>1, <1>3
  <2>2. CASE k > i
    <3>1. k - 1 \in DOMAIN us /\ old(k - 1) = k
      BY <2>2, <1>1, <1>3
    <3> QED BY <3>1
  <2> QED BY <2>1, <2>2, <1>1
<1> HIDE DEF old
<1>7. \A p \in 2 .. NumKernelTasks + 1 : \E j \in DOMAIN us : us[j].id = p
  <2> TAKE p \in 2 .. NumKernelTasks + 1
  <2>1. PICK k \in DOMAIN ts : ts[k].id = p
    BY DEF WellFormed
  <2>2. ts[i].id # p
    <3>1. p # MainPid
      BY ConstantsAssumption DEF MainPid
    <3> QED BY <3>1 DEF WellFormed, PrivilegeOf
  <2>3. PICK j \in DOMAIN us : old(j) = k
    BY <2>1, <2>2, <1>6
  <2> QED BY <2>1, <2>3, <1>4
<1>8. WellFormed(us, NumKernelTasks + 1)
  <2>1. \A j, k \in DOMAIN us : us[j].id = us[k].id => j = k
    BY <1>4, <1>5 DEF WellFormed
  <2>2. \A j \in DOMAIN us :
          /\ us[j].id <= NumKernelTasks + 1
          /\ us[j].privilege = PrivilegeOf(us[j].id)
          /\ us[j].privilege = "Kernel" => us[j].state = "Ready"
    BY <1>4 DEF WellFormed
  <2> QED BY <1>2, <1>7, <2>1, <2>2 DEF WellFormed
<1>9. us # <<>>
  <2>1. 2 \in 2 .. NumKernelTasks + 1
    BY ConstantsAssumption
  <2>2. \E j \in DOMAIN us : us[j].id = 2
    BY <2>1, <1>7
  <2> QED BY <2>2
<1>10. \A j \in DOMAIN us : us[j] = ts[IF j < i THEN j ELSE j + 1]
  BY <1>4 DEF old
<1> QED BY <1>2, <1>4, <1>8, <1>9, <1>10 DEF us

----------------------------------------------------------------------------
(***************************************************************************)
(* Choosing the next task and resuming it.                                 *)
(***************************************************************************)
\* The scan of next_ready_after visits every index, so it finds the kernel
\* thread 2, which is always Ready, if nothing else.
LEMMA NextIsReady ==
  ASSUME NEW ts, NEW c, GoodList(ts, c)
  PROVE  /\ ReadyOffsets(View(ts, c)) # {}
         /\ next_ready_after(View(ts, c)) \in 0 .. Len(ts) - 1
         /\ ts[next_ready_after(View(ts, c)) + 1].state = "Ready"
<1> DEFINE m == View(ts, c)
           n == Len(ts)
<1>1. /\ ts \in Seq(Tasks) /\ n \in Nat /\ DOMAIN ts = 1 .. n
      /\ c \in 0 .. n - 1 /\ n # 0
  BY DEF GoodList, WellFormed
<1>2. m.ts = ts /\ m.c = c
  BY DEF View
<1> HIDE DEF m, n
<1>3. PICK i \in 1 .. n : ts[i].state = "Ready"
  <2>1. 2 \in 2 .. NumKernelTasks + 1
    BY ConstantsAssumption
  <2>2. PICK i \in DOMAIN ts : ts[i].id = 2
    BY <2>1 DEF GoodList, WellFormed
  <2>3. ts[i].privilege = "Kernel"
    BY <2>2 DEF GoodList, WellFormed, PrivilegeOf, MainPid
  <2> QED BY <2>2, <2>3, <1>1 DEF GoodList, WellFormed
<1>4. \E o \in 1 .. n : (c + o) % n = i - 1
  <2>1. CASE i - 1 > c
    <3>1. i - 1 - c \in 1 .. n /\ c + (i - 1 - c) = i - 1
      BY <1>1, <2>1
    <3>2. (i - 1) % n = i - 1
      BY <1>1
    <3> QED BY <3>1, <3>2
  <2>2. CASE i - 1 <= c
    <3>1. i - 1 - c + n \in 1 .. n /\ c + (i - 1 - c + n) = i - 1 + n
      BY <1>1, <2>2
    <3>2. (i - 1 + n) % n = i - 1
      BY <1>1
    <3> QED BY <3>1, <3>2
  <2> QED BY <2>1, <2>2, <1>1
<1>5. ReadyOffsets(m) = {o \in 1 .. n : ts[((c + o) % n) + 1].state = "Ready"}
  BY <1>2 DEF ReadyOffsets, n
<1>6. ReadyOffsets(m) # {}
  <2>1. PICK o \in 1 .. n : (c + o) % n = i - 1
    BY <1>4
  <2>2. (i - 1) + 1 = i
    BY <1>1
  <2>3. o \in ReadyOffsets(m)
    BY <2>1, <2>2, <1>3, <1>5
  <2> QED BY <2>3
<1>7. ReadyOffsets(m) \in SUBSET Nat
  BY <1>1, <1>5
<1>8. Min(ReadyOffsets(m)) \in ReadyOffsets(m)
  BY <1>6, <1>7, MinIsLeast
<1>9. next_ready_after(m) = (c + Min(ReadyOffsets(m))) % n
  BY <1>2 DEF next_ready_after, n
<1>10. ts[next_ready_after(m) + 1].state = "Ready"
  BY <1>5, <1>8, <1>9
<1>11. next_ready_after(m) \in 0 .. n - 1
  BY <1>1, <1>7, <1>8, <1>9
<1> QED BY <1>6, <1>10, <1>11 DEF m, n

\* Contexts are in place in s, each where its task's interrupts are taken.
InPlace(s) ==
  /\ s \in [Pids -> Frames \cup {Nowhere}]
  /\ \A p \in Pids : s[p] \in InterruptFrames(p) \cup {Nowhere}

\* Frames of different tasks never coincide.
LEMMA FramesApart ==
  ASSUME NEW p \in Pids, NEW q \in Pids, p # q,
         NEW f \in InterruptFrames(p)
  PROVE  f \notin InterruptFrames(q) \cup {Nowhere} /\ f \in Frames
<1>1. \A r \in Pids : \A g \in InterruptFrames(r) : g[1] = r /\ g \in Frames
  BY ConstantsAssumption DEF InterruptFrames, TssFrame, MainPid, Frames, Pids
<1>2. Nowhere[1] = 0 /\ 0 \notin Pids
  BY DEF Nowhere, Pids
<1> QED BY <1>1, <1>2

\* An interrupt destroys no other context, ring 3 interrupts included: only
\* one task's frames are ever pushed at TSS.esp0.
LEMMA PushKeepsOthers ==
  ASSUME NEW s, InPlace(s), NEW p \in Pids, NEW f \in InterruptFrames(p)
  PROVE  /\ Push(s, p, f) = [s EXCEPT ![p] = f]
         /\ InPlace([s EXCEPT ![p] = f])
         /\ f # Nowhere
<1>1. \A q \in Pids : q # p => s[q] # f
  BY FramesApart DEF InPlace
<1>2. f \in Frames /\ f # Nowhere
  BY ConstantsAssumption
     DEF InterruptFrames, TssFrame, MainPid, Frames, Pids, Nowhere
<1>3. Push(s, p, f) = [s EXCEPT ![p] = f]
  BY <1>1, Zenon DEF Push, InPlace
<1> QED BY <1>2, <1>3 DEF InPlace

\* Loading esp with the place of p's context makes the CPU go on with p.
LEMMA ResumesOwner ==
  ASSUME NEW s, InPlace(s), NEW p \in Pids, s[p] # Nowhere
  PROVE  /\ OwnerOf(s, s[p]) = p
         /\ [q \in Pids |-> IF s[q] = s[p] THEN Nowhere ELSE s[q]]
              = [s EXCEPT ![p] = Nowhere]
         /\ InPlace([s EXCEPT ![p] = Nowhere])
<1>1. \A q \in Pids : s[q] = s[p] => q = p
  BY FramesApart DEF InPlace
<1>2. OwnerOf(s, s[p]) = p
  BY <1>1 DEF OwnerOf
<1> QED BY <1>1, <1>2, Zenon DEF InPlace

\* The entries of ts other than the running task's have their contexts in s.
OthersIn(ts, s) ==
  \A i \in DOMAIN ts : ts[i].id # running =>
    s[ts[i].id] # Nowhere /\ ts[i].stack_ptr = s[ts[i].id]

\* All entries of ts have their contexts in s, and none is marked.
AllIn(ts, s) ==
  \A i \in DOMAIN ts :
    /\ ts[i].state # "Terminated"
    /\ s[ts[i].id] # Nowhere
    /\ ts[i].stack_ptr = s[ts[i].id]

\* The common end of a tick and of a fault re-establishes the invariant.
LEMMA SwitchKeepsIInv ==
  ASSUME NEW ts, NEW c, NEW s,
         GoodList(ts, c), AllIn(ts, s), InPlace(s),
         panicked = FALSE, SwitchToNext(View(ts, c), s),
         next_task_id' = NumKernelTasks + 2,
         tick_count' \in 0 .. TickModulus - 1,
         deadline' \in Nat
  PROVE  IInv' /\ tasks' = ts /\ main_task_tracked' = TRUE
<1> DEFINE k == next_ready_after(View(ts, c))
           p == ts[k + 1].id
<1>1. /\ ts \in Seq(Tasks) /\ Len(ts) \in Nat /\ DOMAIN ts = 1 .. Len(ts)
      /\ c \in 0 .. Len(ts) - 1
      /\ \A i \in DOMAIN ts : ts[i] \in Tasks
  BY DEF GoodList, WellFormed
<1>2. /\ ReadyOffsets(View(ts, c)) # {}
      /\ k \in 0 .. Len(ts) - 1 /\ ts[k + 1].state = "Ready"
  BY NextIsReady
<1>3. View(ts, c).ts = ts
  BY DEF View
<1> HIDE DEF k
<1>4. k + 1 \in DOMAIN ts /\ p \in Pids
  <2>1. k + 1 \in DOMAIN ts
    BY <1>1, <1>2
  <2> QED BY <2>1, <1>1 DEF Tasks
<1>5. /\ tasks' = ts /\ current_task_idx' = k
      /\ main_task_tracked' = TRUE /\ panicked' = panicked
      /\ running' = OwnerOf(s, ts[k + 1].stack_ptr)
      /\ saved' = [q \in Pids |-> IF s[q] = ts[k + 1].stack_ptr THEN Nowhere
                                  ELSE s[q]]
  BY <1>2, <1>3 DEF SwitchToNext, Resume, k
<1>6. s[p] # Nowhere /\ ts[k + 1].stack_ptr = s[p]
  BY <1>4 DEF AllIn
<1>7. running' = p /\ saved' = [s EXCEPT ![p] = Nowhere] /\ InPlace(saved')
  BY <1>4, <1>5, <1>6, ResumesOwner
<1>8. WellFormed(ts, NumKernelTasks + 1)
  BY DEF GoodList
<1>9. NumKernelTasks + 2 - 1 = NumKernelTasks + 1
      /\ NumKernelTasks + 2 \in 2 .. NumKernelTasks + 2
  BY ConstantsAssumption
<1> HIDE DEF p
<1>10. TypeOK'
  <2>1. current_task_idx' \in 0 .. IF tasks' = <<>> THEN 0 ELSE Len(tasks') - 1
    BY <1>1, <1>2, <1>5
  <2>2. saved' \in [Pids -> Frames \cup {Nowhere}]
    BY <1>7 DEF InPlace
  <2>3. \A i, j \in DOMAIN tasks' : tasks'[i].id = tasks'[j].id => i = j
    BY <1>5, <1>8 DEF WellFormed
  <2>4. main_task_tracked' \in BOOLEAN /\ panicked' \in BOOLEAN
    BY <1>5, Zenon
  <2>5. running' \in Pids \cup {KernelMain}
    BY <1>4, <1>7
  <2> QED BY <1>1, <1>5, <1>9, <2>1, <2>2, <2>3, <2>4, <2>5 DEF TypeOK
<1>11. NoPanic'
  BY <1>5 DEF NoPanic
<1>12. RunningIsCurrent'
  BY <1>5, <1>7 DEF RunningIsCurrent, p
<1>13. ContextsIntact'
  <2> SUFFICES ASSUME NEW i \in DOMAIN ts, ts[i].id # p
               PROVE  saved'[ts[i].id] # Nowhere
                      /\ ts[i].stack_ptr = saved'[ts[i].id]
    BY <1>5, <1>7 DEF ContextsIntact
  <2>1. ts[i].id \in Pids
    BY <1>1 DEF Tasks
  <2>2. saved'[ts[i].id] = s[ts[i].id]
    BY <2>1, <1>7 DEF InPlace
  <2> QED BY <2>2 DEF AllIn
<1>14. WellFormed(tasks, next_task_id - 1)'
  <2>1. next_task_id' - 1 = NumKernelTasks + 1
    BY ConstantsAssumption
  <2> QED BY <2>1, <1>5, <1>8 DEF WellFormed, PrivilegeOf
<1>15. BootProgress'
  <2>1. running' # KernelMain
    BY <1>4, <1>7 DEF KernelMain, Pids
  <2> QED BY <2>1, <1>5 DEF BootProgress
<1>16. MarkedIsCurrent'
  BY <1>5 DEF MarkedIsCurrent, AllIn
<1>17. SavedInPlace'
  BY <1>7 DEF SavedInPlace, InPlace
<1> QED
  BY <1>5, <1>10, <1>11, <1>12, <1>13, <1>14, <1>15, <1>16, <1>17 DEF IInv

----------------------------------------------------------------------------
(***************************************************************************)
(* What the methods start from, and charging the current task.             *)
(***************************************************************************)
\* What every method finds once the CPU has left kernel_main: after
\* ensure_main_task_tracked the running task is the current one.
LEMMA TrackedIsGood ==
  ASSUME IInv, running \in Pids, NEW frame \in InterruptFrames(running)
  PROVE  \E ts, c :
           /\ ensure_main_task_tracked(frame) = View(ts, c)
           /\ GoodList(ts, c)
           /\ ts[c + 1].id = running
           /\ OthersIn(ts, saved)
<1>1. /\ TypeOK /\ next_task_id - 1 = NumKernelTasks + 1
      /\ WellFormed(tasks, NumKernelTasks + 1)
  <2>1. running # KernelMain
    BY DEF KernelMain, Pids
  <2>2. next_task_id = NumKernelTasks + 2
    BY <2>1 DEF IInv, BootProgress
  <2>3. next_task_id - 1 = NumKernelTasks + 1
    BY <2>2, ConstantsAssumption
  <2> QED BY <2>3 DEF IInv
<1>2. tasks \in Seq(Tasks) /\ Len(tasks) \in Nat /\ DOMAIN tasks = 1 .. Len(tasks)
  BY <1>1 DEF TypeOK
<1>3. tasks # <<>>
  <2>1. 2 \in 2 .. NumKernelTasks + 1
    BY ConstantsAssumption
  <2>2. \E i \in DOMAIN tasks : tasks[i].id = 2
    BY <1>1, <2>1 DEF WellFormed
  <2> QED BY <2>2
<1>4. CASE main_task_tracked
  <2>1. ensure_main_task_tracked(frame) = View(tasks, current_task_idx)
    BY <1>4 DEF ensure_main_task_tracked
  <2>2. current_task_idx \in 0 .. Len(tasks) - 1
    BY <1>1, <1>2, <1>3 DEF TypeOK
  <2>3. GoodList(tasks, current_task_idx)
    BY <1>1, <2>2 DEF GoodList, IInv, MarkedIsCurrent
  <2>4. tasks[current_task_idx + 1].id = running /\ OthersIn(tasks, saved)
    BY <1>4 DEF IInv, RunningIsCurrent, ContextsIntact, OthersIn
  <2> QED BY <2>1, <2>3, <2>4
<1>5. CASE ~main_task_tracked
  <2> DEFINE t == placeholder_main(frame)
             ts == <<t>> \o tasks
  <2>1. running = MainPid /\ MainPid \notin Ids
    BY <1>5 DEF IInv, BootProgress, KernelMain, Pids
  <2>2. ensure_main_task_tracked(frame) = View(ts, 0)
    BY <1>5 DEF ensure_main_task_tracked
  <2>3. frame = TssFrame /\ TssFrame \in Frames
    BY <2>1, ConstantsAssumption DEF InterruptFrames, TssFrame, Frames
  <2>4. /\ t \in Tasks /\ t.id = MainPid /\ t.privilege = "User"
        /\ t.state = "Ready"
    BY <2>1, <2>3 DEF placeholder_main, Task, Tasks
  <2> HIDE DEF t
  <2>5. /\ ts \in Seq(Tasks) /\ Len(ts) = Len(tasks) + 1
        /\ ts[1] = t
        /\ \A i \in DOMAIN tasks : ts[i + 1] = tasks[i]
    BY <1>2, <2>4
  <2>6. DOMAIN ts = 1 .. Len(tasks) + 1
    BY <1>2, <2>5
  <2> HIDE DEF ts
  <2>7. \A i \in DOMAIN ts : i = 1 \/ (i - 1 \in DOMAIN tasks /\ ts[i] = tasks[i - 1])
    BY <1>2, <2>5, <2>6
  <2>8. \A i \in DOMAIN tasks : tasks[i].id # MainPid
    BY <2>1 DEF Ids
  <2>9. WellFormed(ts, NumKernelTasks + 1)
    <3>1. \A i, j \in DOMAIN ts : ts[i].id = ts[j].id => i = j
      <4> SUFFICES ASSUME NEW i \in DOMAIN ts, NEW j \in DOMAIN ts,
                          ts[i].id = ts[j].id
                   PROVE  i = j
        OBVIOUS
      <4>1. CASE i = 1 \/ j = 1
        BY <4>1, <2>4, <2>5, <2>7, <2>8
      <4>2. CASE i # 1 /\ j # 1
        <5>1. i - 1 = j - 1
          BY <4>2, <2>7, <1>1 DEF WellFormed
        <5> QED BY <5>1, <2>6, <1>2
      <4> QED BY <4>1, <4>2
    <3>2. ASSUME NEW i \in DOMAIN ts
          PROVE  /\ ts[i].id <= NumKernelTasks + 1
                 /\ ts[i].privilege = PrivilegeOf(ts[i].id)
                 /\ ts[i].privilege = "Kernel" => ts[i].state = "Ready"
      <4>1. CASE i = 1
        BY <4>1, <2>4, <2>5, ConstantsAssumption DEF PrivilegeOf, MainPid
      <4>2. CASE i # 1
        BY <4>2, <2>7, <1>1 DEF WellFormed
      <4> QED BY <4>1, <4>2
    <3>3. ASSUME NEW p \in 2 .. NumKernelTasks + 1
          PROVE  \E i \in DOMAIN ts : ts[i].id = p
      <4>1. PICK i \in DOMAIN tasks : tasks[i].id = p
        BY <1>1 DEF WellFormed
      <4>2. i + 1 \in DOMAIN ts /\ ts[i + 1].id = p
        BY <4>1, <1>2, <2>5, <2>6
      <4> QED BY <4>2
    <3> QED BY <2>5, <3>1, <3>2, <3>3 DEF WellFormed
  <2>10. GoodList(ts, 0)
    <3>1. 0 \in 0 .. Len(ts) - 1
      BY <1>2, <2>5
    <3>2. \A i \in DOMAIN ts : ts[i].state # "Terminated"
      BY <1>5, <2>4, <2>5, <2>7 DEF IInv, MarkedIsCurrent
    <3> QED BY <2>9, <3>1, <3>2 DEF GoodList
  <2>11. ts[0 + 1].id = running
    BY <2>1, <2>4, <2>5
  <2>12. OthersIn(ts, saved)
    BY <2>1, <2>4, <2>5, <2>7 DEF OthersIn, IInv, ContextsIntact
  <2> QED BY <2>2, <2>10, <2>11, <2>12
<1> QED BY <1>4, <1>5

\* Removing the current ring 3 task leaves only unmarked entries of the list.
LEMMA RemoveCurrentIsGood ==
  ASSUME NEW ts, NEW c, GoodList(ts, c), ts[c + 1].privilege = "User"
  PROVE  \E us, d :
           /\ RemoveCurrent(View(ts, c)) = View(us, d)
           /\ GoodList(us, d)
           /\ Len(us) = Len(ts) - 1
           /\ \A j \in DOMAIN us :
                /\ us[j].state # "Terminated"
                /\ \E k \in DOMAIN ts \ {c + 1} : us[j] = ts[k]
<1> DEFINE us == remove(ts, c + 1)
           d == Clamp(us, c)
<1>1. /\ ts \in Seq(Tasks) /\ Len(ts) \in Nat /\ DOMAIN ts = 1 .. Len(ts)
      /\ c \in 0 .. Len(ts) - 1 /\ c + 1 \in DOMAIN ts
      /\ WellFormed(ts, NumKernelTasks + 1)
  BY DEF GoodList, WellFormed
<1>2. RemoveCurrent(View(ts, c)) = View(us, d)
  BY DEF RemoveCurrent, View
<1>3. /\ WellFormed(us, NumKernelTasks + 1)
      /\ Len(us) = Len(ts) - 1 /\ us # <<>>
      /\ \A j \in DOMAIN us : \E k \in DOMAIN ts \ {c + 1} : us[j] = ts[k]
  <2>1. /\ WellFormed(us, NumKernelTasks + 1)
        /\ Len(us) = Len(ts) - 1 /\ us # <<>>
        /\ \A j \in DOMAIN us : us[j] = ts[IF j < c + 1 THEN j ELSE j + 1]
    BY <1>1, RemoveKeepsWellFormed, Zenon
  <2> HIDE DEF us
  <2>2. DOMAIN us = 1 .. Len(ts) - 1
    BY <1>1, <2>1 DEF WellFormed
  <2> QED BY <1>1, <2>1, <2>2
<1> HIDE DEF us
<1>4. d \in 0 .. Len(us) - 1
  <2>1. us \in Seq(Tasks) /\ Len(us) # 0
    BY <1>3 DEF WellFormed
  <2> QED BY <1>1, <1>3, <2>1 DEF Clamp
<1>5. \A j \in DOMAIN us : us[j].state # "Terminated"
  BY <1>3 DEF GoodList
<1> QED BY <1>2, <1>3, <1>4, <1>5 DEF GoodList

\* Every entry of us was one of ts that was not marked.
ComeFrom(us, ts) ==
  \A j \in DOMAIN us : \E k \in DOMAIN ts :
    us[j].id = ts[k].id /\ ts[k].state # "Terminated"

\* After the current task has been charged, or dropped because it was marked,
\* every entry that is left has its context in place.
LEMMA ChargeIsGood ==
  ASSUME NEW ts, NEW c, GoodList(ts, c), ts[c + 1].id = running,
         OthersIn(ts, saved), InPlace(saved),
         running \in Pids, NEW frame \in InterruptFrames(running)
  PROVE  \E us, d :
           /\ ChargeCurrent(View(ts, c), frame) = View(us, d)
           /\ GoodList(us, d)
           /\ AllIn(us, [saved EXCEPT ![running] = frame])
           /\ ComeFrom(us, ts)
<1> DEFINE s == [saved EXCEPT ![running] = frame]
<1>1. /\ ts \in Seq(Tasks) /\ Len(ts) \in Nat /\ DOMAIN ts = 1 .. Len(ts)
      /\ c \in 0 .. Len(ts) - 1 /\ c + 1 \in DOMAIN ts
      /\ WellFormed(ts, NumKernelTasks + 1)
      /\ \A i \in DOMAIN ts : ts[i] \in Tasks /\ ts[i].id \in Pids
  <2>1. /\ ts \in Seq(Tasks) /\ Len(ts) \in Nat /\ DOMAIN ts = 1 .. Len(ts)
        /\ c \in 0 .. Len(ts) - 1 /\ c + 1 \in DOMAIN ts
        /\ WellFormed(ts, NumKernelTasks + 1)
        /\ \A i \in DOMAIN ts : ts[i] \in Tasks
    BY DEF GoodList, WellFormed
  <2> QED BY <2>1 DEF Tasks
<1>2. View(ts, c).ts = ts /\ View(ts, c).c = c
  BY DEF View
<1>3. \A i \in DOMAIN ts \ {c + 1} :
        s[ts[i].id] # Nowhere /\ ts[i].stack_ptr = s[ts[i].id]
  <2> TAKE i \in DOMAIN ts \ {c + 1}
  <2>1. ts[i].id # running
    BY <1>1 DEF WellFormed
  <2>2. s[ts[i].id] = saved[ts[i].id]
    BY <2>1, <1>1 DEF InPlace
  <2> QED BY <2>1, <2>2 DEF OthersIn
<1>4. s[running] = frame /\ frame # Nowhere /\ frame \in Frames
  <2>1. frame # Nowhere
    BY PushKeepsOthers, Zenon
  <2>2. frame \in Frames
    BY ConstantsAssumption DEF InterruptFrames, TssFrame, MainPid, Frames, Pids
  <2> QED BY <2>1, <2>2 DEF InPlace
<1> HIDE DEF s
<1>5. CASE ts[c + 1].state = "Terminated"
  <2>1. ts[c + 1].privilege = "User"
    BY <1>1, <1>5 DEF WellFormed, PrivilegeOf
  <2>2. ChargeCurrent(View(ts, c), frame) = RemoveCurrent(View(ts, c))
    BY <1>2, <1>5 DEF ChargeCurrent
  <2>3. PICK us, d :
          /\ RemoveCurrent(View(ts, c)) = View(us, d)
          /\ GoodList(us, d)
          /\ Len(us) = Len(ts) - 1
          /\ \A j \in DOMAIN us :
               /\ us[j].state # "Terminated"
               /\ \E k \in DOMAIN ts \ {c + 1} : us[j] = ts[k]
    BY <2>1, RemoveCurrentIsGood, Zenon
  <2>4. AllIn(us, s)
    BY <2>3, <1>3 DEF AllIn
  <2>5. ComeFrom(us, ts)
    BY <2>3 DEF ComeFrom
  <2> QED BY <2>2, <2>3, <2>4, <2>5 DEF s
<1>6. CASE ts[c + 1].state # "Terminated"
  <2> DEFINE n == (ts[c + 1].run_ticks + 1) % TickModulus
             u == [ts[c + 1] EXCEPT !.stack_ptr = frame, !.run_ticks = n]
             us == [ts EXCEPT ![c + 1] = u]
  <2>1. ChargeCurrent(View(ts, c), frame) = View(us, c)
    <3>1. [ts EXCEPT ![c + 1].stack_ptr = frame,
                     ![c + 1].run_ticks = (@ + 1) % TickModulus] = us
      BY <1>1, Zenon DEF Tasks
    <3> QED BY <1>2, <1>6, <3>1 DEF ChargeCurrent
  <2>2. n \in Nat
    <3>1. ts[c + 1].run_ticks \in Nat
      BY <1>1 DEF Tasks
    <3> QED BY <3>1, ConstantsAssumption
  <2> HIDE DEF n
  <2>3. /\ u \in Tasks
        /\ u.id = ts[c + 1].id /\ u.privilege = ts[c + 1].privilege
        /\ u.state = ts[c + 1].state /\ u.stack_ptr = frame
    <3> DEFINE t == ts[c + 1]
    <3>1. u = [t EXCEPT !.stack_ptr = frame, !.run_ticks = n] /\ t \in Tasks
      BY <1>1
    <3> HIDE DEF u, t
    <3>2. u \in Tasks
      BY <3>1, <1>4, <2>2, Zenon DEF Tasks
    <3>3. /\ u.id = t.id /\ u.privilege = t.privilege
          /\ u.state = t.state /\ u.stack_ptr = frame
      BY <3>1 DEF Tasks
    <3> QED BY <3>2, <3>3 DEF t
  <2> HIDE DEF u
  <2>4. /\ us \in Seq(Tasks) /\ Len(us) = Len(ts) /\ DOMAIN us = DOMAIN ts
        /\ us[c + 1] = u
        /\ \A i \in DOMAIN ts \ {c + 1} : us[i] = ts[i]
    BY <1>1, <2>3
  <2> HIDE DEF us
  <2>5. \A i \in DOMAIN ts :
          /\ us[i].id = ts[i].id /\ us[i].privilege = ts[i].privilege
          /\ us[i].state = ts[i].state
    BY <2>3, <2>4
  <2>6. GoodList(us, c)
    BY <1>1, <2>4, <2>5 DEF GoodList, WellFormed
  <2>7. AllIn(us, s)
    BY <1>3, <1>4, <1>6, <2>3, <2>4, <2>5 DEF AllIn, GoodList
  <2>8. ComeFrom(us, ts)
    BY <1>6, <2>4, <2>5 DEF ComeFrom, GoodList
  <2> QED BY <2>1, <2>6, <2>7, <2>8 DEF s
<1> QED BY <1>5, <1>6, Zenon

----------------------------------------------------------------------------
(* The actions. *)

\* After a tick or a fault no task is marked, and nobody has joined the list.
Swept ==
  /\ main_task_tracked' = TRUE
  /\ \A j \in DOMAIN tasks' : tasks'[j].state # "Terminated"
  /\ main_task_tracked => ComeFrom(tasks', tasks)

\* Every entry of us is one of ts, with the ticks that one has used.
TicksFrom(us, ts) ==
  \A j \in DOMAIN us : \E k \in DOMAIN ts :
    us[j].id = ts[k].id /\ us[j].run_ticks = ts[k].run_ticks

\* How a tick gets from the list ts it finds, user_main tracked, to the list us
\* it leaves: it wakes, charges the current task c and goes on from index d.
TickMakes(frame, ts, c, us, d) ==
  /\ ensure_main_task_tracked(frame) = View(ts, c)
  /\ GoodList(ts, c) /\ ts[c + 1].id = running
  /\ ChargeCurrent(wake_sleeping_tasks(View(ts, c), tick_count'), frame) = View(us, d)
  /\ GoodList(us, d)
  /\ tasks' = us /\ current_task_idx' = next_ready_after(View(us, d))

\* A tick, with the tracking, waking, clean-up and switch it makes, keeps IInv.
LEMMA TickKeepsIInv ==
  ASSUME IInv, scheduler_tick
  PROVE  /\ IInv' /\ Swept
         /\ tick_count' = (tick_count + 1) % TickModulus /\ deadline' = deadline
         /\ \E frame, ts, c, us, d : TickMakes(frame, ts, c, us, d)
<1>1. PICK frame \in InterruptFrames(running) : schedule_next(frame)
  BY DEF scheduler_tick
<1>2. running \in Pids /\ panicked = FALSE /\ InPlace(saved)
  BY DEF scheduler_tick, IInv, NoPanic, TypeOK, SavedInPlace, InPlace
<1>3. /\ next_task_id = NumKernelTasks + 2 /\ deadline \in Nat
      /\ tick_count \in Nat
  BY <1>2, ConstantsAssumption DEF IInv, BootProgress, KernelMain, Pids, TypeOK
<1> DEFINE now == (tick_count + 1) % TickModulus
           s == [saved EXCEPT ![running] = frame]
<1>4. now \in 0 .. TickModulus - 1
  BY <1>3, ConstantsAssumption
<1>5. tasks # <<>>
  <2>1. 2 \in 2 .. next_task_id - 1
    BY <1>3, ConstantsAssumption
  <2>2. \E i \in DOMAIN tasks : tasks[i].id = 2
    BY <2>1 DEF IInv, WellFormed
  <2> QED BY <2>2
<1>6. PICK ts, c : /\ ensure_main_task_tracked(frame) = View(ts, c)
                   /\ GoodList(ts, c)
                   /\ ts[c + 1].id = running
                   /\ OthersIn(ts, saved)
  BY <1>2, TrackedIsGood
<1> HIDE DEF now
<1>7. PICK ws : /\ wake_sleeping_tasks(View(ts, c), now) = View(ws, c)
                /\ GoodList(ws, c)
                /\ DOMAIN ws = DOMAIN ts
                /\ \A i \in DOMAIN ts :
                     ws[i].id = ts[i].id /\ ws[i].stack_ptr = ts[i].stack_ptr
                /\ \A i \in DOMAIN ts :
                     ws[i].state = "Terminated" <=> ts[i].state = "Terminated"
  BY <1>6, WakeKeepsGood
<1>8. ws[c + 1].id = running /\ OthersIn(ws, saved)
  <2>1. c + 1 \in DOMAIN ts
    BY <1>6 DEF GoodList, WellFormed
  <2> QED BY <2>1, <1>6, <1>7 DEF OthersIn
<1>9. PICK us, d : /\ ChargeCurrent(View(ws, c), frame) = View(us, d)
                   /\ GoodList(us, d)
                   /\ AllIn(us, s)
                   /\ ComeFrom(us, ws)
  BY <1>2, <1>7, <1>8, ChargeIsGood
<1>10. /\ cleanup_terminated_non_current(View(ws, c)) = View(ws, c)
       /\ cleanup_terminated_non_current(View(us, d)) = View(us, d)
  BY <1>7, <1>9, CleanupIsIdentity
<1>11. Push(saved, running, frame) = s /\ InPlace(s)
  BY <1>2, PushKeepsOthers
<1> HIDE DEF s
<1>12. /\ tick_count' = now /\ next_task_id' = next_task_id
       /\ deadline' = deadline
       /\ SwitchToNext(View(us, d), s)
  BY <1>1, <1>5, <1>6, <1>7, <1>9, <1>10, <1>11 DEF schedule_next, now
<1>13. IInv' /\ tasks' = us /\ main_task_tracked' = TRUE
  BY <1>2, <1>3, <1>4, <1>9, <1>11, <1>12, SwitchKeepsIInv, Zenon
<1>14. main_task_tracked => ts = tasks
  BY <1>6 DEF ensure_main_task_tracked, View
<1>15. Swept
  BY <1>7, <1>9, <1>13, <1>14 DEF Swept, AllIn, ComeFrom
<1>16. current_task_idx' = next_ready_after(View(us, d))
  <2>1. ReadyOffsets(View(us, d)) # {}
    BY <1>9, NextIsReady
  <2> QED BY <2>1, <1>12 DEF SwitchToNext
<1>17. TickMakes(frame, ts, c, us, d)
  BY <1>6, <1>7, <1>9, <1>12, <1>13, <1>16 DEF TickMakes
<1> QED BY <1>12, <1>13, <1>15, <1>17 DEF now

\* Removing the faulting user task and switching away from it keeps IInv.
LEMMA FaultKeepsIInv ==
  ASSUME IInv, terminate_current_user_task_from_fault
  PROVE  /\ IInv' /\ Swept
         /\ UNCHANGED <<tick_count, deadline>>
         /\ MainPid \notin Ids'
         /\ main_task_tracked => Len(tasks') = Len(tasks) - 1
         /\ \E ts, c : /\ ensure_main_task_tracked(TssFrame) = View(ts, c)
                       /\ GoodList(ts, c) /\ TicksFrom(tasks', ts)
<1>1. /\ running = MainPid /\ running \in Pids /\ panicked = FALSE
      /\ InPlace(saved) /\ TssFrame \in InterruptFrames(running)
  <2>1. running = MainPid /\ MainPid \in Pids
    BY ConstantsAssumption DEF terminate_current_user_task_from_fault, MainPid, Pids
  <2>2. panicked = FALSE /\ InPlace(saved)
    BY DEF IInv, NoPanic, TypeOK, SavedInPlace, InPlace
  <2> QED BY <2>1, <2>2 DEF InterruptFrames
<1>2. /\ next_task_id = NumKernelTasks + 2 /\ deadline \in Nat
      /\ tick_count \in 0 .. TickModulus - 1
  BY <1>1 DEF IInv, BootProgress, KernelMain, MainPid, TypeOK
<1>3. PICK ts, c : /\ ensure_main_task_tracked(TssFrame) = View(ts, c)
                   /\ GoodList(ts, c)
                   /\ ts[c + 1].id = running
                   /\ OthersIn(ts, saved)
  BY <1>1, TrackedIsGood
<1>4. View(ts, c).ts = ts /\ View(ts, c).c = c /\ Clamp(ts, c) = c
  BY <1>3 DEF View, GoodList, WellFormed, Clamp
<1>5. c + 1 \in DOMAIN ts /\ ts[c + 1].privilege = "User"
  <2>1. c + 1 \in DOMAIN ts
    BY <1>3 DEF GoodList, WellFormed
  <2> QED BY <2>1, <1>1, <1>3 DEF GoodList, WellFormed, PrivilegeOf
<1>6. PICK us, d : /\ RemoveCurrent(View(ts, c)) = View(us, d)
                   /\ GoodList(us, d)
                   /\ Len(us) = Len(ts) - 1
                   /\ \A j \in DOMAIN us :
                        /\ us[j].state # "Terminated"
                        /\ \E k \in DOMAIN ts \ {c + 1} : us[j] = ts[k]
  BY <1>3, <1>5, RemoveCurrentIsGood
<1>7. PICK ws : /\ wake_sleeping_tasks(View(us, d), tick_count) = View(ws, d)
                /\ GoodList(ws, d)
                /\ DOMAIN ws = DOMAIN us
                /\ \A i \in DOMAIN us :
                     ws[i].id = us[i].id /\ ws[i].stack_ptr = us[i].stack_ptr
                /\ \A i \in DOMAIN us :
                     ws[i].state = "Terminated" <=> us[i].state = "Terminated"
                /\ \A i \in DOMAIN us : ws[i].run_ticks = us[i].run_ticks
  BY <1>6, WakeKeepsGood
<1>8. cleanup_terminated_non_current(View(ws, d)) = View(ws, d)
  BY <1>7, CleanupIsIdentity
<1> DEFINE s == [Push(saved, running, TssFrame) EXCEPT ![running] = Nowhere]
<1>9. s = [saved EXCEPT ![running] = Nowhere] /\ InPlace(s)
  <2>1. Push(saved, running, TssFrame) = [saved EXCEPT ![running] = TssFrame]
    BY <1>1, PushKeepsOthers, Zenon
  <2>2. s = [saved EXCEPT ![running] = Nowhere]
    BY <2>1, <1>1, Zenon DEF InPlace
  <2> HIDE DEF s
  <2> QED BY <2>2, <1>1 DEF InPlace
<1>10. AllIn(ws, s)
  <2> HIDE DEF s
  <2> SUFFICES ASSUME NEW j \in DOMAIN us
               PROVE  /\ s[us[j].id] # Nowhere
                      /\ us[j].stack_ptr = s[us[j].id]
    BY <1>6, <1>7 DEF AllIn
  <2>1. PICK k \in DOMAIN ts \ {c + 1} : us[j] = ts[k]
    BY <1>6
  <2>2. ts[k].id # running
    BY <1>3, <1>5 DEF GoodList, WellFormed
  <2>3. ts[k].id \in Pids
    <3>1. ts[k] \in Tasks
      BY <1>3 DEF GoodList, WellFormed
    <3> QED BY <3>1 DEF Tasks
  <2>4. s[ts[k].id] = saved[ts[k].id]
    BY <1>1, <1>9, <2>2, <2>3 DEF InPlace
  <2> QED BY <1>3, <2>1, <2>2, <2>4 DEF OthersIn
<1> HIDE DEF s
<1>11. /\ tick_count' = tick_count /\ next_task_id' = next_task_id
       /\ deadline' = deadline
       /\ SwitchToNext(View(ws, d), s)
  BY <1>3, <1>4, <1>5, <1>6, <1>7, <1>8
     DEF terminate_current_user_task_from_fault, s
<1>12. IInv' /\ tasks' = ws /\ main_task_tracked' = TRUE
  BY <1>1, <1>2, <1>7, <1>9, <1>10, <1>11, SwitchKeepsIInv, Zenon
<1>13. main_task_tracked => ts = tasks
  BY <1>3 DEF ensure_main_task_tracked, View
<1>14. Swept
  BY <1>6, <1>7, <1>12, <1>13 DEF Swept, ComeFrom
<1>15. MainPid \notin Ids'
  <2>1. \A k \in DOMAIN ts \ {c + 1} : ts[k].id # MainPid
    BY <1>1, <1>3, <1>5 DEF GoodList, WellFormed
  <2>2. \A j \in DOMAIN us : us[j].id # MainPid
    BY <1>6, <2>1
  <2> QED BY <1>7, <1>12, <2>2 DEF Ids
<1>16. Len(ws) = Len(ts) - 1
  <2>1. Len(ws) = Len(us)
    <3>1. /\ Len(us) \in Nat /\ DOMAIN us = 1 .. Len(us) /\ Len(us) # 0
          /\ Len(ws) \in Nat /\ DOMAIN ws = 1 .. Len(ws) /\ Len(ws) # 0
      BY <1>6, <1>7 DEF GoodList, WellFormed
    <3> DEFINE m == Len(us)
               n == Len(ws)
    <3>2. m \in Nat /\ n \in Nat /\ m \in 1 .. n /\ n \in 1 .. m
      BY <1>7, <3>1
    <3>3. m = n
      <4> HIDE DEF m, n
      <4> QED BY <3>2
    <3> QED BY <3>3
  <2> QED BY <2>1, <1>6
<1>17. TicksFrom(tasks', ts)
  BY <1>6, <1>7, <1>12 DEF TicksFrom
<1> QED BY <1>3, <1>11, <1>12, <1>13, <1>14, <1>15, <1>16, <1>17

\* Registering a thread and entering ring 3 keep IInv.
LEMMA BootKeepsIInv ==
  ASSUME IInv, register_named_task \/ switch_to_user_mode
  PROVE  IInv'
<1>1. CASE register_named_task
  <2> DEFINE n == next_task_id
             t == new_task(n)
  <2>1. /\ running = KernelMain /\ ~main_task_tracked
        /\ n \in 2 .. NumKernelTasks + 1 /\ n \in Pids /\ n # MainPid
        /\ tasks \in Seq(Tasks) /\ DOMAIN tasks = 1 .. Len(tasks)
        /\ Len(tasks) \in Nat
    BY <1>1, ConstantsAssumption
       DEF register_named_task, IInv, BootProgress, TypeOK, Pids, MainPid
  <2>2. /\ t \in Tasks /\ t.id = n /\ t.privilege = "Kernel"
        /\ t.state = "Ready" /\ t.stack_ptr = <<n, 0>> /\ <<n, 0>> \in Frames
    BY <2>1, ConstantsAssumption DEF new_task, Task, Tasks, Frames
  <2>3. /\ tasks' = Append(tasks, t) /\ next_task_id' = n + 1
        /\ saved' = [saved EXCEPT ![n] = <<n, 0>>]
        /\ UNCHANGED <<current_task_idx, tick_count, main_task_tracked,
                       panicked, running, deadline>>
    BY <1>1 DEF register_named_task
  <2> HIDE DEF t, n
  <2>4. /\ tasks' \in Seq(Tasks) /\ Len(tasks') = Len(tasks) + 1
        /\ DOMAIN tasks' = 1 .. Len(tasks) + 1
        /\ tasks'[Len(tasks) + 1] = t
        /\ \A i \in DOMAIN tasks : tasks'[i] = tasks[i]
    BY <2>1, <2>2, <2>3
  <2>5. \A i \in DOMAIN tasks' : i = Len(tasks) + 1 \/ i \in DOMAIN tasks
    BY <2>1, <2>4
  <2>6. /\ saved' \in [Pids -> Frames \cup {Nowhere}] /\ saved'[n] = <<n, 0>>
        /\ \A p \in Pids \ {n} : saved'[p] = saved[p]
    BY <2>1, <2>2, <2>3 DEF IInv, TypeOK
  <2>7. \A i \in DOMAIN tasks : tasks[i].id \in Pids /\ tasks[i].id < n
    <3> TAKE i \in DOMAIN tasks
    <3>1. tasks[i] \in Tasks
      BY <2>1
    <3>2. tasks[i].id \in Pids
      BY <3>1 DEF Tasks
    <3>3. tasks[i].id <= n - 1
      BY DEF IInv, WellFormed, n
    <3> QED BY <3>2, <3>3, <2>1 DEF Pids
  <2>8. TypeOK'
    <3>1. \A i, j \in DOMAIN tasks' : tasks'[i].id = tasks'[j].id => i = j
      BY <2>1, <2>2, <2>4, <2>5, <2>7 DEF IInv, TypeOK, Pids
    <3>2. current_task_idx' \in 0 .. IF tasks' = <<>> THEN 0 ELSE Len(tasks') - 1
      BY <2>1, <2>3, <2>4 DEF IInv, BootProgress
    <3>3. next_task_id' \in 2 .. NumKernelTasks + 2
      BY <2>1, <2>3, ConstantsAssumption
    <3> QED BY <2>3, <2>4, <2>6, <3>1, <3>2, <3>3 DEF IInv, TypeOK
  <2>9. NoPanic' /\ RunningIsCurrent'
    BY <2>1, <2>3 DEF IInv, NoPanic, RunningIsCurrent
  <2>10. ContextsIntact'
    <3> SUFFICES ASSUME NEW i \in DOMAIN tasks'
                 PROVE  /\ saved'[tasks'[i].id] # Nowhere
                        /\ tasks'[i].stack_ptr = saved'[tasks'[i].id]
      BY DEF ContextsIntact
    <3>1. CASE i = Len(tasks) + 1
      <4>1. n # 0
        BY <2>1
      <4> QED BY <3>1, <4>1, <2>2, <2>4, <2>6 DEF Nowhere
    <3>2. CASE i \in DOMAIN tasks
      <4>1. tasks[i].id # running /\ tasks[i].id \in Pids \ {n}
        BY <3>2, <2>1, <2>7 DEF KernelMain, Pids
      <4> QED BY <3>2, <4>1, <2>4, <2>6 DEF IInv, ContextsIntact
    <3> QED BY <3>1, <3>2, <2>5
  <2>11. WellFormed(tasks, next_task_id - 1)'
    <3>1. next_task_id' - 1 = n
      BY <2>1, <2>3
    <3>2. \A i \in DOMAIN tasks' :
            /\ tasks'[i].id <= n
            /\ tasks'[i].privilege = PrivilegeOf(tasks'[i].id)
            /\ tasks'[i].privilege = "Kernel" => tasks'[i].state = "Ready"
      BY <2>1, <2>2, <2>4, <2>5, <2>7 DEF IInv, WellFormed, PrivilegeOf, Pids
    <3>3. \A p \in 2 .. n : \E i \in DOMAIN tasks' : tasks'[i].id = p
      <4> TAKE p \in 2 .. n
      <4>1. CASE p = n
        <5>1. Len(tasks) + 1 \in DOMAIN tasks'
          BY <2>1, <2>4
        <5> QED BY <5>1, <4>1, <2>2, <2>4
      <4>2. CASE p # n
        <5>1. p \in 2 .. n - 1
          BY <4>2, <2>1
        <5>2. PICK i \in DOMAIN tasks : tasks[i].id = p
          BY <5>1 DEF IInv, WellFormed, n
        <5>3. i \in DOMAIN tasks'
          BY <2>1, <2>4
        <5> QED BY <5>2, <5>3, <2>4
      <4> QED BY <4>1, <4>2
    <3> QED BY <2>4, <2>8, <3>1, <3>2, <3>3, Zenon DEF WellFormed, TypeOK, PrivilegeOf
  <2>12. BootProgress'
    <3>1. MainPid \notin Ids'
      BY <2>1, <2>2, <2>4, <2>5 DEF IInv, BootProgress, Ids
    <3> QED BY <2>1, <2>3, <3>1 DEF IInv, BootProgress
  <2>13. MarkedIsCurrent'
    BY <2>1, <2>2, <2>3, <2>4, <2>5 DEF IInv, MarkedIsCurrent
  <2>14. SavedInPlace'
    <3>1. <<n, 0>> \in InterruptFrames(n)
      BY <2>1, ConstantsAssumption DEF InterruptFrames
    <3>2. \A p \in Pids : saved'[p] \in InterruptFrames(p) \cup {Nowhere}
      BY <2>6, <3>1 DEF IInv, SavedInPlace
    <3> QED BY <3>2 DEF SavedInPlace
  <2> QED BY <2>8, <2>9, <2>10, <2>11, <2>12, <2>13, <2>14 DEF IInv
<1>2. CASE switch_to_user_mode
  <2>1. /\ running = KernelMain /\ running' = MainPid /\ MainPid \in Pids
        /\ next_task_id = NumKernelTasks + 2 /\ ~main_task_tracked
        /\ UNCHANGED <<tasks, current_task_idx, next_task_id, tick_count,
                       main_task_tracked, panicked, saved, deadline>>
    BY <1>2, ConstantsAssumption
       DEF switch_to_user_mode, manager, IInv, BootProgress, MainPid, Pids
  <2>2. TypeOK'
    BY <2>1 DEF IInv, TypeOK
  <2>3. NoPanic' /\ RunningIsCurrent'
    BY <2>1 DEF IInv, NoPanic, RunningIsCurrent
  <2>4. ContextsIntact'
    <3>1. \A i \in DOMAIN tasks : tasks[i].id # running
      <4>1. \A i \in DOMAIN tasks : tasks[i] \in Tasks
        BY DEF IInv, TypeOK
      <4> QED BY <4>1, <2>1 DEF Tasks, Pids, KernelMain
    <3> QED BY <2>1, <3>1 DEF IInv, ContextsIntact
  <2>5. WellFormed(tasks, next_task_id - 1)'
    BY <2>1 DEF IInv, WellFormed, PrivilegeOf
  <2>6. BootProgress' /\ MarkedIsCurrent' /\ SavedInPlace'
    BY <2>1 DEF IInv, BootProgress, MarkedIsCurrent, SavedInPlace, Ids,
                KernelMain, MainPid
  <2> QED BY <2>2, <2>3, <2>4, <2>5, <2>6 DEF IInv
<1> QED BY <1>1, <1>2

\* An update of the current entry that keeps its pid and privilege: sleeping
\* and marking.  Only a ring 3 task is ever updated so.
LEMMA UpdateCurrentKeepsIInv ==
  ASSUME IInv, running \in Pids,
         NEW ts, NEW c, GoodList(ts, c), ts[c + 1].id = running,
         ts[c + 1].privilege = "User", OthersIn(ts, saved),
         NEW u \in Tasks, u.id = ts[c + 1].id, u.privilege = "User",
         tasks' = [ts EXCEPT ![c + 1] = u], current_task_idx' = c,
         main_task_tracked' = TRUE, InPlace(saved'),
         \A p \in Pids \ {running} : saved'[p] = saved[p], deadline' \in Nat,
         UNCHANGED <<next_task_id, tick_count, panicked, running>>
  PROVE  IInv'
<1>1. /\ ts \in Seq(Tasks) /\ Len(ts) \in Nat /\ DOMAIN ts = 1 .. Len(ts)
      /\ c \in 0 .. Len(ts) - 1 /\ c + 1 \in DOMAIN ts
  BY DEF GoodList, WellFormed
<1>2. /\ tasks' \in Seq(Tasks) /\ Len(tasks') = Len(ts)
      /\ DOMAIN tasks' = DOMAIN ts
      /\ tasks'[c + 1] = u
      /\ \A i \in DOMAIN ts \ {c + 1} : tasks'[i] = ts[i]
  BY <1>1
<1>3. \A i \in DOMAIN ts :
        tasks'[i].id = ts[i].id /\ tasks'[i].privilege = ts[i].privilege
  BY <1>2
<1>4. /\ next_task_id' = NumKernelTasks + 2
      /\ next_task_id' - 1 = NumKernelTasks + 1
      /\ running' # KernelMain
  BY ConstantsAssumption DEF IInv, BootProgress, KernelMain, Pids
<1>5. TypeOK'
  <2>1. current_task_idx' \in 0 .. IF tasks' = <<>> THEN 0 ELSE Len(tasks') - 1
    BY <1>1, <1>2
  <2>2. \A i, j \in DOMAIN tasks' : tasks'[i].id = tasks'[j].id => i = j
    BY <1>2, <1>3 DEF GoodList, WellFormed
  <2>3. main_task_tracked' \in BOOLEAN
    OBVIOUS
  <2> QED BY <1>2, <2>1, <2>2, <2>3 DEF IInv, TypeOK, InPlace
<1>6. NoPanic' /\ RunningIsCurrent'
  BY <1>2 DEF IInv, NoPanic, RunningIsCurrent
<1>7. ContextsIntact'
  <2> SUFFICES ASSUME NEW i \in DOMAIN ts, ts[i].id # running
               PROVE  /\ saved'[ts[i].id] # Nowhere
                      /\ tasks'[i].stack_ptr = saved'[ts[i].id]
    BY <1>2, <1>3 DEF ContextsIntact
  <2>1. tasks'[i] = ts[i]
    BY <1>2
  <2>2. ts[i].id \in Pids \ {running}
    <3>1. ts[i] \in Tasks
      BY <1>1
    <3> QED BY <3>1 DEF Tasks
  <2> QED BY <2>1, <2>2 DEF OthersIn
<1>8. WellFormed(tasks, next_task_id - 1)'
  <2>1. \A i \in DOMAIN tasks' :
          tasks'[i].privilege = "Kernel" => tasks'[i].state = "Ready"
    BY <1>2 DEF GoodList, WellFormed
  <2>2. \A i \in DOMAIN tasks' :
          /\ tasks'[i].id <= NumKernelTasks + 1
          /\ tasks'[i].privilege = PrivilegeOf(tasks'[i].id)
    BY <1>2, <1>3 DEF GoodList, WellFormed
  <2>3. \A p \in 2 .. NumKernelTasks + 1 :
          \E i \in DOMAIN tasks' : tasks'[i].id = p
    BY <1>2, <1>3 DEF GoodList, WellFormed
  <2> QED
    BY <1>2, <1>4, <1>5, <2>1, <2>2, <2>3 DEF WellFormed, TypeOK, PrivilegeOf
<1>9. BootProgress' /\ SavedInPlace'
  BY <1>4 DEF BootProgress, SavedInPlace, InPlace
<1>10. MarkedIsCurrent'
  BY <1>2 DEF MarkedIsCurrent, GoodList
<1> QED BY <1>5, <1>6, <1>7, <1>8, <1>9, <1>10 DEF IInv

\* A sleep call, accepted or refused, keeps IInv.
LEMMA SleepKeepsIInv ==
  ASSUME IInv, NEW ticks \in SleepArgs, sleep_current_task(ticks)
  PROVE  IInv'
<1>1. /\ running = MainPid /\ running \in Pids
      /\ TssFrame \in InterruptFrames(running) /\ TssFrame \in Frames
  BY ConstantsAssumption
     DEF sleep_current_task, InterruptFrames, MainPid, Pids, TssFrame, Frames
<1>2. InPlace(saved)
  BY DEF IInv, TypeOK, SavedInPlace, InPlace
<1>3. PICK ts, c : /\ ensure_main_task_tracked(TssFrame) = View(ts, c)
                   /\ GoodList(ts, c)
                   /\ ts[c + 1].id = running
                   /\ OthersIn(ts, saved)
  BY <1>1, TrackedIsGood
<1>4. View(ts, c).ts = ts /\ View(ts, c).c = c
  BY DEF View
<1>5. /\ ts \in Seq(Tasks) /\ Len(ts) \in Nat /\ DOMAIN ts = 1 .. Len(ts)
      /\ c \in 0 .. Len(ts) - 1 /\ c + 1 \in DOMAIN ts /\ ts[c + 1] \in Tasks
  BY <1>3 DEF GoodList, WellFormed
<1>6. ts[c + 1].privilege = "User"
  BY <1>1, <1>3, <1>5 DEF GoodList, WellFormed, PrivilegeOf
<1> DEFINE n == IF ticks > 1 THEN ticks ELSE 1
           w == (tick_count + n) % TickModulus
<1>7. n \in Nat /\ tick_count \in Nat /\ deadline \in Nat
  BY ConstantsAssumption DEF IInv, TypeOK
<1>8. w \in Nat /\ tick_count + n \in Nat
  <2> HIDE DEF n
  <2> QED BY <1>7, ConstantsAssumption
<1>9. InPlace(saved') /\ \A p \in Pids \ {running} : saved'[p] = saved[p]
  <2>1. Push(saved, running, TssFrame) = [saved EXCEPT ![running] = TssFrame]
    BY <1>1, <1>2, PushKeepsOthers, Zenon
  <2>2. saved' = [Push(saved, running, TssFrame) EXCEPT ![running] = Nowhere]
    BY DEF sleep_current_task
  <2>3. saved' = [saved EXCEPT ![running] = Nowhere]
    BY <2>1, <2>2, <1>1, <1>2, Zenon DEF InPlace
  <2> QED BY <2>3, <1>1, <1>2 DEF InPlace
<1> HIDE DEF w, n
<1>10. /\ main_task_tracked' = TRUE /\ current_task_idx' = c
       /\ UNCHANGED <<next_task_id, tick_count, panicked, running>>
       /\ IF Refused(View(ts, c)) THEN tasks' = ts /\ deadline' = deadline
          ELSE /\ tasks' = [ts EXCEPT ![c + 1].stack_ptr = TssFrame,
                                      ![c + 1].state = "Sleeping",
                                      ![c + 1].wake_at = w]
               /\ deadline' = tick_count + n
  BY <1>3, <1>4 DEF sleep_current_task, w, n
<1>11. CASE Refused(View(ts, c))
  <2>1. tasks' = [ts EXCEPT ![c + 1] = ts[c + 1]] /\ deadline' \in Nat
    BY <1>5, <1>7, <1>10, <1>11
  <2> QED
    BY <1>1, <1>3, <1>5, <1>6, <1>9, <1>10, <2>1, UpdateCurrentKeepsIInv, Zenon
<1>12. CASE ~Refused(View(ts, c))
  <2> DEFINE t == ts[c + 1]
             u == [t EXCEPT !.stack_ptr = TssFrame, !.state = "Sleeping",
                            !.wake_at = w]
  <2>1. tasks' = [ts EXCEPT ![c + 1] = u] /\ deadline' \in Nat
    <3>1. [ts EXCEPT ![c + 1].stack_ptr = TssFrame,
                     ![c + 1].state = "Sleeping",
                     ![c + 1].wake_at = w] = [ts EXCEPT ![c + 1] = u]
      BY <1>5, Zenon DEF Tasks
    <3> QED BY <3>1, <1>8, <1>10, <1>12
  <2>2. t \in Tasks
    BY <1>5
  <2>3. u \in Tasks /\ u.id = ts[c + 1].id /\ u.privilege = ts[c + 1].privilege
    <3>1. u = [t EXCEPT !.stack_ptr = TssFrame, !.state = "Sleeping",
                        !.wake_at = w]
      OBVIOUS
    <3> HIDE DEF t, u
    <3>2. u \in Tasks
      BY <2>2, <3>1, <1>1, <1>8, Zenon DEF Tasks
    <3>3. u.id = t.id /\ u.privilege = t.privilege
      BY <2>2, <3>1 DEF Tasks
    <3> QED BY <3>2, <3>3 DEF t
  <2> HIDE DEF t, u
  <2> QED
    BY <1>1, <1>3, <1>6, <1>9, <1>10, <2>1, <2>3, UpdateCurrentKeepsIInv, Zenon
<1> QED BY <1>11, <1>12

\* kill of the current task or of another one keeps IInv.
LEMMA KillKeepsIInv ==
  ASSUME IInv, NEW pid \in Pids, kill_task(pid)
  PROVE  IInv'
<1> DEFINE c == current_task_idx
<1>1. /\ running \in Pids /\ running # KernelMain
      /\ UNCHANGED <<next_task_id, tick_count, main_task_tracked, panicked,
                     running, saved, deadline>>
  BY DEF kill_task, Pids, KernelMain
<1>2. /\ TypeOK /\ InPlace(saved) /\ WellFormed(tasks, NumKernelTasks + 1)
      /\ next_task_id = NumKernelTasks + 2
  <2>1. next_task_id = NumKernelTasks + 2
    BY <1>1 DEF IInv, BootProgress
  <2>2. next_task_id - 1 = NumKernelTasks + 1
    BY <2>1, ConstantsAssumption
  <2> QED BY <2>1, <2>2 DEF IInv, TypeOK, SavedInPlace, InPlace
<1>3. PICK i \in DOMAIN tasks : tasks[i].privilege = "User"
  BY DEF kill_task, kill_current, kill_other, Killable, Position
<1>4. main_task_tracked = TRUE
  <2>1. tasks[i].id = MainPid
    BY <1>2, <1>3 DEF WellFormed, PrivilegeOf
  <2>2. MainPid \in Ids
    BY <2>1, <1>3 DEF Ids
  <2> QED BY <2>2, <1>2 DEF IInv, BootProgress, TypeOK
<1>5. /\ tasks \in Seq(Tasks) /\ Len(tasks) \in Nat
      /\ DOMAIN tasks = 1 .. Len(tasks)
      /\ c \in 0 .. Len(tasks) - 1 /\ c + 1 \in DOMAIN tasks
  <2>1. tasks \in Seq(Tasks) /\ tasks # <<>>
    BY <1>2, <1>3 DEF TypeOK
  <2> QED BY <1>2, <2>1 DEF TypeOK
<1>6. GoodList(tasks, c) /\ tasks[c + 1].id = running /\ OthersIn(tasks, saved)
  BY <1>2, <1>4, <1>5
     DEF GoodList, OthersIn, IInv, MarkedIsCurrent, RunningIsCurrent,
         ContextsIntact
<1>7. CASE kill_current(pid)
  <2> DEFINE t == tasks[c + 1]
             u == [t EXCEPT !.state = "Terminated", !.wake_at = 0]
  <2>1. t \in Tasks /\ t.privilege = "User"
    BY <1>5, <1>7 DEF kill_current, Killable
  <2>2. tasks' = [tasks EXCEPT ![c + 1] = u] /\ current_task_idx' = c
    <3>1. [tasks EXCEPT ![c + 1].state = "Terminated", ![c + 1].wake_at = 0]
            = [tasks EXCEPT ![c + 1] = u]
      BY <1>5, Zenon DEF Tasks
    <3> QED BY <3>1, <1>7 DEF kill_current
  <2>3. u \in Tasks /\ u.id = t.id /\ u.privilege = t.privilege
    <3>1. u = [t EXCEPT !.state = "Terminated", !.wake_at = 0]
      OBVIOUS
    <3> HIDE DEF t, u
    <3>2. u \in Tasks
      BY <2>1, <3>1, Zenon DEF Tasks
    <3>3. u.id = t.id /\ u.privilege = t.privilege
      BY <2>1, <3>1 DEF Tasks
    <3> QED BY <3>2, <3>3
  <2> HIDE DEF u
  <2>4. InPlace(saved') /\ deadline' \in Nat /\ main_task_tracked' = TRUE
    BY <1>1, <1>2, <1>4 DEF TypeOK
  <2> QED
    BY <1>1, <1>6, <2>1, <2>2, <2>3, <2>4, UpdateCurrentKeepsIInv, Zenon
<1>8. CASE kill_other(pid)
  <2>1. PICK k \in DOMAIN tasks \ {c + 1} :
          /\ tasks[k].privilege = "User"
          /\ tasks' = remove(tasks, k)
          /\ current_task_idx' = Clamp(tasks', IdxAfterRemoval(k))
    BY <1>8 DEF kill_other, Killable
  <2>2. /\ WellFormed(tasks', NumKernelTasks + 1)
        /\ Len(tasks') = Len(tasks) - 1 /\ tasks' # <<>>
        /\ \A j \in DOMAIN tasks' :
             tasks'[j] = tasks[IF j < k THEN j ELSE j + 1]
    BY <1>2, <2>1, RemoveKeepsWellFormed
  <2>3. tasks' \in Seq(Tasks) /\ DOMAIN tasks' = 1 .. Len(tasks) - 1
    BY <1>5, <2>2 DEF WellFormed
  <2> DEFINE d == IF k <= c THEN c - 1 ELSE c
  <2>4. /\ current_task_idx' = d /\ d \in 0 .. Len(tasks) - 2
        /\ d + 1 \in DOMAIN tasks'
        /\ (IF d + 1 < k THEN d + 1 ELSE d + 2) = c + 1
    BY <1>5, <2>1, <2>2, <2>3 DEF Clamp, IdxAfterRemoval
  <2>5. \A j \in DOMAIN tasks' : j = d + 1 \/
          (IF j < k THEN j ELSE j + 1) \in DOMAIN tasks \ {c + 1}
    <3>1. /\ c \in Int /\ k \in Int /\ k # c + 1
          /\ Len(tasks) \in Int /\ DOMAIN tasks' = 1 .. Len(tasks) - 1
          /\ DOMAIN tasks = 1 .. Len(tasks)
      BY <1>5, <2>1, <2>3
    <3> SUFFICES ASSUME NEW j \in 1 .. Len(tasks) - 1, j # d + 1
                 PROVE  (IF j < k THEN j ELSE j + 1) \in 1 .. Len(tasks) \ {c + 1}
      BY <3>1
    <3> QED BY <3>1
  <2> HIDE DEF d
  <2>6. tasks'[d + 1] = tasks[c + 1]
    <3>1. tasks'[d + 1] = tasks[IF d + 1 < k THEN d + 1 ELSE d + 1 + 1]
      BY <2>2, <2>4
    <3>2. d + 1 + 1 = d + 2
      BY <2>4, <1>5
    <3> QED BY <3>1, <3>2, <2>4
  <2>7. TypeOK'
    <3>1. current_task_idx' \in 0 .. IF tasks' = <<>> THEN 0 ELSE Len(tasks') - 1
      BY <1>5, <2>2, <2>4
    <3> QED BY <1>1, <1>2, <2>2, <2>3, <3>1 DEF TypeOK, WellFormed
  <2>8. NoPanic' /\ RunningIsCurrent'
    BY <1>1, <1>6, <2>4, <2>6 DEF IInv, NoPanic, RunningIsCurrent
  <2>9. ContextsIntact'
    <3> SUFFICES ASSUME NEW j \in DOMAIN tasks', tasks'[j].id # running
                 PROVE  /\ saved[tasks'[j].id] # Nowhere
                        /\ tasks'[j].stack_ptr = saved[tasks'[j].id]
      BY <1>1 DEF ContextsIntact
    <3>1. \E l \in DOMAIN tasks : tasks'[j] = tasks[l]
      BY <2>2, <2>4, <2>5, <2>6, <1>5
    <3> QED BY <3>1, <1>6 DEF OthersIn
  <2>10. WellFormed(tasks, next_task_id - 1)'
    <3>1. next_task_id' - 1 = NumKernelTasks + 1
      BY <1>1, <1>2, ConstantsAssumption
    <3> QED BY <2>2, <3>1 DEF WellFormed, PrivilegeOf
  <2>11. BootProgress' /\ SavedInPlace'
    BY <1>1, <1>2, <1>4 DEF BootProgress, SavedInPlace, InPlace
  <2>12. MarkedIsCurrent'
    <3> SUFFICES ASSUME NEW j \in DOMAIN tasks', tasks'[j].state = "Terminated"
                 PROVE  j = d + 1
      BY <1>1, <1>4, <2>4 DEF MarkedIsCurrent
    <3>1. CASE (IF j < k THEN j ELSE j + 1) \in DOMAIN tasks \ {c + 1}
      BY <3>1, <2>2, <1>6 DEF GoodList
    <3> QED BY <3>1, <2>5
  <2> QED
    BY <2>7, <2>8, <2>9, <2>10, <2>11, <2>12 DEF IInv
<1> QED BY <1>7, <1>8 DEF kill_task

----------------------------------------------------------------------------
(***************************************************************************)
(* The theorems.                                                           *)
(***************************************************************************)
\* The boot state satisfies the inductive invariant.
LEMMA InitIInv == Init => IInv
<1> SUFFICES ASSUME Init PROVE IInv
  OBVIOUS
<1> USE DEF Init
<1>1. DOMAIN tasks = {} /\ tasks \in Seq(Tasks) /\ Len(tasks) = 0
  OBVIOUS
<1>2. TypeOK
  <2>1. /\ next_task_id \in 2 .. NumKernelTasks + 2
        /\ tick_count \in 0 .. TickModulus - 1
        /\ current_task_idx \in 0 .. IF tasks = <<>> THEN 0 ELSE Len(tasks) - 1
    BY ConstantsAssumption
  <2>2. saved \in [Pids -> Frames \cup {Nowhere}]
    OBVIOUS
  <2>3. /\ main_task_tracked \in BOOLEAN /\ panicked \in BOOLEAN
        /\ running \in Pids \cup {KernelMain} /\ deadline \in Nat
    BY Zenon
  <2>4. \A i, j \in DOMAIN tasks : tasks[i].id = tasks[j].id => i = j
    BY <1>1
  <2> QED BY <1>1, <2>1, <2>2, <2>3, <2>4 DEF TypeOK
<1>3. NoPanic /\ RunningIsCurrent /\ ContextsIntact
  BY <1>1 DEF NoPanic, RunningIsCurrent, ContextsIntact
<1>4. WellFormed(tasks, next_task_id - 1)
  BY <1>1 DEF WellFormed
<1>5. BootProgress /\ MarkedIsCurrent /\ SavedInPlace
  BY <1>1 DEF BootProgress, MarkedIsCurrent, SavedInPlace, Ids
<1> QED BY <1>2, <1>3, <1>4, <1>5 DEF IInv

\* Every step of the scheduler and of its callers keeps it.
LEMMA NextKeepsIInv == IInv /\ [Next]_vars => IInv'
<1> SUFFICES ASSUME IInv, [Next]_vars PROVE IInv'
  OBVIOUS
<1>1. CASE register_named_task \/ switch_to_user_mode
  BY <1>1, BootKeepsIInv
<1>2. CASE scheduler_tick
  BY <1>2, TickKeepsIInv
<1>3. CASE \E ticks \in SleepArgs : sleep_current_task(ticks)
  BY <1>3, SleepKeepsIInv
<1>4. CASE \E pid \in Pids : kill_task(pid)
  BY <1>4, KillKeepsIInv
<1>5. CASE terminate_current_user_task_from_fault
  BY <1>5, FaultKeepsIInv
<1>6. CASE UNCHANGED vars
  <2> USE <1>6 DEF vars, manager
  <2>1. TypeOK' /\ NoPanic'
    BY DEF IInv, TypeOK, NoPanic
  <2>2. RunningIsCurrent' /\ ContextsIntact'
    BY DEF IInv, RunningIsCurrent, ContextsIntact
  <2>3. WellFormed(tasks, next_task_id - 1)'
    BY DEF IInv, WellFormed, PrivilegeOf
  <2>4. BootProgress' /\ MarkedIsCurrent' /\ SavedInPlace'
    BY DEF IInv, BootProgress, Ids, MarkedIsCurrent, SavedInPlace
  <2> QED BY <2>1, <2>2, <2>3, <2>4 DEF IInv
<1> QED BY <1>1, <1>2, <1>3, <1>4, <1>5, <1>6 DEF Next

\* The inductive invariant holds in every state the scheduler reaches.
THEOREM Inductive == Spec => []IInv
BY InitIInv, NextKeepsIInv, PTL DEF Spec

\* current_task_idx never leaves the task list and pids are never duplicated.
THEOREM TypeCorrect == Spec => []TypeOK
<1>1. IInv => TypeOK
  BY DEF IInv
<1> QED BY <1>1, Inductive, PTL

\* No panic! of the manager is reachable: there is always a runnable task, and
\* the fault path always finds a ring 3 task current.
THEOREM NeverPanics == Spec => []NoPanic
<1>1. IInv => NoPanic
  BY DEF IInv
<1> QED BY <1>1, Inductive, PTL

\* The entry the methods take for the current task is the executing one.
THEOREM ManagerKnowsWhoRuns == Spec => []RunningIsCurrent
<1>1. IInv => RunningIsCurrent
  BY DEF IInv
<1> QED BY <1>1, Inductive, PTL

\* No context switch loses, shares or revives a stale context.
THEOREM SwitchesAreSafe == Spec => []ContextsIntact
<1>1. IInv => ContextsIntact
  BY DEF IInv
<1> QED BY <1>1, Inductive, PTL

----------------------------------------------------------------------------
(***************************************************************************)
(* Tasks that go away.                                                     *)
(***************************************************************************)
\* A sleep call keeps the list it finds, pid by pid; it changes nothing when
\* the caller is marked, and marks nobody.
LEMMA SleepOutcome ==
  ASSUME IInv, NEW ticks \in SleepArgs, sleep_current_task(ticks)
  PROVE  /\ main_task_tracked' = TRUE
         /\ main_task_tracked =>
              /\ DOMAIN tasks' = DOMAIN tasks
              /\ \A i \in DOMAIN tasks : tasks'[i].id = tasks[i].id
         /\ \/ main_task_tracked /\ tasks' = tasks
            \/ \A i \in DOMAIN tasks' : tasks'[i].state # "Terminated"
         /\ (\E i \in DOMAIN tasks : tasks[i].state = "Terminated") => tasks' = tasks
<1>1. /\ running \in Pids /\ TssFrame \in InterruptFrames(running)
      /\ running = MainPid
  BY ConstantsAssumption DEF sleep_current_task, InterruptFrames, MainPid, Pids
<1>2. PICK ts, c : /\ ensure_main_task_tracked(TssFrame) = View(ts, c)
                   /\ GoodList(ts, c)
                   /\ ts[c + 1].id = running
                   /\ OthersIn(ts, saved)
  BY <1>1, TrackedIsGood
<1>3. /\ View(ts, c).ts = ts /\ View(ts, c).c = c
      /\ main_task_tracked => ts = tasks
      /\ ~main_task_tracked => ts = <<placeholder_main(TssFrame)>> \o tasks /\ c = 0
  BY <1>2 DEF View, ensure_main_task_tracked
<1>4. /\ ts \in Seq(Tasks) /\ Len(ts) \in Nat /\ DOMAIN ts = 1 .. Len(ts)
      /\ c \in 0 .. Len(ts) - 1 /\ c + 1 \in DOMAIN ts /\ ts[c + 1] \in Tasks
      /\ ts[c + 1].privilege = "User"
  BY <1>1, <1>2 DEF GoodList, WellFormed, PrivilegeOf
<1>5. ~main_task_tracked => ts[c + 1].state # "Terminated"
  <2> SUFFICES ASSUME ~main_task_tracked PROVE ts[1].state # "Terminated"
    BY <1>3
  <2>1. tasks \in Seq(Tasks)
    BY DEF IInv, TypeOK
  <2>2. ts[1] = placeholder_main(TssFrame)
    BY <1>3, <2>1
  <2> QED BY <2>2 DEF placeholder_main, Task
<1>6. /\ main_task_tracked' = TRUE
      /\ Refused(View(ts, c)) => tasks' = ts
      /\ ~Refused(View(ts, c)) => \E w :
           tasks' = [ts EXCEPT ![c + 1].stack_ptr = TssFrame,
                               ![c + 1].state = "Sleeping",
                               ![c + 1].wake_at = w]
  BY <1>2, <1>3 DEF sleep_current_task
<1>7. CASE ts[c + 1].state = "Terminated"
  <2>1. tasks' = ts /\ main_task_tracked
    BY <1>3, <1>5, <1>6, <1>7 DEF Refused
  <2> QED BY <2>1, <1>3, <1>6
<1>8. CASE ts[c + 1].state # "Terminated"
  <2>1. ~Refused(View(ts, c))
    <3>1. View(ts, c).ts = ts /\ View(ts, c).c = c
      BY <1>3
    <3>2. ~(c >= Len(ts))
      BY <1>4
    <3> QED BY <3>1, <3>2, <1>4, <1>8, Zenon DEF Refused
  <2>2. PICK w : tasks' = [ts EXCEPT ![c + 1].stack_ptr = TssFrame,
                                     ![c + 1].state = "Sleeping",
                                     ![c + 1].wake_at = w]
    BY <2>1, <1>6
  <2> DEFINE u == [ts[c + 1] EXCEPT !.stack_ptr = TssFrame, !.state = "Sleeping",
                                    !.wake_at = w]
  <2>3. tasks' = [ts EXCEPT ![c + 1] = u]
    BY <2>2, <1>4, Zenon DEF Tasks
  <2>4. u.id = ts[c + 1].id /\ u.state = "Sleeping"
    BY <1>4 DEF Tasks
  <2> HIDE DEF u
  <2>5. /\ DOMAIN tasks' = DOMAIN ts /\ tasks'[c + 1] = u
        /\ \A i \in DOMAIN ts \ {c + 1} : tasks'[i] = ts[i]
    BY <2>3, <1>4
  <2>6. \A i \in DOMAIN ts : ts[i].state # "Terminated"
    BY <1>2, <1>8 DEF GoodList
  <2>7. /\ \A i \in DOMAIN tasks' : tasks'[i].state # "Terminated"
        /\ \A i \in DOMAIN ts : tasks'[i].id = ts[i].id
    BY <2>4, <2>5, <2>6
  <2>8. ~main_task_tracked => \A i \in DOMAIN tasks : tasks[i].state # "Terminated"
    BY DEF IInv, MarkedIsCurrent
  <2> QED BY <1>3, <1>6, <2>5, <2>6, <2>7, <2>8
<1> QED BY <1>7, <1>8

\* A kill marks the running ring 3 task or takes an entry of another one out.
LEMMA KillOutcome ==
  ASSUME IInv, NEW pid \in Pids, kill_task(pid)
  PROVE  /\ main_task_tracked /\ main_task_tracked'
         /\ current_task_idx + 1 \in DOMAIN tasks
         /\ \/ /\ running = MainPid
               /\ tasks' = [tasks EXCEPT ![current_task_idx + 1] =
                              [tasks[current_task_idx + 1] EXCEPT
                                 !.state = "Terminated", !.wake_at = 0]]
            \/ /\ running # MainPid /\ pid = MainPid /\ MainPid \notin Ids'
               /\ \A j \in DOMAIN tasks' : \E k \in DOMAIN tasks : tasks'[j] = tasks[k]
<1> DEFINE c == current_task_idx
<1>1. /\ running \in Pids /\ running # KernelMain
      /\ main_task_tracked' = main_task_tracked
  BY DEF kill_task, Pids, KernelMain
<1>2. TypeOK /\ WellFormed(tasks, NumKernelTasks + 1)
  <2>1. next_task_id - 1 = NumKernelTasks + 1
    BY <1>1, ConstantsAssumption DEF IInv, BootProgress
  <2> QED BY <2>1 DEF IInv
<1>3. PICK i \in DOMAIN tasks : tasks[i].privilege = "User"
  BY DEF kill_task, kill_current, kill_other, Killable, Position
<1>4. tasks[i].id = MainPid /\ MainPid \in Ids
  BY <1>2, <1>3 DEF WellFormed, PrivilegeOf, Ids
<1>5. main_task_tracked
  BY <1>4 DEF IInv, BootProgress
<1>6. /\ tasks \in Seq(Tasks) /\ Len(tasks) \in Nat /\ DOMAIN tasks = 1 .. Len(tasks)
      /\ c \in 0 .. Len(tasks) - 1 /\ c + 1 \in DOMAIN tasks
      /\ tasks[c + 1] \in Tasks /\ tasks[c + 1].id = running
  <2>1. tasks \in Seq(Tasks) /\ tasks # <<>>
    BY <1>2, <1>3 DEF TypeOK
  <2> QED BY <1>2, <1>5, <2>1 DEF TypeOK, IInv, RunningIsCurrent
<1>7. CASE kill_current(pid)
  <2>1. tasks[c + 1].privilege = "User"
    BY <1>7 DEF kill_current, Killable
  <2>2. running = MainPid
    BY <2>1, <1>2, <1>6 DEF WellFormed, PrivilegeOf
  <2>3. tasks' = [tasks EXCEPT ![c + 1].state = "Terminated", ![c + 1].wake_at = 0]
    BY <1>7 DEF kill_current
  <2>4. tasks' = [tasks EXCEPT ![c + 1] =
                    [tasks[c + 1] EXCEPT !.state = "Terminated", !.wake_at = 0]]
    BY <2>3, <1>6, Zenon DEF Tasks
  <2> QED BY <2>2, <2>4, <1>1, <1>5, <1>6
<1>8. CASE kill_other(pid)
  <2>1. PICK k \in DOMAIN tasks \ {c + 1} :
          /\ tasks[k].id = pid /\ tasks[k].privilege = "User"
          /\ tasks' = remove(tasks, k)
    BY <1>8 DEF kill_other, Killable, Position
  <2>2. tasks[k].id = MainPid
    BY <2>1, <1>2 DEF WellFormed, PrivilegeOf
  <2>3. running # MainPid
    BY <2>1, <2>2, <1>6, <1>2 DEF WellFormed
  <2>4. /\ Len(tasks') = Len(tasks) - 1 /\ tasks' \in Seq(Tasks)
        /\ \A j \in 1 .. Len(tasks) - 1 :
             tasks'[j] = IF j < k THEN tasks[j] ELSE tasks[j + 1]
    BY <2>1, <1>6, RemoveElements
  <2>5. \A j \in DOMAIN tasks' : \E l \in DOMAIN tasks \ {k} : tasks'[j] = tasks[l]
    <3>0. DOMAIN tasks' = 1 .. Len(tasks) - 1 /\ DOMAIN tasks = 1 .. Len(tasks)
      BY <2>4, <1>6
    <3> SUFFICES ASSUME NEW j \in 1 .. Len(tasks) - 1
                 PROVE  \E l \in 1 .. Len(tasks) \ {k} : tasks'[j] = tasks[l]
      BY <3>0, Zenon
    <3>1. j \in 1 .. Len(tasks) /\ j + 1 \in 1 .. Len(tasks) /\ k \in 1 .. Len(tasks)
      BY <1>6, <2>1
    <3>2. CASE j < k
      BY <3>1, <3>2, <2>4
    <3>3. CASE ~(j < k)
      BY <3>1, <3>3, <2>4
    <3> QED BY <3>2, <3>3
  <2>6. MainPid \notin Ids'
    <3>1. \A l \in DOMAIN tasks \ {k} : tasks[l].id # MainPid
      BY <2>1, <2>2, <1>2 DEF WellFormed
    <3> QED BY <2>5, <3>1 DEF Ids
  <2> QED BY <2>1, <2>2, <2>3, <2>5, <2>6, <1>1, <1>5, <1>6
<1> QED BY <1>7, <1>8 DEF kill_task

\* Once user_main is tracked no step adds an entry to the list.
LEMMA NobodyJoins ==
  ASSUME IInv, [Next]_vars, main_task_tracked
  PROVE  Ids' \subseteq Ids /\ main_task_tracked'
<1>1. running # KernelMain
  BY DEF IInv, BootProgress
<1>2. CASE scheduler_tick \/ terminate_current_user_task_from_fault
  <2>1. Swept
    BY <1>2, TickKeepsIInv, FaultKeepsIInv
  <2> QED BY <2>1 DEF Swept, ComeFrom, Ids
<1>3. CASE \E ticks \in SleepArgs : sleep_current_task(ticks)
  <2>1. /\ main_task_tracked' = TRUE /\ DOMAIN tasks' = DOMAIN tasks
        /\ \A i \in DOMAIN tasks : tasks'[i].id = tasks[i].id
    BY <1>3, SleepOutcome
  <2> QED BY <2>1 DEF Ids
<1>4. CASE \E pid \in Pids : kill_task(pid)
  <2> DEFINE c == current_task_idx
             u == [tasks[c + 1] EXCEPT !.state = "Terminated", !.wake_at = 0]
  <2>1. /\ main_task_tracked' /\ c + 1 \in DOMAIN tasks
        /\ \/ tasks' = [tasks EXCEPT ![c + 1] = u]
           \/ \A j \in DOMAIN tasks' : \E k \in DOMAIN tasks : tasks'[j] = tasks[k]
    BY <1>4, KillOutcome
  <2>2. tasks \in Seq(Tasks)
    BY DEF IInv, TypeOK
  <2>3. u.id = tasks[c + 1].id
    BY <2>1, <2>2 DEF Tasks
  <2> HIDE DEF u
  <2>4. CASE tasks' = [tasks EXCEPT ![c + 1] = u]
    BY <2>1, <2>2, <2>3, <2>4 DEF Ids
  <2>5. CASE \A j \in DOMAIN tasks' : \E k \in DOMAIN tasks : tasks'[j] = tasks[k]
    BY <2>1, <2>5 DEF Ids
  <2> QED BY <2>1, <2>4, <2>5
<1>5. CASE UNCHANGED vars
  BY <1>5 DEF vars, manager, Ids
<1> QED
  BY <1>1, <1>2, <1>3, <1>4, <1>5 DEF Next, register_named_task, switch_to_user_mode

\* A task that was killed or has faulted is never listed nor executed again.
THEOREM GoneForGood == Spec => RemovedStaysRemoved
<1>1. ASSUME IInv, [Next]_vars
      PROVE  \A p \in Pids : main_task_tracked /\ p \notin Ids =>
               p \notin Ids' /\ running' # p
  <2> SUFFICES ASSUME NEW p \in Pids, main_task_tracked, p \notin Ids
               PROVE  p \notin Ids' /\ running' # p
    OBVIOUS
  <2>1. Ids' \subseteq Ids /\ main_task_tracked' /\ IInv'
    BY <1>1, NobodyJoins, NextKeepsIInv
  <2>2. running' \in Ids' \/ running' = KernelMain
    <3>1. /\ tasks' \in Seq(Tasks)
          /\ current_task_idx' \in 0 .. (IF tasks' = <<>> THEN 0 ELSE Len(tasks') - 1)
          /\ tasks'[current_task_idx' + 1].id = running'
      BY <2>1 DEF IInv, TypeOK, RunningIsCurrent
    <3>2. CASE tasks' = <<>>
      <4>1. 2 \in 2 .. next_task_id' - 1 \/ running' = KernelMain
        <5>1. running' = KernelMain \/ next_task_id' = NumKernelTasks + 2
          BY <2>1 DEF IInv, BootProgress
        <5> QED BY <5>1, ConstantsAssumption
      <4>2. 2 \in 2 .. next_task_id' - 1 => \E i \in DOMAIN tasks' : tasks'[i].id = 2
        BY <2>1 DEF IInv, WellFormed
      <4> QED BY <3>2, <4>1, <4>2
    <3>3. CASE tasks' # <<>>
      <4>1. current_task_idx' + 1 \in DOMAIN tasks'
        BY <3>1, <3>3
      <4> QED BY <4>1, <3>1 DEF Ids
    <3> QED BY <3>2, <3>3
  <2> QED BY <2>1, <2>2 DEF Pids, KernelMain
<1>2. IInv /\ [Next]_vars =>
        [\A p \in Pids : main_task_tracked /\ p \notin Ids =>
           p \notin Ids' /\ running' # p]_vars
  BY <1>1
<1> QED BY <1>2, Inductive, PTL DEF Spec, RemovedStaysRemoved

\* A marked task has no wake-up time, so nothing can make it Ready.
MarkedNeverWakes ==
  \A i \in DOMAIN tasks : tasks[i].state = "Terminated" => tasks[i].wake_at = 0

\* No step makes a marked task one that will wake up.
LEMMA NextKeepsMarked ==
  ASSUME IInv, MarkedNeverWakes, [Next]_vars
  PROVE  MarkedNeverWakes'
<1> USE DEF MarkedNeverWakes
<1>1. CASE register_named_task
  <2>1. tasks \in Seq(Tasks) /\ tasks' = Append(tasks, new_task(next_task_id))
    BY <1>1 DEF register_named_task, IInv, TypeOK
  <2>2. \A i \in DOMAIN tasks' :
          tasks'[i] = new_task(next_task_id) \/ (i \in DOMAIN tasks /\ tasks'[i] = tasks[i])
    BY <2>1
  <2> QED BY <2>2 DEF new_task, Task
<1>2. CASE scheduler_tick \/ terminate_current_user_task_from_fault
  BY <1>2, TickKeepsIInv, FaultKeepsIInv DEF Swept
<1>3. CASE \E ticks \in SleepArgs : sleep_current_task(ticks)
  <2>1. tasks' = tasks \/ \A i \in DOMAIN tasks' : tasks'[i].state # "Terminated"
    BY <1>3, SleepOutcome
  <2> QED BY <2>1
<1>4. CASE \E pid \in Pids : kill_task(pid)
  <2> DEFINE c == current_task_idx
             u == [tasks[c + 1] EXCEPT !.state = "Terminated", !.wake_at = 0]
  <2>1. /\ c + 1 \in DOMAIN tasks
        /\ \/ tasks' = [tasks EXCEPT ![c + 1] = u]
           \/ \A j \in DOMAIN tasks' : \E k \in DOMAIN tasks : tasks'[j] = tasks[k]
    BY <1>4, KillOutcome
  <2>2. tasks \in Seq(Tasks)
    BY DEF IInv, TypeOK
  <2>3. u.wake_at = 0
    BY <2>1, <2>2 DEF Tasks
  <2> HIDE DEF u
  <2>4. CASE tasks' = [tasks EXCEPT ![c + 1] = u]
    BY <2>1, <2>2, <2>3, <2>4
  <2> QED BY <2>1, <2>4
<1>5. CASE switch_to_user_mode \/ UNCHANGED vars
  BY <1>5 DEF vars, manager, switch_to_user_mode
<1> QED BY <1>1, <1>2, <1>3, <1>4, <1>5 DEF Next

\* What is marked stays as it is until the next tick or fault removes it.
LEMMA MarkedStep ==
  ASSUME IInv, MarkedNeverWakes, [Next]_vars,
         NEW i \in DOMAIN tasks, tasks[i].state = "Terminated"
  PROVE  \/ tasks[i].id \notin Ids' /\ running' # tasks[i].id
         \/ tick_count' = tick_count /\ tasks'[i] = tasks[i]
<1> DEFINE c == current_task_idx
<1>1. /\ main_task_tracked /\ i = c + 1 /\ running # KernelMain
      /\ tasks \in Seq(Tasks) /\ tasks[i] \in Tasks
      /\ \A j \in DOMAIN tasks : tasks[i].id = tasks[j].id => i = j
  <2>1. main_task_tracked /\ i = c + 1 /\ tasks \in Seq(Tasks)
    BY DEF IInv, MarkedIsCurrent, TypeOK
  <2> QED BY <2>1 DEF IInv, BootProgress, TypeOK
<1>2. tasks[i].id = MainPid /\ running = MainPid
  <2>1. tasks[i].privilege = "User" /\ tasks[i].privilege = PrivilegeOf(tasks[i].id)
    BY <1>1 DEF IInv, WellFormed, Tasks
  <2> QED BY <2>1, <1>1 DEF PrivilegeOf, IInv, RunningIsCurrent
<1>3. CASE scheduler_tick \/ terminate_current_user_task_from_fault
  <2>1. Swept /\ IInv'
    BY <1>3, TickKeepsIInv, FaultKeepsIInv
  <2>2. tasks[i].id \notin Ids'
    BY <2>1, <1>1 DEF Swept, ComeFrom, Ids
  <2>3. running' # MainPid
    <3> SUFFICES ASSUME running' = MainPid PROVE FALSE
      OBVIOUS
    <3>1. /\ tasks' \in Seq(Tasks) /\ next_task_id' = NumKernelTasks + 2
          /\ current_task_idx' \in 0 .. (IF tasks' = <<>> THEN 0 ELSE Len(tasks') - 1)
          /\ tasks'[current_task_idx' + 1].id = running'
      BY <2>1 DEF Swept, IInv, TypeOK, RunningIsCurrent, BootProgress, MainPid, KernelMain
    <3>2. 2 \in 2 .. next_task_id' - 1
      BY <3>1, ConstantsAssumption
    <3>3. tasks' # <<>>
      BY <2>1, <3>2 DEF IInv, WellFormed
    <3>4. current_task_idx' + 1 \in DOMAIN tasks'
      BY <3>1, <3>3
    <3> QED BY <3>1, <3>4, <2>2, <1>2 DEF Ids
  <2> QED BY <2>2, <2>3, <1>2
<1>4. CASE \E ticks \in SleepArgs : sleep_current_task(ticks)
  BY <1>4, SleepOutcome DEF sleep_current_task
<1>5. CASE \E pid \in Pids : kill_task(pid)
  <2> DEFINE t == tasks[i]
             u == [t EXCEPT !.state = "Terminated", !.wake_at = 0]
  <2>1. tasks' = [tasks EXCEPT ![i] = u] /\ tick_count' = tick_count
    BY <1>1, <1>2, <1>5, KillOutcome DEF kill_task
  <2>2. t \in Tasks /\ t.state = "Terminated" /\ t.wake_at = 0
    BY <1>1 DEF MarkedNeverWakes
  <2>3. u = t
    <3> HIDE DEF t
    <3> QED BY <2>2 DEF Tasks
  <2> HIDE DEF u
  <2> QED BY <2>1, <2>3, <1>1
<1>6. CASE UNCHANGED vars
  BY <1>6 DEF vars, manager
<1> QED
  BY <1>1, <1>3, <1>4, <1>5, <1>6 DEF Next, register_named_task, switch_to_user_mode

\* A task marked for termination is gone with the next timer tick, and until
\* then no sleep call and no second kill changes its entry.
THEOREM MarkedTaskDies == Spec => MarkedDiesNextTick
<1>1. Init => MarkedNeverWakes
  BY DEF Init, MarkedNeverWakes
<1>2. Spec => []MarkedNeverWakes
  <2>1. IInv /\ MarkedNeverWakes /\ [Next]_vars => MarkedNeverWakes'
    BY NextKeepsMarked
  <2> QED BY <1>1, <2>1, Inductive, PTL DEF Spec
<1>3. IInv /\ MarkedNeverWakes /\ [Next]_vars =>
        [\A i \in DOMAIN tasks : tasks[i].state = "Terminated" =>
           \/ tasks[i].id \notin Ids' /\ running' # tasks[i].id
           \/ tick_count' = tick_count /\ tasks'[i] = tasks[i]]_vars
  BY MarkedStep
<1> QED BY <1>2, <1>3, Inductive, PTL DEF Spec, MarkedDiesNextTick

\* As long as only kernel threads call kill_task, no task is ever marked: the
\* shell always answers that the process is terminated.
THEOREM KillsAreImmediate ==
  ASSUME KillFrom = {"Kernel"}
  PROVE  Spec => []KillIsImmediate
<1> USE DEF KillIsImmediate
<1>1. Init => KillIsImmediate
  BY DEF Init
<1>2. ASSUME IInv, KillIsImmediate, [Next]_vars
      PROVE  KillIsImmediate'
  <2>1. CASE register_named_task
    <3>1. tasks \in Seq(Tasks) /\ tasks' = Append(tasks, new_task(next_task_id))
      BY <1>2, <2>1 DEF register_named_task, IInv, TypeOK
    <3>2. \A i \in DOMAIN tasks' :
            tasks'[i] = new_task(next_task_id) \/ (i \in DOMAIN tasks /\ tasks'[i] = tasks[i])
      BY <3>1
    <3> QED BY <1>2, <3>2 DEF new_task, Task
  <2>2. CASE scheduler_tick \/ terminate_current_user_task_from_fault
    BY <1>2, <2>2, TickKeepsIInv, FaultKeepsIInv DEF Swept
  <2>3. CASE \E ticks \in SleepArgs : sleep_current_task(ticks)
    <3>1. tasks' = tasks \/ \A i \in DOMAIN tasks' : tasks'[i].state # "Terminated"
      BY <1>2, <2>3, SleepOutcome
    <3> QED BY <1>2, <3>1
  <2>4. CASE \E pid \in Pids : kill_task(pid)
    <3>1. running # MainPid
      BY <2>4 DEF kill_task, PrivilegeOf
    <3>2. \A j \in DOMAIN tasks' : \E k \in DOMAIN tasks : tasks'[j] = tasks[k]
      BY <1>2, <2>4, <3>1, KillOutcome
    <3> QED BY <1>2, <3>2
  <2>5. CASE switch_to_user_mode \/ UNCHANGED vars
    BY <1>2, <2>5 DEF vars, manager, switch_to_user_mode
  <2> QED BY <1>2, <2>1, <2>2, <2>3, <2>4, <2>5 DEF Next
<1>3. IInv /\ KillIsImmediate /\ [Next]_vars => KillIsImmediate'
  BY <1>2
<1> HIDE DEF KillIsImmediate
<1> QED BY <1>1, <1>3, Inductive, PTL DEF Spec

----------------------------------------------------------------------------
(***************************************************************************)
(* What ps, tasks and top are told.                                        *)
(***************************************************************************)
Labels == {"idle", "running", "ready", "sleep", "dead"}
SnapshotRows == [id : Nat, state : Labels, run_ticks : Nat]

TaskRows == [i \in DOMAIN tasks |->
               Row(tasks[i], main_task_tracked /\ i = current_task_idx + 1)]

\* The rows of the tasks in the list: pids of their own, and "running" only in
\* the row of the executing task.
LEMMA TaskRowsAreTrue ==
  ASSUME IInv
  PROVE  /\ TaskRows \in Seq(SnapshotRows) /\ Len(TaskRows) = Len(tasks)
         /\ \A i \in 1 .. Len(tasks) :
              /\ TaskRows[i].id = tasks[i].id /\ TaskRows[i].id # 0
              /\ TaskRows[i].state = "running" =>
                   main_task_tracked /\ tasks[i].id = running
<1>1. /\ tasks \in Seq(Tasks) /\ Len(tasks) \in Nat /\ DOMAIN tasks = 1 .. Len(tasks)
      /\ \A i \in DOMAIN tasks : tasks[i] \in Tasks
  BY DEF IInv, TypeOK
<1>2. ASSUME NEW t \in Tasks, NEW b \in BOOLEAN
      PROVE  /\ Row(t, b) \in SnapshotRows /\ Row(t, b).id = t.id /\ t.id # 0
             /\ Row(t, b).state = "running" => b
  <2>1. /\ t.id \in Pids /\ t.run_ticks \in Nat
        /\ t.state \in {"Ready", "Sleeping", "Terminated"}
    BY DEF Tasks
  <2>2. state_label(t, b) \in Labels /\ (state_label(t, b) = "running" => b)
    <3>1. CASE b = TRUE
      BY <2>1, <3>1 DEF state_label, Labels
    <3>2. CASE b = FALSE
      <4>1. state_label(t, FALSE) \in {"ready", "sleep", "dead"}
        BY <2>1 DEF state_label
      <4> QED BY <3>2, <4>1 DEF Labels
    <3> QED BY <3>1, <3>2
  <2>3. t.id \in Nat /\ t.id # 0
    BY <2>1 DEF Pids
  <2> QED BY <2>1, <2>2, <2>3 DEF Row, SnapshotRows
<1>3. \A i \in DOMAIN tasks :
        (main_task_tracked /\ i = current_task_idx + 1) \in BOOLEAN
  OBVIOUS
<1>4. \A i \in DOMAIN tasks :
        /\ TaskRows[i] \in SnapshotRows /\ TaskRows[i].id = tasks[i].id
        /\ tasks[i].id # 0
        /\ TaskRows[i].state = "running" => main_task_tracked /\ i = current_task_idx + 1
  BY <1>1, <1>2, <1>3, Zenon DEF TaskRows
<1>5. DOMAIN TaskRows = 1 .. Len(tasks)
  BY <1>1 DEF TaskRows
<1>6. TaskRows \in [1 .. Len(tasks) -> SnapshotRows]
  BY <1>1, <1>4 DEF TaskRows
<1>7. TaskRows \in Seq(SnapshotRows) /\ Len(TaskRows) = Len(tasks)
  BY <1>1, <1>5, <1>6
<1>8. main_task_tracked => tasks[current_task_idx + 1].id = running
  BY DEF IInv, RunningIsCurrent
<1> QED BY <1>1, <1>4, <1>7, <1>8

\* ps, top and tasks tell the truth in every state they can be asked in.
THEOREM ListingsAreTrue == Spec => []PsTruthful
<1>1. ASSUME IInv, running # KernelMain
      PROVE  /\ Len(process_snapshot) = stats.total_tasks
             /\ \A i, j \in DOMAIN process_snapshot :
                  process_snapshot[i].id = process_snapshot[j].id => i = j
             /\ \A i \in DOMAIN process_snapshot :
                  process_snapshot[i].state = "running" => process_snapshot[i].id = running
             /\ stats.current_task_id \in {0, running}
  <2> DEFINE n == Len(tasks)
             ps == process_snapshot
  <2>1. /\ n \in Nat /\ DOMAIN tasks = 1 .. n
        /\ \A i, j \in 1 .. n : tasks[i].id = tasks[j].id => i = j
    <3>1. tasks \in Seq(Tasks)
      BY <1>1 DEF IInv, TypeOK
    <3> QED BY <1>1, <3>1 DEF IInv, TypeOK
  <2>2. /\ TaskRows \in Seq(SnapshotRows) /\ Len(TaskRows) = n
        /\ \A i \in 1 .. n :
             /\ TaskRows[i].id = tasks[i].id /\ TaskRows[i].id # 0
             /\ TaskRows[i].state = "running" =>
                  main_task_tracked /\ tasks[i].id = running
    BY <1>1, TaskRowsAreTrue
  <2>3. /\ IdleRow \in SnapshotRows /\ IdleRow.id = 0 /\ IdleRow.state = "idle"
        /\ PendingMainRow \in SnapshotRows /\ PendingMainRow.id = MainPid
        /\ MainPid # 0
    BY DEF IdleRow, PendingMainRow, SnapshotRows, Labels, MainPid
  <2>4. stats.current_task_id \in {0, running}
    BY <1>1 DEF stats, IInv, RunningIsCurrent
  <2>5. CASE main_task_tracked
    <3>1. ps = <<IdleRow>> \o TaskRows /\ stats.total_tasks = n + 1
      BY <2>5 DEF process_snapshot, TaskRows, stats
    <3> HIDE DEF ps, n
    <3>2. /\ Len(ps) = n + 1 /\ DOMAIN ps = 1 .. n + 1
          /\ ps[1] = IdleRow
          /\ \A i \in 2 .. n + 1 : i - 1 \in 1 .. n /\ ps[i] = TaskRows[i - 1]
      BY <3>1, <2>1, <2>2, <2>3
    <3>3. \A i, j \in 1 .. n + 1 : ps[i].id = ps[j].id => i = j
      <4> SUFFICES ASSUME NEW i \in 1 .. n + 1, NEW j \in 1 .. n + 1, ps[i].id = ps[j].id
                   PROVE  i = j
        OBVIOUS
      <4>1. /\ i = 1 \/ (i \in 2 .. n + 1 /\ i - 1 \in 1 .. n)
            /\ j = 1 \/ (j \in 2 .. n + 1 /\ j - 1 \in 1 .. n)
        BY <2>1
      <4>2. CASE i = 1 \/ j = 1
        BY <4>1, <4>2, <3>2, <2>2, <2>3
      <4>3. CASE i \in 2 .. n + 1 /\ j \in 2 .. n + 1
        <5>1. /\ i - 1 \in 1 .. n /\ ps[i] = TaskRows[i - 1]
              /\ j - 1 \in 1 .. n /\ ps[j] = TaskRows[j - 1]
          BY <4>3, <3>2
        <5>2. tasks[i - 1].id = tasks[j - 1].id
          BY <5>1, <2>2
        <5>3. i - 1 = j - 1
          BY <5>1, <5>2, <2>1
        <5> QED BY <5>3, <4>3, <2>1
      <4> QED BY <4>1, <4>2, <4>3
    <3>4. \A i \in 1 .. n + 1 : ps[i].state = "running" => ps[i].id = running
      <4> SUFFICES ASSUME NEW i \in 1 .. n + 1, ps[i].state = "running"
                   PROVE  ps[i].id = running
        OBVIOUS
      <4>1. i \in 2 .. n + 1
        BY <3>2, <2>1, <2>3
      <4> QED BY <4>1, <3>2, <2>2
    <3> QED BY <3>1, <3>2, <3>3, <3>4, <2>4 DEF ps
  <2>6. CASE ~main_task_tracked
    <3>1. ps = <<IdleRow, PendingMainRow>> \o TaskRows /\ stats.total_tasks = n + 2
      BY <2>6 DEF process_snapshot, TaskRows, stats
    <3>2. running = MainPid /\ \A i \in 1 .. n : tasks[i].id # MainPid
      BY <1>1, <2>1, <2>6 DEF IInv, BootProgress, Ids
    <3> HIDE DEF ps, n
    <3>3. /\ Len(ps) = n + 2 /\ DOMAIN ps = 1 .. n + 2
          /\ ps[1] = IdleRow /\ ps[2] = PendingMainRow
          /\ \A i \in 3 .. n + 2 : i - 2 \in 1 .. n /\ ps[i] = TaskRows[i - 2]
      BY <3>1, <2>1, <2>2, <2>3
    <3>4. \A i, j \in 1 .. n + 2 : ps[i].id = ps[j].id => i = j
      <4> SUFFICES ASSUME NEW i \in 1 .. n + 2, NEW j \in 1 .. n + 2, ps[i].id = ps[j].id
                   PROVE  i = j
        OBVIOUS
      <4>1. /\ i \in {1, 2} \/ i \in 3 .. n + 2
            /\ j \in {1, 2} \/ j \in 3 .. n + 2
        BY <2>1
      <4>2. CASE i \in {1, 2} \/ j \in {1, 2}
        BY <4>1, <4>2, <3>2, <3>3, <2>2, <2>3
      <4>3. CASE i \in 3 .. n + 2 /\ j \in 3 .. n + 2
        <5>1. /\ i - 2 \in 1 .. n /\ ps[i] = TaskRows[i - 2]
              /\ j - 2 \in 1 .. n /\ ps[j] = TaskRows[j - 2]
          BY <4>3, <3>3
        <5>2. tasks[i - 2].id = tasks[j - 2].id
          BY <5>1, <2>2
        <5>3. i - 2 = j - 2
          BY <5>1, <5>2, <2>1
        <5> QED BY <5>3, <4>3, <2>1
      <4> QED BY <4>1, <4>2, <4>3
    <3>5. \A i \in 1 .. n + 2 : ps[i].state = "running" => ps[i].id = running
      <4> SUFFICES ASSUME NEW i \in 1 .. n + 2, ps[i].state = "running"
                   PROVE  ps[i].id = running
        OBVIOUS
      <4>1. i = 2 \/ i \in 3 .. n + 2
        BY <3>3, <2>1, <2>3
      <4> QED BY <4>1, <3>2, <3>3, <2>2, <2>3, <2>6
    <3> QED BY <3>1, <3>3, <3>4, <3>5, <2>4 DEF ps
  <2> QED BY <2>5, <2>6
<1>2. IInv => PsTruthful
  BY <1>1 DEF PsTruthful
<1> QED BY <1>2, Inductive, PTL
============================================================================
