-------------------------- MODULE StateQueueProofs --------------------------
(***************************************************************************)
(* Proofs about the state queue, for any number of mount points, submounts *)
(* and threads, any build options and any failures.                        *)
(***************************************************************************)
EXTENDS StateQueue, TLAPS

-----------------------------------------------------------------------------
(* Typing of the operators the actions are built from. *)

\* The record constants have the types they are meant to have.
LEMMA RecordTypes ==
  /\ NoTask \in Task
  /\ NoWorker \in Worker
  /\ \A st \in TaskState : NewTask(st) \in Task
  /\ \A ap \in AP : NewExpire(ap) \in Worker /\ NewReadmap(ap) \in Worker
<1>1. AnAP \in AP
  BY StateQueueAssumption DEF AnAP
<1>2. <<>> \in Seq(TaskState)
  OBVIOUS
<1>3. NoTask \in Task
  BY <1>2 DEF NoTask, Task
<1>4. NoWorker \in Worker
  BY <1>1 DEF NoWorker, Worker, WorkerPc, States
<1>5. \A st \in TaskState : NewTask(st) \in Task
  BY <1>3 DEF NewTask, NoTask, Task
<1>6. \A ap \in AP : NewExpire(ap) \in Worker /\ NewReadmap(ap) \in Worker
  BY <1>4 DEF NewExpire, NewReadmap, Worker, WorkerPc, NoWorker
<1> QED BY <1>3, <1>4, <1>5, <1>6

\* What st_remove_tasks() leaves waiting is a list of tasks.
LEMMA ShutdownsType ==
  ASSUME NEW p \in Seq(TaskState)
  PROVE  Shutdowns(p) \in Seq(TaskState)
<1> DEFINE P == "ST_SHUTDOWN_PENDING"
           F == "ST_SHUTDOWN_FORCE"
<1>1. P \in TaskState /\ F \in TaskState
  BY DEF TaskState
<1>2. /\ <<>> \in Seq(TaskState)
      /\ <<P>> \in Seq(TaskState) /\ <<F>> \in Seq(TaskState)
      /\ <<P, F>> \in Seq(TaskState) /\ <<F, P>> \in Seq(TaskState)
  BY <1>1
<1>3. Shutdowns(p) \in {<<>>, <<P>>, <<F>>, <<P, F>>, <<F, P>>}
  BY Zenon DEF Shutdowns
<1> QED BY <1>2, <1>3

\* Queuing a request yields a task.
LEMMA EnqueueType ==
  ASSUME NEW tk \in Task, NEW s \in States, NEW st \in TaskState,
         NEW ok \in BOOLEAN
  PROVE  Enqueue(tk, s, st, ok) \in Task
<1>1. Append(tk.pending, st) \in Seq(TaskState)
  BY DEF Task
<1> QED BY <1>1, RecordTypes DEF Enqueue, Task

\* __st_add_task() keeps the types of the five variables it touches.
LEMMA AddTaskType ==
  ASSUME TypeOK, NEW ap \in AP, NEW st \in States, NEW tk \in Task,
         NEW sd \in [AP -> BOOLEAN], AddTask(ap, st, tk, sd)
  PROVE  /\ state' \in [AP -> States]
         /\ shutdown' \in [AP -> BOOLEAN]
         /\ task' \in [AP -> Task]
         /\ sigcont' \in [AP -> BOOLEAN]
         /\ signaled' \in BOOLEAN
<1> DEFINE ready == st = "ST_READY"
           over == ~ready /\ state[ap] = "ST_SHUTDOWN"
           stop == ~over /\ st = "ST_SHUTDOWN"
<1>1. PICK ok \in Alloc :
        /\ state' = [state EXCEPT ![ap] = IF ready \/ stop THEN st ELSE @]
        /\ shutdown' = [sd EXCEPT ![ap] = IF ready THEN FALSE ELSE @]
        /\ task' = [task EXCEPT ![ap] = IF ready \/ over \/ stop THEN tk
                                        ELSE Enqueue(tk, state[ap], st, ok)]
        /\ sigcont' = [sigcont EXCEPT ![ap] = @ \/ stop]
        /\ signaled' = (signaled \/ ~(over \/ stop))
  BY DEF AddTask
<1>2. ok \in BOOLEAN
  BY DEF Alloc
<1>3. (IF ready \/ over \/ stop THEN tk ELSE Enqueue(tk, state[ap], st, ok)) \in Task
  <2>1. CASE ready \/ over \/ stop
    BY <2>1
  <2>2. CASE ~(ready \/ over \/ stop)
    <3>1. st \in TaskState
      BY <2>2 DEF States, TaskState
    <3>2. state[ap] \in States
      BY DEF TypeOK
    <3> QED BY <2>2, <3>1, <3>2, <1>2, EnqueueType
  <2> QED BY <2>1, <2>2
<1> QED BY <1>1, <1>3 DEF TypeOK

\* The updates the actions make to a worker's record keep its type.
LEMMA WorkerUpdates ==
  ASSUME NEW w \in Worker
  PROVE  /\ \A b \in BOOLEAN : [w EXCEPT !.cancel = b] \in Worker
         /\ \A pc \in WorkerPc : [w EXCEPT !.pc = pc] \in Worker
         /\ \A pc \in WorkerPc, b \in BOOLEAN :
              [w EXCEPT !.pc = pc, !.ok = b] \in Worker
         /\ \A pc \in WorkerPc, b \in BOOLEAN, todo \in SUBSET Submount :
              [w EXCEPT !.pc = pc, !.ok = b, !.todo = todo] \in Worker
         /\ \A pc \in WorkerPc, sub \in AP, todo \in SUBSET Submount, arg \in States :
              [w EXCEPT !.pc = pc, !.sub = sub, !.todo = todo, !.arg = arg] \in Worker
BY DEF Worker

\* The updates the actions make to a task keep its type.
LEMMA TaskUpdates ==
  ASSUME NEW tk \in Task
  PROVE  /\ \A t \in Tid : [tk EXCEPT !.busy = TRUE, !.thid = t] \in Task
         /\ \A b \in BOOLEAN : [tk EXCEPT !.cancel = b] \in Task
         /\ \A b \in BOOLEAN : [tk EXCEPT !.done = b] \in Task
         /\ \A b \in BOOLEAN :
              [tk EXCEPT !.cancel = b, !.pending = Shutdowns(tk.pending)] \in Task
<1>1. Shutdowns(tk.pending) \in Seq(TaskState)
  BY ShutdownsType DEF Task
<1> QED BY <1>1 DEF Task

-----------------------------------------------------------------------------
(* Type correctness. *)

\* Every step of the daemon keeps the types of all variables.
LEMMA TypeStep ==
  ASSUME TypeOK, [Next]_vars
  PROVE  TypeOK'
<1> USE DEF queueVars, handlerVars, threadVars, alarmVars, envVars
<1>1. CASE HandlerFirst
  BY <1>1 DEF HandlerFirst, TypeOK, Queued
<1>2. CASE HandlerPoked
  BY <1>2 DEF HandlerPoked, TypeOK, Queued
<1>3. CASE HandlerWait
  BY <1>3 DEF HandlerWait, TypeOK, Queued
<1>4. ASSUME NEW ap \in AP, HandlerStart(ap) PROVE TypeOK'
  <2>1. PICK t \in Tid :
          /\ task' = [task EXCEPT ![ap].busy = TRUE, ![ap].thid = t]
          /\ IF task[ap].state = "ST_READMAP"
               THEN /\ readmap_thread' = [readmap_thread EXCEPT ![ap] = t]
                    /\ thread' = [thread EXCEPT ![t] = NewReadmap(ap)]
                    /\ UNCHANGED exp_thread
               ELSE /\ exp_thread' = [exp_thread EXCEPT ![ap] = t]
                    /\ thread' = [thread EXCEPT ![t] = NewExpire(ap)]
                    /\ UNCHANGED readmap_thread
    BY <1>4 DEF HandlerStart
  <2>2. task' \in [AP -> Task]
    BY <2>1, TaskUpdates DEF TypeOK
  <2>3. thread' \in [Tid -> Worker]
    BY <2>1, RecordTypes DEF TypeOK
  <2>4. task[ap].state \in States
    BY <1>4 DEF HandlerStart, Visit, Queued, TypeOK, Task, TaskState, States
  <2> QED BY <1>4, <2>1, <2>2, <2>3, <2>4 DEF HandlerStart, TypeOK
<1>5. ASSUME NEW ap \in AP, HandlerStartFails(ap) PROVE TypeOK'
  <2>1. task' \in [AP -> Task]
    BY <1>5, RecordTypes DEF HandlerStartFails, TypeOK, Remove, Visit, Task
  <2>2. scan' \subseteq AP
    BY <1>5 DEF HandlerStartFails, TypeOK, Remove, Visit, Queued
  <2> QED BY <1>5, <2>1, <2>2 DEF HandlerStartFails, TypeOK, States, ConditionalAlarm
<1>6. ASSUME NEW ap \in AP, HandlerReap(ap) PROVE TypeOK'
  <2>1. task' \in [AP -> Task]
    BY <1>6, RecordTypes DEF HandlerReap, TypeOK, Remove, Visit, Task
  <2>2. scan' \subseteq AP
    BY <1>6 DEF HandlerReap, TypeOK, Remove, Visit, Queued
  <2> QED BY <1>6, <2>1, <2>2 DEF HandlerReap, TypeOK
<1>7. ASSUME NEW ap \in AP, HandlerCancel(ap) PROVE TypeOK'
  <2>1. Live(task[ap].thid) \in BOOLEAN
    BY <1>7 DEF HandlerCancel, TypeOK, Live
  <2>2. thread' \in [Tid -> Worker]
    BY <1>7, <2>1, WorkerUpdates DEF HandlerCancel, TypeOK, Task
  <2>3. task' \in [AP -> Task]
    BY <1>7, TaskUpdates DEF HandlerCancel, TypeOK
  <2> QED BY <1>7, <2>1, <2>2, <2>3 DEF HandlerCancel, TypeOK, Visit
<1>8. ASSUME NEW ap \in AP, HandlerSkip(ap) PROVE TypeOK'
  BY <1>8 DEF HandlerSkip, TypeOK, Visit
<1>9. ASSUME NEW t \in Tid, ExpireList(t) PROVE TypeOK'
  <2>1. thread[t].ap \in AP
    BY <1>9 DEF ExpireList, TypeOK, Worker
  <2>2. HasMounts(thread[t].ap) \in BOOLEAN
    BY <1>9, <2>1 DEF ExpireList, TypeOK, HasMounts
  <2>3. thread' \in [Tid -> Worker]
    BY <1>9, <2>2, WorkerUpdates DEF ExpireList, TypeOK, WorkerPc
  <2> QED BY <1>9, <2>1, <2>2, <2>3 DEF ExpireList, TypeOK, Local
<1>10. ASSUME NEW t \in Tid, NotifyRead(t) PROVE TypeOK'
  <2>1. PICK sm \in thread[t].todo :
          thread' = [thread EXCEPT ![t].pc = "notify", ![t].sub = sm,
                       ![t].todo = @ \ {sm}, ![t].arg = state[thread[t].ap]]
    BY <1>10 DEF NotifyRead
  <2>2. /\ sm \in AP
        /\ thread[t].todo \ {sm} \in SUBSET Submount
        /\ state[thread[t].ap] \in States
    BY StateQueueAssumption DEF TypeOK, Worker
  <2>3. thread' \in [Tid -> Worker]
    BY <2>1, <2>2, WorkerUpdates DEF TypeOK, WorkerPc
  <2> QED BY <1>10, <2>3 DEF NotifyRead, TypeOK, Local
<1>11. ASSUME NEW t \in Tid, NotifyNobody(t) PROVE TypeOK'
  <2>1. thread' \in [Tid -> Worker]
    BY <1>11, WorkerUpdates DEF NotifyNobody, TypeOK, WorkerPc
  <2> QED BY <1>11, <2>1 DEF NotifyNobody, TypeOK, Local
<1>12. ASSUME NEW t \in Tid, NotifyWaitTask(t) PROVE TypeOK'
  <2>1. thread' \in [Tid -> Worker]
    BY <1>12, WorkerUpdates DEF NotifyWaitTask, TypeOK, WorkerPc
  <2> QED BY <1>12, <2>1 DEF NotifyWaitTask, TypeOK, Local
<1>13. ASSUME NEW t \in Tid, NotifyWaitState(t) PROVE TypeOK'
  <2>1. thread' \in [Tid -> Worker]
    BY <1>13, WorkerUpdates DEF NotifyWaitState, TypeOK, WorkerPc
  <2> QED BY <1>13, <2>1 DEF NotifyWaitState, TypeOK, Local
<1>14. ASSUME NEW t \in Tid, Cancelled(t) PROVE TypeOK'
  <2>1. thread' \in [Tid -> Worker]
    BY <1>14, WorkerUpdates DEF Cancelled, TypeOK, WorkerPc
  <2> QED BY <1>14, <2>1 DEF Cancelled, TypeOK, Local
<1>15. ASSUME NEW t \in Tid, ReadMap(t) PROVE TypeOK'
  <2>1. thread' \in [Tid -> Worker]
    BY <1>15, WorkerUpdates DEF ReadMap, TypeOK, WorkerPc
  <2>2. alarm' \in [AP -> {"none", "armed", "cancelled"}]
    BY <1>15 DEF ReadMap, TypeOK, ConditionalAlarm
  <2> QED BY <1>15, <2>1, <2>2 DEF ReadMap, TypeOK
<1>16. ASSUME NEW t \in Tid, ExpireMounts(t) PROVE TypeOK'
  <2>1. PICK left \in {FALSE, mounted[thread[t].ap]}, ok \in BOOLEAN :
          /\ mounted' = [mounted EXCEPT ![thread[t].ap] = left]
          /\ thread' = [thread EXCEPT ![t].pc = "clean", ![t].ok = ok]
    BY <1>16 DEF ExpireMounts
  <2>2. thread[t].ap \in AP
    BY DEF TypeOK, Worker
  <2>3. mounted' \in [AP -> BOOLEAN]
    BY <2>1, <2>2 DEF TypeOK
  <2>4. thread' \in [Tid -> Worker]
    BY <2>1, WorkerUpdates DEF TypeOK, WorkerPc
  <2> QED BY <1>16, <2>3, <2>4 DEF ExpireMounts, TypeOK, Local
<1>17. ASSUME NEW t \in Tid, NotifyAdd(t) PROVE TypeOK'
  <2> DEFINE sm == thread[t].sub
             sd == [shutdown EXCEPT ![sm] = shutdown[thread[t].ap]]
  <2>1. sm \in AP /\ thread[t].ap \in AP /\ thread[t].arg \in States
    BY DEF TypeOK, Worker
  <2>2. sd \in [AP -> BOOLEAN] /\ task[sm] \in Task
    BY <2>1 DEF TypeOK
  <2>3. AddTask(sm, thread[t].arg, task[sm], sd)
    BY <1>17 DEF NotifyAdd
  <2>4. thread' \in [Tid -> Worker]
    BY <1>17, WorkerUpdates DEF NotifyAdd, TypeOK, WorkerPc
  <2> QED BY <1>17, <2>1, <2>2, <2>3, <2>4, AddTaskType DEF NotifyAdd, TypeOK, Local
<1>18. ASSUME NEW t \in Tid, ExpireCleanup(t) PROVE TypeOK'
  <2> DEFINE ap == thread[t].ap
  <2>1. ap \in AP
    BY DEF TypeOK, Worker
  <2>2. SetDone(ap) \in Task
    BY <2>1, RecordTypes, TaskUpdates DEF SetDone, TypeOK
  <2>3. thread' \in [Tid -> Worker]
    BY <1>18, RecordTypes DEF ExpireCleanup, TypeOK
  <2>4. exp_thread' \in [AP -> Tid \cup {NoTid}]
    BY <1>18 DEF ExpireCleanup, TypeOK
  <2>5. alarm' \in [AP -> {"none", "armed", "cancelled"}]
    BY <1>18 DEF ExpireCleanup, TypeOK, ConditionalAlarm
  <2>6. PICK next \in States \cup {"ST_INVAL"} :
          IF next = "ST_INVAL"
          THEN /\ task' = [task EXCEPT ![ap] = SetDone(ap)]
               /\ UNCHANGED <<state, shutdown, signaled, sigcont>>
          ELSE AddTask(ap, next, SetDone(ap), shutdown)
    <3>1. \A ok, ask : NextState(ap, ok, ask) \in States \cup {"ST_INVAL"}
      BY DEF NextState, States
    <3> QED BY <1>18, <3>1 DEF ExpireCleanup
  <2>7. /\ state' \in [AP -> States]
        /\ shutdown' \in [AP -> BOOLEAN]
        /\ task' \in [AP -> Task]
        /\ sigcont' \in [AP -> BOOLEAN]
        /\ signaled' \in BOOLEAN
    <3>1. CASE next = "ST_INVAL"
      BY <2>1, <2>2, <2>6, <3>1 DEF TypeOK
    <3>2. CASE next # "ST_INVAL"
      <4>1. shutdown \in [AP -> BOOLEAN]
        BY DEF TypeOK
      <4> QED BY <2>1, <2>2, <2>6, <3>2, <4>1, AddTaskType
    <3> QED BY <3>1, <3>2
  <2> QED BY <1>18, <2>3, <2>4, <2>5, <2>7 DEF ExpireCleanup, TypeOK
<1>19. ASSUME NEW t \in Tid, ReadMapCleanup(t) PROVE TypeOK'
  <2> DEFINE ap == thread[t].ap
  <2>1. ap \in AP
    BY DEF TypeOK, Worker
  <2>2. SetDone(ap) \in Task
    BY <2>1, RecordTypes, TaskUpdates DEF SetDone, TypeOK
  <2>3. thread' \in [Tid -> Worker]
    BY <1>19, RecordTypes DEF ReadMapCleanup, TypeOK
  <2> QED BY <1>19, <2>1, <2>2, <2>3 DEF ReadMapCleanup, TypeOK, States
<1>20. ASSUME NEW ap \in AP, GotSigcont(ap) PROVE TypeOK'
  BY <1>20 DEF GotSigcont, TypeOK, ConditionalAlarm
<1>21. ASSUME NEW ap \in AP, SeenShutdown(ap) PROVE TypeOK'
  BY <1>21 DEF SeenShutdown, TypeOK, ConditionalAlarm
<1>22. ASSUME NEW ap \in AP, ExitReturn(ap) PROVE TypeOK'
  BY <1>22 DEF ExitReturn, TypeOK, ConditionalAlarm
<1>23. ASSUME NEW ap \in AP, ExitAlarm(ap) PROVE TypeOK'
  BY <1>23 DEF ExitAlarm, TypeOK, ConditionalAlarm
<1>24. ASSUME NEW ap \in AP, ExitWait(ap) PROVE TypeOK'
  BY <1>24 DEF ExitWait, TypeOK, ConditionalAlarm
<1>25. ASSUME NEW ap \in AP, ExitGone(ap) PROVE TypeOK'
  <2>1. mounted' \in [AP -> BOOLEAN]
    BY <1>25 DEF ExitGone, TypeOK, UmountAll
  <2> QED BY <1>25, <2>1 DEF ExitGone, TypeOK, ConditionalAlarm
<1>26. ASSUME NEW ap \in AP, ExitBusy(ap) PROVE TypeOK'
  <2>1. mounted' \in [AP -> BOOLEAN]
    BY <1>26 DEF ExitBusy, TypeOK, UmountAll
  <2> QED BY <1>26, <2>1 DEF ExitBusy, TypeOK, ConditionalAlarm
<1>27. ASSUME NEW ap \in AP, PacketFails(ap) PROVE TypeOK'
  BY <1>27, StateQueueAssumption DEF PacketFails, TypeOK, Spend
<1>28. ASSUME NEW ap \in AP, ExitRemove(ap) PROVE TypeOK'
  <2>1. (task[ap].cancel \/ (task[ap].busy /\ task[ap].state \notin ShuttingDown)) \in BOOLEAN
    BY <1>28 DEF ExitRemove, TypeOK, Task
  <2>2. task' \in [AP -> Task]
    BY <1>28, <2>1, TaskUpdates DEF ExitRemove, TypeOK, RemoveTasks
  <2>3. signaled' \in BOOLEAN
    BY <1>28 DEF ExitRemove, TypeOK, RemoveTasks
  <2> QED BY <1>28, <2>1, <2>2, <2>3 DEF ExitRemove, TypeOK, RemoveTasks
<1>29. ASSUME NEW ap \in AP, ExitReady(ap) PROVE TypeOK'
  <2>1. "ST_READY" \in States
    BY <1>29 DEF ExitReady, TypeOK, States
  <2>2. task[ap] \in Task /\ ap \in AP
    BY <1>29, StateQueueAssumption DEF ExitReady, TypeOK
  <2> QED BY <1>29, AddTaskType, <2>1, <2>2 DEF ExitReady, TypeOK, Add
<1>30. ASSUME NEW ap \in AP, MountDone(ap) PROVE TypeOK'
  BY <1>30, StateQueueAssumption DEF MountDone, TypeOK, Spend, ConditionalAlarm
<1>31. ASSUME NEW sm \in Submount, SubmountStarts(sm) PROVE TypeOK'
  <2>1. "ST_READY" \in States
    BY <1>31 DEF SubmountStarts, TypeOK, States
  <2>2. task[sm] \in Task /\ sm \in AP
    BY <1>31, StateQueueAssumption DEF SubmountStarts, TypeOK
  <2> QED BY <1>31, AddTaskType, StateQueueAssumption, <2>1, <2>2 DEF SubmountStarts, TypeOK, Add, Spend, ConditionalAlarm
<1>32. ASSUME NEW ap \in AP, AlarmFires(ap) PROVE TypeOK'
  BY <1>32 DEF AlarmFires, TypeOK
<1>33. ASSUME NEW ap \in AP, AlarmExpire(ap) PROVE TypeOK'
  <2>1. "ST_EXPIRE" \in States
    BY <1>33 DEF AlarmExpire, TypeOK, States
  <2>2. task[ap] \in Task /\ ap \in AP
    BY <1>33, StateQueueAssumption DEF AlarmExpire, TypeOK
  <2> QED BY <1>33, AddTaskType, <2>1, <2>2 DEF AlarmExpire, TypeOK, Add
<1>34. ASSUME NEW sig \in Signal, SignalArrives(sig) PROVE TypeOK'
  BY <1>34, StateQueueAssumption DEF SignalArrives, TypeOK, Spend
<1>35. ASSUME NEW ap \in AP, NotifyStateChange(ap) PROVE TypeOK'
  <2> DEFINE next == SignalTask(ap, notify.sig)
             sd == [shutdown EXCEPT ![ap] = @ \/ next \in ShuttingDown]
  <2>1. next \in States \cup {"ST_INVAL"}
    BY DEF SignalTask, States
  <2>2. sd \in [AP -> BOOLEAN] /\ task[ap] \in Task
    BY DEF TypeOK
  <2>3. notify' \in [sig: Signal \cup {"none"}, todo: SUBSET AP]
    BY <1>35 DEF NotifyStateChange, NotifyDone, TypeOK
  <2>4. CASE next = "ST_INVAL"
    BY <1>35, <2>3, <2>4 DEF NotifyStateChange, TypeOK
  <2>5. CASE next # "ST_INVAL"
    <3>1. AddTask(ap, next, task[ap], sd)
      BY <1>35, <2>5 DEF NotifyStateChange
    <3> QED BY <1>35, <2>1, <2>2, <2>3, <2>5, <3>1, AddTaskType
            DEF NotifyStateChange, TypeOK
  <2> QED BY <2>4, <2>5
<1>36. ASSUME NEW ap \in AP, NotifyHup(ap) PROVE TypeOK'
  <2>1. PICK st \in {"ST_READMAP", "ST_SHUTDOWN_PENDING"} : Add(ap, st)
    BY <1>36 DEF NotifyHup
  <2>2. st \in States
    BY DEF States
  <2>3. notify' \in [sig: Signal \cup {"none"}, todo: SUBSET AP]
    BY <1>36 DEF NotifyHup, NotifyDone, TypeOK
  <2>4. task[ap] \in Task
    BY DEF TypeOK
  <2> QED BY <1>36, <2>1, <2>2, <2>3, <2>4, AddTaskType DEF NotifyHup, TypeOK, Add
<1>37. ASSUME NEW ap \in AP, MapUpdate(ap) PROVE TypeOK'
  <2>1. "ST_READMAP" \in States
    BY <1>37 DEF MapUpdate, TypeOK, States
  <2>2. task[ap] \in Task /\ ap \in AP
    BY <1>37, StateQueueAssumption DEF MapUpdate, TypeOK
  <2> QED BY <1>37, AddTaskType, StateQueueAssumption, <2>1, <2>2 DEF MapUpdate, TypeOK, Add, Spend
<1>38. CASE UNCHANGED vars
  BY <1>38 DEF TypeOK, vars
<1> QED
  BY <1>1, <1>2, <1>3, <1>4, <1>5, <1>6, <1>7, <1>8, <1>9, <1>10, <1>11, <1>12, <1>13, <1>14, <1>15, <1>16, <1>17, <1>18, <1>19, <1>20, <1>21, <1>22, <1>23, <1>24, <1>25, <1>26, <1>27, <1>28, <1>29, <1>30, <1>31, <1>32, <1>33, <1>34, <1>35, <1>36, <1>37, <1>38
  DEF Next, HandlerNext, WorkerNext, ExitNext, NotifyNext, AlarmNext, RequestNext

\* The initial state is well typed.
LEMMA InitType == Init => TypeOK
<1> SUFFICES ASSUME Init PROVE TypeOK
  OBVIOUS
<1>1. state \in [AP -> States] /\ task \in [AP -> Task] /\ thread \in [Tid -> Worker]
  BY RecordTypes DEF Init, States
<1>2. notify \in [sig: Signal \cup {"none"}, todo: SUBSET AP] /\ requests \in 0..MaxRequests
  BY StateQueueAssumption DEF Init
<1>3. mpc \in [AP -> {"none", "serve", "exit", "remove", "waittask", "umount",
                     "ready", "gone"}]
  BY DEF Init
<1> QED BY <1>1, <1>2, <1>3 DEF Init, TypeOK

\* Type correctness: the queue, the threads and the mount points always have
\* the shape the code gives them.
THEOREM TypeCorrect == Spec => []TypeOK
<1>1. TypeOK /\ [Next]_vars => TypeOK'
  BY TypeStep
<1> QED BY <1>1, InitType, PTL DEF Spec

-----------------------------------------------------------------------------
(* The queue invariant. *)

\* A step that starts and ends no worker ...
SameWorkers ==
  /\ exp_thread' = exp_thread
  /\ readmap_thread' = readmap_thread
  /\ \A t \in Tid :
       /\ thread'[t].pc = "none" <=> thread[t].pc = "none"
       /\ thread'[t].ap = thread[t].ap
       /\ thread'[t].readmap = thread[t].readmap

\* ... and starts, ends and removes no task.
SameTasks ==
  \A ap \in AP :
    /\ task'[ap].busy = task[ap].busy
    /\ task'[ap].done = task[ap].done
    /\ task'[ap].thid = task[ap].thid
    /\ task[ap].busy => task'[ap].state = task[ap].state

\* A step that brings no ap into a transient state.
NoNewState == \A ap \in AP : state'[ap] \in TaskState => state'[ap] = state[ap]

\* A step that pokes the handler if it queues anything.
Pokes ==
  /\ hpc' = hpc /\ scan' = scan
  /\ signaled => signaled'
  /\ \/ \A ap \in AP : task'[ap].state = "ST_INVAL" <=> task[ap].state = "ST_INVAL"
     \/ MutexFree /\ signaled'

\* Such steps keep the parts of the invariant about tasks and workers ...
LEMMA Frame ==
  ASSUME QueueInv, TypeOK', SameWorkers, SameTasks, NoNewState
  PROVE  TaskShape' /\ WorkerOwnsTask' /\ BusyHasWorker' /\ TransientHasWorker'
<1>1. TaskShape'
  BY DEF QueueInv, SameTasks, TaskShape
<1>2. WorkerOwnsTask'
  <2> SUFFICES ASSUME NEW t \in Tid, thread'[t].pc # "none"
               PROVE  LET w == thread'[t]
                          tk == task'[w.ap]
                      IN /\ tk.busy /\ ~tk.done /\ tk.thid = t
                         /\ w.readmap <=> tk.state = "ST_READMAP"
                         /\ IF w.readmap THEN readmap_thread'[w.ap] = t
                                         ELSE exp_thread'[w.ap] = t
    BY DEF WorkerOwnsTask, Live
  <2>1. thread[t].ap \in AP
    BY DEF QueueInv, TypeOK, Worker
  <2>2. Live(t) /\ thread'[t].ap = thread[t].ap /\ thread'[t].readmap = thread[t].readmap
    BY DEF SameWorkers, Live
  <2> QED BY <2>1, <2>2 DEF QueueInv, SameTasks, SameWorkers, WorkerOwnsTask
<1>3. BusyHasWorker'
  BY DEF QueueInv, SameTasks, SameWorkers, BusyHasWorker, Live
<1>4. TransientHasWorker'
  BY DEF QueueInv, SameTasks, NoNewState, TransientHasWorker
<1> QED BY <1>1, <1>2, <1>3, <1>4

\* ... and the parts about the handler, if it is poked.
LEMMA PokeFrame ==
  ASSUME QueueInv, SameTasks, Pokes
  PROVE  PassCoversQueue' /\ NoLostWakeup'
BY DEF QueueInv, SameTasks, Pokes, PassCoversQueue, NoLostWakeup, Queued, MutexFree

\* __st_add_task() on a task as it stands: the running part of every task is
\* left alone, no transient state is entered, the handler is poked when
\* something was queued, and ST_SHUTDOWN comes with a SIGCONT.
LEMMA AddTaskEffect ==
  ASSUME QueueInv, NEW ap \in AP, NEW st \in States, NEW sd \in [AP -> BOOLEAN],
         AddTask(ap, st, task[ap], sd)
  PROVE  /\ SameTasks
         /\ NoNewState
         /\ signaled => signaled'
         /\ signaled' \/ task' = task
         /\ \A a \in AP : sigcont[a] => sigcont'[a]
         /\ \A a \in AP : state'[a] = "ST_SHUTDOWN" =>
              state[a] = "ST_SHUTDOWN" \/ sigcont'[a]
<1> DEFINE ready == st = "ST_READY"
           over == ~ready /\ state[ap] = "ST_SHUTDOWN"
           stop == ~over /\ st = "ST_SHUTDOWN"
           new(ok) == IF ready \/ over \/ stop THEN task[ap]
                      ELSE Enqueue(task[ap], state[ap], st, ok)
<1>1. PICK ok \in Alloc :
        /\ state' = [state EXCEPT ![ap] = IF ready \/ stop THEN st ELSE @]
        /\ task' = [task EXCEPT ![ap] = new(ok)]
        /\ sigcont' = [sigcont EXCEPT ![ap] = @ \/ stop]
        /\ signaled' = (signaled \/ ~(over \/ stop))
  BY DEF AddTask
<1>2. /\ TypeOK /\ TaskShape
      /\ task[ap] \in Task
  BY DEF QueueInv, TypeOK
<1>3. /\ new(ok).busy = task[ap].busy
      /\ new(ok).done = task[ap].done
      /\ new(ok).thid = task[ap].thid
      /\ task[ap].busy => new(ok).state = task[ap].state
  BY <1>2 DEF Enqueue, NewTask, NoTask, TaskShape, Task
<1>4. SameTasks
  BY <1>1, <1>2, <1>3 DEF SameTasks, TypeOK
<1>5. NoNewState
  BY <1>1, <1>2 DEF NoNewState, TypeOK, TaskState
<1>6. (signaled => signaled') /\ (signaled' \/ task' = task)
  BY <1>1, <1>2 DEF TypeOK
<1>7. \A a \in AP : sigcont[a] => sigcont'[a]
  BY <1>1, <1>2 DEF TypeOK
<1>8. \A a \in AP : state'[a] = "ST_SHUTDOWN" => state[a] = "ST_SHUTDOWN" \/ sigcont'[a]
  BY <1>1, <1>2 DEF TypeOK
<1> QED BY <1>4, <1>5, <1>6, <1>7, <1>8
\* Removing a task that has no running worker, or replacing it by the next
\* pending one, which the pass has still to visit.
LEMMA RemoveEffect ==
  ASSUME QueueInv, TypeOK', NEW ap \in AP, Visit(ap), Remove(ap),
         ~(task[ap].busy /\ ~task[ap].done),
         UNCHANGED <<threadVars, hpc>>, NoNewState,
         \A a \in AP \ {ap} : state'[a] = state[a]
  PROVE  /\ TaskShape' /\ WorkerOwnsTask' /\ BusyHasWorker'
         /\ PassCoversQueue' /\ NoLostWakeup' /\ TransientHasWorker'
<1> DEFINE next == IF hpc = "first" \/ task[ap].pending = <<>>
                   THEN NoTask ELSE NewTask(Head(task[ap].pending))
<1>1. /\ task' = [task EXCEPT ![ap] = next]
      /\ scan' = IF next = NoTask THEN scan \ {ap}
                 ELSE IF scan = {ap} THEN Queued(task) ELSE scan
  BY DEF Remove
<1>2. /\ TypeOK /\ TaskShape /\ WorkerOwnsTask /\ BusyHasWorker
      /\ PassCoversQueue /\ NoLostWakeup /\ TransientHasWorker
  BY DEF QueueInv
<1>3. ~next.busy /\ ~next.done /\ next.thid = NoTid
  BY DEF NoTask, NewTask
<1>4. task'[ap] = next /\ \A a \in AP \ {ap} : task'[a] = task[a]
  BY <1>1, <1>2 DEF TypeOK
<1>5. TaskShape'
  BY <1>2, <1>3, <1>4 DEF TaskShape
<1>6. \A t \in Tid : Live(t) => thread[t].ap \in AP \ {ap}
  BY <1>2 DEF WorkerOwnsTask, TypeOK, Worker
<1>7. WorkerOwnsTask'
  BY <1>2, <1>4, <1>6 DEF WorkerOwnsTask, Live, threadVars
<1>8. BusyHasWorker'
  BY <1>2, <1>3, <1>4 DEF BusyHasWorker, Live, threadVars
<1>9. TransientHasWorker'
  BY <1>2, <1>4 DEF TransientHasWorker, NoNewState
<1>10. hpc \in {"first", "scan"} /\ ap \in scan /\ ap \in Queued(task)
  BY DEF Visit
<1>11. \A a \in AP : a \in Queued(task)' => a \in scan' \/ task'[a].busy
  <2> SUFFICES ASSUME NEW a \in AP, a \in Queued(task)', ~task'[a].busy
               PROVE  a \in scan'
    OBVIOUS
  <2>1. CASE a = ap
    BY <1>1, <1>4, <1>10, <2>1 DEF Queued, NoTask
  <2>2. CASE a # ap
    BY <1>1, <1>2, <1>4, <1>10, <2>2 DEF Queued, PassCoversQueue
  <2> QED BY <2>1, <2>2
<1>12. PassCoversQueue' /\ NoLostWakeup'
  BY <1>10, <1>11 DEF PassCoversQueue, NoLostWakeup, Queued
<1> QED BY <1>5, <1>7, <1>8, <1>9, <1>12

\* __st_add_task() on a task that is in the queue: only its pending list grows.
LEMMA AddToBusy ==
  ASSUME TypeOK, NEW ap \in AP, NEW st \in States, NEW tk \in Task,
         tk.state # "ST_INVAL", AddTask(ap, st, tk, shutdown)
  PROVE  /\ task'[ap].busy = tk.busy /\ task'[ap].done = tk.done
         /\ task'[ap].thid = tk.thid /\ task'[ap].state = tk.state
         /\ \A a \in AP \ {ap} : task'[a] = task[a] /\ state'[a] = state[a]
         /\ state'[ap] = IF st \in {"ST_READY", "ST_SHUTDOWN"} THEN st ELSE state[ap]
         /\ signaled => signaled'
         /\ \A a \in AP : sigcont[a] => sigcont'[a]
         /\ state'[ap] = "ST_SHUTDOWN" => state[ap] = "ST_SHUTDOWN" \/ sigcont'[ap]
<1> DEFINE ready == st = "ST_READY"
           over == ~ready /\ state[ap] = "ST_SHUTDOWN"
           stop == ~over /\ st = "ST_SHUTDOWN"
           new(ok) == IF ready \/ over \/ stop THEN tk
                      ELSE Enqueue(tk, state[ap], st, ok)
<1>1. PICK ok \in Alloc :
        /\ state' = [state EXCEPT ![ap] = IF ready \/ stop THEN st ELSE @]
        /\ task' = [task EXCEPT ![ap] = new(ok)]
        /\ sigcont' = [sigcont EXCEPT ![ap] = @ \/ stop]
        /\ signaled' = (signaled \/ ~(over \/ stop))
  BY DEF AddTask
<1>2. /\ new(ok).busy = tk.busy /\ new(ok).done = tk.done
      /\ new(ok).thid = tk.thid /\ new(ok).state = tk.state
  BY DEF Enqueue, Task
<1>3. /\ task'[ap] = new(ok)
      /\ \A a \in AP \ {ap} : task'[a] = task[a] /\ state'[a] = state[a]
  BY <1>1 DEF TypeOK
<1>4. state'[ap] = IF st \in {"ST_READY", "ST_SHUTDOWN"} THEN st ELSE state[ap]
  BY <1>1 DEF TypeOK
<1>5. /\ signaled => signaled'
      /\ \A a \in AP : sigcont[a] => sigcont'[a]
      /\ state'[ap] = "ST_SHUTDOWN" => state[ap] = "ST_SHUTDOWN" \/ sigcont'[ap]
  BY <1>1 DEF TypeOK
<1> HIDE DEF new
<1> QED BY <1>2, <1>3, <1>4, <1>5

\* The end of worker t: its ap's task, which it owns, becomes done, and nothing
\* else in the queue runs differently.
LEMMA WorkerEnds ==
  ASSUME QueueInv, TypeOK', NEW t \in Tid, Live(t),
         MutexFree, hpc' = hpc,
         signaled => signaled',
         thread' = [thread EXCEPT ![t] = NoWorker],
         \A a \in AP \ {thread[t].ap} :
           /\ exp_thread'[a] = exp_thread[a]
           /\ readmap_thread'[a] = readmap_thread[a]
           /\ task'[a] = task[a]
           /\ state'[a] = state[a],
         task'[thread[t].ap].busy, task'[thread[t].ap].done,
         task'[thread[t].ap].thid = t,
         task'[thread[t].ap].state # "ST_INVAL",
         state'[thread[t].ap] \in TaskState =>
           thread[t].ap \in Submount /\ state'[thread[t].ap] \in {"ST_EXPIRE", "ST_PRUNE"}
  PROVE  /\ TaskShape' /\ WorkerOwnsTask' /\ BusyHasWorker'
         /\ PassCoversQueue' /\ NoLostWakeup' /\ TransientHasWorker'
<1> DEFINE ap == thread[t].ap
<1>1. /\ TypeOK /\ TaskShape /\ WorkerOwnsTask /\ BusyHasWorker
      /\ PassCoversQueue /\ NoLostWakeup /\ TransientHasWorker
  BY DEF QueueInv
<1>2. ap \in AP
  BY <1>1 DEF TypeOK, Worker
<1>3. NoTid # t
  BY StateQueueAssumption
<1>4. TaskShape'
  BY <1>1, <1>2, <1>3 DEF TaskShape
<1>5. /\ task[ap].thid = t /\ task[ap].busy
      /\ task[ap].state # "ST_INVAL"
  BY <1>1, <1>2 DEF WorkerOwnsTask, TaskShape
<1>6. /\ thread'[t].pc = "none"
      /\ \A u \in Tid \ {t} : thread'[u] = thread[u]
  BY <1>1 DEF TypeOK, NoWorker
<1>7. WorkerOwnsTask'
  <2> SUFFICES ASSUME NEW u \in Tid, thread'[u].pc # "none"
               PROVE  LET w == thread'[u]
                          tk == task'[w.ap]
                      IN /\ tk.busy /\ ~tk.done /\ tk.thid = u
                         /\ w.readmap <=> tk.state = "ST_READMAP"
                         /\ IF w.readmap THEN readmap_thread'[w.ap] = u
                                         ELSE exp_thread'[w.ap] = u
    BY DEF WorkerOwnsTask, Live
  <2>1. u # t /\ thread'[u] = thread[u] /\ Live(u)
    BY <1>6 DEF Live
  <2>2. thread[u].ap \in AP /\ thread[u].ap # ap
    BY <1>1, <1>5, <2>1 DEF WorkerOwnsTask, TypeOK, Worker
  <2> QED BY <1>1, <2>1, <2>2 DEF WorkerOwnsTask
<1>8. BusyHasWorker'
  <2> SUFFICES ASSUME NEW a \in AP, task'[a].busy, ~task'[a].done
               PROVE  /\ task'[a].thid \in Tid
                      /\ thread'[task'[a].thid].pc # "none"
                      /\ thread'[task'[a].thid].ap = a
    BY DEF BusyHasWorker, Live
  <2>1. a # ap /\ task'[a] = task[a]
    BY <1>2
  <2> QED BY <1>1, <1>6, <2>1 DEF BusyHasWorker, Live
<1>9. PassCoversQueue'
  BY DEF PassCoversQueue, MutexFree
<1>10. NoLostWakeup'
  BY <1>1, <1>2, <1>5 DEF NoLostWakeup, Queued
<1>11. TransientHasWorker'
  BY <1>1, <1>2 DEF TransientHasWorker
<1> QED BY <1>4, <1>7, <1>8, <1>9, <1>10, <1>11

\* Every step of the daemon keeps the queue invariant.
LEMMA InvStep ==
  ASSUME QueueInv, [Next]_vars
  PROVE  QueueInv'
<1> USE DEF queueVars, handlerVars, threadVars, alarmVars, envVars
<1>a. TypeOK /\ TypeOK'
  BY TypeStep DEF QueueInv
<1>b. ASSUME SameWorkers, SameTasks, NoNewState, Pokes, ShutdownIsSignaled'
      PROVE  QueueInv'
  BY <1>a, <1>b, Frame, PokeFrame DEF QueueInv
<1>1. CASE HandlerFirst
  <2>1. SameWorkers /\ SameTasks /\ NoNewState
    BY <1>1 DEF HandlerFirst, SameWorkers, SameTasks, NoNewState
  <2>2. PassCoversQueue' /\ NoLostWakeup'
    BY <1>1 DEF HandlerFirst, QueueInv, PassCoversQueue, NoLostWakeup, Queued
  <2>3. ShutdownIsSignaled'
    BY <1>1 DEF HandlerFirst, QueueInv, ShutdownIsSignaled
  <2> QED BY <1>a, <2>1, <2>2, <2>3, Frame DEF QueueInv
<1>2. CASE HandlerPoked
  <2>1. SameWorkers /\ SameTasks /\ NoNewState
    BY <1>2 DEF HandlerPoked, SameWorkers, SameTasks, NoNewState
  <2>2. PassCoversQueue' /\ NoLostWakeup'
    BY <1>2 DEF HandlerPoked, QueueInv, PassCoversQueue, NoLostWakeup, Queued
  <2>3. ShutdownIsSignaled'
    BY <1>2 DEF HandlerPoked, QueueInv, ShutdownIsSignaled
  <2> QED BY <1>a, <2>1, <2>2, <2>3, Frame DEF QueueInv
<1>3. CASE HandlerWait
  <2>1. SameWorkers /\ SameTasks /\ NoNewState
    BY <1>3 DEF HandlerWait, SameWorkers, SameTasks, NoNewState
  <2>2. PassCoversQueue' /\ NoLostWakeup'
    BY <1>3 DEF HandlerWait, QueueInv, PassCoversQueue, NoLostWakeup, Queued
  <2>3. ShutdownIsSignaled'
    BY <1>3 DEF HandlerWait, QueueInv, ShutdownIsSignaled
  <2> QED BY <1>a, <2>1, <2>2, <2>3, Frame DEF QueueInv
<1>4. ASSUME NEW ap \in AP, HandlerStart(ap) PROVE QueueInv'
  <2>1. PICK t \in Tid :
          /\ ~Live(t)
          /\ task' = [task EXCEPT ![ap].busy = TRUE, ![ap].thid = t]
          /\ IF task[ap].state = "ST_READMAP"
               THEN /\ readmap_thread' = [readmap_thread EXCEPT ![ap] = t]
                    /\ thread' = [thread EXCEPT ![t] = NewReadmap(ap)]
                    /\ UNCHANGED exp_thread
               ELSE /\ exp_thread' = [exp_thread EXCEPT ![ap] = t]
                    /\ thread' = [thread EXCEPT ![t] = NewExpire(ap)]
                    /\ UNCHANGED readmap_thread
    BY <1>4 DEF HandlerStart
  <2>2. /\ hpc \in {"first", "scan"} /\ hpc' = hpc
        /\ task[ap].state # "ST_INVAL" /\ ~task[ap].busy
        /\ state' = [state EXCEPT ![ap] = task[ap].state]
        /\ scan' = scan \ {ap}
    BY <1>4 DEF HandlerStart, Visit, Queued, ToStart
  <2>3. /\ task[ap] \in Task /\ ~task[ap].done
        /\ task[ap].state \in TaskState
        /\ t # NoTid
    BY <1>a, <2>2, StateQueueAssumption DEF QueueInv, TypeOK, TaskShape, Task
  <2>4. /\ task'[ap].busy /\ ~task'[ap].done /\ task'[ap].thid = t
        /\ task'[ap].state = task[ap].state
        /\ \A a \in AP \ {ap} : task'[a] = task[a]
    BY <1>a, <2>1, <2>3 DEF TypeOK, Task
  <2>5. /\ thread'[t].pc # "none" /\ thread'[t].ap = ap
        /\ thread'[t].readmap <=> task[ap].state = "ST_READMAP"
        /\ \A u \in Tid \ {t} : thread'[u] = thread[u]
    <3>1. /\ NewReadmap(ap).pc # "none" /\ NewExpire(ap).pc # "none"
          /\ NewReadmap(ap).ap = ap /\ NewExpire(ap).ap = ap
          /\ NewReadmap(ap).readmap /\ ~NewExpire(ap).readmap
      BY DEF NewReadmap, NewExpire, NoWorker
    <3>2. CASE task[ap].state = "ST_READMAP"
      BY <1>a, <2>1, <3>1, <3>2 DEF TypeOK
    <3>3. CASE task[ap].state # "ST_READMAP"
      BY <1>a, <2>1, <3>1, <3>3 DEF TypeOK
    <3> QED BY <3>2, <3>3
  <2>6. \A u \in Tid : Live(u) => u # t /\ thread[u].ap \in AP \ {ap}
    BY <1>a, <2>1, <2>2 DEF QueueInv, WorkerOwnsTask, TypeOK, Worker
  <2>7. TaskShape'
    BY <2>2, <2>3, <2>4 DEF QueueInv, TaskShape
  <2>8. WorkerOwnsTask'
    <3> SUFFICES ASSUME NEW u \in Tid, thread'[u].pc # "none"
                 PROVE  LET w == thread'[u]
                            tk == task'[w.ap]
                        IN /\ tk.busy /\ ~tk.done /\ tk.thid = u
                           /\ w.readmap <=> tk.state = "ST_READMAP"
                           /\ IF w.readmap THEN readmap_thread'[w.ap] = u
                                           ELSE exp_thread'[w.ap] = u
      BY DEF WorkerOwnsTask, Live
    <3>1. CASE u = t
      BY <1>a, <2>1, <2>4, <2>5, <3>1 DEF TypeOK
    <3>2. CASE u # t
      <4>1. Live(u) /\ thread'[u] = thread[u] /\ thread[u].ap \in AP \ {ap}
        BY <2>5, <2>6, <3>2 DEF Live
      <4>2. /\ readmap_thread'[thread[u].ap] = readmap_thread[thread[u].ap]
            /\ exp_thread'[thread[u].ap] = exp_thread[thread[u].ap]
        BY <1>a, <2>1, <4>1 DEF TypeOK
      <4> QED BY <2>4, <4>1, <4>2 DEF QueueInv, WorkerOwnsTask
    <3> QED BY <3>1, <3>2
  <2>9. BusyHasWorker'
    <3> SUFFICES ASSUME NEW a \in AP, task'[a].busy, ~task'[a].done
                 PROVE  /\ task'[a].thid \in Tid
                        /\ thread'[task'[a].thid].pc # "none"
                        /\ thread'[task'[a].thid].ap = a
      BY DEF BusyHasWorker, Live
    <3>1. CASE a = ap
      BY <2>4, <2>5, <3>1
    <3>2. CASE a # ap
      <4>1. task'[a] = task[a]
        BY <2>4, <3>2
      <4> QED BY <2>1, <2>5, <4>1 DEF QueueInv, BusyHasWorker, Live
    <3> QED BY <3>1, <3>2
  <2>10. PassCoversQueue' /\ NoLostWakeup'
    BY <2>2, <2>4 DEF QueueInv, PassCoversQueue, NoLostWakeup, Queued
  <2>11. TransientHasWorker'
    BY <1>a, <2>2, <2>4 DEF QueueInv, TransientHasWorker, TypeOK
  <2>12. ShutdownIsSignaled'
    BY <1>4, <1>a, <2>2, <2>3 DEF HandlerStart, QueueInv, ShutdownIsSignaled, TypeOK, TaskState
  <2> QED BY <1>a, <2>7, <2>8, <2>9, <2>10, <2>11, <2>12 DEF QueueInv
<1>5. ASSUME NEW ap \in AP, HandlerStartFails(ap) PROVE QueueInv'
  <2>1. /\ Visit(ap) /\ Remove(ap) /\ ~task[ap].busy
        /\ UNCHANGED <<threadVars, hpc>>
    BY <1>5 DEF HandlerStartFails, ToStart
  <2>2. NoNewState /\ \A a \in AP \ {ap} : state'[a] = state[a]
    BY <1>5, <1>a DEF HandlerStartFails, NoNewState, TypeOK, TaskState
  <2>3. ShutdownIsSignaled'
    BY <1>5, <1>a DEF HandlerStartFails, QueueInv, ShutdownIsSignaled, TypeOK
  <2> QED BY <1>a, <2>1, <2>2, <2>3, RemoveEffect DEF QueueInv
<1>6. ASSUME NEW ap \in AP, HandlerReap(ap) PROVE QueueInv'
  <2>1. /\ Visit(ap) /\ Remove(ap) /\ Finished(ap)
        /\ UNCHANGED <<threadVars, hpc, state>>
    BY <1>6 DEF HandlerReap
  <2>2. ~(task[ap].busy /\ ~task[ap].done)
    BY <2>1 DEF Finished, QueueInv, TaskShape
  <2>3. NoNewState /\ \A a \in AP \ {ap} : state'[a] = state[a]
    BY <2>1 DEF NoNewState
  <2>4. ShutdownIsSignaled'
    BY <1>6 DEF HandlerReap, QueueInv, ShutdownIsSignaled
  <2> QED BY <1>a, <2>1, <2>2, <2>3, <2>4, RemoveEffect DEF QueueInv
<1>7. ASSUME NEW ap \in AP, HandlerCancel(ap) PROVE QueueInv'
  <2>1. /\ thread' = [thread EXCEPT ![task[ap].thid].cancel = Live(task[ap].thid)]
        /\ task' = [task EXCEPT ![ap].cancel = FALSE]
        /\ task[ap].busy /\ scan' = scan \ {ap}
        /\ hpc \in {"first", "scan"} /\ hpc' = hpc
        /\ UNCHANGED <<state, exp_thread, readmap_thread>>
    BY <1>7 DEF HandlerCancel, Visit
  <2>2. SameWorkers
    BY <1>a, <2>1 DEF SameWorkers, TypeOK, Worker
  <2>3. SameTasks
    BY <1>a, <2>1 DEF SameTasks, TypeOK, Task
  <2>4. NoNewState
    BY <2>1 DEF NoNewState
  <2>5. \A a \in AP : task'[a].state = task[a].state /\ task'[a].busy = task[a].busy
    BY <1>a, <2>1 DEF TypeOK, Task
  <2>6. PassCoversQueue' /\ NoLostWakeup'
    BY <2>1, <2>5 DEF QueueInv, PassCoversQueue, NoLostWakeup, Queued
  <2>7. ShutdownIsSignaled'
    BY <1>7 DEF HandlerCancel, QueueInv, ShutdownIsSignaled
  <2> QED BY <1>a, <2>2, <2>3, <2>4, <2>6, <2>7, Frame DEF QueueInv
<1>8. ASSUME NEW ap \in AP, HandlerSkip(ap) PROVE QueueInv'
  <2>1. SameWorkers /\ SameTasks /\ NoNewState
    BY <1>8 DEF HandlerSkip, SameWorkers, SameTasks, NoNewState
  <2>2. PassCoversQueue' /\ NoLostWakeup'
    BY <1>8 DEF HandlerSkip, Visit, QueueInv, PassCoversQueue, NoLostWakeup, Queued
  <2>3. ShutdownIsSignaled'
    BY <1>8 DEF HandlerSkip, QueueInv, ShutdownIsSignaled
  <2> QED BY <1>a, <2>1, <2>2, <2>3, Frame DEF QueueInv
<1>9. ASSUME NEW t \in Tid, ExpireList(t) PROVE QueueInv'
  <2>1. SameWorkers
    BY <1>9, <1>a DEF ExpireList, Local, SameWorkers, TypeOK, Worker
  <2>2. SameTasks /\ NoNewState /\ Pokes
    BY <1>9 DEF ExpireList, Local, SameTasks, NoNewState, Pokes
  <2>3. ShutdownIsSignaled'
    BY <1>9 DEF ExpireList, Local, QueueInv, ShutdownIsSignaled
  <2> QED BY <1>b, <2>1, <2>2, <2>3
<1>10. ASSUME NEW t \in Tid, NotifyRead(t) PROVE QueueInv'
  <2>1. SameWorkers
    BY <1>10, <1>a DEF NotifyRead, Local, SameWorkers, TypeOK, Worker
  <2>2. SameTasks /\ NoNewState /\ Pokes
    BY <1>10 DEF NotifyRead, Local, SameTasks, NoNewState, Pokes
  <2>3. ShutdownIsSignaled'
    BY <1>10 DEF NotifyRead, Local, QueueInv, ShutdownIsSignaled
  <2> QED BY <1>b, <2>1, <2>2, <2>3
<1>11. ASSUME NEW t \in Tid, NotifyNobody(t) PROVE QueueInv'
  <2>1. SameWorkers
    BY <1>11, <1>a DEF NotifyNobody, Local, SameWorkers, TypeOK, Worker
  <2>2. SameTasks /\ NoNewState /\ Pokes
    BY <1>11 DEF NotifyNobody, Local, SameTasks, NoNewState, Pokes
  <2>3. ShutdownIsSignaled'
    BY <1>11 DEF NotifyNobody, Local, QueueInv, ShutdownIsSignaled
  <2> QED BY <1>b, <2>1, <2>2, <2>3
<1>12. ASSUME NEW t \in Tid, NotifyWaitTask(t) PROVE QueueInv'
  <2>1. SameWorkers
    BY <1>12, <1>a DEF NotifyWaitTask, Local, SameWorkers, TypeOK, Worker
  <2>2. SameTasks /\ NoNewState /\ Pokes
    BY <1>12 DEF NotifyWaitTask, Local, SameTasks, NoNewState, Pokes
  <2>3. ShutdownIsSignaled'
    BY <1>12 DEF NotifyWaitTask, Local, QueueInv, ShutdownIsSignaled
  <2> QED BY <1>b, <2>1, <2>2, <2>3
<1>13. ASSUME NEW t \in Tid, NotifyWaitState(t) PROVE QueueInv'
  <2>1. SameWorkers
    BY <1>13, <1>a DEF NotifyWaitState, Local, SameWorkers, TypeOK, Worker
  <2>2. SameTasks /\ NoNewState /\ Pokes
    BY <1>13 DEF NotifyWaitState, Local, SameTasks, NoNewState, Pokes
  <2>3. ShutdownIsSignaled'
    BY <1>13 DEF NotifyWaitState, Local, QueueInv, ShutdownIsSignaled
  <2> QED BY <1>b, <2>1, <2>2, <2>3
<1>14. ASSUME NEW t \in Tid, Cancelled(t) PROVE QueueInv'
  <2>1. SameWorkers
    BY <1>14, <1>a DEF Cancelled, Local, SameWorkers, TypeOK, Worker
  <2>2. SameTasks /\ NoNewState /\ Pokes
    BY <1>14 DEF Cancelled, Local, SameTasks, NoNewState, Pokes
  <2>3. ShutdownIsSignaled'
    BY <1>14 DEF Cancelled, Local, QueueInv, ShutdownIsSignaled
  <2> QED BY <1>b, <2>1, <2>2, <2>3
<1>15. ASSUME NEW t \in Tid, ReadMap(t) PROVE QueueInv'
  <2>1. SameWorkers
    BY <1>15, <1>a DEF ReadMap, Local, SameWorkers, TypeOK, Worker
  <2>2. SameTasks /\ NoNewState /\ Pokes
    BY <1>15 DEF ReadMap, Local, SameTasks, NoNewState, Pokes
  <2>3. ShutdownIsSignaled'
    BY <1>15 DEF ReadMap, Local, QueueInv, ShutdownIsSignaled
  <2> QED BY <1>b, <2>1, <2>2, <2>3
<1>16. ASSUME NEW t \in Tid, ExpireMounts(t) PROVE QueueInv'
  <2>1. SameWorkers
    BY <1>16, <1>a DEF ExpireMounts, Local, SameWorkers, TypeOK, Worker
  <2>2. SameTasks /\ NoNewState /\ Pokes
    BY <1>16 DEF ExpireMounts, Local, SameTasks, NoNewState, Pokes
  <2>3. ShutdownIsSignaled'
    BY <1>16 DEF ExpireMounts, Local, QueueInv, ShutdownIsSignaled
  <2> QED BY <1>b, <2>1, <2>2, <2>3
<1>17. ASSUME NEW t \in Tid, NotifyAdd(t) PROVE QueueInv'
  <2> DEFINE sm == thread[t].sub
             sd == [shutdown EXCEPT ![sm] = shutdown[thread[t].ap]]
  <2>1. /\ sm \in AP /\ thread[t].arg \in States
        /\ sd \in [AP -> BOOLEAN]
    BY <1>a DEF TypeOK, Worker
  <2>2. AddTask(sm, thread[t].arg, task[sm], sd)
    BY <1>17 DEF NotifyAdd
  <2>3. /\ SameTasks /\ NoNewState
        /\ signaled => signaled'
        /\ signaled' \/ task' = task
        /\ \A a \in AP : sigcont[a] => sigcont'[a]
        /\ \A a \in AP : state'[a] = "ST_SHUTDOWN" =>
             state[a] = "ST_SHUTDOWN" \/ sigcont'[a]
    BY <2>1, <2>2, AddTaskEffect
  <2>4. SameWorkers
    BY <1>17, <1>a DEF NotifyAdd, Local, SameWorkers, TypeOK, Worker
  <2>5. Pokes
    BY <1>17, <2>3 DEF NotifyAdd, Local, Pokes
  <2>6. ShutdownIsSignaled'
    BY <1>17, <2>3 DEF NotifyAdd, Local, QueueInv, ShutdownIsSignaled
  <2> QED BY <1>b, <2>3, <2>4, <2>5, <2>6
<1>18. ASSUME NEW t \in Tid, ExpireCleanup(t) PROVE QueueInv'
  <2> DEFINE ap == thread[t].ap
             old == SetDone(ap)
  <2>1. /\ ap \in AP /\ Live(t) /\ MutexFree /\ ~thread[t].readmap
        /\ exp_thread' = [exp_thread EXCEPT ![ap] = IF @ = t THEN NoTid ELSE @]
        /\ thread' = [thread EXCEPT ![t] = NoWorker]
        /\ UNCHANGED <<hpc, readmap_thread, mpc>>
    <3>1. ap \in AP
      BY <1>a DEF TypeOK, Worker
    <3>2. /\ thread[t].pc = "clean" /\ MutexFree /\ ~thread[t].readmap
          /\ exp_thread' = [exp_thread EXCEPT ![ap] = IF @ = t THEN NoTid ELSE @]
          /\ thread' = [thread EXCEPT ![t] = NoWorker]
      BY <1>18 DEF ExpireCleanup
    <3>3. UNCHANGED <<hpc, readmap_thread, mpc>>
      BY <1>18 DEF ExpireCleanup
    <3> QED BY <3>1, <3>2, <3>3 DEF Live
  <2>2. /\ exp_thread[ap] = t /\ task[ap].busy /\ ~task[ap].done
        /\ task[ap].thid = t /\ task[ap].state # "ST_READMAP"
        /\ task[ap].state # "ST_INVAL" /\ task[ap] \in Task
    BY <1>a, <2>1 DEF QueueInv, WorkerOwnsTask, TaskShape, TypeOK
  <2>3. /\ old.busy /\ old.done /\ old.thid = t /\ old.state = task[ap].state
        /\ old \in Task
    BY <2>2, TaskUpdates DEF SetDone, Task
  <2>4. state[ap] # "ST_READMAP"
    BY <2>1, <2>2 DEF QueueInv, TransientHasWorker, TaskState
  <2>5. PICK ask \in AskUmount(ap) :
          LET next == NextState(ap, thread[t].ok, ask) IN
          IF next = "ST_INVAL"
          THEN /\ task' = [task EXCEPT ![ap] = old]
               /\ UNCHANGED <<state, shutdown, signaled, sigcont>>
          ELSE AddTask(ap, next, old, shutdown)
    BY <1>18, <2>2 DEF ExpireCleanup
  <2> DEFINE next == NextState(ap, thread[t].ok, ask)
  <2>6. /\ next \in {"ST_INVAL", "ST_READY", "ST_SHUTDOWN", "ST_SHUTDOWN_PENDING"}
        /\ next = "ST_INVAL" => state[ap] = "ST_SHUTDOWN"
        /\ next = "ST_SHUTDOWN_PENDING" =>
             ap \in Submount /\ state[ap] \in {"ST_EXPIRE", "ST_PRUNE"}
        /\ next = "ST_SHUTDOWN" => state[ap] # "ST_SHUTDOWN"
    BY <1>a, <2>1, <2>4 DEF NextState, TypeOK, States
  <2> HIDE DEF next
  <2>7. /\ task'[ap].busy /\ task'[ap].done /\ task'[ap].thid = t
        /\ task'[ap].state # "ST_INVAL"
        /\ \A a \in AP \ {ap} : task'[a] = task[a] /\ state'[a] = state[a]
        /\ signaled => signaled'
        /\ state'[ap] \in TaskState =>
             ap \in Submount /\ state'[ap] \in {"ST_EXPIRE", "ST_PRUNE"}
        /\ \A a \in AP : sigcont[a] => sigcont'[a]
        /\ state'[ap] = "ST_SHUTDOWN" => state[ap] = "ST_SHUTDOWN" \/ sigcont'[ap]
    <3>1. CASE next = "ST_INVAL"
      BY <1>a, <2>1, <2>2, <2>3, <2>5, <2>6, <3>1 DEF TypeOK, TaskState, next
    <3>2. CASE next # "ST_INVAL"
      <4>1. AddTask(ap, next, old, shutdown)
        BY <2>5, <3>2 DEF next
      <4>2. next \in States
        BY <2>6, <3>2 DEF States
      <4>3. old.state # "ST_INVAL"
        BY <2>2, <2>3
      <4> HIDE DEF old, ap
      <4>4. /\ task'[ap].busy = old.busy /\ task'[ap].done = old.done
            /\ task'[ap].thid = old.thid /\ task'[ap].state = old.state
            /\ \A a \in AP \ {ap} : task'[a] = task[a] /\ state'[a] = state[a]
            /\ state'[ap] = IF next \in {"ST_READY", "ST_SHUTDOWN"} THEN next ELSE state[ap]
            /\ signaled => signaled'
            /\ \A a \in AP : sigcont[a] => sigcont'[a]
            /\ state'[ap] = "ST_SHUTDOWN" => state[ap] = "ST_SHUTDOWN" \/ sigcont'[ap]
        BY <1>a, <2>1, <2>3, <4>1, <4>2, <4>3, AddToBusy
      <4>5. state'[ap] \in TaskState =>
              ap \in Submount /\ state'[ap] \in {"ST_EXPIRE", "ST_PRUNE"}
        BY <2>6, <3>2, <4>4 DEF TaskState
      <4> QED BY <2>3, <4>3, <4>4, <4>5
    <3> QED BY <3>1, <3>2
  <2>8. \A a \in AP \ {ap} : /\ exp_thread'[a] = exp_thread[a]
                             /\ readmap_thread'[a] = readmap_thread[a]
                             /\ task'[a] = task[a]
                             /\ state'[a] = state[a]
    BY <1>a, <2>1, <2>7 DEF TypeOK
  <2>9. ShutdownIsSignaled'
    BY <2>1, <2>7 DEF QueueInv, ShutdownIsSignaled
  <2>10. /\ TaskShape' /\ WorkerOwnsTask' /\ BusyHasWorker'
         /\ PassCoversQueue' /\ NoLostWakeup' /\ TransientHasWorker'
    BY <1>a, <2>1, <2>7, <2>8, WorkerEnds
  <2> QED BY <1>a, <2>9, <2>10 DEF QueueInv
<1>19. ASSUME NEW t \in Tid, ReadMapCleanup(t) PROVE QueueInv'
  <2> DEFINE ap == thread[t].ap
  <2>1. /\ ap \in AP /\ Live(t) /\ MutexFree /\ thread[t].readmap
        /\ task' = [task EXCEPT ![ap] = SetDone(ap)]
        /\ state' = [state EXCEPT ![ap] = "ST_READY"]
        /\ readmap_thread' = [readmap_thread EXCEPT ![ap] = NoTid]
        /\ thread' = [thread EXCEPT ![t] = NoWorker]
        /\ UNCHANGED <<hpc, exp_thread, mpc, signaled, sigcont>>
    BY <1>19, <1>a DEF ReadMapCleanup, TypeOK, Worker, Live
  <2>2. /\ task[ap].busy /\ task[ap].thid = t
        /\ task[ap].state # "ST_INVAL" /\ task[ap] \in Task
    BY <1>a, <2>1 DEF QueueInv, WorkerOwnsTask, TaskShape, TypeOK
  <2>3. /\ task'[ap].busy /\ task'[ap].done /\ task'[ap].thid = t
        /\ task'[ap].state # "ST_INVAL"
    BY <1>a, <2>1, <2>2 DEF SetDone, Task, TypeOK
  <2>4. \A a \in AP \ {ap} : /\ exp_thread'[a] = exp_thread[a]
                             /\ readmap_thread'[a] = readmap_thread[a]
                             /\ task'[a] = task[a]
                             /\ state'[a] = state[a]
    BY <1>a, <2>1 DEF TypeOK
  <2>5. state'[ap] \notin TaskState
    BY <1>a, <2>1 DEF TypeOK, TaskState
  <2>6. ShutdownIsSignaled'
    BY <1>a, <2>1 DEF QueueInv, ShutdownIsSignaled, TypeOK
  <2>7. /\ TaskShape' /\ WorkerOwnsTask' /\ BusyHasWorker'
        /\ PassCoversQueue' /\ NoLostWakeup' /\ TransientHasWorker'
    BY <1>a, <2>1, <2>3, <2>4, <2>5, WorkerEnds
  <2> QED BY <1>a, <2>6, <2>7 DEF QueueInv
<1>20. ASSUME NEW ap \in AP, GotSigcont(ap) PROVE QueueInv'
  <2>1. SameWorkers /\ SameTasks /\ NoNewState /\ Pokes
    BY <1>20 DEF GotSigcont, SameWorkers, SameTasks, NoNewState, Pokes
  <2>2. ShutdownIsSignaled'
    BY <1>20, <1>a DEF GotSigcont, QueueInv, ShutdownIsSignaled, TypeOK
  <2> QED BY <1>b, <2>1, <2>2
<1>21. ASSUME NEW ap \in AP, SeenShutdown(ap) PROVE QueueInv'
  <2>1. SameWorkers /\ SameTasks /\ NoNewState /\ Pokes
    BY <1>21 DEF SeenShutdown, SameWorkers, SameTasks, NoNewState, Pokes
  <2>2. ShutdownIsSignaled'
    BY <1>21, <1>a DEF SeenShutdown, QueueInv, ShutdownIsSignaled, TypeOK
  <2> QED BY <1>b, <2>1, <2>2
<1>22. ASSUME NEW ap \in AP, PacketFails(ap) PROVE QueueInv'
  <2>1. SameWorkers /\ SameTasks /\ NoNewState /\ Pokes
    BY <1>22 DEF PacketFails, SameWorkers, SameTasks, NoNewState, Pokes
  <2>2. ShutdownIsSignaled'
    BY <1>22, <1>a DEF PacketFails, QueueInv, ShutdownIsSignaled, TypeOK
  <2> QED BY <1>b, <2>1, <2>2
<1>23. ASSUME NEW ap \in AP, ExitReturn(ap) PROVE QueueInv'
  <2>1. SameWorkers /\ SameTasks /\ NoNewState /\ Pokes
    BY <1>23 DEF ExitReturn, SameWorkers, SameTasks, NoNewState, Pokes
  <2>2. ShutdownIsSignaled'
    BY <1>23, <1>a DEF ExitReturn, QueueInv, ShutdownIsSignaled, TypeOK
  <2> QED BY <1>b, <2>1, <2>2
<1>24. ASSUME NEW ap \in AP, ExitAlarm(ap) PROVE QueueInv'
  <2>1. SameWorkers /\ SameTasks /\ NoNewState /\ Pokes
    BY <1>24 DEF ExitAlarm, SameWorkers, SameTasks, NoNewState, Pokes
  <2>2. ShutdownIsSignaled'
    BY <1>24, <1>a DEF ExitAlarm, QueueInv, ShutdownIsSignaled, TypeOK
  <2> QED BY <1>b, <2>1, <2>2
<1>25. ASSUME NEW ap \in AP, ExitWait(ap) PROVE QueueInv'
  <2>1. SameWorkers /\ SameTasks /\ NoNewState /\ Pokes
    BY <1>25 DEF ExitWait, SameWorkers, SameTasks, NoNewState, Pokes
  <2>2. ShutdownIsSignaled'
    BY <1>25, <1>a DEF ExitWait, QueueInv, ShutdownIsSignaled, TypeOK
  <2> QED BY <1>b, <2>1, <2>2
<1>26. ASSUME NEW ap \in AP, ExitGone(ap) PROVE QueueInv'
  <2>1. SameWorkers /\ SameTasks /\ NoNewState /\ Pokes
    BY <1>26 DEF ExitGone, SameWorkers, SameTasks, NoNewState, Pokes
  <2>2. ShutdownIsSignaled'
    BY <1>26, <1>a DEF ExitGone, QueueInv, ShutdownIsSignaled, TypeOK
  <2> QED BY <1>b, <2>1, <2>2
<1>27. ASSUME NEW ap \in AP, ExitBusy(ap) PROVE QueueInv'
  <2>1. SameWorkers /\ SameTasks /\ NoNewState /\ Pokes
    BY <1>27 DEF ExitBusy, SameWorkers, SameTasks, NoNewState, Pokes
  <2>2. ShutdownIsSignaled'
    BY <1>27, <1>a DEF ExitBusy, QueueInv, ShutdownIsSignaled, TypeOK
  <2> QED BY <1>b, <2>1, <2>2
<1>28. ASSUME NEW ap \in AP, MountDone(ap) PROVE QueueInv'
  <2>1. SameWorkers /\ SameTasks /\ NoNewState /\ Pokes
    BY <1>28 DEF MountDone, SameWorkers, SameTasks, NoNewState, Pokes
  <2>2. ShutdownIsSignaled'
    BY <1>28, <1>a DEF MountDone, QueueInv, ShutdownIsSignaled, TypeOK
  <2> QED BY <1>b, <2>1, <2>2
<1>29. ASSUME NEW ap \in AP, AlarmFires(ap) PROVE QueueInv'
  <2>1. SameWorkers /\ SameTasks /\ NoNewState /\ Pokes
    BY <1>29 DEF AlarmFires, SameWorkers, SameTasks, NoNewState, Pokes
  <2>2. ShutdownIsSignaled'
    BY <1>29, <1>a DEF AlarmFires, QueueInv, ShutdownIsSignaled, TypeOK
  <2> QED BY <1>b, <2>1, <2>2
<1>30. ASSUME NEW sig \in Signal, SignalArrives(sig) PROVE QueueInv'
  <2>1. SameWorkers /\ SameTasks /\ NoNewState /\ Pokes
    BY <1>30 DEF SignalArrives, SameWorkers, SameTasks, NoNewState, Pokes
  <2>2. ShutdownIsSignaled'
    BY <1>30 DEF SignalArrives, QueueInv, ShutdownIsSignaled
  <2> QED BY <1>b, <2>1, <2>2
<1>31. ASSUME NEW ap \in AP, ExitRemove(ap) PROVE QueueInv'
  <2>1. /\ SameWorkers /\ NoNewState
        /\ signaled => signaled'
        /\ hpc' = hpc /\ scan' = scan
    BY <1>31 DEF ExitRemove, RemoveTasks, SameWorkers, NoNewState
  <2>2. \A a \in AP : /\ task'[a].busy = task[a].busy
                      /\ task'[a].done = task[a].done
                      /\ task'[a].thid = task[a].thid
                      /\ task'[a].state = task[a].state
    BY <1>31, <1>a DEF ExitRemove, RemoveTasks, TypeOK, Task
  <2>3. SameTasks /\ Pokes
    BY <2>1, <2>2 DEF SameTasks, Pokes
  <2>4. ShutdownIsSignaled'
    BY <1>31, <1>a DEF ExitRemove, RemoveTasks, QueueInv, ShutdownIsSignaled, TypeOK
  <2> QED BY <1>b, <2>1, <2>3, <2>4
<1>32. ASSUME NEW ap \in AP, ExitReady(ap) PROVE QueueInv'
  <2>2. /\ ap \in AP /\ "ST_READY" \in States /\ shutdown \in [AP -> BOOLEAN]
        /\ AddTask(ap, "ST_READY", task[ap], shutdown) /\ MutexFree
    BY <1>32, <1>a, StateQueueAssumption DEF ExitReady, Add, TypeOK, States
  <2>3. /\ SameTasks /\ NoNewState
        /\ signaled => signaled'
        /\ signaled' \/ task' = task
        /\ \A a \in AP : sigcont[a] => sigcont'[a]
        /\ \A a \in AP : state'[a] = "ST_SHUTDOWN" =>
             state[a] = "ST_SHUTDOWN" \/ sigcont'[a]
    BY <2>2, AddTaskEffect
  <2>4. SameWorkers /\ Pokes
    BY <1>32, <2>2, <2>3 DEF ExitReady, SameWorkers, Pokes
  <2>5. ShutdownIsSignaled'
    BY <1>32, <1>a, <2>2, <2>3 DEF ExitReady, QueueInv, ShutdownIsSignaled, AddTask, TypeOK
  <2> QED BY <1>b, <2>3, <2>4, <2>5
<1>33. ASSUME NEW sm \in Submount, SubmountStarts(sm) PROVE QueueInv'
  <2>2. /\ sm \in AP /\ "ST_READY" \in States /\ shutdown \in [AP -> BOOLEAN]
        /\ AddTask(sm, "ST_READY", task[sm], shutdown) /\ MutexFree
    BY <1>33, <1>a, StateQueueAssumption DEF SubmountStarts, Add, TypeOK, States
  <2>3. /\ SameTasks /\ NoNewState
        /\ signaled => signaled'
        /\ signaled' \/ task' = task
        /\ \A a \in AP : sigcont[a] => sigcont'[a]
        /\ \A a \in AP : state'[a] = "ST_SHUTDOWN" =>
             state[a] = "ST_SHUTDOWN" \/ sigcont'[a]
    BY <2>2, AddTaskEffect
  <2>4. SameWorkers /\ Pokes
    BY <1>33, <2>2, <2>3 DEF SubmountStarts, SameWorkers, Pokes
  <2>5. ShutdownIsSignaled'
    BY <1>33, <1>a, <2>2, <2>3 DEF SubmountStarts, QueueInv, ShutdownIsSignaled, AddTask, TypeOK
  <2> QED BY <1>b, <2>3, <2>4, <2>5
<1>34. ASSUME NEW ap \in AP, AlarmExpire(ap) PROVE QueueInv'
  <2>2. /\ ap \in AP /\ "ST_EXPIRE" \in States /\ shutdown \in [AP -> BOOLEAN]
        /\ AddTask(ap, "ST_EXPIRE", task[ap], shutdown) /\ MutexFree
    BY <1>34, <1>a, StateQueueAssumption DEF AlarmExpire, Add, TypeOK, States
  <2>3. /\ SameTasks /\ NoNewState
        /\ signaled => signaled'
        /\ signaled' \/ task' = task
        /\ \A a \in AP : sigcont[a] => sigcont'[a]
        /\ \A a \in AP : state'[a] = "ST_SHUTDOWN" =>
             state[a] = "ST_SHUTDOWN" \/ sigcont'[a]
    BY <2>2, AddTaskEffect
  <2>4. SameWorkers /\ Pokes
    BY <1>34, <2>2, <2>3 DEF AlarmExpire, SameWorkers, Pokes
  <2>5. ShutdownIsSignaled'
    BY <1>34, <1>a, <2>2, <2>3 DEF AlarmExpire, QueueInv, ShutdownIsSignaled
  <2> QED BY <1>b, <2>3, <2>4, <2>5
<1>35. ASSUME NEW ap \in AP, NotifyHup(ap) PROVE QueueInv'
  <2>1. PICK st \in {"ST_READMAP", "ST_SHUTDOWN_PENDING"} : Add(ap, st)
    BY <1>35 DEF NotifyHup
  <2>2. /\ ap \in AP /\ st \in States /\ shutdown \in [AP -> BOOLEAN]
        /\ AddTask(ap, st, task[ap], shutdown) /\ MutexFree
    BY <1>35, <1>a, <2>1, StateQueueAssumption DEF NotifyHup, Add, TypeOK, States
  <2>3. /\ SameTasks /\ NoNewState
        /\ signaled => signaled'
        /\ signaled' \/ task' = task
        /\ \A a \in AP : sigcont[a] => sigcont'[a]
        /\ \A a \in AP : state'[a] = "ST_SHUTDOWN" =>
             state[a] = "ST_SHUTDOWN" \/ sigcont'[a]
    BY <2>2, AddTaskEffect
  <2>4. SameWorkers /\ Pokes
    BY <1>35, <2>2, <2>3 DEF NotifyHup, SameWorkers, Pokes
  <2>5. ShutdownIsSignaled'
    BY <1>35, <1>a, <2>2, <2>3 DEF NotifyHup, QueueInv, ShutdownIsSignaled
  <2> QED BY <1>b, <2>3, <2>4, <2>5
<1>36. ASSUME NEW ap \in AP, MapUpdate(ap) PROVE QueueInv'
  <2>2. /\ ap \in AP /\ "ST_READMAP" \in States /\ shutdown \in [AP -> BOOLEAN]
        /\ AddTask(ap, "ST_READMAP", task[ap], shutdown) /\ MutexFree
    BY <1>36, <1>a, StateQueueAssumption DEF MapUpdate, Add, TypeOK, States
  <2>3. /\ SameTasks /\ NoNewState
        /\ signaled => signaled'
        /\ signaled' \/ task' = task
        /\ \A a \in AP : sigcont[a] => sigcont'[a]
        /\ \A a \in AP : state'[a] = "ST_SHUTDOWN" =>
             state[a] = "ST_SHUTDOWN" \/ sigcont'[a]
    BY <2>2, AddTaskEffect
  <2>4. SameWorkers /\ Pokes
    BY <1>36, <2>2, <2>3 DEF MapUpdate, SameWorkers, Pokes
  <2>5. ShutdownIsSignaled'
    BY <1>36, <1>a, <2>2, <2>3 DEF MapUpdate, QueueInv, ShutdownIsSignaled
  <2> QED BY <1>b, <2>3, <2>4, <2>5
<1>37. ASSUME NEW ap \in AP, NotifyStateChange(ap) PROVE QueueInv'
  <2> DEFINE next == SignalTask(ap, notify.sig)
             sd == [shutdown EXCEPT ![ap] = @ \/ next \in ShuttingDown]
  <2>1. SameWorkers /\ hpc' = hpc /\ scan' = scan /\ MutexFree /\ mpc' = mpc
    BY <1>37 DEF NotifyStateChange, SameWorkers
  <2>2. CASE next = "ST_INVAL"
    <3>1. SameTasks /\ NoNewState /\ Pokes
      BY <1>37, <2>1, <2>2 DEF NotifyStateChange, SameTasks, NoNewState, Pokes
    <3>2. ShutdownIsSignaled'
      BY <1>37, <2>1, <2>2 DEF NotifyStateChange, QueueInv, ShutdownIsSignaled
    <3> QED BY <1>b, <2>1, <3>1, <3>2
  <2>3. CASE next # "ST_INVAL"
    <3>0. next \in States \cup {"ST_INVAL"}
      BY DEF SignalTask, States
    <3>1. next \in States /\ sd \in [AP -> BOOLEAN]
      BY <1>a, <2>3, <3>0 DEF TypeOK
    <3>2. AddTask(ap, next, task[ap], sd)
      BY <1>37, <2>3 DEF NotifyStateChange
    <3>3. /\ SameTasks /\ NoNewState
          /\ signaled => signaled'
          /\ signaled' \/ task' = task
          /\ \A a \in AP : sigcont[a] => sigcont'[a]
          /\ \A a \in AP : state'[a] = "ST_SHUTDOWN" =>
               state[a] = "ST_SHUTDOWN" \/ sigcont'[a]
      BY <3>1, <3>2, AddTaskEffect
    <3>4. Pokes
      BY <2>1, <3>3 DEF Pokes
    <3>5. ShutdownIsSignaled'
      BY <2>1, <3>3 DEF QueueInv, ShutdownIsSignaled
    <3> QED BY <1>b, <2>1, <3>3, <3>4, <3>5
  <2> QED BY <2>2, <2>3
<1>38. CASE UNCHANGED vars
  BY <1>38 DEF vars, QueueInv, TypeOK, TaskShape, WorkerOwnsTask, BusyHasWorker,
            PassCoversQueue, NoLostWakeup, TransientHasWorker, ShutdownIsSignaled,
            Live, Queued
<1> QED
  BY <1>1, <1>2, <1>3, <1>4, <1>5, <1>6, <1>7, <1>8, <1>9, <1>10, <1>11, <1>12, <1>13, <1>14, <1>15, <1>16, <1>17, <1>18, <1>19, <1>20, <1>21, <1>22, <1>23, <1>24, <1>25, <1>26, <1>27, <1>28, <1>29, <1>30, <1>31, <1>32, <1>33, <1>34, <1>35, <1>36, <1>37, <1>38
  DEF Next, HandlerNext, WorkerNext, ExitNext, NotifyNext, AlarmNext, RequestNext

\* The inductive invariant holds throughout.
THEOREM QueueCorrect == Spec => []QueueInv
<1>1. Init => QueueInv
  <2> SUFFICES ASSUME Init PROVE QueueInv
    OBVIOUS
  <2>1. TypeOK
    BY InitType
  <2>2. TaskShape /\ BusyHasWorker /\ PassCoversQueue /\ NoLostWakeup
    BY DEF Init, TaskShape, BusyHasWorker, PassCoversQueue, NoLostWakeup, NoTask
  <2>3. WorkerOwnsTask /\ TransientHasWorker /\ ShutdownIsSignaled
    BY DEF Init, WorkerOwnsTask, TransientHasWorker, ShutdownIsSignaled, Live,
           NoWorker, TaskState
  <2> QED BY <2>1, <2>2, <2>3 DEF QueueInv
<1>2. QueueInv /\ [Next]_vars => QueueInv'
  BY InvStep
<1> QED BY <1>1, <1>2, PTL DEF Spec

\* An ap never has two workers, and st_set_done() marks the task of the worker
\* that ends: expire_proc() and st_readmap() find exp_thread and readmap_thread
\* clear.
THEOREM WorkersOwnTasks == Spec => []WorkerOwnsTask
<1>1. QueueInv => WorkerOwnsTask
  BY DEF QueueInv
<1> QED BY <1>1, QueueCorrect, PTL

\* A started task that is not done has a running thread, whatever fails and
\* whenever it is cancelled.
THEOREM BusyTasksHaveWorkers == Spec => []BusyHasWorker
<1>1. QueueInv => BusyHasWorker
  BY DEF QueueInv
<1> QED BY <1>1, QueueCorrect, PTL

\* st_queue_handler() never sleeps without a poke on the way while a task waits
\* to be started.
THEOREM NoWakeupIsLost == Spec => []NoLostWakeup
<1>1. QueueInv => NoLostWakeup
  BY DEF QueueInv
<1> QED BY <1>1, QueueCorrect, PTL

\* No ap is left behind in a transient state, except a submount waiting for the
\* shutdown it has queued.
THEOREM TransientStatesHaveWorkers == Spec => []TransientHasWorker
<1>1. QueueInv => TransientHasWorker
  BY DEF QueueInv
<1> QED BY <1>1, QueueCorrect, PTL

\* handle_mounts() always gets the SIGCONT that tells it of a shutdown.
THEOREM ShutdownsAreSignaled == Spec => []ShutdownIsSignaled
<1>1. QueueInv => ShutdownIsSignaled
  BY DEF QueueInv
<1> QED BY <1>1, QueueCorrect, PTL

-----------------------------------------------------------------------------
(* The alarms. *)

\* conditional_alarm_add() sets an alarm where there is none, or does nothing.
LEMMA ConditionalAlarmStep ==
  ASSUME NEW ap \in AP, NEW has, alarm' = ConditionalAlarm(ap, has), firing' = firing
  PROVE  [Alarms!Next]_(Alarms!vars)
BY DEF ConditionalAlarm, Alarms!Next, Alarms!Add, Alarms!vars

\* Every step of the daemon uses the alarms as AlarmAbs allows.
LEMMA AlarmStep ==
  ASSUME TypeOK, [Next]_vars
  PROVE  [Alarms!Next]_(Alarms!vars)
<1> USE DEF queueVars, handlerVars, threadVars, alarmVars, envVars
<1>1. CASE HandlerFirst
  BY <1>1 DEF HandlerFirst, Alarms!vars
<1>2. CASE HandlerPoked
  BY <1>2 DEF HandlerPoked, Alarms!vars
<1>3. CASE HandlerWait
  BY <1>3 DEF HandlerWait, Alarms!vars
<1>4. ASSUME NEW ap \in AP, HandlerStart(ap) PROVE [Alarms!Next]_(Alarms!vars)
  BY <1>4 DEF HandlerStart, Alarms!vars
<1>5. ASSUME NEW ap \in AP, HandlerReap(ap) PROVE [Alarms!Next]_(Alarms!vars)
  BY <1>5 DEF HandlerReap, Alarms!vars
<1>6. ASSUME NEW ap \in AP, HandlerCancel(ap) PROVE [Alarms!Next]_(Alarms!vars)
  BY <1>6 DEF HandlerCancel, Alarms!vars
<1>7. ASSUME NEW ap \in AP, HandlerSkip(ap) PROVE [Alarms!Next]_(Alarms!vars)
  BY <1>7 DEF HandlerSkip, Alarms!vars
<1>8. ASSUME NEW ap \in AP, GotSigcont(ap) PROVE [Alarms!Next]_(Alarms!vars)
  BY <1>8 DEF GotSigcont, Alarms!vars
<1>9. ASSUME NEW ap \in AP, SeenShutdown(ap) PROVE [Alarms!Next]_(Alarms!vars)
  BY <1>9 DEF SeenShutdown, Alarms!vars
<1>10. ASSUME NEW ap \in AP, PacketFails(ap) PROVE [Alarms!Next]_(Alarms!vars)
  BY <1>10 DEF PacketFails, Alarms!vars
<1>11. ASSUME NEW ap \in AP, ExitRemove(ap) PROVE [Alarms!Next]_(Alarms!vars)
  BY <1>11 DEF ExitRemove, Alarms!vars
<1>12. ASSUME NEW ap \in AP, ExitWait(ap) PROVE [Alarms!Next]_(Alarms!vars)
  BY <1>12 DEF ExitWait, Alarms!vars
<1>13. ASSUME NEW ap \in AP, ExitGone(ap) PROVE [Alarms!Next]_(Alarms!vars)
  BY <1>13 DEF ExitGone, Alarms!vars
<1>14. ASSUME NEW ap \in AP, ExitReady(ap) PROVE [Alarms!Next]_(Alarms!vars)
  BY <1>14 DEF ExitReady, Alarms!vars
<1>15. ASSUME NEW ap \in AP, NotifyStateChange(ap) PROVE [Alarms!Next]_(Alarms!vars)
  BY <1>15 DEF NotifyStateChange, Alarms!vars
<1>16. ASSUME NEW ap \in AP, NotifyHup(ap) PROVE [Alarms!Next]_(Alarms!vars)
  BY <1>16 DEF NotifyHup, Alarms!vars
<1>17. ASSUME NEW ap \in AP, MapUpdate(ap) PROVE [Alarms!Next]_(Alarms!vars)
  BY <1>17 DEF MapUpdate, Alarms!vars
<1>18. ASSUME NEW t \in Tid, ExpireList(t) PROVE [Alarms!Next]_(Alarms!vars)
  BY <1>18 DEF ExpireList, Local, Alarms!vars
<1>19. ASSUME NEW t \in Tid, NotifyRead(t) PROVE [Alarms!Next]_(Alarms!vars)
  BY <1>19 DEF NotifyRead, Local, Alarms!vars
<1>20. ASSUME NEW t \in Tid, NotifyAdd(t) PROVE [Alarms!Next]_(Alarms!vars)
  BY <1>20 DEF NotifyAdd, Local, Alarms!vars
<1>21. ASSUME NEW t \in Tid, NotifyNobody(t) PROVE [Alarms!Next]_(Alarms!vars)
  BY <1>21 DEF NotifyNobody, Local, Alarms!vars
<1>22. ASSUME NEW t \in Tid, NotifyWaitTask(t) PROVE [Alarms!Next]_(Alarms!vars)
  BY <1>22 DEF NotifyWaitTask, Local, Alarms!vars
<1>23. ASSUME NEW t \in Tid, NotifyWaitState(t) PROVE [Alarms!Next]_(Alarms!vars)
  BY <1>23 DEF NotifyWaitState, Local, Alarms!vars
<1>24. ASSUME NEW t \in Tid, ExpireMounts(t) PROVE [Alarms!Next]_(Alarms!vars)
  BY <1>24 DEF ExpireMounts, Local, Alarms!vars
<1>25. ASSUME NEW t \in Tid, Cancelled(t) PROVE [Alarms!Next]_(Alarms!vars)
  BY <1>25 DEF Cancelled, Local, Alarms!vars
<1>26. ASSUME NEW t \in Tid, ReadMapCleanup(t) PROVE [Alarms!Next]_(Alarms!vars)
  BY <1>26 DEF ReadMapCleanup, Local, Alarms!vars
<1>27. ASSUME NEW sig \in Signal, SignalArrives(sig) PROVE [Alarms!Next]_(Alarms!vars)
  BY <1>27 DEF SignalArrives, Alarms!vars
<1>28. ASSUME NEW ap \in AP, HandlerStartFails(ap) PROVE [Alarms!Next]_(Alarms!vars)
  BY <1>28, ConditionalAlarmStep DEF HandlerStartFails
<1>29. ASSUME NEW ap \in AP, ExitReturn(ap) PROVE [Alarms!Next]_(Alarms!vars)
  BY <1>29, ConditionalAlarmStep DEF ExitReturn
<1>30. ASSUME NEW ap \in AP, MountDone(ap) PROVE [Alarms!Next]_(Alarms!vars)
  BY <1>30, ConditionalAlarmStep DEF MountDone
<1>31. ASSUME NEW ap \in AP, ExitBusy(ap) PROVE [Alarms!Next]_(Alarms!vars)
  <2>1. PICK has : alarm' = ConditionalAlarm(ap, has)
    BY <1>31 DEF ExitBusy
  <2> QED BY <1>31, <2>1, ConditionalAlarmStep DEF ExitBusy
<1>32. ASSUME NEW sm \in Submount, SubmountStarts(sm) PROVE [Alarms!Next]_(Alarms!vars)
  <2>1. Parent[sm] \in AP
    BY StateQueueAssumption
  <2> QED BY <1>32, <2>1, ConditionalAlarmStep DEF SubmountStarts
<1>33. ASSUME NEW t \in Tid, ReadMap(t) PROVE [Alarms!Next]_(Alarms!vars)
  <2>1. thread[t].ap \in AP
    BY DEF TypeOK, Worker
  <2>2. \/ alarm' = alarm
        \/ alarm' = ConditionalAlarm(thread[t].ap, HasMounts(thread[t].ap))
    BY <1>33 DEF ReadMap
  <2>3. firing' = firing
    BY <1>33 DEF ReadMap
  <2> QED BY <2>1, <2>2, <2>3, ConditionalAlarmStep DEF Alarms!vars
<1>34. ASSUME NEW t \in Tid, ExpireCleanup(t) PROVE [Alarms!Next]_(Alarms!vars)
  <2>1. thread[t].ap \in AP
    BY DEF TypeOK, Worker
  <2>2. \/ alarm' = alarm
        \/ alarm' = ConditionalAlarm(thread[t].ap, HasMounts(thread[t].ap))
    BY <1>34 DEF ExpireCleanup
  <2>3. firing' = firing
    BY <1>34 DEF ExpireCleanup
  <2> QED BY <2>1, <2>2, <2>3, ConditionalAlarmStep DEF Alarms!vars
<1>35. ASSUME NEW ap \in AP, ExitAlarm(ap) PROVE [Alarms!Next]_(Alarms!vars)
  <2>1. firing' = firing
    BY <1>35 DEF ExitAlarm
  <2>2. CASE alarm[ap] = "none"
    <3>1. alarm' = [alarm EXCEPT ![ap] = "none"]
      BY <1>35, <2>2 DEF ExitAlarm
    <3>2. alarm' = alarm
      BY <2>2, <3>1 DEF TypeOK
    <3> QED BY <2>1, <3>2 DEF Alarms!vars
  <2>3. CASE alarm[ap] # "none"
    <3>1. PICK new \in {"none", "cancelled"} : alarm' = [alarm EXCEPT ![ap] = new]
      BY <1>35, <2>3 DEF ExitAlarm
    <3> QED BY <2>1, <2>3, <3>1 DEF Alarms!Next, Alarms!Delete
  <2> QED BY <2>2, <2>3
<1>36. ASSUME NEW ap \in AP, AlarmFires(ap) PROVE [Alarms!Next]_(Alarms!vars)
  BY <1>36 DEF AlarmFires, Alarms!Next, Alarms!Fire
<1>37. ASSUME NEW ap \in AP, AlarmExpire(ap) PROVE [Alarms!Next]_(Alarms!vars)
  BY <1>37 DEF AlarmExpire, Alarms!Next, Alarms!Expire
<1>38. CASE UNCHANGED vars
  BY <1>38 DEF vars, Alarms!vars
<1> QED
  BY <1>1, <1>2, <1>3, <1>4, <1>5, <1>6, <1>7, <1>8, <1>9, <1>10, <1>11, <1>12, <1>13, <1>14, <1>15, <1>16, <1>17, <1>18, <1>19, <1>20, <1>21, <1>22, <1>23, <1>24, <1>25, <1>26, <1>27, <1>28, <1>29, <1>30, <1>31, <1>32, <1>33, <1>34, <1>35, <1>36, <1>37, <1>38
  DEF Next, HandlerNext, WorkerNext, ExitNext, NotifyNext, AlarmNext, RequestNext

\* The state machine relies on no more of its alarms than AlarmAbs grants, so
\* what is proved of it holds with the list of lib/alarm.c in their place.
THEOREM StateQueueUsesAlarms == Spec => UsesAlarms
<1>1. Init => Alarms!Init
  BY DEF Init, Alarms!Init
<1>2. TypeOK /\ [Next]_vars => [Alarms!Next]_(Alarms!vars)
  BY AlarmStep
<1> QED BY <1>1, <1>2, TypeCorrect, PTL DEF Spec, UsesAlarms, Alarms!Spec

-----------------------------------------------------------------------------
(* A mount point that has shut down. *)

\* A request that is queued leaves no shutdown behind but its own.
LEMMA EnqueueQuiet ==
  ASSUME NEW tk \in Task, NEW s \in States, NEW st \in TaskState, NEW ok \in BOOLEAN
  PROVE  /\ Enqueue(tk, s, st, ok).state = "ST_INVAL" => Enqueue(tk, s, st, ok) = tk
         /\ HasShutdown(Enqueue(tk, s, st, ok)) =>
              HasShutdown(tk) \/ st \in ShuttingDown
<1>1. CASE Enqueue(tk, s, st, ok) = tk
  BY <1>1
<1>2. CASE Enqueue(tk, s, st, ok) = NewTask(st)
  BY <1>2 DEF NewTask, NoTask, HasShutdown, TaskState
<1>3. CASE /\ tk.state # "ST_INVAL"
           /\ Enqueue(tk, s, st, ok) = [tk EXCEPT !.pending = Append(@, st)]
  <2> DEFINE new == [tk EXCEPT !.pending = Append(@, st)]
  <2>1. tk.pending \in Seq(TaskState)
    BY DEF Task
  <2>2. new.state = tk.state /\ new.pending = Append(tk.pending, st)
    BY DEF Task
  <2>3. \A i \in DOMAIN new.pending :
          (i \in DOMAIN tk.pending /\ new.pending[i] = tk.pending[i]) \/ new.pending[i] = st
    BY <2>1, <2>2
  <2> QED BY <1>3, <2>2, <2>3 DEF HasShutdown
<1> QED BY <1>1, <1>2, <1>3 DEF Enqueue

\* __st_add_task(): what it does to the state and the tasks of mount points.
LEMMA AddTaskQuiet ==
  ASSUME TypeOK, NEW ap \in AP, NEW st \in States, NEW tk \in Task, NEW sd,
         AddTask(ap, st, tk, sd)
  PROVE  /\ \A a \in AP \ {ap} : task'[a] = task[a] /\ state'[a] = state[a]
         /\ state'[ap] = IF st \in {"ST_READY", "ST_SHUTDOWN"} THEN st ELSE state[ap]
         /\ task'[ap].state = "ST_INVAL" => task'[ap] = tk
         /\ HasShutdown(task'[ap]) => HasShutdown(tk) \/ st \in ShuttingDown
         /\ state[ap] = "ST_SHUTDOWN" => task'[ap] = tk
<1> DEFINE ready == st = "ST_READY"
           over == ~ready /\ state[ap] = "ST_SHUTDOWN"
           stop == ~over /\ st = "ST_SHUTDOWN"
           new(ok) == IF ready \/ over \/ stop THEN tk
                      ELSE Enqueue(tk, state[ap], st, ok)
<1>1. PICK ok \in Alloc :
        /\ state' = [state EXCEPT ![ap] = IF ready \/ stop THEN st ELSE @]
        /\ task' = [task EXCEPT ![ap] = new(ok)]
  BY DEF AddTask
<1>2. ok \in BOOLEAN /\ state[ap] \in States
  BY DEF Alloc, TypeOK
<1>3. st \in TaskState \/ ready \/ over \/ stop
  BY DEF States, TaskState
<1>4. /\ new(ok).state = "ST_INVAL" => new(ok) = tk
      /\ HasShutdown(new(ok)) => HasShutdown(tk) \/ st \in ShuttingDown
  BY <1>2, <1>3, EnqueueQuiet
<1>5. state[ap] = "ST_SHUTDOWN" => new(ok) = tk
  OBVIOUS
<1>6. task'[ap] = new(ok) /\ \A a \in AP \ {ap} : task'[a] = task[a]
  BY <1>1 DEF TypeOK
<1>7. /\ \A a \in AP \ {ap} : state'[a] = state[a]
      /\ state'[ap] = IF st \in {"ST_READY", "ST_SHUTDOWN"} THEN st ELSE state[ap]
  BY <1>1 DEF TypeOK
<1> HIDE DEF new
<1> QED BY <1>4, <1>5, <1>6, <1>7

\* A mount point that is past st_wait_task() afterwards was so before.
StaysPast == \A a \in AP : mpc'[a] \in {"umount", "gone"} => mpc[a] \in {"umount", "gone"}

\* __st_add_task() of anything but ST_SHUTDOWN shuts nothing down, if it is not
\* asked to shut down a mount point of the master map on its way out.
LEMMA AddQuiet ==
  ASSUME QuietInv, TypeOK, StaysPast, NEW ap \in AP, NEW st \in States, NEW tk \in Task,
         NEW sd, AddTask(ap, st, tk, sd), st # "ST_SHUTDOWN",
         tk.state = "ST_INVAL" \/ task[ap] = NoTask => tk = NoTask,
         HasShutdown(tk) => HasShutdown(task[ap]),
         ap \notin Submount /\ mpc[ap] \in {"umount", "gone"} => st \notin ShuttingDown
  PROVE  /\ \A a \in AP : state'[a] = "ST_SHUTDOWN" => state[a] = "ST_SHUTDOWN"
         /\ EmptyIsNoTask' /\ NoShutdownLeft'
<1>1. /\ \A a \in AP \ {ap} : task'[a] = task[a] /\ state'[a] = state[a]
      /\ state'[ap] = IF st \in {"ST_READY", "ST_SHUTDOWN"} THEN st ELSE state[ap]
      /\ task'[ap].state = "ST_INVAL" => task'[ap] = tk
      /\ HasShutdown(task'[ap]) => HasShutdown(tk) \/ st \in ShuttingDown
      /\ state[ap] = "ST_SHUTDOWN" => task'[ap] = tk
  BY AddTaskQuiet
<1>2. \A a \in AP : state'[a] = "ST_SHUTDOWN" => state[a] = "ST_SHUTDOWN"
  BY <1>1
<1>3. EmptyIsNoTask'
  BY <1>1 DEF QuietInv, EmptyIsNoTask
<1>4. NoShutdownLeft'
  <2> SUFFICES ASSUME NEW a \in AP \ Submount, mpc'[a] \in {"umount", "gone"}
               PROVE  /\ state'[a] \notin ShuttingDown
                      /\ ~HasShutdown(task'[a])
                      /\ state'[a] = "ST_SHUTDOWN" => task'[a] = NoTask
    BY DEF NoShutdownLeft
  <2>1. /\ mpc[a] \in {"umount", "gone"}
        /\ state[a] \notin ShuttingDown
        /\ ~HasShutdown(task[a])
        /\ state[a] = "ST_SHUTDOWN" => task[a] = NoTask
    BY DEF StaysPast, QuietInv, NoShutdownLeft
  <2>2. CASE a = ap
    BY <1>1, <2>1, <2>2 DEF ShuttingDown
  <2>3. CASE a # ap
    BY <1>1, <2>1, <2>3
  <2> QED BY <2>2, <2>3
<1> QED BY <1>2, <1>3, <1>4

\* What takes the place of a task that is removed was waiting behind it.
LEMMA RemoveQuiet ==
  ASSUME QuietInv, TypeOK, NEW ap \in AP, Visit(ap), Remove(ap), mpc' = mpc,
         \A a \in AP : state'[a] \in {state[a], "ST_READY"}
  PROVE  EmptyIsNoTask' /\ NoShutdownLeft'
<1> DEFINE next == IF hpc = "first" \/ task[ap].pending = <<>>
                   THEN NoTask ELSE NewTask(Head(task[ap].pending))
<1>1. task'[ap] = next /\ \A a \in AP \ {ap} : task'[a] = task[a]
  BY DEF Remove, TypeOK
<1>2. task[ap].pending \in Seq(TaskState) /\ task[ap] # NoTask
  BY DEF TypeOK, Task, Visit, Queued, NoTask
<1>3. next.state = "ST_INVAL" => next = NoTask
  <2>1. CASE next = NoTask
    BY <2>1
  <2>2. CASE task[ap].pending # <<>> /\ next = NewTask(Head(task[ap].pending))
    <3>1. Head(task[ap].pending) \in TaskState
      BY <1>2, <2>2
    <3> QED BY <2>2, <3>1 DEF NewTask, NoTask, TaskState
  <2> QED BY <2>1, <2>2
<1>4. HasShutdown(next) => HasShutdown(task[ap])
  <2>1. CASE next = NoTask
    BY <2>1 DEF HasShutdown, NoTask, ShuttingDown
  <2>2. CASE task[ap].pending # <<>> /\ next = NewTask(Head(task[ap].pending))
    <3>1. /\ 1 \in DOMAIN task[ap].pending
          /\ Head(task[ap].pending) = task[ap].pending[1]
      BY <1>2, <2>2
    <3>2. next.state = Head(task[ap].pending) /\ next.pending = <<>>
      BY <2>2 DEF NewTask, NoTask
    <3>3. HasShutdown(next) => next.state \in ShuttingDown
      BY <3>2 DEF HasShutdown
    <3> QED BY <3>1, <3>2, <3>3 DEF HasShutdown
  <2> QED BY <2>1, <2>2
<1> HIDE DEF next
<1>5. EmptyIsNoTask'
  BY <1>1, <1>3 DEF QuietInv, EmptyIsNoTask
<1>6. NoShutdownLeft'
  BY <1>1, <1>2, <1>4 DEF QuietInv, NoShutdownLeft, ShuttingDown
<1> QED BY <1>5, <1>6

\* st_remove_tasks() leaves an empty queue entry empty.
LEMMA NothingLeft == Shutdowns(<<>>) = <<>>
<1>1. \A st : {i \in DOMAIN <<>> : <<>>[i] = st} = {}
  OBVIOUS
<1> QED BY <1>1, Zenon DEF Shutdowns

\* Every step of the daemon keeps the invariant of a shutdown.
LEMMA QuietStep ==
  ASSUME QueueInv, QuietInv, [Next]_vars
  PROVE  QuietInv'
<1> USE DEF queueVars, handlerVars, threadVars, alarmVars, envVars
<1>a. TypeOK /\ TypeOK'
  BY TypeStep DEF QueueInv
<1>b. WorkersOfTheLiving /\ EmptyIsNoTask /\ NotifiesTheStarted /\ NoShutdownLeft
  BY DEF QuietInv
\* A step that leaves states and tasks alone, and the workers but for their progress.
<1>c. ASSUME UNCHANGED <<state, task>>, NotifiesTheStarted', StaysPast,
             \A t \in Tid :
               /\ thread'[t].pc # "none" => thread[t].pc # "none"
               /\ thread'[t].ap = thread[t].ap
               /\ thread'[t].arg # "ST_SHUTDOWN"
               /\ thread'[t].pc = "notify" => thread'[t].sub \in Submount
      PROVE  QuietInv'
  <2>1. WorkersOfTheLiving'
    BY <1>b, <1>c DEF WorkersOfTheLiving, Live
  <2>2. EmptyIsNoTask' /\ NoShutdownLeft'
    BY <1>b, <1>c DEF EmptyIsNoTask, NoShutdownLeft, StaysPast
  <2> QED BY <1>c, <2>1, <2>2 DEF QuietInv
\* A step that queues something for ap.
<1>d. ASSUME NEW ap \in AP, NEW st \in States, NEW sd, AddTask(ap, st, task[ap], sd),
             st # "ST_SHUTDOWN", StaysPast, NotifiesTheStarted',
             ap \notin Submount /\ mpc[ap] \in {"umount", "gone"} => st \notin ShuttingDown,
             \A t \in Tid :
               /\ thread'[t].pc # "none" => thread[t].pc # "none"
               /\ thread'[t].ap = thread[t].ap
               /\ thread'[t].arg = thread[t].arg
               /\ thread'[t].pc # "notify" \/ thread'[t] = thread[t]
      PROVE  QuietInv'
  <2>1. task[ap] \in Task /\ (task[ap].state = "ST_INVAL" => task[ap] = NoTask)
    BY <1>a, <1>b DEF TypeOK, EmptyIsNoTask
  <2>2. /\ \A a \in AP : state'[a] = "ST_SHUTDOWN" => state[a] = "ST_SHUTDOWN"
        /\ EmptyIsNoTask' /\ NoShutdownLeft'
    BY <1>a, <1>d, <2>1, AddQuiet
  <2>3. WorkersOfTheLiving'
    BY <1>a, <1>b, <1>d, <2>2 DEF WorkersOfTheLiving, Live, TypeOK, Worker
  <2> QED BY <1>d, <2>2, <2>3 DEF QuietInv
<1>1. CASE UNCHANGED vars
  BY <1>1, <1>b, <1>c DEF vars, NotifiesTheStarted, StaysPast, WorkersOfTheLiving
<1>2. CASE HandlerFirst \/ HandlerPoked \/ HandlerWait
  BY <1>2, <1>b, <1>c DEF HandlerFirst, HandlerPoked, HandlerWait, NotifiesTheStarted,
     StaysPast, WorkersOfTheLiving
<1>3. ASSUME NEW ap \in AP, HandlerSkip(ap) PROVE QuietInv'
  BY <1>3, <1>b, <1>c DEF HandlerSkip, NotifiesTheStarted, StaysPast, WorkersOfTheLiving
<1>4. ASSUME NEW ap \in AP, HandlerStart(ap) PROVE QuietInv'
  <2>1. PICK t \in Tid :
          /\ task' = [task EXCEPT ![ap].busy = TRUE, ![ap].thid = t]
          /\ \/ thread' = [thread EXCEPT ![t] = NewReadmap(ap)]
             \/ thread' = [thread EXCEPT ![t] = NewExpire(ap)]
    BY <1>4 DEF HandlerStart
  <2>2. /\ task[ap].state \in TaskState /\ task[ap] # NoTask
        /\ state' = [state EXCEPT ![ap] = task[ap].state]
        /\ UNCHANGED <<mpc, notify>>
    BY <1>4, <1>a DEF HandlerStart, Visit, Queued, TypeOK, Task, NoTask
  <2>3. /\ task'[ap].state = task[ap].state /\ task'[ap].pending = task[ap].pending
        /\ \A a \in AP \ {ap} : task'[a] = task[a] /\ state'[a] = state[a]
        /\ state'[ap] = task[ap].state
    BY <1>a, <2>1, <2>2 DEF TypeOK, Task
  <2>4. /\ thread'[t].ap = ap /\ thread'[t].pc # "notify"
        /\ thread'[t].arg = "ST_READY"
        /\ \A u \in Tid \ {t} : thread'[u] = thread[u]
    <3>1. /\ NewReadmap(ap).ap = ap /\ NewExpire(ap).ap = ap
          /\ NewReadmap(ap).pc # "notify" /\ NewExpire(ap).pc # "notify"
          /\ NewReadmap(ap).arg = "ST_READY" /\ NewExpire(ap).arg = "ST_READY"
      BY DEF NewReadmap, NewExpire, NoWorker
    <3>2. CASE thread' = [thread EXCEPT ![t] = NewReadmap(ap)]
      BY <1>a, <3>1, <3>2 DEF TypeOK
    <3>3. CASE thread' = [thread EXCEPT ![t] = NewExpire(ap)]
      BY <1>a, <3>1, <3>3 DEF TypeOK
    <3> QED BY <2>1, <3>2, <3>3
  <2>5. WorkersOfTheLiving'
    <3>1. \A u \in Tid : thread[u].ap \in AP
      BY <1>a DEF TypeOK, Worker
    <3> QED BY <1>b, <2>2, <2>3, <2>4, <3>1 DEF WorkersOfTheLiving, Live, TaskState
  <2>6. EmptyIsNoTask'
    BY <1>b, <2>2, <2>3 DEF EmptyIsNoTask, TaskState
  <2>7. NoShutdownLeft'
    BY <1>b, <2>2, <2>3 DEF NoShutdownLeft, HasShutdown, TaskState, ShuttingDown
  <2>8. NotifiesTheStarted'
    BY <1>b, <2>2 DEF NotifiesTheStarted
  <2> QED BY <2>5, <2>6, <2>7, <2>8 DEF QuietInv
<1>5. ASSUME NEW ap \in AP, HandlerStartFails(ap) PROVE QuietInv'
  <2>1. /\ \A a \in AP : state'[a] \in {state[a], "ST_READY"}
        /\ UNCHANGED <<mpc, notify, thread>>
        /\ Visit(ap) /\ Remove(ap)
    BY <1>5, <1>a DEF HandlerStartFails, TypeOK
  <2>2. EmptyIsNoTask' /\ NoShutdownLeft'
    BY <1>a, <2>1, RemoveQuiet
  <2>3. WorkersOfTheLiving' /\ NotifiesTheStarted'
    BY <1>a, <1>b, <2>1 DEF WorkersOfTheLiving, NotifiesTheStarted, Live, TypeOK, Worker
  <2> QED BY <2>2, <2>3 DEF QuietInv
<1>6. ASSUME NEW ap \in AP, HandlerReap(ap) PROVE QuietInv'
  <2>1. /\ UNCHANGED <<state, mpc, notify, thread>>
        /\ Visit(ap) /\ Remove(ap)
    BY <1>6 DEF HandlerReap
  <2>2. EmptyIsNoTask' /\ NoShutdownLeft'
    BY <1>a, <2>1, RemoveQuiet
  <2>3. WorkersOfTheLiving' /\ NotifiesTheStarted'
    BY <1>b, <2>1 DEF WorkersOfTheLiving, NotifiesTheStarted, Live
  <2> QED BY <2>2, <2>3 DEF QuietInv
<1>7. ASSUME NEW ap \in AP, HandlerCancel(ap) PROVE QuietInv'
  <2>1. /\ UNCHANGED <<state, mpc, notify>>
        /\ task[ap].state # "ST_INVAL" /\ task[ap] # NoTask
        /\ task' = [task EXCEPT ![ap].cancel = FALSE]
    BY <1>7 DEF HandlerCancel, Visit, Queued, NoTask
  <2>2. /\ task'[ap].state = task[ap].state /\ task'[ap].pending = task[ap].pending
        /\ \A a \in AP \ {ap} : task'[a] = task[a]
    BY <1>a, <2>1 DEF TypeOK, Task
  <2>3. \A t \in Tid : /\ thread'[t].pc = thread[t].pc /\ thread'[t].ap = thread[t].ap
                       /\ thread'[t].arg = thread[t].arg /\ thread'[t].sub = thread[t].sub
    BY <1>7, <1>a DEF HandlerCancel, TypeOK, Worker, Task
  <2>4. EmptyIsNoTask' /\ NoShutdownLeft'
    BY <1>b, <2>1, <2>2 DEF EmptyIsNoTask, NoShutdownLeft, HasShutdown
  <2>5. WorkersOfTheLiving' /\ NotifiesTheStarted'
    BY <1>b, <2>1, <2>3 DEF WorkersOfTheLiving, NotifiesTheStarted, Live
  <2> QED BY <2>4, <2>5 DEF QuietInv
<1>8. ASSUME NEW t \in Tid, ExpireList(t) PROVE QuietInv'
  <2>1. /\ thread'[t].ap = thread[t].ap /\ thread'[t].arg = thread[t].arg
        /\ thread[t].pc # "none" /\ thread'[t].pc # "notify"
        /\ \A u \in Tid \ {t} : thread'[u] = thread[u]
        /\ UNCHANGED <<state, task, mpc, notify>>
    BY <1>8, <1>a DEF ExpireList, Local, TypeOK, Worker
  <2> QED BY <1>b, <1>c, <2>1 DEF NotifiesTheStarted, StaysPast, WorkersOfTheLiving
<1>9. ASSUME NEW t \in Tid, NotifyRead(t) PROVE QuietInv'
  <2>1. /\ thread'[t].ap = thread[t].ap /\ thread'[t].arg = state[thread[t].ap]
        /\ thread[t].pc # "none" /\ thread'[t].sub \in Submount
        /\ \A u \in Tid \ {t} : thread'[u] = thread[u]
        /\ UNCHANGED <<state, task, mpc, notify>>
    BY <1>9, <1>a DEF NotifyRead, Local, TypeOK, Worker
  <2>2. state[thread[t].ap] # "ST_SHUTDOWN"
    BY <1>b, <2>1 DEF WorkersOfTheLiving, Live
  <2> QED BY <1>b, <1>c, <2>1, <2>2 DEF NotifiesTheStarted, StaysPast, WorkersOfTheLiving
<1>10. ASSUME NEW t \in Tid,
             \/ NotifyNobody(t) \/ NotifyWaitTask(t) \/ NotifyWaitState(t)
             \/ ExpireMounts(t) \/ ReadMap(t) \/ Cancelled(t)
       PROVE QuietInv'
  <2>1. /\ thread'[t].ap = thread[t].ap /\ thread'[t].arg = thread[t].arg
        /\ thread[t].pc # "none" /\ thread'[t].pc # "notify"
        /\ \A u \in Tid \ {t} : thread'[u] = thread[u]
    BY <1>10, <1>a DEF NotifyNobody, NotifyWaitTask, NotifyWaitState, ExpireMounts,
       ReadMap, Cancelled, TypeOK, Worker
  <2>2. UNCHANGED <<state, task, mpc, notify>>
    BY <1>10 DEF NotifyNobody, NotifyWaitTask, NotifyWaitState, ExpireMounts,
       ReadMap, Cancelled, Local
  <2> QED BY <1>b, <1>c, <2>1, <2>2 DEF NotifiesTheStarted, StaysPast, WorkersOfTheLiving
<1>11. ASSUME NEW t \in Tid, NotifyAdd(t) PROVE QuietInv'
  <2> DEFINE sm == thread[t].sub
             sd == [shutdown EXCEPT ![sm] = shutdown[thread[t].ap]]
  <2>1. /\ AddTask(sm, thread[t].arg, task[sm], sd)
        /\ thread[t].pc = "notify"
        /\ UNCHANGED <<mpc, notify>>
    BY <1>11 DEF NotifyAdd, Local
  <2>2. sm \in AP /\ sm \in Submount /\ thread[t].arg \in States /\ thread[t].arg # "ST_SHUTDOWN"
    BY <1>a, <1>b, <2>1 DEF TypeOK, Worker, WorkersOfTheLiving
  <2>3. /\ thread'[t].ap = thread[t].ap /\ thread'[t].arg = thread[t].arg
        /\ thread'[t].pc # "notify"
        /\ \A u \in Tid \ {t} : thread'[u] = thread[u]
    BY <1>11, <1>a DEF NotifyAdd, TypeOK, Worker
  <2>4. StaysPast /\ NotifiesTheStarted'
    BY <1>b, <2>1 DEF StaysPast, NotifiesTheStarted
  <2> HIDE DEF sm, sd
  <2> QED BY <1>d, <2>1, <2>2, <2>3, <2>4
<1>12. ASSUME NEW t \in Tid, ExpireCleanup(t) PROVE QuietInv'
  <2> DEFINE ap == thread[t].ap
  <2>1. ap \in AP /\ Live(t) /\ state[ap] # "ST_SHUTDOWN"
    BY <1>12, <1>a, <1>b DEF ExpireCleanup, Live, TypeOK, Worker, WorkersOfTheLiving
  <2>2. /\ thread'[t].pc = "none" /\ thread'[t].arg = "ST_READY"
        /\ \A u \in Tid \ {t} : thread'[u] = thread[u]
        /\ UNCHANGED <<mpc, notify>>
    BY <1>12, <1>a DEF ExpireCleanup, TypeOK, NoWorker
  <2>3. \A u \in Tid \ {t} : Live(u) => thread[u].ap \in AP \ {ap}
    BY <2>1, <1>a DEF QueueInv, WorkerOwnsTask, TypeOK, Worker
  <2>4. /\ task[ap].state # "ST_INVAL"
        /\ SetDone(ap) = [task[ap] EXCEPT !.done = TRUE]
    BY <2>1 DEF QueueInv, WorkerOwnsTask, TaskShape, SetDone
  <2>5. /\ SetDone(ap) \in Task /\ SetDone(ap).state = task[ap].state
        /\ SetDone(ap).pending = task[ap].pending
        /\ task[ap] # NoTask
    <3>1. task[ap] \in Task
      BY <1>a, <2>1 DEF TypeOK
    <3>2. [task[ap] EXCEPT !.done = TRUE] \in Task
      BY <3>1, TaskUpdates
    <3>3. task[ap] # NoTask
      BY <2>4 DEF NoTask
    <3> QED BY <2>4, <3>1, <3>2, <3>3 DEF Task
  <2>6. HasShutdown(SetDone(ap)) <=> HasShutdown(task[ap])
    BY <2>5 DEF HasShutdown
  <2>7. PICK ask \in AskUmount(ap) :
          LET next == IF exp_thread[ap] = t THEN NextState(ap, thread[t].ok, ask)
                      ELSE "ST_INVAL"
          IN IF next = "ST_INVAL"
             THEN task' = [task EXCEPT ![ap] = SetDone(ap)] /\ UNCHANGED state
             ELSE AddTask(ap, next, SetDone(ap), shutdown)
    BY <1>12 DEF ExpireCleanup
  <2> DEFINE next == IF exp_thread[ap] = t THEN NextState(ap, thread[t].ok, ask)
                     ELSE "ST_INVAL"
  <2>8. /\ next \in {"ST_INVAL", "ST_READY", "ST_SHUTDOWN_PENDING", "ST_SHUTDOWN"}
        /\ next = "ST_SHUTDOWN_PENDING" => ap \in Submount
        /\ next = "ST_SHUTDOWN" => state[ap] \in ShuttingDown
    BY Zenon DEF NextState, ShuttingDown
  <2> HIDE DEF next
  <2>9. /\ \A a \in AP \ {ap} : state'[a] = "ST_SHUTDOWN" => state[a] = "ST_SHUTDOWN"
        /\ EmptyIsNoTask' /\ NoShutdownLeft'
    <3>1. CASE next = "ST_INVAL"
      <4>1. /\ state' = state /\ task'[ap] = SetDone(ap)
            /\ \A a \in AP \ {ap} : task'[a] = task[a]
        BY <1>a, <2>1, <2>7, <3>1 DEF TypeOK, next
      <4> QED BY <1>b, <2>1, <2>2, <2>4, <2>5, <2>6, <4>1
              DEF EmptyIsNoTask, NoShutdownLeft
    <3>2. CASE next \in {"ST_READY", "ST_SHUTDOWN_PENDING"}
      <4>1. AddTask(ap, next, SetDone(ap), shutdown)
        BY <2>7, <3>2 DEF next
      <4>2. next \in States /\ next # "ST_SHUTDOWN"
        BY <3>2 DEF States
      <4>3. StaysPast
        BY <2>2 DEF StaysPast
      <4>4. ap \notin Submount => next \notin ShuttingDown
        BY <2>8, <3>2 DEF ShuttingDown
      <4> HIDE DEF ap
      <4> QED BY <1>a, <2>1, <2>4, <2>5, <2>6, <4>1, <4>2, <4>3, <4>4, AddQuiet
    <3>3. CASE next = "ST_SHUTDOWN"
      <4>1. AddTask(ap, "ST_SHUTDOWN", SetDone(ap), shutdown)
        BY <2>7, <3>3 DEF next
      <4>2. /\ \A a \in AP \ {ap} : task'[a] = task[a] /\ state'[a] = state[a]
            /\ task'[ap].state = "ST_INVAL" => task'[ap] = SetDone(ap)
        BY <1>a, <2>1, <2>5, <4>1, AddTaskQuiet DEF States
      <4>3. ap \in Submount \/ mpc[ap] \notin {"umount", "gone"}
        BY <1>b, <2>1, <2>8, <3>3 DEF NoShutdownLeft
      <4>4. task'[ap].state # "ST_INVAL"
        BY <2>4, <2>5, <4>2
      <4>5. EmptyIsNoTask'
        BY <1>b, <4>2, <4>4 DEF EmptyIsNoTask
      <4>6. NoShutdownLeft'
        BY <1>b, <2>2, <4>2, <4>3 DEF NoShutdownLeft
      <4> QED BY <4>2, <4>5, <4>6
    <3> QED BY <2>8, <3>1, <3>2, <3>3
  <2>10. WorkersOfTheLiving' /\ NotifiesTheStarted'
    BY <1>b, <2>2, <2>3, <2>9 DEF WorkersOfTheLiving, NotifiesTheStarted, Live
  <2> QED BY <2>9, <2>10 DEF QuietInv
<1>13. ASSUME NEW t \in Tid, ReadMapCleanup(t) PROVE QuietInv'
  <2> DEFINE ap == thread[t].ap
  <2>1. /\ ap \in AP /\ Live(t)
        /\ UNCHANGED <<mpc, notify>>
        /\ state' = [state EXCEPT ![ap] = "ST_READY"]
        /\ task' = [task EXCEPT ![ap] = SetDone(ap)]
    BY <1>13, <1>a DEF ReadMapCleanup, Live, TypeOK, Worker
  <2>2. /\ thread'[t].pc = "none" /\ thread'[t].arg = "ST_READY"
        /\ \A u \in Tid \ {t} : thread'[u] = thread[u]
    BY <1>13, <1>a DEF ReadMapCleanup, TypeOK, NoWorker
  <2>3. /\ task[ap].state # "ST_INVAL"
        /\ SetDone(ap) = [task[ap] EXCEPT !.done = TRUE]
    BY <2>1 DEF QueueInv, WorkerOwnsTask, TaskShape, SetDone
  <2>4. /\ task'[ap].state = task[ap].state /\ task'[ap].pending = task[ap].pending
        /\ state'[ap] = "ST_READY"
        /\ \A a \in AP \ {ap} : task'[a] = task[a] /\ state'[a] = state[a]
    BY <1>a, <2>1, <2>3 DEF TypeOK, Task
  <2>5. EmptyIsNoTask' /\ NoShutdownLeft'
    BY <1>b, <2>1, <2>3, <2>4 DEF EmptyIsNoTask, NoShutdownLeft, HasShutdown, ShuttingDown
  <2>6. WorkersOfTheLiving' /\ NotifiesTheStarted'
    BY <1>a, <1>b, <2>1, <2>2, <2>4 DEF WorkersOfTheLiving, NotifiesTheStarted, Live,
       TypeOK, Worker
  <2> QED BY <2>5, <2>6 DEF QuietInv
<1>14. ASSUME NEW ap \in AP,
             \/ GotSigcont(ap) \/ SeenShutdown(ap) \/ PacketFails(ap)
             \/ ExitReturn(ap) \/ ExitAlarm(ap) \/ ExitGone(ap) \/ ExitBusy(ap)
       PROVE QuietInv'
  <2>1. UNCHANGED <<state, task, thread, notify>>
    BY <1>14 DEF GotSigcont, SeenShutdown, PacketFails, ExitReturn, ExitAlarm, ExitGone,
       ExitBusy
  <2>2. StaysPast
    BY <1>14, <1>a DEF GotSigcont, SeenShutdown, PacketFails, ExitReturn, ExitAlarm,
       ExitGone, ExitBusy, StaysPast, TypeOK
  <2>3. NotifiesTheStarted'
    BY <1>14, <1>a, <1>b, <2>1 DEF GotSigcont, SeenShutdown, PacketFails, ExitReturn,
       ExitAlarm, ExitGone, ExitBusy, NotifiesTheStarted, TypeOK, MasterFree
  <2> QED BY <1>b, <1>c, <2>1, <2>2, <2>3 DEF WorkersOfTheLiving
<1>15. ASSUME NEW ap \in AP, ExitRemove(ap) PROVE QuietInv'
  <2> DEFINE tk == task[ap]
             new == [tk EXCEPT !.cancel = @ \/ (tk.busy /\ tk.state \notin ShuttingDown),
                               !.pending = Shutdowns(@)]
  <2>1. /\ UNCHANGED <<state, thread, notify>>
        /\ mpc[ap] = "remove" /\ mpc' = [mpc EXCEPT ![ap] = "waittask"]
        /\ task' = [task EXCEPT ![ap] = new]
    BY <1>15 DEF ExitRemove, RemoveTasks
  <2>2. /\ task'[ap] = new /\ new.state = tk.state
        /\ \A a \in AP \ {ap} : task'[a] = task[a]
    BY <1>a, <2>1 DEF TypeOK, Task
  <2>3. tk = NoTask => new = NoTask
    <3> SUFFICES ASSUME tk = NoTask PROVE new = NoTask
      OBVIOUS
    <3>1. tk.pending = <<>> /\ tk.cancel = FALSE /\ tk.busy = FALSE
      BY DEF NoTask
    <3>2. new = [NoTask EXCEPT !.cancel = FALSE, !.pending = <<>>]
      BY <3>1, NothingLeft
    <3>3. NoTask.cancel = FALSE /\ NoTask.pending = <<>>
      BY DEF NoTask
    <3>4. \A c, q : NoTask.cancel = c /\ NoTask.pending = q =>
                   [NoTask EXCEPT !.cancel = c, !.pending = q] = NoTask
      BY DEF NoTask
    <3> QED BY <3>2, <3>3, <3>4
  <2> HIDE DEF new
  <2>4. EmptyIsNoTask'
    BY <1>b, <2>2, <2>3 DEF EmptyIsNoTask
  <2>5. NoShutdownLeft' /\ NotifiesTheStarted'
    BY <1>a, <1>b, <2>1, <2>2 DEF NoShutdownLeft, NotifiesTheStarted, TypeOK
  <2>6. WorkersOfTheLiving'
    BY <1>b, <2>1 DEF WorkersOfTheLiving, Live
  <2> QED BY <2>4, <2>5, <2>6 DEF QuietInv
<1>16. ASSUME NEW ap \in AP, ExitWait(ap) PROVE QuietInv'
  <2>1. /\ UNCHANGED <<state, task, thread, notify>>
        /\ mpc[ap] = "waittask" /\ mpc' = [mpc EXCEPT ![ap] = "umount"]
        /\ task[ap] = NoTask
    BY <1>16, <1>b DEF ExitWait, EmptyIsNoTask
  <2>2. ~HasShutdown(task[ap])
    BY <2>1 DEF HasShutdown, NoTask, ShuttingDown
  <2>3. state[ap] \notin ShuttingDown
    BY <2>1 DEF QueueInv, TransientHasWorker, NoTask, TaskState, ShuttingDown
  <2>4. NoShutdownLeft' /\ NotifiesTheStarted'
    BY <1>a, <1>b, <2>1, <2>2, <2>3 DEF NoShutdownLeft, NotifiesTheStarted, TypeOK
  <2>5. WorkersOfTheLiving' /\ EmptyIsNoTask'
    BY <1>b, <2>1 DEF WorkersOfTheLiving, EmptyIsNoTask, Live
  <2> QED BY <2>4, <2>5 DEF QuietInv
<1>17. ASSUME NEW ap \in AP, ExitReady(ap) PROVE QuietInv'
  <2>1. /\ AddTask(ap, "ST_READY", task[ap], shutdown)
        /\ UNCHANGED <<thread, notify>>
        /\ mpc[ap] = "ready" /\ mpc' = [mpc EXCEPT ![ap] = "serve"]
    BY <1>17 DEF ExitReady, Add
  <2>2. StaysPast /\ NotifiesTheStarted'
    BY <1>a, <1>b, <2>1 DEF StaysPast, NotifiesTheStarted, TypeOK
  <2>3. "ST_READY" \in States
    BY DEF States
  <2> QED BY <1>d, <2>1, <2>2, <2>3
<1>18. ASSUME NEW ap \in AP, NotifyStateChange(ap) PROVE QuietInv'
  <2> DEFINE next == SignalTask(ap, notify.sig)
             sd == [shutdown EXCEPT ![ap] = @ \/ next \in ShuttingDown]
  <2>1. /\ ap \in notify.todo
        /\ UNCHANGED <<thread, mpc>>
        /\ IF next = "ST_INVAL" THEN UNCHANGED <<state, task>>
           ELSE AddTask(ap, next, task[ap], sd)
    BY <1>18 DEF NotifyStateChange
  <2>2. NotifiesTheStarted' /\ StaysPast
    BY <1>18, <1>a, <1>b, <2>1 DEF NotifyStateChange, NotifyDone, NotifiesTheStarted,
       StaysPast, TypeOK
  <2>3. next \in {"ST_INVAL", "ST_PRUNE", "ST_SHUTDOWN_PENDING", "ST_SHUTDOWN_FORCE"}
    BY Zenon DEF SignalTask
  <2>4. mpc[ap] \in {"serve", "exit"}
    BY <1>b, <2>1 DEF NotifiesTheStarted
  <2> HIDE DEF next, sd
  <2>5. CASE next = "ST_INVAL"
    BY <1>b, <1>c, <2>1, <2>2, <2>5 DEF WorkersOfTheLiving
  <2>6. CASE next # "ST_INVAL"
    <3>1. next \in States /\ next # "ST_SHUTDOWN"
      BY <2>3, <2>6 DEF States
    <3> QED BY <1>d, <2>1, <2>2, <2>4, <2>6, <3>1
  <2> QED BY <2>5, <2>6
<1>19. ASSUME NEW ap \in AP, NotifyHup(ap) PROVE QuietInv'
  <2>1. PICK st \in {"ST_READMAP", "ST_SHUTDOWN_PENDING"} :
          AddTask(ap, st, task[ap], shutdown)
    BY <1>19 DEF NotifyHup, Add
  <2>2. ap \in notify.todo /\ UNCHANGED <<thread, mpc>>
    BY <1>19 DEF NotifyHup
  <2>3. NotifiesTheStarted' /\ StaysPast
    BY <1>19, <1>a, <1>b, <2>2 DEF NotifyHup, NotifyDone, NotifiesTheStarted, StaysPast,
       TypeOK
  <2>4. mpc[ap] \in {"serve", "exit"}
    BY <1>b, <2>2 DEF NotifiesTheStarted
  <2>5. st \in States /\ st # "ST_SHUTDOWN"
    BY DEF States
  <2> QED BY <1>d, <2>1, <2>2, <2>3, <2>4, <2>5
<1>20. ASSUME NEW ap \in AP, AlarmFires(ap) \/ MountDone(ap) PROVE QuietInv'
  BY <1>20, <1>b, <1>c DEF AlarmFires, MountDone, NotifiesTheStarted, StaysPast,
     WorkersOfTheLiving
<1>21. ASSUME NEW ap \in AP, NEW st, NEW sd, st \in {"ST_EXPIRE", "ST_READMAP"},
             AddTask(ap, st, task[ap], sd), UNCHANGED <<thread, mpc, notify>>
       PROVE QuietInv'
  <2>1. st \in States /\ st # "ST_SHUTDOWN" /\ st \notin ShuttingDown
    BY <1>21 DEF States, ShuttingDown
  <2>2. NotifiesTheStarted' /\ StaysPast
    BY <1>21, <1>b DEF NotifiesTheStarted, StaysPast
  <2> QED BY <1>21, <1>d, <2>1, <2>2
<1>22. ASSUME NEW ap \in AP, AlarmExpire(ap) \/ MapUpdate(ap) PROVE QuietInv'
  BY <1>22, <1>21 DEF AlarmExpire, MapUpdate, Add
<1>23. ASSUME NEW sig \in Signal, SignalArrives(sig) PROVE QuietInv'
  <2>1. UNCHANGED <<state, task, thread, mpc>>
    BY <1>23 DEF SignalArrives
  <2>2. /\ notify'.sig # "none"
        /\ \A ap \in notify'.todo : ap \in AP /\ Started(ap) /\ ~Exiting(ap)
    BY <1>23 DEF SignalArrives, MasterFree, Signal
  <2>3. NotifiesTheStarted'
    BY <1>a, <2>1, <2>2 DEF NotifiesTheStarted, Started, Exiting, TypeOK
  <2> QED BY <1>b, <1>c, <2>1, <2>3 DEF WorkersOfTheLiving, StaysPast
<1>24. ASSUME NEW sm \in Submount, SubmountStarts(sm) PROVE QuietInv'
  <2>1. /\ AddTask(sm, "ST_READY", task[sm], shutdown)
        /\ UNCHANGED <<thread, notify>>
        /\ mpc' = [mpc EXCEPT ![sm] = "serve"]
    BY <1>24 DEF SubmountStarts, Add
  <2>2. sm \in AP /\ "ST_READY" \in States
    BY StateQueueAssumption DEF States
  <2>3. StaysPast /\ NotifiesTheStarted'
    BY <1>a, <1>b, <2>1 DEF StaysPast, NotifiesTheStarted, TypeOK
  <2> QED BY <1>d, <2>1, <2>2, <2>3
<1> QED BY <1>1, <1>2, <1>3, <1>4, <1>5, <1>6, <1>7, <1>8, <1>9, <1>10, <1>11,
        <1>12, <1>13, <1>14, <1>15, <1>16, <1>17, <1>18, <1>19, <1>20, <1>22,
        <1>23, <1>24 DEF Next, HandlerNext, WorkerNext, ExitNext, NotifyNext,
        AlarmNext, RequestNext

\* The inductive invariant of a shutdown.
THEOREM ShutdownCorrect == Spec => []QuietInv
<1>1. Init => QuietInv
  <2> SUFFICES ASSUME Init PROVE QuietInv
    OBVIOUS
  <2>1. \A t \in Tid : /\ thread[t].pc = "none" /\ thread[t].arg = "ST_READY"
    BY DEF Init, NoWorker
  <2>2. WorkersOfTheLiving
    BY <2>1 DEF WorkersOfTheLiving, Live
  <2>3. EmptyIsNoTask /\ NotifiesTheStarted /\ NoShutdownLeft
    BY DEF Init, EmptyIsNoTask, NotifiesTheStarted, NoShutdownLeft
  <2> QED BY <2>2, <2>3 DEF QuietInv
<1>2. QueueInv /\ QuietInv /\ [Next]_vars => QuietInv'
  BY QuietStep
<1> QED BY <1>1, <1>2, QueueCorrect, PTL DEF Spec

\* handle_mounts_exit() umounts and frees a mount point that no worker has, and
\* that no task is queued for.
THEOREM ShutDownsAreQuiet == Spec => []ShutDownIsQuiet
<1>1. TypeOK /\ QuietInv => ShutDownIsQuiet
  BY DEF QuietInv, ShutDownIsQuiet, WorkersOfTheLiving, NoShutdownLeft, TypeOK, Worker
<1> QED BY <1>1, ShutdownCorrect, TypeCorrect, PTL
=============================================================================
