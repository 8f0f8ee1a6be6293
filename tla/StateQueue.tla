----------------------------- MODULE StateQueue -----------------------------
(***************************************************************************)
(* The automount state machine: the state queue of daemon/state.c with its *)
(* handler thread, the expire and map-read threads it starts, and the      *)
(* callers that queue work on it (signal handling in daemon/master.c, the  *)
(* expire alarm, the per-mount handle_mounts() thread of                   *)
(* daemon/automount.c, an expire thread passing its state on to a          *)
(* submount).                                                              *)
(*                                                                         *)
(* Every autofs mount point (struct autofs_point, "ap") has at most one    *)
(* task in the queue; further requests wait on that task's pending list.   *)
(* The state mutex is held by the handler during a whole pass over the     *)
(* queue and is released only in its two condition waits, so every other   *)
(* critical section needs hpc \in {"idle", "wait"} (MutexFree).            *)
(***************************************************************************)
EXTENDS Naturals, Sequences

CONSTANTS
  AP,              \* autofs mount points
  Submount,        \* those mounted inside another one (ap->submount)
  Parent,          \* Parent[sm]: the mount point submount sm lives in
  Direct,          \* those of type LKP_DIRECT
  Tid,             \* thread ids; a dead thread's id may be reused
  NoTid,           \* pthread_t 0
  ForcedShutdown,  \* ENABLE_FORCED_SHUTDOWN
  IgnoreBusy,      \* ENABLE_IGNORE_BUSY_MOUNTS
  SkipUnmount,     \* --skip-unmount-at-exit
  Failures,        \* what may fail: no memory for a task ("alloc"), no memory
                   \* or thread for a worker ("start"), an ioctl ("ioctl")
  Allowed,         \* the kinds of request that are made ...
  MaxRequests      \* ... and the bound on their number

Signal  == {"TERM", "USR1", "USR2", "HUP"}
Request == Signal \cup {"UPDATE", "MOUNT", "SUBMOUNT", "PKTFAIL"}

ASSUME StateQueueAssumption ==
  /\ AP # {}
  /\ Submount \subseteq AP
  /\ Direct \subseteq AP
  /\ Parent \in [Submount -> AP]
  /\ NoTid \notin Tid
  /\ ForcedShutdown \in BOOLEAN
  /\ IgnoreBusy \in BOOLEAN
  /\ SkipUnmount \in BOOLEAN
  /\ Failures \subseteq {"alloc", "start", "ioctl"}
  /\ Allowed \subseteq Request
  /\ ~ForcedShutdown => "USR2" \notin Allowed
  /\ MaxRequests \in Nat

\* enum states, include/state.h (ST_INVAL is "no state")
States == {"ST_READY", "ST_EXPIRE", "ST_PRUNE", "ST_READMAP",
           "ST_SHUTDOWN_PENDING", "ST_SHUTDOWN_FORCE", "ST_SHUTDOWN"}
TaskState == {"ST_EXPIRE", "ST_PRUNE", "ST_READMAP",
              "ST_SHUTDOWN_PENDING", "ST_SHUTDOWN_FORCE"}
ShuttingDown == {"ST_SHUTDOWN_PENDING", "ST_SHUTDOWN_FORCE"}

VARIABLES
  state,           \* ap->state
  shutdown,        \* ap->shutdown: a signal asked for the shutdown
  exp_thread,      \* ap->exp_thread
  readmap_thread,  \* ap->readmap_thread
  task,            \* the queued task of each ap, with its pending list
  signaled,        \* the flag the handler's condition wait tests
  hpc,             \* where st_queue_handler() is
  scan,            \* aps whose task the current pass has still to visit
  thread,          \* the expire and map-read threads
  mpc,             \* where each handle_mounts() thread is
  sigcont,         \* a SIGCONT is pending for the handle_mounts() thread
  alarm,           \* the expire alarm of each ap
  firing,          \* the ap whose alarm the alarm thread has taken off its list
  mounted,         \* the ap has mounts of its own below it
  notify,          \* the signal the signal handler is passing on, to whom
  requests         \* how many requests have been made

queueVars  == <<state, shutdown, task, signaled, sigcont>>
handlerVars == <<hpc, scan>>
threadVars == <<exp_thread, readmap_thread, thread>>
alarmVars  == <<alarm, firing>>
envVars    == <<mounted, notify, requests>>
vars == <<queueVars, handlerVars, threadVars, mpc, alarmVars, envVars>>

-----------------------------------------------------------------------------
(* Data. *)

\* struct state_queue
Task == [state: TaskState \cup {"ST_INVAL"}, busy: BOOLEAN, done: BOOLEAN,
         cancel: BOOLEAN, thid: Tid \cup {NoTid}, pending: Seq(TaskState)]

\* An ap without a queued task.
NoTask == [state |-> "ST_INVAL", busy |-> FALSE, done |-> FALSE,
           cancel |-> FALSE, thid |-> NoTid, pending |-> <<>>]

\* st_alloc_task()
NewTask(st) == [NoTask EXCEPT !.state = st]

\* A worker thread: where it is, its kind, the ap it works on, the submounts it
\* has still to notify, the one it is notifying and the state it passes on,
\* whether it left nothing busy (status 0) and whether it has been cancelled.
WorkerPc == {"none", "list", "run", "notify", "waittask", "waitstate", "read",
             "clean"}
Worker == [pc: WorkerPc, readmap: BOOLEAN, ap: AP, todo: SUBSET Submount,
           sub: AP, arg: States, ok: BOOLEAN, cancel: BOOLEAN]

AnAP == CHOOSE ap \in AP : TRUE
NoWorker == [pc |-> "none", readmap |-> FALSE, ap |-> AnAP, todo |-> {},
             sub |-> AnAP, arg |-> "ST_READY", ok |-> FALSE, cancel |-> FALSE]
NewExpire(ap) == [NoWorker EXCEPT !.ap = ap, !.pc = "list"]
NewReadmap(ap) == [NoWorker EXCEPT !.ap = ap, !.pc = "read", !.readmap = TRUE]

Live(t) == thread[t].pc # "none"
Queued(tk) == {ap \in AP : tk[ap].state # "ST_INVAL"}

\* Results of calls that can fail.
Alloc == IF "alloc" \in Failures THEN BOOLEAN ELSE {TRUE}
Started(ap) == mpc[ap] \notin {"none", "gone"}
HasSubmounts(ap) == \E sm \in Submount : Parent[sm] = ap /\ Started(sm)
HasMounts(ap) == mounted[ap] \/ HasSubmounts(ap)
AskUmount(ap) == {"busy"} \cup (IF HasMounts(ap) THEN {} ELSE {"idle"})
                          \cup (IF "ioctl" \in Failures THEN {"error"} ELSE {})

MutexFree == hpc \in {"idle", "wait"}

\* master_mutex is held while a signal is passed on and from the start of
\* handle_mounts_exit() to its end, where the ap's source lock is held too.
Exiting(ap) == mpc[ap] \in {"remove", "waittask", "umount", "ready"}
MasterFree == notify.sig = "none" /\ \A ap \in AP : ~Exiting(ap)

ConditionalAlarmRearms(ap, has) ==  \* mutant: a cancelled alarm does not count
  IF ap \notin Submount /\ has THEN [alarm EXCEPT ![ap] = "armed"] ELSE alarm

\* conditional_alarm_add(): a submount has no alarm, an ap without mounts needs
\* none, and a cancelled alarm still on the list counts as existing.
ConditionalAlarm(ap, has) ==
  IF ap \notin Submount /\ has /\ alarm[ap] = "none"
  THEN [alarm EXCEPT ![ap] = "armed"] ELSE alarm

-----------------------------------------------------------------------------
(* Adding and removing tasks, with the state mutex held. *)

\* The queue part of __st_add_task(): a new task, a new entry at the end of the
\* pending list, or nothing when the request is a duplicate or ap is already
\* being shut down.
Enqueue(tk, apState, st, ok) ==
  LET duplicate == \/ tk.state = st /\ ~tk.done
                   \/ apState \in ShuttingDown
                   \/ \E i \in DOMAIN tk.pending : tk.pending[i] = st
  IN  IF ~ok THEN tk
      ELSE IF tk.state = "ST_INVAL" THEN NewTask(st)
      ELSE IF duplicate THEN tk
      ELSE [tk EXCEPT !.pending = Append(@, st)]

\* Mutants of AddTask: ST_READY queued like any other state, no poke, no SIGCONT.
AddTaskQueuesReady(ap, st, tk, sd) ==
  /\ task' = [task EXCEPT ![ap] = Enqueue(tk, state[ap], st, TRUE)]
  /\ signaled' = TRUE
  /\ shutdown' = sd
  /\ UNCHANGED <<state, sigcont>>
AddTaskNoPoke(ap, st, tk, sd) ==
  /\ task' = [task EXCEPT ![ap] = IF st \in TaskState
                                  THEN Enqueue(tk, state[ap], st, TRUE) ELSE tk]
  /\ state' = [state EXCEPT ![ap] = IF st \in TaskState THEN @ ELSE st]
  /\ sigcont' = [sigcont EXCEPT ![ap] = @ \/ st = "ST_SHUTDOWN"]
  /\ shutdown' = sd
  /\ UNCHANGED signaled
AddTaskNoSigcont(ap, st, tk, sd) ==
  /\ task' = [task EXCEPT ![ap] = IF st \in TaskState
                                  THEN Enqueue(tk, state[ap], st, TRUE) ELSE tk]
  /\ state' = [state EXCEPT ![ap] = IF st \in TaskState THEN @ ELSE st]
  /\ signaled' = TRUE
  /\ shutdown' = sd
  /\ UNCHANGED sigcont

\* __st_add_task(ap, st) with ap's task tk and the shutdown flags sd. ST_READY
\* is immediate and pokes the handler, ST_SHUTDOWN is immediate and sends
\* SIGCONT instead (st_shutdown()), anything else is queued and pokes.
AddTask(ap, st, tk, sd) ==
  LET ready == st = "ST_READY"
      over  == ~ready /\ state[ap] = "ST_SHUTDOWN"
      stop  == ~over /\ st = "ST_SHUTDOWN"
  IN \E ok \in Alloc :
       /\ state' = [state EXCEPT ![ap] = IF ready \/ stop THEN st ELSE @]
       /\ shutdown' = [sd EXCEPT ![ap] = IF ready THEN FALSE ELSE @]
       /\ task' = [task EXCEPT ![ap] = IF ready \/ over \/ stop THEN tk
                                       ELSE Enqueue(tk, state[ap], st, ok)]
       /\ sigcont' = [sigcont EXCEPT ![ap] = @ \/ stop]
       /\ signaled' = (signaled \/ ~(over \/ stop))

Add(ap, st) == MutexFree /\ AddTask(ap, st, task[ap], shutdown)

\* The waiting tasks st_remove_tasks() keeps, in their order: shutdowns. (No
\* state waits twice, so this is pending filtered.)
Shutdowns(pending) ==
  LET pend == {i \in DOMAIN pending : pending[i] = "ST_SHUTDOWN_PENDING"}
      force == {i \in DOMAIN pending : pending[i] = "ST_SHUTDOWN_FORCE"}
  IN CASE pend = {} /\ force = {} -> <<>>
       [] pend # {} /\ force = {} -> <<"ST_SHUTDOWN_PENDING">>
       [] pend = {} /\ force # {} -> <<"ST_SHUTDOWN_FORCE">>
       [] OTHER -> IF \E i \in pend, j \in force : i < j
                   THEN <<"ST_SHUTDOWN_PENDING", "ST_SHUTDOWN_FORCE">>
                   ELSE <<"ST_SHUTDOWN_FORCE", "ST_SHUTDOWN_PENDING">>

RemoveTasksQuietly(ap) ==  \* mutant: cancels without poking the handler
  /\ MutexFree
  /\ task' = [task EXCEPT ![ap].cancel = task[ap].busy, ![ap].pending = Shutdowns(@)]
  /\ UNCHANGED <<state, shutdown, signaled, sigcont>>

\* st_remove_tasks(): cancel a running expire, prune or map read, and drop the
\* pending tasks except a shutdown.
RemoveTasks(ap) ==
  LET tk == task[ap] IN
  /\ MutexFree
  /\ task' = [task EXCEPT ![ap] =
       [tk EXCEPT !.cancel = @ \/ (tk.busy /\ tk.state \notin ShuttingDown),
                  !.pending = Shutdowns(@)]]
  /\ signaled' = (signaled \/ Queued(task) # {})
  /\ UNCHANGED <<state, shutdown, sigcont>>

\* st_task_active(): is a task for st queued or pending?
TaskActive(ap, st) ==
  \/ task[ap].state = st
  \/ \E i \in DOMAIN task[ap].pending : task[ap].pending[i] = st

-----------------------------------------------------------------------------
(* st_queue_handler(), the only thread that starts and reaps tasks. *)

\* The outer wait: the queue is no longer empty, start everything in it.
HandlerFirst ==
  /\ hpc = "idle"
  /\ Queued(task) # {}
  /\ hpc' = "first"
  /\ scan' = Queued(task)
  /\ UNCHANGED <<queueVars, threadVars, mpc, alarmVars, envVars>>

\* The inner wait: somebody poked the handler.
HandlerPoked ==
  /\ hpc = "wait"
  /\ signaled
  /\ hpc' = "scan"
  /\ scan' = Queued(task)
  /\ UNCHANGED <<queueVars, threadVars, mpc, alarmVars, envVars>>

\* A pass looks at each task in the queue in turn.
Visit(ap) == hpc \in {"first", "scan"} /\ ap \in scan \cap Queued(task)
ToStart(tk) == ~tk.busy /\ ~(tk.thid = NoTid /\ tk.cancel)

\* run_state_task(): the st_*() function of the task's state starts a worker.
HandlerStart(ap) ==
  /\ Visit(ap)
  /\ ToStart(task[ap])
  /\ task[ap].state # state[ap]
  /\ \E t \in Tid :
       /\ ~Live(t)
       /\ task' = [task EXCEPT ![ap].busy = TRUE, ![ap].thid = t]
       /\ IF task[ap].state = "ST_READMAP"
            THEN /\ readmap_thread' = [readmap_thread EXCEPT ![ap] = t]
                 /\ thread' = [thread EXCEPT ![t] = NewReadmap(ap)]
                 /\ UNCHANGED exp_thread
            ELSE /\ exp_thread' = [exp_thread EXCEPT ![ap] = t]
                 /\ thread' = [thread EXCEPT ![t] = NewExpire(ap)]
                 /\ UNCHANGED readmap_thread
  /\ state' = [state EXCEPT ![ap] = task[ap].state]
  /\ scan' = scan \ {ap}
  /\ UNCHANGED <<shutdown, signaled, sigcont, hpc, mpc, alarmVars, envVars>>

\* Remove ap's task. In the first pass it is simply freed; in the others the
\* first pending task takes its place at the end of the queue (and a pass that
\* had reached the end starts again); the other pending tasks are lost.
Remove(ap) ==
  LET tk   == task[ap]
      next == IF hpc = "first" \/ tk.pending = <<>>
              THEN NoTask ELSE NewTask(Head(tk.pending))
  IN /\ task' = [task EXCEPT ![ap] = next]
     /\ scan' = IF next = NoTask THEN scan \ {ap}
                ELSE IF scan = {ap} THEN Queued(task) ELSE scan

\* run_state_task() fails: no memory or no thread, back to ready.
HandlerStartFails(ap) ==
  /\ "start" \in Failures
  /\ Visit(ap)
  /\ ToStart(task[ap])
  /\ task[ap].state # state[ap]
  /\ state' = [state EXCEPT ![ap] = "ST_READY"]
  /\ shutdown' = [shutdown EXCEPT ![ap] = FALSE]
  /\ alarm' = ConditionalAlarm(ap, HasMounts(ap))
  /\ Remove(ap)
  /\ UNCHANGED <<signaled, sigcont, hpc, threadVars, mpc, firing, envVars>>

FinishedEarly(ap) == task[ap].busy \/ task[ap].state = state[ap]  \* mutant

\* The task was cancelled before it started, asks for the state ap is already
\* in, or is done.
Finished(ap) ==
  LET tk == task[ap] IN
  IF tk.thid = NoTid /\ tk.cancel THEN TRUE
  ELSE IF ~tk.busy THEN tk.state = state[ap]
  ELSE tk.thid # NoTid /\ ~tk.cancel /\ tk.done

HandlerReap(ap) ==
  /\ Visit(ap)
  /\ Finished(ap)
  /\ Remove(ap)
  /\ UNCHANGED <<state, shutdown, signaled, sigcont, hpc, threadVars, mpc,
                 alarmVars, envVars>>

\* pthread_cancel(task->thid): whatever thread has that id now.
HandlerCancel(ap) ==
  LET tk == task[ap] IN
  /\ Visit(ap)
  /\ tk.busy /\ tk.thid # NoTid /\ tk.cancel
  /\ thread' = [thread EXCEPT ![tk.thid].cancel = Live(tk.thid)]
  /\ task' = [task EXCEPT ![ap].cancel = FALSE]
  /\ scan' = scan \ {ap}
  /\ UNCHANGED <<state, shutdown, signaled, sigcont, hpc, exp_thread,
                 readmap_thread, mpc, alarmVars, envVars>>

\* Still busy (or still starting up).
HandlerSkip(ap) ==
  LET tk == task[ap] IN
  /\ Visit(ap)
  /\ tk.busy
  /\ IF tk.thid = NoTid THEN ~tk.cancel ELSE ~tk.cancel /\ ~tk.done
  /\ scan' = scan \ {ap}
  /\ UNCHANGED <<queueVars, hpc, threadVars, mpc, alarmVars, envVars>>

\* End of a pass: wait for a poke, or for a task if the queue is empty (the
\* first pass always goes on to wait for a poke).
HandlerWait ==
  /\ hpc \in {"first", "scan"}
  /\ scan = {}
  /\ IF hpc = "scan" /\ Queued(task) = {}
       THEN hpc' = "idle" /\ UNCHANGED signaled
       ELSE hpc' = "wait" /\ signaled' = FALSE
  /\ UNCHANGED <<state, shutdown, task, sigcont, scan, threadVars, mpc,
                 alarmVars, envVars>>

HandlerNext ==
  \/ HandlerFirst \/ HandlerPoked \/ HandlerWait
  \/ \E ap \in AP : \/ HandlerStart(ap) \/ HandlerStartFails(ap)
                     \/ HandlerReap(ap) \/ HandlerCancel(ap) \/ HandlerSkip(ap)

-----------------------------------------------------------------------------
(* The worker threads. *)

\* A step of worker t that touches nothing but its own record.
Local == UNCHANGED <<handlerVars, exp_thread, readmap_thread, mpc, alarmVars>>

\* expire_proc_indirect(), expire_proc_direct(): get the list of mounts; with
\* none there is nothing to do.
ExpireList(t) ==
  LET ap == thread[t].ap IN
  /\ thread[t].pc = "list"
  /\ thread' = [thread EXCEPT
       ![t].pc = IF HasMounts(ap) THEN "run" ELSE "clean",
       ![t].ok = ~HasMounts(ap),
       ![t].todo = {sm \in Submount : Parent[sm] = ap /\ Started(sm)}]
  /\ Local /\ UNCHANGED <<queueVars, envVars>>

\* master_notify_submount(ap, path, ap->state): ap->state is read without the
\* state mutex, before the call.
NotifyRead(t) ==
  /\ thread[t].pc = "run"
  /\ \E sm \in thread[t].todo :
       thread' = [thread EXCEPT ![t].pc = "notify", ![t].sub = sm,
                    ![t].todo = @ \ {sm}, ![t].arg = state[thread[t].ap]]
  /\ Local /\ UNCHANGED <<queueVars, envVars>>

\* Pass the state and the shutdown flag on to the submount ...
NotifyAdd(t) ==
  LET ap == thread[t].ap
      sm == thread[t].sub
  IN /\ thread[t].pc = "notify"
     /\ MutexFree
     /\ Started(sm) /\ state[sm] # "ST_SHUTDOWN"
     /\ AddTask(sm, thread[t].arg, task[sm],
                [shutdown EXCEPT ![sm] = shutdown[ap]])
     /\ thread' = [thread EXCEPT ![t].pc = "waittask"]
     /\ Local /\ UNCHANGED envVars

\* ... unless it has gone or has shut down.
NotifyNobody(t) ==
  LET sm == thread[t].sub IN
  /\ thread[t].pc = "notify"
  /\ MutexFree
  /\ ~Started(sm) \/ state[sm] = "ST_SHUTDOWN"
  /\ thread' = [thread EXCEPT ![t].pc = "run"]
  /\ Local /\ UNCHANGED <<queueVars, envVars>>

\* st_wait_task(): poll until the submount's queue holds no such task.
NotifyWaitTask(t) ==
  /\ thread[t].pc = "waittask"
  /\ MutexFree
  /\ ~TaskActive(thread[t].sub, thread[t].arg)
  /\ thread' = [thread EXCEPT ![t].pc = "waitstate"]
  /\ Local /\ UNCHANGED <<queueVars, envVars>>

\* Poll until the submount is gone or no longer about to shut down.
NotifyWaitState(t) ==
  LET sm == thread[t].sub IN
  /\ thread[t].pc = "waitstate"
  /\ MutexFree
  /\ Started(sm) => state[sm] \notin ShuttingDown
  /\ thread' = [thread EXCEPT ![t].pc = "run"]
  /\ Local /\ UNCHANGED <<queueVars, envVars>>

\* The expire ioctls: the kernel answers them with expire packets, which the
\* handle_mounts() thread must serve.
ExpireMounts(t) ==
  LET ap == thread[t].ap IN
  /\ thread[t].pc = "run"
  /\ thread[t].todo = {}
  /\ mpc[ap] = "serve"
  /\ \E left \in {FALSE, mounted[ap]}, ok \in BOOLEAN :
       /\ mounted' = [mounted EXCEPT ![ap] = left]
       /\ thread' = [thread EXCEPT ![t].pc = "clean", ![t].ok = ok]
  /\ Local /\ UNCHANGED <<queueVars, notify, requests>>

\* do_readmap(): needs ap's source lock, so not while ap exits. A direct map
\* that was empty gets its first alarm here.
ReadMap(t) ==
  LET ap == thread[t].ap IN
  /\ thread[t].pc = "read"
  /\ ~Exiting(ap)
  /\ thread' = [thread EXCEPT ![t].pc = "clean"]
  /\ alarm' = IF ap \in Direct THEN ConditionalAlarm(ap, HasMounts(ap)) ELSE alarm
  /\ UNCHANGED <<queueVars, handlerVars, exp_thread, readmap_thread, mpc, firing,
                 envVars>>

\* A cancelled worker unwinds to its cleanup handler.
Cancelled(t) ==
  /\ thread[t].pc \in {"list", "run", "read"}
  /\ thread[t].cancel
  /\ thread' = [thread EXCEPT ![t].pc = "clean", ![t].ok = FALSE]
  /\ Local /\ UNCHANGED <<queueVars, envVars>>

NextStateNoPrune(ap, ok, ask) ==  \* mutant: the ST_PRUNE case is missing
  CASE state[ap] = "ST_EXPIRE" -> "ST_READY"
    [] state[ap] = "ST_SHUTDOWN_PENDING" -> "ST_SHUTDOWN"
    [] OTHER -> "ST_INVAL"

\* The state expire_cleanup() chooses from ap's state, the status of the expire
\* and what the askumount ioctl says.
NextState(ap, ok, ask) ==
  CASE state[ap] \in {"ST_EXPIRE", "ST_PRUNE"} ->
         IF ap \in Submount /\ ok /\ ask = "idle"
         THEN "ST_SHUTDOWN_PENDING" ELSE "ST_READY"
    [] state[ap] = "ST_READY" -> "ST_READY"
    [] state[ap] = "ST_SHUTDOWN_PENDING" ->
         IF ask = "busy" /\ ~shutdown[ap] THEN "ST_READY"
         ELSE IF IgnoreBusy \/ ok THEN "ST_SHUTDOWN" ELSE "ST_READY"
    [] state[ap] = "ST_SHUTDOWN_FORCE" -> "ST_SHUTDOWN"
    [] OTHER -> "ST_INVAL"

\* The alarm is set again after an expire, or a shutdown that did not succeed.
Rearms(ap, next) ==
  next = "ST_READY" /\ state[ap] \in {"ST_EXPIRE", "ST_SHUTDOWN_PENDING"}

SetDoneForgets(ap) == task[ap]  \* mutant
SetDone(ap) == IF task[ap].state = "ST_INVAL" THEN NoTask
               ELSE [task[ap] EXCEPT !.done = TRUE]

\* expire_cleanup(), run by the expire thread as it ends.
ExpireCleanup(t) ==
  LET ap == thread[t].ap IN
  /\ thread[t].pc = "clean"
  /\ ~thread[t].readmap
  /\ MutexFree
  /\ \E ask \in AskUmount(ap) :
       LET next == IF exp_thread[ap] = t THEN NextState(ap, thread[t].ok, ask)
                   ELSE "ST_INVAL"
       IN
       /\ IF next = "ST_INVAL"
            THEN /\ task' = [task EXCEPT ![ap] = SetDone(ap)]
                 /\ UNCHANGED <<state, shutdown, signaled, sigcont>>
            ELSE AddTask(ap, next, SetDone(ap), shutdown)
       /\ alarm' = IF Rearms(ap, next) THEN ConditionalAlarm(ap, HasMounts(ap))
                   ELSE alarm
  /\ exp_thread' = [exp_thread EXCEPT ![ap] = IF @ = t THEN NoTid ELSE @]
  /\ thread' = [thread EXCEPT ![t] = NoWorker]
  /\ UNCHANGED <<handlerVars, readmap_thread, mpc, firing, envVars>>

\* do_readmap_cleanup(): back to ready, without a poke.
ReadMapCleanup(t) ==
  LET ap == thread[t].ap IN
  /\ thread[t].pc = "clean"
  /\ thread[t].readmap
  /\ MutexFree
  /\ task' = [task EXCEPT ![ap] = SetDone(ap)]
  /\ state' = [state EXCEPT ![ap] = "ST_READY"]
  /\ shutdown' = [shutdown EXCEPT ![ap] = FALSE]
  /\ readmap_thread' = [readmap_thread EXCEPT ![ap] = NoTid]
  /\ thread' = [thread EXCEPT ![t] = NoWorker]
  /\ UNCHANGED <<signaled, sigcont, handlerVars, exp_thread, mpc, alarmVars, envVars>>

WorkerNext(t) ==
  \/ ExpireList(t) \/ NotifyRead(t) \/ NotifyAdd(t) \/ NotifyNobody(t)
  \/ NotifyWaitTask(t) \/ NotifyWaitState(t) \/ ExpireMounts(t)
  \/ ReadMap(t) \/ Cancelled(t) \/ ExpireCleanup(t) \/ ReadMapCleanup(t)

-----------------------------------------------------------------------------
(* handle_mounts(): serve packets, and leave when ap has shut down. *)

\* One more request of kind r from outside.
Spend(r) ==
  r \in Allowed /\ requests < MaxRequests /\ requests' = requests + 1

\* SIGCONT interrupts the ppoll() of get_pkt(), which then looks at ap->state.
GotSigcont(ap) ==
  /\ mpc[ap] = "serve"
  /\ sigcont[ap]
  /\ MutexFree
  /\ sigcont' = [sigcont EXCEPT ![ap] = FALSE]
  /\ mpc' = [mpc EXCEPT ![ap] = IF state[ap] = "ST_SHUTDOWN" THEN "exit" ELSE @]
  /\ UNCHANGED <<state, shutdown, task, signaled, handlerVars, threadVars,
                 alarmVars, envVars>>

\* handle_mounts() also looks at ap->state after each packet it has served.
SeenShutdown(ap) ==
  /\ mpc[ap] = "serve"
  /\ state[ap] = "ST_SHUTDOWN"
  /\ mpc' = [mpc EXCEPT ![ap] = "exit"]
  /\ UNCHANGED <<queueVars, handlerVars, threadVars, alarmVars, envVars>>

\* A packet cannot be read or its handler reports a failure.
PacketFails(ap) ==
  /\ mpc[ap] = "serve"
  /\ Spend("PKTFAIL")
  /\ mpc' = [mpc EXCEPT ![ap] = "exit"]
  /\ UNCHANGED <<queueVars, handlerVars, threadVars, alarmVars, mounted, notify>>

\* handle_mounts_exit() with the master mutex and the source lock; ap->state is
\* read without the state mutex.
ExitReturn(ap) ==
  /\ mpc[ap] = "exit"
  /\ MasterFree
  /\ state[ap] # "ST_SHUTDOWN"
  /\ alarm' = ConditionalAlarm(ap, HasMounts(ap))
  /\ mpc' = [mpc EXCEPT ![ap] = "ready"]
  /\ UNCHANGED <<queueVars, handlerVars, threadVars, firing, envVars>>

\* alarm_delete(): the alarm at the head of the list, which the alarm thread is
\* waiting on, is only marked as cancelled.
ExitAlarm(ap) ==
  /\ mpc[ap] = "exit"
  /\ MasterFree
  /\ state[ap] = "ST_SHUTDOWN"
  /\ \E a \in IF alarm[ap] = "none" THEN {"none"} ELSE {"none", "cancelled"} :
       alarm' = [alarm EXCEPT ![ap] = a]
  /\ mpc' = [mpc EXCEPT ![ap] = "remove"]
  /\ UNCHANGED <<queueVars, handlerVars, threadVars, firing, envVars>>

ExitRemove(ap) ==
  /\ mpc[ap] = "remove"
  /\ RemoveTasks(ap)
  /\ mpc' = [mpc EXCEPT ![ap] = "waittask"]
  /\ UNCHANGED <<handlerVars, threadVars, alarmVars, envVars>>

ExitWaitNot(ap) ==  \* mutant
  /\ mpc[ap] = "waittask"
  /\ mpc' = [mpc EXCEPT ![ap] = "umount"]
  /\ UNCHANGED <<queueVars, handlerVars, threadVars, alarmVars, envVars>>

\* st_wait_task(ap, ST_ANY, 0)
ExitWait(ap) ==
  /\ mpc[ap] = "waittask"
  /\ MutexFree
  /\ task[ap].state = "ST_INVAL"
  /\ mpc' = [mpc EXCEPT ![ap] = "umount"]
  /\ UNCHANGED <<queueVars, handlerVars, threadVars, alarmVars, envVars>>

\* umount_autofs(): umount_all() first, for an indirect map. A direct map or
\* --skip-unmount-at-exit never goes back; an indirect mount that is in use (with
\* anything mounted below it, or a process in it) is given up unless the build
\* and the shutdown request say otherwise.
NoUmount(ap) == ap \in Direct \/ SkipUnmount
UmountAll(ap) == {mounted[ap]} \cup (IF NoUmount(ap) THEN {} ELSE {FALSE})
PastBusy(ap) == (IgnoreBusy \/ ForcedShutdown) /\ shutdown[ap]
LeaveBusy(ap) ==
  state[ap] = "ST_SHUTDOWN_FORCE" \/ (IgnoreBusy /\ shutdown[ap])
UmountGone(ap, has) ==
  \/ NoUmount(ap)
  \/ ~has
  \/ PastBusy(ap) /\ (LeaveBusy(ap) \/ "ioctl" \in Failures)
UmountBusy(ap) ==
  /\ ~NoUmount(ap)
  /\ "ioctl" \in Failures \/ ~(PastBusy(ap) /\ LeaveBusy(ap))

\* handle_mounts_cleanup(), and the thread ends.
ExitGone(ap) ==
  /\ mpc[ap] = "umount"
  /\ \E left \in UmountAll(ap) :
       /\ UmountGone(ap, left \/ HasSubmounts(ap))
       /\ mounted' = [mounted EXCEPT ![ap] = left]
  /\ mpc' = [mpc EXCEPT ![ap] = "gone"]
  /\ sigcont' = [sigcont EXCEPT ![ap] = FALSE]
  /\ UNCHANGED <<state, shutdown, task, signaled, handlerVars, threadVars,
                 alarmVars, notify, requests>>

\* "can't shutdown: filesystem still busy"
ExitBusy(ap) ==
  /\ mpc[ap] = "umount"
  /\ UmountBusy(ap)
  /\ \E left \in UmountAll(ap) :
       /\ mounted' = [mounted EXCEPT ![ap] = left]
       /\ alarm' = ConditionalAlarm(ap, left \/ HasSubmounts(ap))
  /\ mpc' = [mpc EXCEPT ![ap] = "ready"]
  /\ UNCHANGED <<queueVars, handlerVars, threadVars, firing, notify, requests>>

\* "Return to ST_READY is done immediately"
ExitReady(ap) ==
  /\ mpc[ap] = "ready"
  /\ Add(ap, "ST_READY")
  /\ mpc' = [mpc EXCEPT ![ap] = "serve"]
  /\ UNCHANGED <<handlerVars, threadVars, alarmVars, envVars>>

ExitNext(ap) ==
  \/ GotSigcont(ap) \/ ExitReturn(ap) \/ ExitAlarm(ap) \/ ExitRemove(ap)
  \/ ExitWait(ap) \/ ExitGone(ap) \/ ExitBusy(ap) \/ ExitReady(ap)

-----------------------------------------------------------------------------
(* Who asks for work: mounts, the alarm, signals and map updates. *)

Accepts(ap) ==
  mpc[ap] = "serve" /\ ~shutdown[ap] /\ state[ap] # "ST_SHUTDOWN_FORCE"

\* do_mount_indirect(), do_mount_direct(): a mount request has succeeded.
MountDone(ap) ==
  /\ Accepts(ap)
  /\ Spend("MOUNT")
  /\ mounted' = [mounted EXCEPT ![ap] = TRUE]
  /\ alarm' = ConditionalAlarm(ap, TRUE)
  /\ UNCHANGED <<queueVars, handlerVars, threadVars, mpc, firing, notify>>

\* The request mounts submount sm of ap: a new ap, whose handle_mounts() thread
\* starts in ST_READY.
SubmountStarts(sm) ==
  /\ ~Started(sm)
  /\ task[sm] = NoTask
  /\ Accepts(Parent[sm])
  /\ Spend("SUBMOUNT")
  /\ Add(sm, "ST_READY")
  /\ mpc' = [mpc EXCEPT ![sm] = "serve"]
  /\ mounted' = [mounted EXCEPT ![sm] = FALSE]
  /\ alarm' = ConditionalAlarm(Parent[sm], TRUE)
  /\ UNCHANGED <<handlerVars, threadVars, firing, notify>>

\* alarm_handler(): take the alarm off the list (a cancelled one is dropped) ...
AlarmFires(ap) ==
  /\ alarm[ap] # "none"
  /\ firing = {}
  /\ alarm' = [alarm EXCEPT ![ap] = "none"]
  /\ firing' = IF alarm[ap] = "armed" THEN {ap} ELSE {}
  /\ UNCHANGED <<queueVars, handlerVars, threadVars, mpc, envVars>>

\* ... then, without the alarm lock, queue the expire.
AlarmExpire(ap) ==
  /\ ap \in firing
  /\ Add(ap, "ST_EXPIRE")
  /\ firing' = {}
  /\ UNCHANGED <<handlerVars, threadVars, mpc, alarm, envVars>>

\* do_signals(), do_hup_signal(): the signal handler takes the master mutex and
\* goes through the master map's entries.
SignalArrives(sig) ==
  LET all == {ap \in AP \ Submount : Started(ap)} IN
  /\ Spend(sig)
  /\ MasterFree
  /\ all # {}
  /\ notify' = [sig |-> sig, todo |-> all]
  /\ UNCHANGED <<queueVars, handlerVars, threadVars, mpc, alarmVars, mounted>>

NotifyDone(ap) ==
  LET left == notify.todo \ {ap} IN
  notify' = [sig |-> IF left = {} THEN "none" ELSE notify.sig, todo |-> left]

\* The task a signal other than HUP asks for, master_notify_state_change().
SignalTask(ap, sig) ==
  CASE state[ap] = "ST_SHUTDOWN" -> "ST_INVAL"
    [] sig = "USR1" -> "ST_PRUNE"
    [] state[ap] \in ShuttingDown -> "ST_INVAL"
    [] sig = "TERM" -> "ST_SHUTDOWN_PENDING"
    [] OTHER -> "ST_SHUTDOWN_FORCE"

NotifyStateChange(ap) ==
  LET next == SignalTask(ap, notify.sig) IN
  /\ ap \in notify.todo
  /\ notify.sig \in {"TERM", "USR1", "USR2"}
  /\ MutexFree
  /\ IF next = "ST_INVAL" THEN UNCHANGED queueVars
     ELSE AddTask(ap, next, task[ap],
                  [shutdown EXCEPT ![ap] = @ \/ next \in ShuttingDown])
  /\ NotifyDone(ap)
  /\ UNCHANGED <<handlerVars, threadVars, mpc, alarmVars, mounted, requests>>

\* master_mount_mounts() on HUP: an entry that has left the master map is shut
\* down, the maps of the others are read again.
NotifyHup(ap) ==
  /\ ap \in notify.todo
  /\ notify.sig = "HUP"
  /\ \E st \in {"ST_READMAP", "ST_SHUTDOWN_PENDING"} : Add(ap, st)
  /\ NotifyDone(ap)
  /\ UNCHANGED <<handlerVars, threadVars, mpc, alarmVars, mounted, requests>>

\* send_map_update_request(), from a lookup holding ap's source lock.
MapUpdate(ap) ==
  /\ Started(ap)
  /\ ~Exiting(ap)
  /\ Spend("UPDATE")
  /\ Add(ap, "ST_READMAP")
  /\ UNCHANGED <<handlerVars, threadVars, mpc, alarmVars, mounted, notify>>

-----------------------------------------------------------------------------
Init ==
  /\ state = [ap \in AP |-> "ST_READY"]
  /\ shutdown = [ap \in AP |-> FALSE]
  /\ exp_thread = [ap \in AP |-> NoTid]
  /\ readmap_thread = [ap \in AP |-> NoTid]
  /\ task = [ap \in AP |-> NoTask]
  /\ signaled = FALSE
  /\ hpc = "idle"
  /\ scan = {}
  /\ thread = [t \in Tid |-> NoWorker]
  /\ mpc = [ap \in AP |-> IF ap \in Submount THEN "none" ELSE "serve"]
  /\ sigcont = [ap \in AP |-> FALSE]
  /\ alarm = [ap \in AP |-> "none"]
  /\ firing = {}
  /\ mounted = [ap \in AP |-> FALSE]
  /\ notify = [sig |-> "none", todo |-> {}]
  /\ requests = 0

NotifyNext ==
  \E ap \in AP : NotifyStateChange(ap) \/ NotifyHup(ap)
AlarmNext ==
  \E ap \in AP : AlarmFires(ap) \/ AlarmExpire(ap)
RequestNext ==
  \/ \E sig \in Signal : SignalArrives(sig)
  \/ \E sm \in Submount : SubmountStarts(sm)
  \/ \E ap \in AP : \/ MountDone(ap) \/ MapUpdate(ap)
                     \/ SeenShutdown(ap) \/ PacketFails(ap)

Next ==
  \/ HandlerNext
  \/ \E t \in Tid : WorkerNext(t)
  \/ \E ap \in AP : ExitNext(ap)
  \/ NotifyNext \/ AlarmNext \/ RequestNext

\* Threads that can run do run, and a thread waiting for the state mutex or
\* polling under it gets it in the end; requests need not come.
Fairness ==
  /\ WF_vars(HandlerNext)
  /\ \A t \in Tid : SF_vars(WorkerNext(t))
  /\ \A ap \in AP : SF_vars(ExitNext(ap))
  /\ SF_vars(NotifyNext)
  /\ SF_vars(AlarmNext)

Spec == Init /\ [][Next]_vars
FairSpec == Spec /\ Fairness

-----------------------------------------------------------------------------
(* Properties. *)

\* The state machine's fields and threads keep their types: no task is queued
\* for a state that is not one.
TypeOK ==
  /\ state \in [AP -> States]
  /\ shutdown \in [AP -> BOOLEAN]
  /\ exp_thread \in [AP -> Tid \cup {NoTid}]
  /\ readmap_thread \in [AP -> Tid \cup {NoTid}]
  /\ task \in [AP -> Task]
  /\ signaled \in BOOLEAN
  /\ hpc \in {"idle", "first", "wait", "scan"}
  /\ scan \subseteq AP
  /\ thread \in [Tid -> Worker]
  /\ mpc \in [AP -> {"none", "serve", "exit", "remove", "waittask", "umount",
                     "ready", "gone"}]
  /\ sigcont \in [AP -> BOOLEAN]
  /\ alarm \in [AP -> {"none", "armed", "cancelled"}]
  /\ firing \subseteq AP
  /\ mounted \in [AP -> BOOLEAN]
  /\ notify \in [sig: Signal \cup {"none"}, todo: SUBSET AP]
  /\ requests \in 0..MaxRequests

\* A running worker belongs to the task at the head of its ap's queue entry:
\* the task is busy, not done, and carries the worker's id, as does the ap. So
\* an ap never has two workers, st_set_done() marks the right task, and the
\* asserts exp_thread == 0 and readmap_thread == 0 of expire_proc() and
\* st_readmap() hold.
WorkerOwnsTask ==
  \A t \in Tid : Live(t) =>
    LET w == thread[t]
        tk == task[w.ap]
    IN /\ tk.busy /\ ~tk.done /\ tk.thid = t
       /\ w.readmap <=> tk.state = "ST_READMAP"
       /\ IF w.readmap THEN readmap_thread[w.ap] = t ELSE exp_thread[w.ap] = t

\* A task that has been started and is not done has a running worker: nothing
\* waits for a thread that does not exist.
BusyHasWorker ==
  \A ap \in AP :
    LET tk == task[ap] IN
    tk.busy /\ ~tk.done =>
      tk.thid \in Tid /\ Live(tk.thid) /\ thread[tk.thid].ap = ap

\* No lost wakeup: while the handler sleeps without a poke on the way, every
\* queued task has been started.
NoLostWakeup ==
  hpc = "wait" /\ ~signaled => \A ap \in Queued(task) : task[ap].busy

\* An ap is in a transient state only while the worker that will take it out of
\* that state runs. (A submount left with nothing to expire stays in ST_EXPIRE
\* or ST_PRUNE until the shutdown it queued for itself starts.)
TransientHasWorker ==
  \A ap \in AP :
    state[ap] \in TaskState =>
      \/ task[ap].busy /\ ~task[ap].done /\ task[ap].state = state[ap]
      \/ ap \in Submount /\ state[ap] \in {"ST_EXPIRE", "ST_PRUNE"}

\* The SIGCONT that tells handle_mounts() of a shutdown is never lost.
ShutdownIsSignaled ==
  \A ap \in AP :
    mpc[ap] = "serve" /\ state[ap] = "ST_SHUTDOWN" => sigcont[ap]

\* What the invariants above rest on: only a queued task runs, it does so in a
\* thread, only a running task is done, and a pass of the handler has started
\* every queued task it has visited.
TaskShape ==
  \A ap \in AP :
    /\ task[ap].busy => task[ap].state # "ST_INVAL"
    /\ task[ap].busy <=> task[ap].thid # NoTid
    /\ task[ap].done => task[ap].busy
PassCoversQueue ==
  hpc \in {"first", "scan"} =>
    \A ap \in Queued(task) : ap \in scan \/ task[ap].busy

\* The inductive invariant of the state queue.
QueueInv ==
  /\ TypeOK
  /\ TaskShape
  /\ WorkerOwnsTask
  /\ BusyHasWorker
  /\ PassCoversQueue
  /\ NoLostWakeup
  /\ TransientHasWorker
  /\ ShutdownIsSignaled

\* A mount point that has shut down and is past st_wait_task() is out of the
\* queue for good: no worker and no task, nothing left that refers to it when it
\* is freed. (A submount is no longer waited for when a task that was queued
\* behind its shutdown has made it ready again; its parent's expire thread may
\* then queue work for it, and shut it down, while it is being umounted.)
ShutDownIsQuiet ==
  \A ap \in AP :
    mpc[ap] \in {"umount", "gone"} /\ state[ap] = "ST_SHUTDOWN" =>
      /\ \A t \in Tid : Live(t) => thread[t].ap # ap
      /\ ap \notin Submount => task[ap] = NoTask

\* What that rests on: a worker runs for a mount point that has not shut down,
\* and tells only submounts, never of ST_SHUTDOWN ...
WorkersOfTheLiving ==
  \A t \in Tid :
    /\ Live(t) => state[thread[t].ap] # "ST_SHUTDOWN"
    /\ thread[t].arg # "ST_SHUTDOWN"
    /\ thread[t].pc = "notify" => thread[t].sub \in Submount

\* ... no pending list outlives its task ...
EmptyIsNoTask ==
  \A ap \in AP : task[ap].state = "ST_INVAL" => task[ap] = NoTask

\* ... a signal is passed on to mount points that are not on their way out ...
NotifiesTheStarted ==
  notify.todo # {} =>
    /\ notify.sig # "none"
    /\ \A ap \in notify.todo : mpc[ap] \in {"serve", "exit"}

\* A task that shuts down its mount point, or has such a task waiting behind it.
HasShutdown(tk) ==
  \/ tk.state \in ShuttingDown
  \/ \E i \in DOMAIN tk.pending : tk.pending[i] \in ShuttingDown

\* ... and nothing shuts down a mount point of the master map that is past
\* st_wait_task(): if another task has made it ready, it stays so.
NoShutdownLeft ==
  \A ap \in AP \ Submount : mpc[ap] \in {"umount", "gone"} =>
    /\ state[ap] \notin ShuttingDown
    /\ ~HasShutdown(task[ap])
    /\ state[ap] = "ST_SHUTDOWN" => task[ap] = NoTask

\* The inductive invariant, with QueueInv, of a shutdown.
QuietInv ==
  WorkersOfTheLiving /\ EmptyIsNoTask /\ NotifiesTheStarted /\ NoShutdownLeft

\* The state machine uses its alarms as AlarmAbs says, which lib/alarm.c
\* implements (Alarm).
Alarms == INSTANCE AlarmAbs
UsesAlarms == Alarms!Spec

\* handle_mounts_exit() does not wait for ever, with the master mutex held, for
\* the queue to forget an ap that has shut down.
ExitEnds ==
  \A ap \in AP :
    mpc[ap] = "waittask" /\ state[ap] = "ST_SHUTDOWN" ~> mpc[ap] # "waittask"

\* An expire thread that passes its state on to a submount is not held up for
\* ever by it.
NotifyEnds ==
  \A t \in Tid :
    thread[t].pc \in {"notify", "waittask", "waitstate"} ~>
      thread[t].pc \notin {"notify", "waittask", "waitstate"}
=============================================================================
