------------------------------- MODULE Alarm --------------------------------
(***************************************************************************)
(* lib/alarm.c: the list of expire alarms, ordered by time, and the thread *)
(* that waits for the first of them.                                       *)
(*                                                                         *)
(* The alarm lock is held by the thread except in its two condition waits  *)
(* and while it queues an expire, so callers need pc # "look".             *)
(***************************************************************************)
EXTENDS Integers, Sequences

CONSTANTS
  AP,        \* mount points
  Seconds,   \* the run frequencies alarms are set with
  MaxTime    \* bound on the clock

ASSUME AlarmAssumption ==
  /\ Seconds \subseteq Nat \ {0}
  /\ MaxTime \in Nat

VARIABLES
  alarms,    \* the list: ap, time, cancel
  now,       \* monotonic_time()
  pc,        \* where alarm_handler() is
  until,     \* the time its timed wait ends
  woken,     \* a pthread_cond_signal() has reached its wait
  taken      \* the ap of the alarm it has taken off the list

vars == <<alarms, now, pc, until, woken, taken>>

\* struct alarm
Entry == [ap: AP, time: Nat, cancel: BOOLEAN]

Waiting == pc \in {"cond", "timed"}
Unlocked == pc # "look"
SignalCond == woken' = (woken \/ Waiting)

Init ==
  /\ alarms = <<>>
  /\ now = 0
  /\ pc = "look"
  /\ until = 0
  /\ woken = FALSE
  /\ taken \in AP

-----------------------------------------------------------------------------
(* The list. *)

\* __alarm_exists(): a cancelled alarm counts.
Exists(ap) == \E i \in DOMAIN alarms : alarms[i].ap = ap

InsertAt(s, k, e) ==
  [i \in 1 .. Len(s) + 1 |-> IF i < k THEN s[i] ELSE IF i = k THEN e ELSE s[i - 1]]

DeleteAt(s, k) ==
  [i \in 1 .. Len(s) - 1 |-> IF i < k THEN s[i] ELSE s[i + 1]]

\* The new alarm goes before the first one that is not earlier.
IsPlaceAtEnd(s, k, time) == k = Len(s) + 1  \* mutant
IsPlace(s, k, time) ==
  /\ \A i \in 1 .. k - 1 : s[i].time < time
  /\ k <= Len(s) => s[k].time >= time

\* Is the alarm thread to be woken for a new alarm at time?
WakesIfEmpty(time) == alarms = <<>>  \* mutant
WakesNever(time) == FALSE            \* mutant
Wakes(time) == alarms = <<>> \/ time < alarms[1].time

\* conditional_alarm_add() and __alarm_add(), for an ap with mounts that is not
\* a submount; otherwise, with an alarm on the list, with zero seconds or
\* without memory, they change nothing.
ConditionalAlarmAdd(ap, seconds) ==
  LET new == [ap |-> ap, time |-> now + seconds, cancel |-> FALSE] IN
  /\ Unlocked
  /\ ~Exists(ap)
  /\ now + seconds <= MaxTime
  /\ \E k \in 1 .. Len(alarms) + 1 :
       /\ IsPlace(alarms, k, new.time)
       /\ alarms' = InsertAt(alarms, k, new)
  /\ IF Wakes(new.time) THEN SignalCond ELSE UNCHANGED woken
  /\ UNCHANGED <<now, pc, until, taken>>

\* alarm_delete(): the first alarm of the list, which the thread may be waiting
\* on, is marked and made due. An ap has at most one alarm (OnePerMount).
AlarmDelete(ap) ==
  /\ Unlocked
  /\ \E i \in DOMAIN alarms :
       /\ alarms[i].ap = ap
       /\ IF i = 1
            THEN /\ alarms' = [alarms EXCEPT ![1].cancel = TRUE, ![1].time = 0]
                 /\ SignalCond
            ELSE /\ alarms' = DeleteAt(alarms, i)
                 /\ UNCHANGED woken
  /\ UNCHANGED <<now, pc, until, taken>>

-----------------------------------------------------------------------------
(* alarm_handler() *)

\* A condition wait ends: signalled, timed out, or for no reason.
WakeUp ==
  /\ Waiting
  /\ pc' = "look"
  /\ woken' = FALSE
  /\ UNCHANGED <<alarms, now, until, taken>>

\* No alarms, wait for one to be added.
WaitForAlarm ==
  /\ pc = "look"
  /\ alarms = <<>>
  /\ pc' = "cond"
  /\ UNCHANGED <<alarms, now, until, woken, taken>>

\* Wait for the first alarm to be due or for an earlier one to be added.
WaitForTime ==
  /\ pc = "look"
  /\ alarms # <<>>
  /\ alarms[1].time > now
  /\ pc' = "timed"
  /\ until' = alarms[1].time
  /\ UNCHANGED <<alarms, now, woken, taken>>

TakeFirstAnyway ==  \* mutant: a cancelled alarm fires
  /\ pc = "look"
  /\ alarms # <<>>
  /\ alarms[1].time <= now
  /\ alarms' = DeleteAt(alarms, 1)
  /\ pc' = "fire" /\ taken' = alarms[1].ap
  /\ UNCHANGED <<now, until, woken>>

\* The first alarm is due: take it off the list and, unless it has been
\* cancelled, let go of the lock ...
TakeFirst ==
  /\ pc = "look"
  /\ alarms # <<>>
  /\ alarms[1].time <= now
  /\ alarms' = DeleteAt(alarms, 1)
  /\ IF alarms[1].cancel THEN UNCHANGED <<pc, taken>>
     ELSE pc' = "fire" /\ taken' = alarms[1].ap
  /\ UNCHANGED <<now, until, woken>>

\* ... to queue the expire: st_add_task(ap, ST_EXPIRE).
QueueExpire ==
  /\ pc = "fire"
  /\ pc' = "look"
  /\ UNCHANGED <<alarms, now, until, woken, taken>>

Handler ==
  \/ WaitForAlarm \/ WaitForTime \/ TakeFirst \/ QueueExpire

\* A wait that has been signalled or has timed out does end.
MustWake ==
  /\ woken \/ (pc = "timed" /\ now >= until)
  /\ WakeUp

Tick ==
  /\ now < MaxTime
  /\ now' = now + 1
  /\ UNCHANGED <<alarms, pc, until, woken, taken>>

-----------------------------------------------------------------------------
Next ==
  \/ \E ap \in AP, seconds \in Seconds : ConditionalAlarmAdd(ap, seconds)
  \/ \E ap \in AP : AlarmDelete(ap)
  \/ WakeUp \/ Handler \/ Tick

Fairness == WF_vars(Handler) /\ WF_vars(MustWake) /\ WF_vars(Tick)

Spec == Init /\ [][Next]_vars
FairSpec == Spec /\ Fairness

-----------------------------------------------------------------------------
(* Properties. *)

\* The list, the clock and the alarm thread keep their types; the thread waits for
\* a time only while it knows one.
TypeOK ==
  /\ alarms \in Seq(Entry)
  /\ now \in Nat
  /\ pc \in {"look", "cond", "timed", "fire"}
  /\ until \in Nat
  /\ woken \in BOOLEAN
  /\ taken \in AP

\* The list stays ordered by time, cancelled alarms included.
Ordered ==
  \A i, j \in DOMAIN alarms : i < j => alarms[i].time <= alarms[j].time

\* conditional_alarm_add() never sets a second alarm for an ap, and only the
\* first alarm of the list is ever a cancelled one.
OnePerMount ==
  \A i, j \in DOMAIN alarms : alarms[i].ap = alarms[j].ap => i = j
CancelledIsFirst ==
  \A i \in DOMAIN alarms : alarms[i].cancel => i = 1 /\ alarms[i].time = 0

\* The thread never oversleeps: unless it has been signalled, it waits without
\* a limit only when there is no alarm, and never past the first one.
NoOversleep ==
  /\ pc = "cond" /\ ~woken => alarms = <<>>
  /\ pc = "timed" /\ ~woken => alarms # <<>> /\ until <= alarms[1].time

\* The inductive invariant.
AlarmInv == TypeOK /\ Ordered /\ OnePerMount /\ CancelledIsFirst /\ NoOversleep

\* An alarm that is set fires or is cancelled, however many others are added,
\* deleted and cancelled before it.
AlarmFires ==
  \A ap \in AP :
    (\E i \in DOMAIN alarms : alarms[i].ap = ap /\ ~alarms[i].cancel) ~>
      ~(\E i \in DOMAIN alarms : alarms[i].ap = ap /\ ~alarms[i].cancel)

\* The list implements what the daemon relies on, AlarmAbs.
AlarmOf(ap) ==
  IF ~Exists(ap) THEN "none"
  ELSE IF \E i \in DOMAIN alarms : alarms[i].ap = ap /\ alarms[i].cancel
       THEN "cancelled" ELSE "armed"
Abs == INSTANCE AlarmAbs WITH
         alarm <- [ap \in AP |-> AlarmOf(ap)],
         firing <- IF pc = "fire" THEN {taken} ELSE {}
ImplementsAbs == Abs!Spec
=============================================================================
