------------------------------ MODULE AlarmAbs ------------------------------
(***************************************************************************)
(* What lib/alarm.c promises the rest of the daemon: each mount point has  *)
(* at most one expire alarm. Adding an alarm does nothing while there is   *)
(* one, even a cancelled one; an alarm is taken off the list before its    *)
(* expire is queued; deleting an alarm removes or cancels it, but does not *)
(* call back an expire the alarm thread is already about to queue.         *)
(***************************************************************************)
CONSTANT AP

VARIABLES
  alarm,   \* the alarm of each mount point
  firing   \* the mount point whose expire the alarm thread is about to queue

vars == <<alarm, firing>>

Init ==
  /\ alarm = [ap \in AP |-> "none"]
  /\ firing = {}

\* conditional_alarm_add()
Add(ap) ==
  /\ alarm[ap] = "none"
  /\ alarm' = [alarm EXCEPT ![ap] = "armed"]
  /\ UNCHANGED firing

\* alarm_delete(): the alarm the thread is waiting on is only marked.
Delete(ap) ==
  /\ alarm[ap] # "none"
  /\ \E a \in {"none", "cancelled"} : alarm' = [alarm EXCEPT ![ap] = a]
  /\ UNCHANGED firing

\* alarm_handler(): the first alarm is due.
Fire(ap) ==
  /\ alarm[ap] # "none"
  /\ firing = {}
  /\ alarm' = [alarm EXCEPT ![ap] = "none"]
  /\ firing' = IF alarm[ap] = "armed" THEN {ap} ELSE {}

\* st_add_task(ap, ST_EXPIRE)
Expire(ap) ==
  /\ ap \in firing
  /\ firing' = {}
  /\ UNCHANGED alarm

Next == \E ap \in AP : Add(ap) \/ Delete(ap) \/ Fire(ap) \/ Expire(ap)

Spec == Init /\ [][Next]_vars
=============================================================================
