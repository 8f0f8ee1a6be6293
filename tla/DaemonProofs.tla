---------------------------- MODULE DaemonProofs ----------------------------
(***************************************************************************)
(* Proofs about what a daemon has one of: the alarm list, for any number   *)
(* of mount points, alarms and any run frequencies (the thread never       *)
(* oversleeps, and the list implements AlarmAbs), and the flag file, for   *)
(* any number of daemons.                                                  *)
(***************************************************************************)
EXTENDS Alarm, FlagFile, SequenceTheorems, TLAPS

-----------------------------------------------------------------------------
(* The two list operations. *)

\* List r is list s with entry e put in at position k.
Inserted(r, s, k, e) ==
  /\ r \in Seq(Entry)
  /\ DOMAIN r = 1 .. Len(s) + 1
  /\ \A i \in 1 .. Len(s) + 1 :
       r[i] = IF i < k THEN s[i] ELSE IF i = k THEN e ELSE s[i - 1]

\* InsertAt() puts an entry in at position k.
LEMMA InsertEffect ==
  ASSUME NEW s \in Seq(Entry), NEW k \in 1 .. Len(s) + 1, NEW e \in Entry
  PROVE  Inserted(InsertAt(s, k, e), s, k, e)
<1> DEFINE r == InsertAt(s, k, e)
<1>1. Len(s) \in Nat /\ DOMAIN s = 1 .. Len(s) /\ \A i \in 1 .. Len(s) : s[i] \in Entry
  OBVIOUS
<1>2. /\ DOMAIN r = 1 .. Len(s) + 1
      /\ \A i \in 1 .. Len(s) + 1 :
           r[i] = IF i < k THEN s[i] ELSE IF i = k THEN e ELSE s[i - 1]
  BY <1>1 DEF InsertAt
<1>3. r \in [1 .. Len(s) + 1 -> Entry]
  BY <1>1 DEF InsertAt
<1>4. Len(s) + 1 \in Nat
  BY <1>1
<1>5. r \in Seq(Entry)
  BY <1>3, <1>4, SeqDef
<1> QED BY <1>2, <1>5 DEF Inserted

\* A list with the entry at position k taken out.
LEMMA DeleteEffect ==
  ASSUME NEW s \in Seq(Entry), NEW k \in 1 .. Len(s)
  PROVE  LET r == DeleteAt(s, k) IN
         /\ r \in Seq(Entry)
         /\ DOMAIN r = 1 .. Len(s) - 1
         /\ \A i \in 1 .. Len(s) - 1 : r[i] = IF i < k THEN s[i] ELSE s[i + 1]
<1> DEFINE r == DeleteAt(s, k)
<1>1. Len(s) \in Nat /\ DOMAIN s = 1 .. Len(s) /\ \A i \in 1 .. Len(s) : s[i] \in Entry
  OBVIOUS
<1>2. /\ DOMAIN r = 1 .. Len(s) - 1
      /\ \A i \in 1 .. Len(s) - 1 : r[i] = IF i < k THEN s[i] ELSE s[i + 1]
  BY <1>1 DEF DeleteAt
<1>3. r \in [1 .. Len(s) - 1 -> Entry]
  BY <1>1 DEF DeleteAt
<1>4. Len(s) - 1 \in Nat
  BY <1>1
<1>5. r \in Seq(Entry)
  BY <1>3, <1>4, SeqDef
<1> QED BY <1>2, <1>5

\* A list whose first entry is cancelled.
LEMMA MarkEffect ==
  ASSUME NEW s \in Seq(Entry), s # <<>>
  PROVE  LET r == [s EXCEPT ![1].cancel = TRUE, ![1].time = 0] IN
         /\ r \in Seq(Entry)
         /\ DOMAIN r = DOMAIN s
         /\ r[1].ap = s[1].ap /\ r[1].time = 0 /\ r[1].cancel
         /\ \A i \in DOMAIN s \ {1} : r[i] = s[i]
<1> DEFINE r == [s EXCEPT ![1].cancel = TRUE, ![1].time = 0]
           e == [s[1] EXCEPT !.cancel = TRUE, !.time = 0]
<1>1. 1 \in DOMAIN s /\ s[1] \in Entry /\ DOMAIN s = 1 .. Len(s) /\ Len(s) \in Nat
  OBVIOUS
<1>2. e \in Entry /\ e.ap = s[1].ap /\ e.time = 0 /\ e.cancel
  BY <1>1 DEF Entry
<1>3. r = [i \in DOMAIN s |-> IF i = 1 THEN e ELSE s[i]]
  BY <1>1
<1>4. r \in [1 .. Len(s) -> Entry]
  BY <1>1, <1>2, <1>3
<1> HIDE DEF r, e
<1>5. r \in Seq(Entry)
  BY <1>1, <1>4, SeqDef
<1>6. DOMAIN r = DOMAIN s /\ r[1] = e /\ \A i \in DOMAIN s \ {1} : r[i] = s[i]
  BY <1>1, <1>3
<1> QED BY <1>2, <1>5, <1>6 DEF r

-----------------------------------------------------------------------------
(* The invariant. *)

\* A list operation that leaves the clock and the thread alone.
LEMMA InvStep ==
  ASSUME AlarmInv, [Next]_vars
  PROVE  AlarmInv'
<1>a. /\ alarms \in Seq(Entry) /\ now \in Nat /\ until \in Nat
      /\ pc \in {"look", "cond", "timed", "fire"} /\ woken \in BOOLEAN /\ taken \in AP
      /\ Ordered /\ OnePerMount /\ CancelledIsFirst /\ NoOversleep
  BY DEF AlarmInv, TypeOK
<1>b. /\ Len(alarms) \in Nat /\ DOMAIN alarms = 1 .. Len(alarms)
      /\ \A i \in 1 .. Len(alarms) : alarms[i] \in Entry
      /\ alarms # <<>> => 1 \in DOMAIN alarms
  BY <1>a
<1>1. ASSUME NEW ap \in AP, NEW seconds \in Seconds, ConditionalAlarmAdd(ap, seconds)
      PROVE  AlarmInv'
  <2> DEFINE new == [ap |-> ap, time |-> now + seconds, cancel |-> FALSE]
  <2>1. new \in Entry /\ new.time = now + seconds /\ new.ap = ap /\ ~new.cancel
    BY <1>a, AlarmAssumption DEF Entry
  <2>2. PICK k \in 1 .. Len(alarms) + 1 :
          IsPlace(alarms, k, new.time) /\ alarms' = InsertAt(alarms, k, new)
    BY <1>1 DEF ConditionalAlarmAdd
  <2>3. /\ ~Exists(ap) /\ pc # "look"
        /\ IF Wakes(new.time) THEN woken' = (woken \/ Waiting) ELSE woken' = woken
        /\ UNCHANGED <<now, pc, until, taken>>
    BY <1>1 DEF ConditionalAlarmAdd, SignalCond, Unlocked
  <2> HIDE DEF new
  <2>4. /\ alarms' \in Seq(Entry)
        /\ DOMAIN alarms' = 1 .. Len(alarms) + 1
        /\ \A i \in 1 .. Len(alarms) + 1 :
             alarms'[i] = IF i < k THEN alarms[i] ELSE IF i = k THEN new
                          ELSE alarms[i - 1]
    <3>1. alarms \in Seq(Entry) /\ new \in Entry /\ k \in 1 .. Len(alarms) + 1
      BY <1>a, <2>1
    <3>2. alarms' = InsertAt(alarms, k, new)
      BY <2>2
    <3>3. Inserted(alarms', alarms, k, new)
      BY <3>1, <3>2, InsertEffect
    <3> QED BY <3>3 DEF Inserted
  <2>5. TypeOK'
    BY <1>a, <2>3, <2>4 DEF TypeOK, Waiting
  <2>6. Ordered'
    <3> SUFFICES ASSUME NEW i \in DOMAIN alarms', NEW j \in DOMAIN alarms', i < j
                 PROVE  alarms'[i].time <= alarms'[j].time
      BY DEF Ordered
    <3>1. /\ \A l \in 1 .. k - 1 : alarms[l].time < new.time
          /\ \A l \in k .. Len(alarms) : alarms[l].time >= new.time
      <4>1. \A l \in 1 .. k - 1 : alarms[l].time < new.time
        BY <2>2 DEF IsPlace
      <4>2. \A l \in k .. Len(alarms) :
              alarms[k].time >= new.time /\ alarms[k].time <= alarms[l].time
        <5> SUFFICES ASSUME NEW l \in k .. Len(alarms)
                     PROVE  alarms[k].time >= new.time /\ alarms[k].time <= alarms[l].time
          OBVIOUS
        <5>1. k \in DOMAIN alarms /\ l \in DOMAIN alarms /\ (k < l \/ k = l) /\ k <= Len(alarms)
          BY <1>b
        <5>2. alarms[k].time \in Nat
          BY <1>b, <5>1 DEF Entry
        <5> QED BY <1>a, <2>2, <5>1, <5>2 DEF Ordered, IsPlace
      <4>3. \A l \in k .. Len(alarms) : alarms[l].time \in Nat /\ alarms[k].time \in Nat
        BY <1>b DEF Entry
      <4>4. new.time \in Nat
        BY <2>1 DEF Entry
      <4> QED BY <4>1, <4>2, <4>3, <4>4
    <3>2. \A l \in 1 .. Len(alarms) : alarms[l].time \in Nat
      BY <1>b DEF Entry
    <3>3. new.time \in Nat
      BY <2>1 DEF Entry
    <3>4. \A l, m \in 1 .. Len(alarms) : l < m => alarms[l].time <= alarms[m].time
      BY <1>a, <1>b DEF Ordered
    <3>5. CASE j < k
      BY <1>b, <2>4, <3>4, <3>5
    <3>6. CASE j = k
      BY <1>b, <2>4, <3>1, <3>2, <3>3, <3>6
    <3>7. CASE j > k
      <4>1. alarms'[j] = alarms[j - 1] /\ j - 1 \in k .. Len(alarms)
        BY <1>b, <2>4, <3>7
      <4>2. CASE i < k
        BY <1>b, <2>4, <3>4, <4>1, <4>2
      <4>3. CASE i = k
        BY <1>b, <2>4, <3>1, <3>2, <3>3, <4>1, <4>3
      <4>4. CASE i > k
        <5>1. alarms'[i] = alarms[i - 1] /\ i - 1 \in 1 .. Len(alarms)
          BY <1>b, <2>4, <4>4
        <5>2. j - 1 \in 1 .. Len(alarms) /\ i - 1 < j - 1
          BY <1>b, <2>4, <4>1, <4>4
        <5> QED BY <3>4, <4>1, <5>1, <5>2
      <4> QED BY <2>4, <4>2, <4>3, <4>4
    <3> QED BY <2>4, <3>5, <3>6, <3>7
  <2>7. OnePerMount'
    <3>1. \A l \in 1 .. Len(alarms) : alarms[l].ap # ap
      BY <1>b, <2>3 DEF Exists
    <3> SUFFICES ASSUME NEW i \in DOMAIN alarms', NEW j \in DOMAIN alarms',
                        alarms'[i].ap = alarms'[j].ap, i # j
                 PROVE  FALSE
      BY DEF OnePerMount
    <3> DEFINE old(l) == IF l < k THEN l ELSE l - 1
    <3>2. \A l \in DOMAIN alarms' : l # k =>
            old(l) \in 1 .. Len(alarms) /\ alarms'[l] = alarms[old(l)]
      BY <1>b, <2>4
    <3>3. alarms'[k] = new
      BY <2>4
    <3>4. i # k /\ j # k
      BY <2>1, <2>4, <3>1, <3>2, <3>3
    <3>5. old(i) = old(j)
      BY <1>a, <1>b, <3>2, <3>4 DEF OnePerMount
    <3> QED BY <2>4, <3>4, <3>5
  <2>8. CancelledIsFirst'
    <3> SUFFICES ASSUME NEW i \in DOMAIN alarms', alarms'[i].cancel
                 PROVE  i = 1 /\ alarms'[i].time = 0
      BY DEF CancelledIsFirst
    <3>1. CASE i < k
      <4>1. i \in DOMAIN alarms /\ alarms'[i] = alarms[i]
        BY <1>b, <2>4, <3>1
      <4> QED BY <1>a, <4>1 DEF CancelledIsFirst
    <3>2. CASE i = k
      BY <2>1, <2>4, <3>2
    <3>3. CASE i > k
      <4>1. i - 1 \in DOMAIN alarms /\ alarms'[i] = alarms[i - 1] /\ k <= Len(alarms)
        BY <1>b, <2>4, <3>3
      <4>2. i - 1 = 1 /\ alarms[1].time = 0
        BY <1>a, <4>1 DEF CancelledIsFirst
      <4>3. k = 1
        BY <2>4, <3>3, <4>2
      <4>4. alarms[1].time >= new.time
        BY <2>2, <4>1, <4>3 DEF IsPlace
      <4>5. new.time > 0 /\ new.time \in Nat
        BY <1>a, <2>1, AlarmAssumption
      <4> QED BY <4>2, <4>4, <4>5
    <3> QED BY <2>4, <3>1, <3>2, <3>3
  <2>9. NoOversleep'
    <3>1. alarms' # <<>> /\ 1 \in 1 .. Len(alarms) + 1
      BY <1>b, <2>4
    <3>2. CASE Wakes(new.time)
      BY <2>3, <3>2 DEF NoOversleep, Waiting
    <3>3. CASE ~Wakes(new.time)
      <4>1. alarms # <<>> /\ ~(new.time < alarms[1].time)
        BY <3>3 DEF Wakes
      <4>2. alarms[1].time \in Nat /\ new.time \in Nat
        BY <1>b, <2>1, <4>1 DEF Entry
      <4>3. alarms[1].time <= alarms'[1].time
        <5>1. CASE k = 1
          BY <2>4, <3>1, <4>1, <4>2, <5>1
        <5>2. CASE k # 1
          BY <2>4, <3>1, <4>2, <5>2
        <5> QED BY <5>1, <5>2
      <4>4. alarms'[1].time \in Nat
        <5>1. alarms'[1] = new \/ alarms'[1] = alarms[1]
          BY <2>4, <3>1
        <5> QED BY <4>2, <5>1
      <4> QED BY <1>a, <2>3, <3>1, <3>3, <4>1, <4>2, <4>3, <4>4 DEF NoOversleep
    <3> QED BY <3>2, <3>3
  <2> QED BY <2>5, <2>6, <2>7, <2>8, <2>9 DEF AlarmInv
<1>2. ASSUME NEW ap \in AP, AlarmDelete(ap) PROVE AlarmInv'
  <2>1. PICK d \in DOMAIN alarms :
          /\ alarms[d].ap = ap
          /\ IF d = 1
               THEN /\ alarms' = [alarms EXCEPT ![1].cancel = TRUE, ![1].time = 0]
                    /\ woken' = (woken \/ Waiting)
               ELSE /\ alarms' = DeleteAt(alarms, d)
                    /\ UNCHANGED woken
    BY <1>2 DEF AlarmDelete, SignalCond
  <2>2. pc # "look" /\ UNCHANGED <<now, pc, until, taken>>
    BY <1>2 DEF AlarmDelete, Unlocked
  <2>3. CASE d = 1
    <3>1. /\ alarms' \in Seq(Entry)
          /\ DOMAIN alarms' = DOMAIN alarms
          /\ alarms'[1].ap = alarms[1].ap /\ alarms'[1].time = 0 /\ alarms'[1].cancel
          /\ \A i \in DOMAIN alarms \ {1} : alarms'[i] = alarms[i]
      <4>1. alarms # <<>>
        BY <1>b, <2>1
      <4>2. alarms' = [alarms EXCEPT ![1].cancel = TRUE, ![1].time = 0]
        BY <2>1, <2>3
      <4>3. alarms \in Seq(Entry)
        BY <1>a
      <4> QED BY <4>1, <4>2, <4>3, MarkEffect, Zenon
    <3>2. TypeOK'
      BY <1>a, <2>1, <2>2, <2>3, <3>1 DEF TypeOK, Waiting
    <3>3. Ordered'
      <4>1. \A i \in DOMAIN alarms : alarms[i].time \in Nat
        BY <1>b DEF Entry
      <4> QED BY <1>a, <1>b, <3>1, <4>1 DEF Ordered
    <3>4. OnePerMount' /\ CancelledIsFirst'
      BY <1>a, <2>1, <2>3, <3>1 DEF OnePerMount, CancelledIsFirst
    <3>5. NoOversleep'
      BY <2>1, <2>2, <2>3 DEF NoOversleep, Waiting
    <3> QED BY <3>2, <3>3, <3>4, <3>5 DEF AlarmInv
  <2>4. CASE d # 1
    <3>1. /\ alarms' \in Seq(Entry)
          /\ DOMAIN alarms' = 1 .. Len(alarms) - 1
          /\ \A i \in 1 .. Len(alarms) - 1 :
               alarms'[i] = IF i < d THEN alarms[i] ELSE alarms[i + 1]
      BY <1>a, <1>b, <2>1, <2>4, DeleteEffect
    <3>2. TypeOK'
      BY <1>a, <2>1, <2>2, <2>4, <3>1 DEF TypeOK
    <3>3. \A i \in 1 .. Len(alarms) - 1 :
            i \in DOMAIN alarms /\ i + 1 \in DOMAIN alarms
      BY <1>b
    <3> DEFINE old(i) == IF i < d THEN i ELSE i + 1
    <3>a. \A i \in DOMAIN alarms' : old(i) \in DOMAIN alarms /\ alarms'[i] = alarms[old(i)]
      BY <3>1, <3>3
    <3>b. \A i, j \in DOMAIN alarms' : (i < j => old(i) < old(j)) /\ (old(i) = old(j) => i = j)
      <4>1. d \in Int /\ DOMAIN alarms' \subseteq Int
        BY <1>b, <3>1
      <4> QED BY <4>1
    <3> HIDE DEF old
    <3>4. Ordered' /\ OnePerMount'
      BY <1>a, <3>a, <3>b DEF Ordered, OnePerMount
    <3>5. CancelledIsFirst'
      BY <1>a, <1>b, <2>1, <2>4, <3>1, <3>3 DEF CancelledIsFirst
    <3>6. alarms' # <<>> /\ alarms'[1] = alarms[1]
      BY <1>b, <2>1, <2>4, <3>1
    <3>7. NoOversleep'
      BY <1>a, <2>1, <2>2, <2>4, <3>6 DEF NoOversleep
    <3> QED BY <3>2, <3>4, <3>5, <3>7 DEF AlarmInv
  <2> QED BY <2>3, <2>4
<1>3. CASE WakeUp
  BY <1>a, <1>3 DEF WakeUp, AlarmInv, TypeOK, Ordered, OnePerMount, CancelledIsFirst, NoOversleep
<1>4. CASE WaitForAlarm
  BY <1>a, <1>4 DEF WaitForAlarm, AlarmInv, TypeOK, Ordered, OnePerMount, CancelledIsFirst, NoOversleep
<1>5. CASE WaitForTime
  <2>1. alarms[1].time \in Nat
    BY <1>b, <1>5 DEF WaitForTime, Entry
  <2> QED BY <1>a, <1>5, <2>1 DEF WaitForTime, AlarmInv, TypeOK, Ordered, OnePerMount, CancelledIsFirst, NoOversleep
<1>6. CASE TakeFirst
  <2>1. /\ alarms' = DeleteAt(alarms, 1) /\ pc' \in {"look", "fire"}
        /\ taken' \in AP /\ UNCHANGED <<now, until, woken>>
    BY <1>a, <1>b, <1>6 DEF TakeFirst, Entry
  <2>2. 1 \in 1 .. Len(alarms)
    BY <1>b, <1>6 DEF TakeFirst
  <2>3. /\ alarms' \in Seq(Entry)
        /\ DOMAIN alarms' = 1 .. Len(alarms) - 1
        /\ \A i \in 1 .. Len(alarms) - 1 :
             alarms'[i] = IF i < 1 THEN alarms[i] ELSE alarms[i + 1]
    BY <1>a, <2>1, <2>2, DeleteEffect
  <2>4. \A i \in 1 .. Len(alarms) - 1 :
          i + 1 \in DOMAIN alarms /\ alarms'[i] = alarms[i + 1]
    BY <1>b, <2>3
  <2>5. TypeOK'
    BY <1>a, <2>1, <2>3 DEF TypeOK
  <2>6. Ordered' /\ OnePerMount'
    <3>1. \A i \in DOMAIN alarms' : i \in Int /\ i + 1 \in DOMAIN alarms
                                    /\ alarms'[i] = alarms[i + 1]
      BY <1>b, <2>3, <2>4
    <3>2. \A i, j \in Int : (i < j => i + 1 < j + 1) /\ (i + 1 = j + 1 => i = j)
      OBVIOUS
    <3> QED BY <1>a, <3>1, <3>2 DEF Ordered, OnePerMount
  <2>7. CancelledIsFirst'
    BY <1>a, <2>3, <2>4 DEF CancelledIsFirst
  <2>8. NoOversleep'
    BY <2>1 DEF NoOversleep
  <2> QED BY <2>5, <2>6, <2>7, <2>8 DEF AlarmInv
<1>7. CASE QueueExpire
  BY <1>a, <1>7 DEF QueueExpire, AlarmInv, TypeOK, Ordered, OnePerMount, CancelledIsFirst, NoOversleep
<1>8. CASE Tick
  BY <1>a, <1>8 DEF Tick, AlarmInv, TypeOK, Ordered, OnePerMount, CancelledIsFirst, NoOversleep
<1>9. CASE UNCHANGED vars
  BY <1>a, <1>9 DEF vars, AlarmInv, TypeOK, Ordered, OnePerMount, CancelledIsFirst, NoOversleep
<1> QED BY <1>1, <1>2, <1>3, <1>4, <1>5, <1>6, <1>7, <1>8, <1>9 DEF Next, Handler

\* The list stays ordered, with one alarm per mount point, and the thread never
\* oversleeps.
THEOREM AlarmCorrect == Spec => []AlarmInv
<1>1. Init => AlarmInv
  <2> SUFFICES ASSUME Init PROVE AlarmInv
    OBVIOUS
  <2>1. alarms \in Seq(Entry) /\ DOMAIN alarms = {}
    BY DEF Init
  <2>2. TypeOK /\ NoOversleep
    BY <2>1 DEF Init, TypeOK, NoOversleep
  <2>3. Ordered /\ OnePerMount /\ CancelledIsFirst
    BY <2>1 DEF Ordered, OnePerMount, CancelledIsFirst
  <2> QED BY <2>2, <2>3 DEF AlarmInv
<1>2. AlarmInv /\ [Next]_vars => AlarmInv'
  BY InvStep
<1> QED BY <1>1, <1>2, PTL DEF Spec
-----------------------------------------------------------------------------
(* Refinement. *)

\* ap has a cancelled alarm on the list.
Marked(ap) == \E i \in DOMAIN alarms : alarms[i].ap = ap /\ alarms[i].cancel

\* Every step of the list and its thread is a step of AlarmAbs or changes
\* nothing that AlarmAbs can see.
LEMMA RefineStep ==
  ASSUME AlarmInv, [Next]_vars
  PROVE  [Abs!Next]_(Abs!vars)
<1> DEFINE alarm == [ap \in AP |-> AlarmOf(ap)]
           firing == IF pc = "fire" THEN {taken} ELSE {}
<1>a. /\ alarms \in Seq(Entry) /\ OnePerMount /\ CancelledIsFirst /\ taken \in AP
      /\ Len(alarms) \in Nat /\ DOMAIN alarms = 1 .. Len(alarms)
      /\ \A i \in DOMAIN alarms : alarms[i] \in Entry
  BY DEF AlarmInv, TypeOK
<1>b. \A ap : AlarmOf(ap) = IF ~Exists(ap) THEN "none"
                            ELSE IF Marked(ap) THEN "cancelled" ELSE "armed"
  BY DEF AlarmOf, Marked
<1>c. \A ap : AlarmOf(ap)' = IF ~Exists(ap)' THEN "none"
                             ELSE IF Marked(ap)' THEN "cancelled" ELSE "armed"
  BY DEF AlarmOf, Marked, Exists
<1>d. ASSUME \A ap \in AP : Exists(ap)' = Exists(ap) /\ Marked(ap)' = Marked(ap),
             firing' = firing
      PROVE  [Abs!Next]_(Abs!vars)
  BY <1>b, <1>c, <1>d DEF Abs!vars
<1>e. ASSUME NEW x \in AP, NEW v,
             \A ap \in AP : AlarmOf(ap)' = IF ap = x THEN v ELSE AlarmOf(ap)
      PROVE  alarm' = [alarm EXCEPT ![x] = v]
  BY <1>e
<1>1. ASSUME NEW ap \in AP, NEW seconds \in Seconds, ConditionalAlarmAdd(ap, seconds)
      PROVE  [Abs!Next]_(Abs!vars)
  <2> DEFINE new == [ap |-> ap, time |-> now + seconds, cancel |-> FALSE]
  <2>1. new \in Entry /\ new.ap = ap /\ ~new.cancel
    BY AlarmAssumption DEF Entry, AlarmInv, TypeOK
  <2>2. PICK k \in 1 .. Len(alarms) + 1 : alarms' = InsertAt(alarms, k, new)
    BY <1>1 DEF ConditionalAlarmAdd
  <2>3. ~Exists(ap) /\ UNCHANGED <<pc, taken>>
    BY <1>1 DEF ConditionalAlarmAdd
  <2> HIDE DEF new
  <2>4. /\ DOMAIN alarms' = 1 .. Len(alarms) + 1
        /\ \A i \in 1 .. Len(alarms) + 1 :
             alarms'[i] = IF i < k THEN alarms[i] ELSE IF i = k THEN new
                          ELSE alarms[i - 1]
    <3>1. Inserted(alarms', alarms, k, new)
      BY <1>a, <2>1, <2>2, InsertEffect
    <3> QED BY <3>1 DEF Inserted
  <2>5. \A i \in DOMAIN alarms' \ {k} : \E j \in DOMAIN alarms : alarms'[i] = alarms[j]
    BY <1>a, <2>4
  <2>6. \A j \in DOMAIN alarms : \E i \in DOMAIN alarms' \ {k} : alarms'[i] = alarms[j]
    <3> SUFFICES ASSUME NEW j \in DOMAIN alarms
                 PROVE  \E i \in DOMAIN alarms' \ {k} : alarms'[i] = alarms[j]
      OBVIOUS
    <3>1. CASE j < k
      BY <1>a, <2>4, <3>1
    <3>2. CASE j >= k
      <4>1. j + 1 \in DOMAIN alarms' \ {k} /\ alarms'[j + 1] = alarms[j]
        BY <1>a, <2>4, <3>2
      <4> QED BY <4>1
    <3> QED BY <1>a, <3>1, <3>2
  <2>7. k \in DOMAIN alarms' /\ alarms'[k] = new
    BY <2>4
  <2>8. \A a \in AP : /\ Exists(a)' <=> Exists(a) \/ a = ap
                      /\ a # ap => (Marked(a)' <=> Marked(a))
    BY <2>1, <2>5, <2>6, <2>7 DEF Exists, Marked
  <2>9. ~Marked(ap)'
    <3>1. \A i \in DOMAIN alarms : alarms[i].ap # ap
      BY <2>3 DEF Exists
    <3> QED BY <2>1, <2>5, <2>7, <3>1 DEF Marked
  <2>10. \A a \in AP : AlarmOf(a)' = IF a = ap THEN "armed" ELSE AlarmOf(a)
    BY <1>b, <1>c, <2>8, <2>9
  <2>11. alarm' = [alarm EXCEPT ![ap] = "armed"]
    BY <1>e, <2>10
  <2>12. alarm[ap] = "none" /\ firing' = firing
    BY <1>b, <2>3
  <2> QED BY <2>11, <2>12 DEF Abs!Next, Abs!Add
<1>2. ASSUME NEW ap \in AP, AlarmDelete(ap) PROVE [Abs!Next]_(Abs!vars)
  <2>1. PICK d \in DOMAIN alarms :
          /\ alarms[d].ap = ap
          /\ IF d = 1
               THEN alarms' = [alarms EXCEPT ![1].cancel = TRUE, ![1].time = 0]
               ELSE alarms' = DeleteAt(alarms, d)
    BY <1>2 DEF AlarmDelete
  <2>2. UNCHANGED <<pc, taken>>
    BY <1>2 DEF AlarmDelete
  <2>3. Exists(ap) /\ alarm[ap] # "none" /\ firing' = firing
    BY <1>b, <2>1, <2>2 DEF Exists
  <2>4. CASE d = 1
    <3>1. /\ DOMAIN alarms' = DOMAIN alarms
          /\ alarms'[1].ap = alarms[1].ap /\ alarms'[1].cancel
          /\ \A i \in DOMAIN alarms \ {1} : alarms'[i] = alarms[i]
      <4>1. alarms # <<>> /\ alarms \in Seq(Entry)
        BY <1>a, <2>1
      <4>2. alarms' = [alarms EXCEPT ![1].cancel = TRUE, ![1].time = 0]
        BY <2>1, <2>4
      <4> QED BY <4>1, <4>2, MarkEffect, Zenon
    <3>2. \A a \in AP : (Exists(a)' <=> Exists(a)) /\ (a # ap => (Marked(a)' <=> Marked(a)))
      BY <2>1, <2>4, <3>1 DEF Exists, Marked
    <3>3. Marked(ap)'
      BY <2>1, <2>4, <3>1 DEF Marked
    <3>4. \A a \in AP : AlarmOf(a)' = IF a = ap THEN "cancelled" ELSE AlarmOf(a)
      BY <1>b, <1>c, <2>3, <3>2, <3>3
    <3>5. alarm' = [alarm EXCEPT ![ap] = "cancelled"]
      BY <1>e, <3>4
    <3> QED BY <2>3, <3>5 DEF Abs!Next, Abs!Delete
  <2>5. CASE d # 1
    <3>1. /\ DOMAIN alarms' = 1 .. Len(alarms) - 1
          /\ \A i \in 1 .. Len(alarms) - 1 :
               alarms'[i] = IF i < d THEN alarms[i] ELSE alarms[i + 1]
      BY <1>a, <2>1, <2>5, DeleteEffect
    <3>2. \A i \in DOMAIN alarms' : \E j \in DOMAIN alarms \ {d} : alarms'[i] = alarms[j]
      BY <1>a, <3>1
    <3>3. \A j \in DOMAIN alarms \ {d} : \E i \in DOMAIN alarms' : alarms'[i] = alarms[j]
      <4> SUFFICES ASSUME NEW j \in DOMAIN alarms \ {d}
                   PROVE  \E i \in DOMAIN alarms' : alarms'[i] = alarms[j]
        OBVIOUS
      <4>1. CASE j < d
        BY <1>a, <3>1, <4>1
      <4>2. CASE j > d
        <5>1. j - 1 \in DOMAIN alarms' /\ alarms'[j - 1] = alarms[j]
          BY <1>a, <3>1, <4>2
        <5> QED BY <5>1
      <4> QED BY <1>a, <4>1, <4>2
    <3>4. \A j \in DOMAIN alarms \ {d} : alarms[j].ap # ap
      BY <1>a, <2>1 DEF OnePerMount
    <3>5. ~Exists(ap)'
      BY <3>2, <3>4 DEF Exists
    <3>6. \A a \in AP \ {ap} : (Exists(a)' <=> Exists(a)) /\ (Marked(a)' <=> Marked(a))
      BY <2>1, <3>2, <3>3 DEF Exists, Marked
    <3>7. \A a \in AP : AlarmOf(a)' = IF a = ap THEN "none" ELSE AlarmOf(a)
      BY <1>b, <1>c, <3>5, <3>6
    <3>8. alarm' = [alarm EXCEPT ![ap] = "none"]
      BY <1>e, <3>7
    <3> QED BY <2>3, <3>8 DEF Abs!Next, Abs!Delete
  <2> QED BY <2>4, <2>5
<1>3. CASE WakeUp
  BY <1>d, <1>3 DEF WakeUp, Waiting, Exists, Marked
<1>4. CASE WaitForAlarm
  BY <1>d, <1>4 DEF WaitForAlarm, Exists, Marked
<1>5. CASE WaitForTime
  BY <1>d, <1>5 DEF WaitForTime, Exists, Marked
<1>6. CASE TakeFirst
  <2>0. PICK ap \in AP : ap = alarms[1].ap
    BY <1>a, <1>6 DEF TakeFirst, Entry
  <2>1. 1 \in DOMAIN alarms /\ ap \in AP /\ pc = "look" /\ alarms' = DeleteAt(alarms, 1)
    BY <1>a, <1>6 DEF TakeFirst, Entry
  <2>2. IF alarms[1].cancel THEN UNCHANGED <<pc, taken>>
        ELSE pc' = "fire" /\ taken' = ap
    BY <1>6, <2>0 DEF TakeFirst
  <2>3. /\ DOMAIN alarms' = 1 .. Len(alarms) - 1
        /\ \A i \in 1 .. Len(alarms) - 1 :
             alarms'[i] = IF i < 1 THEN alarms[i] ELSE alarms[i + 1]
    BY <1>a, <2>1, DeleteEffect
  <2>4. \A i \in DOMAIN alarms' : \E j \in DOMAIN alarms \ {1} : alarms'[i] = alarms[j]
    BY <1>a, <2>3
  <2>5. \A j \in DOMAIN alarms \ {1} : \E i \in DOMAIN alarms' : alarms'[i] = alarms[j]
    <3> SUFFICES ASSUME NEW j \in DOMAIN alarms \ {1}
                 PROVE  \E i \in DOMAIN alarms' : alarms'[i] = alarms[j]
      OBVIOUS
    <3>1. j - 1 \in DOMAIN alarms' /\ alarms'[j - 1] = alarms[j]
      BY <1>a, <2>3
    <3> QED BY <3>1
  <2>6. \A j \in DOMAIN alarms \ {1} : alarms[j].ap # ap
    BY <1>a, <2>0, <2>1 DEF OnePerMount
  <2>7. ~Exists(ap)'
    BY <2>4, <2>6 DEF Exists
  <2>8. \A a \in AP \ {ap} : (Exists(a)' <=> Exists(a)) /\ (Marked(a)' <=> Marked(a))
    BY <2>0, <2>4, <2>5 DEF Exists, Marked
  <2>9. \A a \in AP : AlarmOf(a)' = IF a = ap THEN "none" ELSE AlarmOf(a)
    BY <1>b, <1>c, <2>7, <2>8
  <2>10. alarm' = [alarm EXCEPT ![ap] = "none"]
    BY <1>e, <2>1, <2>9
  <2>11. alarm[ap] = IF alarms[1].cancel THEN "cancelled" ELSE "armed"
    <3>1. Exists(ap) /\ (Marked(ap) <=> alarms[1].cancel)
      BY <2>0, <2>1, <2>6 DEF Exists, Marked
    <3> QED BY <1>b, <2>1, <3>1
  <2>12. firing = {} /\ firing' = IF alarm[ap] = "armed" THEN {ap} ELSE {}
    BY <2>1, <2>2, <2>11
  <2> QED BY <2>1, <2>10, <2>11, <2>12 DEF Abs!Next, Abs!Fire
<1>7. CASE QueueExpire
  <2>1. \A ap \in AP : AlarmOf(ap)' = AlarmOf(ap)
    BY <1>7 DEF QueueExpire, AlarmOf, Exists
  <2>2. alarm' = alarm /\ taken \in firing /\ firing' = {}
    BY <1>7, <2>1 DEF QueueExpire
  <2> QED BY <1>a, <2>2 DEF Abs!Next, Abs!Expire
<1>8. CASE Tick
  BY <1>d, <1>8 DEF Tick, Exists, Marked
<1>9. CASE UNCHANGED vars
  BY <1>d, <1>9 DEF vars, Exists, Marked
<1> QED BY <1>1, <1>2, <1>3, <1>4, <1>5, <1>6, <1>7, <1>8, <1>9 DEF Next, Handler

\* The list stays ordered by time, whatever is added, deleted and cancelled.
THEOREM AlarmsStayOrdered == Spec => []Ordered
<1>1. AlarmInv => Ordered BY DEF AlarmInv
<1> QED BY <1>1, AlarmCorrect, PTL

\* conditional_alarm_add() never gives a mount point a second alarm.
THEOREM OneAlarmPerMount == Spec => []OnePerMount
<1>1. AlarmInv => OnePerMount BY DEF AlarmInv
<1> QED BY <1>1, AlarmCorrect, PTL

\* alarm_handler() is never asleep past the time of the first alarm unless it
\* has been signalled: __alarm_add() and alarm_delete() signal it when they must.
THEOREM HandlerNeverOversleeps == Spec => []NoOversleep
<1>1. AlarmInv => NoOversleep BY DEF AlarmInv
<1> QED BY <1>1, AlarmCorrect, PTL

\* lib/alarm.c implements the alarms the state machine is modelled with.
THEOREM AlarmImplementsAbs == Spec => ImplementsAbs
<1>1. Init => Abs!Init
  BY DEF Init, Abs!Init, AlarmOf, Exists
<1>2. AlarmInv /\ [Next]_vars => [Abs!Next]_(Abs!vars)
  BY RefineStep
<1> QED BY <1>1, <1>2, AlarmCorrect, PTL DEF Spec, ImplementsAbs, Abs!Spec
-----------------------------------------------------------------------------
(* The flag file: when daemons are started one after the other, at most one  *)
(* runs, whatever crashes and fails on the way.                              *)

\* One step preserves the invariant. The daemon that takes the step is the only
\* one that may be starting.
LEMMA FlagInvStep ==
  ASSUME Serial, FlagInv, [FlagNext]_flagVars
  PROVE  FlagInv'
<1> USE FlagFileAssumption DEF FlagInv, FlagTypeOK, RunningHasFlag, AtMostOneRuns,
        OneStarts, StartingSees, Running, Acquiring, Tries
<1>1. CASE UNCHANGED flagVars
  BY <1>1 DEF flagVars
<1>2. ASSUME NEW p \in Pid, Start(p)
      PROVE  FlagInv'
  BY <1>2 DEF Start, Goto
<1>3. ASSUME NEW p \in Pid, Link(p)
      PROVE  FlagInv'
  <2>1. CASE flag # None
    BY <1>3, <2>1 DEF Link, Goto
  <2>2. CASE flag = None
    <3>1. \A q \in Pid : ~Running(q)
      BY <2>2
    <3>2. PICK i \in Ino : flag' = i /\ content' = [content EXCEPT ![i] = None]
      BY <1>3, <2>2 DEF Link
    <3> QED BY <1>3, <2>2, <3>1, <3>2 DEF Link, Goto
  <2> QED BY <2>1, <2>2
<1>4. ASSUME NEW p \in Pid, Open(p)
      PROVE  FlagInv'
  BY <1>4 DEF Open, Goto
<1>5. ASSUME NEW p \in Pid, Write(p)
      PROVE  FlagInv'
  BY <1>5 DEF Write, Goto
<1>6. ASSUME NEW p \in Pid, Check(p)
      PROVE  FlagInv'
  BY <1>6 DEF Check, IsOwned, Alive, Goto
<1>7. ASSUME NEW p \in Pid, Unlink(p)
      PROVE  FlagInv'
  BY <1>7 DEF Unlink, Goto
<1>8. ASSUME NEW p \in Pid, GiveUp(p)
      PROVE  FlagInv'
  BY <1>8 DEF GiveUp, Goto
<1>9. ASSUME NEW p \in Pid, Release(p)
      PROVE  FlagInv'
  BY <1>9 DEF Release, Goto
<1>10. ASSUME NEW p \in Pid, Crash(p)
       PROVE  FlagInv'
  BY <1>10 DEF Crash, Alive, Goto
<1> QED BY <1>1, <1>2, <1>3, <1>4, <1>5, <1>6, <1>7, <1>8, <1>9, <1>10
        DEF FlagNext, Acquire

\* The inductive invariant holds for any number of daemons started one after
\* the other.
THEOREM FlagCorrect == Serial => (FlagSpec => []FlagInv)
<1> SUFFICES ASSUME Serial PROVE FlagSpec => []FlagInv
  OBVIOUS
<1>1. FlagInit => FlagInv
  BY FlagFileAssumption DEF FlagInit, FlagInv, FlagTypeOK, RunningHasFlag, AtMostOneRuns,
     OneStarts, StartingSees, Running, Acquiring, Tries
<1>2. FlagInv /\ [FlagNext]_flagVars => FlagInv'
  BY FlagInvStep
<1> QED BY <1>1, <1>2, PTL DEF FlagSpec

\* aquire_flag_file() then lets only one daemon run ...
THEOREM OneDaemonRuns == Serial => (FlagSpec => []AtMostOneRuns)
<1>1. FlagInv => AtMostOneRuns BY DEF FlagInv
<1> QED BY <1>1, FlagCorrect, PTL

\* ... and FLAG_FILE names it.
THEOREM FlagNamesRunning == Serial => (FlagSpec => []RunningHasFlag)
<1>1. FlagInv => RunningHasFlag BY DEF FlagInv
<1> QED BY <1>1, FlagCorrect, PTL
=============================================================================
