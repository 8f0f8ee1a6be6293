------------------------- MODULE MountRequestProofs -------------------------
(***************************************************************************)
(* Proofs about mount and expire requests, for any number of paths,        *)
(* descriptors and request threads and whatever fails: every request is in *)
(* exactly one hand, every open descriptor has exactly one owner, and what *)
(* is mounted can be expired.                                              *)
(***************************************************************************)
EXTENDS MountRequest, TLAPS

-----------------------------------------------------------------------------
(* The kernel, the administrator and the expire thread. *)

\* The request of a process that walks on a path goes into the pipe; nothing is
\* mounted there.
LEMMA WalkStep ==
  ASSUME RequestInv, NEW p \in Path, Walk(p)
  PROVE  RequestInv'
BY MountRequestAssumption DEF RequestInv, Path, Walk, fdVars, lostVars, TypeOK,
   TokenInHand, FdOwned, ThreadShape, ExpireWaits, EntryFd, Unmounted,
   LeakedOpen, ExpirableMeanwhile, Thread, Owes, KeptBy, HeldBy

\* A manual umount leaves requests and descriptors alone.
LEMMA ManualUmountStep ==
  ASSUME RequestInv, NEW p \in Path, ManualUmount(p)
  PROVE  RequestInv'
BY MountRequestAssumption DEF RequestInv, Path, ManualUmount, kernelVars,
   fdVars, lostVars, TypeOK, TokenInHand, FdOwned, ThreadShape, ExpireWaits,
   EntryFd, Unmounted, LeakedOpen, ExpirableMeanwhile, Thread, Owes, KeptBy,
   HeldBy

\* Whether the mount point is closing is no part of the invariant ...
LEMMA ClosingChangesStep ==
  ASSUME RequestInv, ClosingChanges
  PROVE  RequestInv'
BY MountRequestAssumption DEF RequestInv, Path, ClosingChanges, kernelVars,
   fdVars, lostVars, TypeOK, TokenInHand, FdOwned, ThreadShape, ExpireWaits,
   EntryFd, Unmounted, LeakedOpen, ExpirableMeanwhile, Thread, Owes, KeptBy,
   HeldBy

\* ... and neither is a recent failure.
LEMMA NegativeExpiresStep ==
  ASSUME RequestInv, NEW p \in Path, NegativeExpires(p)
  PROVE  RequestInv'
BY MountRequestAssumption DEF RequestInv, Path, NegativeExpires, kernelVars,
   fdVars, lostVars, TypeOK, TokenInHand, FdOwned, ThreadShape, ExpireWaits,
   EntryFd, Unmounted, LeakedOpen, ExpirableMeanwhile, Thread, Owes, KeptBy,
   HeldBy

\* The descriptor closed here belongs to the map entry: no expire request is
\* under way while the expire thread is idle, and a thread that mounts the
\* trigger has taken the descriptor away before.
LEMMA ExpireRepairStep ==
  ASSUME RequestInv, NEW p \in Path, ExpireRepair(p)
  PROVE  RequestInv'
BY MountRequestAssumption DEF RequestInv, Path, ExpireRepair, kernelVars,
   lostVars, TypeOK, TokenInHand, FdOwned, ThreadShape, ExpireWaits, EntryFd,
   Unmounted, LeakedOpen, ExpirableMeanwhile, Thread, Owes, KeptBy, HeldBy

\* The expire thread only notes what it will ask for.
LEMMA ExpireReadStep ==
  ASSUME RequestInv, NEW p \in Path, ExpireRead(p)
  PROVE  RequestInv'
BY MountRequestAssumption DEF RequestInv, Path, ExpireRead, fdVars, lostVars,
   TypeOK, TokenInHand, FdOwned, ThreadShape, ExpireWaits, EntryFd, Unmounted,
   LeakedOpen, ExpirableMeanwhile, Thread, Owes, KeptBy, HeldBy

\* A request goes into the pipe for something mounted, whatever the descriptor
\* refers to by now.
LEMMA ExpireIoctlStep ==
  ASSUME RequestInv, ExpireIoctl
  PROVE  RequestInv'
BY MountRequestAssumption DEF RequestInv, Path, ExpireIoctl, fdVars, lostVars,
   TypeOK, TokenInHand, FdOwned, ThreadShape, ExpireWaits, EntryFd, Unmounted,
   LeakedOpen, ExpirableMeanwhile, Thread, Owes, KeptBy, HeldBy

-----------------------------------------------------------------------------
(* The packet handlers: the request is answered or handed to a thread. *)

\* handle_packet_missing_indirect() answers or passes the request on.
LEMMA MissingIndirectStep ==
  ASSUME RequestInv, NEW p \in Path, MissingIndirect(p)
  PROVE  RequestInv'
<1> USE MountRequestAssumption DEF RequestInv, Path, MissingIndirect, fdVars,
        lostVars, Answer, Received, Thread
<1>1. ASSUME Refuse(p),
             Answer(p),
             UNCHANGED <<thread, starting>>
      PROVE  RequestInv'
  <2>1. TypeOK'
    BY <1>1 DEF TypeOK
  <2>2. TokenInHand'
    BY <1>1 DEF TypeOK, TokenInHand, Owes
  <2>3. FdOwned'
    BY <1>1 DEF TypeOK, FdOwned, KeptBy, HeldBy
  <2>4. ThreadShape'
    BY <1>1 DEF TypeOK, ThreadShape
  <2>5. ExpireWaits'
    BY <1>1 DEF TypeOK, ExpireWaits
  <2>6. EntryFd'
    BY <1>1 DEF TypeOK, EntryFd
  <2>7. Unmounted'
    BY <1>1 DEF TypeOK, Unmounted
  <2>8. LeakedOpen'
    BY <1>1 DEF TypeOK, LeakedOpen, KeptBy, HeldBy
  <2>9. ExpirableMeanwhile'
    BY <1>1 DEF TypeOK, ExpirableMeanwhile
  <2> QED BY <2>1, <2>2, <2>3, <2>4, <2>5, <2>6, <2>7, <2>8, <2>9
<1>2. ASSUME NEW u \in Tid,
             thread[u].pc = "none",
             thread' = [thread EXCEPT ![u] =
                 [pc |-> "start", path |-> p, kind |-> "mount", fd |-> NoFd]],
             starting' = {u},
             UNCHANGED <<wq, expire>>
      PROVE  RequestInv'
  <2>1. TypeOK'
    BY <1>2 DEF TypeOK
  <2>2. TokenInHand'
    BY <1>2 DEF TypeOK, TokenInHand, Owes
  <2>3. FdOwned'
    BY <1>2 DEF TypeOK, FdOwned, KeptBy, HeldBy
  <2>4. ThreadShape'
    BY <1>2 DEF TypeOK, ThreadShape
  <2>5. ExpireWaits'
    BY <1>2 DEF TypeOK, ExpireWaits
  <2>6. EntryFd'
    BY <1>2 DEF TypeOK, EntryFd
  <2>7. Unmounted'
    BY <1>2 DEF TypeOK, Unmounted
  <2>8. LeakedOpen'
    BY <1>2 DEF TypeOK, LeakedOpen, KeptBy, HeldBy
  <2>9. ExpirableMeanwhile'
    BY <1>2 DEF TypeOK, ExpirableMeanwhile
  <2> QED BY <2>1, <2>2, <2>3, <2>4, <2>5, <2>6, <2>7, <2>8, <2>9
<1> QED BY <1>1, <1>2 DEF StartThread

\* handle_packet_missing_direct(): the descriptor it closes is owned by the map
\* entry alone, and the one it opens, maybe with the same number, by the thread.
LEMMA MissingDirectStep ==
  ASSUME RequestInv, NEW p \in Path, MissingDirect(p)
  PROVE  RequestInv'
<1> USE MountRequestAssumption DEF RequestInv, Path, MissingDirect, lostVars,
        Answer, Received, FdsWithout, Thread
<1>1. ASSUME Refuse(p),
             Answer(p),
             openfd' = FdsWithout(p),
             UNCHANGED <<thread, starting>>
      PROVE  RequestInv'
  <2>1. TypeOK'
    BY <1>1 DEF TypeOK
  <2>2. TokenInHand'
    BY <1>1 DEF TypeOK, TokenInHand, Owes
  <2>3. FdOwned'
    BY <1>1 DEF TypeOK, FdOwned, KeptBy, HeldBy
  <2>4. ThreadShape'
    BY <1>1 DEF TypeOK, ThreadShape
  <2>5. ExpireWaits'
    BY <1>1 DEF TypeOK, ExpireWaits
  <2>6. EntryFd'
    BY <1>1 DEF TypeOK, EntryFd, TokenInHand, Owes
  <2>7. Unmounted'
    BY <1>1 DEF TypeOK, Unmounted
  <2>8. LeakedOpen'
    BY <1>1 DEF TypeOK, LeakedOpen, KeptBy, HeldBy
  <2>9. ExpirableMeanwhile'
    BY <1>1 DEF TypeOK, TokenInHand, FdOwned, ThreadShape, EntryFd, Unmounted,
       LeakedOpen, ExpirableMeanwhile, Owes, KeptBy, HeldBy
  <2> QED BY <2>1, <2>2, <2>3, <2>4, <2>5, <2>6, <2>7, <2>8, <2>9
<1>2. ASSUME NEW u \in Tid,
             NEW f \in Fd,
             thread[u].pc = "none",
             thread' = [thread EXCEPT ![u] =
                 [pc |-> "start", path |-> p, kind |-> "mount", fd |-> f]],
             starting' = {u},
             FdsWithout(p)[f] = NoPath,
             openfd' = [FdsWithout(p) EXCEPT ![f] = p],
             UNCHANGED <<wq, expire>>
      PROVE  RequestInv'
  <2>1. TypeOK'
    BY <1>2 DEF TypeOK
  <2>2. TokenInHand'
    BY <1>2 DEF TypeOK, TokenInHand, Owes
  <2>3. FdOwned'
    BY <1>2 DEF TypeOK, FdOwned, KeptBy, HeldBy
  <2>4. ThreadShape'
    BY <1>2 DEF TypeOK, ThreadShape
  <2>5. ExpireWaits'
    BY <1>2 DEF TypeOK, ExpireWaits
  <2>6. EntryFd'
    BY <1>2 DEF TypeOK, EntryFd, TokenInHand, Owes
  <2>7. Unmounted'
    BY <1>2 DEF TypeOK, Unmounted
  <2>8. LeakedOpen'
    BY <1>2 DEF TypeOK, LeakedOpen, KeptBy, HeldBy
  <2>9. ExpirableMeanwhile'
    BY <1>2 DEF TypeOK, TokenInHand, FdOwned, ThreadShape, EntryFd, Unmounted,
       LeakedOpen, ExpirableMeanwhile, Owes, KeptBy, HeldBy
  <2> QED BY <2>1, <2>2, <2>3, <2>4, <2>5, <2>6, <2>7, <2>8, <2>9
<1> QED BY <1>1, <1>2 DEF StartThread

\* A dropped request stays with the kernel; the descriptor is closed or kept.
LEMMA DirectHangsStep ==
  ASSUME RequestInv, NEW p \in Path, DirectHangs(p)
  PROVE  RequestInv'
BY MountRequestAssumption DEF RequestInv, Path, DirectHangs, fdVars, Received,
   FdsWithout, TypeOK, TokenInHand, FdOwned, ThreadShape, ExpireWaits, EntryFd,
   Unmounted, LeakedOpen, ExpirableMeanwhile, Thread, Owes, KeptBy, HeldBy

\* handle_packet_expire_indirect(), handle_packet_expire_direct(): the thread
\* works on the descriptor of the map entry but does not own it.
LEMMA ExpirePacketStep ==
  ASSUME RequestInv, NEW p \in Path, ExpirePacket(p)
  PROVE  RequestInv'
<1> USE MountRequestAssumption DEF RequestInv, Path, ExpirePacket, fdVars,
        lostVars, Answer, Received, Thread
<1>1. ASSUME Answer(p),
             UNCHANGED <<thread, starting>>
      PROVE  RequestInv'
  <2>1. TypeOK'
    BY <1>1 DEF TypeOK
  <2>2. TokenInHand'
    BY <1>1 DEF TypeOK, TokenInHand, Owes
  <2>3. FdOwned'
    BY <1>1 DEF TypeOK, FdOwned, KeptBy, HeldBy
  <2>4. ThreadShape'
    BY <1>1 DEF TypeOK, ThreadShape
  <2>5. ExpireWaits'
    BY <1>1 DEF TypeOK, ExpireWaits
  <2>6. EntryFd'
    BY <1>1 DEF TypeOK, EntryFd
  <2>7. Unmounted'
    BY <1>1 DEF TypeOK, Unmounted
  <2>8. LeakedOpen'
    BY <1>1 DEF TypeOK, LeakedOpen, KeptBy, HeldBy
  <2>9. ExpirableMeanwhile'
    BY <1>1 DEF TypeOK, ExpirableMeanwhile
  <2> QED BY <2>1, <2>2, <2>3, <2>4, <2>5, <2>6, <2>7, <2>8, <2>9
<1>2. ASSUME NEW u \in Tid,
             NEW fd,
             thread[u].pc = "none",
             fd = IF p \in Trigger THEN ioctlfd[p] ELSE NoFd,
             p \in Trigger => fd # NoFd,
             thread' = [thread EXCEPT ![u] =
                 [pc |-> "start", path |-> p, kind |-> "expire", fd |-> fd]],
             starting' = {u},
             UNCHANGED <<wq, expire>>
      PROVE  RequestInv'
  <2>1. TypeOK'
    BY <1>2 DEF TypeOK
  <2>2. TokenInHand'
    BY <1>2 DEF TypeOK, TokenInHand, Owes
  <2>3. FdOwned'
    BY <1>2 DEF TypeOK, FdOwned, KeptBy, HeldBy
  <2>4. ThreadShape'
    BY <1>2 DEF TypeOK, ThreadShape
  <2>5. ExpireWaits'
    BY <1>2 DEF TypeOK, ExpireWaits
  <2>6. EntryFd'
    BY <1>2 DEF TypeOK, EntryFd
  <2>7. Unmounted'
    BY <1>2 DEF TypeOK, Unmounted
  <2>8. LeakedOpen'
    BY <1>2 DEF TypeOK, LeakedOpen, KeptBy, HeldBy
  <2>9. ExpirableMeanwhile'
    BY <1>2 DEF TypeOK, ExpirableMeanwhile
  <2> QED BY <2>1, <2>2, <2>3, <2>4, <2>5, <2>6, <2>7, <2>8, <2>9
<1> QED BY <1>1, <1>2 DEF StartThread

-----------------------------------------------------------------------------
(* The request threads. *)

\* Starting a thread moves nothing.
LEMMA ThreadStartsStep ==
  ASSUME RequestInv, NEW t \in Tid, ThreadStarts(t)
  PROVE  RequestInv'
<1> USE MountRequestAssumption DEF RequestInv, Path, ThreadStarts, kernelVars,
        fdVars, lostVars, Goto, Thread
<1>1. TypeOK'
  BY DEF TypeOK
<1>2. TokenInHand'
  BY DEF TypeOK, TokenInHand, Owes
<1>3. FdOwned'
  BY DEF TypeOK, FdOwned, KeptBy, HeldBy
<1>4. ThreadShape'
  BY DEF TypeOK, ThreadShape
<1>5. ExpireWaits'
  BY DEF TypeOK, ExpireWaits
<1>6. EntryFd'
  BY DEF TypeOK, EntryFd
<1>7. Unmounted'
  BY DEF TypeOK, Unmounted
<1>8. LeakedOpen'
  BY DEF TypeOK, LeakedOpen, KeptBy, HeldBy
<1>9. ExpirableMeanwhile'
  BY DEF TypeOK, ExpirableMeanwhile
<1> QED BY <1>1, <1>2, <1>3, <1>4, <1>5, <1>6, <1>7, <1>8, <1>9

\* A mount that succeeds, fails, or is not tried at all.
LEMMA MountWorkStep ==
  ASSUME RequestInv, NEW t \in Tid, MountWork(t)
  PROVE  RequestInv'
<1> USE MountRequestAssumption DEF RequestInv, Path, MountWork, kernelVars,
        fdVars, lostVars, At, Goto, Thread
<1>1. ASSUME mounted' = [mounted EXCEPT ![thread[t].path] = TRUE],
             Goto(t, IF thread[t].path \in Trigger THEN "keep" ELSE "ready"),
             UNCHANGED failed
      PROVE  RequestInv'
  <2>1. TypeOK'
    BY <1>1 DEF TypeOK
  <2>2. TokenInHand'
    BY <1>1 DEF TypeOK, TokenInHand, Owes
  <2>3. FdOwned'
    BY <1>1 DEF TypeOK, FdOwned, KeptBy, HeldBy
  <2>4. ThreadShape'
    BY <1>1 DEF TypeOK, ThreadShape
  <2>5. ExpireWaits'
    BY <1>1 DEF TypeOK, ExpireWaits
  <2>6. EntryFd'
    BY <1>1 DEF TypeOK, EntryFd
  <2>7. Unmounted'
    BY <1>1 DEF TypeOK, Unmounted, TokenInHand, Owes
  <2>8. LeakedOpen'
    BY <1>1 DEF TypeOK, LeakedOpen, KeptBy, HeldBy
  <2>9. ExpirableMeanwhile'
    BY <1>1 DEF TypeOK, ExpirableMeanwhile, TokenInHand, Owes
  <2> QED BY <2>1, <2>2, <2>3, <2>4, <2>5, <2>6, <2>7, <2>8, <2>9
<1>2. ASSUME NEW neg \in BOOLEAN,
             failed' = [failed EXCEPT ![thread[t].path] = neg],
             Goto(t, "fail"),
             UNCHANGED mounted
      PROVE  RequestInv'
  <2>1. TypeOK'
    BY <1>2 DEF TypeOK
  <2>2. TokenInHand'
    BY <1>2 DEF TypeOK, TokenInHand, Owes
  <2>3. FdOwned'
    BY <1>2 DEF TypeOK, FdOwned, KeptBy, HeldBy
  <2>4. ThreadShape'
    BY <1>2 DEF TypeOK, ThreadShape
  <2>5. ExpireWaits'
    BY <1>2 DEF TypeOK, ExpireWaits
  <2>6. EntryFd'
    BY <1>2 DEF TypeOK, EntryFd
  <2>7. Unmounted'
    BY <1>2 DEF TypeOK, Unmounted
  <2>8. LeakedOpen'
    BY <1>2 DEF TypeOK, LeakedOpen, KeptBy, HeldBy
  <2>9. ExpirableMeanwhile'
    BY <1>2 DEF TypeOK, ExpirableMeanwhile
  <2> QED BY <2>1, <2>2, <2>3, <2>4, <2>5, <2>6, <2>7, <2>8, <2>9
<1>3. ASSUME Goto(t, IF thread[t].path \in Trigger THEN "fail" ELSE "ready"),
             UNCHANGED <<mounted, failed>>
      PROVE  RequestInv'
  <2>1. TypeOK'
    BY <1>3 DEF TypeOK
  <2>2. TokenInHand'
    BY <1>3 DEF TypeOK, TokenInHand, Owes
  <2>3. FdOwned'
    BY <1>3 DEF TypeOK, FdOwned, KeptBy, HeldBy
  <2>4. ThreadShape'
    BY <1>3 DEF TypeOK, ThreadShape
  <2>5. ExpireWaits'
    BY <1>3 DEF TypeOK, ExpireWaits
  <2>6. EntryFd'
    BY <1>3 DEF TypeOK, EntryFd
  <2>7. Unmounted'
    BY <1>3 DEF TypeOK, Unmounted
  <2>8. LeakedOpen'
    BY <1>3 DEF TypeOK, LeakedOpen, KeptBy, HeldBy
  <2>9. ExpirableMeanwhile'
    BY <1>3 DEF TypeOK, ExpirableMeanwhile
  <2> QED BY <2>1, <2>2, <2>3, <2>4, <2>5, <2>6, <2>7, <2>8, <2>9
<1> QED BY <1>1, <1>2, <1>3

\* The descriptor passes to the map entry, which has none, or to nobody; or it
\* stays with the thread.
LEMMA MountKeepStep ==
  ASSUME RequestInv, NEW t \in Tid, MountKeep(t)
  PROVE  RequestInv'
<1> USE MountRequestAssumption DEF RequestInv, Path, MountKeep, Answer, At,
        End, Goto, NoThread, Thread
<1>1. ASSUME ioctlfd' = [ioctlfd EXCEPT ![thread[t].path] = thread[t].fd],
             End(t),
             UNCHANGED leaked
      PROVE  RequestInv'
  <2>1. TypeOK'
    BY <1>1 DEF TypeOK
  <2>2. TokenInHand'
    BY <1>1 DEF TypeOK, TokenInHand, Owes
  <2>3. FdOwned'
    BY <1>1 DEF TypeOK, TokenInHand, FdOwned, ThreadShape, EntryFd, LeakedOpen,
       Owes, KeptBy, HeldBy
  <2>4. ThreadShape'
    BY <1>1 DEF TypeOK, ThreadShape
  <2>5. ExpireWaits'
    BY <1>1 DEF TypeOK, ExpireWaits
  <2>6. EntryFd'
    BY <1>1 DEF TypeOK, EntryFd, TokenInHand, Owes
  <2>7. Unmounted'
    BY <1>1 DEF TypeOK, Unmounted
  <2>8. LeakedOpen'
    BY <1>1 DEF TypeOK, LeakedOpen, KeptBy, HeldBy
  <2>9. ExpirableMeanwhile'
    BY <1>1 DEF TypeOK, ExpirableMeanwhile
  <2> QED BY <2>1, <2>2, <2>3, <2>4, <2>5, <2>6, <2>7, <2>8, <2>9
<1>2. ASSUME ~mounted[thread[t].path],
             Goto(t, "close"),
             UNCHANGED <<ioctlfd, leaked>>
      PROVE  RequestInv'
  <2>1. TypeOK'
    BY <1>2 DEF TypeOK
  <2>2. TokenInHand'
    BY <1>2 DEF TypeOK, TokenInHand, Owes
  <2>3. FdOwned'
    BY <1>2 DEF TypeOK, FdOwned, KeptBy, HeldBy
  <2>4. ThreadShape'
    BY <1>2 DEF TypeOK, ThreadShape
  <2>5. ExpireWaits'
    BY <1>2 DEF TypeOK, ExpireWaits
  <2>6. EntryFd'
    BY <1>2 DEF TypeOK, EntryFd
  <2>7. Unmounted'
    BY <1>2 DEF TypeOK, Unmounted
  <2>8. LeakedOpen'
    BY <1>2 DEF TypeOK, LeakedOpen, KeptBy, HeldBy
  <2>9. ExpirableMeanwhile'
    BY <1>2 DEF TypeOK, ExpirableMeanwhile
  <2> QED BY <2>1, <2>2, <2>3, <2>4, <2>5, <2>6, <2>7, <2>8, <2>9
<1>3. ASSUME End(t),
             leaked' = leaked \cup {thread[t].fd},
             UNCHANGED ioctlfd
      PROVE  RequestInv'
  <2>1. TypeOK'
    BY <1>3 DEF TypeOK, ThreadShape, ExpireWaits
  <2>2. TokenInHand'
    BY <1>3 DEF TypeOK, TokenInHand, Owes
  <2>3. FdOwned'
    BY <1>3 DEF TypeOK, FdOwned, KeptBy, HeldBy
  <2>4. ThreadShape'
    BY <1>3 DEF TypeOK, ThreadShape
  <2>5. ExpireWaits'
    BY <1>3 DEF TypeOK, ExpireWaits
  <2>6. EntryFd'
    BY <1>3 DEF TypeOK, EntryFd
  <2>7. Unmounted'
    BY <1>3 DEF TypeOK, Unmounted
  <2>8. LeakedOpen'
    BY <1>3 DEF TypeOK, FdOwned, ThreadShape, EntryFd, LeakedOpen, KeptBy,
       HeldBy
  <2>9. ExpirableMeanwhile'
    BY <1>3 DEF TypeOK, TokenInHand, FdOwned, ThreadShape, EntryFd, Unmounted,
       LeakedOpen, ExpirableMeanwhile, Owes, KeptBy, HeldBy
  <2> QED BY <2>1, <2>2, <2>3, <2>4, <2>5, <2>6, <2>7, <2>8, <2>9
<1> QED BY <1>1, <1>2, <1>3

\* An expire umounts the path or fails.
LEMMA ExpireWorkStep ==
  ASSUME RequestInv, NEW t \in Tid, ExpireWork(t)
  PROVE  RequestInv'
<1> USE MountRequestAssumption DEF RequestInv, Path, ExpireWork, kernelVars,
        fdVars, lostVars, At, Goto, Thread
<1>1. ASSUME mounted' = [mounted EXCEPT ![thread[t].path] = FALSE],
             Goto(t, IF thread[t].path \in Trigger THEN "forget" ELSE "ready")
      PROVE  RequestInv'
  <2>1. TypeOK'
    BY <1>1 DEF TypeOK
  <2>2. TokenInHand'
    BY <1>1 DEF TypeOK, TokenInHand, Owes
  <2>3. FdOwned'
    BY <1>1 DEF TypeOK, FdOwned, KeptBy, HeldBy
  <2>4. ThreadShape'
    BY <1>1 DEF TypeOK, ThreadShape
  <2>5. ExpireWaits'
    BY <1>1 DEF TypeOK, ExpireWaits
  <2>6. EntryFd'
    BY <1>1 DEF TypeOK, EntryFd
  <2>7. Unmounted'
    BY <1>1 DEF TypeOK, Unmounted
  <2>8. LeakedOpen'
    BY <1>1 DEF TypeOK, LeakedOpen, KeptBy, HeldBy
  <2>9. ExpirableMeanwhile'
    BY <1>1 DEF TypeOK, ExpirableMeanwhile
  <2> QED BY <2>1, <2>2, <2>3, <2>4, <2>5, <2>6, <2>7, <2>8, <2>9
<1>2. ASSUME Goto(t, "fail"),
             UNCHANGED mounted
      PROVE  RequestInv'
  <2>1. TypeOK'
    BY <1>2 DEF TypeOK
  <2>2. TokenInHand'
    BY <1>2 DEF TypeOK, TokenInHand, Owes
  <2>3. FdOwned'
    BY <1>2 DEF TypeOK, FdOwned, KeptBy, HeldBy
  <2>4. ThreadShape'
    BY <1>2 DEF TypeOK, ThreadShape
  <2>5. ExpireWaits'
    BY <1>2 DEF TypeOK, ExpireWaits
  <2>6. EntryFd'
    BY <1>2 DEF TypeOK, EntryFd
  <2>7. Unmounted'
    BY <1>2 DEF TypeOK, Unmounted
  <2>8. LeakedOpen'
    BY <1>2 DEF TypeOK, LeakedOpen, KeptBy, HeldBy
  <2>9. ExpirableMeanwhile'
    BY <1>2 DEF TypeOK, ExpirableMeanwhile
  <2> QED BY <2>1, <2>2, <2>3, <2>4, <2>5, <2>6, <2>7, <2>8, <2>9
<1> QED BY <1>1, <1>2

\* The descriptor passes from the map entry to the thread.
LEMMA ExpireForgetStep ==
  ASSUME RequestInv, NEW t \in Tid, ExpireForget(t)
  PROVE  RequestInv'
<1> USE MountRequestAssumption DEF RequestInv, Path, ExpireForget, kernelVars,
        lostVars, At, Goto, Thread
<1>1. TypeOK'
  BY DEF TypeOK, ThreadShape, ExpireWaits
<1>2. TokenInHand'
  BY DEF TypeOK, TokenInHand, Owes
<1>3. FdOwned'
  BY DEF TypeOK, TokenInHand, FdOwned, ThreadShape, EntryFd, LeakedOpen, Owes,
     KeptBy, HeldBy
<1>4. ThreadShape'
  BY DEF TypeOK, ThreadShape
<1>5. ExpireWaits'
  BY DEF TypeOK, ExpireWaits
<1>6. EntryFd'
  BY DEF TypeOK, EntryFd, TokenInHand, Owes
<1>7. Unmounted'
  BY DEF TypeOK, Unmounted
<1>8. LeakedOpen'
  BY DEF TypeOK, FdOwned, ThreadShape, EntryFd, LeakedOpen, KeptBy, HeldBy
<1>9. ExpirableMeanwhile'
  BY DEF TypeOK, TokenInHand, FdOwned, ThreadShape, EntryFd, Unmounted,
     LeakedOpen, ExpirableMeanwhile, Owes, KeptBy, HeldBy
<1> QED BY <1>1, <1>2, <1>3, <1>4, <1>5, <1>6, <1>7, <1>8, <1>9

\* The answer: the thread that gives it is the only one to owe it.
LEMMA SendReadyStep ==
  ASSUME RequestInv, NEW t \in Tid, SendReady(t)
  PROVE  RequestInv'
<1> USE MountRequestAssumption DEF RequestInv, Path, SendReady, fdVars,
        lostVars, Answer, End, Goto, NoThread, Thread
<1>1. ASSUME thread[t].path \in Trigger,
             Goto(t, "close")
      PROVE  RequestInv'
  <2>1. TypeOK'
    BY <1>1 DEF TypeOK
  <2>2. TokenInHand'
    BY <1>1 DEF TypeOK, TokenInHand, Owes
  <2>3. FdOwned'
    BY <1>1 DEF TypeOK, FdOwned, KeptBy, HeldBy
  <2>4. ThreadShape'
    BY <1>1 DEF TypeOK, ThreadShape
  <2>5. ExpireWaits'
    BY <1>1 DEF TypeOK, ExpireWaits
  <2>6. EntryFd'
    BY <1>1 DEF TypeOK, EntryFd
  <2>7. Unmounted'
    BY <1>1 DEF TypeOK, Unmounted
  <2>8. LeakedOpen'
    BY <1>1 DEF TypeOK, LeakedOpen, KeptBy, HeldBy
  <2>9. ExpirableMeanwhile'
    BY <1>1 DEF TypeOK, TokenInHand, FdOwned, ThreadShape, EntryFd, Unmounted,
       LeakedOpen, ExpirableMeanwhile, Owes, KeptBy, HeldBy
  <2> QED BY <2>1, <2>2, <2>3, <2>4, <2>5, <2>6, <2>7, <2>8, <2>9
<1>2. ASSUME thread[t].path \notin Trigger,
             End(t)
      PROVE  RequestInv'
  <2>1. TypeOK'
    BY <1>2 DEF TypeOK
  <2>2. TokenInHand'
    BY <1>2 DEF TypeOK, TokenInHand, Owes
  <2>3. FdOwned'
    BY <1>2 DEF TypeOK, FdOwned, KeptBy, HeldBy
  <2>4. ThreadShape'
    BY <1>2 DEF TypeOK, ThreadShape
  <2>5. ExpireWaits'
    BY <1>2 DEF TypeOK, ExpireWaits
  <2>6. EntryFd'
    BY <1>2 DEF TypeOK, EntryFd
  <2>7. Unmounted'
    BY <1>2 DEF TypeOK, Unmounted
  <2>8. LeakedOpen'
    BY <1>2 DEF TypeOK, LeakedOpen, KeptBy, HeldBy
  <2>9. ExpirableMeanwhile'
    BY <1>2 DEF TypeOK, ExpirableMeanwhile
  <2> QED BY <2>1, <2>2, <2>3, <2>4, <2>5, <2>6, <2>7, <2>8, <2>9
<1> QED BY <1>1, <1>2 DEF EndOrClose

\* The same for a failure; a failed expire leaves the descriptor alone, so the
\* thread ends.
LEMMA SendFailStep ==
  ASSUME RequestInv, NEW t \in Tid, SendFail(t)
  PROVE  RequestInv'
<1> USE MountRequestAssumption DEF RequestInv, Path, SendFail, fdVars,
        lostVars, Answer, End, Goto, NoThread, Thread
<1>1. ASSUME thread[t].path \in Trigger,
             thread[t].kind = "mount",
             Goto(t, "close")
      PROVE  RequestInv'
  <2>1. TypeOK'
    BY <1>1 DEF TypeOK
  <2>2. TokenInHand'
    BY <1>1 DEF TypeOK, TokenInHand, Owes
  <2>3. FdOwned'
    BY <1>1 DEF TypeOK, FdOwned, KeptBy, HeldBy
  <2>4. ThreadShape'
    BY <1>1 DEF TypeOK, ThreadShape
  <2>5. ExpireWaits'
    BY <1>1 DEF TypeOK, ExpireWaits
  <2>6. EntryFd'
    BY <1>1 DEF TypeOK, EntryFd
  <2>7. Unmounted'
    BY <1>1 DEF TypeOK, Unmounted
  <2>8. LeakedOpen'
    BY <1>1 DEF TypeOK, LeakedOpen, KeptBy, HeldBy
  <2>9. ExpirableMeanwhile'
    BY <1>1 DEF TypeOK, TokenInHand, FdOwned, ThreadShape, EntryFd, Unmounted,
       LeakedOpen, ExpirableMeanwhile, Owes, KeptBy, HeldBy
  <2> QED BY <2>1, <2>2, <2>3, <2>4, <2>5, <2>6, <2>7, <2>8, <2>9
<1>2. ASSUME thread[t].path \notin Trigger \/ thread[t].kind # "mount",
             End(t)
      PROVE  RequestInv'
  <2>1. TypeOK'
    BY <1>2 DEF TypeOK
  <2>2. TokenInHand'
    BY <1>2 DEF TypeOK, TokenInHand, Owes
  <2>3. FdOwned'
    BY <1>2 DEF TypeOK, FdOwned, KeptBy, HeldBy
  <2>4. ThreadShape'
    BY <1>2 DEF TypeOK, ThreadShape
  <2>5. ExpireWaits'
    BY <1>2 DEF TypeOK, ExpireWaits
  <2>6. EntryFd'
    BY <1>2 DEF TypeOK, EntryFd
  <2>7. Unmounted'
    BY <1>2 DEF TypeOK, Unmounted
  <2>8. LeakedOpen'
    BY <1>2 DEF TypeOK, LeakedOpen, KeptBy, HeldBy
  <2>9. ExpirableMeanwhile'
    BY <1>2 DEF TypeOK, ExpirableMeanwhile, TokenInHand, Owes
  <2> QED BY <2>1, <2>2, <2>3, <2>4, <2>5, <2>6, <2>7, <2>8, <2>9
<1> QED BY <1>1, <1>2 DEF EndOrClose

\* The thread closes what it alone owns.
LEMMA CloseStep ==
  ASSUME RequestInv, NEW t \in Tid, Close(t)
  PROVE  RequestInv'
BY MountRequestAssumption DEF RequestInv, Path, Close, kernelVars, lostVars,
   End, NoThread, Thread, TypeOK, TokenInHand, FdOwned, ThreadShape,
   ExpireWaits, EntryFd, Unmounted, LeakedOpen, ExpirableMeanwhile, Owes,
   KeptBy, HeldBy

-----------------------------------------------------------------------------
(* The theorems. *)

\* Nothing is waited for and no descriptor is open at first.
LEMMA InitInv ==
  ASSUME Init
  PROVE  RequestInv
<1>1. NoThread \in Thread
  BY DEF NoThread, Thread
<1>2. TypeOK
  <2>1. /\ thread \in [Tid -> Thread]
        /\ \A t \in Tid : thread[t].pc = "none"
    BY <1>1 DEF Init, NoThread
  <2>2. walks \in 0 .. MaxWalks
    BY MountRequestAssumption DEF Init
  <2> QED BY <2>1, <2>2 DEF Init, TypeOK, Path
<1>3. \A t \in Tid : thread[t].pc = "none" /\ thread[t].path = NoPath
  BY DEF Init, NoThread
<1>4. TokenInHand /\ FdOwned /\ LeakedOpen
  BY <1>3, MountRequestAssumption DEF Init, TokenInHand, FdOwned, LeakedOpen,
     Owes, KeptBy, HeldBy
<1>5. ThreadShape /\ ExpireWaits /\ EntryFd /\ Unmounted /\ ExpirableMeanwhile
  BY <1>3, MountRequestAssumption DEF Init, ThreadShape, ExpireWaits, EntryFd,
     Unmounted, ExpirableMeanwhile, Path
<1> QED BY <1>2, <1>4, <1>5 DEF RequestInv

\* A step that changes nothing preserves the invariant.
LEMMA StutterStep ==
  ASSUME RequestInv, UNCHANGED vars
  PROVE  RequestInv'
BY DEF RequestInv, TypeOK, TokenInHand, FdOwned, ThreadShape, ExpireWaits,
   EntryFd, Unmounted, LeakedOpen, ExpirableMeanwhile, Owes, KeptBy, HeldBy,
   vars, kernelVars, fdVars, lostVars

\* Every step preserves the invariant.
LEMMA InvStep ==
  ASSUME RequestInv, [Next]_vars
  PROVE  RequestInv'
<1>1. CASE UNCHANGED vars
  BY <1>1, StutterStep
<1>2. ASSUME NEW p \in Path, Packet(p)
      PROVE  RequestInv'
  BY <1>2, MissingIndirectStep, MissingDirectStep, DirectHangsStep,
     ExpirePacketStep DEF Packet
<1>3. CASE Environment
  BY <1>3, WalkStep, ManualUmountStep, NegativeExpiresStep, ExpireRepairStep,
     ExpireReadStep, ExpireIoctlStep, ClosingChangesStep DEF Environment
<1>4. ASSUME NEW t \in Tid, ThreadNext(t)
      PROVE  RequestInv'
  BY <1>4, ThreadStartsStep, MountWorkStep, MountKeepStep, ExpireWorkStep,
     ExpireForgetStep, SendReadyStep, SendFailStep, CloseStep DEF ThreadNext
<1> QED BY <1>1, <1>2, <1>3, <1>4 DEF Next

\* The inductive invariant of the packet handlers and request threads.
THEOREM RequestCorrect == Spec => []RequestInv
<1>1. RequestInv /\ [Next]_vars => RequestInv'
  BY InvStep
<1> QED BY <1>1, InitInv, PTL DEF Spec

\* The handlers and the request threads keep the types of their state.
THEOREM RequestTypes == Spec => []TypeOK
<1>1. RequestInv => TypeOK BY DEF RequestInv
<1> QED BY <1>1, RequestCorrect, PTL

\* No request but those the direct handlers drop is forgotten on its way from
\* the pipe through handle_packet() to send_ready() or send_fail(), and none is
\* answered twice.
THEOREM RequestsInHand == Spec => []TokenInHand
<1>1. RequestInv => TokenInHand BY DEF RequestInv
<1> QED BY <1>1, RequestCorrect, PTL

\* The descriptors that handle_packet_missing_direct() opens are closed once,
\* by whoever owns them, or kept in me->ioctlfd of their own trigger.
THEOREM DescriptorsOwned == Spec => []FdOwned
<1>1. RequestInv => FdOwned BY DEF RequestInv
<1> QED BY <1>1, RequestCorrect, PTL

\* do_mount_direct() has left the descriptor of what it has mounted for
\* expire_proc_direct() to find.
THEOREM MountsExpirable == Spec => []Expirable
<1>1. RequestInv => Expirable
  BY DEF RequestInv, ExpirableMeanwhile, Expirable
<1> QED BY <1>1, RequestCorrect, PTL

\* Unless a map entry goes meanwhile or a trigger cannot be opened, no request is
\* dropped and no descriptor leaks: RequestsInHand, DescriptorsOwned and
\* MountsExpirable then hold without their exceptions. For a descriptor to leak
\* the map entry has to go.
THEOREM DropsExplained == Spec => []DroppedFor
<1>1. Init => DroppedFor
  BY DEF Init, DroppedFor
<1>2. DroppedFor /\ [Next]_vars => DroppedFor'
  <2> SUFFICES ASSUME DroppedFor, [Next]_vars
               PROVE  DroppedFor'
    OBVIOUS
  <2> USE DEF DroppedFor, lostVars
  <2>1. CASE UNCHANGED vars
    BY <2>1 DEF vars
  <2>2. ASSUME NEW p \in Path, Packet(p)
        PROVE  DroppedFor'
    BY <2>2 DEF Packet, MissingIndirect, MissingDirect, DirectHangs,
       ExpirePacket
  <2>3. CASE Environment
    BY <2>3 DEF Environment, Walk, ManualUmount, NegativeExpires, ExpireRepair,
       ExpireRead, ExpireIoctl, ClosingChanges
  <2>4. ASSUME NEW t \in Tid, ThreadNext(t)
        PROVE  DroppedFor'
    BY <2>4 DEF ThreadNext, ThreadStarts, MountWork, MountKeep, ExpireWork,
       ExpireForget, SendReady, SendFail, Close
  <2> QED BY <2>1, <2>2, <2>3, <2>4 DEF Next
<1> QED BY <1>1, <1>2, PTL DEF Spec
=============================================================================
