---------------------------- MODULE MountRequest ----------------------------
(***************************************************************************)
(* Mount and expire requests of the kernel: the packet handlers and request *)
(* threads of daemon/indirect.c and daemon/direct.c for one autofs mount    *)
(* point. An indirect mount point has keys, and triggers for the offsets of *)
(* its multi-mounts; a direct one has triggers only.                       *)
(*                                                                         *)
(* A process that walks on an automount point, or the daemon's own expire  *)
(* ioctl, sleeps in the kernel on a wait queue until the daemon answers its *)
(* token. The kernel keeps one wait queue per path, so the path and what   *)
(* it waits for stand for the token. A direct mount trigger is answered    *)
(* through a file descriptor of its own, which the map entry keeps open    *)
(* while something is mounted on the trigger.                              *)
(***************************************************************************)
EXTENDS Naturals, FiniteSets

CONSTANTS
  Key,        \* paths of an indirect map
  Trigger,    \* direct mount triggers
  Fd,         \* file descriptors, reused after they are closed
  NoFd,       \* -1
  NoPath,
  Tid,        \* request threads
  Failures,   \* what may fail: getting memory or a thread ("resource"), the
              \* check of the trigger ("stat"), opening it ("open"); a map entry
              \* may have gone ("gone")
  MaxWalks    \* bound on the mount requests

Path == Key \cup Trigger

ASSUME MountRequestAssumption ==
  /\ Key \cap Trigger = {}
  /\ NoFd \notin Fd
  /\ NoPath \notin Path
  /\ Failures \subseteq {"resource", "stat", "open", "gone"}
  /\ MaxWalks \in Nat

VARIABLES
  wq,        \* what each path's wait queue waits for
  pipe,      \* paths with a packet in the kernel pipe
  mounted,   \* something is mounted on the path
  ioctlfd,   \* me->ioctlfd of each trigger
  openfd,    \* the trigger an open descriptor refers to
  thread,    \* the request threads
  starting,  \* threads the packet handler waits for
  failed,    \* me->status: a mount of the path has failed recently
  closing,   \* ap->shutdown or ST_SHUTDOWN_FORCE
  expire,    \* the expire thread: where it is, the path and the descriptor
  hung,      \* paths whose request was dropped without an answer
  leaked,    \* descriptors dropped without being closed
  walks      \* number of mount requests made

kernelVars == <<wq, pipe, expire>>
fdVars     == <<ioctlfd, openfd>>
lostVars   == <<hung, leaked>>
vars == <<kernelVars, fdVars, mounted, thread, starting, failed, closing,
          lostVars, walks>>

\* struct pending_args and where the thread is.
Thread == [pc: {"none", "start", "work", "keep", "forget", "ready", "fail",
                "close"},
           path: Path \cup {NoPath}, kind: {"mount", "expire"},
           fd: Fd \cup {NoFd}]
NoThread == [pc |-> "none", path |-> NoPath, kind |-> "mount", fd |-> NoFd]

Init ==
  /\ wq = [p \in Path |-> "none"]
  /\ pipe = {}
  /\ mounted = [p \in Path |-> FALSE]
  /\ ioctlfd = [p \in Trigger |-> NoFd]
  /\ openfd = [f \in Fd |-> NoPath]
  /\ thread = [t \in Tid |-> NoThread]
  /\ starting = {}
  /\ failed = [p \in Path |-> FALSE]
  /\ closing = FALSE
  /\ expire = [pc |-> "idle", path |-> NoPath, fd |-> NoFd]
  /\ hung = {} /\ leaked = {}
  /\ walks = 0

-----------------------------------------------------------------------------
(* The kernel and the administrator. *)

\* A process walks on a path nothing is mounted on.
Walk(p) ==
  /\ wq[p] = "none" /\ ~mounted[p]
  /\ walks < MaxWalks
  /\ walks' = walks + 1
  /\ wq' = [wq EXCEPT ![p] = "mount"]
  /\ pipe' = pipe \cup {p}
  /\ UNCHANGED <<expire, fdVars, mounted, thread, starting, failed, closing,
                 lostVars>>

\* Somebody umounts it by hand.
ManualUmount(p) ==
  /\ mounted[p]
  /\ mounted' = [mounted EXCEPT ![p] = FALSE]
  /\ UNCHANGED <<kernelVars, fdVars, thread, starting, failed, closing,
                 lostVars, walks>>

\* A shutdown begins or is given up; a negative entry times out.
ClosingChanges ==
  /\ closing' = ~closing
  /\ UNCHANGED <<kernelVars, fdVars, mounted, thread, starting, failed,
                 lostVars, walks>>
NegativeExpires(p) ==
  /\ failed[p]
  /\ failed' = [failed EXCEPT ![p] = FALSE]
  /\ UNCHANGED <<kernelVars, fdVars, mounted, thread, starting, closing,
                 lostVars, walks>>

\* send_ready(), send_fail(): whoever waits goes on.
Answer(p) ==
  /\ wq' = [wq EXCEPT ![p] = "none"]
  /\ expire' = IF expire.pc = "blocked" /\ expire.path = p
               THEN [pc |-> "idle", path |-> NoPath, fd |-> NoFd] ELSE expire

-----------------------------------------------------------------------------
(* expire_proc_indirect(), expire_proc_direct(): ask the kernel to expire. *)

\* What is left of a manual umount of an offset is cleaned up, with the cache
\* locked.
ExpireRepair(p) ==
  /\ p \in Trigger
  /\ expire.pc = "idle"
  /\ ioctlfd[p] # NoFd /\ ~mounted[p]
  /\ openfd' = [openfd EXCEPT ![ioctlfd[p]] = NoPath]
  /\ ioctlfd' = [ioctlfd EXCEPT ![p] = NoFd]
  /\ UNCHANGED <<kernelVars, mounted, thread, starting, failed, closing, lostVars,
                 walks>>

\* The descriptor is read with the cache locked ...
ExpireRead(p) ==
  /\ expire.pc = "idle"
  /\ mounted[p]
  /\ p \in Trigger => ioctlfd[p] # NoFd
  /\ expire' = [pc |-> "ask", path |-> p,
                fd |-> IF p \in Trigger THEN ioctlfd[p] ELSE NoFd]
  /\ UNCHANGED <<wq, pipe, fdVars, mounted, thread, starting, failed, closing,
                 lostVars, walks>>

\* ... and used after that. What it refers to by then is expired if it is not
\* in use.
ExpireIoctl ==
  LET q == IF expire.path \in Key THEN expire.path ELSE openfd[expire.fd] IN
  /\ expire.pc = "ask"
  /\ \/ /\ q # NoPath /\ mounted[q] /\ wq[q] = "none"
        /\ wq' = [wq EXCEPT ![q] = "expire"]
        /\ pipe' = pipe \cup {q}
        /\ expire' = [pc |-> "blocked", path |-> q, fd |-> NoFd]
     \/ /\ expire' = [pc |-> "idle", path |-> NoPath, fd |-> NoFd]
        /\ UNCHANGED <<wq, pipe>>
  /\ UNCHANGED <<fdVars, mounted, thread, starting, failed, closing, lostVars,
                 walks>>

-----------------------------------------------------------------------------
(* handle_packet(): one packet at a time, waiting for each thread to start. *)

Received(p, kind) == starting = {} /\ p \in pipe /\ wq[p] = kind

StartThread(p, kind, fd) ==
  \E t \in Tid :
    /\ thread[t].pc = "none"
    /\ thread' = [thread EXCEPT ![t] =
                    [pc |-> "start", path |-> p, kind |-> kind, fd |-> fd]]
    /\ starting' = {t}

\* Why a mount request is refused: a shutdown, a recent failure (or an entry
\* that can never be mounted, which is no different), no resources.
Refuse(p) == closing \/ failed[p] \/ "resource" \in Failures

\* handle_packet_missing_indirect()
MissingIndirect(p) ==
  /\ p \in Key
  /\ Received(p, "mount")
  /\ pipe' = pipe \ {p}
  /\ \/ /\ Refuse(p)
        /\ Answer(p)
        /\ UNCHANGED <<thread, starting>>
     \/ /\ ~closing /\ ~failed[p]
        /\ StartThread(p, "mount", NoFd)
        /\ UNCHANGED <<wq, expire>>
  /\ UNCHANGED <<fdVars, mounted, failed, closing, lostVars, walks>>

FdsWithout(p) ==
  IF ioctlfd[p] = NoFd THEN openfd ELSE [openfd EXCEPT ![ioctlfd[p]] = NoPath]

MissingDirectKeeps(p) ==  \* mutant: a descriptor left open is overwritten
  \E f \in Fd :
    /\ p \in Trigger
    /\ Received(p, "mount")
    /\ openfd[f] = NoPath
    /\ pipe' = pipe \ {p}
    /\ ~closing /\ ~failed[p]
    /\ StartThread(p, "mount", f)
    /\ openfd' = [openfd EXCEPT ![f] = p]
    /\ UNCHANGED <<wq, expire, ioctlfd, mounted, failed, closing, lostVars,
                   walks>>

\* handle_packet_missing_direct(): a descriptor left open by a manual umount is
\* closed first.
MissingDirect(p) ==
  LET fds == FdsWithout(p) IN
  /\ p \in Trigger
  /\ Received(p, "mount")
  /\ pipe' = pipe \ {p}
  /\ ioctlfd' = [ioctlfd EXCEPT ![p] = NoFd]
  /\ \/ /\ Refuse(p)
        /\ Answer(p)
        /\ openfd' = fds
        /\ UNCHANGED <<thread, starting>>
     \/ /\ ~closing /\ ~failed[p]
        /\ \E f \in Fd :
             /\ fds[f] = NoPath
             /\ openfd' = [fds EXCEPT ![f] = p]
             /\ StartThread(p, "mount", f)
        /\ UNCHANGED <<wq, expire>>
  /\ UNCHANGED <<mounted, failed, closing, lostVars, walks>>

\* Nobody answers a direct packet, of either kind, whose map entry is not found
\* or whose trigger cannot be opened: "Hang results".
DirectHangs(p) ==
  /\ p \in Trigger
  /\ Received(p, wq[p])
  /\ pipe' = pipe \ {p}
  /\ hung' = hung \cup {p}
  /\ \/ "gone" \in Failures /\ UNCHANGED fdVars
     \/ /\ "open" \in Failures /\ wq[p] = "mount"
        /\ openfd' = FdsWithout(p)
        /\ ioctlfd' = [ioctlfd EXCEPT ![p] = NoFd]
     \/ "open" \in Failures /\ ioctlfd[p] = NoFd /\ UNCHANGED fdVars
  /\ UNCHANGED <<wq, expire, mounted, thread, starting, failed, closing, leaked,
                 walks>>

\* handle_packet_expire_indirect(), handle_packet_expire_direct(). A trigger
\* without a descriptor has nothing mounted on it and is answered at once.
ExpirePacket(p) ==
  LET fd == IF p \in Trigger THEN ioctlfd[p] ELSE NoFd IN
  /\ Received(p, "expire")
  /\ pipe' = pipe \ {p}
  /\ \/ /\ "resource" \in Failures \/ (p \in Trigger /\ fd = NoFd)
        /\ Answer(p)
        /\ UNCHANGED <<thread, starting>>
     \/ /\ p \in Trigger => fd # NoFd
        /\ StartThread(p, "expire", fd)
        /\ UNCHANGED <<wq, expire>>
  /\ UNCHANGED <<fdVars, mounted, failed, closing, lostVars, walks>>

-----------------------------------------------------------------------------
(* The request threads. *)

At(t, kind, l) == thread[t].pc = l /\ thread[t].kind = kind
Goto(t, l) == thread' = [thread EXCEPT ![t].pc = l]
End(t) == thread' = [thread EXCEPT ![t] = NoThread]
EndOrClose(t) == IF thread[t].path \in Trigger THEN Goto(t, "close") ELSE End(t)

\* The thread has copied its arguments and lets the handler go on.
ThreadStarts(t) ==
  /\ thread[t].pc = "start"
  /\ starting' = starting \ {t}
  /\ Goto(t, "work")
  /\ UNCHANGED <<kernelVars, fdVars, mounted, failed, closing, lostVars, walks>>

\* do_mount_indirect(), do_mount_direct(): lookup_nss_mount() has mounted the
\* path, or has not (the failure may be remembered). An indirect trigger that is
\* not valid is answered as if it had been mounted.
MountWork(t) ==
  LET p == thread[t].path IN
  /\ At(t, "mount", "work")
  /\ \/ /\ mounted' = [mounted EXCEPT ![p] = TRUE]
        /\ Goto(t, IF p \in Trigger THEN "keep" ELSE "ready")
        /\ UNCHANGED failed
     \/ /\ \E neg \in BOOLEAN : failed' = [failed EXCEPT ![p] = neg]
        /\ Goto(t, "fail")
        /\ UNCHANGED mounted
     \/ /\ "stat" \in Failures
        /\ Goto(t, IF p \in Trigger THEN "fail" ELSE "ready")
        /\ UNCHANGED <<mounted, failed>>
  /\ UNCHANGED <<kernelVars, fdVars, starting, closing, lostVars, walks>>

MountKeepDrops(t) ==  \* mutant: the descriptor is not recorded
  /\ At(t, "mount", "keep")
  /\ Answer(thread[t].path)
  /\ Goto(t, "close")
  /\ UNCHANGED <<pipe, fdVars, mounted, starting, failed, closing, lostVars,
                 walks>>

\* do_mount_direct(): under the cache lock, keep the descriptor in the map entry
\* and answer. It is closed instead if nothing covers the trigger, unless that is
\* the root of a multi-mount, and simply forgotten if the map entry has gone.
MountKeep(t) ==
  LET p == thread[t].path IN
  /\ At(t, "mount", "keep")
  /\ Answer(p)
  /\ \/ /\ ioctlfd' = [ioctlfd EXCEPT ![p] = thread[t].fd]
        /\ End(t)
        /\ UNCHANGED leaked
     \/ /\ ~mounted[p]
        /\ Goto(t, "close")
        /\ UNCHANGED <<ioctlfd, leaked>>
     \/ /\ mounted[p] /\ "gone" \in Failures
        /\ End(t)
        /\ leaked' = leaked \cup {thread[t].fd}
        /\ UNCHANGED ioctlfd
  /\ UNCHANGED <<pipe, openfd, mounted, starting, failed, closing, hung, walks>>

\* do_expire_indirect(), do_expire_direct(): do_expire() umounts the path or not.
ExpireWork(t) ==
  LET p == thread[t].path IN
  /\ At(t, "expire", "work")
  /\ \/ /\ mounted' = [mounted EXCEPT ![p] = FALSE]
        /\ Goto(t, IF p \in Trigger THEN "forget" ELSE "ready")
     \/ Goto(t, "fail") /\ UNCHANGED mounted
  /\ UNCHANGED <<kernelVars, fdVars, starting, failed, closing, lostVars,
                 walks>>

ExpireForgetNot(t) ==  \* mutant: the closed descriptor stays in the map entry
  /\ At(t, "expire", "forget")
  /\ Goto(t, "ready")
  /\ UNCHANGED <<kernelVars, fdVars, mounted, starting, failed, closing,
                 lostVars, walks>>

\* do_expire_direct(): the map entry forgets the descriptor before the kernel
\* can send another request for the trigger.
ExpireForget(t) ==
  /\ At(t, "expire", "forget")
  /\ ioctlfd' = [ioctlfd EXCEPT ![thread[t].path] = NoFd]
  /\ Goto(t, "ready")
  /\ UNCHANGED <<kernelVars, openfd, mounted, starting, failed, closing,
                 lostVars, walks>>

\* Answer, then close the descriptor of a trigger; a failed expire leaves it
\* to the map entry.
SendReady(t) ==
  /\ thread[t].pc = "ready"
  /\ Answer(thread[t].path)
  /\ EndOrClose(t)
  /\ UNCHANGED <<pipe, fdVars, mounted, starting, failed, closing, lostVars,
                 walks>>

SendFailSilently(t) ==  \* mutant
  /\ thread[t].pc = "fail"
  /\ IF thread[t].kind = "mount" THEN EndOrClose(t) ELSE End(t)
  /\ UNCHANGED <<kernelVars, fdVars, mounted, starting, failed, closing,
                 lostVars, walks>>

SendFail(t) ==
  /\ thread[t].pc = "fail"
  /\ Answer(thread[t].path)
  /\ IF thread[t].kind = "mount" THEN EndOrClose(t) ELSE End(t)
  /\ UNCHANGED <<pipe, fdVars, mounted, starting, failed, closing, lostVars,
                 walks>>

Close(t) ==
  /\ thread[t].pc = "close"
  /\ openfd' = [openfd EXCEPT ![thread[t].fd] = NoPath]
  /\ End(t)
  /\ UNCHANGED <<kernelVars, ioctlfd, mounted, starting, failed, closing,
                 lostVars, walks>>

-----------------------------------------------------------------------------
Packet(p) ==
  MissingIndirect(p) \/ MissingDirect(p) \/ DirectHangs(p) \/ ExpirePacket(p)
ThreadNext(t) ==
  \/ ThreadStarts(t) \/ MountWork(t) \/ MountKeep(t) \/ ExpireWork(t)
  \/ ExpireForget(t) \/ SendReady(t) \/ SendFail(t) \/ Close(t)
Environment ==
  \/ \E p \in Path :
       Walk(p) \/ ManualUmount(p) \/ NegativeExpires(p) \/ ExpireRepair(p)
       \/ ExpireRead(p)
  \/ ExpireIoctl \/ ClosingChanges

Next == (\E p \in Path : Packet(p)) \/ Environment \/ \E t \in Tid : ThreadNext(t)

Spec == Init /\ [][Next]_vars

\* The handler takes the packets in the order of the pipe, and threads run.
Fairness ==
  /\ \A p \in Path : SF_vars(Packet(p))
  /\ \A t \in Tid : WF_vars(ThreadNext(t))
FairSpec == Spec /\ Fairness

-----------------------------------------------------------------------------
(* Properties. *)

\* The types; a running thread has the descriptor of its trigger.
TypeOK ==
  /\ wq \in [Path -> {"none", "mount", "expire"}]
  /\ pipe \subseteq Path
  /\ mounted \in [Path -> BOOLEAN]
  /\ ioctlfd \in [Trigger -> Fd \cup {NoFd}]
  /\ openfd \in [Fd -> Trigger \cup {NoPath}]
  /\ thread \in [Tid -> Thread]
  /\ \A t \in Tid : thread[t].pc # "none" =>
       /\ thread[t].path # NoPath
       /\ thread[t].fd # NoFd <=> thread[t].path \in Trigger
  /\ starting \subseteq Tid
  /\ failed \in [Path -> BOOLEAN]
  /\ closing \in BOOLEAN
  /\ expire \in [pc: {"idle", "ask", "blocked"}, path: Path \cup {NoPath},
                 fd: Fd \cup {NoFd}]
  /\ hung \subseteq Path
  /\ leaked \subseteq Fd
  /\ walks \in 0 .. MaxWalks

\* Thread t owes the kernel an answer for path p.
Owes(t, p) == thread[t].path = p /\ thread[t].pc \notin {"none", "close"}

\* Every request the kernel waits for is in the pipe or in the hands of exactly
\* one thread, or is one the direct handlers are known to drop, and a thread only
\* holds a request that the kernel still waits for: no other is forgotten and
\* none is answered twice.
TokenInHand ==
  \A p \in Path :
    /\ wq[p] # "none" => p \in pipe \cup hung \/ \E t \in Tid : Owes(t, p)
    /\ p \in pipe \cup hung => wq[p] # "none" /\ \A t \in Tid : ~Owes(t, p)
    /\ p \notin pipe \cap hung
    /\ \A t \in Tid : Owes(t, p) => wq[p] = thread[t].kind
    /\ \A t, u \in Tid : Owes(t, p) /\ Owes(u, p) => t = u

\* Who is to close descriptor f: the map entry that keeps it, or a thread that
\* has opened it or taken it from its map entry.
KeptBy(p, f) == ioctlfd[p] = f
HeldBy(t, f) ==
  /\ thread[t].fd = f
  /\ \/ thread[t].kind = "mount" /\ thread[t].pc # "none"
     \/ thread[t].kind = "expire" /\ thread[t].pc \in {"ready", "close"}

\* Every open descriptor has exactly one owner, unless its map entry went while
\* it was being mounted, and what an owner holds is open and refers to its own
\* trigger: no other leaks, none is closed twice, none is used for another
\* trigger after its number has been given out again.
FdOwned ==
  \A f \in Fd :
    /\ openfd[f] # NoPath =>
         \/ \E p \in Trigger : KeptBy(p, f)
         \/ \E t \in Tid : HeldBy(t, f)
         \/ f \in leaked
    /\ \A p \in Trigger : KeptBy(p, f) =>
         openfd[f] = p /\ \A t \in Tid : ~HeldBy(t, f)
    /\ \A t, u \in Tid : HeldBy(t, f) =>
         openfd[f] = thread[t].path /\ (HeldBy(u, f) => t = u)

\* What is mounted on a trigger can be expired: once its request has been
\* answered, the map entry has a descriptor (again unless it went meanwhile).
Expirable ==
  \A p \in Trigger :
    mounted[p] /\ wq[p] = "none" =>
      ioctlfd[p] # NoFd \/ \E f \in leaked : openfd[f] = p

\* Nobody sleeps in the kernel for ever, but for the requests that are dropped.
TokenAnswered ==
  \A p \in Path : wq[p] # "none" ~> wq[p] = "none" \/ p \in hung

-----------------------------------------------------------------------------
(* The inductive invariant behind the safety properties. *)

\* Only do_mount_direct() keeps, only do_expire_direct() forgets and only the
\* threads of a trigger close a descriptor.
ThreadShape ==
  \A t \in Tid :
    /\ thread[t].pc = "keep" => thread[t].kind = "mount" /\ thread[t].path \in Trigger
    /\ thread[t].pc = "forget" => thread[t].kind = "expire" /\ thread[t].path \in Trigger
    /\ thread[t].pc = "close" => thread[t].path \in Trigger

\* The expire thread sleeps in the ioctl as long as its request is not answered,
\* and asks through a descriptor it has read.
ExpireWaits ==
  /\ \A p \in Path : wq[p] = "expire" => expire.pc = "blocked" /\ expire.path = p
  /\ expire.pc = "ask" =>
       expire.path \in Path /\ (expire.path \in Trigger => expire.fd \in Fd)

\* A map entry has no descriptor while its trigger is being mounted, and has the
\* one its expire works on until do_expire_direct() takes it away.
EntryFd ==
  \A t \in Tid : thread[t].path \in Trigger =>
    /\ thread[t].kind = "mount" /\ thread[t].pc \notin {"none", "close"} =>
         ioctlfd[thread[t].path] = NoFd
    /\ thread[t].kind = "expire" /\ thread[t].pc \in {"start", "work", "forget", "fail"} =>
         ioctlfd[thread[t].path] = thread[t].fd

\* Nothing is mounted on a trigger before its request has been worked on, nor
\* after its expire has umounted it.
Unmounted ==
  /\ \A p \in Trigger \cap (pipe \cup hung) : wq[p] = "mount" => ~mounted[p]
  /\ \A t \in Tid : thread[t].path \in Trigger =>
       /\ thread[t].kind = "mount" /\ thread[t].pc \in {"start", "work", "ready", "fail"} =>
            ~mounted[thread[t].path]
       /\ thread[t].kind = "expire" /\ thread[t].pc \in {"forget", "ready"} =>
            ~mounted[thread[t].path]

\* A descriptor that was dropped stays open, and nobody else has it.
LeakedOpen ==
  \A f \in leaked :
    /\ openfd[f] # NoPath
    /\ \A p \in Trigger : ~KeptBy(p, f)
    /\ \A t \in Tid : ~HeldBy(t, f)

\* What is mounted can be expired even while an expire of it is under way.
ExpirableMeanwhile ==
  \A p \in Trigger :
    mounted[p] /\ wq[p] # "mount" =>
      ioctlfd[p] # NoFd \/ \E f \in leaked : openfd[f] = p

RequestInv ==
  /\ TypeOK /\ TokenInHand /\ FdOwned
  /\ ThreadShape /\ ExpireWaits /\ EntryFd /\ Unmounted /\ LeakedOpen
  /\ ExpirableMeanwhile

\* What is dropped is dropped because a map entry has gone or a trigger cannot
\* be opened, and descriptors only for the former.
DroppedFor ==
  /\ hung # {} => Failures \cap {"gone", "open"} # {}
  /\ leaked # {} => "gone" \in Failures
=============================================================================
