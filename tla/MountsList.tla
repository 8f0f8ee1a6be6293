------------------------------ MODULE MountsList ------------------------------
(***************************************************************************)
(* The table of mounts of lib/mounts.c (struct mnt_list) for the paths of  *)
(* one indirect autofs mount point, and the threads that use it: requests  *)
(* that mount a file system, a symbolic link or a submount, from a sun or  *)
(* an amd map; the expire thread with the umounts it causes; submounts     *)
(* that shut down by themselves.                                           *)
(*                                                                         *)
(* An entry is shared by three lists of the mount point (mounts, submounts *)
(* and amdmounts) and by whoever has looked it up. Its reference count has *)
(* to cover them all, and it is freed when the count is zero. Every        *)
(* section under mnts_hash_mutex is one step. A get that is put back at    *)
(* once (the counts after an expire, the check in master_remove_mapent(),  *)
(* the prefix mount_autofs.c fetches) leaves the table alone and is no     *)
(* step of its own. External mounts of amd maps are another table.         *)
(***************************************************************************)
EXTENDS Naturals, FiniteSets

CONSTANTS
  Path,
  NoPath,
  MaxSpare,   \* bound: no request and no expire starts with more than that
              \* many references of an entry lost
  MaxThreads  \* bound on the request threads at one time

ASSUME MountsListAssumption ==
  /\ NoPath \notin Path
  /\ MaxSpare \in Nat /\ MaxThreads \in Nat

VARIABLES
  ref,        \* reference count of each path's entry, 0 when there is none
  flags,      \* its MNTS_* flags that stand for a list
  mounts,     \* ap->mounts: what has been mounted
  submounts,  \* ap->submounts
  amdmounts,  \* ap->amdmounts
  real,       \* what the kernel has at the path
  req,        \* the mount request of each path
  late,       \* request threads that have answered and not listed their mount
  scan,       \* the expire thread
  exit,       \* the submount that holds the master mutex in its shutdown
  crashed     \* the daemon has used a submount's ap after it was cleared

lists == <<mounts, submounts, amdmounts>>
table == <<ref, flags, lists>>
vars  == <<table, real, req, late, scan, exit, crashed>>

Flag == {"MOUNTED", "AUTOFS", "AMD"}

\* What a map entry asks for.
Kind == [type: {"fs", "link", "auto"}, amd: BOOLEAN]
NoKind == [type |-> "fs", amd |-> FALSE]

Idle   == [pc |-> "idle", kind |-> NoKind]
Resting == [pc |-> "idle", path |-> NoPath, list |-> {}, todo |-> {},
            link |-> FALSE]
NoExit == [pc |-> "idle", path |-> NoPath]

Init ==
  /\ ref = [p \in Path |-> 0]
  /\ flags = [p \in Path |-> {}]
  /\ mounts = {} /\ submounts = {} /\ amdmounts = {}
  /\ real = [p \in Path |-> "none"]
  /\ req = [p \in Path |-> Idle]
  /\ late = [p \in Path |-> 0]
  /\ scan = Resting
  /\ exit = NoExit
  /\ crashed = FALSE

-----------------------------------------------------------------------------
(* Who has a reference. *)

One(b) == IF b THEN 1 ELSE 0

\* The references the threads have.
ScanHolds(p) ==
  One(p \in scan.list)
  + One(scan.path = p /\ scan.pc \in {"amdrm", "amdput"})
  + One(scan.path = p
        /\ scan.pc \in {"found", "wait", "state", "put"})
  + One(scan.path = p /\ scan.pc = "state")
ExitHolds(p) == One(exit.path = p /\ exit.pc \in {"amdrm", "amdput"})
\* The lists an entry is on.
Listed(p) == One("MOUNTED" \in flags[p]) + One("AUTOFS" \in flags[p])
             + One("AMD" \in flags[p])
References(p) == Listed(p) + ScanHolds(p) + ExitHolds(p)

\* References that nobody will put: a mount that is listed twice takes two and
\* is removed once, and master_notify_submount() forgets one.
FewSpare(p) == ref[p] <= References(p) + MaxSpare

-----------------------------------------------------------------------------
(* The table. *)

\* mnts_get_mount() finds the entry or makes one, and takes a reference.
Get(p, new) ==
  /\ ref' = [ref EXCEPT ![p] = @ + 1]
  /\ flags' = [flags EXCEPT ![p] = @ \cup new]

\* __mnts_put_mount() frees the entry with its last reference.
Put(p, old) ==
  /\ ref' = [ref EXCEPT ![p] = @ - 1]
  /\ flags' = [flags EXCEPT ![p] = IF ref[p] = 1 THEN {} ELSE @ \ old]

AddMount(p) ==
  /\ Get(p, {"MOUNTED"})
  /\ mounts' = mounts \cup {p}
  /\ UNCHANGED <<submounts, amdmounts>>

RemoveMount(p) ==
  \/ /\ "MOUNTED" \in flags[p]
     /\ Put(p, {"MOUNTED"})
     /\ mounts' = mounts \ {p}
     /\ UNCHANGED <<submounts, amdmounts>>
  \/ /\ "MOUNTED" \notin flags[p]
     /\ UNCHANGED table

AddAmdMount(p) ==
  /\ Get(p, {"AMD"})
  /\ amdmounts' = amdmounts \cup {p}
  /\ UNCHANGED <<mounts, submounts>>

RemoveAmdMount(p) ==
  \/ /\ "AMD" \in flags[p]
     /\ Put(p, {"AMD"})
     /\ amdmounts' = amdmounts \ {p}
     /\ UNCHANGED <<mounts, submounts>>
  \/ /\ "AMD" \notin flags[p]
     /\ UNCHANGED table

\* An entry that belongs to another submount is left as it is, and the caller
\* is told of success all the same.
AddSubmount(p) ==
  \/ /\ "AUTOFS" \notin flags[p]
     /\ Get(p, {"AUTOFS"})
     /\ submounts' = submounts \cup {p}
     /\ UNCHANGED <<mounts, amdmounts>>
  \/ /\ "AUTOFS" \in flags[p]
     /\ UNCHANGED table

\* Clears this->ap as well.
RemoveSubmount(p) ==
  \/ /\ "AUTOFS" \in flags[p]
     /\ Put(p, {"AUTOFS"})
     /\ submounts' = submounts \ {p}
     /\ UNCHANGED <<mounts, amdmounts>>
  \/ /\ "AUTOFS" \notin flags[p]
     /\ UNCHANGED table

\* A look up that keeps a reference, and its end.
Hold(p) == Get(p, {}) /\ UNCHANGED lists
Release(p) == Put(p, {}) /\ UNCHANGED lists

-----------------------------------------------------------------------------
(* Mount requests. *)

RequestGoes(p, pc) == req' = [req EXCEPT ![p].pc = pc]
RequestStep == ~crashed /\ UNCHANGED <<scan, exit, crashed>>

\* Mutant: the umount of a link is answered before the link is off the list.
ExpiringEarly(p) == scan.path = p /\ scan.pc \in {"amd", "amdrm", "amdput"}

\* The kernel holds back walks on a path until its umount has been answered.
Expiring(p) == scan.path = p /\ scan.pc \in {"rm", "amd", "amdrm", "amdput"}

MasterFree == exit = NoExit

\* The kernel asks for a path at which it has nothing and no umount is going on.
Asks(p) == req[p] = Idle /\ real[p] = "none" /\ ~Expiring(p)

\* The request threads there are.
Threads == Cardinality({p \in Path : req[p] # Idle})
           + Cardinality({l \in Path \X (1 .. MaxThreads) : l[2] <= late[l[1]]})

Accept(p) ==
  /\ FewSpare(p) /\ Threads < MaxThreads
  /\ \E k \in Kind :
       req' = [req EXCEPT ![p] = [pc |-> IF k.amd THEN "amd" ELSE "mount",
                                  kind |-> k]]
  /\ UNCHANGED <<table, real, late>>

\* Mutant: the packet handler does not wait for a submount that shuts down.
MissingUnlocked(p) == RequestStep /\ Asks(p) /\ Accept(p)

\* handle_packet_missing_indirect() takes the master mutex.
Missing(p) == RequestStep /\ Asks(p) /\ MasterFree /\ Accept(p)

\* parse_amd.c lists a location before it tries to mount it.
ParseAmd(p) ==
  /\ RequestStep
  /\ req[p].pc = "amd"
  /\ AddAmdMount(p)
  /\ RequestGoes(p, "mount")
  /\ UNCHANGED <<real, late>>

Failed(p) == IF req[p].kind.amd THEN "unlist" ELSE "fail"

\* A file system or a link is mounted, or fails to.
MountIt(p) ==
  /\ RequestStep
  /\ req[p].pc = "mount" /\ req[p].kind.type # "auto"
  /\ \/ /\ real' = [real EXCEPT ![p] = req[p].kind.type]
        /\ RequestGoes(p, "ready")
     \/ /\ RequestGoes(p, Failed(p))
        /\ UNCHANGED real
  /\ UNCHANGED <<table, late>>

\* mount_autofs.c lists the submount and then starts its thread.
ListSubmount(p) ==
  /\ RequestStep
  /\ req[p].pc = "mount" /\ req[p].kind.type = "auto"
  /\ AddSubmount(p)
  /\ RequestGoes(p, "start")
  /\ UNCHANGED <<real, late>>

\* The entry cannot be copied, or the submount not be set up, before anything
\* is listed. After a failed copy no other location is tried.
SetupFails(p) ==
  /\ RequestStep
  /\ \/ req[p].pc = "amd" /\ RequestGoes(p, "fail")
     \/ /\ req[p].pc = "mount" /\ req[p].kind.type = "auto"
        /\ RequestGoes(p, Failed(p))
  /\ UNCHANGED <<table, real, late>>

StartSubmount(p) ==
  /\ RequestStep
  /\ req[p].pc = "start"
  /\ real' = [real EXCEPT ![p] = "auto"]
  /\ RequestGoes(p, "ready")
  /\ UNCHANGED <<table, late>>

StartFails(p) ==
  /\ RequestStep
  /\ req[p].pc = "start"
  /\ RemoveSubmount(p)
  /\ RequestGoes(p, Failed(p))
  /\ UNCHANGED <<real, late>>

\* The next location of the amd entry is tried, if there is one.
UnlistAmd(p) ==
  /\ RequestStep
  /\ req[p].pc = "unlist"
  /\ RemoveAmdMount(p)
  /\ \/ RequestGoes(p, "fail")
     \/ \E k \in Kind : k.amd /\ req' = [req EXCEPT ![p] = [pc |-> "amd",
                                                           kind |-> k]]
  /\ UNCHANGED <<real, late>>

SendFail(p) ==
  /\ RequestStep
  /\ req[p].pc = "fail"
  /\ req' = [req EXCEPT ![p] = Idle]
  /\ UNCHANGED <<table, real, late>>

\* do_mount_indirect() answers first and lists the mount afterwards; by then
\* the kernel may have expired it, and asked for it again.
SendReady(p) ==
  /\ RequestStep
  /\ req[p].pc = "ready"
  /\ req' = [req EXCEPT ![p] = Idle]
  /\ late' = [late EXCEPT ![p] = @ + 1]
  /\ UNCHANGED <<table, real>>

SetMounted(p) ==
  /\ RequestStep
  /\ late[p] > 0
  /\ AddMount(p)
  /\ late' = [late EXCEPT ![p] = @ - 1]
  /\ UNCHANGED <<real, req>>

\* An administrator umounts a file system.
ManualUmount(p) ==
  /\ RequestStep
  /\ real[p] = "fs"
  /\ real' = [real EXCEPT ![p] = "none"]
  /\ UNCHANGED <<table, req, late>>

-----------------------------------------------------------------------------
(* A submount shuts down: handle_mounts_exit() under the master mutex. *)

ExitStep == ~crashed /\ UNCHANGED <<req, late, scan, crashed>>
ExitAt(p, pc) == ExitStep /\ exit = [pc |-> pc, path |-> p]
ExitGoes(pc) == exit' = [exit EXCEPT !.pc = pc]

\* A submount that is busy keeps running and nothing has changed.
ExitUmount(p) ==
  /\ ExitStep
  /\ MasterFree /\ real[p] = "auto"
  /\ exit' = [pc |-> "sub", path |-> p]
  /\ real' = [real EXCEPT ![p] = "none"]
  /\ UNCHANGED table

ExitRemoveSubmount(p) ==
  /\ ExitAt(p, "sub")
  /\ RemoveSubmount(p) /\ ExitGoes("rm")
  /\ UNCHANGED real

ExitRemoveMount(p) ==
  /\ ExitAt(p, "rm")
  /\ RemoveMount(p) /\ ExitGoes("amd")
  /\ UNCHANGED real

ExitFindAmd(p) ==
  /\ ExitAt(p, "amd")
  /\ \/ "AMD" \in flags[p] /\ Hold(p) /\ ExitGoes("amdrm")
     \/ "AMD" \notin flags[p] /\ UNCHANGED table /\ ExitGoes("unlock")
  /\ UNCHANGED real

ExitRemoveAmd(p) ==
  /\ ExitAt(p, "amdrm")
  /\ RemoveAmdMount(p) /\ ExitGoes("amdput")
  /\ UNCHANGED real

ExitPutAmd(p) ==
  /\ ExitAt(p, "amdput")
  /\ Release(p) /\ ExitGoes("unlock")
  /\ UNCHANGED real

ExitUnlock(p) ==
  /\ ExitAt(p, "unlock")
  /\ exit' = NoExit
  /\ UNCHANGED <<table, real>>

-----------------------------------------------------------------------------
(* The expire thread, with the umount requests the kernel sends back while  *)
(* it is in the expire ioctl.                                              *)

ScanStep == ~crashed /\ UNCHANGED <<req, late, exit>>
ScanGoes(pc) == scan' = [scan EXCEPT !.pc = pc]
ScanReturns  == scan' = [scan EXCEPT !.pc = "visit", !.path = NoPath,
                                     !.link = FALSE]
ScanAt(p, pc) == ScanStep /\ scan.pc = pc /\ scan.path = p

\* Mutant: the list is made without taking references.
GetExpireListBare ==
  /\ ScanStep
  /\ scan = Resting /\ mounts # {}
  /\ scan' = [Resting EXCEPT !.pc = "visit", !.list = mounts, !.todo = mounts]
  /\ UNCHANGED <<table, real, crashed>>

\* mnts_get_expire_list() takes a reference to every entry.
GetExpireList ==
  /\ ScanStep
  /\ scan = Resting /\ mounts # {}
  /\ \A p \in Path : FewSpare(p)
  /\ ref' = [p \in Path |-> IF p \in mounts THEN ref[p] + 1 ELSE ref[p]]
  /\ scan' = [Resting EXCEPT !.pc = "visit", !.list = mounts, !.todo = mounts]
  /\ UNCHANGED <<flags, lists, real, crashed>>

\* The thread is done with the list, or is cancelled.
PutExpireList ==
  /\ ScanStep
  /\ scan.pc = "visit"
  /\ ref' = [p \in Path |-> IF p \in scan.list THEN ref[p] - 1 ELSE ref[p]]
  /\ flags' = [p \in Path |-> IF p \in scan.list /\ ref[p] = 1 THEN {}
                              ELSE flags[p]]
  /\ scan' = Resting
  /\ UNCHANGED <<lists, real, crashed>>

\* The kernel finds nothing to expire at the path, or the umount fails.
NothingExpired(p) ==
  /\ ScanStep
  /\ scan.pc = "visit" /\ p \in scan.todo
  /\ "AUTOFS" \notin flags[p]
  /\ scan' = [scan EXCEPT !.todo = @ \ {p}]
  /\ UNCHANGED <<table, real, crashed>>

\* The kernel asks for the umount of the path it was asked about or, when the
\* list is done, of any path; it does not touch a path with a request pending.
Umount(p) ==
  /\ ScanStep
  /\ scan.pc = "visit"
  /\ scan.todo = {} \/ (p \in scan.todo /\ "AUTOFS" \notin flags[p])
  /\ real[p] \in {"fs", "link"} /\ req[p] = Idle
  /\ real' = [real EXCEPT ![p] = "none"]
  /\ scan' = [scan EXCEPT !.path = p, !.todo = @ \ {p},
                          !.link = real[p] = "link",
                          !.pc = IF real[p] = "link" THEN "amd" ELSE "rm"]
  /\ UNCHANGED <<table, crashed>>

\* umount_ent() takes the path off the mounted list, umount_multi() does it for
\* a link, last of all.
UmountRemoveMount(p) ==
  /\ ScanAt(p, "rm")
  /\ RemoveMount(p)
  /\ IF scan.link THEN ScanReturns ELSE ScanGoes("amd")
  /\ UNCHANGED <<real, crashed>>

UmountNext == IF scan.link THEN ScanGoes("rm") ELSE ScanReturns

UmountFindAmd(p) ==
  /\ ScanAt(p, "amd")
  /\ \/ "AMD" \in flags[p] /\ Hold(p) /\ ScanGoes("amdrm")
     \/ "AMD" \notin flags[p] /\ UNCHANGED table /\ UmountNext
  /\ UNCHANGED <<real, crashed>>

UmountRemoveAmd(p) ==
  /\ ScanAt(p, "amdrm")
  /\ RemoveAmdMount(p) /\ ScanGoes("amdput")
  /\ UNCHANGED <<real, crashed>>

UmountPutAmd(p) ==
  /\ ScanAt(p, "amdput")
  /\ Release(p) /\ UmountNext
  /\ UNCHANGED <<real, crashed>>

\* master_notify_submount(): finds the submount, asks it to change its state
\* through this->ap, and waits for it.
NotifyFind(p) ==
  /\ ScanStep
  /\ scan.pc = "visit" /\ p \in scan.todo
  /\ "AUTOFS" \in flags[p]
  /\ Hold(p)
  /\ scan' = [scan EXCEPT !.path = p, !.todo = @ \ {p}, !.pc = "found"]
  /\ UNCHANGED <<real, crashed>>

\* Using this->ap after the submount has cleared it ends the daemon. A submount
\* that is in ST_SHUTDOWN is left alone, and the reference is kept
\* for good: `this' is set to NULL before it is put.
NotifyTask(p) ==
  /\ ScanAt(p, "found")
  /\ \/ /\ "AUTOFS" \in flags[p]
        /\ ScanGoes("wait") \/ ScanReturns
        /\ UNCHANGED crashed
     \/ /\ "AUTOFS" \notin flags[p]
        /\ crashed' = TRUE
        /\ UNCHANGED scan
  /\ UNCHANGED table
  /\ UNCHANGED real

NotifyLook(p) ==
  /\ ScanAt(p, "wait")
  /\ \/ "AUTOFS" \in flags[p] /\ Hold(p) /\ ScanGoes("state")
     \/ "AUTOFS" \notin flags[p] /\ UNCHANGED table /\ ScanGoes("put")
  /\ UNCHANGED <<real, crashed>>

\* Looks again while the submount is going to shut down. The look up's
\* reference is put right after; `this' keeps the entry.
NotifyState(p) ==
  /\ ScanAt(p, "state")
  /\ \/ /\ "AUTOFS" \in flags[p]
        /\ Release(p)
        /\ ScanGoes("wait") \/ ScanGoes("put")
        /\ UNCHANGED crashed
     \/ /\ "AUTOFS" \notin flags[p]
        /\ crashed' = TRUE
        /\ UNCHANGED <<table, scan>>
  /\ UNCHANGED real

NotifyPut(p) ==
  /\ ScanAt(p, "put")
  /\ Release(p) /\ ScanReturns
  /\ UNCHANGED <<real, crashed>>

-----------------------------------------------------------------------------
Request(p) ==
  \/ Missing(p) \/ ParseAmd(p) \/ MountIt(p) \/ ListSubmount(p)
  \/ SetupFails(p) \/ StartSubmount(p) \/ StartFails(p) \/ UnlistAmd(p)
  \/ SendFail(p)
  \/ SendReady(p) \/ SetMounted(p)

Exit(p) ==
  \/ ExitUmount(p) \/ ExitRemoveSubmount(p) \/ ExitRemoveMount(p)
  \/ ExitFindAmd(p) \/ ExitRemoveAmd(p) \/ ExitPutAmd(p) \/ ExitUnlock(p)

Scan(p) ==
  \/ NothingExpired(p) \/ Umount(p) \/ UmountRemoveMount(p)
  \/ UmountFindAmd(p) \/ UmountRemoveAmd(p) \/ UmountPutAmd(p)
  \/ NotifyFind(p) \/ NotifyTask(p) \/ NotifyLook(p) \/ NotifyState(p) \/ NotifyPut(p)

Next ==
  \/ \E p \in Path : Request(p) \/ ManualUmount(p) \/ Exit(p) \/ Scan(p)
  \/ GetExpireList
  \/ PutExpireList

Spec == Init /\ [][Next]_vars

-----------------------------------------------------------------------------
(* Properties. *)

TableType ==
  /\ ref \in [Path -> Nat]
  /\ flags \in [Path -> SUBSET Flag]
  /\ mounts \in SUBSET Path /\ submounts \in SUBSET Path
  /\ amdmounts \in SUBSET Path

ScanPc == {"idle", "visit", "rm", "amd", "amdrm", "amdput", "found", "wait",
           "state", "put"}
ScanState == [pc: ScanPc, path: Path \cup {NoPath}, list: SUBSET Path,
              todo: SUBSET Path, link: BOOLEAN]

ControlType ==
  /\ real \in [Path -> {"none", "fs", "link", "auto"}]
  /\ req \in [Path -> [pc: {"idle", "amd", "mount", "start", "ready", "unlist",
                            "fail"}, kind: Kind]]
  /\ late \in [Path -> Nat]
  /\ scan \in ScanState
  /\ exit \in [pc: {"idle", "sub", "rm", "amd", "amdrm", "amdput", "unlock"},
               path: Path \cup {NoPath}]
  /\ crashed \in BOOLEAN

\* Types of the table and of the threads that use it; no reference count of
\* mnts_alloc_mount()'s entries falls below zero.
TypeOK == TableType /\ ControlType

\* Nobody is left with a freed entry: the count covers the lists an entry is
\* on and everyone who has it in hand (the expire list, the look ups of
\* umounts, submounts and notifications), in whatever order they put it.
RefCovers ==
  \A p \in Path : ref[p] >= References(p)

\* A list holds exactly the entries flagged for it, so no list has a freed
\* entry and no remove leaves one behind.
ListsMatch ==
  \A p \in Path : /\ p \in mounts <=> "MOUNTED" \in flags[p]
                  /\ p \in submounts <=> "AUTOFS" \in flags[p]
                  /\ p \in amdmounts <=> "AMD" \in flags[p]

\* A submount that runs is on its parent's list with its ap, so that it is
\* told of state changes and keeps its parent alive: the cleanup of one that
\* was at the same path before never takes it off.
SubmountListed ==
  \A p \in Path : real[p] = "auto" => p \in submounts

\* What is mounted is on the list the expire works from, once the thread that
\* mounted it is done: no earlier umount, late listing or submount cleanup of
\* the same path takes it off.
MountedListed ==
  \A p \in Path :
    (real[p] # "none" /\ req[p] = Idle /\ late[p] = 0) => p \in mounts

-----------------------------------------------------------------------------
(* What makes them inductive: a request, the umount of a path and the      *)
(* shutdown of a submount exclude each other where they change the table.  *)

\* A request works on a path at which nothing is mounted.
RequestAlone ==
  \A p \in Path : /\ req[p].pc \notin {"idle", "ready"} => real[p] = "none"
                  /\ req[p].pc = "start" => "AUTOFS" \in flags[p]

\* The shutdown of a submount finds no new request for its path.
ExitAlone ==
  exit # NoExit => /\ exit.path \in Path
                   /\ real[exit.path] = "none"
                   /\ req[exit.path].pc \in {"idle", "ready"}

\* So does a umount.
UmountAlone ==
  \A p \in Path : Expiring(p) => real[p] = "none" /\ req[p].pc = "idle"

\* The inductive invariant: the table is in order, and what depends on it.
TableInv ==
  /\ TypeOK /\ RefCovers /\ ListsMatch
  /\ SubmountListed /\ MountedListed
  /\ RequestAlone /\ ExitAlone /\ UmountAlone
=============================================================================
