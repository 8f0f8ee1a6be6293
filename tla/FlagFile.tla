------------------------------ MODULE FlagFile ------------------------------
(***************************************************************************)
(* daemon/flag.c: the flag file that keeps a second automount daemon from  *)
(* starting, over a file system that several daemons use at once.          *)
(*                                                                         *)
(* The name FLAG_FILE refers to an inode, which holds the pid of whoever   *)
(* wrote it. A daemon that has opened the file keeps its inode when the    *)
(* name is unlinked or linked again. Names are such that the module can be *)
(* extended together with another one of the daemon.                       *)
(***************************************************************************)
EXTENDS Naturals

CONSTANTS
  Pid,      \* daemons; a daemon that has ended does not come back
  Ino,      \* inodes
  None,     \* no inode, no pid
  Serial,   \* daemons are started one after the other (by an init system)
  Failures  \* a crash ("crash"), an error of the file system ("io")

ASSUME FlagFileAssumption ==
  /\ None \notin Pid /\ None \notin Ino
  /\ Serial \in BOOLEAN
  /\ Failures \subseteq {"crash", "io"}

VARIABLES
  flag,     \* the inode FLAG_FILE names
  content,  \* the pid written in each inode
  daemon,   \* where each daemon is
  made,     \* its link() succeeded
  fd,       \* the inode it has open
  tries     \* how many more times flag_is_owned() reads

flagVars == <<flag, content, daemon, made, fd, tries>>

Tries == 3

Acquiring(p) == daemon[p] \in {"link", "open", "write", "check", "unlink"}
Running(p)   == daemon[p] = "running"

\* kill(pid, 0) and check_pid_exe_name(): pid is an automount process.
Alive(p) == Acquiring(p) \/ Running(p)

\* A leftover of an earlier daemon may be there.
FlagInit ==
  /\ flag \in Ino \cup {None}
  /\ content = [i \in Ino |-> None]
  /\ daemon = [p \in Pid |-> "new"]
  /\ made = [p \in Pid |-> FALSE]
  /\ fd = [p \in Pid |-> None]
  /\ tries = [p \in Pid |-> 0]

Goto(p, l) == daemon' = [daemon EXCEPT ![p] = l]

\* become_daemon()
Start(p) ==
  /\ daemon[p] = "new"
  /\ Serial => \A q \in Pid : ~Acquiring(q)
  /\ Goto(p, "link")
  /\ UNCHANGED <<flag, content, made, fd, tries>>

\* aquire_flag_file(): create a file of our own and link it to FLAG_FILE.
Link(p) ==
  /\ daemon[p] = "link"
  /\ IF flag # None
       THEN /\ made' = [made EXCEPT ![p] = FALSE]
            /\ UNCHANGED <<flag, content>>
       ELSE /\ made' = [made EXCEPT ![p] = TRUE]
            /\ \E i \in Ino \ {fd[q] : q \in Pid} :
                 /\ flag' = i
                 /\ content' = [content EXCEPT ![i] = None]
  /\ Goto(p, "open")
  /\ UNCHANGED <<fd, tries>>

\* Open it, whoever made it; if it has just been deleted, try again.
Open(p) ==
  /\ daemon[p] = "open"
  /\ fd' = [fd EXCEPT ![p] = flag]
  /\ tries' = [tries EXCEPT ![p] = Tries]
  /\ Goto(p, IF flag = None THEN "link" ELSE IF made[p] THEN "write" ELSE "check")
  /\ UNCHANGED <<flag, content, made>>

WriteNothing(p) ==  \* mutant: the pid is never written
  /\ daemon[p] = "write"
  /\ fd' = [fd EXCEPT ![p] = None]
  /\ Goto(p, "running")
  /\ UNCHANGED <<flag, content, made, tries>>

\* We made the link: write our pid.
Write(p) ==
  /\ daemon[p] = "write"
  /\ content' = [content EXCEPT ![fd[p]] = p]
  /\ fd' = [fd EXCEPT ![p] = None]
  /\ Goto(p, "running")
  /\ UNCHANGED <<flag, made, tries>>

\* A call fails: give up. The flag file is left alone, ours included.
GiveUp(p) ==
  /\ "io" \in Failures
  /\ daemon[p] \in {"link", "open", "write"}
  /\ fd' = [fd EXCEPT ![p] = None]
  /\ Goto(p, "ended")
  /\ UNCHANGED <<flag, content, made, tries>>

\* flag_is_owned(): is the file, in which pid q could be read, owned? The read
\* that uses up the last try counts as none at all.
IsOwnedNever(q, left) == FALSE  \* mutant
IsOwned(q, left) == left > 0 /\ Alive(q)

\* One turn of its loop. No pid yet: wait for the owner to write it, unless
\* this was the last try.
Check(p) ==
  LET left == tries[p] - 1
      q    == content[fd[p]]
      wait == q = None /\ left > 0
      own  == q # None /\ IsOwned(q, left)
  IN /\ daemon[p] = "check"
     /\ tries' = [tries EXCEPT ![p] = left]
     /\ fd' = [fd EXCEPT ![p] = IF wait THEN @ ELSE None]
     /\ Goto(p, IF wait THEN "check" ELSE IF own THEN "ended" ELSE "unlink")
     /\ UNCHANGED <<flag, content, made>>

UnlinkNot(p) ==  \* mutant: the stale file is left in place
  /\ daemon[p] = "unlink"
  /\ Goto(p, "link")
  /\ UNCHANGED <<flag, content, made, fd, tries>>

\* Nobody owned it: remove FLAG_FILE, whatever it names by now, and try again.
Unlink(p) ==
  /\ daemon[p] = "unlink"
  /\ flag' = None
  /\ Goto(p, "link")
  /\ UNCHANGED <<content, made, fd, tries>>

\* release_flag_file() as the daemon ends.
Release(p) ==
  /\ Running(p)
  /\ flag' = None
  /\ Goto(p, "ended")
  /\ UNCHANGED <<content, made, fd, tries>>

\* The daemon is killed.
Crash(p) ==
  /\ "crash" \in Failures
  /\ Alive(p)
  /\ fd' = [fd EXCEPT ![p] = None]
  /\ Goto(p, "ended")
  /\ UNCHANGED <<flag, content, made, tries>>

Acquire(p) ==
  Link(p) \/ Open(p) \/ Write(p) \/ Check(p) \/ Unlink(p)

FlagNext ==
  \E p \in Pid : Start(p) \/ Acquire(p) \/ GiveUp(p) \/ Release(p) \/ Crash(p)

FlagSpec == FlagInit /\ [][FlagNext]_flagVars

\* A daemon that is starting does not stop on its own.
FlagFairSpec == FlagSpec /\ \A p \in Pid : WF_flagVars(Acquire(p))

-----------------------------------------------------------------------------
(* Properties. *)

\* The daemons, the flag file and its content keep their types.
FlagTypeOK ==
  /\ flag \in Ino \cup {None}
  /\ content \in [Ino -> Pid \cup {None}]
  /\ daemon \in [Pid -> {"new", "link", "open", "write", "check", "unlink",
                         "running", "ended"}]
  /\ made \in [Pid -> BOOLEAN]
  /\ fd \in [Pid -> Ino \cup {None}]
  /\ tries \in [Pid -> 0 .. Tries]

\* A running daemon's flag file is in place and names it, so that a daemon
\* started later finds it, whatever has crashed or failed before.
RunningHasFlag ==
  \A p \in Pid : Running(p) => flag # None /\ content[flag] = p

\* aquire_flag_file() lets one daemon run at a time.
AtMostOneRuns ==
  \A p, q \in Pid : Running(p) /\ Running(q) => p = q

\* What these rest on: one daemon is starting at a time, the file it has made
\* or has opened is the one FLAG_FILE names while nobody runs, and a daemon
\* about to remove the file has found that nobody runs.
OneStarts ==
  \A p, q \in Pid : Acquiring(p) /\ Acquiring(q) => p = q
StartingSees ==
  \A p \in Pid :
    /\ daemon[p] \in {"write", "unlink"} \/ (daemon[p] = "open" /\ made[p])
         => \A q \in Pid : ~Running(q)
    /\ daemon[p] = "write" => fd[p] = flag /\ flag # None
    /\ daemon[p] = "check" =>
         /\ fd[p] # None
         /\ tries[p] \in 1 .. Tries
         /\ \A q \in Pid : Running(q) => fd[p] = flag /\ tries[p] > 1
FlagInv ==
  FlagTypeOK /\ RunningHasFlag /\ AtMostOneRuns /\ OneStarts /\ StartingSees

\* A daemon that starts comes to run or gives up: it does not go round for ever
\* over a stale file.
StartEnds == \A p \in Pid : Acquiring(p) ~> ~Acquiring(p)
=============================================================================
