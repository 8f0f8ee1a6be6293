--------------------------- MODULE MountsListProofs ---------------------------
(***************************************************************************)
(* Proofs about the table of mounts: for any number of paths, the reference *)
(* counts cover every list and every thread, the lists match the flags, and *)
(* neither a running submount nor a mount whose request is done is ever     *)
(* missing from its list.                                                  *)
(***************************************************************************)
EXTENDS MountsList, TLAPS

-----------------------------------------------------------------------------
(* What the operations on the table do, whoever calls them. *)

\* Every count changes by at least as much as the number of lists.
Balanced == \A q \in Path : ref'[q] + Listed(q) >= ref[q] + Listed(q)'

TableKept == TableType' /\ ListsMatch' /\ Balanced

Keeps(f) == \A q \in Path : f \in flags[q] => f \in flags'[q]

\* Only the entry of p may lose the flag.
Loses(p, f) ==
  /\ \A g \in Flag \ {f} : Keeps(g)
  /\ \A q \in Path \ {p} : f \in flags[q] => f \in flags'[q]

\* An operation that changes nothing.
LEMMA SameTable ==
  ASSUME TableType, ListsMatch, UNCHANGED table
  PROVE  TableKept /\ flags' = flags /\ ref' = ref
BY DEF table, lists, TableKept, TableType, ListsMatch, Balanced, Listed, One

\* mnts_add_mount(), mnts_add_amdmount() and mnts_add_submount() take a
\* reference for the list and leave the other flags alone.
LEMMA AddEffect ==
  ASSUME TableType, ListsMatch, NEW p \in Path,
         \/ AddMount(p) \/ AddAmdMount(p) \/ AddSubmount(p)
  PROVE  TableKept /\ \A f \in Flag : Keeps(f)
<1> USE DEF Flag, Keeps, TableType, ListsMatch, Balanced, Listed, One, TableKept,
        Get, table, lists
<1>1. CASE AddMount(p)
  BY <1>1 DEF AddMount
<1>2. CASE AddAmdMount(p)
  BY <1>2 DEF AddAmdMount
<1>3. CASE AddSubmount(p)
  BY <1>3 DEF AddSubmount
<1> QED BY <1>1, <1>2, <1>3

\* The count covers the lists, so the last reference is that of the only list.
LEMMA LastReference ==
  ASSUME TypeOK, RefCovers, NEW p \in Path, NEW f \in flags[p]
  PROVE  ref[p] >= 1 /\ (ref[p] = 1 => flags[p] = {f})
<1>1. ref[p] >= Listed(p) /\ ref[p] \in Nat /\ flags[p] \subseteq Flag
  BY DEF RefCovers, References, ScanHolds, ExitHolds, Listed, One, TypeOK,
     TableType
<1> QED BY <1>1 DEF Listed, One, Flag

\* Putting the reference of a list takes one flag of one entry away.
LEMMA PutFlag ==
  ASSUME TypeOK, RefCovers, NEW p \in Path, NEW f \in flags[p], Put(p, {f})
  PROVE  /\ flags' = [flags EXCEPT ![p] = @ \ {f}]
         /\ ref' = [ref EXCEPT ![p] = @ - 1]
         /\ ref[p] >= 1
<1>1. ref[p] >= 1 /\ (ref[p] = 1 => flags[p] = {f})
  BY LastReference
<1>2. ref[p] = 1 => flags[p] \ {f} = {}
  BY <1>1
<1> QED BY <1>1, <1>2 DEF Put

\* The removes put the reference of the list they take the entry off.
LEMMA RemoveEffect ==
  ASSUME TypeOK, RefCovers, ListsMatch, NEW p \in Path
  PROVE  /\ RemoveMount(p) => TableKept /\ Loses(p, "MOUNTED")
         /\ RemoveAmdMount(p) => TableKept /\ Loses(p, "AMD")
         /\ RemoveSubmount(p) => TableKept /\ Loses(p, "AUTOFS")
<1> USE DEF Flag, TypeOK, TableType, ListsMatch, Balanced, Listed, One,
        TableKept, Loses, Keeps
<1>1. ASSUME UNCHANGED table
      PROVE  TableKept /\ \A f \in Flag : Loses(p, f)
  BY <1>1, SameTable
<1>2. ASSUME RemoveMount(p), "MOUNTED" \in flags[p]
      PROVE  TableKept /\ Loses(p, "MOUNTED")
  <2>1. /\ flags' = [flags EXCEPT ![p] = @ \ {"MOUNTED"}]
        /\ ref' = [ref EXCEPT ![p] = @ - 1]
        /\ ref[p] >= 1
    BY <1>2, PutFlag DEF RemoveMount
  <2> QED BY <1>2, <2>1 DEF RemoveMount
<1>3. ASSUME RemoveAmdMount(p), "AMD" \in flags[p]
      PROVE  TableKept /\ Loses(p, "AMD")
  <2>1. /\ flags' = [flags EXCEPT ![p] = @ \ {"AMD"}]
        /\ ref' = [ref EXCEPT ![p] = @ - 1]
        /\ ref[p] >= 1
    BY <1>3, PutFlag DEF RemoveAmdMount
  <2> QED BY <1>3, <2>1 DEF RemoveAmdMount
<1>4. ASSUME RemoveSubmount(p), "AUTOFS" \in flags[p]
      PROVE  TableKept /\ Loses(p, "AUTOFS")
  <2>1. /\ flags' = [flags EXCEPT ![p] = @ \ {"AUTOFS"}]
        /\ ref' = [ref EXCEPT ![p] = @ - 1]
        /\ ref[p] >= 1
    BY <1>4, PutFlag DEF RemoveSubmount
  <2> QED BY <1>4, <2>1 DEF RemoveSubmount
<1> QED
  <2> HIDE DEF TableKept, Loses
  <2> QED BY <1>1, <1>2, <1>3, <1>4 DEF RemoveMount, RemoveAmdMount,
             RemoveSubmount

\* A look up takes one reference and changes nothing else.
LEMMA HoldEffect ==
  ASSUME TableType, ListsMatch, NEW p \in Path, Hold(p)
  PROVE  /\ TableType' /\ ListsMatch' /\ flags' = flags
         /\ ref' = [ref EXCEPT ![p] = @ + 1]
BY DEF Hold, Get, TableType, ListsMatch, lists

\* Putting it back frees nothing that is on a list, if it is really held.
LEMMA ReleaseEffect ==
  ASSUME TypeOK, RefCovers, ListsMatch, NEW p \in Path, Release(p),
         ScanHolds(p) >= 1 \/ ExitHolds(p) >= 1
  PROVE  /\ TableType' /\ ListsMatch' /\ flags' = flags
         /\ ref' = [ref EXCEPT ![p] = @ - 1]
<1>1. ref[p] >= Listed(p) + 1 /\ ref[p] \in Nat /\ flags[p] \subseteq Flag
  BY DEF RefCovers, References, ScanHolds, ExitHolds, Listed, One, TypeOK,
     TableType
<1>2. ref[p] = 1 => flags[p] = {}
  BY <1>1 DEF Listed, One, Flag
<1>3. flags' = flags /\ ref' = [ref EXCEPT ![p] = @ - 1] /\ UNCHANGED lists
  BY <1>1, <1>2 DEF Release, Put, TypeOK, TableType
<1> QED BY <1>1, <1>3 DEF TypeOK, TableType, ListsMatch, lists,
        Listed, One

-----------------------------------------------------------------------------
(* Every step keeps the invariant. *)

\* The moves of the expire thread are well typed.
LEMMA ScanMoves ==
  ASSUME ControlType
  PROVE  /\ \A pc \in ScanPc : ScanGoes(pc) => scan' \in ScanState
         /\ ScanReturns => scan' \in ScanState
BY DEF ControlType, ScanGoes, ScanReturns, ScanState, ScanPc

\* Missing keeps the invariant.
LEMMA MissingStep ==
  ASSUME TableInv, NEW p \in Path, Missing(p)
  PROVE  TableInv'
<1> USE MountsListAssumption DEF TableInv, TypeOK
<1>1. ControlType'
  BY DEF Missing, RequestStep, Asks, MasterFree, Accept, Expiring,
     ControlType, Kind, NoKind, Idle
<1>2. TableKept /\ flags' = flags /\ ref' = ref
  BY SameTable DEF Missing, Accept
<1>3. RefCovers'
  BY <1>1, <1>2 DEF Missing, RequestStep, RefCovers, References, ScanHolds,
     ExitHolds, One, Listed, TableType, ControlType, TableKept, Balanced
<1>4. SubmountListed' /\ MountedListed'
  BY <1>1, <1>2 DEF Missing, RequestStep, Asks, MasterFree, Accept, Expiring,
     SubmountListed, MountedListed, ListsMatch, RequestAlone, ExitAlone,
     UmountAlone, TableType, ControlType, Kind, NoKind, Idle, NoExit,
     TableKept
<1>5. RequestAlone' /\ ExitAlone' /\ UmountAlone'
  BY <1>1, <1>2 DEF Missing, RequestStep, Asks, MasterFree, Accept, Expiring,
     SubmountListed, ListsMatch, RequestAlone, ExitAlone, UmountAlone,
     TableType, ControlType, Kind, NoKind, Idle, NoExit, TableKept
<1> QED BY <1>1, <1>2, <1>3, <1>4, <1>5 DEF TableKept

\* ParseAmd keeps the invariant.
LEMMA ParseAmdStep ==
  ASSUME TableInv, NEW p \in Path, ParseAmd(p)
  PROVE  TableInv'
<1> USE MountsListAssumption DEF TableInv, TypeOK
<1>1. ControlType'
  BY DEF ParseAmd, RequestStep, RequestGoes, ControlType, Kind, NoKind, Idle
<1>2. TableKept /\ \A f \in Flag : Keeps(f)
  BY AddEffect DEF ParseAmd
<1>3. RefCovers'
  BY <1>1, <1>2 DEF ParseAmd, RequestStep, RefCovers, References, ScanHolds,
     ExitHolds, One, Listed, TableType, ControlType, TableKept, Balanced
<1>4. SubmountListed' /\ MountedListed'
  BY <1>1, <1>2 DEF ParseAmd, RequestStep, RequestGoes, SubmountListed,
     MountedListed, ListsMatch, RequestAlone, ExitAlone, UmountAlone,
     Expiring, TableType, ControlType, Kind, NoKind, Idle, NoExit, TableKept,
     Flag, Keeps, AddAmdMount, Get
<1>5. RequestAlone' /\ ExitAlone' /\ UmountAlone'
  BY <1>1, <1>2 DEF ParseAmd, RequestStep, RequestGoes, SubmountListed,
     ListsMatch, RequestAlone, ExitAlone, UmountAlone, Expiring, TableType,
     ControlType, Kind, NoKind, Idle, NoExit, TableKept, Flag, Keeps,
     AddAmdMount, Get
<1> QED BY <1>1, <1>2, <1>3, <1>4, <1>5 DEF TableKept

\* MountIt keeps the invariant.
LEMMA MountItStep ==
  ASSUME TableInv, NEW p \in Path, MountIt(p)
  PROVE  TableInv'
<1> USE MountsListAssumption DEF TableInv, TypeOK
<1>a. req[p].kind.type \in {"fs", "link"}
  BY DEF MountIt, ControlType, Kind
<1>0. PICK pc \in {"ready", "unlist", "fail"} :
        /\ req' = [req EXCEPT ![p].pc = pc]
        /\ \/ real' = real
           \/ pc = "ready" /\ real' = [real EXCEPT ![p] = req[p].kind.type]
  BY DEF MountIt, RequestGoes, Failed
<1>1. ControlType'
  BY <1>a, <1>0 DEF MountIt, RequestStep, ControlType, Kind, NoKind, Idle
<1>2. TableKept /\ flags' = flags /\ ref' = ref
  BY SameTable DEF MountIt
<1>3. RefCovers'
  BY <1>1, <1>2 DEF MountIt, RequestStep, RefCovers, References, ScanHolds,
     ExitHolds, One, Listed, TableType, ControlType, TableKept, Balanced
<1>4. SubmountListed' /\ MountedListed'
  BY <1>0, <1>1, <1>2 DEF MountIt, RequestStep, SubmountListed, MountedListed,
     ListsMatch, RequestAlone, ExitAlone, UmountAlone, Expiring, TableType,
     ControlType, Kind, NoKind, Idle, NoExit, TableKept
<1>5. RequestAlone' /\ ExitAlone' /\ UmountAlone'
  BY <1>0, <1>1, <1>2 DEF MountIt, RequestStep, SubmountListed, ListsMatch,
     RequestAlone, ExitAlone, UmountAlone, Expiring, TableType, ControlType,
     Kind, NoKind, Idle, NoExit, TableKept
<1> QED BY <1>1, <1>2, <1>3, <1>4, <1>5 DEF TableKept

\* ListSubmount keeps the invariant.
LEMMA ListSubmountStep ==
  ASSUME TableInv, NEW p \in Path, ListSubmount(p)
  PROVE  TableInv'
<1> USE MountsListAssumption DEF TableInv, TypeOK
<1>1. ControlType'
  BY DEF ListSubmount, RequestStep, RequestGoes, ControlType, Kind, NoKind,
     Idle
<1>2. TableKept /\ \A f \in Flag : Keeps(f)
  BY AddEffect DEF ListSubmount
<1>3. RefCovers'
  BY <1>1, <1>2 DEF ListSubmount, RequestStep, RefCovers, References,
     ScanHolds, ExitHolds, One, Listed, TableType, ControlType, TableKept,
     Balanced
<1>4. SubmountListed' /\ MountedListed'
  BY <1>1, <1>2 DEF ListSubmount, RequestStep, RequestGoes, SubmountListed,
     MountedListed, ListsMatch, RequestAlone, ExitAlone, UmountAlone,
     Expiring, TableType, ControlType, Kind, NoKind, Idle, NoExit, TableKept,
     Flag, Keeps, AddSubmount, Get
<1>5. RequestAlone' /\ ExitAlone' /\ UmountAlone'
  BY <1>1, <1>2 DEF ListSubmount, RequestStep, RequestGoes, SubmountListed,
     ListsMatch, RequestAlone, ExitAlone, UmountAlone, Expiring, TableType,
     ControlType, Kind, NoKind, Idle, NoExit, TableKept, Flag, Keeps,
     AddSubmount, Get
<1> QED BY <1>1, <1>2, <1>3, <1>4, <1>5 DEF TableKept

\* SetupFails keeps the invariant.
LEMMA SetupFailsStep ==
  ASSUME TableInv, NEW p \in Path, SetupFails(p)
  PROVE  TableInv'
<1> USE MountsListAssumption DEF TableInv, TypeOK
<1>0. PICK pc \in {"unlist", "fail"} : req' = [req EXCEPT ![p].pc = pc]
  BY DEF SetupFails, RequestGoes, Failed
<1>1. ControlType'
  BY <1>0 DEF SetupFails, RequestStep, ControlType, Kind, NoKind, Idle
<1>2. TableKept /\ flags' = flags /\ ref' = ref
  BY SameTable DEF SetupFails
<1>3. RefCovers'
  BY <1>1, <1>2 DEF SetupFails, RequestStep, RefCovers, References, ScanHolds,
     ExitHolds, One, Listed, TableType, ControlType, TableKept, Balanced
<1>4. SubmountListed' /\ MountedListed'
  BY <1>0, <1>1, <1>2 DEF SetupFails, RequestStep, SubmountListed,
     MountedListed, ListsMatch, RequestAlone, ExitAlone, UmountAlone, Expiring, TableType,
     ControlType, Kind, NoKind, Idle, NoExit, TableKept
<1>5. RequestAlone' /\ ExitAlone' /\ UmountAlone'
  BY <1>0, <1>1, <1>2 DEF SetupFails, RequestStep, SubmountListed,
     ListsMatch, RequestAlone, ExitAlone, UmountAlone, Expiring, TableType, ControlType,
     Kind, NoKind, Idle, NoExit, TableKept
<1> QED BY <1>1, <1>2, <1>3, <1>4, <1>5 DEF TableKept

\* StartSubmount keeps the invariant.
LEMMA StartSubmountStep ==
  ASSUME TableInv, NEW p \in Path, StartSubmount(p)
  PROVE  TableInv'
<1> USE MountsListAssumption DEF TableInv, TypeOK
<1>1. ControlType'
  BY DEF StartSubmount, RequestStep, RequestGoes, ControlType, Kind, NoKind,
     Idle
<1>2. TableKept /\ flags' = flags /\ ref' = ref
  BY SameTable DEF StartSubmount
<1>3. RefCovers'
  BY <1>1, <1>2 DEF StartSubmount, RequestStep, RefCovers, References,
     ScanHolds, ExitHolds, One, Listed, TableType, ControlType, TableKept,
     Balanced
<1>4. SubmountListed' /\ MountedListed'
  BY <1>1, <1>2 DEF StartSubmount, RequestStep, RequestGoes, SubmountListed,
     MountedListed, ListsMatch, RequestAlone, ExitAlone, UmountAlone,
     Expiring, TableType, ControlType, Kind, NoKind, Idle, NoExit, TableKept
<1>5. RequestAlone' /\ ExitAlone' /\ UmountAlone'
  BY <1>1, <1>2 DEF StartSubmount, RequestStep, RequestGoes, SubmountListed,
     ListsMatch, RequestAlone, ExitAlone, UmountAlone, Expiring, TableType,
     ControlType, Kind, NoKind, Idle, NoExit, TableKept
<1> QED BY <1>1, <1>2, <1>3, <1>4, <1>5 DEF TableKept

\* StartFails keeps the invariant.
LEMMA StartFailsStep ==
  ASSUME TableInv, NEW p \in Path, StartFails(p)
  PROVE  TableInv'
<1> USE MountsListAssumption DEF TableInv, TypeOK
<1>0. PICK pc \in {"unlist", "fail"} : req' = [req EXCEPT ![p].pc = pc]
  BY DEF StartFails, RequestGoes, Failed
<1>1. ControlType'
  BY <1>0 DEF StartFails, RequestStep, ControlType, Kind, NoKind, Idle
<1>2. TableKept /\ Loses(p, "AUTOFS")
  BY RemoveEffect DEF StartFails
<1>3. RefCovers'
  BY <1>1, <1>2 DEF StartFails, RequestStep, RefCovers, References, ScanHolds,
     ExitHolds, One, Listed, TableType, ControlType, TableKept, Balanced
<1>4. SubmountListed' /\ MountedListed'
  BY <1>0, <1>1, <1>2 DEF StartFails, RequestStep, SubmountListed,
     MountedListed, ListsMatch, RequestAlone, ExitAlone, UmountAlone,
     Expiring, TableType, ControlType, Kind, NoKind, Idle, NoExit, TableKept,
     Flag, Keeps, Loses
<1>5. RequestAlone' /\ ExitAlone' /\ UmountAlone'
  BY <1>0, <1>1, <1>2 DEF StartFails, RequestStep, SubmountListed, ListsMatch,
     RequestAlone, ExitAlone, UmountAlone, Expiring, TableType, ControlType,
     Kind, NoKind, Idle, NoExit, TableKept, Flag, Keeps, Loses
<1> QED BY <1>1, <1>2, <1>3, <1>4, <1>5 DEF TableKept

\* UnlistAmd keeps the invariant.
LEMMA UnlistAmdStep ==
  ASSUME TableInv, NEW p \in Path, UnlistAmd(p)
  PROVE  TableInv'
<1> USE MountsListAssumption DEF TableInv, TypeOK
<1>0. PICK r \in [pc: {"fail", "amd"}, kind: Kind] :
        req' = [req EXCEPT ![p] = r]
  <2>1. CASE RequestGoes(p, "fail")
    <3>1. [req[p] EXCEPT !.pc = "fail"] \in [pc: {"fail", "amd"}, kind: Kind]
      BY DEF ControlType
    <3> QED BY <2>1, <3>1 DEF RequestGoes, ControlType
  <2>2. CASE ~RequestGoes(p, "fail")
    BY <2>2 DEF UnlistAmd
  <2> QED BY <2>1, <2>2
<1>1. ControlType'
  BY <1>0 DEF UnlistAmd, RequestStep, ControlType, Kind, NoKind, Idle
<1>2. TableKept /\ Loses(p, "AMD")
  BY RemoveEffect DEF UnlistAmd
<1>3. RefCovers'
  BY <1>1, <1>2 DEF UnlistAmd, RequestStep, RefCovers, References, ScanHolds,
     ExitHolds, One, Listed, TableType, ControlType, TableKept, Balanced
<1>4. SubmountListed' /\ MountedListed'
  BY <1>0, <1>1, <1>2 DEF UnlistAmd, RequestStep, SubmountListed,
     MountedListed, ListsMatch, RequestAlone, ExitAlone, UmountAlone,
     Expiring, TableType, ControlType, Kind, NoKind, Idle, NoExit, TableKept,
     Flag, Keeps, Loses
<1>5. RequestAlone' /\ ExitAlone' /\ UmountAlone'
  BY <1>0, <1>1, <1>2 DEF UnlistAmd, RequestStep, SubmountListed, ListsMatch,
     RequestAlone, ExitAlone, UmountAlone, Expiring, TableType, ControlType,
     Kind, NoKind, Idle, NoExit, TableKept, Flag, Keeps, Loses
<1> QED BY <1>1, <1>2, <1>3, <1>4, <1>5 DEF TableKept

\* SendFail keeps the invariant.
LEMMA SendFailStep ==
  ASSUME TableInv, NEW p \in Path, SendFail(p)
  PROVE  TableInv'
<1> USE MountsListAssumption DEF TableInv, TypeOK
<1>1. ControlType'
  BY DEF SendFail, RequestStep, ControlType, Kind, NoKind, Idle
<1>2. TableKept /\ flags' = flags /\ ref' = ref
  BY SameTable DEF SendFail
<1>3. RefCovers'
  BY <1>1, <1>2 DEF SendFail, RequestStep, RefCovers, References, ScanHolds,
     ExitHolds, One, Listed, TableType, ControlType, TableKept, Balanced
<1>4. SubmountListed' /\ MountedListed'
  BY <1>1, <1>2 DEF SendFail, RequestStep, SubmountListed, MountedListed,
     ListsMatch, RequestAlone, ExitAlone, UmountAlone, Expiring, TableType,
     ControlType, Kind, NoKind, Idle, NoExit, TableKept
<1>5. RequestAlone' /\ ExitAlone' /\ UmountAlone'
  BY <1>1, <1>2 DEF SendFail, RequestStep, SubmountListed, ListsMatch,
     RequestAlone, ExitAlone, UmountAlone, Expiring, TableType, ControlType,
     Kind, NoKind, Idle, NoExit, TableKept
<1> QED BY <1>1, <1>2, <1>3, <1>4, <1>5 DEF TableKept

\* SendReady keeps the invariant.
LEMMA SendReadyStep ==
  ASSUME TableInv, NEW p \in Path, SendReady(p)
  PROVE  TableInv'
<1> USE MountsListAssumption DEF TableInv, TypeOK
<1>1. ControlType'
  BY DEF SendReady, RequestStep, ControlType, Kind, NoKind, Idle
<1>2. TableKept /\ flags' = flags /\ ref' = ref
  BY SameTable DEF SendReady
<1>3. RefCovers'
  BY <1>1, <1>2 DEF SendReady, RequestStep, RefCovers, References, ScanHolds,
     ExitHolds, One, Listed, TableType, ControlType, TableKept, Balanced
<1>4. SubmountListed' /\ MountedListed'
  BY <1>1, <1>2 DEF SendReady, RequestStep, SubmountListed, MountedListed,
     ListsMatch, RequestAlone, ExitAlone, UmountAlone, Expiring, TableType,
     ControlType, Kind, NoKind, Idle, NoExit, TableKept
<1>5. RequestAlone' /\ ExitAlone' /\ UmountAlone'
  BY <1>1, <1>2 DEF SendReady, RequestStep, SubmountListed, ListsMatch,
     RequestAlone, ExitAlone, UmountAlone, Expiring, TableType, ControlType,
     Kind, NoKind, Idle, NoExit, TableKept
<1> QED BY <1>1, <1>2, <1>3, <1>4, <1>5 DEF TableKept

\* SetMounted keeps the invariant.
LEMMA SetMountedStep ==
  ASSUME TableInv, NEW p \in Path, SetMounted(p)
  PROVE  TableInv'
<1> USE MountsListAssumption DEF TableInv, TypeOK
<1>1. ControlType'
  BY DEF SetMounted, RequestStep, ControlType, Kind, NoKind, Idle
<1>2. TableKept /\ \A f \in Flag : Keeps(f)
  BY AddEffect DEF SetMounted
<1>3. RefCovers'
  BY <1>1, <1>2 DEF SetMounted, RequestStep, RefCovers, References, ScanHolds,
     ExitHolds, One, Listed, TableType, ControlType, TableKept, Balanced
<1>4. SubmountListed' /\ MountedListed'
  BY <1>1, <1>2 DEF SetMounted, RequestStep, SubmountListed, MountedListed,
     ListsMatch, RequestAlone, ExitAlone, UmountAlone, Expiring, TableType,
     ControlType, Kind, NoKind, Idle, NoExit, TableKept, Flag, Keeps,
     AddMount, Get
<1>5. RequestAlone' /\ ExitAlone' /\ UmountAlone'
  BY <1>1, <1>2 DEF SetMounted, RequestStep, SubmountListed, ListsMatch,
     RequestAlone, ExitAlone, UmountAlone, Expiring, TableType, ControlType,
     Kind, NoKind, Idle, NoExit, TableKept, Flag, Keeps, AddMount, Get
<1> QED BY <1>1, <1>2, <1>3, <1>4, <1>5 DEF TableKept

\* ManualUmount keeps the invariant.
LEMMA ManualUmountStep ==
  ASSUME TableInv, NEW p \in Path, ManualUmount(p)
  PROVE  TableInv'
<1> USE MountsListAssumption DEF TableInv, TypeOK
<1>1. ControlType'
  BY DEF ManualUmount, RequestStep, ControlType, Kind, NoKind, Idle
<1>2. TableKept /\ flags' = flags /\ ref' = ref
  BY SameTable DEF ManualUmount
<1>3. RefCovers'
  BY <1>1, <1>2 DEF ManualUmount, RequestStep, RefCovers, References,
     ScanHolds, ExitHolds, One, Listed, TableType, ControlType, TableKept,
     Balanced
<1>4. SubmountListed' /\ MountedListed'
  BY <1>1, <1>2 DEF ManualUmount, RequestStep, SubmountListed, MountedListed,
     ListsMatch, RequestAlone, ExitAlone, UmountAlone, Expiring, TableType,
     ControlType, Kind, NoKind, Idle, NoExit, TableKept
<1>5. RequestAlone' /\ ExitAlone' /\ UmountAlone'
  BY <1>1, <1>2 DEF ManualUmount, RequestStep, SubmountListed, ListsMatch,
     RequestAlone, ExitAlone, UmountAlone, Expiring, TableType, ControlType,
     Kind, NoKind, Idle, NoExit, TableKept
<1> QED BY <1>1, <1>2, <1>3, <1>4, <1>5 DEF TableKept

\* ExitUmount keeps the invariant.
LEMMA ExitUmountStep ==
  ASSUME TableInv, NEW p \in Path, ExitUmount(p)
  PROVE  TableInv'
<1> USE MountsListAssumption DEF TableInv, TypeOK
<1>1. ControlType'
  BY DEF ExitUmount, ExitStep, MasterFree, ControlType, NoExit
<1>2. TableKept /\ flags' = flags /\ ref' = ref
  BY SameTable DEF ExitUmount
<1>3. RefCovers'
  BY <1>1, <1>2 DEF ExitUmount, ExitStep, MasterFree, RefCovers, References,
     ScanHolds, ExitHolds, One, Listed, TableType, ControlType, NoExit,
     TableKept, Balanced
<1>4. SubmountListed' /\ MountedListed'
  BY <1>1, <1>2 DEF ExitUmount, ExitStep, MasterFree, SubmountListed,
     MountedListed, ListsMatch, RequestAlone, ExitAlone, TableType,
     ControlType, NoExit, TableKept
<1>5. RequestAlone' /\ ExitAlone' /\ UmountAlone'
  BY <1>1, <1>2 DEF ExitUmount, ExitStep, MasterFree, SubmountListed,
     ListsMatch, RequestAlone, ExitAlone, UmountAlone, Expiring, TableType,
     ControlType, NoExit, TableKept
<1> QED BY <1>1, <1>2, <1>3, <1>4, <1>5 DEF TableKept

\* ExitRemoveSubmount keeps the invariant.
LEMMA ExitRemoveSubmountStep ==
  ASSUME TableInv, NEW p \in Path, ExitRemoveSubmount(p)
  PROVE  TableInv'
<1> USE MountsListAssumption DEF TableInv, TypeOK
<1>1. ControlType'
  BY DEF ExitRemoveSubmount, ExitStep, ExitAt, ExitGoes, ControlType, NoExit
<1>2. TableKept /\ Loses(p, "AUTOFS")
  BY RemoveEffect DEF ExitRemoveSubmount
<1>3. RefCovers'
  BY <1>1, <1>2 DEF ExitRemoveSubmount, ExitStep, ExitAt, ExitGoes, RefCovers,
     References, ScanHolds, ExitHolds, One, Listed, TableType, ControlType,
     NoExit, TableKept, Balanced
<1>4. SubmountListed' /\ MountedListed'
  BY <1>1, <1>2 DEF ExitRemoveSubmount, ExitStep, ExitAt, ExitGoes,
     SubmountListed, MountedListed, ListsMatch, RequestAlone, ExitAlone,
     TableType, ControlType, NoExit, TableKept, Flag, Keeps, Loses
<1>5. RequestAlone' /\ ExitAlone' /\ UmountAlone'
  BY <1>1, <1>2 DEF ExitRemoveSubmount, ExitStep, ExitAt, ExitGoes,
     SubmountListed, ListsMatch, RequestAlone, ExitAlone, UmountAlone,
     Expiring, TableType, ControlType, NoExit, TableKept, Flag, Keeps, Loses
<1> QED BY <1>1, <1>2, <1>3, <1>4, <1>5 DEF TableKept

\* ExitRemoveMount keeps the invariant.
LEMMA ExitRemoveMountStep ==
  ASSUME TableInv, NEW p \in Path, ExitRemoveMount(p)
  PROVE  TableInv'
<1> USE MountsListAssumption DEF TableInv, TypeOK
<1>1. ControlType'
  BY DEF ExitRemoveMount, ExitStep, ExitAt, ExitGoes, ControlType, NoExit
<1>2. TableKept /\ Loses(p, "MOUNTED")
  BY RemoveEffect DEF ExitRemoveMount
<1>3. RefCovers'
  BY <1>1, <1>2 DEF ExitRemoveMount, ExitStep, ExitAt, ExitGoes, RefCovers,
     References, ScanHolds, ExitHolds, One, Listed, TableType, ControlType,
     NoExit, TableKept, Balanced
<1>4. SubmountListed' /\ MountedListed'
  BY <1>1, <1>2 DEF ExitRemoveMount, ExitStep, ExitAt, ExitGoes,
     SubmountListed, MountedListed, ListsMatch, RequestAlone, ExitAlone,
     TableType, ControlType, NoExit, TableKept, Flag, Keeps, Loses
<1>5. RequestAlone' /\ ExitAlone' /\ UmountAlone'
  BY <1>1, <1>2 DEF ExitRemoveMount, ExitStep, ExitAt, ExitGoes,
     SubmountListed, ListsMatch, RequestAlone, ExitAlone, UmountAlone,
     Expiring, TableType, ControlType, NoExit, TableKept, Flag, Keeps, Loses
<1> QED BY <1>1, <1>2, <1>3, <1>4, <1>5 DEF TableKept

\* ExitFindAmd keeps the invariant.
LEMMA ExitFindAmdStep ==
  ASSUME TableInv, NEW p \in Path, ExitFindAmd(p)
  PROVE  TableInv'
<1> USE MountsListAssumption DEF TableInv, TypeOK
<1>1. ControlType'
  BY DEF ExitFindAmd, ExitStep, ExitAt, ExitGoes, ControlType, NoExit
<1>2. TableType' /\ ListsMatch' /\ flags' = flags
  BY HoldEffect, SameTable DEF ExitFindAmd, TableKept
<1>3. RefCovers'
  BY <1>1, <1>2 DEF ExitFindAmd, ExitStep, ExitAt, ExitGoes, RefCovers,
     References, ScanHolds, ExitHolds, One, Listed, TableType, ControlType,
     NoExit, Hold, Release, Get, Put, table
<1>4. SubmountListed' /\ MountedListed'
  BY <1>1, <1>2 DEF ExitFindAmd, ExitStep, ExitAt, ExitGoes, SubmountListed,
     MountedListed, ListsMatch, RequestAlone, ExitAlone, TableType,
     ControlType, NoExit
<1>5. RequestAlone' /\ ExitAlone' /\ UmountAlone'
  BY <1>1, <1>2 DEF ExitFindAmd, ExitStep, ExitAt, ExitGoes, SubmountListed,
     ListsMatch, RequestAlone, ExitAlone, UmountAlone, Expiring, TableType,
     ControlType, NoExit
<1> QED BY <1>1, <1>2, <1>3, <1>4, <1>5

\* ExitRemoveAmd keeps the invariant.
LEMMA ExitRemoveAmdStep ==
  ASSUME TableInv, NEW p \in Path, ExitRemoveAmd(p)
  PROVE  TableInv'
<1> USE MountsListAssumption DEF TableInv, TypeOK
<1>1. ControlType'
  BY DEF ExitRemoveAmd, ExitStep, ExitAt, ExitGoes, ControlType, NoExit
<1>2. TableKept /\ Loses(p, "AMD")
  BY RemoveEffect DEF ExitRemoveAmd
<1>3. RefCovers'
  BY <1>1, <1>2 DEF ExitRemoveAmd, ExitStep, ExitAt, ExitGoes, RefCovers,
     References, ScanHolds, ExitHolds, One, Listed, TableType, ControlType,
     NoExit, TableKept, Balanced
<1>4. SubmountListed' /\ MountedListed'
  BY <1>1, <1>2 DEF ExitRemoveAmd, ExitStep, ExitAt, ExitGoes, SubmountListed,
     MountedListed, ListsMatch, RequestAlone, ExitAlone, TableType,
     ControlType, NoExit, TableKept, Flag, Keeps, Loses
<1>5. RequestAlone' /\ ExitAlone' /\ UmountAlone'
  BY <1>1, <1>2 DEF ExitRemoveAmd, ExitStep, ExitAt, ExitGoes, SubmountListed,
     ListsMatch, RequestAlone, ExitAlone, UmountAlone, Expiring, TableType,
     ControlType, NoExit, TableKept, Flag, Keeps, Loses
<1> QED BY <1>1, <1>2, <1>3, <1>4, <1>5 DEF TableKept

\* ExitPutAmd keeps the invariant.
LEMMA ExitPutAmdStep ==
  ASSUME TableInv, NEW p \in Path, ExitPutAmd(p)
  PROVE  TableInv'
<1> USE MountsListAssumption DEF TableInv, TypeOK
<1>1. ControlType'
  BY DEF ExitPutAmd, ExitStep, ExitAt, ExitGoes, ControlType, NoExit
<1>2. TableType' /\ ListsMatch' /\ flags' = flags
      /\ ref' = [ref EXCEPT ![p] = @ - 1]
  BY ReleaseEffect DEF ExitPutAmd, ExitAt, ExitHolds, One
<1>3. RefCovers'
  BY <1>1, <1>2 DEF ExitPutAmd, ExitStep, ExitAt, ExitGoes, RefCovers,
     References, ScanHolds, ExitHolds, One, Listed, TableType, ControlType,
     NoExit
<1>4. SubmountListed' /\ MountedListed'
  BY <1>1, <1>2 DEF ExitPutAmd, ExitStep, ExitAt, ExitGoes, SubmountListed,
     MountedListed, ListsMatch, RequestAlone, ExitAlone, TableType,
     ControlType, NoExit
<1>5. RequestAlone' /\ ExitAlone' /\ UmountAlone'
  BY <1>1, <1>2 DEF ExitPutAmd, ExitStep, ExitAt, ExitGoes, SubmountListed,
     ListsMatch, RequestAlone, ExitAlone, UmountAlone, Expiring, TableType,
     ControlType, NoExit
<1> QED BY <1>1, <1>2, <1>3, <1>4, <1>5

\* ExitUnlock keeps the invariant.
LEMMA ExitUnlockStep ==
  ASSUME TableInv, NEW p \in Path, ExitUnlock(p)
  PROVE  TableInv'
<1> USE MountsListAssumption DEF TableInv, TypeOK
<1>1. ControlType'
  BY DEF ExitUnlock, ExitStep, ExitAt, ControlType, NoExit
<1>2. TableKept /\ flags' = flags /\ ref' = ref
  BY SameTable DEF ExitUnlock
<1>3. RefCovers'
  BY <1>1, <1>2 DEF ExitUnlock, ExitStep, ExitAt, RefCovers, References,
     ScanHolds, ExitHolds, One, Listed, TableType, ControlType, NoExit,
     TableKept, Balanced
<1>4. SubmountListed' /\ MountedListed'
  BY <1>1, <1>2 DEF ExitUnlock, ExitStep, ExitAt, SubmountListed,
     MountedListed, ListsMatch, RequestAlone, ExitAlone, TableType,
     ControlType, NoExit, TableKept
<1>5. RequestAlone' /\ ExitAlone' /\ UmountAlone'
  BY <1>1, <1>2 DEF ExitUnlock, ExitStep, ExitAt, SubmountListed, ListsMatch,
     RequestAlone, ExitAlone, UmountAlone, Expiring, TableType, ControlType,
     NoExit, TableKept
<1> QED BY <1>1, <1>2, <1>3, <1>4, <1>5 DEF TableKept

\* NothingExpired keeps the invariant.
LEMMA NothingExpiredStep ==
  ASSUME TableInv, NEW p \in Path, NothingExpired(p)
  PROVE  TableInv'
<1> USE MountsListAssumption DEF TableInv, TypeOK
<1>1. ControlType'
  BY DEF NothingExpired, ScanStep, ControlType, ScanState, ScanPc
<1>2. TableKept /\ flags' = flags /\ ref' = ref
  BY SameTable DEF NothingExpired
<1>3. RefCovers'
  BY <1>1, <1>2 DEF NothingExpired, ScanStep, RefCovers, References, ScanHolds,
     ExitHolds, One, Listed, TableType, ControlType, ScanState, TableKept,
     Balanced
<1>4. SubmountListed' /\ MountedListed'
  BY <1>1, <1>2 DEF NothingExpired, ScanStep, SubmountListed, MountedListed,
     ListsMatch, RequestAlone, UmountAlone, Expiring, TableType, ControlType,
     NoExit, TableKept
<1>5. RequestAlone' /\ ExitAlone' /\ UmountAlone'
  BY <1>1, <1>2 DEF NothingExpired, ScanStep, SubmountListed, ListsMatch,
     RequestAlone, ExitAlone, UmountAlone, Expiring, TableType, ControlType,
     ScanState, NoExit, TableKept
<1> QED BY <1>1, <1>2, <1>3, <1>4, <1>5 DEF TableKept

\* Umount keeps the invariant.
LEMMA UmountStep ==
  ASSUME TableInv, NEW p \in Path, Umount(p)
  PROVE  TableInv'
<1> USE MountsListAssumption DEF TableInv, TypeOK
<1>1. ControlType'
  BY DEF Umount, ScanStep, ControlType, ScanState, ScanPc, Idle
<1>2. TableKept /\ flags' = flags /\ ref' = ref
  BY SameTable DEF Umount
<1>3. RefCovers'
  BY <1>1, <1>2 DEF Umount, ScanStep, RefCovers, References, ScanHolds,
     ExitHolds, One, Listed, TableType, ControlType, ScanState, TableKept,
     Balanced
<1>4. SubmountListed' /\ MountedListed'
  BY <1>1, <1>2 DEF Umount, ScanStep, SubmountListed, MountedListed,
     ListsMatch, RequestAlone, UmountAlone, Expiring, TableType, ControlType,
     Idle, NoExit, TableKept
<1>5. RequestAlone' /\ ExitAlone' /\ UmountAlone'
  BY <1>1, <1>2 DEF Umount, ScanStep, SubmountListed, ListsMatch,
     RequestAlone, ExitAlone, UmountAlone, Expiring, TableType, ControlType,
     ScanState, Idle, NoExit, TableKept
<1> QED BY <1>1, <1>2, <1>3, <1>4, <1>5 DEF TableKept

\* UmountRemoveMount keeps the invariant.
LEMMA UmountRemoveMountStep ==
  ASSUME TableInv, NEW p \in Path, UmountRemoveMount(p)
  PROVE  TableInv'
<1> USE MountsListAssumption DEF TableInv, TypeOK
<1>0. /\ scan'.list = scan.list
      /\ \/ scan'.pc = "visit" /\ scan'.path = NoPath
         \/ scan'.pc = "amd" /\ scan'.path = p
  BY DEF UmountRemoveMount, ScanStep, ScanAt, ScanGoes, ScanReturns,
     ControlType, ScanState
<1>1. ControlType'
  BY ScanMoves DEF UmountRemoveMount, ScanStep, ScanAt, ControlType, ScanPc
<1>2. TableKept /\ Loses(p, "MOUNTED")
  BY RemoveEffect DEF UmountRemoveMount
<1>3. RefCovers'
  BY <1>0, <1>1, <1>2 DEF UmountRemoveMount, ScanStep, ScanAt, RefCovers,
     References, ScanHolds, ExitHolds, One, Listed, TableType, ControlType,
     ScanState, TableKept, Balanced
<1>4. SubmountListed' /\ MountedListed'
  BY <1>1, <1>2 DEF UmountRemoveMount, ScanStep, ScanAt, SubmountListed,
     MountedListed, ListsMatch, RequestAlone, UmountAlone, Expiring,
     TableType, ControlType, NoExit, TableKept, Flag, Keeps, Loses
<1>5. RequestAlone' /\ ExitAlone' /\ UmountAlone'
  BY <1>0, <1>1, <1>2 DEF UmountRemoveMount, ScanStep, ScanAt, SubmountListed,
     ListsMatch, RequestAlone, ExitAlone, UmountAlone, Expiring, TableType,
     ControlType, ScanState, NoExit, TableKept, Flag, Keeps, Loses
<1> QED BY <1>1, <1>2, <1>3, <1>4, <1>5 DEF TableKept

\* UmountFindAmd keeps the invariant.
LEMMA UmountFindAmdStep ==
  ASSUME TableInv, NEW p \in Path, UmountFindAmd(p)
  PROVE  TableInv'
<1> USE MountsListAssumption DEF TableInv, TypeOK
<1>0. /\ scan'.list = scan.list
      /\ \/ scan'.pc = "visit" /\ scan'.path = NoPath /\ UNCHANGED table
         \/ scan'.pc = "rm" /\ scan'.path = p /\ UNCHANGED table
         \/ scan'.pc = "amdrm" /\ scan'.path = p /\ Hold(p)
  BY DEF UmountFindAmd, ScanStep, ScanAt, ScanGoes, ScanReturns, UmountNext,
     ControlType, ScanState
<1>1. ControlType'
  BY ScanMoves DEF UmountFindAmd, ScanStep, ScanAt, UmountNext, ControlType,
     ScanPc
<1>2. TableType' /\ ListsMatch' /\ flags' = flags
  BY HoldEffect, SameTable DEF UmountFindAmd, TableKept
<1>3. RefCovers'
  BY <1>0, <1>1, <1>2 DEF UmountFindAmd, ScanStep, ScanAt, RefCovers,
     References, ScanHolds, ExitHolds, One, Listed, TableType, ControlType,
     ScanState, Hold, Release, Get, Put, table
<1>4. SubmountListed' /\ MountedListed'
  BY <1>1, <1>2 DEF UmountFindAmd, ScanStep, ScanAt, SubmountListed,
     MountedListed, ListsMatch, RequestAlone, UmountAlone, Expiring,
     TableType, ControlType, NoExit
<1>5. RequestAlone' /\ ExitAlone' /\ UmountAlone'
  BY <1>0, <1>1, <1>2 DEF UmountFindAmd, ScanStep, ScanAt, SubmountListed,
     ListsMatch, RequestAlone, ExitAlone, UmountAlone, Expiring, TableType,
     ControlType, ScanState, NoExit
<1> QED BY <1>1, <1>2, <1>3, <1>4, <1>5

\* UmountRemoveAmd keeps the invariant.
LEMMA UmountRemoveAmdStep ==
  ASSUME TableInv, NEW p \in Path, UmountRemoveAmd(p)
  PROVE  TableInv'
<1> USE MountsListAssumption DEF TableInv, TypeOK
<1>1. ControlType'
  BY ScanMoves DEF UmountRemoveAmd, ScanStep, ScanAt, ControlType, ScanPc
<1>2. TableKept /\ Loses(p, "AMD")
  BY RemoveEffect DEF UmountRemoveAmd
<1>3. RefCovers'
  BY <1>1, <1>2 DEF UmountRemoveAmd, ScanStep, ScanAt, ScanGoes, RefCovers,
     References, ScanHolds, ExitHolds, One, Listed, TableType, ControlType,
     ScanState, TableKept, Balanced
<1>4. SubmountListed' /\ MountedListed'
  BY <1>1, <1>2 DEF UmountRemoveAmd, ScanStep, ScanAt, ScanGoes,
     SubmountListed, MountedListed, ListsMatch, RequestAlone, UmountAlone,
     Expiring, TableType, ControlType, NoExit, TableKept, Flag, Keeps, Loses
<1>5. RequestAlone' /\ ExitAlone' /\ UmountAlone'
  BY <1>1, <1>2 DEF UmountRemoveAmd, ScanStep, ScanAt, ScanGoes,
     SubmountListed, ListsMatch, RequestAlone, ExitAlone, UmountAlone,
     Expiring, TableType, ControlType, ScanState, NoExit, TableKept, Flag,
     Keeps, Loses
<1> QED BY <1>1, <1>2, <1>3, <1>4, <1>5 DEF TableKept

\* UmountPutAmd keeps the invariant.
LEMMA UmountPutAmdStep ==
  ASSUME TableInv, NEW p \in Path, UmountPutAmd(p)
  PROVE  TableInv'
<1> USE MountsListAssumption DEF TableInv, TypeOK
<1>0. /\ scan'.list = scan.list
      /\ \/ scan'.pc = "visit" /\ scan'.path = NoPath
         \/ scan'.pc = "rm" /\ scan'.path = p
  BY DEF UmountPutAmd, ScanStep, ScanAt, ScanGoes, ScanReturns, UmountNext,
     ControlType, ScanState
<1>1. ControlType'
  BY ScanMoves DEF UmountPutAmd, ScanStep, ScanAt, UmountNext, ControlType,
     ScanPc
<1>2. TableType' /\ ListsMatch' /\ flags' = flags
      /\ ref' = [ref EXCEPT ![p] = @ - 1]
  BY ReleaseEffect DEF UmountPutAmd, ScanAt, ScanHolds, One
<1>3. RefCovers'
  BY <1>0, <1>1, <1>2 DEF UmountPutAmd, ScanStep, ScanAt, RefCovers,
     References, ScanHolds, ExitHolds, One, Listed, TableType, ControlType,
     ScanState
<1>4. SubmountListed' /\ MountedListed'
  BY <1>1, <1>2 DEF UmountPutAmd, ScanStep, ScanAt, SubmountListed,
     MountedListed, ListsMatch, RequestAlone, UmountAlone, Expiring,
     TableType, ControlType, NoExit
<1>5. RequestAlone' /\ ExitAlone' /\ UmountAlone'
  BY <1>0, <1>1, <1>2 DEF UmountPutAmd, ScanStep, ScanAt, SubmountListed,
     ListsMatch, RequestAlone, ExitAlone, UmountAlone, Expiring, TableType,
     ControlType, ScanState, NoExit
<1> QED BY <1>1, <1>2, <1>3, <1>4, <1>5

\* NotifyFind keeps the invariant.
LEMMA NotifyFindStep ==
  ASSUME TableInv, NEW p \in Path, NotifyFind(p)
  PROVE  TableInv'
<1> USE MountsListAssumption DEF TableInv, TypeOK
<1>1. ControlType'
  BY DEF NotifyFind, ScanStep, ControlType, ScanState, ScanPc
<1>2. TableType' /\ ListsMatch' /\ flags' = flags
      /\ ref' = [ref EXCEPT ![p] = @ + 1]
  BY HoldEffect DEF NotifyFind
<1>3. RefCovers'
  BY <1>1, <1>2 DEF NotifyFind, ScanStep, RefCovers, References, ScanHolds,
     ExitHolds, One, Listed, TableType, ControlType, ScanState
<1>4. SubmountListed' /\ MountedListed'
  BY <1>1, <1>2 DEF NotifyFind, ScanStep, SubmountListed, MountedListed,
     ListsMatch, RequestAlone, UmountAlone, Expiring, TableType, ControlType,
     NoExit
<1>5. RequestAlone' /\ ExitAlone' /\ UmountAlone'
  BY <1>1, <1>2 DEF NotifyFind, ScanStep, SubmountListed, ListsMatch,
     RequestAlone, ExitAlone, UmountAlone, Expiring, TableType, ControlType,
     ScanState, NoExit
<1> QED BY <1>1, <1>2, <1>3, <1>4, <1>5

\* NotifyTask keeps the invariant.
LEMMA NotifyTaskStep ==
  ASSUME TableInv, NEW p \in Path, NotifyTask(p)
  PROVE  TableInv'
<1> USE MountsListAssumption DEF TableInv, TypeOK
<1>0. \/ scan' = scan
      \/ /\ scan'.list = scan.list
         /\ \/ scan'.pc = "visit" /\ scan'.path = NoPath
            \/ scan'.pc = "wait" /\ scan'.path = p
  BY DEF NotifyTask, ScanStep, ScanAt, ScanGoes, ScanReturns, ControlType,
     ScanState
<1>1. ControlType'
  BY ScanMoves DEF NotifyTask, ScanStep, ScanAt, ControlType, ScanPc
<1>2. TableKept /\ flags' = flags /\ ref' = ref
  BY SameTable DEF NotifyTask
<1>3. RefCovers'
  BY <1>0, <1>1, <1>2 DEF NotifyTask, ScanStep, ScanAt, RefCovers, References,
     ScanHolds, ExitHolds, One, Listed, TableType, ControlType, ScanState,
     TableKept, Balanced
<1>4. SubmountListed' /\ MountedListed'
  BY <1>1, <1>2 DEF NotifyTask, ScanStep, ScanAt, SubmountListed,
     MountedListed, ListsMatch, RequestAlone, UmountAlone, Expiring,
     TableType, ControlType, NoExit, TableKept
<1>5. RequestAlone' /\ ExitAlone' /\ UmountAlone'
  BY <1>0, <1>1, <1>2 DEF NotifyTask, ScanStep, ScanAt, SubmountListed,
     ListsMatch, RequestAlone, ExitAlone, UmountAlone, Expiring, TableType,
     ControlType, ScanState, NoExit, TableKept
<1> QED BY <1>1, <1>2, <1>3, <1>4, <1>5 DEF TableKept

\* NotifyLook keeps the invariant.
LEMMA NotifyLookStep ==
  ASSUME TableInv, NEW p \in Path, NotifyLook(p)
  PROVE  TableInv'
<1> USE MountsListAssumption DEF TableInv, TypeOK
<1>1. ControlType'
  BY ScanMoves DEF NotifyLook, ScanStep, ScanAt, ControlType, ScanPc
<1>2. TableType' /\ ListsMatch' /\ flags' = flags
  BY HoldEffect, SameTable DEF NotifyLook, TableKept
<1>3. RefCovers'
  BY <1>1, <1>2 DEF NotifyLook, ScanStep, ScanAt, ScanGoes, RefCovers,
     References, ScanHolds, ExitHolds, One, Listed, TableType, ControlType,
     ScanState, Hold, Release, Get, Put, table
<1>4. SubmountListed' /\ MountedListed'
  BY <1>1, <1>2 DEF NotifyLook, ScanStep, ScanAt, ScanGoes, SubmountListed,
     MountedListed, ListsMatch, RequestAlone, UmountAlone, Expiring,
     TableType, ControlType, NoExit
<1>5. RequestAlone' /\ ExitAlone' /\ UmountAlone'
  BY <1>1, <1>2 DEF NotifyLook, ScanStep, ScanAt, ScanGoes, SubmountListed,
     ListsMatch, RequestAlone, ExitAlone, UmountAlone, Expiring, TableType,
     ControlType, ScanState, NoExit
<1> QED BY <1>1, <1>2, <1>3, <1>4, <1>5

\* NotifyState keeps the invariant.
LEMMA NotifyStateStep ==
  ASSUME TableInv, NEW p \in Path, NotifyState(p)
  PROVE  TableInv'
<1> USE MountsListAssumption DEF TableInv, TypeOK
<1>1. ControlType'
  BY ScanMoves DEF NotifyState, ScanStep, ScanAt, ControlType, ScanPc
<1>2. TableType' /\ ListsMatch' /\ flags' = flags
  BY ReleaseEffect, SameTable DEF NotifyState, TableKept, ScanAt, ScanHolds,
     One
<1>3. RefCovers'
  BY <1>1, <1>2 DEF NotifyState, ScanStep, ScanAt, ScanGoes, RefCovers,
     References, ScanHolds, ExitHolds, One, Listed, TableType, ControlType,
     ScanState, Hold, Release, Get, Put, table
<1>4. SubmountListed' /\ MountedListed'
  BY <1>1, <1>2 DEF NotifyState, ScanStep, ScanAt, ScanGoes, SubmountListed,
     MountedListed, ListsMatch, RequestAlone, UmountAlone, Expiring,
     TableType, ControlType, NoExit
<1>5. RequestAlone' /\ ExitAlone' /\ UmountAlone'
  BY <1>1, <1>2 DEF NotifyState, ScanStep, ScanAt, ScanGoes, SubmountListed,
     ListsMatch, RequestAlone, ExitAlone, UmountAlone, Expiring, TableType,
     ControlType, ScanState, NoExit
<1> QED BY <1>1, <1>2, <1>3, <1>4, <1>5

\* NotifyPut keeps the invariant.
LEMMA NotifyPutStep ==
  ASSUME TableInv, NEW p \in Path, NotifyPut(p)
  PROVE  TableInv'
<1> USE MountsListAssumption DEF TableInv, TypeOK
<1>1. ControlType'
  BY ScanMoves DEF NotifyPut, ScanStep, ScanAt, ControlType, ScanPc
<1>2. TableType' /\ ListsMatch' /\ flags' = flags
      /\ ref' = [ref EXCEPT ![p] = @ - 1]
  BY ReleaseEffect DEF NotifyPut, ScanAt, ScanHolds, One
<1>3. RefCovers'
  BY <1>1, <1>2 DEF NotifyPut, ScanStep, ScanAt, ScanReturns, RefCovers,
     References, ScanHolds, ExitHolds, One, Listed, TableType, ControlType,
     ScanState
<1>4. SubmountListed' /\ MountedListed'
  BY <1>1, <1>2 DEF NotifyPut, ScanStep, ScanAt, ScanReturns, SubmountListed,
     MountedListed, ListsMatch, RequestAlone, UmountAlone, Expiring,
     TableType, ControlType, NoExit
<1>5. RequestAlone' /\ ExitAlone' /\ UmountAlone'
  BY <1>1, <1>2 DEF NotifyPut, ScanStep, ScanAt, ScanReturns, SubmountListed,
     ListsMatch, RequestAlone, ExitAlone, UmountAlone, Expiring, TableType,
     ControlType, ScanState, NoExit
<1> QED BY <1>1, <1>2, <1>3, <1>4, <1>5

\* GetExpireList keeps the invariant.
LEMMA GetExpireListStep ==
  ASSUME TableInv, GetExpireList
  PROVE  TableInv'
<1> USE DEF TableInv, TypeOK, GetExpireList, ScanStep, Resting
<1>1. TypeOK'
  <2>1. TableType'
    BY DEF TableType, lists
  <2>2. ControlType'
    BY MountsListAssumption DEF ControlType, TableType, ScanState,
       ScanPc
  <2> QED BY <2>1, <2>2
<1>2. RefCovers'
  BY DEF RefCovers, References, ScanHolds, ExitHolds, Listed, One, TableType,
     lists
<1>3. ListsMatch' /\ SubmountListed' /\ MountedListed'
  BY DEF ListsMatch, SubmountListed, MountedListed, lists
<1>4. RequestAlone' /\ ExitAlone' /\ UmountAlone'
  BY DEF RequestAlone, ExitAlone, UmountAlone, Expiring
<1> QED BY <1>1, <1>2, <1>3, <1>4

\* PutExpireList keeps the invariant.
LEMMA PutExpireListStep ==
  ASSUME TableInv, PutExpireList
  PROVE  TableInv'
<1> USE DEF TableInv, TypeOK, PutExpireList, ScanStep, Resting
<1>1. ASSUME NEW p \in scan.list
      PROVE  /\ p \in Path /\ ref[p] \in Nat
             /\ ref[p] >= Listed(p) + 1
             /\ flags[p] \subseteq Flag
  BY <1>1 DEF RefCovers, References, ScanHolds, ExitHolds, Listed, One,
     TableType, ControlType, ScanState
<1>2. \A p \in scan.list : ref[p] = 1 => flags[p] = {}
  BY <1>1 DEF Listed, One, Flag
<1>3. flags' = flags
  BY <1>2 DEF TableType
<1>4. TypeOK'
  BY <1>1, <1>3, MountsListAssumption DEF TableType, ControlType, lists, Listed,
     One, ScanState, ScanPc
<1>5. RefCovers'
  BY <1>1, <1>3 DEF RefCovers, References, ScanHolds, ExitHolds, Listed, One,
     TableType, lists
<1>6. ListsMatch' /\ SubmountListed' /\ MountedListed'
  BY <1>3 DEF ListsMatch, SubmountListed, MountedListed, lists
<1>7. RequestAlone' /\ ExitAlone' /\ UmountAlone'
  BY <1>3 DEF RequestAlone, ExitAlone, UmountAlone, Expiring
<1> QED BY <1>4, <1>5, <1>6, <1>7

\* One step of any thread.
LEMMA InvStep ==
  ASSUME TableInv, [Next]_vars
  PROVE  TableInv'
<1>1. CASE UNCHANGED vars
  BY <1>1 DEF vars, table, lists, TableInv, TypeOK, TableType, ControlType,
     RefCovers, References, ScanHolds, ExitHolds, Listed, One, ListsMatch,
     SubmountListed, MountedListed, RequestAlone, ExitAlone, UmountAlone,
     Expiring
<1>2. ASSUME NEW p \in Path, Request(p)
      PROVE  TableInv'
  BY <1>2, MissingStep, ParseAmdStep, MountItStep, ListSubmountStep,
     SetupFailsStep, StartSubmountStep, StartFailsStep, UnlistAmdStep,
     SendFailStep,
     SendReadyStep, SetMountedStep DEF Request
<1>3. ASSUME NEW p \in Path, ManualUmount(p)
      PROVE  TableInv'
  BY <1>3, ManualUmountStep
<1>4. ASSUME NEW p \in Path, Exit(p)
      PROVE  TableInv'
  BY <1>4, ExitUmountStep, ExitRemoveSubmountStep, ExitRemoveMountStep,
     ExitFindAmdStep, ExitRemoveAmdStep, ExitPutAmdStep, ExitUnlockStep DEF
     Exit
<1>5. ASSUME NEW p \in Path, Scan(p)
      PROVE  TableInv'
  BY <1>5, NothingExpiredStep, UmountStep, UmountRemoveMountStep,
     UmountFindAmdStep, UmountRemoveAmdStep, UmountPutAmdStep, NotifyFindStep,
     NotifyTaskStep, NotifyLookStep, NotifyStateStep, NotifyPutStep DEF Scan
<1> QED BY <1>1, <1>2, <1>3, <1>4, <1>5, GetExpireListStep, PutExpireListStep
        DEF Next

-----------------------------------------------------------------------------
\* The table of mounts stays in order for any number of paths, whatever the
\* requests, the expire thread and the submounts do: TableInv always holds.
THEOREM TableCorrect == Spec => []TableInv
<1>1. ASSUME Init
      PROVE  TableInv
  <2> USE <1>1 DEF Init
  <2>1. TableType
    BY DEF TableType
  <2>2. ControlType
    BY MountsListAssumption DEF ControlType, Kind, NoKind, Idle, Resting, NoExit,
       ScanState, ScanPc
  <2>3. RefCovers
    BY MountsListAssumption DEF RefCovers, References, ScanHolds, ExitHolds,
       Listed, One, Resting, NoExit
  <2>4. ListsMatch /\ SubmountListed /\ MountedListed
    BY DEF ListsMatch, SubmountListed, MountedListed
  <2>5. RequestAlone /\ ExitAlone /\ UmountAlone
    BY MountsListAssumption DEF RequestAlone, ExitAlone, UmountAlone, Expiring,
       Idle, Resting, NoExit
  <2> QED BY <2>1, <2>2, <2>3, <2>4, <2>5 DEF TableInv, TypeOK
<1> QED BY <1>1, InvStep, PTL DEF Spec

\* No entry is freed while a list, the expire thread or the cleanup of a
\* submount still has it.
THEOREM RefsCover == Spec => []RefCovers
<1>1. TableInv => RefCovers
  BY DEF TableInv
<1> QED BY <1>1, TableCorrect, PTL

\* A running submount is on its parent's list: the master mutex keeps the
\* cleanup of an earlier submount at the path from taking it off.
THEOREM SubmountsListed == Spec => []SubmountListed
<1>1. TableInv => SubmountListed
  BY DEF TableInv
<1> QED BY <1>1, TableCorrect, PTL

\* What is mounted is on the expire list once its request thread is done.
THEOREM MountsListed == Spec => []MountedListed
<1>1. TableInv => MountedListed
  BY DEF TableInv
<1> QED BY <1>1, TableCorrect, PTL
=============================================================================
