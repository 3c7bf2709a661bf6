--------------------------- MODULE VmListRefinement ---------------------------
(***************************************************************************)
(* VmList implements the part of Balloon that is about the list, the       *)
(* connection and the domains: every step of the event thread, of libvirtd *)
(* and of the machines is, under the mapping of VmListController, a step   *)
(* of Balloon or leaves all that Balloon sees alone.                       *)
(***************************************************************************)
EXTENDS VmListProofs, VmListController

(* g_libvirtChange is used after SemPost only, and a thread that has left  *)
(* ConnectLibvirt has a connection, be it dead.                            *)
Announced ==
  /\ change => initFlag
  /\ conn = "null" => pc = "connect"

RInv == IInv /\ Announced

(* What Balloon sees of the connection. *)
LEMMA ConnIs ==
  ASSUME NEW told \in BOOLEAN, NEW c \in {"null", "up", "dead"},
         NEW at \in PcStates
  PROVE  /\ ~told \/ c = "null" => ConnOf(told, c, at) = "null"
         /\ told /\ c = "up" /\ at \notin Built => ConnOf(told, c, at) = "fresh"
         /\ told /\ c = "up" /\ at \in Built => ConnOf(told, c, at) = "up"
         /\ told /\ c = "dead" /\ at \in Built => ConnOf(told, c, at) = "dead"
         /\ told /\ c = "dead" /\ at \in {"register", "free"} =>
              ConnOf(told, c, at) = "lost"
         /\ told /\ c = "dead" /\ at \in {"cleanup", "connect"} =>
              ConnOf(told, c, at) = "closing"
BY DEF ConnOf, Built, PcStates

(* The types of what it is made of. *)
LEMMA ConnTypes ==
  ASSUME RInv
  PROVE  /\ initFlag \in BOOLEAN /\ conn \in {"null", "up", "dead"}
         /\ pc \in PcStates
         /\ conn = "null" => pc = "connect"
BY DEF RInv, IInv, TypeOK, Announced

LEMMA ListIs ==
  /\ ~initFlag => ListSeen = {}
  /\ initFlag => ListSeen = {m.domid : m \in vmlist}
BY DEF ListSeen

(* The records of the machines do not change. *)
LEMMA SameRecords == UNCHANGED <<VmSeen, GuestSeen>>
BY DEF VmSeen, GuestSeen, AddedVM, WholeGuest

(* A step that Balloon does not see. *)
LEMMA Unseen ==
  ASSUME ListSeen' = ListSeen, ConnSeen' = ConnSeen, ChangeSeen' = ChangeSeen,
         initFlag' = initFlag, ActiveIds' = ActiveIds
  PROVE  UNCHANGED Controller!vars
<1>1. StatSeen' = StatSeen BY DEF StatSeen, SizeRead
<1>2. PcSeen' = PcSeen /\ MainSeen' = MainSeen BY DEF PcSeen, MainSeen
<1> QED BY <1>1, <1>2, SameRecords
        DEF Controller!vars, Controller!daemonVars, Controller!envVars

(* A step of the event thread that changes at most what Balloon calls conn. *)
LEMMA OnlyConn ==
  ASSUME ListSeen' = ListSeen, ChangeSeen' = ChangeSeen, initFlag' = initFlag,
         ActiveIds' = ActiveIds
  PROVE  UNCHANGED <<ListSeen, VmSeen, StatSeen, ChangeSeen, PcSeen, {}, FALSE,
                     MainSeen, Controller!envVars>>
<1>1. StatSeen' = StatSeen BY DEF StatSeen, SizeRead
<1>2. PcSeen' = PcSeen /\ MainSeen' = MainSeen BY DEF PcSeen, MainSeen
<1> QED BY <1>1, <1>2, SameRecords DEF Controller!envVars

(* The daemon runs once the main thread has been told. *)
LEMMA RunningIs ==
  ASSUME initFlag
  PROVE  /\ Controller!Running /\ Controller!LockFree /\ MainSeen = "run"
BY DEF Controller!Running, Controller!LockFree, MainSeen, PcSeen

------------------------------------------------------------------------------
(* libvirtd and the machines. *)

LEMMA StartsStep ==
  ASSUME RInv, NEW n \in Names, MachineStarts(n)
  PROVE  Controller!Next
<1>1. /\ active[n] = 0 /\ nextId \in Domids /\ nextId # 0
      /\ active' = [active EXCEPT ![n] = nextId]
      /\ UNCHANGED <<vmlist, pc, initFlag, change, conn>>
  BY DEF MachineStarts, threadVars, readyVars, Domids
<1>2. \A o \in Names : active'[o] = IF o = n THEN nextId ELSE active[o]
  BY <1>1 DEF RInv, IInv, TypeOK
<1>3. ActiveIds' = ActiveIds \cup {nextId}
  BY <1>1, <1>2 DEF ActiveIds
<1>4. nextId \notin ActiveIds \cup ListSeen
  <2>1. nextId \notin ActiveIds BY DEF RInv, IInv, TypeOK, Ids, ActiveIds
  <2>2. \A m \in vmlist : m.domid < nextId /\ m.domid \in Nat
    BY DEF RInv, IInv, TypeOK, Ids, Dated, Entry, Domids
  <2>3. nextId \notin ListSeen BY <1>1, <2>2 DEF ListSeen, Domids
  <2> QED BY <2>1, <2>3
<1>5. UNCHANGED Controller!daemonVars
  <2>1. ListSeen' = ListSeen /\ ConnSeen' = ConnSeen /\ ChangeSeen' = ChangeSeen
    BY <1>1 DEF ListSeen, ConnSeen, ChangeSeen
  <2>2. StatSeen' = StatSeen BY <2>1 DEF StatSeen, SizeRead
  <2>3. PcSeen' = PcSeen /\ MainSeen' = MainSeen
    BY <1>1 DEF PcSeen, MainSeen
  <2> QED BY <2>1, <2>2, <2>3, SameRecords DEF Controller!daemonVars
<1>6. /\ Memory[nextId] \in Nat /\ Memory[nextId] <= Memory[nextId]
      /\ FALSE \in FprKinds
  <2>1. Memory \in [Domids -> Nat] /\ FALSE \in FprKinds
    BY ControllerAssumption, Zenon
  <2>2. Memory[nextId] \in Nat BY <1>1, <2>1, Zenon
  <2>3. Memory[nextId] <= Memory[nextId] BY <2>2
  <2> QED BY <2>1, <2>2, <2>3, Zenon
<1>7. GuestSeen' = [GuestSeen EXCEPT ![nextId] = WholeGuest(nextId)]
  BY <1>1, SameRecords DEF GuestSeen
<1>8. \E l \in Levels \cup {Memory[nextId]}, f \in FprKinds :
        /\ l <= Memory[nextId]
        /\ GuestSeen' = [GuestSeen EXCEPT ![nextId] =
                           [target |-> l, actual |-> l, stuck |-> FALSE,
                            fpr |-> f, running |-> TRUE]]
  BY <1>6, <1>7 DEF WholeGuest
<1>9. Controller!DomainStart(nextId)
  BY <1>3, <1>4, <1>5, <1>8 DEF Controller!DomainStart
<1> QED BY <1>1, <1>9 DEF Controller!Next, Controller!Normal,
           Controller!Environment

LEMMA StopsStep ==
  ASSUME RInv, NEW n \in Names, MachineStops(n)
  PROVE  Controller!Next
<1> DEFINE d == active[n]
<1>1. /\ d # 0 /\ active' = [active EXCEPT ![n] = 0]
      /\ UNCHANGED <<vmlist, pc, initFlag, change, conn>>
  BY DEF MachineStops, threadVars, readyVars
<1>2. \A o \in Names : active'[o] = IF o = n THEN 0 ELSE active[o]
  BY <1>1 DEF RInv, IInv, TypeOK
<1>3. d \in ActiveIds /\ d \in Domids
  BY <1>1 DEF ActiveIds, RInv, IInv, TypeOK, Domids
<1>4. ActiveIds' = ActiveIds \ {d}
  BY <1>1, <1>2 DEF ActiveIds, RInv, IInv, Ids
<1>5. UNCHANGED Controller!daemonVars
  <2>1. ListSeen' = ListSeen /\ ConnSeen' = ConnSeen /\ ChangeSeen' = ChangeSeen
    BY <1>1 DEF ListSeen, ConnSeen, ChangeSeen
  <2>2. StatSeen' = StatSeen BY <2>1 DEF StatSeen, SizeRead
  <2>3. PcSeen' = PcSeen /\ MainSeen' = MainSeen
    BY <1>1 DEF PcSeen, MainSeen
  <2> QED BY <2>1, <2>2, <2>3, SameRecords DEF Controller!daemonVars
<1>6. GuestSeen' = [GuestSeen EXCEPT ![d] = Controller!FullGuest(d)]
  BY <1>3, SameRecords DEF GuestSeen, WholeGuest, Controller!FullGuest
<1> HIDE DEF d
<1>7. Controller!DomainStop(d)
  BY <1>3, <1>4, <1>5, <1>6 DEF Controller!DomainStop
<1> QED BY <1>3, <1>7 DEF Controller!Next, Controller!Normal,
           Controller!Environment

LEMMA GoneStep ==
  ASSUME RInv, LibvirtdGone
  PROVE  [Controller!Next]_Controller!vars
<1>1. /\ conn = "up" /\ conn' = "dead"
      /\ UNCHANGED <<vmlist, pc, initFlag, change, active>>
  BY DEF LibvirtdGone, threadVars, readyVars
<1>2. /\ ListSeen' = ListSeen /\ ChangeSeen' = ChangeSeen
      /\ ActiveIds' = ActiveIds
  BY <1>1 DEF ListSeen, ChangeSeen, ActiveIds
<1>3. initFlag \in BOOLEAN /\ pc \in PcStates BY ConnTypes
<1>4. ConnSeen = ConnOf(initFlag, "up", pc) /\ ConnSeen' = ConnOf(initFlag, "dead", pc)
  BY <1>1 DEF ConnSeen
<1>5. CASE ~initFlag
  <2>1. ConnSeen' = ConnSeen BY <1>3, <1>4, <1>5, ConnIs
  <2> QED BY <1>1, <1>2, <2>1, Unseen
<1>6. CASE initFlag
  <2>1. \/ ConnSeen = "fresh" /\ ConnSeen' \in {"lost", "closing"}
        \/ ConnSeen = "up" /\ ConnSeen' = "dead"
    <3>1. CASE pc \in Built BY <1>3, <1>4, <1>6, <3>1, ConnIs
    <3>2. CASE pc \notin Built
      <4>1. pc \in {"register", "free"} \/ pc \in {"cleanup", "connect"}
        BY <1>3, <3>2 DEF Built, PcStates
      <4> QED BY <1>3, <1>4, <1>6, <3>2, <4>1, ConnIs
    <3> QED BY <3>1, <3>2
  <2>2. Controller!LibvirtdGone
    BY <1>1, <1>2, <2>1, OnlyConn DEF Controller!LibvirtdGone
  <2> QED BY <2>2 DEF Controller!Next, Controller!Fault
<1> QED BY <1>5, <1>6

------------------------------------------------------------------------------
(* The event thread and its connection. *)

LEMMA ConnectionStep ==
  ASSUME RInv, \/ DropConnection \/ ConnectLibvirt \/ DomainEventsRegister
               \/ NoticeLoss \/ DomainEventsDeregister
  PROVE  [Controller!Next]_Controller!vars
<1>1. /\ UNCHANGED <<vmlist, initFlag, change, active>>
      /\ pc' \in {"connect", "register", "free", "cleanup"}
      /\ pc \in {"connect", "register", "run", "cleanup"}
  BY DEF DropConnection, ConnectLibvirt, DomainEventsRegister, NoticeLoss,
         DomainEventsDeregister, threadVars, readyVars, worldVars
<1>2. /\ ListSeen' = ListSeen /\ ChangeSeen' = ChangeSeen
      /\ ActiveIds' = ActiveIds
  BY <1>1 DEF ListSeen, ChangeSeen, ActiveIds
<1>3. /\ initFlag \in BOOLEAN /\ pc \in PcStates /\ pc' \in PcStates
      /\ conn \in {"null", "up", "dead"}
      /\ conn = "null" => pc = "connect"
  BY <1>1, ConnTypes DEF PcStates
<1>4. /\ ConnSeen = ConnOf(initFlag, conn, pc)
      /\ ConnSeen' = ConnOf(initFlag, conn', pc')
  BY <1>1 DEF ConnSeen
<1>5. /\ {"connect", "register", "free", "cleanup"} \cap Built = {}
      /\ "run" \in Built
  BY DEF Built
<1>6. \/ ConnSeen' = ConnSeen
      \/ initFlag /\ ConnSeen \in {"lost", "dead"} /\ ConnSeen' = "closing"
      \/ initFlag /\ ConnSeen = "closing" /\ ConnSeen' = "null"
      \/ initFlag /\ ConnSeen = "null" /\ ConnSeen' = "fresh"
  <2>1. CASE DropConnection
    BY <1>3, <1>4, <2>1, ConnIs DEF DropConnection, threadVars
  <2>2. CASE ConnectLibvirt
    <3>1. /\ pc = "connect" /\ conn \in {"null", "up"}
          /\ pc' = "register" /\ conn' = "up"
      BY <1>3, <2>2 DEF ConnectLibvirt
    <3> QED BY <1>3, <1>4, <1>5, <3>1, ConnIs
  <2>3. CASE DomainEventsRegister
    <3>1. /\ pc = "register" /\ conn' = conn /\ conn \in {"up", "dead"}
          /\ \/ pc' = "cleanup"
             \/ pc' = "free" /\ conn = "up"
      BY <1>3, <2>3 DEF DomainEventsRegister
    <3> QED BY <1>3, <1>4, <1>5, <3>1, ConnIs
  <2>4. CASE NoticeLoss
    <3>1. pc = "run" /\ conn = "dead" /\ conn' = "dead" /\ pc' = "cleanup"
      BY <2>4 DEF NoticeLoss
    <3> QED BY <1>3, <1>4, <1>5, <3>1, ConnIs
  <2>5. CASE DomainEventsDeregister
    <3>1. pc = "cleanup" /\ conn' = conn /\ pc' = "connect"
      BY <2>5 DEF DomainEventsDeregister
    <3> QED BY <1>3, <1>4, <1>5, <3>1, ConnIs
  <2> QED BY <2>1, <2>2, <2>3, <2>4, <2>5
<1>7. ASSUME initFlag, ConnSeen' # ConnSeen
      PROVE  Controller!Next
  <2>1. CASE ConnSeen \in {"lost", "dead"} /\ ConnSeen' = "closing"
    <3>1. Controller!NoticeLoss
      BY <1>1, <1>2, <1>7, <2>1, OnlyConn, RunningIs DEF Controller!NoticeLoss
    <3> QED BY <3>1 DEF Controller!Next, Controller!Normal, Controller!EventStep
  <2>2. CASE ConnSeen = "closing" /\ ConnSeen' = "null"
    <3>1. Controller!DropConnection
      BY <1>1, <1>2, <1>7, <2>2, OnlyConn, RunningIs
         DEF Controller!DropConnection
    <3> QED BY <3>1 DEF Controller!Next, Controller!Normal, Controller!EventStep
  <2>3. CASE ConnSeen = "null" /\ ConnSeen' = "fresh"
    <3>1. Controller!OpenConnection
      BY <1>1, <1>2, <1>7, <2>3, OnlyConn, RunningIs
         DEF Controller!OpenConnection
    <3> QED BY <3>1 DEF Controller!Next, Controller!Normal, Controller!EventStep
  <2> QED BY <1>6, <1>7, <2>1, <2>2, <2>3
<1> QED BY <1>1, <1>2, <1>6, <1>7, Unseen

------------------------------------------------------------------------------
(* The event thread and the list. *)

(* GetVmInfo writes the size and the state of a machine. *)
LEMMA InfoRead ==
  ASSUME NEW d \in Domids, NEW a, NEW r
  PROVE  Controller!GetVmInfo(SizeRead(a, r), GuestSeen[d])
           = SizeRead(Memory[d], TRUE)
<1>1. GuestSeen[d].actual = Memory[d] /\ GuestSeen[d].running = TRUE
  BY DEF GuestSeen, WholeGuest
<1>2. \A b, q : [SizeRead(a, r) EXCEPT !.currentMem = b, !.running = q]
                = SizeRead(b, q)
  <2> TAKE b, q
  <2>1. \A f : [[currentMem |-> a, running |-> r, enable_fpr |-> f,
                 actualBalloon |-> 0, available |-> 0, usable |-> 0,
                 unused |-> 0] EXCEPT !.currentMem = b]
              = [currentMem |-> b, running |-> r, enable_fpr |-> f,
                 actualBalloon |-> 0, available |-> 0, usable |-> 0,
                 unused |-> 0]
    OBVIOUS
  <2>2. \A f : [[currentMem |-> b, running |-> r, enable_fpr |-> f,
                 actualBalloon |-> 0, available |-> 0, usable |-> 0,
                 unused |-> 0] EXCEPT !.running = q]
              = [currentMem |-> b, running |-> q, enable_fpr |-> f,
                 actualBalloon |-> 0, available |-> 0, usable |-> 0,
                 unused |-> 0]
    OBVIOUS
  <2>3. \A s : [s EXCEPT !.currentMem = b, !.running = q]
              = [[s EXCEPT !.currentMem = b] EXCEPT !.running = q]
    OBVIOUS
  <2> QED BY <2>1, <2>2, <2>3, Zenon DEF SizeRead
<1>3. Controller!GetVmInfo(SizeRead(a, r), GuestSeen[d])
        = SizeRead(GuestSeen[d].actual, GuestSeen[d].running)
  BY <1>2, Zenon DEF Controller!GetVmInfo
<1> QED BY <1>1, <1>3, Zenon

(* A machine of which it is not known that it runs Windows. *)
LEMMA NotWindows ==
  /\ Controller!NewVM = AddedVM
  /\ [Controller!NewVM EXCEPT !.isWindows = FALSE] = AddedVM
<1>1. Controller!NewVM = AddedVM BY DEF Controller!NewVM, AddedVM
<1>2. AddedVM.isWindows = FALSE BY DEF AddedVM
<1>3. [AddedVM EXCEPT !.isWindows = AddedVM.isWindows] = AddedVM
  BY DEF AddedVM
<1> QED BY <1>1, <1>2, <1>3, Zenon

(* The statistics of a machine that is added, and of one that is removed. *)
LEMMA StatChanges ==
  ASSUME NEW d \in Domids
  PROVE  /\ ListSeen' = ListSeen \cup {d} =>
              StatSeen' = [StatSeen EXCEPT ![d] =
                             Controller!GetVmInfo(Controller!NoStat, GuestSeen[d])]
         /\ ListSeen' = ListSeen \ {d} =>
              StatSeen' = [StatSeen EXCEPT ![d] = Controller!NoStat]
<1>1. Controller!NoStat = SizeRead(0, FALSE)
  BY DEF Controller!NoStat, SizeRead
<1>2. Controller!GetVmInfo(Controller!NoStat, GuestSeen[d])
        = SizeRead(Memory[d], TRUE)
  BY <1>1, InfoRead, Zenon
<1>3. \A s, m : /\ ListSeen' = ListSeen \cup {d} /\ s = SizeRead(Memory[d], TRUE)
                   => StatSeen' = [StatSeen EXCEPT ![d] = s]
                /\ ListSeen' = ListSeen \ {d} /\ s = SizeRead(0, FALSE)
                   => StatSeen' = [StatSeen EXCEPT ![d] = s]
  BY DEF StatSeen, SizeRead
<1> QED BY <1>1, <1>2, <1>3

(* FindAddVMToList, on a connection that is up. *)
LEMMA AddStep ==
  ASSUME RInv, NEW d \in Domids, FindAddVMToList(d), pc \in {"add", "run"},
         UNCHANGED <<pc, initFlag, change, conn, active>>
  PROVE  [Controller!Next]_Controller!vars
<1>1. /\ ChangeSeen' = ChangeSeen /\ ActiveIds' = ActiveIds
      /\ ConnSeen' = ConnSeen
  BY DEF ChangeSeen, ActiveIds, ConnSeen
<1>2. CASE vmlist' = vmlist \/ ~initFlag
  <2>1. ListSeen' = ListSeen BY <1>2 DEF ListSeen
  <2> QED BY <1>1, <2>1, Unseen
<1>3. ASSUME initFlag, NEW n \in Names, InitAndCheckVM(d, n), ~InList(d),
             vmlist' = vmlist \cup {[domid |-> d, name |-> n]}
      PROVE  Controller!Next
  <2>1. ListSeen' = ListSeen \cup {d} /\ d \notin ListSeen
    <3>1. [domid |-> d, name |-> n].domid = d OBVIOUS
    <3>2. /\ ListSeen = {m.domid : m \in vmlist}
          /\ ListSeen' = {m.domid : m \in vmlist'}
      BY <1>3, ListIs DEF ListSeen
    <3> QED BY <1>3, <3>1, <3>2 DEF InList
  <2>2. d \in ActiveIds /\ conn = "up"
    BY <1>3 DEF InitAndCheckVM, ActiveIds, Domids
  <2>3. ConnSeen = "up"
    <3>1. pc \in Built /\ pc \in PcStates BY DEF Built, PcStates
    <3> QED BY <1>3, <2>2, <3>1, ConnIs DEF ConnSeen
  <2>4. VmSeen' = [VmSeen EXCEPT ![d] =
                     [Controller!NewVM EXCEPT !.isWindows = FALSE]]
    <3>1. VmSeen' = [VmSeen EXCEPT ![d] = AddedVM]
      BY SameRecords DEF VmSeen
    <3> QED BY <3>1, NotWindows, Zenon
  <2>5. StatSeen' = [StatSeen EXCEPT ![d] =
                       Controller!GetVmInfo(Controller!NoStat, GuestSeen[d])]
    BY <2>1, StatChanges
  <2>6. PcSeen' = PcSeen /\ MainSeen' = MainSeen BY DEF PcSeen, MainSeen
  <2>7. Controller!Running /\ Controller!LockFree BY <1>3, RunningIs
  <2>8. Controller!FindAddVMToList(d, FALSE)
    BY <1>1, <2>1, <2>2, <2>3, <2>4, <2>5, <2>6, <2>7, SameRecords
       DEF Controller!FindAddVMToList, Controller!envVars
  <2> QED BY <2>8 DEF Controller!Next, Controller!Normal, Controller!EventStep
<1> QED BY <1>2, <1>3 DEF FindAddVMToList

(* FindDeleteVMFromList, before the loss of the connection is noticed. *)
LEMMA DeleteStep ==
  ASSUME RInv, NEW e, FindDeleteVMFromList(e), pc = "run",
         UNCHANGED <<pc, initFlag, change, conn, active>>
  PROVE  [Controller!Next]_Controller!vars
<1>1. /\ ChangeSeen' = ChangeSeen /\ ActiveIds' = ActiveIds
      /\ ConnSeen' = ConnSeen
  BY DEF ChangeSeen, ActiveIds, ConnSeen
<1>2. CASE vmlist' = vmlist \/ ~initFlag
  <2>1. ListSeen' = ListSeen BY <1>2 DEF ListSeen
  <2> QED BY <1>1, <2>1, Unseen
<1>3. ASSUME initFlag, NEW m \in vmlist, vmlist' = vmlist \ {m}
      PROVE  Controller!Next
  <2> DEFINE d == m.domid
  <2>1. d \in Domids /\ d \in ListSeen
    BY <1>3 DEF RInv, IInv, TypeOK, Entry, ListSeen
  <2>2. ListSeen' = ListSeen \ {d}
    BY <1>3 DEF RInv, IInv, Unique, ListSeen
  <2> HIDE DEF d
  <2>3. ConnSeen \in {"up", "dead"}
    <3>1. pc \in Built /\ pc \in PcStates BY DEF Built, PcStates
    <3>2. conn \in {"up", "dead"} BY ConnTypes
    <3> QED BY <1>3, <3>1, <3>2, ConnIs DEF ConnSeen
  <2>4. VmSeen' = [VmSeen EXCEPT ![d] = Controller!NewVM]
    <3>1. Controller!NewVM = AddedVM BY DEF Controller!NewVM, AddedVM
    <3> QED BY <3>1, SameRecords DEF VmSeen
  <2>5. StatSeen' = [StatSeen EXCEPT ![d] = Controller!NoStat]
    BY <2>1, <2>2, StatChanges
  <2>6. PcSeen' = PcSeen /\ MainSeen' = MainSeen BY DEF PcSeen, MainSeen
  <2>7. Controller!Running /\ Controller!LockFree BY <1>3, RunningIs
  <2>8. Controller!FindDeleteVMFromList(d)
    BY <1>1, <2>1, <2>2, <2>3, <2>4, <2>5, <2>6, <2>7, SameRecords
       DEF Controller!FindDeleteVMFromList, Controller!envVars
  <2> QED BY <2>1, <2>8 DEF Controller!Next, Controller!Normal,
             Controller!EventStep, Controller!Fault
<1> QED BY <1>2, <1>3 DEF FindDeleteVMFromList

(* FreeAllVM on a new connection. *)
LEMMA RebuildStep ==
  ASSUME RInv, StartRebuild
  PROVE  [Controller!Next]_Controller!vars
<1>1. /\ pc = "free" /\ pc' = "count" /\ vmlist' = {}
      /\ UNCHANGED <<initFlag, change, conn, active>>
  BY DEF StartRebuild, FreeAllVM, readyVars, worldVars
<1>2. ListSeen' = {} /\ ActiveIds' = ActiveIds
  BY <1>1 DEF ListSeen, ActiveIds
<1>3. /\ ConnSeen = ConnOf(initFlag, conn, "free")
      /\ ConnSeen' = ConnOf(initFlag, conn, "count")
      /\ initFlag \in BOOLEAN /\ conn \in {"up", "dead"}
  BY <1>1, ConnTypes DEF ConnSeen
<1>4. /\ "free" \in PcStates \ Built /\ "count" \in PcStates
      /\ "count" \in Built
  BY DEF Built, PcStates
<1>5. CASE ~initFlag
  <2>1. ConnSeen' = ConnSeen BY <1>3, <1>4, <1>5, ConnIs
  <2>2. ListSeen = {} BY <1>5 DEF ListSeen
  <2>3. ChangeSeen' = ChangeSeen BY <1>1, <1>5 DEF ChangeSeen
  <2> QED BY <1>1, <1>2, <2>1, <2>2, <2>3, Unseen
<1>6. CASE initFlag
  <2>1. \/ ConnSeen = "fresh" /\ ConnSeen' = "up"
        \/ ConnSeen = "lost" /\ ConnSeen' = "dead"
    <3>1. CASE conn = "up" BY <1>3, <1>4, <1>6, <3>1, ConnIs
    <3>2. CASE conn = "dead" BY <1>3, <1>4, <1>6, <3>2, ConnIs
    <3> QED BY <1>3, <3>1, <3>2
  <2>2. ChangeSeen' = TRUE BY <1>1, <1>6 DEF ChangeSeen
  <2>3. Controller!FreeAllVM
    <3>1. Controller!NewVM = AddedVM BY DEF Controller!NewVM, AddedVM
    <3>2. Controller!NoStat = SizeRead(0, FALSE)
      BY DEF Controller!NoStat, SizeRead
    <3>3. StatSeen' = [d \in Domids |-> Controller!NoStat]
      BY <1>2, <3>2 DEF StatSeen, SizeRead
    <3>4. VmSeen' = [d \in Domids |-> Controller!NewVM]
      BY <3>1, SameRecords DEF VmSeen
    <3> QED BY <1>2, <3>3, <3>4 DEF Controller!FreeAllVM
  <2>4. PcSeen' = PcSeen /\ MainSeen' = MainSeen
    BY <1>1 DEF PcSeen, MainSeen
  <2>5. Controller!Running /\ Controller!LockFree BY <1>6, RunningIs
  <2>6. Controller!RebuildList
    BY <1>2, <2>1, <2>2, <2>3, <2>4, <2>5, SameRecords
       DEF Controller!RebuildList, Controller!envVars
  <2> QED BY <2>6 DEF Controller!Next, Controller!Normal, Controller!EventStep
<1> QED BY <1>5, <1>6

(* The questions to libvirtd are not seen. *)
LEMMA CollectStep ==
  ASSUME RInv, CountDomains \/ ListDomains \/ CollectDone
  PROVE  UNCHANGED Controller!vars
<1>1. /\ pc \in {"count", "ask", "add"} /\ pc' \in {"ask", "add", "post"}
      /\ UNCHANGED <<vmlist, initFlag, change, conn, active>>
  BY DEF CountDomains, ListDomains, CollectDone, readyVars, worldVars
<1>2. /\ ListSeen' = ListSeen /\ ActiveIds' = ActiveIds
      /\ ChangeSeen' = ChangeSeen
  BY <1>1 DEF ListSeen, ActiveIds, ChangeSeen
<1>3. ConnSeen' = ConnSeen
  <2>1. /\ pc \in Built /\ pc' \in Built /\ pc \in PcStates /\ pc' \in PcStates
        /\ initFlag \in BOOLEAN /\ conn \in {"null", "up", "dead"}
    BY <1>1, ConnTypes DEF Built, PcStates
  <2>2. /\ ConnSeen = ConnOf(initFlag, conn, pc)
        /\ ConnSeen' = ConnOf(initFlag, conn, pc')
    BY <1>1 DEF ConnSeen
  <2> QED BY <2>1, <2>2, ConnIs
<1> QED BY <1>1, <1>2, <1>3, Unseen

(* The first list is taken over, a later one announced. *)
LEMMA ReadyStep ==
  ASSUME RInv, Ready
  PROVE  [Controller!Next]_Controller!vars
<1>1. /\ pc = "post" /\ pc' = "run" /\ initFlag'
      /\ change' = (change \/ initFlag)
      /\ UNCHANGED <<vmlist, conn, active>>
  BY DEF Ready, worldVars
<1>2. /\ ActiveIds' = ActiveIds /\ initFlag \in BOOLEAN
      /\ conn \in {"up", "dead"}
      /\ ConnSeen = ConnOf(initFlag, conn, "post")
      /\ ConnSeen' = ConnOf(initFlag', conn, "run") /\ initFlag' \in BOOLEAN
  <2>1. initFlag' \in BOOLEAN BY DEF Ready
  <2> QED BY <1>1, <2>1, ConnTypes DEF ActiveIds, ConnSeen
<1>3. "post" \in PcStates \cap Built /\ "run" \in PcStates \cap Built
  BY DEF Built, PcStates
<1>4. CASE initFlag
  <2>1. ListSeen' = ListSeen BY <1>1, <1>4 DEF ListSeen
  <2>2. ConnSeen' = ConnSeen
    <3>1. CASE conn = "up" BY <1>1, <1>2, <1>3, <1>4, <3>1, ConnIs
    <3>2. CASE conn = "dead" BY <1>1, <1>2, <1>3, <1>4, <3>2, ConnIs
    <3> QED BY <1>2, <3>1, <3>2
  <2>3. ChangeSeen' = ChangeSeen BY <1>1, <1>4 DEF ChangeSeen
  <2>4. initFlag' = initFlag BY <1>4 DEF Ready
  <2> QED BY <1>2, <2>1, <2>2, <2>3, <2>4, Unseen
<1>5. CASE ~initFlag
  <2>1. ListSeen' \in SUBSET Domids
    BY <1>1 DEF RInv, IInv, TypeOK, Entry, ListSeen
  <2>2. ConnSeen' \in {"up", "dead"} BY <1>1, <1>2, <1>3, ConnIs
  <2>3. ChangeSeen' = FALSE
    BY <1>1, <1>5 DEF ChangeSeen, RInv, Announced
  <2>4. PcSeen' = "head" /\ MainSeen = "none" /\ MainSeen' = "run"
    BY <1>1, <1>5 DEF PcSeen, MainSeen
  <2>5. VmSeen' = [d \in Domids |->
                     IF d \in ListSeen'
                     THEN [Controller!NewVM EXCEPT !.isWindows = (d \in {})]
                     ELSE Controller!NewVM]
    <3>1. Controller!NewVM = AddedVM BY DEF Controller!NewVM, AddedVM
    <3>2. \A d : [Controller!NewVM EXCEPT !.isWindows = (d \in {})] = AddedVM
      <4> TAKE d
      <4>1. (d \in {}) = FALSE OBVIOUS
      <4> QED BY <4>1, NotWindows, Zenon
    <3> QED BY <3>1, <3>2, SameRecords DEF VmSeen
  <2>6. StatSeen' = [d \in Domids |->
                       IF d \in ListSeen'
                       THEN Controller!GetVmInfo(Controller!NoStat, GuestSeen[d])
                       ELSE Controller!NoStat]
    <3>1. Controller!NoStat = SizeRead(0, FALSE)
      BY DEF Controller!NoStat, SizeRead
    <3>2. \A d \in Domids :
            Controller!GetVmInfo(Controller!NoStat, GuestSeen[d])
              = SizeRead(Memory[d], TRUE)
      BY <3>1, InfoRead, Zenon
    <3>3. StatSeen' = [d \in Domids |-> IF d \in ListSeen'
                                        THEN SizeRead(Memory[d], TRUE)
                                        ELSE SizeRead(0, FALSE)]
      BY DEF StatSeen, SizeRead
    <3> QED BY <3>1, <3>2, <3>3
  <2>7. Controller!StartDaemon({}, ListSeen')
    BY <1>2, <2>2, <2>3, <2>4, <2>5, <2>6, SameRecords
       DEF Controller!StartDaemon, Controller!envVars
  <2>8. \/ \E isWin \in SUBSET Windows :
             Controller!StartDaemon(isWin, ActiveIds) /\ ConnSeen' = "up"
        \/ \E isWin \in SUBSET Windows, found \in SUBSET Domids :
             /\ Controller!StartDaemon(isWin, found)
             /\ found # ActiveIds \/ ConnSeen' # "up"
    BY <2>1, <2>7
  <2> QED BY <2>8 DEF Controller!Next, Controller!Normal,
             Controller!Environment, Controller!Fault
<1> QED BY <1>4, <1>5

(* main() takes notice of a new list. *)
LEMMA TakeStep ==
  ASSUME RInv, TakeChange
  PROVE  [Controller!Next]_Controller!vars
<1>1. /\ change /\ change' = FALSE /\ initFlag
      /\ UNCHANGED <<vmlist, pc, initFlag, conn, active>>
  BY DEF TakeChange, worldVars, RInv, Announced
<1>2. /\ ListSeen' = ListSeen /\ ActiveIds' = ActiveIds /\ ConnSeen' = ConnSeen
  BY <1>1 DEF ListSeen, ActiveIds, ConnSeen
<1>3. CASE ChangeSeen' BY <1>1, <1>2, <1>3, Unseen DEF ChangeSeen
<1>4. CASE ~ChangeSeen'
  <2>1. ChangeSeen /\ ChangeSeen' = FALSE BY <1>1, <1>4 DEF ChangeSeen
  <2>2. UNCHANGED <<ListSeen, VmSeen, StatSeen, ConnSeen, PcSeen, MainSeen,
                    GuestSeen, ActiveIds>>
    BY <1>1, <1>2, SameRecords DEF StatSeen, SizeRead, PcSeen, MainSeen
  <2> DEFINE S == {d \in ListSeen : Controller!Reachable(d)}
  <2>3. StatSeen' = [d \in Domids |->
                       IF d \in S
                       THEN Controller!GetVmInfo(StatSeen[d], GuestSeen[d])
                       ELSE StatSeen[d]]
    <3>1. \A d \in ListSeen \cap Domids :
            Controller!GetVmInfo(StatSeen[d], GuestSeen[d]) = StatSeen[d]
      <4> TAKE d \in ListSeen \cap Domids
      <4>1. StatSeen[d] = SizeRead(Memory[d], TRUE) BY DEF StatSeen
      <4> QED BY <4>1, InfoRead, Zenon
    <3>2. StatSeen = [d \in Domids |-> StatSeen[d]] BY DEF StatSeen
    <3> QED BY <2>2, <3>1, <3>2
  <2>4. MainSeen = "run" /\ Controller!LockFree BY <1>1, RunningIs
  <2>5. Controller!UpdateAllVmInfo
    BY <2>1, <2>2, <2>3, <2>4, S \in SUBSET S
       DEF Controller!UpdateAllVmInfo, Controller!envVars
  <2> QED BY <2>5 DEF Controller!Next, Controller!Normal, Controller!MainStep
<1> QED BY <1>3, <1>4

------------------------------------------------------------------------------
(* The theorem. *)

LEMMA InitSeen == ASSUME Init PROVE Controller!Init
<1>1. ~initFlag /\ \A n \in Names : active[n] = 0 BY DEF Init
<1>2. ListSeen = {} /\ ActiveIds = {} BY <1>1 DEF ListSeen, ActiveIds
<1>3. ConnSeen = "null" BY <1>1 DEF ConnSeen, ConnOf
<1>4. ChangeSeen = FALSE /\ PcSeen = "off" /\ MainSeen = "none"
  BY <1>1 DEF ChangeSeen, PcSeen, MainSeen
<1>5. VmSeen = [d \in Domids |-> Controller!NewVM]
  BY DEF VmSeen, AddedVM, Controller!NewVM
<1>6. StatSeen = [d \in Domids |-> Controller!NoStat]
  BY <1>2 DEF StatSeen, SizeRead, Controller!NoStat
<1>7. GuestSeen = [d \in Domids |-> Controller!FullGuest(d)]
  BY DEF GuestSeen, WholeGuest, Controller!FullGuest
<1> QED BY <1>2, <1>3, <1>4, <1>5, <1>6, <1>7 DEF Controller!Init

LEMMA NextAnnounced == ASSUME Announced, [Next]_vars PROVE Announced'
<1> USE DEF Announced, threadVars, readyVars
<1>1. CASE UNCHANGED vars BY <1>1 DEF vars
<1>2. CASE Environment
  <2>1. /\ UNCHANGED <<initFlag, change, pc>>
        /\ conn' = conn \/ conn' = "dead"
    BY <1>2 DEF Environment, MachineStarts, MachineStops, LibvirtdGone
  <2> QED BY <2>1
<1>3. CASE TakeChange BY <1>3 DEF TakeChange
<1>4. CASE DropConnection \/ ConnectLibvirt \/ DomainEventsRegister
           \/ DomainEventsDeregister \/ NoticeLoss
  BY <1>4 DEF DropConnection, ConnectLibvirt, DomainEventsRegister,
     DomainEventsDeregister, NoticeLoss
<1>5. CASE StartRebuild \/ CountDomains \/ ListDomains \/ CollectDone
  BY <1>5 DEF StartRebuild, CountDomains, ListDomains, CollectDone
<1>6. CASE Ready BY <1>6 DEF Ready
<1>7. CASE RunEvent \/ \E i \in ids : AddCurrentVM(i)
  BY <1>7 DEF RunEvent, AddCurrentVM
<1> QED BY <1>1, <1>2, <1>3, <1>4, <1>5, <1>6, <1>7 DEF Next, EventThread

LEMMA NextSeen ==
  ASSUME RInv, [Next]_vars
  PROVE  [Controller!Next]_Controller!vars
<1>1. CASE UNCHANGED vars
  <2>1. UNCHANGED <<vmlist, pc, initFlag, change, conn, active>>
    BY <1>1 DEF vars, threadVars, readyVars, worldVars
  <2> QED BY <2>1, Unseen DEF ListSeen, ConnSeen, ChangeSeen, ActiveIds
<1>2. CASE Environment
  BY <1>2, StartsStep, StopsStep, GoneStep DEF Environment
<1>3. ASSUME NEW i \in ids, AddCurrentVM(i)
      PROVE  [Controller!Next]_Controller!vars
  <2>1. i \in Domids BY DEF RInv, IInv, TypeOK
  <2>2. /\ FindAddVMToList(i) /\ pc = "add"
        /\ UNCHANGED <<pc, initFlag, change, conn, active>>
    BY <1>3 DEF AddCurrentVM, readyVars, worldVars
  <2> QED BY <2>1, <2>2, AddStep
<1>4. CASE RunEvent
  <2>1. /\ pc = "run" /\ ProcessDomainEvent(Head(events))
        /\ UNCHANGED <<pc, initFlag, change, conn, active>>
    BY <1>4 DEF RunEvent, readyVars, worldVars
  <2>2. Head(events) \in Event
    BY <1>4 DEF RunEvent, RInv, IInv, TypeOK
  <2>3. Head(events).domid \in Domids BY <2>2 DEF Event
  <2> QED BY <2>1, <2>3, AddStep, DeleteStep DEF ProcessDomainEvent
<1>5. CASE StartRebuild BY <1>5, RebuildStep
<1>6. CASE CountDomains \/ ListDomains \/ CollectDone BY <1>6, CollectStep
<1>7. CASE Ready BY <1>7, ReadyStep
<1>8. CASE TakeChange BY <1>8, TakeStep
<1>9. CASE \/ DropConnection \/ ConnectLibvirt \/ DomainEventsRegister
           \/ NoticeLoss \/ DomainEventsDeregister
  BY <1>9, ConnectionStep
<1> QED BY <1>1, <1>2, <1>3, <1>4, <1>5, <1>6, <1>7, <1>8, <1>9
        DEF Next, EventThread

(***************************************************************************)
(* VmList implements Balloon's list, connection and domains: the event     *)
(* thread of VmList, with its queue of events, its snapshot of the         *)
(* domains, failing calls and lost connections, does nothing to the list   *)
(* and the connection that Balloon does not let it do.                     *)
(***************************************************************************)
THEOREM ListServesController == Spec => ServesController
<1>1. Init => RInv
  BY InitIInv DEF Init, RInv, Announced
<1>2. RInv /\ [Next]_vars => RInv'
  BY NextIInv, NextAnnounced DEF RInv
<1>3. Init => Controller!Init BY InitSeen
<1>4. RInv /\ [Next]_vars => [Controller!Next]_Controller!vars BY NextSeen
<1> QED BY <1>1, <1>2, <1>3, <1>4, PTL
        DEF Spec, ServesController, Controller!Spec
===============================================================================
