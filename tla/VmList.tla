-------------------------------- MODULE VmList --------------------------------
(***************************************************************************)
(* The list of virtual machines, g_vmlistHead (memlink_driver.c), and the  *)
(* event thread that keeps it, DomainEventProcessThread                    *)
(* (libvirt_helper.c): it connects to libvirtd, registers for the life     *)
(* cycle events, rebuilds the list from the active domains and then        *)
(* handles one event after the other until the connection is lost.         *)
(*                                                                         *)
(* A machine has a name; each of its runs is a domain with an id of its    *)
(* own.  A started machine is added to the list by its id, a stopped one   *)
(* removed by its name.  libvirtd queues the events of a connection in     *)
(* order, from the registration on.  The functions that hold               *)
(* g_vmlistHead.lock are single steps; the event thread makes all of them. *)
(***************************************************************************)
EXTENDS CommandLine, FiniteSets

CONSTANTS
  Names,       \* the machines
  CmdLine,     \* CmdLine[n]: the command line of machine n's QEMU
  MaxDomid,    \* bound: how many times machines are started
  MaxLosses,   \* bound: how many times the connection is lost
  LibvirtMayFail, \* may a call fail although the connection is up?
  CmdLineMayFail, \* may that command line be unreadable?
  StartBetween \* may a machine start between counting and listing them?

ASSUME VmListAssumption ==
  /\ CmdLine \in [Names -> Seq(Nat)]
  /\ MaxDomid \in Nat
  /\ MaxLosses \in Nat
  /\ LibvirtMayFail \in BOOLEAN
  /\ CmdLineMayFail \in BOOLEAN
  /\ StartBetween \in BOOLEAN

VARIABLES
  vmlist,      \* domainsListHead: the machines in the list
  count,       \* g_vmlistHead.count
  pc,          \* where the event thread is
  ids,         \* domids of CollectAddCurrentVMs: still to be added
  domNum,      \* how many domains virConnectNumOfDomains counted
  registered,  \* g_domainEvents has an id: the callback is registered
  initFlag,    \* the main thread has been told that the list is there
  change,      \* g_libvirtChange: it is to be told that it is a new one
  conn,        \* g_libvirtConn
  events,      \* environment: the events queued on the connection
  active,      \* environment: active[n], the id machine n runs with, or 0
  nextId,      \* environment: the id of the next domain
  losses       \* environment: how often the connection was lost

readyVars  == <<initFlag, change>>
threadVars == <<vmlist, count, pc, ids, domNum, registered, readyVars>>
worldVars  == <<active, nextId, losses>>
vars       == <<threadVars, conn, events, worldVars>>

Domids == 1 .. MaxDomid

Entry == [domid : Domids, name : Names]

Event == [type : {"started", "stopped"}, name : Names, domid : Domids]

PcStates == {"connect", "register", "free", "count", "ask", "add", "post",
             "run", "cleanup"}

Init ==
  /\ vmlist = {} /\ count = 0
  /\ pc = "connect"
  /\ ids = {} /\ domNum = 0
  /\ registered = FALSE
  /\ initFlag = FALSE /\ change = FALSE
  /\ conn = "null"
  /\ events = <<>>
  /\ active = [n \in Names |-> 0]
  /\ nextId = 1
  /\ losses = 0

ActiveIds == {active[n] : n \in Names} \ {0}

------------------------------------------------------------------------------
(* The environment: libvirtd and the machines. *)

(* libvirtd tells a registered connection that is up. *)
Queue(e) == events' = IF conn = "up" /\ registered THEN Append(events, e)
                      ELSE events

MachineStarts(n) ==
  /\ active[n] = 0
  /\ nextId \in Domids
  /\ pc = "ask" => StartBetween
  /\ active' = [active EXCEPT ![n] = nextId]
  /\ nextId' = nextId + 1
  /\ Queue([type |-> "started", name |-> n, domid |-> nextId])
  /\ UNCHANGED <<threadVars, conn, losses>>

MachineStops(n) ==
  /\ active[n] # 0
  /\ active' = [active EXCEPT ![n] = 0]
  /\ Queue([type |-> "stopped", name |-> n, domid |-> active[n]])
  /\ UNCHANGED <<threadVars, conn, nextId, losses>>

(* The connection is lost: no event comes any more, no call succeeds. *)
LibvirtdGone ==
  /\ conn = "up"
  /\ losses < MaxLosses
  /\ conn' = "dead"
  /\ losses' = losses + 1
  /\ UNCHANGED <<threadVars, events, active, nextId>>

------------------------------------------------------------------------------
(* g_vmlistHead. *)

(* CheckVMHasHugePage: 1, 0, or -1 when the command line cannot be read. *)
CheckVMHasHugePage(n) ==
  {CheckString(CmdLine[n], {prealloc}, readable) :
     readable \in {TRUE, ~CmdLineMayFail}}

(* The machines that a readable command line shows to have huge pages. *)
HugePages == {n \in Names : 1 \in CheckVMHasHugePage(n)}

(***************************************************************************)
(* InitAndCheckVM, for the machine n of a new VirtualMachineInfo: it can   *)
(* end well.  The id is looked up, the machine checked for huge pages (an  *)
(* unknown answer counts as no) and its size read.                         *)
(***************************************************************************)
InitAndCheckVM(domid, n) ==
  /\ conn = "up" /\ active[n] = domid
  /\ \E rc \in CheckVMHasHugePage(n) : ~(rc > 0)

(* It can fail. *)
InitAndCheckVMFails(domid) ==
  \/ conn # "up" \/ domid \notin ActiveIds
  \/ LibvirtMayFail
  \/ \E n \in HugePages : active[n] = domid

InList(domid) == \E e \in vmlist : e.domid = domid

(* A bug to detect: an entry is added without looking for it first. *)
AddUnconditionally(domid) ==
  \/ \E n \in Names :
       /\ InitAndCheckVM(domid, n)
       /\ vmlist' = vmlist \cup {[domid |-> domid, name |-> n]}
       /\ count' = count + 1
  \/ InitAndCheckVMFails(domid) /\ UNCHANGED <<vmlist, count>>

FindAddVMToList(domid) ==
  \/ InList(domid) /\ UNCHANGED <<vmlist, count>>
  \/ /\ ~InList(domid)
     /\ \/ \E n \in Names :
             /\ InitAndCheckVM(domid, n)
             /\ vmlist' = vmlist \cup {[domid |-> domid, name |-> n]}
             /\ count' = count + 1
        \/ InitAndCheckVMFails(domid) /\ UNCHANGED <<vmlist, count>>

(***************************************************************************)
(* FindDeleteVMFromList: the first entry with the event's name.  Nothing   *)
(* takes a reference besides the list's own, so VMInfoUnref deletes it.    *)
(***************************************************************************)
FindDeleteVMFromList(e) ==
  \/ \E m \in vmlist : /\ m.name = e.name
                       /\ vmlist' = vmlist \ {m}
                       /\ count' = count - 1
  \/ /\ \A m \in vmlist : m.name # e.name
     /\ UNCHANGED <<vmlist, count>>

(* A bug to detect: the entries of the previous connection are kept. *)
KeepStale == UNCHANGED <<vmlist, count>>

FreeAllVM ==
  /\ vmlist' = {}
  /\ count' = count - Cardinality(vmlist)

------------------------------------------------------------------------------
(* DomainEventProcessThread. *)

(* ConnectLibvirt: a dead connection is closed ... *)
DropConnection ==
  /\ pc = "connect" /\ conn = "dead"
  /\ conn' = "null"
  /\ UNCHANGED <<threadVars, events, worldVars>>

(* ... and a new one opened, again and again. *)
ConnectLibvirt ==
  /\ pc = "connect" /\ conn # "dead"
  /\ conn' = "up"
  /\ pc' = "register"
  /\ UNCHANGED <<vmlist, count, ids, domNum, registered, readyVars, events,
                 worldVars>>

(* A bug to detect: nobody looks whether the registration succeeded. *)
RegisterUnchecked ==
  /\ pc = "register" /\ pc' = "free"
  /\ registered' \in {conn = "up", FALSE}
  /\ UNCHANGED <<vmlist, count, ids, domNum, conn, events, readyVars,
                 worldVars>>

DomainEventsRegister ==
  /\ pc = "register"
  /\ \/ conn = "up" /\ registered' = TRUE /\ pc' = "free"
     \/ /\ conn # "up" \/ LibvirtMayFail
        /\ registered' = FALSE /\ pc' = "cleanup"
  /\ UNCHANGED <<vmlist, count, ids, domNum, conn, events, readyVars,
                 worldVars>>

StartRebuild ==
  /\ pc = "free"
  /\ FreeAllVM
  /\ pc' = "count"
  /\ UNCHANGED <<ids, domNum, registered, conn, events, readyVars, worldVars>>

(* A bug to detect: the error result of virConnectNumOfDomains is used. *)
CountUnchecked ==
  /\ pc = "count"
  /\ \/ conn = "up" /\ domNum' = Cardinality(ActiveIds)
     \/ conn # "up" /\ domNum' = -1
  /\ pc' = "ask"
  /\ UNCHANGED <<vmlist, count, ids, registered, conn, events, readyVars,
                 worldVars>>

(* CollectAddCurrentVMs: virConnectNumOfDomains, an error or 0 ends it ... *)
CountDomains ==
  /\ pc = "count"
  /\ \/ /\ conn = "up" /\ ActiveIds # {}
        /\ domNum' = Cardinality(ActiveIds)
        /\ pc' = "ask"
     \/ /\ conn # "up" \/ ActiveIds = {} \/ LibvirtMayFail
        /\ domNum' = 0
        /\ pc' = "post"
  /\ UNCHANGED <<vmlist, count, ids, registered, conn, events, readyVars,
                 worldVars>>

(* ... virConnectListDomains, at most that many of them ... *)
ListDomains ==
  /\ pc = "ask"
  /\ \/ /\ conn = "up"
        /\ \E S \in SUBSET ActiveIds :
             /\ \/ Cardinality(S) = domNum
                \/ Cardinality(S) < domNum /\ S = ActiveIds
             /\ ids' = S
     \/ (conn # "up" \/ LibvirtMayFail) /\ ids' = {}
  /\ pc' = "add"
  /\ UNCHANGED <<vmlist, count, domNum, registered, conn, events, readyVars,
                 worldVars>>

(* ... and each of them added. *)
AddCurrentVM(domid) ==
  /\ pc = "add" /\ domid \in ids
  /\ FindAddVMToList(domid)
  /\ ids' = ids \ {domid}
  /\ UNCHANGED <<pc, domNum, registered, conn, events, readyVars, worldVars>>

CollectDone ==
  /\ pc = "add" /\ ids = {}
  /\ pc' = "post"
  /\ UNCHANGED <<vmlist, count, ids, domNum, registered, conn, events,
                 readyVars, worldVars>>

(* The main thread is told: by SemPost, later by g_libvirtChange ... *)
Ready ==
  /\ pc = "post"
  /\ pc' = "run"
  /\ initFlag' = TRUE
  /\ change' = (change \/ initFlag)
  /\ UNCHANGED <<vmlist, count, ids, domNum, registered, conn, events,
                 worldVars>>

(* ... which main() takes with ATOMIC_XCHG. *)
TakeChange ==
  /\ change
  /\ change' = FALSE
  /\ UNCHANGED <<vmlist, count, pc, ids, domNum, registered, initFlag, conn,
                 events, worldVars>>

(* ProcessDomainEvent: other events change nothing and are not modelled. *)
ProcessDomainEvent(e) ==
  \/ e.type = "started" /\ FindAddVMToList(e.domid)
  \/ e.type = "stopped" /\ FindDeleteVMFromList(e)

(***************************************************************************)
(* virEventRunDefaultImpl and DomainEventCallback.  An event that was      *)
(* received may be handled although the connection has been lost since.    *)
(***************************************************************************)
RunEvent ==
  /\ pc = "run" /\ events # <<>>
  /\ ProcessDomainEvent(Head(events))
  /\ events' = Tail(events)
  /\ UNCHANGED <<pc, ids, domNum, registered, conn, readyVars, worldVars>>

(* virConnectIsAlive says no. *)
NoticeLoss ==
  /\ pc = "run" /\ conn = "dead"
  /\ pc' = "cleanup"
  /\ UNCHANGED <<vmlist, count, ids, domNum, registered, conn, events,
                 readyVars, worldVars>>

DomainEventsDeregister ==
  /\ pc = "cleanup"
  /\ registered' = FALSE
  /\ events' = <<>>
  /\ pc' = "connect"
  /\ UNCHANGED <<vmlist, count, ids, domNum, conn, readyVars, worldVars>>

------------------------------------------------------------------------------
(* A bug to detect: the events are registered after the list is built. *)
RegisterLast ==
  \/ /\ pc = "register" /\ pc' = "free"
     /\ UNCHANGED <<vmlist, count, ids, domNum, registered, conn, events,
                    readyVars, worldVars>>
  \/ /\ pc = "post" /\ pc' = "run"
     /\ registered' = (conn = "up")
     /\ initFlag' = TRUE /\ change' = (change \/ initFlag)
     /\ UNCHANGED <<vmlist, count, ids, domNum, conn, events, worldVars>>
  \/ DropConnection \/ ConnectLibvirt \/ StartRebuild
  \/ CountDomains \/ ListDomains \/ CollectDone
  \/ \E i \in ids : AddCurrentVM(i)
  \/ RunEvent \/ NoticeLoss \/ DomainEventsDeregister

EventThread ==
  \/ DropConnection \/ ConnectLibvirt
  \/ DomainEventsRegister \/ StartRebuild
  \/ CountDomains \/ ListDomains \/ CollectDone \/ Ready
  \/ \E i \in ids : AddCurrentVM(i)
  \/ RunEvent \/ NoticeLoss \/ DomainEventsDeregister

Environment ==
  \/ \E n \in Names : MachineStarts(n) \/ MachineStops(n)
  \/ LibvirtdGone

Next == EventThread \/ TakeChange \/ Environment

Spec == Init /\ [][Next]_vars

(* The event thread is scheduled. *)
FairSpec == Spec /\ WF_vars(EventThread)

------------------------------------------------------------------------------
(* Every variable has its type, and the event queue only real domains. *)
TypeOK ==
  /\ vmlist \subseteq Entry
  /\ count \in Int
  /\ pc \in PcStates
  /\ ids \subseteq Domids
  /\ domNum \in 0 .. MaxDomid
  /\ registered \in BOOLEAN
  /\ initFlag \in BOOLEAN /\ change \in BOOLEAN
  /\ conn \in {"null", "up", "dead"}
  /\ events \in Seq(Event)
  /\ active \in [Names -> 0 .. MaxDomid]
  /\ nextId \in 1 .. (MaxDomid + 1)
  /\ losses \in 0 .. MaxLosses

(***************************************************************************)
(* The list is well formed at every moment: count is its length, and it    *)
(* never holds a domain or a machine twice, although domains reach it both *)
(* from the collection and from events, and leave it by name.              *)
(***************************************************************************)
ListSound ==
  /\ count = Cardinality(vmlist)
  /\ \A m, e \in vmlist : m.domid = e.domid \/ m.name = e.name => m = e

(***************************************************************************)
(* memlink_driver.c 154: a "VM with hg managed by hugetlbfs ... we should  *)
(* pass it".  Where command lines can be read, no machine gets into the    *)
(* list, by the collection or by an event, with the word prealloc anywhere *)
(* in the part of its command line that the buffer holds.                  *)
(***************************************************************************)
HugePagesStayOut ==
  ~CmdLineMayFail =>
    \A m \in vmlist :
      ~Occurs(prealloc, CmdLine[m.name], MEMLINK_ARG_MAX - 1)

Pending(n) == {i \in DOMAIN events : events[i].name = n}

(* The list is being, or has been, built on the present connection. *)
Collecting == conn = "up" /\ pc \in {"count", "ask", "add", "post", "run"}

(***************************************************************************)
(* What the list holds beyond the machines that run is on its way out: an  *)
(* entry whose domain is gone has a stop event of its machine queued.  No  *)
(* machine that stopped while libvirtd was away stays.                     *)
(***************************************************************************)
NoGhost ==
  Collecting =>
    \A m \in vmlist :
      \/ active[m.name] = m.domid
      \/ \E i \in Pending(m.name) : events[i].type = "stopped"

(***************************************************************************)
(* What the list lacks is on its way in: once it is built, a running       *)
(* machine (without huge pages) is in it with no event queued, or the last *)
(* event queued for the machine is the start of its present run.  This is  *)
(* why the events are registered before the domains are collected.         *)
(***************************************************************************)
NoMissing ==
  conn = "up" /\ pc \in {"post", "run"} =>
    \A n \in Names \ HugePages :
      active[n] # 0 =>
        \/ Pending(n) = {} /\ [domid |-> active[n], name |-> n] \in vmlist
        \/ \E i \in Pending(n) : /\ \A j \in Pending(n) : j <= i
                                 /\ events[i].type = "started"
                                 /\ events[i].domid = active[n]

InSync ==
  /\ \A m \in vmlist : active[m.name] = m.domid
  /\ \A n \in Names \ HugePages :
       active[n] # 0 => [domid |-> active[n], name |-> n] \in vmlist

(***************************************************************************)
(* When the machines and libvirtd come to rest, the list is and stays that *)
(* of the machines that run, whatever happened before.                     *)
(***************************************************************************)
Converges == <>[]InSync
==============================================================================
