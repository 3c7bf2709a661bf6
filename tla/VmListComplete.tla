---------------------------- MODULE VmListComplete ----------------------------
(***************************************************************************)
(* What the list lacks.  Where no call of libvirt fails on a connection    *)
(* that is up and no machine starts between the two questions of           *)
(* CollectAddCurrentVMs, it lacks no running machine; in general every     *)
(* running machine that it lacks is one that libvirt kept out.             *)
(***************************************************************************)
EXTENDS VmListProofs, VmListMissed

(* The last event queued for n is the start of its present run. *)
StartQueued(n) ==
  \E i \in Pending(n) : /\ \A j \in Pending(n) : j <= i
                        /\ events[i].type = "started"
                        /\ events[i].domid = active[n]

(* From the registration on, libvirtd tells of every change, in order. *)
Told ==
  conn = "up" /\ registered =>
    \A n \in Names : active[n] # 0 /\ Pending(n) # {} => StartQueued(n)

------------------------------------------------------------------------------
(* The events that are queued. *)

(* A change of machine n that is queued: only the other machines may be    *)
(* left without an event.                                                  *)
LEMMA QueueTold ==
  ASSUME IInv, Told, NEW n \in Names, NEW e \in Event, Queue(e), e.name = n,
         \A o \in Names \ {n} : active'[o] = active[o],
         active'[n] # 0 => e.type = "started" /\ e.domid = active'[n],
         UNCHANGED <<registered, conn>>
  PROVE  /\ Told'
         /\ \A o \in Names :
              conn = "up" /\ registered /\ Pending(o)' = {} =>
                Pending(o) = {} /\ active'[o] = active[o]
<1>1. /\ events' \in Seq(Event) /\ events \in Seq(Event)
      /\ \A i \in DOMAIN events : i \in DOMAIN events' /\ events'[i] = events[i]
      /\ \A i \in DOMAIN events' : \/ i \in DOMAIN events
                                   \/ i = Len(events) + 1 /\ events'[i] = e
      /\ conn = "up" /\ registered =>
           /\ Len(events) + 1 \in DOMAIN events'
           /\ events'[Len(events) + 1] = e
      /\ ~registered => events' = events
  BY QueueAppends DEF IInv, TypeOK
<1>2. \A o \in Names \ {n} : Pending(o)' = Pending(o)
  BY <1>1 DEF Pending
<1>3. conn = "up" /\ registered => Len(events) + 1 \in Pending(n)'
  BY <1>1 DEF Pending
<1>4. Told'
  <2> SUFFICES ASSUME conn = "up", registered, NEW o \in Names,
                      active'[o] # 0, Pending(o)' # {}
               PROVE  StartQueued(o)'
    BY DEF Told
  <2>1. CASE o = n
    <3>1. \A j \in Pending(n)' : j <= Len(events) + 1 BY <1>1 DEF Pending
    <3> QED BY <1>1, <1>3, <2>1, <3>1 DEF StartQueued
  <2>2. CASE o # n
    <3>1. StartQueued(o) BY <1>2, <2>2 DEF Told
    <3>2. \A i \in Pending(o) : events'[i] = events[i] BY <1>1 DEF Pending
    <3> QED BY <1>2, <2>2, <3>1, <3>2 DEF StartQueued
  <2> QED BY <2>1, <2>2
<1> QED BY <1>2, <1>3, <1>4

(* Machines start and stop. *)
LEMMA ChangeTold ==
  ASSUME IInv, Told, NEW n \in Names, MachineStarts(n) \/ MachineStops(n)
  PROVE  /\ Told'
         /\ UNCHANGED <<threadVars, conn>>
         /\ \A o \in Names :
              conn = "up" /\ registered /\ Pending(o)' = {} =>
                Pending(o) = {} /\ active'[o] = active[o]
<1>1. CASE MachineStarts(n)
  <2> DEFINE e == [type |-> "started", name |-> n, domid |-> nextId]
  <2>1. /\ e \in Event /\ Queue(e) /\ UNCHANGED <<threadVars, conn>>
        /\ active' = [active EXCEPT ![n] = nextId]
    BY <1>1 DEF MachineStarts, Event
  <2>2. e.name = n /\ e.type = "started" /\ e.domid = nextId OBVIOUS
  <2>3. active'[n] = nextId /\ \A o \in Names \ {n} : active'[o] = active[o]
    BY <2>1 DEF IInv, TypeOK
  <2> HIDE DEF e
  <2> QED BY <2>1, <2>2, <2>3, QueueTold DEF threadVars
<1>2. CASE MachineStops(n)
  <2> DEFINE e == [type |-> "stopped", name |-> n, domid |-> active[n]]
  <2>1. /\ e \in Event /\ Queue(e) /\ UNCHANGED <<threadVars, conn>>
        /\ active' = [active EXCEPT ![n] = 0]
    BY <1>2 DEF MachineStops, Event, IInv, TypeOK, Domids
  <2>2. e.name = n OBVIOUS
  <2>3. active'[n] = 0 /\ \A o \in Names \ {n} : active'[o] = active[o]
    BY <2>1 DEF IInv, TypeOK
  <2> HIDE DEF e
  <2> QED BY <2>1, <2>2, <2>3, QueueTold DEF threadVars
<1> QED BY <1>1, <1>2

(***************************************************************************)
(* An event is handled.  A running machine of which no event is left had   *)
(* none, and stays listed if it was, or its start is the event handled:    *)
(* the stop of an earlier run, which removes the present one, is followed  *)
(* by its start.                                                           *)
(***************************************************************************)
LEMMA EventTold ==
  ASSUME IInv, Told, RunEvent
  PROVE  /\ Told'
         /\ \A n \in Names :
              conn = "up" /\ active[n] # 0 /\ Pending(n)' = {} =>
                \/ /\ Pending(n) = {}
                   /\ [domid |-> active[n], name |-> n] \in vmlist =>
                        [domid |-> active[n], name |-> n] \in vmlist'
                \/ /\ FindAddVMToList(active[n])
                   /\ Head(events).type = "started"
                   /\ Head(events).domid = active[n]
<1>1. /\ pc = "run" /\ events # <<>> /\ events' = Tail(events)
      /\ ProcessDomainEvent(Head(events))
      /\ UNCHANGED <<pc, registered, conn, active>>
  BY DEF RunEvent, worldVars
<1>2. /\ events' \in Seq(Event) /\ events \in Seq(Event)
      /\ Head(events) = events[1] /\ events[1] \in Event
      /\ \A i \in DOMAIN events' : /\ i + 1 \in DOMAIN events
                                   /\ events'[i] = events[i + 1]
      /\ \A i \in DOMAIN events :
           i # 1 => /\ i - 1 \in DOMAIN events'
                    /\ events'[i - 1] = events[i]
  BY <1>1, TailShifts DEF IInv, TypeOK
<1>3. \A n \in Names : /\ \A i \in Pending(n)' : i + 1 \in Pending(n)
                       /\ \A i \in Pending(n) : i # 1 => i - 1 \in Pending(n)'
  BY <1>2 DEF Pending
<1>4. Told'
  <2> SUFFICES ASSUME conn = "up", registered, NEW n \in Names, active[n] # 0,
                      NEW k \in Pending(n)'
               PROVE  StartQueued(n)'
    BY <1>1 DEF Told
  <2>1. k + 1 \in Pending(n) /\ k \in Nat \ {0} BY <1>2, <1>3 DEF Pending
  <2>2. PICK i \in Pending(n) : /\ \A j \in Pending(n) : j <= i
                                /\ events[i].type = "started"
                                /\ events[i].domid = active[n]
    BY <2>1 DEF Told, StartQueued
  <2>3. i \in Nat /\ i # 1 BY <1>2, <2>1, <2>2 DEF Pending
  <2>4. /\ i - 1 \in Pending(n)' /\ events'[i - 1] = events[i]
    BY <1>2, <1>3, <2>3 DEF Pending
  <2>5. \A j \in Pending(n)' : j <= i - 1
    <3>1. \A j \in Pending(n)' : j \in Nat BY <1>2 DEF Pending
    <3> QED BY <1>3, <2>2, <2>3, <3>1
  <2> QED BY <1>1, <2>2, <2>4, <2>5 DEF StartQueued
<1>5. ASSUME conn = "up", NEW n \in Names, active[n] # 0, Pending(n)' = {},
             Pending(n) = {}, [domid |-> active[n], name |-> n] \in vmlist
      PROVE  [domid |-> active[n], name |-> n] \in vmlist'
  <2>1. events[1].name # n BY <1>1, <1>2, <1>5 DEF Pending
  <2>2. CASE FindAddVMToList(events[1].domid)
    BY <1>5, <2>2 DEF FindAddVMToList
  <2>3. CASE FindDeleteVMFromList(events[1])
    BY <1>5, <2>1, <2>3 DEF FindDeleteVMFromList
  <2> QED BY <1>1, <1>2, <2>2, <2>3 DEF ProcessDomainEvent
<1>6. ASSUME conn = "up", NEW n \in Names, active[n] # 0, Pending(n)' = {},
             Pending(n) # {}
      PROVE  /\ FindAddVMToList(active[n])
             /\ Head(events).type = "started" /\ Head(events).domid = active[n]
  <2>1. registered BY <1>1 DEF IInv, Phases
  <2>2. PICK i \in Pending(n) : /\ events[i].type = "started"
                                /\ events[i].domid = active[n]
    BY <1>6, <2>1 DEF Told, StartQueued
  <2>3. i = 1 BY <1>3, <1>6, <2>2
  <2> QED BY <1>1, <1>2, <2>2, <2>3 DEF ProcessDomainEvent
<1> QED BY <1>4, <1>5, <1>6

(* Every step keeps the order of the events. *)
LEMMA NextTold == ASSUME IInv, Told, [Next]_vars PROVE Told'
<1>1. ASSUME UNCHANGED <<registered, conn, events, active>> PROVE Told'
  BY <1>1 DEF Told, StartQueued, Pending
<1>2. CASE UNCHANGED vars BY <1>1, <1>2 DEF vars, threadVars, worldVars
<1>3. CASE LibvirtdGone BY <1>3 DEF LibvirtdGone, Told
<1>4. CASE DropConnection \/ ConnectLibvirt
  BY <1>4 DEF DropConnection, ConnectLibvirt, IInv, Phases, Told
<1>5. CASE DomainEventsRegister
  <2>1. events' = <<>>
    BY <1>5 DEF DomainEventsRegister, IInv, Phases
  <2>2. \A n \in Names : Pending(n)' = {} BY <2>1 DEF Pending
  <2> QED BY <2>2 DEF Told
<1>6. CASE DomainEventsDeregister BY <1>6 DEF DomainEventsDeregister, Told
<1>7. CASE StartRebuild \/ CountDomains \/ ListDomains \/ CollectDone
  BY <1>1, <1>7 DEF StartRebuild, CountDomains, ListDomains, CollectDone,
     worldVars
<1>8. CASE Ready \/ TakeChange \/ NoticeLoss
  BY <1>1, <1>8 DEF Ready, TakeChange, NoticeLoss, worldVars
<1>9. CASE \E i \in ids : AddCurrentVM(i)
  BY <1>1, <1>9 DEF AddCurrentVM, worldVars
<1>10. CASE RunEvent BY <1>10, EventTold
<1> QED BY <1>2, <1>3, <1>4, <1>5, <1>6, <1>7, <1>8, <1>9, <1>10, ChangeTold
        DEF Next, EventThread, Environment

------------------------------------------------------------------------------
(* Where no call fails. *)

(* A running machine of which no event is queued has been found, or is in  *)
(* the snapshot.                                                           *)
Found ==
  conn = "up" =>
    \A n \in Names \ HugePages :
      active[n] # 0 /\ Pending(n) = {} =>
        /\ pc = "add" => \/ active[n] \in ids
                         \/ [domid |-> active[n], name |-> n] \in vmlist
        /\ pc \in {"post", "run"} => [domid |-> active[n], name |-> n] \in vmlist

(* There is room for every machine in the answer of virConnectListDomains. *)
Room == conn = "up" /\ pc = "ask" => Cardinality(ActiveIds) <= domNum

CInv == IInv /\ Told /\ Found /\ Room

(* FindAddVMToList of a running machine without huge pages finds or adds it. *)
LEMMA AddsIt ==
  ASSUME IInv, ~LibvirtMayFail, conn = "up", NEW n \in Names \ HugePages,
         active[n] # 0, FindAddVMToList(active[n])
  PROVE  [domid |-> active[n], name |-> n] \in vmlist'
<1>1. CASE InList(active[n]) /\ vmlist' = vmlist
  <2>1. PICK m \in vmlist : m.domid = active[n] BY <1>1 DEF InList
  <2>2. m \in Entry /\ m.name = n BY <2>1 DEF IInv, TypeOK, Ids, Dated
  <2> QED BY <1>1, <2>1, <2>2 DEF Entry
<1>2. ASSUME NEW o \in Names, InitAndCheckVM(active[n], o),
             vmlist' = vmlist \cup {[domid |-> active[n], name |-> o]}
      PROVE  [domid |-> active[n], name |-> n] \in vmlist'
  BY <1>2 DEF InitAndCheckVM, IInv, Ids
<1>3. ~InitAndCheckVMFails(active[n])
  <2>1. active[n] \in ActiveIds BY DEF ActiveIds
  <2>2. \A h \in HugePages : active[h] # active[n]
    BY VmListAssumption DEF HugePages, IInv, Ids
  <2> QED BY <2>1, <2>2 DEF InitAndCheckVMFails
<1> QED BY <1>1, <1>2, <1>3 DEF FindAddVMToList

(* Machines start, but not between the two questions, and stop. *)
LEMMA ChangeCInv ==
  ASSUME CInv, ~StartBetween, NEW n \in Names, MachineStarts(n) \/ MachineStops(n)
  PROVE  Found' /\ Room'
<1>1. /\ UNCHANGED <<vmlist, pc, ids, domNum, conn>>
      /\ \A o \in Names :
           conn = "up" /\ registered /\ Pending(o)' = {} =>
             Pending(o) = {} /\ active'[o] = active[o]
  BY ChangeTold DEF CInv, threadVars
<1>2. pc \in {"add", "post", "run"} => registered BY DEF CInv, IInv, Phases
<1>3. Found' BY <1>1, <1>2 DEF CInv, Found
<1>4. Room'
  <2>1. CASE MachineStarts(n) BY <1>1, <2>1 DEF MachineStarts, Room
  <2>2. CASE MachineStops(n)
    <3>1. \A o \in Names : active'[o] \in {active[o], 0}
      BY <2>2 DEF MachineStops, CInv, IInv, TypeOK
    <3>2. ActiveIds' \subseteq ActiveIds BY <3>1 DEF ActiveIds
    <3>3. IsFiniteSet(ActiveIds) /\ Cardinality(ActiveIds) \in Nat
      BY ActiveFew DEF CInv, IInv, TypeOK
    <3>4. Cardinality(ActiveIds') <= Cardinality(ActiveIds)
          /\ Cardinality(ActiveIds') \in Nat
      BY <3>2, <3>3, FS_Subset, FS_CardinalityType
    <3>5. domNum \in Nat BY DEF CInv, IInv, TypeOK
    <3> QED BY <1>1, <3>3, <3>4, <3>5 DEF CInv, Room
  <2> QED BY <2>1, <2>2
<1> QED BY <1>3, <1>4

(* The snapshot of virConnectListDomains is complete. *)
LEMMA ListCInv ==
  ASSUME CInv, ~LibvirtMayFail, ListDomains
  PROVE  Found' /\ Room'
<1>1. /\ pc = "ask" /\ pc' = "add"
      /\ UNCHANGED <<vmlist, domNum, conn, events, active>>
  BY DEF ListDomains, worldVars
<1>2. ASSUME conn = "up" PROVE ids' = ActiveIds
  <2>1. /\ ids' \subseteq ActiveIds
        /\ ids' = ActiveIds \/ Cardinality(ids') = domNum
    BY <1>2 DEF ListDomains
  <2>2. IsFiniteSet(ActiveIds) /\ Cardinality(ActiveIds) <= domNum
    BY <1>1, <1>2, ActiveFew DEF CInv, IInv, TypeOK, Room
  <2>3. ASSUME ids' # ActiveIds PROVE FALSE
    <3>1. /\ Cardinality(ids') <= Cardinality(ActiveIds)
          /\ Cardinality(ids') # Cardinality(ActiveIds)
      BY <2>1, <2>2, <2>3, FS_Subset
    <3>2. /\ Cardinality(ids') = domNum /\ domNum \in Nat
          /\ Cardinality(ActiveIds) \in Nat
      BY <2>1, <2>2, <2>3, FS_CardinalityType DEF CInv, IInv, TypeOK
    <3> QED BY <2>2, <3>1, <3>2
  <2> QED BY <2>3
<1>3. Found' BY <1>1, <1>2 DEF Found, ActiveIds
<1> QED BY <1>1, <1>3 DEF Room

(* Each machine of the snapshot is added. *)
LEMMA AddCInv ==
  ASSUME CInv, ~LibvirtMayFail, NEW domid \in ids, AddCurrentVM(domid)
  PROVE  Found' /\ Room'
<1>1. /\ pc = "add" /\ FindAddVMToList(domid) /\ ids' = ids \ {domid}
      /\ UNCHANGED <<pc, conn, events, active>>
  BY DEF AddCurrentVM, worldVars
<1>2. vmlist \subseteq vmlist' BY <1>1 DEF FindAddVMToList
<1>3. Found'
  <2> SUFFICES ASSUME conn = "up", NEW n \in Names \ HugePages, active[n] # 0,
                      Pending(n) = {}
               PROVE  \/ active[n] \in ids'
                      \/ [domid |-> active[n], name |-> n] \in vmlist'
    BY <1>1 DEF Found, Pending
  <2>1. CASE active[n] = domid BY <1>1, <2>1, AddsIt DEF CInv
  <2>2. CASE active[n] # domid
    BY <1>1, <1>2, <2>2 DEF CInv, Found
  <2> QED BY <2>1, <2>2
<1> QED BY <1>1, <1>3 DEF Room

(* A machine whose start is handled is listed. *)
LEMMA EventCInv ==
  ASSUME CInv, ~LibvirtMayFail, RunEvent
  PROVE  Found' /\ Room'
<1>1. pc = "run" /\ UNCHANGED <<pc, conn, active>>
  BY DEF RunEvent, worldVars
<1>2. ASSUME conn = "up", NEW n \in Names \ HugePages, active[n] # 0,
             Pending(n)' = {}
      PROVE  [domid |-> active[n], name |-> n] \in vmlist'
  <2>1. CASE Pending(n) = {} /\ ([domid |-> active[n], name |-> n] \in vmlist =>
                                 [domid |-> active[n], name |-> n] \in vmlist')
    BY <1>1, <1>2, <2>1 DEF CInv, Found
  <2>2. CASE FindAddVMToList(active[n]) BY <1>2, <2>2, AddsIt DEF CInv
  <2> QED BY <1>2, <2>1, <2>2, EventTold DEF CInv
<1> QED BY <1>1, <1>2 DEF Found, Room

(* The event thread outside of its work on the list. *)
LEMMA QuietCInv ==
  ASSUME CInv, ~LibvirtMayFail, OtherStep \/ StartRebuild \/ CountDomains
  PROVE  Found' /\ Room'
<1> USE DEF worldVars
<1>1. CASE DropConnection \/ ConnectLibvirt
  BY <1>1 DEF DropConnection, ConnectLibvirt, Found, Room
<1>2. CASE DomainEventsRegister
  <2>1. pc' \in {"free", "cleanup"} BY <1>2 DEF DomainEventsRegister
  <2> QED BY <2>1 DEF Found, Room
<1>3. CASE StartRebuild BY <1>3 DEF StartRebuild, Found, Room
<1>4. CASE CountDomains
  <2>1. /\ pc' \in {"ask", "post"}
        /\ UNCHANGED <<vmlist, conn, events, active>>
        /\ pc' = "ask" => domNum' = Cardinality(ActiveIds)
        /\ pc' = "post" /\ conn = "up" => ActiveIds = {}
    BY <1>4 DEF CountDomains
  <2>2. Found' BY <2>1 DEF Found, ActiveIds
  <2>3. Room'
    <3>1. Cardinality(ActiveIds) \in Nat BY ActiveFew DEF CInv, IInv, TypeOK
    <3>2. ActiveIds' = ActiveIds BY <2>1 DEF ActiveIds
    <3> QED BY <2>1, <3>1, <3>2 DEF Room
  <2> QED BY <2>2, <2>3
<1>5. CASE CollectDone BY <1>5 DEF CollectDone, CInv, Pending, Found, Room
<1>6. CASE Ready BY <1>6 DEF Ready, CInv, Pending, Found, Room
<1>7. CASE TakeChange
  BY <1>7 DEF TakeChange, CInv, Pending, Found, Room, ActiveIds
<1>8. CASE NoticeLoss BY <1>8 DEF NoticeLoss, Found, Room
<1>9. CASE DomainEventsDeregister
  BY <1>9 DEF DomainEventsDeregister, Found, Room
<1> QED BY <1>1, <1>2, <1>3, <1>4, <1>5, <1>6, <1>7, <1>8, <1>9 DEF OtherStep

(* Every step preserves the invariant. *)
LEMMA NextCInv ==
  ASSUME CInv, ~LibvirtMayFail, ~StartBetween, [Next]_vars
  PROVE  CInv'
<1>1. IInv' /\ Told' BY NextIInv, NextTold DEF CInv
<1>2. Found' /\ Room'
  <2>1. CASE UNCHANGED vars
    BY <2>1 DEF vars, threadVars, worldVars, CInv, Pending, Found, Room,
       ActiveIds
  <2>2. CASE LibvirtdGone BY <2>2 DEF LibvirtdGone, Found, Room
  <2>3. CASE EventThread
    BY <2>3, QuietCInv, ListCInv, AddCInv, EventCInv DEF EventThread, OtherStep
  <2> QED BY <2>1, <2>2, <2>3, ChangeCInv, QuietCInv
          DEF Next, Environment, OtherStep
<1> QED BY <1>1, <1>2 DEF CInv

(***************************************************************************)
(* Where no call fails and no machine starts between counting and listing  *)
(* the domains, the list of the event thread lacks no running machine whose*)
(* start is not queued: registering before collecting closes the gap.      *)
(***************************************************************************)
THEOREM NothingMissing ==
  ASSUME ~LibvirtMayFail, ~StartBetween
  PROVE  Spec => []NoMissing
<1>1. Init => CInv
  <2>1. Init => IInv BY InitIInv
  <2>2. Init => Told /\ Found /\ Room BY DEF Init, Told, Found, Room
  <2> QED BY <2>1, <2>2 DEF CInv
<1>2. CInv /\ [Next]_vars => CInv' BY NextCInv
<1>3. CInv => NoMissing
  BY DEF CInv, IInv, Phases, Told, StartQueued, Found, NoMissing
<1> QED BY <1>1, <1>2, <1>3, PTL DEF Spec

------------------------------------------------------------------------------
(* Where calls fail. *)

(* As Found, for the machines that libvirt did not keep out. *)
FoundOrMissed ==
  conn = "up" =>
    \A n \in Names \ HugePages :
      active[n] # 0 /\ Pending(n) = {} =>
        /\ pc = "add" => \/ active[n] \in ids \cup missed
                         \/ [domid |-> active[n], name |-> n] \in vmlist
        /\ pc \in {"post", "run"} =>
             \/ active[n] \in missed
             \/ [domid |-> active[n], name |-> n] \in vmlist

HInv == IInv /\ Told /\ FoundOrMissed

(* The history adds nothing to what the event thread does. *)
LEMMA HistoryOnly == ASSUME [MNext]_<<vars, missed>> PROVE [Next]_vars
BY DEF MNext, OtherStep, Next, EventThread

(* An attempt to add the present run of a machine is accounted for ... *)
LEMMA TriedIt ==
  ASSUME IInv', NEW n \in Names, active'[n] = active[n], Tried(active[n])
  PROVE  \/ active[n] \in missed'
         \/ [domid |-> active[n], name |-> n] \in vmlist'
<1>1. ASSUME NEW e \in vmlist', e.domid = active[n]
      PROVE  [domid |-> active[n], name |-> n] \in vmlist'
  <2>1. e \in Entry /\ e.name = n
    BY <1>1 DEF IInv, TypeOK, Ids, Dated
  <2> QED BY <1>1, <2>1 DEF Entry
<1> QED BY <1>1 DEF Tried

(* ... and does not touch the account of another. *)
LEMMA TriedOther ==
  ASSUME NEW domid, NEW d, d # domid, Tried(domid), d \in missed
  PROVE  d \in missed'
BY DEF Tried

(* The collection. *)
LEMMA CollectHInv ==
  ASSUME HInv, IInv',
         \/ StartRebuild
         \/ CountDomains /\ missed' = IF pc' = "ask" THEN {} ELSE ActiveIds
         \/ ListDomains /\ missed' = ActiveIds \ ids'
         \/ \E i \in ids : AddCurrentVM(i) /\ Tried(i)
  PROVE  FoundOrMissed'
<1>1. CASE StartRebuild BY <1>1 DEF StartRebuild, FoundOrMissed
<1>2. CASE CountDomains /\ missed' = IF pc' = "ask" THEN {} ELSE ActiveIds
  <2>1. /\ pc' \in {"ask", "post"} /\ active' = active
        /\ pc' = "post" => missed' = ActiveIds
    BY <1>2 DEF CountDomains, worldVars
  <2> QED BY <2>1 DEF FoundOrMissed, ActiveIds
<1>3. CASE ListDomains /\ missed' = ActiveIds \ ids'
  <2>1. pc' = "add" /\ active' = active BY <1>3 DEF ListDomains, worldVars
  <2> QED BY <1>3, <2>1 DEF FoundOrMissed, ActiveIds
<1>4. ASSUME NEW i \in ids, AddCurrentVM(i), Tried(i)
      PROVE  FoundOrMissed'
  <2>1. /\ pc = "add" /\ FindAddVMToList(i) /\ ids' = ids \ {i}
        /\ UNCHANGED <<pc, conn, events, active>>
    BY <1>4 DEF AddCurrentVM, worldVars
  <2>2. vmlist \subseteq vmlist' BY <2>1 DEF FindAddVMToList
  <2> SUFFICES ASSUME conn = "up", NEW n \in Names \ HugePages, active[n] # 0,
                      Pending(n) = {}
               PROVE  \/ active[n] \in ids' \cup missed'
                      \/ [domid |-> active[n], name |-> n] \in vmlist'
    BY <2>1 DEF FoundOrMissed, Pending
  <2>3. CASE active[n] = i BY <1>4, <2>1, <2>3, TriedIt
  <2>4. CASE active[n] # i
    <3>1. \/ active[n] \in ids \cup missed
          \/ [domid |-> active[n], name |-> n] \in vmlist
      BY <2>1 DEF HInv, FoundOrMissed
    <3> QED BY <1>4, <2>1, <2>2, <2>4, <3>1, TriedOther
  <2> QED BY <2>3, <2>4
<1> QED BY <1>1, <1>2, <1>3, <1>4

(* Events are handled. *)
LEMMA EventHInv ==
  ASSUME HInv, IInv', RunEvent,
         IF Head(events).type = "started" THEN Tried(Head(events).domid)
         ELSE UNCHANGED missed
  PROVE  FoundOrMissed'
<1>1. pc = "run" /\ UNCHANGED <<pc, conn, active>>
  BY DEF RunEvent, worldVars
<1>2. ASSUME conn = "up", NEW n \in Names \ HugePages, active[n] # 0,
             Pending(n)' = {}
      PROVE  \/ active[n] \in missed'
             \/ [domid |-> active[n], name |-> n] \in vmlist'
  <2>1. CASE Head(events).type = "started" /\ Head(events).domid = active[n]
    BY <1>1, <2>1, TriedIt
  <2>2. CASE ~(Head(events).type = "started" /\ Head(events).domid = active[n])
    <3>1. /\ Pending(n) = {}
          /\ [domid |-> active[n], name |-> n] \in vmlist =>
               [domid |-> active[n], name |-> n] \in vmlist'
      BY <1>2, <2>2, EventTold DEF HInv
    <3>2. \/ active[n] \in missed
          \/ [domid |-> active[n], name |-> n] \in vmlist
      BY <1>1, <1>2, <3>1 DEF HInv, FoundOrMissed
    <3> QED BY <2>2, <3>1, <3>2, TriedOther
  <2> QED BY <2>1, <2>2
<1> QED BY <1>1, <1>2 DEF FoundOrMissed

(* The other steps. *)
LEMMA OtherHInv ==
  ASSUME HInv, OtherStep \/ Environment, UNCHANGED missed
  PROVE  FoundOrMissed'
<1>1. ASSUME UNCHANGED <<pc, ids, vmlist, conn, events, active>>
      PROVE  FoundOrMissed'
  BY <1>1 DEF HInv, FoundOrMissed, Pending
<1>2. ASSUME pc' \notin {"add", "post", "run"} \/ conn' # "up"
      PROVE  FoundOrMissed'
  BY <1>2 DEF FoundOrMissed
<1>3. CASE OtherStep /\ ~CollectDone /\ ~Ready /\ ~TakeChange
  BY <1>2, <1>3 DEF OtherStep, DropConnection, ConnectLibvirt,
     DomainEventsRegister, NoticeLoss, DomainEventsDeregister
<1>4. CASE CollectDone
  BY <1>4 DEF CollectDone, worldVars, HInv, FoundOrMissed, Pending
<1>5. CASE Ready
  BY <1>5 DEF Ready, worldVars, HInv, FoundOrMissed, Pending
<1>6. CASE TakeChange BY <1>1, <1>6 DEF TakeChange, worldVars
<1>7. CASE LibvirtdGone BY <1>2, <1>7 DEF LibvirtdGone
<1>8. ASSUME NEW n \in Names, MachineStarts(n) \/ MachineStops(n)
      PROVE  FoundOrMissed'
  <2>1. /\ UNCHANGED <<vmlist, pc, ids, conn>>
        /\ \A o \in Names :
             conn = "up" /\ registered /\ Pending(o)' = {} =>
               Pending(o) = {} /\ active'[o] = active[o]
    BY <1>8, ChangeTold DEF HInv, threadVars
  <2>2. pc \in {"add", "post", "run"} => registered BY DEF HInv, IInv, Phases
  <2> QED BY <2>1, <2>2 DEF HInv, FoundOrMissed
<1> QED BY <1>3, <1>4, <1>5, <1>6, <1>7, <1>8 DEF Environment

(***************************************************************************)
(* Whatever fails and whenever machines start: a running machine that the  *)
(* event thread has not in its list, and is not going to be told of, is    *)
(* one that libvirt failed to give when it was last asked.                 *)
(***************************************************************************)
THEOREM MissingAlwaysHasCause == MSpec => []MissingHasCause
<1>1. MInit => HInv
  BY InitIInv DEF MInit, Init, HInv, Told, FoundOrMissed
<1>2. HInv /\ [MNext]_<<vars, missed>> => HInv'
  <2> SUFFICES ASSUME HInv, [MNext]_<<vars, missed>> PROVE HInv' OBVIOUS
  <2>1. IInv' /\ Told' BY HistoryOnly, NextIInv, NextTold DEF HInv
  <2>2. FoundOrMissed'
    <3>1. CASE UNCHANGED <<vars, missed>>
      BY <3>1 DEF vars, threadVars, worldVars, HInv, FoundOrMissed, Pending
    <3> QED BY <2>1, <3>1, CollectHInv, EventHInv, OtherHInv DEF MNext
  <2> QED BY <2>1, <2>2 DEF HInv
<1>3. HInv => MissingHasCause
  BY DEF HInv, IInv, Phases, Told, StartQueued, FoundOrMissed, MissingHasCause
<1> QED BY <1>1, <1>2, <1>3, PTL DEF MSpec
===============================================================================
