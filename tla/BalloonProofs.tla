---------------------------- MODULE BalloonProofs ----------------------------
(***************************************************************************)
(* Proofs about Balloon, for every set of domains, every size of machine,  *)
(* every configuration and any number of faults.                           *)
(***************************************************************************)
EXTENDS Balloon, TLAPS

------------------------------------------------------------------------------
(* The arithmetic. *)

(* The wrap-around difference of two uint64_t is a uint64_t. *)
LEMMA Sub64Type ==
  ASSUME NEW a \in Kib, NEW b \in Kib
  PROVE  Sub64(a, b) \in Kib
BY ConfigAssumption DEF Sub64, Kib

(* What a guest is said to use is a uint64_t, whatever it reports. *)
LEMMA GuestUsedType ==
  ASSUME NEW s \in VmStat
  PROVE  GuestUsed(s.available, s.usable, s.unused) \in Kib
<1>1. s.available \in Kib /\ s.usable \in Kib /\ s.unused \in Kib
  BY DEF VmStat
<1> QED
  BY <1>1, Sub64Type DEF GuestUsed

(***************************************************************************)
(* DoBallooning never asks for a negative size or for more than the        *)
(* machine has, whatever the statistics say.                               *)
(***************************************************************************)
LEMMA BalloonTargetRange ==
  ASSUME NEW memory \in Nat, NEW total \in Int, NEW used \in Int
  PROVE  BalloonTarget(memory, total, used) \in 0 .. memory
<1> DEFINE sum == Signed64((memory - total) + used)
           inUse == sum * g_balloonTargetUsedPercent
           share == memory * g_balloonTargetMaxTotalPercent
<1>1. inUse \in Int /\ share \in Int
  <2>1. sum \in Int
    BY ConfigAssumption DEF Signed64
  <2> QED
    BY <2>1, ConfigAssumption
<1>2. inUse \div 100 \in Int /\ share \div 100 \in Int
  <2> HIDE DEF inUse, share
  <2> QED  BY <1>1
<1>3. BalloonTarget(memory, total, used)
        = MIN(MAX(MAX(inUse \div 100, BALLON_TARGET_RESERVED_KBYTES),
                  share \div 100), memory)
  BY DEF BalloonTarget
<1> DEFINE a == inUse \div 100
           b == share \div 100
<1>4. a \in Int /\ b \in Int
  BY <1>2
<1>5. MIN(MAX(MAX(a, BALLON_TARGET_RESERVED_KBYTES), b), memory) \in 0 .. memory
  <2> HIDE DEF a, b
  <2> QED  BY <1>4 DEF MIN, MAX, BALLON_TARGET_RESERVED_KBYTES
<1> QED
  BY <1>3, <1>5

(* The first step back asks for a size the machine can have. *)
LEMMA BackTargetRange ==
  ASSUME NEW d \in Doms
  PROVE  BackTarget(Memory[d]) \in 0 .. Memory[d]
BY BalloonAssumption DEF BackTarget, BALLOON_BACK_RESERVED_SIZE_KB

LEMMA MemoryType ==
  ASSUME NEW d \in Doms
  PROVE  /\ Memory[d] \in Nat /\ 2 * Memory[d] < WORD /\ Memory[d] \in Kib
         /\ 0 .. Memory[d] \subseteq Kib
BY BalloonAssumption, ConfigAssumption DEF Kib

------------------------------------------------------------------------------
(* The operators on the records keep their types. *)

LEMMA NewTypes ==
  /\ NewVM \in VmInfo
  /\ NoStat \in VmStat
  /\ \A d \in Doms : FullGuest(d) \in Guest
<1>1. 0 \in Kib
  BY BalloonAssumption, ConfigAssumption, MemoryType DEF Kib
<1> QED
  BY <1>1, BalloonAssumption, MemoryType
  DEF NewVM, VmInfo, NoStat, VmStat, FullGuest, Guest

LEMMA SetTargetType ==
  ASSUME NEW d \in Doms, NEW g \in Guest, NEW t \in 0 .. Memory[d], NEW o,
         g.target <= Memory[d], g.actual <= Memory[d]
  PROVE  /\ SetVmBalloonTarget(g, t, o) \in Guest
         /\ SetVmBalloonTarget(g, t, o).target <= Memory[d]
         /\ SetVmBalloonTarget(g, t, o).actual <= Memory[d]
<1>1. t \in Kib /\ t <= Memory[d]
  BY MemoryType
<1> QED
  BY <1>1 DEF SetVmBalloonTarget, Guest

LEMMA MarkIncompleteType ==
  ASSUME NEW v \in VmInfo, NEW s, NEW memory
  PROVE  MarkIncomplete(v, s, memory) \in VmInfo
BY DEF MarkIncomplete, VmInfo

LEMMA RecordPressureType ==
  ASSUME NEW v \in VmInfo, NEW s
  PROVE  RecordPressure(v, s) \in VmInfo
BY BalloonAssumption DEF RecordPressure, VmInfo

LEMMA PressureCountType ==
  ASSUME NEW v \in VmInfo, NEW s
  PROVE  PressureCount(v, s) \in Nat
BY BalloonAssumption DEF PressureCount, VmInfo

LEMMA AfterDoBallooningType ==
  ASSUME NEW v \in VmInfo, NEW t \in Kib, NEW o
  PROVE  AfterDoBallooning(v, t, o) \in VmInfo
<1>1. 0 \in 0 .. (NEED_BALLOON_CHECK_TIMES - 1)
  BY BalloonAssumption
<1>2. (o = "ok") \in BOOLEAN /\ (v.ballooningDown \/ o = "ok") \in BOOLEAN
  OBVIOUS
<1> QED
  BY <1>1, <1>2, Zenon DEF AfterDoBallooning, VmInfo

LEMMA RecordActualType ==
  ASSUME NEW v \in VmInfo, NEW s \in VmStat
  PROVE  RecordActual(v, s) \in VmInfo
<1>1. s.actualBalloon \in Kib /\ v.currentActualBalloon \in [0 .. 1 -> Kib]
      /\ v.balloonI \in 0 .. 1
  BY DEF VmStat, VmInfo
<1>2. [v.currentActualBalloon EXCEPT ![v.balloonI] = s.actualBalloon]
        \in [0 .. 1 -> Kib]
  BY <1>1
<1>3. (v.balloonI + 1) % 2 \in 0 .. 1
  BY <1>1
<1> QED
  BY <1>2, <1>3 DEF RecordActual, VmInfo

LEMMA StopBalloonType ==
  ASSUME NEW v \in VmInfo, NEW s \in VmStat
  PROVE  StopBalloon(v, s) \in VmInfo
<1>1. RecordActual(v, s) \in VmInfo
  BY RecordActualType
<1>2. [RecordActual(v, s) EXCEPT !.needBalloonFlag = 1] \in VmInfo
  <2> DEFINE r == RecordActual(v, s)
  <2>1. r \in VmInfo
    BY <1>1
  <2> HIDE DEF r
  <2>2. [r EXCEPT !.needBalloonFlag = 1] \in VmInfo
    BY <2>1, BalloonAssumption DEF VmInfo
  <2> QED
    BY <2>2 DEF r
<1> QED
  BY <1>2 DEF StopBalloon

LEMMA AfterStepOneType ==
  ASSUME NEW v \in VmInfo, NEW o
  PROVE  AfterStepOne(v, o) \in VmInfo
<1>1. [i \in 0 .. 1 |-> 0] \in [0 .. 1 -> Kib]
  BY ConfigAssumption DEF Kib
<1>2. 0 \in 0 .. 1
  OBVIOUS
<1> DEFINE z == [i \in 0 .. 1 |-> 0]
<1>3. z \in [0 .. 1 -> Kib]
  BY <1>1
<1>4. AfterStepOne(v, o) =
        IF o = "ok" THEN [v EXCEPT !.ballooningDown = FALSE, !.balloonI = 0,
                                   !.currentActualBalloon = z,
                                   !.incompleteBalloon = FALSE]
        ELSE [v EXCEPT !.incompleteBalloon = TRUE]
  BY DEF AfterStepOne
<1> HIDE DEF z
<1> QED
  BY <1>2, <1>3, <1>4 DEF VmInfo

(* The statistics of a guest that can have reported them. *)
LEMMA DomainStatsType ==
  ASSUME NEW d \in Doms, NEW s \in VmStat, NEW r \in Readings,
         hv[d] \in Guest, Plausible(d, r)
  PROVE  GetOneDomainStats(ClearDomainStats(s), hv[d], r) \in VmStat
<1> DEFINE c == ClearDomainStats(s)
           g == hv[d]
<1>1. 0 \in Kib
  BY ConfigAssumption DEF Kib
<1>2. c \in VmStat
  BY <1>1 DEF ClearDomainStats, VmStat
<1>3. g.actual \in Kib /\ g.running \in BOOLEAN /\ g.fpr \in BOOLEAN
  BY DEF Guest
<1>4. r.free \in Nat \ {0}
  BY BalloonAssumption DEF Readings
<1>5. CASE r.kind = "absent"
  BY <1>2, <1>5 DEF GetOneDomainStats
<1>6. CASE r.kind = "partial"
  <2> HIDE DEF c, g
  <2>1. GetOneDomainStats(c, g, r) \in VmStat
    BY <1>2, <1>3, <1>6 DEF GetOneDomainStats, VmStat
  <2> QED
    BY <2>1 DEF c, g
<1>7. CASE r.kind \notin {"absent", "partial"}
  <2>1. r.kind \in {"usable", "unused"}
    BY <1>7, BalloonAssumption DEF Readings
  <2>2. r.free <= g.actual - Unmanaged
    BY <2>1 DEF Plausible
  <2>3. g.actual - Unmanaged \in Kib /\ r.free \in Kib
    BY <2>2, <1>3, <1>4, BalloonAssumption, ConfigAssumption DEF Kib
  <2> HIDE DEF c, g
  <2>4. GetOneDomainStats(c, g, r) \in VmStat
    BY <1>1, <1>2, <1>3, <1>7, <2>3 DEF GetOneDomainStats, VmStat
  <2> QED
    BY <2>4 DEF c, g
<1> QED
  BY <1>5, <1>6, <1>7

------------------------------------------------------------------------------
(* Type correctness. *)

(* A step that gives one guest a legal state keeps the guests' types. *)
LEMMA GuestUpdate ==
  ASSUME GuestTypes, NEW d \in Doms, NEW g \in Guest,
         g.target <= Memory[d], g.actual <= Memory[d],
         hv' = [hv EXCEPT ![d] = g], alive' \subseteq Doms
  PROVE  GuestTypes'
BY DEF GuestTypes

(* The same for a target set through libvirt. *)
LEMMA GuestSet ==
  ASSUME GuestTypes, NEW d \in Doms, NEW t \in 0 .. Memory[d], NEW o,
         hv' = [hv EXCEPT ![d] = SetVmBalloonTarget(@, t, o)],
         alive' = alive
  PROVE  GuestTypes'
<1>1. hv[d] \in Guest /\ hv[d].target <= Memory[d] /\ hv[d].actual <= Memory[d]
  BY DEF GuestTypes
<1>2. hv' = [hv EXCEPT ![d] = SetVmBalloonTarget(hv[d], t, o)]
  BY DEF GuestTypes
<1>3. alive' \subseteq Doms
  BY DEF GuestTypes
<1> QED
  BY <1>1, <1>2, <1>3, SetTargetType, GuestUpdate

LEMMA VmUpdate ==
  ASSUME VmTypes, NEW d \in Doms, NEW v \in VmInfo,
         vm' = [vm EXCEPT ![d] = v], stat' = stat
  PROVE  VmTypes'
BY DEF VmTypes

LEMMA SameGuests ==
  ASSUME GuestTypes, UNCHANGED envVars
  PROVE  GuestTypes'
BY DEF GuestTypes, envVars

LEMMA SameVms ==
  ASSUME VmTypes, UNCHANGED <<vm, stat>>
  PROVE  VmTypes'
BY DEF VmTypes

(* The steps of the environment. *)
LEMMA EnvironmentTypes ==
  ASSUME TypeOK, NEW d \in Doms,
         \/ DomainStart(d) \/ DomainStop(d) \/ DomainSuspend(d)
         \/ DomainResume(d) \/ GuestReboot(d) \/ GuestMove(d)
  PROVE  TypeOK'
<1>1. ControlTypes' /\ VmTypes'
  BY DEF TypeOK, ControlTypes, VmTypes, DomainStart, DomainStop, DomainSuspend,
         DomainResume, GuestReboot, GuestMove, daemonVars
<1>2. hv[d] \in Guest /\ hv[d].target <= Memory[d] /\ hv[d].actual <= Memory[d]
      /\ alive \subseteq Doms /\ GuestTypes
  BY DEF TypeOK, GuestTypes
<1>3. CASE DomainStart(d)
  <2>1. PICK l \in Levels \cup {Memory[d]}, f \in FprKinds :
          /\ l <= Memory[d]
          /\ hv' = [hv EXCEPT ![d] = [target |-> l, actual |-> l,
                                      stuck |-> FALSE, fpr |-> f,
                                      running |-> TRUE]]
    BY <1>3 DEF DomainStart
  <2>2. l \in 0 .. Memory[d]
    BY <2>1, BalloonAssumption, MemoryType
  <2>3. l \in Kib /\ f \in BOOLEAN
    BY <2>2, MemoryType, BalloonAssumption
  <2> DEFINE g == [target |-> l, actual |-> l, stuck |-> FALSE, fpr |-> f,
                   running |-> TRUE]
  <2>4. g \in Guest /\ g.target <= Memory[d] /\ g.actual <= Memory[d]
    BY <2>1, <2>3 DEF Guest
  <2>5. alive' \subseteq Doms
    BY <1>2, <1>3 DEF DomainStart
  <2> QED
    BY <1>1, <1>2, <2>1, <2>4, <2>5, GuestUpdate DEF TypeOK
<1>4. CASE DomainStop(d)
  <2>1. FullGuest(d) \in Guest /\ FullGuest(d).target <= Memory[d]
        /\ FullGuest(d).actual <= Memory[d]
    BY NewTypes, MemoryType DEF FullGuest
  <2>2. hv' = [hv EXCEPT ![d] = FullGuest(d)] /\ alive' \subseteq Doms
    BY <1>2, <1>4 DEF DomainStop
  <2> QED
    BY <1>1, <1>2, <2>1, <2>2, GuestUpdate DEF TypeOK
<1>5. CASE DomainSuspend(d)
  BY <1>1, <1>2, <1>5 DEF DomainSuspend, TypeOK, GuestTypes, Guest
<1>6. CASE DomainResume(d)
  BY <1>1, <1>2, <1>6 DEF DomainResume, TypeOK, GuestTypes, Guest
<1>7. CASE GuestReboot(d)
  <2>1. PICK f \in FprKinds :
          hv' = [hv EXCEPT ![d].stuck = (hv[d].target = Memory[d]
                                           /\ hv[d].actual < Memory[d]),
                           ![d].fpr = f]
    BY <1>7 DEF GuestReboot
  <2> DEFINE b == hv[d].target = Memory[d] /\ hv[d].actual < Memory[d]
             g == [hv[d] EXCEPT !.stuck = b, !.fpr = f]
  <2>2. b \in BOOLEAN /\ f \in BOOLEAN
    BY BalloonAssumption
  <2>3. hv' = [hv EXCEPT ![d] = g]
    BY <1>2, <2>1, Zenon DEF GuestTypes
  <2> HIDE DEF b
  <2>4. g \in Guest /\ g.target <= Memory[d] /\ g.actual <= Memory[d]
    BY <1>2, <2>2 DEF Guest
  <2>5. alive' \subseteq Doms
    BY <1>2, <1>7 DEF GuestReboot
  <2> HIDE DEF g
  <2> QED
    BY <1>1, <1>2, <2>3, <2>4, <2>5, GuestUpdate DEF TypeOK
<1>8. CASE GuestMove(d)
  <2>1. PICK l \in Levels \cup {hv[d].target} :
          /\ \/ hv[d].actual < l /\ l <= hv[d].target
             \/ hv[d].target <= l /\ l < hv[d].actual
          /\ hv' = [hv EXCEPT ![d].actual = l]
    BY <1>8 DEF GuestMove
  <2>2. hv[d].target \in Kib /\ hv[d].actual \in Kib
    BY <1>2 DEF Guest
  <2>3. l \in Kib /\ l <= Memory[d]
    BY <1>2, <2>1, <2>2, BalloonAssumption, MemoryType DEF Kib
  <2>4. hv' = [hv EXCEPT ![d] = [hv[d] EXCEPT !.actual = l]]
    BY <2>1
  <2>5. [hv[d] EXCEPT !.actual = l] \in Guest
        /\ [hv[d] EXCEPT !.actual = l].target <= Memory[d]
        /\ [hv[d] EXCEPT !.actual = l].actual <= Memory[d]
    BY <1>2, <2>3 DEF Guest
  <2>6. alive' \subseteq Doms
    BY <1>2, <1>8 DEF GuestMove
  <2> QED
    BY <1>1, <1>2, <2>4, <2>5, <2>6, GuestUpdate DEF TypeOK
<1> QED
  BY <1>3, <1>4, <1>5, <1>6, <1>7, <1>8

(* What libvirt tells of a guest fits the statistics. *)
LEMMA VmInfoType ==
  ASSUME GuestTypes, NEW d \in Doms, NEW s \in VmStat
  PROVE  GetVmInfo(s, hv[d]) \in VmStat
<1>1. hv[d].actual \in Kib /\ hv[d].running \in BOOLEAN
  BY DEF GuestTypes, Guest
<1> QED
  BY <1>1 DEF GetVmInfo, VmStat

(* A record of a machine that enters the list. *)
LEMMA EntryTypes ==
  ASSUME GuestTypes, NEW d \in Doms, NEW w \in BOOLEAN
  PROVE  /\ [NewVM EXCEPT !.isWindows = w] \in VmInfo
         /\ GetVmInfo(NoStat, hv[d]) \in VmStat
<1>1. NewVM \in VmInfo /\ NoStat \in VmStat
  BY NewTypes
<1>2. [NewVM EXCEPT !.isWindows = w] \in VmInfo
  BY <1>1 DEF VmInfo
<1> QED
  BY <1>1, <1>2, VmInfoType

(* The steps on the list and the connection. *)
LEMMA ListTypes ==
  ASSUME TypeOK,
         \/ \E d \in Doms, w \in BOOLEAN : FindAddVMToList(d, w)
         \/ \E d \in Doms : FindDeleteVMFromList(d)
         \/ NoticeLoss \/ DropConnection \/ OpenConnection \/ RebuildList
         \/ UpdateAllVmInfo \/ LibvirtdGone
  PROVE  TypeOK'
<1>1. ControlTypes' /\ GuestTypes'
  <2>1. UNCHANGED envVars
    BY DEF FindAddVMToList, FindDeleteVMFromList, NoticeLoss, DropConnection,
           OpenConnection, RebuildList, UpdateAllVmInfo, LibvirtdGone
  <2>2. ControlTypes'
    BY DEF TypeOK, ControlTypes, ConnStates, FindAddVMToList,
           FindDeleteVMFromList, NoticeLoss, DropConnection, OpenConnection,
           RebuildList, FreeAllVM, UpdateAllVmInfo, LibvirtdGone
  <2> QED
    BY <2>1, <2>2, SameGuests DEF TypeOK
<1>2. ASSUME NEW d \in Doms, NEW w \in BOOLEAN, FindAddVMToList(d, w)
      PROVE  VmTypes'
  BY <1>2, EntryTypes DEF FindAddVMToList, TypeOK, VmTypes
<1>3. ASSUME NEW d \in Doms, FindDeleteVMFromList(d)
      PROVE  VmTypes'
  BY <1>3, NewTypes DEF FindDeleteVMFromList, TypeOK, VmTypes
<1>4. CASE NoticeLoss \/ DropConnection \/ OpenConnection \/ LibvirtdGone
  BY <1>1, <1>4, SameVms
  DEF NoticeLoss, DropConnection, OpenConnection, LibvirtdGone, TypeOK
<1>5. CASE RebuildList
  BY <1>1, <1>5, NewTypes DEF RebuildList, FreeAllVM, TypeOK, VmTypes
<1>6. CASE UpdateAllVmInfo
  <2>1. \A d \in Doms : GetVmInfo(stat[d], hv[d]) \in VmStat
    BY VmInfoType DEF TypeOK, VmTypes
  <2>2. stat' \in [Doms -> VmStat]
    BY <1>6, <2>1 DEF UpdateAllVmInfo, TypeOK, VmTypes
  <2> QED
    BY <1>1, <1>6, <2>2 DEF UpdateAllVmInfo, TypeOK, VmTypes
<1> QED
  BY <1>1, <1>2, <1>3, <1>4, <1>5, <1>6 DEF TypeOK

(* The steps of BalloonVmMemThread before and after the loop. *)
LEMMA PassTypes ==
  ASSUME TypeOK,
         \/ TestStop \/ UpdateFlags \/ EndPass
         \/ \E r \in [listed -> Readings] : GetAllDomainsStats(r)
  PROVE  TypeOK'
<1>1. ControlTypes' /\ GuestTypes'
  <2>1. UNCHANGED envVars
    BY DEF TestStop, UpdateFlags, EndPass, GetAllDomainsStats
  <2>2. ControlTypes'
    BY DEF TypeOK, ControlTypes, PcStates, TestStop, UpdateFlags, EndPass,
           GetAllDomainsStats
  <2> QED
    BY <2>1, <2>2, SameGuests DEF TypeOK
<1>2. CASE TestStop \/ EndPass
  BY <1>1, <1>2, SameVms DEF TestStop, EndPass, TypeOK
<1>3. CASE UpdateFlags
  <2>1. \A d \in Doms :
          RecordPressure(MarkIncomplete(vm[d], stat[d], Memory[d]), stat[d])
            \in VmInfo
    BY MarkIncompleteType, RecordPressureType DEF TypeOK, VmTypes
  <2> QED
    BY <1>1, <1>3, <2>1 DEF UpdateFlags, TypeOK, VmTypes
<1>4. ASSUME NEW r \in [listed -> Readings], GetAllDomainsStats(r)
      PROVE  VmTypes'
  <2>1. \A d \in listed : GetOneDomainStats(ClearDomainStats(stat[d]), hv[d], r[d])
                            \in VmStat
    <3> SUFFICES ASSUME NEW d \in listed
                 PROVE  GetOneDomainStats(ClearDomainStats(stat[d]), hv[d], r[d])
                          \in VmStat
      OBVIOUS
    <3>1. d \in Doms /\ stat[d] \in VmStat /\ hv[d] \in Guest
      BY DEF TypeOK, ControlTypes, VmTypes, GuestTypes
    <3>2. r[d] \in Readings /\ Plausible(d, r[d])
      BY <1>4 DEF GetAllDomainsStats
    <3> QED
      BY <3>1, <3>2, DomainStatsType
  <2>2. stat' \in [Doms -> VmStat]
    BY <1>4, <2>1 DEF GetAllDomainsStats, TypeOK, VmTypes
  <2> QED
    BY <1>4, <2>2 DEF GetAllDomainsStats, TypeOK, VmTypes
<1> QED
  BY <1>1, <1>2, <1>3, <1>4 DEF TypeOK

(* An iteration of BalloonMainLoop. *)
Iteration(d, o) ==
  \/ Skip(d) \/ CountPressure(d) \/ StartBallooning(d, o)
  \/ KeepBallooning(d) \/ BackStepOne(d, o) \/ BackDone(d)
  \/ BackStepTwo(d, o) \/ BackWait(d)

LEMMA IterationTypes ==
  ASSUME TypeOK, NEW d \in todo, NEW o, Iteration(d, o)
  PROVE  TypeOK'
<1>1. Visit(d)
  BY DEF Iteration, Skip, CountPressure, StartBallooning, KeepBallooning,
         BackStepOne, BackDone, BackStepTwo, BackWait
<1>2. ControlTypes'
  BY <1>1 DEF Visit, TypeOK, ControlTypes
<1>3. d \in Doms /\ stat' = stat /\ alive' = alive /\ VmTypes /\ GuestTypes
  BY <1>1 DEF Visit, TypeOK, ControlTypes
<1>4. vm[d] \in VmInfo /\ stat[d] \in VmStat /\ Memory[d] \in Nat
  BY <1>3, MemoryType DEF VmTypes
<1>5. CASE Skip(d) \/ BackWait(d)
  BY <1>2, <1>3, <1>5, SameGuests, SameVms
  DEF Skip, BackWait, TypeOK, envVars
<1>6. CASE CountPressure(d)
  <2> DEFINE n == PressureCount(vm[d], stat[d])
             v == [vm[d] EXCEPT !.needBalloonFlag = n]
  <2>1. n \in Nat /\ n < NEED_BALLOON_CHECK_TIMES
    BY <1>4, <1>6, PressureCountType DEF CountPressure
  <2>2. n \in 0 .. (NEED_BALLOON_CHECK_TIMES - 1)
    <3> HIDE DEF n
    <3> QED  BY <2>1, BalloonAssumption
  <2>3. v \in VmInfo
    <3> HIDE DEF n
    <3> QED  BY <1>4, <2>2 DEF VmInfo
  <2>4. vm' = [vm EXCEPT ![d] = v] /\ hv' = hv
    BY <1>6 DEF CountPressure
  <2> HIDE DEF n, v
  <2> QED
    BY <1>2, <1>3, <2>3, <2>4, VmUpdate, SameGuests DEF TypeOK, envVars
<1>7. CASE StartBallooning(d, o)
  <2> DEFINE s == stat[d]
             u == GuestUsed(s.available, s.usable, s.unused)
             t == BalloonTarget(Memory[d], s.available, u)
  <2>1. s.available \in Int /\ u \in Int
    BY <1>4, GuestUsedType DEF VmStat, Kib
  <2>2. t \in 0 .. Memory[d]
    BY <1>4, <2>1, BalloonTargetRange
  <2>3. t \in Kib
    BY <1>3, <2>2, MemoryType
  <2>4. /\ vm' = [vm EXCEPT ![d] = AfterDoBallooning(vm[d], t, o)]
        /\ hv' = [hv EXCEPT ![d] = SetVmBalloonTarget(@, t, o)]
    BY <1>7 DEF StartBallooning
  <2> HIDE DEF t
  <2>5. AfterDoBallooning(vm[d], t, o) \in VmInfo
    BY <1>4, <2>3, AfterDoBallooningType
  <2> QED
    BY <1>2, <1>3, <2>2, <2>4, <2>5, VmUpdate, GuestSet DEF TypeOK
<1>8. CASE KeepBallooning(d)
  BY <1>2, <1>3, <1>4, <1>8, RecordActualType, VmUpdate, SameGuests
  DEF KeepBallooning, TypeOK, envVars
<1>9. CASE BackStepOne(d, o)
  <2> DEFINE v == AfterStepOne(StopBalloon(vm[d], stat[d]), o)
  <2>1. v \in VmInfo
    BY <1>4, StopBalloonType, AfterStepOneType
  <2>2. vm' = [vm EXCEPT ![d] = v]
        /\ hv' = [hv EXCEPT ![d] =
                    SetVmBalloonTarget(@, BackTarget(Memory[d]), o)]
    BY <1>9 DEF BackStepOne
  <2> HIDE DEF v
  <2> QED
    BY <1>2, <1>3, <2>1, <2>2, BackTargetRange, VmUpdate, GuestSet DEF TypeOK
<1>10. CASE BackDone(d)
  <2>1. [vm[d] EXCEPT !.ballooning = FALSE] \in VmInfo
    BY <1>4 DEF VmInfo
  <2>2. vm' = [vm EXCEPT ![d] = [vm[d] EXCEPT !.ballooning = FALSE]]
        /\ hv' = hv
    BY <1>10 DEF BackDone
  <2> QED
    BY <1>2, <1>3, <2>1, <2>2, VmUpdate, SameGuests DEF TypeOK, envVars
<1>11. CASE BackStepTwo(d, o)
  <2>1. Memory[d] \in 0 .. Memory[d]
    BY <1>4
  <2>2. hv' = [hv EXCEPT ![d] = SetVmBalloonTarget(@, Memory[d], o)] /\ vm' = vm
    BY <1>11 DEF BackStepTwo
  <2> QED
    BY <1>2, <1>3, <2>1, <2>2, SameVms, GuestSet DEF TypeOK
<1> QED
  BY <1>5, <1>6, <1>7, <1>8, <1>9, <1>10, <1>11 DEF Iteration

(* The daemon starts, is told to stop, and ends. *)
LEMMA LifeTypes ==
  ASSUME TypeOK,
         \/ \E isWin \in SUBSET Windows, found \in SUBSET Doms :
              StartDaemon(isWin, found)
         \/ SignalHandler \/ ExitDaemon \/ Kill
         \/ \E o : BalloonBackVmMem(o)
  PROVE  TypeOK'
<1>1. CASE \E isWin \in SUBSET Windows, found \in SUBSET Doms :
              StartDaemon(isWin, found)
  <2>1. PICK isWin \in SUBSET Windows, found \in SUBSET Doms :
          StartDaemon(isWin, found)
    BY <1>1
  <2>2. ControlTypes' /\ GuestTypes'
    BY <2>1, SameGuests
    DEF StartDaemon, TypeOK, ControlTypes, GuestTypes, ConnStates, PcStates,
        MainStates, envVars
  <2>3. \A d \in Doms :
          /\ [NewVM EXCEPT !.isWindows = (d \in isWin)] \in VmInfo
          /\ GetVmInfo(NoStat, hv[d]) \in VmStat
    <3> SUFFICES ASSUME NEW d \in Doms
                 PROVE  /\ [NewVM EXCEPT !.isWindows = (d \in isWin)] \in VmInfo
                        /\ GetVmInfo(NoStat, hv[d]) \in VmStat
      OBVIOUS
    <3> DEFINE w == d \in isWin
    <3>1. w \in BOOLEAN
      OBVIOUS
    <3> HIDE DEF w
    <3>2. /\ [NewVM EXCEPT !.isWindows = w] \in VmInfo
          /\ GetVmInfo(NoStat, hv[d]) \in VmStat
      BY <3>1, EntryTypes DEF TypeOK
    <3> QED
      BY <3>2, Zenon DEF w
  <2>4. VmTypes'
    BY <2>1, <2>3, NewTypes, Zenon DEF StartDaemon, VmTypes
  <2> QED
    BY <2>2, <2>4 DEF TypeOK
<1>2. CASE SignalHandler
  <2>1. ControlTypes'
    BY <1>2 DEF SignalHandler, TypeOK, ControlTypes
  <2> QED
    BY <1>2, <2>1, SameGuests, SameVms DEF SignalHandler, TypeOK
<1>3. CASE ExitDaemon \/ Kill
  <2>1. ControlTypes'
    BY <1>3
    DEF ExitDaemon, Kill, ProcessGone, FreeAllVM, ControlTypes, ConnStates,
        PcStates, MainStates
  <2>2. VmTypes'
    BY <1>3, NewTypes DEF ExitDaemon, Kill, ProcessGone, FreeAllVM, VmTypes
  <2> QED
    BY <1>3, <2>1, <2>2, SameGuests DEF ExitDaemon, Kill, ProcessGone, TypeOK
<1>4. CASE \E o : BalloonBackVmMem(o)
  <2>1. PICK o : BalloonBackVmMem(o)
    BY <1>4
  <2>2. ControlTypes' /\ VmTypes'
    BY <2>1, SameVms DEF BalloonBackVmMem, TypeOK, ControlTypes, MainStates
  <2>3. \A d \in Doms :
          /\ SetVmBalloonTarget(hv[d], Memory[d], o[d]) \in Guest
          /\ SetVmBalloonTarget(hv[d], Memory[d], o[d]).target <= Memory[d]
          /\ SetVmBalloonTarget(hv[d], Memory[d], o[d]).actual <= Memory[d]
    <3> TAKE d \in Doms
    <3>1. Memory[d] \in 0 .. Memory[d]
      BY MemoryType
    <3> QED
      BY <3>1, SetTargetType DEF TypeOK, GuestTypes
  <2>4. GuestTypes'
    BY <2>1, <2>3 DEF BalloonBackVmMem, TypeOK, GuestTypes
  <2> QED
    BY <2>2, <2>4 DEF TypeOK
<1> QED
  BY <1>1, <1>2, <1>3, <1>4

LEMMA InitTypes == Init => TypeOK
<1> SUFFICES ASSUME Init PROVE TypeOK
  OBVIOUS
<1>1. ControlTypes
  BY DEF Init, ControlTypes, ConnStates, PcStates, MainStates
<1>2. VmTypes
  BY NewTypes DEF Init, VmTypes
<1>3. GuestTypes
  BY NewTypes, MemoryType DEF Init, GuestTypes, FullGuest
<1> QED
  BY <1>1, <1>2, <1>3 DEF TypeOK

(***************************************************************************)
(* The steps of the system, grouped as the lemmas group them.              *)
(***************************************************************************)
LEMMA StepCases ==
  ASSUME TypeOK, Next
  PROVE  \/ \E d \in Doms : \/ DomainStart(d) \/ DomainStop(d)
                            \/ DomainSuspend(d) \/ DomainResume(d)
                            \/ GuestReboot(d) \/ GuestMove(d)
         \/ \E d \in Doms, w \in BOOLEAN : FindAddVMToList(d, w)
         \/ \E d \in Doms : FindDeleteVMFromList(d)
         \/ NoticeLoss \/ DropConnection \/ OpenConnection \/ RebuildList
         \/ UpdateAllVmInfo \/ LibvirtdGone
         \/ TestStop \/ UpdateFlags \/ EndPass
         \/ \E r \in [listed -> Readings] : GetAllDomainsStats(r)
         \/ \E d \in todo, o \in Outcomes : Possible(d, o) /\ Iteration(d, o)
         \/ \E isWin \in SUBSET Windows, found \in SUBSET Doms :
              StartDaemon(isWin, found)
         \/ SignalHandler \/ ExitDaemon \/ Kill
         \/ \E o : BalloonBackVmMem(o)
<1>1. alive \subseteq Doms
  BY DEF TypeOK, GuestTypes
<1>2. \A d : Usual(d) \in Outcomes /\ Possible(d, Usual(d))
  BY DEF Usual, Outcomes, Possible
<1>3. CASE BalloonStep
  BY <1>2, <1>3, Zenon DEF BalloonStep, Iteration
<1>4. CASE EventStep
  BY <1>4, Zenon DEF EventStep
<1>5. CASE MainStep
  BY <1>5, Zenon DEF MainStep
<1>6. CASE Environment
  BY <1>1, <1>6, Zenon DEF Environment
<1>7. CASE Fault
  BY <1>1, <1>7, Zenon DEF Fault, Iteration, Possible
<1> QED
  BY <1>3, <1>4, <1>5, <1>6, <1>7 DEF Next, Normal

LEMMA NextTypes ==
  ASSUME TypeOK, [Next]_vars
  PROVE  TypeOK'
<1>1. CASE Next
  BY <1>1, StepCases, EnvironmentTypes, ListTypes, PassTypes, IterationTypes,
     LifeTypes, Zenon
<1>2. CASE UNCHANGED vars
  BY <1>2
  DEF vars, daemonVars, envVars, TypeOK, ControlTypes, VmTypes, GuestTypes
<1> QED
  BY <1>1, <1>2

(***************************************************************************)
(* Every variable keeps its type: no fault, kill or interleaving makes the *)
(* daemon ask for a size below zero or above the machine's memory, lose    *)
(* the index of the two last sizes, or count past the limit.               *)
(***************************************************************************)
THEOREM TypeCorrect == Spec => []TypeOK
<1>1. Init => TypeOK
  BY InitTypes
<1>2. TypeOK /\ [Next]_vars => TypeOK'
  BY NextTypes
<1> QED
  BY <1>1, <1>2, PTL DEF Spec

------------------------------------------------------------------------------
(***************************************************************************)
(* The flags are truthful.  FlagsTruthful is inductive together with       *)
(* TypeOK: it is its own strengthening, the part on a machine that comes   *)
(* back needing the one that says that the qualifying flags imply          *)
(* `ballooning', and the part on the pass needing the lock.                *)
(***************************************************************************)

(* A step that leaves a machine's record and its target alone. *)
LEMMA FlagsFrame ==
  ASSUME NEW d, MachineFlags(d), vm'[d] = vm[d], hv'[d].target = hv[d].target,
         main' = "run" => main = "run", d \in alive' => d \in alive
  PROVE  MachineFlags(d)'
BY DEF MachineFlags, AskedBack, ComingBack, GoingDown

(* A new record has no flag set. *)
LEMMA FlagsNew ==
  ASSUME NEW d, NEW w, vm'[d] = [NewVM EXCEPT !.isWindows = w] \/ vm'[d] = NewVM
  PROVE  MachineFlags(d)'
<1>1. ~vm'[d].ballooning /\ ~vm'[d].ballooningDown /\ ~vm'[d].incompleteBalloon
  BY DEF NewVM
<1> QED
  BY <1>1 DEF MachineFlags

LEMMA EnvironmentFlags ==
  ASSUME TypeOK, FlagsTruthful, NEW d \in Doms,
         \/ DomainStart(d) \/ DomainStop(d) \/ DomainSuspend(d)
         \/ DomainResume(d) \/ GuestReboot(d) \/ GuestMove(d)
  PROVE  FlagsTruthful'
<1>1. UNCHANGED daemonVars
  BY DEF DomainStart, DomainStop, DomainSuspend, DomainResume, GuestReboot,
         GuestMove
<1>2. SUFFICES ASSUME NEW e \in listed PROVE MachineFlags(e)'
  BY <1>1 DEF FlagsTruthful, LockFree, daemonVars
<1>3. e \in Doms /\ hv \in [Doms -> Guest] /\ hv[d] \in Guest /\ MachineFlags(e)
  BY DEF TypeOK, ControlTypes, GuestTypes, FlagsTruthful
<1>4. vm'[e] = vm[e] /\ main' = main
  BY <1>1 DEF daemonVars
<1>5. CASE DomainStop(d) /\ e = d
  <2>1. hv'[e] = FullGuest(e) /\ e \notin alive'
    BY <1>3, <1>5 DEF DomainStop
  <2>2. hv'[e].target = Memory[e]
    BY <2>1 DEF FullGuest
  <2>3. AskedBack(e)'
    BY <1>3, <2>2, BackTargetRange, MemoryType DEF AskedBack
  <2> QED
    BY <1>3, <1>4, <2>1, <2>3 DEF MachineFlags, ComingBack, GoingDown
<1>6. CASE ~(DomainStop(d) /\ e = d)
  <2>1. hv'[e].target = hv[e].target
    <3>1. CASE e # d
      BY <1>3, <3>1 DEF DomainStart, DomainStop, DomainSuspend, DomainResume,
                        GuestReboot, GuestMove
    <3>2. CASE e = d
      BY <1>3, <1>6, <3>2 DEF DomainStart, DomainSuspend, DomainResume,
                              GuestReboot, GuestMove, Guest
    <3> QED
      BY <3>1, <3>2
  <2>2. e \in alive' => e \in alive
    BY <1>6 DEF DomainStart, DomainStop, DomainSuspend, DomainResume,
                GuestReboot, GuestMove
  <2> QED
    BY <1>3, <1>4, <2>1, <2>2, FlagsFrame
<1> QED
  BY <1>5, <1>6

LEMMA ListFlags ==
  ASSUME TypeOK, FlagsTruthful,
         \/ \E d \in Doms, w \in BOOLEAN : FindAddVMToList(d, w)
         \/ \E d \in Doms : FindDeleteVMFromList(d)
         \/ NoticeLoss \/ DropConnection \/ OpenConnection \/ RebuildList
         \/ UpdateAllVmInfo \/ LibvirtdGone
  PROVE  FlagsTruthful'
<1>1. UNCHANGED <<todo, pc, hv, alive, main>>
  BY DEF FindAddVMToList, FindDeleteVMFromList, NoticeLoss, DropConnection,
         OpenConnection, RebuildList, UpdateAllVmInfo, LibvirtdGone, envVars
<1>2. vm \in [Doms -> VmInfo] /\ listed \subseteq Doms
  BY DEF TypeOK, VmTypes, ControlTypes
<1>3. ASSUME NEW d \in Doms, NEW w \in BOOLEAN, FindAddVMToList(d, w)
      PROVE  FlagsTruthful'
  <2>1. \A e \in listed' : MachineFlags(e)'
    <3> TAKE e \in listed'
    <3>1. CASE e = d
      <4>1. vm'[e] = [NewVM EXCEPT !.isWindows = w]
        BY <1>2, <1>3, <3>1 DEF FindAddVMToList
      <4> QED
        BY <4>1, FlagsNew
    <3>2. CASE e # d
      <4>1. e \in listed /\ vm'[e] = vm[e]
        BY <1>2, <1>3, <3>2 DEF FindAddVMToList
      <4> QED
        BY <1>1, <4>1, FlagsFrame DEF FlagsTruthful
    <3> QED
      BY <3>1, <3>2
  <2> QED
    BY <1>1, <1>3, <2>1 DEF FlagsTruthful, LockFree, FindAddVMToList
<1>4. ASSUME NEW d \in Doms, FindDeleteVMFromList(d)
      PROVE  FlagsTruthful'
  <2>1. \A e \in listed' : MachineFlags(e)'
    <3> TAKE e \in listed'
    <3>1. e \in listed /\ vm'[e] = vm[e]
      BY <1>2, <1>4 DEF FindDeleteVMFromList
    <3> QED
      BY <1>1, <3>1, FlagsFrame DEF FlagsTruthful
  <2> QED
    BY <1>1, <1>4, <2>1 DEF FlagsTruthful, LockFree, FindDeleteVMFromList
<1>5. CASE RebuildList
  BY <1>1, <1>5 DEF RebuildList, FreeAllVM, FlagsTruthful, LockFree
<1>6. CASE \/ NoticeLoss \/ DropConnection \/ OpenConnection
           \/ UpdateAllVmInfo \/ LibvirtdGone
  <2>1. UNCHANGED <<listed, vm>>
    BY <1>6 DEF NoticeLoss, DropConnection, OpenConnection, UpdateAllVmInfo,
                LibvirtdGone
  <2> QED
    BY <1>1, <2>1, FlagsFrame DEF FlagsTruthful, LockFree
<1> QED
  BY <1>3, <1>4, <1>5, <1>6

LEMMA PassFlags ==
  ASSUME TypeOK, FlagsTruthful,
         \/ TestStop \/ UpdateFlags \/ EndPass
         \/ \E r \in [listed -> Readings] : GetAllDomainsStats(r)
  PROVE  FlagsTruthful'
<1>1. UNCHANGED <<listed, hv, alive, main>>
  BY DEF TestStop, UpdateFlags, EndPass, GetAllDomainsStats, envVars
<1>2. CASE \/ TestStop \/ EndPass
           \/ \E r \in [listed -> Readings] : GetAllDomainsStats(r)
  <2>1. UNCHANGED <<vm, todo>>
    BY <1>2 DEF TestStop, EndPass, GetAllDomainsStats
  <2>2. LockFree' => todo' = {}
    BY <1>2, <2>1
    DEF TestStop, EndPass, GetAllDomainsStats, FlagsTruthful, LockFree
  <2> QED
    BY <1>1, <2>1, <2>2, FlagsFrame DEF FlagsTruthful
<1>3. CASE UpdateFlags
  <2>1. \A d \in listed : MachineFlags(d)'
    <3> TAKE d \in listed
    <3> DEFINE v == vm[d]
               m == MarkIncomplete(v, stat[d], Memory[d])
               w == RecordPressure(m, stat[d])
    <3>1. v \in VmInfo /\ vm'[d] = w
      BY <1>3 DEF UpdateFlags, TypeOK, ControlTypes, VmTypes
    <3>2. m \in VmInfo
      BY <3>1, MarkIncompleteType
    <3>3. /\ w.ballooning = m.ballooning /\ w.ballooningDown = m.ballooningDown
          /\ w.incompleteBalloon = m.incompleteBalloon
          /\ w.balloonTarget = m.balloonTarget
      <4> HIDE DEF m
      <4> QED  BY <3>2 DEF RecordPressure, VmInfo
    <3>4. \/ m = v
          \/ ~v.ballooning /\ m.ballooning /\ m.incompleteBalloon
      BY <3>1 DEF MarkIncomplete, VmInfo
    <3>5. MachineFlags(d)
      BY DEF FlagsTruthful
    <3> HIDE DEF m, w
    <3> QED
      BY <1>1, <3>1, <3>3, <3>4, <3>5
      DEF MachineFlags, AskedBack, ComingBack, GoingDown
  <2> QED
    BY <1>1, <1>3, <2>1 DEF UpdateFlags, FlagsTruthful, LockFree
<1> QED
  BY <1>2, <1>3

(* What a call makes of the target. *)
LEMMA SetTargetValue ==
  ASSUME NEW g \in Guest, NEW t, NEW o
  PROVE  SetVmBalloonTarget(g, t, o).target = IF o = "fail" THEN g.target ELSE t
BY DEF SetVmBalloonTarget, Guest

(***************************************************************************)
(* The iteration for d: it leaves the other machines alone, so only d's    *)
(* flags are at stake.                                                     *)
(***************************************************************************)
LEMMA IterationFlags ==
  ASSUME TypeOK, FlagsTruthful, NEW d \in todo, NEW o \in Outcomes,
         Iteration(d, o)
  PROVE  FlagsTruthful'
<1>1. Visit(d)
  BY DEF Iteration, Skip, CountPressure, StartBallooning, KeepBallooning,
         BackStepOne, BackDone, BackStepTwo, BackWait
<1>2. /\ d \in Doms /\ d \in listed /\ listed \subseteq Doms
      /\ vm[d] \in VmInfo /\ stat[d] \in VmStat /\ hv[d] \in Guest
      /\ vm \in [Doms -> VmInfo] /\ hv \in [Doms -> Guest]
      /\ MachineFlags(d)
  BY DEF TypeOK, ControlTypes, VmTypes, GuestTypes, FlagsTruthful
<1>3. UNCHANGED <<listed, alive, main, pc>> /\ todo' = todo \ {d}
  BY <1>1 DEF Visit
<1>4. \A e \in listed \ {d} : vm'[e] = vm[e] /\ hv'[e] = hv[e]
  BY <1>2 DEF Iteration, Skip, CountPressure, StartBallooning, KeepBallooning,
              BackStepOne, BackDone, BackStepTwo, BackWait
<1>5. SUFFICES MachineFlags(d)'
  <2>1. \A e \in listed \ {d} : MachineFlags(e)'
    BY <1>3, <1>4, FlagsFrame DEF FlagsTruthful
  <2> QED
    BY <1>1, <1>3, <2>1 DEF FlagsTruthful, LockFree, Visit
<1>6. CASE Skip(d) \/ BackWait(d)
  BY <1>2, <1>3, <1>6, FlagsFrame DEF Skip, BackWait
<1>7. CASE CountPressure(d)
  <2> DEFINE n == PressureCount(vm[d], stat[d])
  <2>1. vm'[d] = [vm[d] EXCEPT !.needBalloonFlag = n] /\ hv' = hv
    BY <1>2, <1>7 DEF CountPressure
  <2> HIDE DEF n
  <2>2. /\ vm'[d].ballooning = vm[d].ballooning
        /\ vm'[d].ballooningDown = vm[d].ballooningDown
        /\ vm'[d].incompleteBalloon = vm[d].incompleteBalloon
        /\ vm'[d].balloonTarget = vm[d].balloonTarget
    BY <1>2, <2>1 DEF VmInfo
  <2> QED
    BY <1>2, <1>3, <2>1, <2>2 DEF MachineFlags, AskedBack, ComingBack, GoingDown
<1>8. CASE StartBallooning(d, o)
  <2> DEFINE s == stat[d]
             t == BalloonTarget(Memory[d], s.available,
                                GuestUsed(s.available, s.usable, s.unused))
  <2>1. /\ vm'[d] = AfterDoBallooning(vm[d], t, o)
        /\ hv'[d] = SetVmBalloonTarget(hv[d], t, o)
        /\ ~vm[d].ballooning
    BY <1>2, <1>8 DEF StartBallooning, MayBalloon
  <2>2. ~vm[d].ballooningDown /\ ~vm[d].incompleteBalloon
    BY <1>2, <2>1 DEF MachineFlags
  <2> HIDE DEF t
  <2>3. /\ vm'[d].ballooning = (o = "ok")
        /\ vm'[d].ballooningDown = (vm[d].ballooningDown \/ o = "ok")
        /\ vm'[d].incompleteBalloon = vm[d].incompleteBalloon
        /\ vm'[d].balloonTarget = t
    BY <1>2, <2>1, Zenon DEF AfterDoBallooning, VmInfo
  <2>4. CASE o = "ok"
    <3>1. hv'[d].target = t
      BY <1>2, <2>1, <2>4, SetTargetValue
    <3> QED
      BY <2>2, <2>3, <2>4, <3>1 DEF MachineFlags, ComingBack, GoingDown
  <2>5. CASE o # "ok"
    BY <2>2, <2>3, <2>5 DEF MachineFlags, ComingBack, GoingDown
  <2> QED
    BY <2>4, <2>5
<1>9. CASE KeepBallooning(d)
  <2>1. vm'[d] = RecordActual(vm[d], stat[d]) /\ hv' = hv
    BY <1>2, <1>9 DEF KeepBallooning
  <2>2. /\ vm'[d].ballooning = vm[d].ballooning
        /\ vm'[d].ballooningDown = vm[d].ballooningDown
        /\ vm'[d].incompleteBalloon = vm[d].incompleteBalloon
        /\ vm'[d].balloonTarget = vm[d].balloonTarget
    BY <1>2, <2>1, Zenon DEF RecordActual, VmInfo
  <2> QED
    BY <1>2, <1>3, <2>1, <2>2 DEF MachineFlags, AskedBack, ComingBack, GoingDown
<1>10. CASE BackStepOne(d, o)
  <2> DEFINE v == StopBalloon(vm[d], stat[d])
  <2>1. /\ vm'[d] = AfterStepOne(v, o)
        /\ hv'[d] = SetVmBalloonTarget(hv[d], BackTarget(Memory[d]), o)
        /\ vm[d].ballooning
    BY <1>2, <1>10 DEF BackStepOne, Checked
  <2>2. v \in VmInfo
    BY <1>2, StopBalloonType
  <2>3. v.ballooning
    BY <1>2, <2>1, RecordActualType, Zenon DEF StopBalloon, RecordActual, VmInfo
  <2> HIDE DEF v
  <2>4. CASE o = "ok"
    <3>1. /\ vm'[d].ballooning /\ ~vm'[d].ballooningDown
          /\ ~vm'[d].incompleteBalloon
      BY <2>1, <2>2, <2>3, <2>4, Zenon DEF AfterStepOne, VmInfo
    <3>2. hv'[d].target = BackTarget(Memory[d])
      BY <1>2, <2>1, <2>4, SetTargetValue
    <3>3. BackTarget(Memory[d]) >= BackTarget(Memory[d])
      BY <1>2, BackTargetRange, MemoryType
    <3> QED
      BY <3>1, <3>2, <3>3 DEF MachineFlags, AskedBack, ComingBack, GoingDown
  <2>5. CASE o # "ok"
    <3>1. vm'[d].ballooning /\ vm'[d].incompleteBalloon
      BY <2>1, <2>2, <2>3, <2>5, Zenon DEF AfterStepOne, VmInfo
    <3> QED
      BY <3>1 DEF MachineFlags, ComingBack, GoingDown
  <2> QED
    BY <2>4, <2>5
<1>11. CASE BackDone(d)
  <2>1. /\ vm'[d] = [vm[d] EXCEPT !.ballooning = FALSE]
        /\ ComingBack(vm[d])
    BY <1>2, <1>11 DEF BackDone
  <2>2. /\ ~vm'[d].ballooning /\ ~vm'[d].ballooningDown
        /\ ~vm'[d].incompleteBalloon
    BY <1>2, <2>1 DEF ComingBack, VmInfo
  <2> QED
    BY <2>2 DEF MachineFlags
<1>12. CASE BackStepTwo(d, o)
  <2>1. /\ hv'[d] = SetVmBalloonTarget(hv[d], Memory[d], o)
        /\ vm' = vm /\ ComingBack(vm[d]) /\ vm[d].ballooning
    BY <1>2, <1>12 DEF BackStepTwo, Checked
  <2>2. hv'[d].target = Memory[d] \/ hv'[d].target = hv[d].target
    BY <1>2, <2>1, SetTargetValue
  <2>3. AskedBack(d)'
    BY <1>2, <2>1, <2>2, BackTargetRange, MemoryType DEF MachineFlags, AskedBack
  <2> QED
    BY <1>2, <2>1, <2>3 DEF MachineFlags, ComingBack, GoingDown
<1> QED
  BY <1>6, <1>7, <1>8, <1>9, <1>10, <1>11, <1>12 DEF Iteration

LEMMA LifeFlags ==
  ASSUME TypeOK, FlagsTruthful,
         \/ \E isWin \in SUBSET Windows, found \in SUBSET Doms :
              StartDaemon(isWin, found)
         \/ SignalHandler \/ ExitDaemon \/ Kill
         \/ \E o : BalloonBackVmMem(o)
  PROVE  FlagsTruthful'
<1>1. CASE \E isWin \in SUBSET Windows, found \in SUBSET Doms :
              StartDaemon(isWin, found)
  <2>1. PICK isWin \in SUBSET Windows, found \in SUBSET Doms :
          StartDaemon(isWin, found)
    BY <1>1
  <2>2. \A d \in listed' : MachineFlags(d)'
    <3> TAKE d \in listed'
    <3>1. d \in found /\ d \in Doms
      BY <2>1 DEF StartDaemon
    <3>2. vm'[d] = [NewVM EXCEPT !.isWindows = (d \in isWin)]
      BY <2>1, <3>1, Zenon DEF StartDaemon
    <3> QED
      BY <3>2, FlagsNew
  <2> QED
    BY <2>1, <2>2 DEF StartDaemon, FlagsTruthful, LockFree
<1>2. CASE SignalHandler
  <2>1. UNCHANGED <<listed, vm, pc, todo, main, alive, hv>>
    BY <1>2 DEF SignalHandler, envVars
  <2> QED
    BY <2>1, FlagsFrame DEF FlagsTruthful, LockFree
<1>3. CASE ExitDaemon \/ Kill
  BY <1>3 DEF ExitDaemon, Kill, ProcessGone, FreeAllVM, FlagsTruthful, LockFree
<1>4. CASE \E o : BalloonBackVmMem(o)
  <2>1. PICK o : BalloonBackVmMem(o)
    BY <1>4
  <2>2. UNCHANGED <<listed, vm, pc, todo, alive>> /\ main' = "exiting"
    BY <2>1 DEF BalloonBackVmMem
  <2>3. \A d \in listed : MachineFlags(d)'
    <3> TAKE d \in listed
    <3>1. d \in Doms /\ hv[d] \in Guest /\ MachineFlags(d)
      BY DEF TypeOK, ControlTypes, GuestTypes, FlagsTruthful
    <3>2. hv'[d] = SetVmBalloonTarget(hv[d], Memory[d], o[d]) \/ hv'[d] = hv[d]
      BY <2>1, <3>1 DEF BalloonBackVmMem
    <3>3. hv'[d].target = Memory[d] \/ hv'[d].target = hv[d].target
      BY <3>1, <3>2, SetTargetValue
    <3>4. AskedBack(d) => AskedBack(d)'
      BY <3>1, <3>3, BackTargetRange, MemoryType DEF AskedBack
    <3> QED
      BY <2>2, <3>1, <3>4 DEF MachineFlags, ComingBack, GoingDown
  <2> QED
    BY <2>2, <2>3 DEF FlagsTruthful, LockFree
<1> QED
  BY <1>1, <1>2, <1>3, <1>4

LEMMA NextFlags ==
  ASSUME TypeOK, FlagsTruthful, [Next]_vars
  PROVE  FlagsTruthful'
<1>1. CASE Next
  BY <1>1, StepCases, EnvironmentFlags, ListFlags, PassFlags, IterationFlags,
     LifeFlags, Zenon
<1>2. CASE UNCHANGED vars
  <2>1. UNCHANGED <<listed, vm, pc, todo, main, alive, hv>>
    BY <1>2 DEF vars, daemonVars, envVars
  <2> QED
    BY <2>1, FlagsFrame DEF FlagsTruthful, LockFree
<1> QED
  BY <1>1, <1>2

(***************************************************************************)
(* The flags of every machine in the list say truly what libvirt was last  *)
(* asked for, for any number of machines, faults, kills and restarts.      *)
(***************************************************************************)
THEOREM FlagsAlwaysTruthful == Spec => []FlagsTruthful
<1>1. Init => FlagsTruthful
  BY DEF Init, FlagsTruthful, LockFree
<1>2. TypeOK /\ FlagsTruthful /\ [Next]_vars => FlagsTruthful'
  BY NextFlags
<1> QED
  BY <1>1, <1>2, TypeCorrect, PTL DEF Spec

------------------------------------------------------------------------------
(***************************************************************************)
(* The daemon never forgets a balloon.  The step property needs one more   *)
(* invariant, about the restarts: a daemon that is not there has no list,  *)
(* so that no machine is in the list both before and after a start.        *)
(***************************************************************************)
NoListAlone == ~Running => listed = {}

LEMMA NextNoListAlone ==
  ASSUME TypeOK, NoListAlone, [Next]_vars
  PROVE  NoListAlone'
<1>1. ASSUME NEW d \in Doms,
             \/ DomainStart(d) \/ DomainStop(d) \/ DomainSuspend(d)
             \/ DomainResume(d) \/ GuestReboot(d) \/ GuestMove(d)
      PROVE  NoListAlone'
  <2>1. UNCHANGED <<listed, main>>
    BY <1>1 DEF DomainStart, DomainStop, DomainSuspend, DomainResume,
                GuestReboot, GuestMove, daemonVars
  <2> QED
    BY <2>1 DEF NoListAlone, Running
<1>2. CASE \/ \E d \in Doms, w \in BOOLEAN : FindAddVMToList(d, w)
           \/ \E d \in Doms : FindDeleteVMFromList(d)
           \/ NoticeLoss \/ DropConnection \/ OpenConnection \/ RebuildList
           \/ UpdateAllVmInfo \/ LibvirtdGone
  <2>1. main' = main /\ (Running \/ listed' = listed)
    BY <1>2 DEF FindAddVMToList, FindDeleteVMFromList, NoticeLoss, DropConnection,
                OpenConnection, RebuildList, UpdateAllVmInfo, LibvirtdGone
  <2> QED
    BY <2>1 DEF NoListAlone, Running
<1>3. CASE \/ TestStop \/ UpdateFlags \/ EndPass
           \/ \E r \in [listed -> Readings] : GetAllDomainsStats(r)
  BY <1>3 DEF TestStop, UpdateFlags, EndPass, GetAllDomainsStats, NoListAlone,
              Running
<1>4. ASSUME NEW d \in todo, NEW o \in Outcomes, Iteration(d, o)
      PROVE  NoListAlone'
  <2>1. Visit(d)
    BY <1>4 DEF Iteration, Skip, CountPressure, StartBallooning,
                KeepBallooning, BackStepOne, BackDone, BackStepTwo, BackWait
  <2> QED
    BY <2>1 DEF Visit, NoListAlone, Running
<1>5. CASE \/ \E isWin \in SUBSET Windows, found \in SUBSET Doms :
              StartDaemon(isWin, found)
           \/ SignalHandler \/ ExitDaemon \/ Kill
           \/ \E o : BalloonBackVmMem(o)
  BY <1>5 DEF StartDaemon, SignalHandler, ExitDaemon, Kill, ProcessGone,
              FreeAllVM, BalloonBackVmMem, NoListAlone, Running
<1>6. CASE UNCHANGED vars
  BY <1>6 DEF vars, daemonVars, NoListAlone, Running
<1>7. CASE Next
  BY <1>1, <1>2, <1>3, <1>4, <1>5, <1>7, StepCases, Zenon
<1> QED
  BY <1>6, <1>7

(* What a step may never do to a machine that stays in the list. *)
Tended(d) == vm[d].ballooning /\ ~vm'[d].ballooning => AskedBack(d)

LEMMA IterationTends ==
  ASSUME TypeOK, FlagsTruthful, NEW d \in todo, NEW o \in Outcomes,
         Iteration(d, o), NEW e \in listed
  PROVE  Tended(e)
<1>1. /\ e \in Doms /\ d \in Doms /\ vm[d] \in VmInfo /\ stat[d] \in VmStat
      /\ vm \in [Doms -> VmInfo] /\ MachineFlags(e)
  BY DEF TypeOK, ControlTypes, VmTypes, FlagsTruthful
<1>2. CASE e # d
  <2>1. vm'[e] = vm[e]
    BY <1>1, <1>2 DEF Iteration, Skip, CountPressure, StartBallooning,
         KeepBallooning, BackStepOne, BackDone, BackStepTwo, BackWait
  <2> QED
    BY <2>1 DEF Tended
<1>3. CASE e = d
  <2>1. CASE Skip(d) \/ BackStepTwo(d, o) \/ BackWait(d)
    BY <2>1 DEF Skip, BackStepTwo, BackWait, Tended
  <2>2. CASE CountPressure(d) \/ StartBallooning(d, o)
    BY <1>3, <2>2 DEF CountPressure, StartBallooning, MayBalloon, Tended
  <2>3. CASE KeepBallooning(d)
    <3>1. vm'[d] = RecordActual(vm[d], stat[d])
      BY <1>1, <2>3 DEF KeepBallooning
    <3>2. vm'[d].ballooning = vm[d].ballooning
      BY <1>1, <3>1, Zenon DEF RecordActual, VmInfo
    <3> QED
      BY <1>3, <3>2 DEF Tended
  <2>4. CASE BackStepOne(d, o)
    <3> DEFINE v == StopBalloon(vm[d], stat[d])
    <3>1. vm'[d] = AfterStepOne(v, o) /\ vm[d].ballooning
      BY <1>1, <2>4 DEF BackStepOne, Checked
    <3>2. v \in VmInfo
      BY <1>1, StopBalloonType
    <3>3. v.ballooning
      BY <1>1, <3>1, RecordActualType, Zenon
      DEF StopBalloon, RecordActual, VmInfo
    <3> HIDE DEF v
    <3>4. vm'[d].ballooning
      BY <3>1, <3>2, <3>3, Zenon DEF AfterStepOne, VmInfo
    <3> QED
      BY <1>3, <3>4 DEF Tended
  <2>5. CASE BackDone(d)
    BY <1>1, <1>3, <2>5 DEF BackDone, MachineFlags, Tended
  <2> QED
    BY <2>1, <2>2, <2>3, <2>4, <2>5 DEF Iteration
<1> QED
  BY <1>2, <1>3

LEMMA StepTends ==
  ASSUME TypeOK, FlagsTruthful, NoListAlone, [Next]_vars,
         NEW e \in listed \cap listed'
  PROVE  Tended(e)
<1>1. e \in Doms /\ vm \in [Doms -> VmInfo] /\ vm[e] \in VmInfo
  BY DEF TypeOK, ControlTypes, VmTypes
<1>2. CASE vm'[e] = vm[e]
  BY <1>2 DEF Tended
<1>3. ASSUME NEW d \in Doms,
             \/ DomainStart(d) \/ DomainStop(d) \/ DomainSuspend(d)
             \/ DomainResume(d) \/ GuestReboot(d) \/ GuestMove(d)
      PROVE  Tended(e)
  BY <1>2, <1>3 DEF DomainStart, DomainStop, DomainSuspend, DomainResume,
                    GuestReboot, GuestMove, daemonVars
<1>4. ASSUME NEW d \in Doms, NEW w \in BOOLEAN, FindAddVMToList(d, w)
      PROVE  Tended(e)
  <2>1. e # d /\ vm' = [vm EXCEPT ![d] = [NewVM EXCEPT !.isWindows = w]]
    BY <1>4 DEF FindAddVMToList
  <2> QED
    BY <1>1, <1>2, <2>1
<1>5. ASSUME NEW d \in Doms, FindDeleteVMFromList(d)
      PROVE  Tended(e)
  <2>1. e # d /\ vm' = [vm EXCEPT ![d] = NewVM]
    BY <1>5 DEF FindDeleteVMFromList
  <2> QED
    BY <1>1, <1>2, <2>1
<1>6. CASE RebuildList
  BY <1>6 DEF RebuildList, FreeAllVM
<1>7. CASE \/ NoticeLoss \/ DropConnection \/ OpenConnection \/ UpdateAllVmInfo
           \/ LibvirtdGone
  BY <1>2, <1>7 DEF NoticeLoss, DropConnection, OpenConnection, UpdateAllVmInfo,
                    LibvirtdGone
<1>8. CASE \/ TestStop \/ EndPass
           \/ \E r \in [listed -> Readings] : GetAllDomainsStats(r)
  BY <1>2, <1>8 DEF TestStop, EndPass, GetAllDomainsStats
<1>9. CASE UpdateFlags
  <2> DEFINE m == MarkIncomplete(vm[e], stat[e], Memory[e])
  <2>1. vm'[e] = RecordPressure(m, stat[e])
    BY <1>1, <1>9 DEF UpdateFlags
  <2>2. m \in VmInfo
    BY <1>1, MarkIncompleteType
  <2>3. vm[e].ballooning => m.ballooning
    BY <1>1 DEF MarkIncomplete, VmInfo
  <2> HIDE DEF m
  <2>4. vm'[e].ballooning = m.ballooning
    BY <2>1, <2>2 DEF RecordPressure, VmInfo
  <2> QED
    BY <2>3, <2>4 DEF Tended
<1>10. ASSUME NEW d \in todo, NEW o \in Outcomes, Iteration(d, o)
       PROVE  Tended(e)
  BY <1>10, IterationTends
<1>11. CASE \E isWin \in SUBSET Windows, found \in SUBSET Doms :
              StartDaemon(isWin, found)
  BY <1>11 DEF StartDaemon, NoListAlone, Running
<1>12. CASE SignalHandler \/ \E o : BalloonBackVmMem(o)
  BY <1>2, <1>12 DEF SignalHandler, BalloonBackVmMem
<1>13. CASE ExitDaemon \/ Kill
  BY <1>13 DEF ExitDaemon, Kill, ProcessGone, FreeAllVM
<1>14. CASE UNCHANGED vars
  BY <1>2, <1>14 DEF vars, daemonVars
<1>15. CASE Next
  BY <1>3, <1>4, <1>5, <1>6, <1>7, <1>8, <1>9, <1>10, <1>11, <1>12, <1>13,
     <1>15, StepCases, Zenon
<1> QED
  BY <1>14, <1>15

(***************************************************************************)
(* No step makes the daemon give a machine of its list up before it has    *)
(* asked libvirt for the machine's memory back.                            *)
(***************************************************************************)
THEOREM NeverForgotten == Spec => NeverForgets
<1> DEFINE A == \A d \in listed \cap listed' :
                  vm[d].ballooning /\ ~vm'[d].ballooning => AskedBack(d)
<1>1. Init => NoListAlone
  BY DEF Init, NoListAlone
<1>2. TypeOK /\ NoListAlone /\ [Next]_vars => NoListAlone'
  BY NextNoListAlone
<1>3. TypeOK /\ FlagsTruthful /\ NoListAlone /\ [Next]_vars => [A]_vars
  BY StepTends DEF Tended
<1> QED
  BY <1>1, <1>2, <1>3, TypeCorrect, FlagsAlwaysTruthful, PTL
  DEF Spec, NeverForgets
==============================================================================
