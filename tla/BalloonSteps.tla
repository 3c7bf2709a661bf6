----------------------------- MODULE BalloonSteps -----------------------------
(***************************************************************************)
(* What the controller may ask of a guest, for every instance: a target    *)
(* that it lowers leaves enough, and all the memory is only asked back in  *)
(* the second of two steps.                                                *)
(***************************************************************************)
EXTENDS BalloonProofs

(* MachineFlags of a listed machine, where it comes back. *)
Returning(d) == vm[d].ballooning /\ ComingBack(vm[d])

(* A size that is known and within 2 MiB of the machine's memory. *)
NearlyBack(d, size) == size # 0 /\ size >= BackTarget(Memory[d])

(***************************************************************************)
(* The statistics of a pass are old when they are used, but for a machine  *)
(* that is still to be visited and on its way back they do not flatter:    *)
(* it was nearly back when they were read and has not moved away since.    *)
(* Without a connection older ones are used, but no call succeeds.         *)
(***************************************************************************)
Fresh ==
  conn = "up" /\ pc \in {"flags", "loop"} =>
    \A d \in listed \cap alive :
      /\ pc = "loop" => d \in todo
      /\ Returning(d) /\ NearlyBack(d, stat[d].actualBalloon)
      => hv[d].actual >= BackTarget(Memory[d])

------------------------------------------------------------------------------
(* Arithmetic of DoBallooning. *)

(* A percentage of at least 100 of a number takes nothing away. *)
LEMMA Enlarges ==
  ASSUME NEW n \in Nat, NEW p \in Nat, p >= 100
  PROVE  (n * p) \div 100 >= n
<1>1. n * p >= n * 100 /\ n * p \in Nat OBVIOUS
<1> DEFINE m == n * p
<1>2. m \in Nat /\ m >= n * 100 BY <1>1
<1> HIDE DEF m
<1>3. m \div 100 >= n BY <1>2
<1> QED BY <1>3 DEF m

(***************************************************************************)
(* The target of DoBallooning is all the memory, or it leaves the reserve  *)
(* and whatever is not free, also where the difference wraps around.       *)
(***************************************************************************)
LEMMA TargetLeaves ==
  ASSUME NEW memory \in Nat, 2 * memory < WORD, NEW total \in Kib, NEW free \in Kib
  PROVE  LET target == BalloonTarget(memory, total, Sub64(total, free))
         IN  target < memory =>
               /\ target >= BALLON_TARGET_RESERVED_KBYTES
               /\ target >= (memory * g_balloonTargetMaxTotalPercent) \div 100
               /\ target >= memory - free
<1> DEFINE inUse == Signed64((memory - total) + Sub64(total, free))
           a == (inUse * g_balloonTargetUsedPercent) \div 100
           b == (memory * g_balloonTargetMaxTotalPercent) \div 100
<1>1. inUse \in Int /\ inUse >= memory - free
  BY ConfigAssumption DEF Sub64, Signed64, Kib
<1>2. a \in Int /\ b \in Int
  <2>1. /\ inUse * g_balloonTargetUsedPercent \in Int
        /\ memory * g_balloonTargetMaxTotalPercent \in Int
    BY <1>1, ConfigAssumption
  <2> QED BY <2>1
<1>3. inUse \in Nat => a >= inUse
  <2>1. g_balloonTargetUsedPercent \in Nat /\ g_balloonTargetUsedPercent >= 100
    BY ConfigAssumption
  <2> HIDE DEF inUse
  <2> QED BY <2>1, Enlarges
<1>4. BalloonTarget(memory, total, Sub64(total, free))
        = MIN(MAX(MAX(a, BALLON_TARGET_RESERVED_KBYTES), b), memory)
  BY DEF BalloonTarget
<1>5. free \in Nat BY ConfigAssumption DEF Kib
<1> HIDE DEF a, b, inUse
<1>6. LET target == MIN(MAX(MAX(a, BALLON_TARGET_RESERVED_KBYTES), b), memory)
      IN  target < memory => /\ target >= BALLON_TARGET_RESERVED_KBYTES
                             /\ target >= b /\ target >= a
  BY <1>2 DEF MIN, MAX, BALLON_TARGET_RESERVED_KBYTES
<1>7. LET target == MIN(MAX(MAX(a, BALLON_TARGET_RESERVED_KBYTES), b), memory)
      IN  target \in Int
  BY <1>2 DEF MIN, MAX, BALLON_TARGET_RESERVED_KBYTES
<1>8. LET target == MIN(MAX(MAX(a, BALLON_TARGET_RESERVED_KBYTES), b), memory)
      IN  target < memory => target >= memory - free
  BY <1>1, <1>2, <1>3, <1>5, <1>6, <1>7 DEF BALLON_TARGET_RESERVED_KBYTES
<1> QED BY <1>4, <1>6, <1>8 DEF b

------------------------------------------------------------------------------
(* LeavesEnough. *)

(* A target is lowered by DoBallooning or by the first step back. *)
Enough(d) ==
  hv'[d].target < hv[d].target =>
    \/ hv'[d].target = BackTarget(Memory[d])
    \/ /\ hv'[d].target >= Reserve(d)
       /\ hv'[d].target >= Memory[d] - ReportedFree(stat[d])

(* DoBallooning asks for the target of the statistics it has. *)
LEMMA StartLeaves ==
  ASSUME TypeOK, NEW d \in Doms, NEW o, StartBallooning(d, o)
  PROVE  Enough(d)
<1> DEFINE s == stat[d]
           free == ReportedFree(s)
           target == BalloonTarget(Memory[d], s.available,
                                   Sub64(s.available, free))
<1>1. hv' = [hv EXCEPT ![d] = SetVmBalloonTarget(@, target, o)]
  BY DEF StartBallooning, GuestUsed, ReportedFree
<1>2. /\ s.available \in Kib /\ free \in Kib
      /\ hv[d] \in Guest /\ hv[d].target <= Memory[d]
  BY DEF TypeOK, VmTypes, GuestTypes, VmStat, ReportedFree
<1>3. Memory[d] \in Nat /\ 2 * Memory[d] < WORD BY MemoryType
<1>4. target < Memory[d] =>
        /\ target >= BALLON_TARGET_RESERVED_KBYTES
        /\ target >= (Memory[d] * g_balloonTargetMaxTotalPercent) \div 100
        /\ target >= Memory[d] - free
  BY <1>2, <1>3, TargetLeaves
<1>5. target \in 0 .. Memory[d]
  <2>1. Sub64(s.available, free) \in Kib BY <1>2, Sub64Type
  <2>2. s.available \in Int /\ Sub64(s.available, free) \in Int
    BY <1>2, <2>1, ConfigAssumption DEF Kib
  <2> QED BY <1>3, <2>2, BalloonTargetRange
<1>6. target < Memory[d] => target >= Reserve(d) BY <1>4 DEF Reserve, MAX
<1> HIDE DEF target, free, s
<1>7. hv'[d].target = hv[d].target \/ hv'[d].target = target
  BY <1>1, <1>2 DEF SetVmBalloonTarget, Guest, TypeOK, GuestTypes
<1>8. hv[d].target \in Nat BY <1>2, ConfigAssumption DEF Guest, Kib
<1> QED BY <1>2, <1>3, <1>4, <1>5, <1>6, <1>7, <1>8 DEF Enough, free, s

(* Every step of the system. *)
LEMMA StepLeaves ==
  ASSUME TypeOK, [Next]_vars, NEW e \in alive \cap alive'
  PROVE  Enough(e)
<1>1. /\ e \in Doms /\ hv \in [Doms -> Guest] /\ hv[e].target \in Nat
      /\ Memory[e] \in Nat /\ hv[e].target <= Memory[e]
  BY MemoryType, ConfigAssumption DEF TypeOK, GuestTypes, Guest, Kib
<1>2. CASE hv'[e].target = hv[e].target
  BY <1>1, <1>2 DEF Enough
<1>3. CASE hv'[e].target \in {Memory[e], BackTarget(Memory[e])}
  BY <1>1, <1>3 DEF Enough
<1>4. ASSUME NEW d \in Doms,
             \/ DomainStart(d) \/ DomainStop(d) \/ DomainSuspend(d)
             \/ DomainResume(d) \/ GuestReboot(d) \/ GuestMove(d)
      PROVE  hv'[e].target = hv[e].target
  BY <1>1, <1>4 DEF DomainStart, DomainStop, DomainSuspend, DomainResume,
                    GuestReboot, GuestMove, Guest
<1>5. ASSUME NEW d \in todo, NEW o, Iteration(d, o)
      PROVE  Enough(e)
  <2>1. d \in Doms BY DEF TypeOK, ControlTypes
  <2>2. CASE d = e /\ StartBallooning(d, o) BY <2>1, <2>2, StartLeaves
  <2>3. CASE d = e /\ BackStepOne(d, o)
    <3>1. hv' = [hv EXCEPT ![d] = SetVmBalloonTarget(@, BackTarget(Memory[d]), o)]
      BY <2>3 DEF BackStepOne
    <3>2. hv'[e].target \in {hv[e].target, BackTarget(Memory[e])}
      BY <1>1, <2>3, <3>1 DEF SetVmBalloonTarget, Guest
    <3> QED BY <1>2, <1>3, <3>2
  <2>4. CASE d = e /\ BackStepTwo(d, o)
    <3>1. hv' = [hv EXCEPT ![d] = SetVmBalloonTarget(@, Memory[d], o)]
      BY <2>4 DEF BackStepTwo
    <3>2. hv'[e].target \in {hv[e].target, Memory[e]}
      BY <1>1, <2>4, <3>1 DEF SetVmBalloonTarget, Guest
    <3> QED BY <1>2, <1>3, <3>2
  <2>5. CASE \/ d # e \/ Skip(d) \/ CountPressure(d) \/ KeepBallooning(d)
             \/ BackDone(d) \/ BackWait(d)
    <3>1. hv'[e] = hv[e]
      BY <1>1, <1>5, <2>5 DEF Iteration, Skip, CountPressure, StartBallooning,
         KeepBallooning, BackStepOne, BackDone, BackStepTwo, BackWait
    <3> QED BY <1>2, <3>1
  <2> QED BY <1>5, <2>2, <2>3, <2>4, <2>5 DEF Iteration
<1>6. ASSUME NEW o, BalloonBackVmMem(o)
      PROVE  hv'[e].target \in {hv[e].target, Memory[e]}
  BY <1>1, <1>6 DEF BalloonBackVmMem, SetVmBalloonTarget, Guest
<1>7. CASE \/ \E d \in Doms, w \in BOOLEAN : FindAddVMToList(d, w)
           \/ \E d \in Doms : FindDeleteVMFromList(d)
           \/ NoticeLoss \/ DropConnection \/ OpenConnection \/ RebuildList
           \/ UpdateAllVmInfo \/ LibvirtdGone
           \/ TestStop \/ UpdateFlags \/ EndPass
           \/ \E r \in [listed -> Readings] : GetAllDomainsStats(r)
           \/ \E isWin \in SUBSET Windows, found \in SUBSET Doms :
              StartDaemon(isWin, found)
           \/ SignalHandler \/ ExitDaemon \/ Kill
  <2>1. hv' = hv
    BY <1>7 DEF FindAddVMToList, FindDeleteVMFromList, NoticeLoss,
       DropConnection, OpenConnection, RebuildList, UpdateAllVmInfo,
       LibvirtdGone, TestStop, UpdateFlags, EndPass, GetAllDomainsStats,
       StartDaemon, SignalHandler, ExitDaemon, Kill, ProcessGone, envVars
  <2> QED BY <1>2, <2>1
<1>8. CASE UNCHANGED vars BY <1>2, <1>8 DEF vars, envVars
<1>9. CASE Next
  BY <1>2, <1>3, <1>4, <1>5, <1>6, <1>7, <1>9, StepCases, Zenon
<1> QED BY <1>8, <1>9

(***************************************************************************)
(* Whatever the statistics say, DoBallooning leaves a guest the reserve    *)
(* and what it does not report as free.                                    *)
(***************************************************************************)
THEOREM AlwaysLeavesEnough == Spec => LeavesEnough
<1> DEFINE A == \A d \in alive \cap alive' :
                  hv'[d].target < hv[d].target =>
                    \/ hv'[d].target = BackTarget(Memory[d])
                    \/ /\ hv'[d].target >= Reserve(d)
                       /\ hv'[d].target >= Memory[d] - ReportedFree(stat[d])
<1>1. TypeOK /\ [Next]_vars => [A]_vars BY StepLeaves DEF Enough
<1> QED BY <1>1, TypeCorrect, PTL DEF Spec, LeavesEnough

------------------------------------------------------------------------------
(* TwoStep. *)

(* What a step may not disturb for a machine whose statistics are old. *)
LEMMA FreshFrame ==
  ASSUME Fresh,
         conn' = "up" => conn = "up" \/ listed' = {},
         pc' \in {"flags", "loop"} =>
           pc = pc' \/ (pc = "flags" /\ pc' = "loop" /\ todo' = listed),
         \A d \in listed' \cap alive' :
           NearlyBack(d, stat'[d].actualBalloon) /\ Returning(d)' =>
             /\ d \in listed \cap alive /\ Returning(d)
             /\ stat[d].actualBalloon = stat'[d].actualBalloon
             /\ hv[d].actual >= BackTarget(Memory[d]) =>
                  hv'[d].actual >= BackTarget(Memory[d]),
         pc' = "loop" /\ pc = "loop" => todo' \subseteq todo
  PROVE  Fresh'
BY DEF Fresh, NearlyBack

(* The guests: one that comes back moves towards at least BackTarget. *)
LEMMA EnvironmentFresh ==
  ASSUME TypeOK, FlagsTruthful, Fresh, NEW d \in Doms,
         \/ DomainStart(d) \/ DomainStop(d) \/ DomainSuspend(d)
         \/ DomainResume(d) \/ GuestReboot(d) \/ GuestMove(d)
  PROVE  Fresh'
<1>1. UNCHANGED daemonVars
  BY DEF DomainStart, DomainStop, DomainSuspend, DomainResume, GuestReboot,
         GuestMove
<1>2. UNCHANGED <<listed, vm, stat, conn, pc, todo>> BY <1>1 DEF daemonVars
<1>3. ASSUME NEW e \in listed \cap alive', Returning(e)
      PROVE  /\ e \in alive
             /\ hv[e].actual >= BackTarget(Memory[e]) =>
                  hv'[e].actual >= BackTarget(Memory[e])
  <2>1. /\ e \in Doms /\ hv[e] \in Guest /\ hv \in [Doms -> Guest]
        /\ hv[e].target >= BackTarget(Memory[e])
        /\ BackTarget(Memory[e]) \in Nat
        /\ hv[e].target \in Nat /\ hv[e].actual \in Nat
    <3>1. e \in Doms /\ hv[e] \in Guest /\ hv \in [Doms -> Guest]
      BY <1>3 DEF TypeOK, ControlTypes, GuestTypes
    <3>2. hv[e].target \in Nat /\ hv[e].actual \in Nat
      BY <3>1, ConfigAssumption DEF Guest, Kib
    <3>3. BackTarget(Memory[e]) \in Nat BY <3>1, BackTargetRange, MemoryType
    <3>4. hv[e].target >= BackTarget(Memory[e])
      BY <1>3 DEF FlagsTruthful, MachineFlags, AskedBack, Returning
    <3> QED BY <3>1, <3>2, <3>3, <3>4
  <2>2. e \in alive
    BY <1>3 DEF DomainStart, DomainStop, DomainSuspend, DomainResume,
                GuestReboot, GuestMove
  <2>3. CASE hv'[e].actual = hv[e].actual BY <2>2, <2>3
  <2>4. CASE d = e /\ GuestMove(d)
    <3>1. PICK l \in Levels \cup {hv[d].target} :
            /\ \/ hv[d].actual < l /\ l <= hv[d].target
               \/ hv[d].target <= l /\ l < hv[d].actual
            /\ hv' = [hv EXCEPT ![d].actual = l]
      BY <2>4 DEF GuestMove
    <3>2. hv'[e].actual = l /\ l \in Nat
      BY <2>1, <2>4, <3>1, BalloonAssumption DEF Guest
    <3> QED BY <2>1, <2>2, <2>4, <3>1, <3>2
  <2>5. CASE d # e \/ ~GuestMove(d)
    <3>1. hv'[e].actual = hv[e].actual
      BY <1>3, <2>1, <2>2, <2>5 DEF DomainStart, DomainStop, DomainSuspend,
         DomainResume, GuestReboot, GuestMove, Guest
    <3> QED BY <2>2, <3>1
  <2> QED BY <2>4, <2>5
<1>4. \A e : Returning(e)' <=> Returning(e) BY <1>2 DEF Returning, ComingBack
<1> QED BY <1>2, <1>3, <1>4, FreshFrame

(* The list and the connection: a new entry has no size yet. *)
LEMMA ListFresh ==
  ASSUME TypeOK, Fresh,
         \/ \E d \in Doms, w \in BOOLEAN : FindAddVMToList(d, w)
         \/ \E d \in Doms : FindDeleteVMFromList(d)
         \/ NoticeLoss \/ DropConnection \/ OpenConnection \/ RebuildList
         \/ UpdateAllVmInfo \/ LibvirtdGone
  PROVE  Fresh'
<1>1. UNCHANGED <<pc, todo, hv, alive>>
  BY DEF FindAddVMToList, FindDeleteVMFromList, NoticeLoss, DropConnection,
         OpenConnection, RebuildList, UpdateAllVmInfo, LibvirtdGone, envVars
<1>2. vm \in [Doms -> VmInfo] /\ stat \in [Doms -> VmStat] /\ listed \subseteq Doms
  BY DEF TypeOK, VmTypes, ControlTypes
<1>3. ASSUME NEW d \in Doms, NEW w, FindAddVMToList(d, w) PROVE Fresh'
  <2>1. /\ conn' = conn /\ listed' = listed \cup {d}
        /\ vm' = [vm EXCEPT ![d] = [NewVM EXCEPT !.isWindows = w]]
        /\ stat' = [stat EXCEPT ![d] = GetVmInfo(NoStat, hv[d])]
    BY <1>3 DEF FindAddVMToList
  <2>2. stat'[d].actualBalloon = 0 BY <1>2, <2>1 DEF GetVmInfo, NoStat
  <2>3. \A e \in listed \ {d} : vm'[e] = vm[e] /\ stat'[e] = stat[e]
    BY <1>2, <2>1
  <2> QED BY <1>1, <2>1, <2>2, <2>3, FreshFrame
          DEF NearlyBack, Returning, ComingBack
<1>4. ASSUME NEW d \in Doms, FindDeleteVMFromList(d) PROVE Fresh'
  <2>1. /\ conn' = conn /\ listed' = listed \ {d}
        /\ vm' = [vm EXCEPT ![d] = NewVM] /\ stat' = [stat EXCEPT ![d] = NoStat]
    BY <1>4 DEF FindDeleteVMFromList
  <2>2. \A e \in listed' : vm'[e] = vm[e] /\ stat'[e] = stat[e]
    BY <1>2, <2>1
  <2> QED BY <1>1, <2>1, <2>2, FreshFrame DEF Returning, ComingBack
<1>5. CASE RebuildList
  BY <1>1, <1>5 DEF RebuildList, FreeAllVM, Fresh
<1>6. CASE UpdateAllVmInfo
  <2>1. UNCHANGED <<listed, vm, conn>> BY <1>6 DEF UpdateAllVmInfo
  <2>2. \A e \in listed : stat'[e].actualBalloon = stat[e].actualBalloon
    BY <1>2, <1>6 DEF UpdateAllVmInfo, GetVmInfo, VmStat
  <2> QED BY <1>1, <2>1, <2>2, FreshFrame DEF Returning, ComingBack
<1>7. CASE NoticeLoss \/ DropConnection \/ OpenConnection \/ LibvirtdGone
  BY <1>7 DEF NoticeLoss, DropConnection, OpenConnection, LibvirtdGone, Fresh
<1> QED BY <1>3, <1>4, <1>5, <1>6, <1>7

(* The statistics are read: what they say of a machine is its size. *)
LEMMA StatsFresh ==
  ASSUME TypeOK, NEW r, GetAllDomainsStats(r)
  PROVE  Fresh'
<1>1. /\ pc' = "flags"
      /\ UNCHANGED <<listed, vm, conn, alive, hv>>
      /\ stat' = [d \in Doms |->
                    IF conn = "null" \/ d \notin listed THEN stat[d]
                    ELSE GetOneDomainStats(ClearDomainStats(stat[d]),
                                           hv[d], r[d])]
  BY DEF GetAllDomainsStats, envVars
<1>2. SUFFICES ASSUME conn = "up", NEW d \in listed
               PROVE  stat'[d].actualBalloon \in {0, hv[d].actual}
  BY <1>1 DEF Fresh, NearlyBack
<1>3. d \in Doms /\ stat[d] \in VmStat /\ hv[d] \in Guest
  BY <1>2 DEF TypeOK, ControlTypes, VmTypes, GuestTypes
<1>4. stat'[d] = GetOneDomainStats(ClearDomainStats(stat[d]), hv[d], r[d])
  BY <1>1, <1>2, <1>3
<1> DEFINE s == ClearDomainStats(stat[d])
<1>5. s \in VmStat /\ s.actualBalloon = 0
  <2>1. 0 \in Kib BY ConfigAssumption DEF Kib
  <2> QED BY <1>3, <2>1 DEF ClearDomainStats, VmStat
<1> HIDE DEF s
<1>6. GetOneDomainStats(s, hv[d], r[d]).actualBalloon \in {0, hv[d].actual}
  BY <1>3, <1>5 DEF GetOneDomainStats, VmStat, Guest
<1> QED BY <1>4, <1>6 DEF s

(* The rest of the pass: nothing new comes back. *)
LEMMA PassFresh ==
  ASSUME TypeOK, FlagsTruthful, Fresh,
         \/ TestStop \/ UpdateFlags \/ EndPass
         \/ \E r \in [listed -> Readings] : GetAllDomainsStats(r)
  PROVE  Fresh'
<1>1. CASE TestStop \/ EndPass
  BY <1>1 DEF TestStop, EndPass, Fresh
<1>2. CASE UpdateFlags
  <2>1. /\ UNCHANGED <<listed, stat, conn, alive, hv>>
        /\ pc = "flags" /\ pc' = "loop" /\ todo' = listed
        /\ vm' = [d \in Doms |->
                    IF d \in listed
                    THEN RecordPressure(MarkIncomplete(vm[d], stat[d],
                                                       Memory[d]), stat[d])
                    ELSE vm[d]]
    BY <1>2 DEF UpdateFlags, envVars
  <2>2. ASSUME NEW d \in listed, Returning(d)' PROVE Returning(d)
    <3>1. d \in Doms /\ vm[d] \in VmInfo
      BY <2>2 DEF TypeOK, ControlTypes, VmTypes
    <3> DEFINE v == MarkIncomplete(vm[d], stat[d], Memory[d])
    <3>2. vm'[d] = RecordPressure(v, stat[d]) BY <2>1, <2>2, <3>1
    <3>3. v = vm[d] \/ v.incompleteBalloon
      BY <3>1 DEF MarkIncomplete, VmInfo
    <3>4. v \in VmInfo BY <3>1, MarkIncompleteType
    <3> HIDE DEF v
    <3>5. LET w == RecordPressure(v, stat[d])
          IN  /\ w.ballooning = v.ballooning
              /\ w.incompleteBalloon = v.incompleteBalloon
              /\ w.ballooningDown = v.ballooningDown
      BY <3>4 DEF RecordPressure, VmInfo
    <3> QED BY <2>2, <3>2, <3>3, <3>5 DEF Returning, ComingBack
  <2> QED BY <2>1, <2>2, FreshFrame
<1>3. ASSUME NEW r, GetAllDomainsStats(r) PROVE Fresh'
  BY <1>3, StatsFresh
<1> QED BY <1>1, <1>2, <1>3

(* An iteration: only the machine it visits changes, and that one is done. *)
LEMMA IterationFresh ==
  ASSUME TypeOK, Fresh, NEW d \in todo, NEW o, Iteration(d, o)
  PROVE  Fresh'
<1>1. Visit(d)
  BY DEF Iteration, Skip, CountPressure, StartBallooning, KeepBallooning,
         BackStepOne, BackDone, BackStepTwo, BackWait
<1>2. /\ todo' = todo \ {d} /\ pc = "loop"
      /\ UNCHANGED <<listed, stat, conn, pc, alive>>
  BY <1>1 DEF Visit
<1>3. \A e \in listed \ {d} : vm'[e] = vm[e] /\ hv'[e] = hv[e]
  <2>1. listed \subseteq Doms /\ vm \in [Doms -> VmInfo] /\ hv \in [Doms -> Guest]
    BY DEF TypeOK, ControlTypes, VmTypes, GuestTypes
  <2> QED
    BY <2>1 DEF Iteration, Skip, CountPressure, StartBallooning,
       KeepBallooning, BackStepOne, BackDone, BackStepTwo, BackWait
<1> QED BY <1>2, <1>3 DEF Fresh, Returning, ComingBack, NearlyBack

(* The life of the daemon. *)
LEMMA LifeFresh ==
  ASSUME TypeOK, Fresh,
         \/ \E isWin \in SUBSET Windows, found \in SUBSET Doms :
              StartDaemon(isWin, found)
         \/ SignalHandler \/ ExitDaemon \/ Kill
         \/ \E o : BalloonBackVmMem(o)
  PROVE  Fresh'
<1>1. CASE \/ \E isWin \in SUBSET Windows, found \in SUBSET Doms :
              StartDaemon(isWin, found)
           \/ ExitDaemon \/ Kill
  BY <1>1 DEF StartDaemon, ExitDaemon, Kill, ProcessGone, Fresh
<1>2. CASE SignalHandler
  BY <1>2, FreshFrame DEF SignalHandler, envVars, Returning, ComingBack
<1>3. ASSUME NEW o, BalloonBackVmMem(o) PROVE Fresh'
  <2>1. /\ UNCHANGED <<listed, vm, stat, conn, pc, todo, alive>>
        /\ hv' = [d \in Doms |->
                    IF d \in listed /\ vm[d].ballooning
                    THEN SetVmBalloonTarget(hv[d], Memory[d], o[d])
                    ELSE hv[d]]
    BY <1>3 DEF BalloonBackVmMem
  <2>2. \A d \in listed : hv'[d].actual = hv[d].actual
    BY <2>1 DEF TypeOK, ControlTypes, GuestTypes, SetVmBalloonTarget, Guest
  <2> QED BY <2>1, <2>2, FreshFrame DEF Returning, ComingBack
<1> QED BY <1>1, <1>2, <1>3

(* Every step. *)
LEMMA NextFresh ==
  ASSUME TypeOK, FlagsTruthful, Fresh, [Next]_vars
  PROVE  Fresh'
<1>1. CASE Next
  BY <1>1, StepCases, EnvironmentFresh, ListFresh, PassFresh, IterationFresh,
     LifeFresh, Zenon
<1>2. CASE UNCHANGED vars
  BY <1>2 DEF vars, daemonVars, envVars, Fresh, Returning, ComingBack,
              NearlyBack
<1> QED BY <1>1, <1>2

(* The statistics of a pass do not flatter. *)
THEOREM AlwaysFresh == Spec => []Fresh
<1>1. Init => Fresh BY DEF Init, Fresh
<1> QED
  BY <1>1, NextFresh, TypeCorrect, FlagsAlwaysTruthful, PTL DEF Spec

(* Withheld does not wrap around within 2 MiB of all the memory. *)
LEMMA SecondStepSize ==
  ASSUME TypeOK, NEW d \in Doms, stat[d].actualBalloon # 0,
         Withheld(d) <= BALLOON_BACK_RESERVED_SIZE_KB
  PROVE  NearlyBack(d, stat[d].actualBalloon)
<1>1. stat[d].actualBalloon \in Kib BY DEF TypeOK, VmTypes, VmStat
<1>2. Memory[d] \in Nat /\ Memory[d] >= BALLOON_BACK_RESERVED_SIZE_KB
  BY BalloonAssumption
<1> QED
  BY <1>1, <1>2, ConfigAssumption
  DEF Withheld, Sub64, NearlyBack, BackTarget, Kib,
      BALLOON_BACK_RESERVED_SIZE_KB

(* What TwoStep says of one machine. *)
InTwoSteps(d) ==
  /\ vm[d].ballooning
  /\ hv[d].target < Memory[d] /\ hv'[d].target = Memory[d]
  => Memory[d] - hv[d].actual <= BALLOON_BACK_RESERVED_SIZE_KB

(* The second step is taken on statistics that do not flatter. *)
LEMMA SecondStep ==
  ASSUME TypeOK, FlagsTruthful, Fresh, NEW d \in todo, NEW o, d \in alive,
         Possible(d, o), BackStepTwo(d, o)
  PROVE  InTwoSteps(d)
<1>1. /\ d \in Doms /\ d \in listed /\ hv \in [Doms -> Guest]
      /\ hv[d].actual \in Nat /\ hv[d].target \in Nat /\ Memory[d] \in Nat
  <2>1. d \in Doms /\ d \in listed /\ hv \in [Doms -> Guest]
    BY DEF TypeOK, ControlTypes, GuestTypes, FlagsTruthful
  <2>2. hv[d] \in Guest BY <2>1
  <2>3. hv[d].actual \in Nat /\ hv[d].target \in Nat
    BY <2>2, ConfigAssumption DEF Guest, Kib
  <2> QED BY <2>1, <2>3, MemoryType
<1>2. /\ pc = "loop" /\ vm[d].ballooning /\ ComingBack(vm[d])
      /\ stat[d].actualBalloon # 0
      /\ Withheld(d) <= BALLOON_BACK_RESERVED_SIZE_KB
      /\ hv' = [hv EXCEPT ![d] = SetVmBalloonTarget(@, Memory[d], o)]
  BY DEF BackStepTwo, Visit, Checked
<1>3. CASE o = "fail"
  BY <1>1, <1>2, <1>3 DEF SetVmBalloonTarget, InTwoSteps
<1>4. CASE o # "fail"
  <2>1. conn = "up" BY <1>4 DEF Possible, Reachable
  <2>2. NearlyBack(d, stat[d].actualBalloon)
    BY <1>1, <1>2, SecondStepSize
  <2>3. hv[d].actual >= BackTarget(Memory[d])
    BY <1>1, <1>2, <2>1, <2>2 DEF Fresh, Returning
  <2> QED BY <1>1, <2>3 DEF InTwoSteps, BackTarget,
                            BALLOON_BACK_RESERVED_SIZE_KB
<1> QED BY <1>3, <1>4

(* Every step of the system. *)
LEMMA StepInTwo ==
  ASSUME TypeOK, FlagsTruthful, Fresh, [Next]_vars,
         main = "run", main' = "run", NEW e \in alive \cap alive'
  PROVE  InTwoSteps(e)
<1>1. /\ e \in Doms /\ hv \in [Doms -> Guest] /\ hv[e].target \in Nat
      /\ Memory[e] \in Nat /\ BackTarget(Memory[e]) < Memory[e]
  BY MemoryType, ConfigAssumption
  DEF TypeOK, GuestTypes, Guest, Kib, BackTarget, BALLOON_BACK_RESERVED_SIZE_KB
<1>2. CASE \/ hv'[e].target = hv[e].target \/ hv'[e].target # Memory[e]
           \/ ~vm[e].ballooning
  BY <1>1, <1>2 DEF InTwoSteps
<1>3. ASSUME NEW d \in Doms,
             \/ DomainStart(d) \/ DomainStop(d) \/ DomainSuspend(d)
             \/ DomainResume(d) \/ GuestReboot(d) \/ GuestMove(d)
      PROVE  hv'[e].target = hv[e].target
  BY <1>1, <1>3 DEF DomainStart, DomainStop, DomainSuspend, DomainResume,
                    GuestReboot, GuestMove, Guest
<1>4. ASSUME NEW d \in todo, NEW o, Possible(d, o), Iteration(d, o)
      PROVE  InTwoSteps(e)
  <2>1. d \in Doms BY DEF TypeOK, ControlTypes
  <2>2. CASE d = e /\ StartBallooning(d, o)
    BY <1>2, <2>2 DEF StartBallooning, MayBalloon
  <2>3. CASE d = e /\ BackStepOne(d, o)
    <3>1. hv' = [hv EXCEPT ![d] = SetVmBalloonTarget(@, BackTarget(Memory[d]), o)]
      BY <2>3 DEF BackStepOne
    <3>2. hv'[e].target \in {hv[e].target, BackTarget(Memory[e])}
      BY <1>1, <2>3, <3>1 DEF SetVmBalloonTarget, Guest
    <3> QED BY <1>1, <1>2, <3>2
  <2>4. CASE d = e /\ BackStepTwo(d, o) BY <1>4, <2>4, SecondStep
  <2>5. CASE \/ d # e \/ Skip(d) \/ CountPressure(d) \/ KeepBallooning(d)
             \/ BackDone(d) \/ BackWait(d)
    <3>1. hv'[e] = hv[e]
      BY <1>1, <1>4, <2>5 DEF Iteration, Skip, CountPressure, StartBallooning,
         KeepBallooning, BackStepOne, BackDone, BackStepTwo, BackWait
    <3> QED BY <1>2, <3>1
  <2> QED BY <1>4, <2>2, <2>3, <2>4, <2>5 DEF Iteration
<1>5. ASSUME NEW o, BalloonBackVmMem(o) PROVE FALSE
  BY <1>5 DEF BalloonBackVmMem
<1>6. CASE \/ \E d \in Doms, w \in BOOLEAN : FindAddVMToList(d, w)
           \/ \E d \in Doms : FindDeleteVMFromList(d)
           \/ NoticeLoss \/ DropConnection \/ OpenConnection \/ RebuildList
           \/ UpdateAllVmInfo \/ LibvirtdGone
           \/ TestStop \/ UpdateFlags \/ EndPass
           \/ \E r \in [listed -> Readings] : GetAllDomainsStats(r)
           \/ \E isWin \in SUBSET Windows, found \in SUBSET Doms :
              StartDaemon(isWin, found)
           \/ SignalHandler \/ ExitDaemon \/ Kill
  <2>1. hv' = hv
    BY <1>6 DEF FindAddVMToList, FindDeleteVMFromList, NoticeLoss,
       DropConnection, OpenConnection, RebuildList, UpdateAllVmInfo,
       LibvirtdGone, TestStop, UpdateFlags, EndPass, GetAllDomainsStats,
       StartDaemon, SignalHandler, ExitDaemon, Kill, ProcessGone, envVars
  <2> QED BY <1>2, <2>1
<1>7. CASE UNCHANGED vars BY <1>2, <1>7 DEF vars, envVars
<1>8. CASE Next
  BY <1>2, <1>3, <1>4, <1>5, <1>6, <1>8, StepCases, Zenon
<1> QED BY <1>7, <1>8

(***************************************************************************)
(* The two steps of BalloonMainLoop, for every instance: no interleaving   *)
(* of guest, libvirtd, event thread and pass makes the daemon ask for all  *)
(* the memory of a machine whose balloon still holds more than 2 MiB.      *)
(***************************************************************************)
THEOREM AlwaysTwoSteps == Spec => TwoStep
<1> DEFINE A == main = "run" /\ main' = "run" =>
                  \A d \in alive \cap alive' :
                    /\ vm[d].ballooning
                    /\ hv[d].target < Memory[d] /\ hv'[d].target = Memory[d]
                    => Memory[d] - hv[d].actual <= BALLOON_BACK_RESERVED_SIZE_KB
<1>1. TypeOK /\ FlagsTruthful /\ Fresh /\ [Next]_vars => [A]_vars
  BY StepInTwo DEF InTwoSteps
<1> QED
  BY <1>1, TypeCorrect, FlagsAlwaysTruthful, AlwaysFresh, PTL DEF Spec, TwoStep
===============================================================================
