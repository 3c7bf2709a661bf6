-------------------------- MODULE BalloonRefinement --------------------------
(***************************************************************************)
(* The balloon controller implements BalloonProtocol, for any machines,    *)
(* sizes and sequence of faults.                                           *)
(***************************************************************************)
EXTENDS BalloonProofs

(* The phases, from the flags, now ... *)
LEMMA PhaseIs ==
  ASSUME NEW d
  PROVE  /\ d \notin listed => PhaseOf(d) = "out"
         /\ d \in listed /\ ~vm[d].ballooning => PhaseOf(d) = "idle"
         /\ d \in listed /\ vm[d].ballooning =>
              /\ vm[d].incompleteBalloon => PhaseOf(d) = "retry"
              /\ GoingDown(vm[d]) => PhaseOf(d) = "down"
              /\ ComingBack(vm[d]) => PhaseOf(d) = "back"
BY DEF PhaseOf, GoingDown, ComingBack

(* ... and after a step. *)
LEMMA PhaseBecomes ==
  ASSUME NEW d
  PROVE  /\ d \notin listed' => PhaseOf(d)' = "out"
         /\ d \in listed' /\ ~vm'[d].ballooning => PhaseOf(d)' = "idle"
         /\ d \in listed' /\ vm'[d].ballooning =>
              /\ vm'[d].incompleteBalloon => PhaseOf(d)' = "retry"
              /\ ~vm'[d].incompleteBalloon =>
                   PhaseOf(d)' = IF vm'[d].ballooningDown THEN "down" ELSE "back"
BY DEF PhaseOf, GoingDown

(* A machine whose flags and place in the list stay keeps its phase. *)
LEMMA PhaseStays ==
  ASSUME NEW d, d \in listed' <=> d \in listed,
         vm'[d].ballooning = vm[d].ballooning,
         vm'[d].ballooningDown = vm[d].ballooningDown,
         vm'[d].incompleteBalloon = vm[d].incompleteBalloon
  PROVE  PhaseOf(d)' = PhaseOf(d)
BY DEF PhaseOf, GoingDown

LEMMA TargetStays ==
  ASSUME NEW d, hv'[d].target = hv[d].target
  PROVE  AskedBack(d)' <=> AskedBack(d)
BY DEF AskedBack

(* A step that leaves every phase and every target alone is a stutter. *)
LEMMA Stutter ==
  ASSUME \A e \in Doms : PhaseOf(e)' = PhaseOf(e),
         \A e \in Doms : AskedBack(e)' <=> AskedBack(e)
  PROVE  UNCHANGED Protocol!pvars
BY DEF Protocol!pvars, Phase, Lowered

(* A step about the machine d leaves the others alone. *)
LEMMA OneMachine ==
  ASSUME NEW d \in Doms,
         \A e \in Doms \ {d} : PhaseOf(e)' = PhaseOf(e),
         \A e \in Doms \ {d} : AskedBack(e)' <=> AskedBack(e)
  PROVE  /\ Phase' = [Phase EXCEPT ![d] = PhaseOf(d)']
         /\ Phase[d] = PhaseOf(d)
         /\ Lowered' \ {d} = Lowered \ {d}
         /\ AskedBack(d)' => Lowered' = Lowered \ {d}
         /\ (AskedBack(d)' <=> AskedBack(d)) => Lowered' = Lowered
BY DEF Phase, Lowered

LEMMA PhaseSame ==
  ASSUME \A e \in Doms : PhaseOf(e)' = PhaseOf(e)
  PROVE  Phase' = Phase
BY DEF Phase

LEMMA EnvironmentRefines ==
  ASSUME TypeOK, NEW d \in Doms,
         \/ DomainStart(d) \/ DomainStop(d) \/ DomainSuspend(d)
         \/ DomainResume(d) \/ GuestReboot(d) \/ GuestMove(d)
  PROVE  [Protocol!Next]_Protocol!pvars
<1>1. UNCHANGED daemonVars
  BY DEF DomainStart, DomainStop, DomainSuspend, DomainResume, GuestReboot,
         GuestMove
<1>2. hv \in [Doms -> Guest] /\ hv[d] \in Guest
  BY DEF TypeOK, GuestTypes
<1>3. \A e \in Doms : PhaseOf(e)' = PhaseOf(e)
  BY <1>1, PhaseStays DEF daemonVars
<1>4. \A e \in Doms \ {d} : AskedBack(e)' <=> AskedBack(e)
  <2> TAKE e \in Doms \ {d}
  <2>1. hv'[e] = hv[e]
    BY <1>2 DEF DomainStart, DomainStop, DomainSuspend, DomainResume,
                GuestReboot, GuestMove
  <2> QED
    BY <2>1, TargetStays
<1>5. Phase' = Phase
  BY <1>3, PhaseSame
<1>6. CASE DomainStart(d)
  <2>1. PhaseOf(d) = "out"
    BY <1>6, PhaseIs DEF DomainStart
  <2>2. Protocol!Slip(d)
    BY <1>3, <1>4, <1>5, <2>1, OneMachine DEF Protocol!Slip, Protocol!Only
  <2> QED
    BY <2>2 DEF Protocol!Next
<1>7. CASE DomainStop(d)
  <2>1. hv'[d] = FullGuest(d)
    BY <1>2, <1>7 DEF DomainStop
  <2>2. hv'[d].target = Memory[d]
    BY <2>1 DEF FullGuest
  <2>3. AskedBack(d)'
    BY <2>2, BackTargetRange, MemoryType DEF AskedBack
  <2>4. Protocol!Stop(d)
    BY <1>3, <1>4, <1>5, <2>3, OneMachine DEF Protocol!Stop
  <2> QED
    BY <2>4 DEF Protocol!Next
<1>8. CASE \/ DomainSuspend(d) \/ DomainResume(d) \/ GuestReboot(d)
           \/ GuestMove(d)
  <2>1. hv'[d].target = hv[d].target
    BY <1>2, <1>8 DEF DomainSuspend, DomainResume, GuestReboot, GuestMove, Guest
  <2> QED
    BY <1>3, <1>4, <2>1, TargetStays, Stutter
<1> QED
  BY <1>6, <1>7, <1>8

(* Making the records of the machines in S. *)
LEMMA NoteSet ==
  ASSUME NEW S \in SUBSET Doms,
         \A e \in S : PhaseOf(e) = "out" /\ PhaseOf(e)' = "idle",
         \A e \in Doms \ S : PhaseOf(e)' = PhaseOf(e),
         hv' = hv
  PROVE  Protocol!Next
<1>1. /\ Phase' = [e \in Doms |-> IF e \in S THEN "idle" ELSE Phase[e]]
      /\ \A e \in S : Phase[e] = "out"
  BY DEF Phase
<1>2. Lowered' = Lowered
  BY TargetStays DEF Lowered
<1>3. Protocol!Note(S)
  BY <1>1, <1>2 DEF Protocol!Note
<1> QED
  BY <1>3 DEF Protocol!Next

(* Dropping all records. *)
LEMMA EmptyList ==
  ASSUME listed' = {}, hv' = hv
  PROVE  Protocol!Next
<1>1. \A e \in Doms : PhaseOf(e)' = "out"
  BY PhaseBecomes
<1>2. Phase' = [e \in Doms |-> "out"]
  BY <1>1 DEF Phase
<1>3. Lowered' = Lowered
  BY TargetStays DEF Lowered
<1>4. Protocol!ForgetAll
  BY <1>2, <1>3 DEF Protocol!ForgetAll
<1> QED
  BY <1>4 DEF Protocol!Next

LEMMA ListRefines ==
  ASSUME TypeOK,
         \/ \E d \in Doms, w \in BOOLEAN : FindAddVMToList(d, w)
         \/ \E d \in Doms : FindDeleteVMFromList(d)
         \/ NoticeLoss \/ DropConnection \/ OpenConnection \/ RebuildList
         \/ UpdateAllVmInfo \/ LibvirtdGone
  PROVE  [Protocol!Next]_Protocol!pvars
<1>1. hv' = hv
  BY DEF FindAddVMToList, FindDeleteVMFromList, NoticeLoss, DropConnection,
         OpenConnection, RebuildList, UpdateAllVmInfo, LibvirtdGone, envVars
<1>2. \A e \in Doms : AskedBack(e)' <=> AskedBack(e)
  BY <1>1, TargetStays
<1>3. vm \in [Doms -> VmInfo] /\ listed \subseteq Doms
  BY DEF TypeOK, VmTypes, ControlTypes
<1>4. CASE \E d \in Doms, w \in BOOLEAN : FindAddVMToList(d, w)
  <2>1. PICK d \in Doms, w \in BOOLEAN : FindAddVMToList(d, w)
    BY <1>4
  <2>2. /\ d \notin listed /\ listed' = listed \cup {d}
        /\ vm' = [vm EXCEPT ![d] = [NewVM EXCEPT !.isWindows = w]]
    BY <2>1 DEF FindAddVMToList
  <2>3. ~vm'[d].ballooning
    BY <1>3, <2>2 DEF NewVM
  <2>4. PhaseOf(d) = "out" /\ PhaseOf(d)' = "idle"
    BY <2>2, <2>3, PhaseIs, PhaseBecomes
  <2>5. \A e \in Doms \ {d} : PhaseOf(e)' = PhaseOf(e)
    BY <1>3, <2>2, PhaseStays
  <2>6. /\ {d} \in SUBSET Doms
        /\ \A e \in {d} : PhaseOf(e) = "out" /\ PhaseOf(e)' = "idle"
    BY <2>4
  <2> QED
    BY <1>1, <2>5, <2>6, NoteSet, Zenon
<1>5. CASE \E d \in Doms : FindDeleteVMFromList(d)
  <2>1. PICK d \in Doms : FindDeleteVMFromList(d)
    BY <1>5
  <2>2. listed' = listed \ {d} /\ vm' = [vm EXCEPT ![d] = NewVM]
    BY <2>1 DEF FindDeleteVMFromList
  <2>3. PhaseOf(d)' = "out"
    BY <2>2, PhaseBecomes
  <2>4. \A e \in Doms \ {d} : PhaseOf(e)' = PhaseOf(e)
    BY <1>3, <2>2, PhaseStays
  <2>5. Phase' = [Phase EXCEPT ![d] = "out"] /\ Lowered' = Lowered
    BY <1>2, <2>3, <2>4, OneMachine
  <2>6. Protocol!Forget(d)
    BY <2>5 DEF Protocol!Forget, Protocol!Becomes
  <2> QED
    BY <2>6 DEF Protocol!Next
<1>6. CASE RebuildList
  <2>1. listed' = {}
    BY <1>6 DEF RebuildList, FreeAllVM
  <2> QED
    BY <1>1, <2>1, EmptyList
<1>7. CASE \/ NoticeLoss \/ DropConnection \/ OpenConnection
           \/ UpdateAllVmInfo \/ LibvirtdGone
  <2>1. UNCHANGED <<listed, vm>>
    BY <1>7 DEF NoticeLoss, DropConnection, OpenConnection, UpdateAllVmInfo,
                LibvirtdGone
  <2> QED
    BY <1>2, <2>1, PhaseStays, Stutter
<1> QED
  BY <1>4, <1>5, <1>6, <1>7

LEMMA PassRefines ==
  ASSUME TypeOK,
         \/ TestStop \/ UpdateFlags \/ EndPass
         \/ \E r \in [listed -> Readings] : GetAllDomainsStats(r)
  PROVE  [Protocol!Next]_Protocol!pvars
<1>1. hv' = hv /\ listed' = listed
  BY DEF TestStop, UpdateFlags, EndPass, GetAllDomainsStats, envVars
<1>2. \A e \in Doms : AskedBack(e)' <=> AskedBack(e)
  BY <1>1, TargetStays
<1>3. CASE TestStop \/ EndPass \/ \E r \in [listed -> Readings] : GetAllDomainsStats(r)
  <2>1. vm' = vm
    BY <1>3 DEF TestStop, EndPass, GetAllDomainsStats
  <2> QED
    BY <1>1, <1>2, <2>1, PhaseStays, Stutter
<1>4. CASE UpdateFlags
  <2> DEFINE S == {e \in Doms : PhaseOf(e) = "idle" /\ PhaseOf(e)' = "retry"}
  <2>1. \A e \in Doms : \/ PhaseOf(e)' = PhaseOf(e)
                        \/ PhaseOf(e) = "idle" /\ PhaseOf(e)' = "retry"
    <3> TAKE e \in Doms
    <3>1. CASE e \notin listed
      BY <1>1, <3>1, PhaseIs, PhaseBecomes
    <3>2. CASE e \in listed
      <4> DEFINE m == MarkIncomplete(vm[e], stat[e], Memory[e])
      <4>1. vm[e] \in VmInfo /\ vm'[e] = RecordPressure(m, stat[e])
        BY <1>4, <3>2 DEF UpdateFlags, TypeOK, VmTypes
      <4>2. m \in VmInfo
        BY <4>1, MarkIncompleteType
      <4>3. m = vm[e] \/ (~vm[e].ballooning /\ m.ballooning /\ m.incompleteBalloon)
        BY <4>1 DEF MarkIncomplete, VmInfo
      <4> HIDE DEF m
      <4>4. /\ vm'[e].ballooning = m.ballooning
            /\ vm'[e].ballooningDown = m.ballooningDown
            /\ vm'[e].incompleteBalloon = m.incompleteBalloon
        BY <4>1, <4>2 DEF RecordPressure, VmInfo
      <4>5. CASE m = vm[e]
        BY <1>1, <4>4, <4>5, PhaseStays
      <4>6. CASE ~vm[e].ballooning /\ m.ballooning /\ m.incompleteBalloon
        BY <1>1, <3>2, <4>4, <4>6, PhaseIs, PhaseBecomes
      <4> QED
        BY <4>3, <4>5, <4>6
    <3> QED
      BY <3>1, <3>2
  <2>2. Phase' = [e \in Doms |-> IF e \in S THEN "retry" ELSE Phase[e]]
    BY <2>1 DEF Phase
  <2>3. Lowered' = Lowered
    BY <1>2 DEF Lowered
  <2>4. \A e \in S : Phase[e] = "idle"
    BY DEF Phase
  <2>5. S \in SUBSET Doms
    OBVIOUS
  <2> HIDE DEF S
  <2>6. Protocol!Adopt(S)
    BY <2>2, <2>3, <2>4 DEF Protocol!Adopt
  <2> QED
    BY <2>5, <2>6 DEF Protocol!Next
<1> QED
  BY <1>3, <1>4

LEMMA IterationRefines ==
  ASSUME TypeOK, FlagsTruthful, NEW d \in todo, NEW o \in Outcomes,
         Iteration(d, o)
  PROVE  [Protocol!Next]_Protocol!pvars
<1>1. Visit(d)
  BY DEF Iteration, Skip, CountPressure, StartBallooning, KeepBallooning,
         BackStepOne, BackDone, BackStepTwo, BackWait
<1>2. /\ d \in Doms /\ d \in listed
      /\ vm[d] \in VmInfo /\ stat[d] \in VmStat /\ hv[d] \in Guest
      /\ vm \in [Doms -> VmInfo] /\ hv \in [Doms -> Guest]
      /\ MachineFlags(d) /\ listed' = listed
  BY <1>1 DEF Visit, TypeOK, ControlTypes, VmTypes, GuestTypes, FlagsTruthful
<1>3. \A e \in Doms \ {d} : vm'[e] = vm[e] /\ hv'[e] = hv[e]
  BY <1>2 DEF Iteration, Skip, CountPressure, StartBallooning, KeepBallooning,
              BackStepOne, BackDone, BackStepTwo, BackWait
<1>4. /\ \A e \in Doms \ {d} : PhaseOf(e)' = PhaseOf(e)
      /\ \A e \in Doms \ {d} : AskedBack(e)' <=> AskedBack(e)
  BY <1>2, <1>3, PhaseStays, TargetStays
<1>5. /\ Phase' = [Phase EXCEPT ![d] = PhaseOf(d)']
      /\ Phase[d] = PhaseOf(d)
      /\ Lowered' \ {d} = Lowered \ {d}
      /\ AskedBack(d)' => Lowered' = Lowered \ {d}
      /\ (AskedBack(d)' <=> AskedBack(d)) => Lowered' = Lowered
  BY <1>2, <1>4, OneMachine
<1>6. ASSUME PhaseOf(d)' = PhaseOf(d), AskedBack(d)' <=> AskedBack(d)
      PROVE  UNCHANGED Protocol!pvars
  BY <1>4, <1>6, Stutter
<1>7. CASE Skip(d) \/ BackWait(d)
  <2>1. vm' = vm /\ hv' = hv
    BY <1>7 DEF Skip, BackWait
  <2> QED
    BY <1>2, <1>6, <2>1, PhaseStays, TargetStays
<1>8. CASE CountPressure(d) \/ KeepBallooning(d)
  <2> DEFINE n == PressureCount(vm[d], stat[d])
  <2>1. /\ hv' = hv
        /\ \/ vm'[d] = [vm[d] EXCEPT !.needBalloonFlag = n]
           \/ vm'[d] = RecordActual(vm[d], stat[d])
    BY <1>2, <1>8 DEF CountPressure, KeepBallooning
  <2> HIDE DEF n
  <2>2. /\ vm'[d].ballooning = vm[d].ballooning
        /\ vm'[d].ballooningDown = vm[d].ballooningDown
        /\ vm'[d].incompleteBalloon = vm[d].incompleteBalloon
    BY <1>2, <2>1, Zenon DEF RecordActual, VmInfo
  <2> QED
    BY <1>2, <1>6, <2>1, <2>2, PhaseStays, TargetStays
<1>9. CASE StartBallooning(d, o)
  <2> DEFINE s == stat[d]
             t == BalloonTarget(Memory[d], s.available,
                                GuestUsed(s.available, s.usable, s.unused))
  <2>1. vm'[d] = AfterDoBallooning(vm[d], t, o) /\ ~vm[d].ballooning
    BY <1>2, <1>9 DEF StartBallooning, MayBalloon
  <2>2. ~vm[d].ballooningDown /\ ~vm[d].incompleteBalloon
    BY <1>2, <2>1 DEF MachineFlags
  <2> HIDE DEF t
  <2>3. /\ vm'[d].ballooning = (o = "ok")
        /\ vm'[d].ballooningDown = (vm[d].ballooningDown \/ o = "ok")
        /\ vm'[d].incompleteBalloon = vm[d].incompleteBalloon
    BY <1>2, <2>1, Zenon DEF AfterDoBallooning, VmInfo
  <2>4. PhaseOf(d) = "idle"
    BY <1>2, <2>1, PhaseIs
  <2>5. PhaseOf(d)' = IF o = "ok" THEN "down" ELSE "idle"
    BY <1>2, <2>2, <2>3, PhaseBecomes
  <2>6. CASE o = "ok"
    <3>1. Protocol!Lend(d)
      BY <1>5, <2>4, <2>5, <2>6
      DEF Protocol!Lend, Protocol!Becomes, Protocol!Only
    <3> QED
      BY <1>2, <3>1 DEF Protocol!Next
  <2>7. CASE o # "ok"
    <3>1. Phase' = Phase
      BY <1>4, <2>4, <2>5, <2>7, PhaseSame
    <3>2. Protocol!Slip(d)
      BY <1>5, <2>4, <3>1 DEF Protocol!Slip, Protocol!Only
    <3> QED
      BY <1>2, <3>2 DEF Protocol!Next
  <2> QED
    BY <2>6, <2>7
<1>10. CASE BackStepOne(d, o)
  <2> DEFINE v == StopBalloon(vm[d], stat[d])
  <2>1. /\ vm'[d] = AfterStepOne(v, o)
        /\ hv'[d] = SetVmBalloonTarget(hv[d], BackTarget(Memory[d]), o)
        /\ vm[d].ballooning
        /\ vm[d].incompleteBalloon \/ GoingDown(vm[d])
    BY <1>2, <1>10 DEF BackStepOne, Checked
  <2>2. v \in VmInfo
    BY <1>2, StopBalloonType
  <2>3. v.ballooning
    BY <1>2, <2>1, RecordActualType, Zenon DEF StopBalloon, RecordActual, VmInfo
  <2> HIDE DEF v
  <2>4. PhaseOf(d) \in {"down", "retry"}
    BY <1>2, <2>1, PhaseIs
  <2>5. hv'[d].target = IF o = "fail" THEN hv[d].target ELSE BackTarget(Memory[d])
    BY <1>2, <2>1, SetTargetValue
  <2>6. BackTarget(Memory[d]) >= BackTarget(Memory[d])
    BY <1>2, BackTargetRange, MemoryType
  <2>7. IF o = "fail" THEN AskedBack(d)' <=> AskedBack(d) ELSE AskedBack(d)'
    BY <2>5, <2>6 DEF AskedBack
  <2>8. CASE o = "ok"
    <3>1. /\ vm'[d].ballooning /\ ~vm'[d].ballooningDown
          /\ ~vm'[d].incompleteBalloon
      BY <2>1, <2>2, <2>3, <2>8, Zenon DEF AfterStepOne, VmInfo
    <3>2. PhaseOf(d)' = "back"
      BY <1>2, <3>1, PhaseBecomes
    <3>3. Protocol!GiveBack(d)
      BY <1>5, <2>4, <2>7, <2>8, <3>2 DEF Protocol!GiveBack, Protocol!Becomes
    <3> QED
      BY <1>2, <3>3 DEF Protocol!Next
  <2>9. CASE o # "ok"
    <3>1. vm'[d].ballooning /\ vm'[d].incompleteBalloon
      BY <2>1, <2>2, <2>3, <2>9, Zenon DEF AfterStepOne, VmInfo
    <3>2. PhaseOf(d)' = "retry"
      BY <1>2, <3>1, PhaseBecomes
    <3>3. Protocol!GiveBackFails(d)
      BY <1>5, <2>4, <2>7, <3>2 DEF Protocol!GiveBackFails, Protocol!Becomes
    <3> QED
      BY <1>2, <3>3 DEF Protocol!Next
  <2> QED
    BY <2>8, <2>9
<1>11. CASE BackDone(d)
  <2>1. /\ vm'[d] = [vm[d] EXCEPT !.ballooning = FALSE] /\ hv' = hv
        /\ ComingBack(vm[d]) /\ vm[d].ballooning
    BY <1>2, <1>11 DEF BackDone, Checked
  <2>2. ~vm'[d].ballooning
    BY <1>2, <2>1 DEF VmInfo
  <2>3. PhaseOf(d) = "back" /\ PhaseOf(d)' = "idle" /\ AskedBack(d)
    BY <1>2, <2>1, <2>2, PhaseIs, PhaseBecomes DEF MachineFlags
  <2>4. d \notin Lowered /\ Lowered' = Lowered
    BY <1>5, <2>1, <2>3, TargetStays DEF Lowered
  <2>5. Protocol!Finish(d)
    BY <1>5, <2>3, <2>4 DEF Protocol!Finish, Protocol!Becomes
  <2> QED
    BY <1>2, <2>5 DEF Protocol!Next
<1>12. CASE BackStepTwo(d, o)
  <2>1. /\ hv'[d] = SetVmBalloonTarget(hv[d], Memory[d], o)
        /\ vm' = vm /\ ComingBack(vm[d]) /\ vm[d].ballooning
    BY <1>2, <1>12 DEF BackStepTwo, Checked
  <2>2. hv'[d].target = Memory[d] \/ hv'[d].target = hv[d].target
    BY <1>2, <2>1, SetTargetValue
  <2>3. AskedBack(d) /\ AskedBack(d)'
    BY <1>2, <2>1, <2>2, BackTargetRange, MemoryType DEF MachineFlags, AskedBack
  <2> QED
    BY <1>2, <1>6, <2>1, <2>3, PhaseStays
<1> QED
  BY <1>7, <1>8, <1>9, <1>10, <1>11, <1>12 DEF Iteration

LEMMA LifeRefines ==
  ASSUME TypeOK, NoListAlone,
         \/ \E isWin \in SUBSET Windows, found \in SUBSET Doms :
              StartDaemon(isWin, found)
         \/ SignalHandler \/ ExitDaemon \/ Kill
         \/ \E o : BalloonBackVmMem(o)
  PROVE  [Protocol!Next]_Protocol!pvars
<1>1. CASE \E isWin \in SUBSET Windows, found \in SUBSET Doms :
              StartDaemon(isWin, found)
  <2>1. PICK isWin \in SUBSET Windows, found \in SUBSET Doms :
          StartDaemon(isWin, found)
    BY <1>1
  <2>2. listed = {} /\ hv' = hv
    BY <2>1 DEF StartDaemon, NoListAlone, Running, envVars
  <2>3. \A e \in Doms : PhaseOf(e) = "out"
    BY <2>2, PhaseIs
  <2>4. \A e \in Doms : PhaseOf(e)' = IF e \in listed' THEN "idle" ELSE "out"
    <3> TAKE e \in Doms
    <3>1. \/ vm'[e] = [NewVM EXCEPT !.isWindows = (e \in isWin)]
          \/ vm'[e] = NewVM
      BY <2>1, Zenon DEF StartDaemon
    <3>2. ~vm'[e].ballooning
      BY <3>1 DEF NewVM
    <3> QED
      BY <3>2, PhaseBecomes
  <2> DEFINE S == {e \in Doms : e \in listed'}
  <2>5. /\ \A e \in S : PhaseOf(e) = "out" /\ PhaseOf(e)' = "idle"
        /\ \A e \in Doms \ S : PhaseOf(e)' = PhaseOf(e)
        /\ S \in SUBSET Doms
    BY <2>3, <2>4
  <2> HIDE DEF S
  <2> QED
    BY <2>2, <2>5, NoteSet
<1>2. CASE SignalHandler
  <2>1. UNCHANGED <<listed, vm, hv>>
    BY <1>2 DEF SignalHandler, envVars
  <2> QED
    BY <2>1, PhaseStays, TargetStays, Stutter
<1>3. CASE ExitDaemon \/ Kill
  <2>1. listed' = {} /\ hv' = hv
    BY <1>3 DEF ExitDaemon, Kill, ProcessGone, FreeAllVM, envVars
  <2> QED
    BY <2>1, EmptyList
<1>4. CASE \E o : BalloonBackVmMem(o)
  <2>1. PICK o : BalloonBackVmMem(o)
    BY <1>4
  <2>2. UNCHANGED <<listed, vm>>
    BY <2>1 DEF BalloonBackVmMem
  <2>3. \A e \in Doms : PhaseOf(e)' = PhaseOf(e)
    BY <2>2, PhaseStays
  <2> DEFINE S == {e \in Doms : /\ PhaseOf(e) \notin {"out", "idle"}
                               /\ AskedBack(e)'}
  <2>4. \A e \in Doms : ~AskedBack(e)' <=> ~AskedBack(e) /\ e \notin S
    <3> TAKE e \in Doms
    <3>1. hv[e] \in Guest
      BY DEF TypeOK, GuestTypes
    <3>2. CASE e \in listed /\ vm[e].ballooning
      <4>1. PhaseOf(e) \notin {"out", "idle"}
        BY <3>2 DEF PhaseOf
      <4>2. hv'[e] = SetVmBalloonTarget(hv[e], Memory[e], o[e])
        BY <2>1, <3>2 DEF BalloonBackVmMem
      <4>3. hv'[e].target = Memory[e] \/ hv'[e].target = hv[e].target
        BY <3>1, <4>2, SetTargetValue
      <4>4. AskedBack(e) => AskedBack(e)'
        BY <3>1, <4>3, BackTargetRange, MemoryType DEF AskedBack
      <4> QED
        BY <4>1, <4>4
    <3>3. CASE ~(e \in listed /\ vm[e].ballooning)
      <4>1. PhaseOf(e) \in {"out", "idle"}
        BY <3>3, PhaseIs
      <4>2. hv'[e] = hv[e]
        BY <2>1, <3>3, Zenon DEF BalloonBackVmMem
      <4> QED
        BY <4>1, <4>2, TargetStays
    <3> QED
      BY <3>2, <3>3
  <2>5. Lowered' = Lowered \ S
    BY <2>4 DEF Lowered
  <2>6. S \in SUBSET Doms /\ \A e \in S : Phase[e] \notin {"out", "idle"}
    BY DEF Phase
  <2> HIDE DEF S
  <2>7. Protocol!GiveAllBack(S)
    BY <2>3, <2>5, <2>6, PhaseSame DEF Protocol!GiveAllBack
  <2> QED
    BY <2>6, <2>7 DEF Protocol!Next
<1> QED
  BY <1>1, <1>2, <1>3, <1>4

LEMMA NextRefines ==
  ASSUME TypeOK, FlagsTruthful, NoListAlone, [Next]_vars
  PROVE  [Protocol!Next]_Protocol!pvars
<1>1. CASE Next
  BY <1>1, StepCases, EnvironmentRefines, ListRefines, PassRefines,
     IterationRefines, LifeRefines, Zenon
<1>2. CASE UNCHANGED vars
  <2>1. UNCHANGED <<listed, vm, hv>>
    BY <1>2 DEF vars, daemonVars, envVars
  <2> QED
    BY <2>1, PhaseStays, TargetStays, Stutter
<1> QED
  BY <1>1, <1>2

(***************************************************************************)
(* The controller implements the protocol.  The initial state maps to the  *)
(* protocol's; a step of one machine needs that its flags are truthful     *)
(* (the machine is let go of, or asked for the rest, only when AskedBack), *)
(* and a start of the daemon that no list survives the process.            *)
(***************************************************************************)
THEOREM ImplementsProtocol == Spec => KeepsProtocol
<1>1. Init => Protocol!Init
  <2> SUFFICES ASSUME Init PROVE Protocol!Init
    OBVIOUS
  <2>1. \A e \in Doms : PhaseOf(e) = "out"
    BY PhaseIs DEF Init
  <2>2. \A e \in Doms : hv[e].target = Memory[e]
    BY DEF Init, FullGuest
  <2>3. \A e \in Doms : AskedBack(e)
    BY <2>2, BackTargetRange, MemoryType DEF AskedBack
  <2> QED
    BY <2>1, <2>3 DEF Protocol!Init, Phase, Lowered
<1>2. Init => NoListAlone
  BY DEF Init, NoListAlone
<1>3. TypeOK /\ NoListAlone /\ [Next]_vars => NoListAlone'
  BY NextNoListAlone
<1>4. TypeOK /\ FlagsTruthful /\ NoListAlone /\ [Next]_vars
        => [Protocol!Next]_Protocol!pvars
  BY NextRefines
<1> QED
  BY <1>1, <1>2, <1>3, <1>4, TypeCorrect, FlagsAlwaysTruthful, PTL
  DEF Spec, KeepsProtocol, Protocol!Spec

==============================================================================
