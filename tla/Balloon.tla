------------------------------- MODULE Balloon -------------------------------
(***************************************************************************)
(* memlinkd's balloon controller: the thread BalloonVmMemThread            *)
(* (memlink_core.c), the virtual machines it works on (memlink_driver.c),  *)
(* the libvirt connection it reads them through (libvirt_helper.c) and the *)
(* orderly end of the daemon (main.c, CoreExit).                           *)
(*                                                                         *)
(* A domain is one run of a virtual machine, as libvirt's domain id is: a  *)
(* machine that is started again is a new domain.  The guest, its virtio   *)
(* balloon and libvirtd are the environment.  The code under the lock of   *)
(* g_vmlistHead is one step, except for a pass of BalloonMainLoop, which   *)
(* is a step per machine so that the daemon can be killed half way.        *)
(***************************************************************************)
EXTENDS BalloonMath

CONSTANTS
  Doms,                      \* the domains
  Memory,                    \* Memory[d]: <memory> of d's XML, balloon.maximum
  Windows,                   \* the domains that run a Windows guest
  NEED_BALLOON_CHECK_TIMES,  \* 20 in the code
  Unmanaged,                 \* memory of a guest its kernel does not manage
  Levels,                    \* sizes the environment gives to a guest
  FreeLevels,                \* free memory a guest may report
  FprKinds,                  \* does a guest kernel report free pages itself?
  StatKinds                  \* the statistics records libvirt may return

ASSUME BalloonAssumption ==
  /\ Memory \in [Doms -> Nat]
  /\ \A d \in Doms : /\ Memory[d] >= BALLOON_BACK_RESERVED_SIZE_KB
                     /\ 2 * Memory[d] < WORD
  /\ Windows \subseteq Doms
  /\ NEED_BALLOON_CHECK_TIMES \in Nat \ {0, 1}
  /\ Unmanaged \in Nat
  /\ Levels \subseteq Nat
  /\ FreeLevels \subseteq Nat \ {0}
  /\ FprKinds \subseteq BOOLEAN
  /\ StatKinds \subseteq {"absent", "partial", "usable", "unused"}

VARIABLES
  listed,  \* the machines in g_vmlistHead.domainsListHead
  vm,      \* vm[d]: the balloon state in d's VirtualMachineInfo
  stat,    \* stat[d]: what libvirt last reported, memstat and the rest
  conn,    \* g_libvirtConn: see ConnStates
  change,  \* g_libvirtChange
  pc,      \* where BalloonVmMemThread is
  todo,    \* the machines BalloonMainLoop has still to visit in this pass
  stop,    \* g_stopMemlinkd # 0
  main,    \* where the main thread is
  alive,   \* environment: the domains libvirtd runs
  hv       \* environment: hv[d], the balloon device and guest of d

daemonVars == <<listed, vm, stat, conn, change, pc, todo, stop, main>>
envVars    == <<alive, hv>>
vars       == <<daemonVars, envVars>>

(***************************************************************************)
(* "null"  g_libvirtConn is NULL;                                          *)
(* "fresh" connected, but the list still holds machines whose domain       *)
(*         handles belong to the previous connection;                      *)
(* "up"    connected, events registered and the list rebuilt;              *)
(* "lost", "dead"  libvirtd went away while "fresh", while "up";           *)
(*         g_libvirtConn still points to the connection;                   *)
(* "closing" the event thread is about to close that connection.           *)
(***************************************************************************)
ConnStates == {"null", "fresh", "up", "lost", "dead", "closing"}

(***************************************************************************)
(* BalloonVmMemThread: "off" not created yet, "head" at the test of        *)
(* g_stopMemlinkd (where it also sleeps), "stats" about to read the        *)
(* statistics, "flags" about to take the lock again, "loop" in             *)
(* BalloonMainLoop with the lock held, "ended" returned.                   *)
(***************************************************************************)
PcStates == {"off", "head", "stats", "flags", "loop", "ended"}

(***************************************************************************)
(* "none" no daemon (not started, or killed), "run" in the loop of main(), *)
(* "exiting" in CoreExit, between BalloonBackVmMem and FreeAllVM, "exited" *)
(* main() returned.                                                        *)
(***************************************************************************)
MainStates == {"none", "run", "exiting", "exited"}

Kib == 0 .. (WORD - 1)

VmInfo == [isWindows            : BOOLEAN,
           balloonTarget        : Kib,
           currentActualBalloon : [0 .. 1 -> Kib],
           balloonI             : 0 .. 1,
           ballooning           : BOOLEAN,
           needBalloonFlag      : 0 .. (NEED_BALLOON_CHECK_TIMES - 1),
           ballooningDown       : BOOLEAN,
           incompleteBalloon    : BOOLEAN]

VmStat == [currentMem    : Kib,
           running       : BOOLEAN,   \* state = VIR_DOMAIN_RUNNING
           enable_fpr    : BOOLEAN,
           actualBalloon : Kib,
           available     : Kib,
           usable        : Kib,
           unused        : Kib]

(***************************************************************************)
(* The guest: `target' is the size last asked for through libvirt,         *)
(* `actual' the size it has.  `stuck': the balloon driver came up with no  *)
(* page to hold and will not move until the target changes (the comment at *)
(* memlink_core.c 222).                                                    *)
(***************************************************************************)
Guest == [target : Kib, actual : Kib, stuck : BOOLEAN, fpr : BOOLEAN,
          running : BOOLEAN]

NewVM == [isWindows            |-> FALSE,
          balloonTarget        |-> 0,
          currentActualBalloon |-> [i \in 0 .. 1 |-> 0],
          balloonI             |-> 0,
          ballooning           |-> FALSE,
          needBalloonFlag      |-> 1,
          ballooningDown       |-> FALSE,
          incompleteBalloon    |-> FALSE]

NoStat == [currentMem |-> 0, running |-> FALSE, enable_fpr |-> FALSE,
           actualBalloon |-> 0, available |-> 0, usable |-> 0, unused |-> 0]

FullGuest(d) == [target |-> Memory[d], actual |-> Memory[d], stuck |-> FALSE,
                 fpr |-> FALSE, running |-> TRUE]

Init ==
  /\ listed = {}
  /\ vm = [d \in Doms |-> NewVM]
  /\ stat = [d \in Doms |-> NoStat]
  /\ conn = "null"
  /\ change = FALSE
  /\ pc = "off"
  /\ todo = {}
  /\ stop = FALSE
  /\ main = "none"
  /\ alive = {}
  /\ hv = [d \in Doms |-> FullGuest(d)]

(* Only a pass of BalloonMainLoop holds g_vmlistHead.lock between steps. *)
LockFree == pc # "loop"

Running == main \in {"run", "exiting"}

------------------------------------------------------------------------------
(* The environment: domains, guests, libvirtd. *)

(***************************************************************************)
(* A domain starts, with all its memory or, when it is restored from a     *)
(* snapshot or its XML says so, with less.                                 *)
(***************************************************************************)
DomainStart(d) ==
  /\ d \notin alive \cup listed
  /\ \E l \in Levels \cup {Memory[d]}, f \in FprKinds :
       /\ l <= Memory[d]
       /\ hv' = [hv EXCEPT ![d] = [target |-> l, actual |-> l, stuck |-> FALSE,
                                   fpr |-> f, running |-> TRUE]]
  /\ alive' = alive \cup {d}
  /\ UNCHANGED daemonVars

DomainStop(d) ==
  /\ d \in alive
  /\ alive' = alive \ {d}
  /\ hv' = [hv EXCEPT ![d] = FullGuest(d)]
  /\ UNCHANGED daemonVars

DomainSuspend(d) ==
  /\ d \in alive /\ hv[d].running
  /\ hv' = [hv EXCEPT ![d].running = FALSE]
  /\ UNCHANGED <<daemonVars, alive>>

DomainResume(d) ==
  /\ d \in alive /\ ~hv[d].running
  /\ hv' = [hv EXCEPT ![d].running = TRUE]
  /\ UNCHANGED <<daemonVars, alive>>

(***************************************************************************)
(* The guest reboots.  A balloon whose device asks for no page (its target *)
(* is all the memory) is terminated where it stands; any other goes on.    *)
(* The new kernel may or may not report free pages.                        *)
(***************************************************************************)
GuestReboot(d) ==
  /\ d \in alive /\ hv[d].running
  /\ \E f \in FprKinds :
       hv' = [hv EXCEPT ![d].stuck = (hv[d].target = Memory[d]
                                        /\ hv[d].actual < Memory[d]),
                        ![d].fpr = f]
  /\ UNCHANGED <<daemonVars, alive>>

(* The balloon moves towards its target, all the way or a part of it. *)
GuestMove(d) ==
  /\ d \in alive /\ hv[d].running /\ ~hv[d].stuck
  /\ \E l \in Levels \cup {hv[d].target} :
       /\ \/ hv[d].actual < l /\ l <= hv[d].target
          \/ hv[d].target <= l /\ l < hv[d].actual
       /\ hv' = [hv EXCEPT ![d].actual = l]
  /\ UNCHANGED <<daemonVars, alive>>

(* "closing": the event thread is back in ConnectLibvirt already, because  *)
(* the registration for the events failed.                                 *)
LibvirtdGone ==
  /\ \/ conn = "fresh" /\ conn' \in {"lost", "closing"}
     \/ conn = "up" /\ conn' = "dead"
  /\ UNCHANGED <<listed, vm, stat, change, pc, todo, stop, main, envVars>>

------------------------------------------------------------------------------
(* libvirt calls. *)

(***************************************************************************)
(* Outcomes of virDomainSetMemoryFlags: done; refused; done, but the       *)
(* answer is lost and the call reports an error.  A handle of a domain     *)
(* that stopped, or of a connection that is gone, only gives an error.     *)
(***************************************************************************)
Outcomes == {"ok", "fail", "lost"}
Reachable(d) == conn = "up" /\ d \in alive
Possible(d, o) == Reachable(d) \/ o = "fail"

(* GetVmInfo: virDomainGetInfo of the guest g, into s. *)
GetVmInfo(s, g) == [s EXCEPT !.currentMem = g.actual, !.running = g.running]

(* SetVmBalloonTarget: what it makes of the guest g of a domain. *)
SetVmBalloonTarget(g, newTarget, o) ==
  IF o = "fail" THEN g
  ELSE [g EXCEPT !.target = newTarget, !.stuck = @ /\ newTarget = g.target]

(***************************************************************************)
(* A statistics record of a domain: none ("absent"), only the state and    *)
(* the size because the domain is busy ("partial"), or everything, with    *)
(* MemAvailable ("usable") or without it ("unused").                       *)
(***************************************************************************)
Readings == [kind : StatKinds, free : FreeLevels]

ClearDomainStats(s) ==
  [s EXCEPT !.actualBalloon = 0, !.available = 0, !.usable = 0, !.unused = 0,
            !.enable_fpr = FALSE]

(* GetOneDomainStats, on the statistics s that ClearAllDomainStats left. *)
GetOneDomainStats(s, g, r) ==
  LET sized == [s EXCEPT !.running = g.running, !.currentMem = g.actual,
                         !.actualBalloon = g.actual]
  IN  CASE r.kind = "absent"  -> s
        [] r.kind = "partial" -> sized
        [] OTHER -> [sized EXCEPT
                       !.available  = g.actual - Unmanaged,
                       !.usable     = IF r.kind = "usable" THEN r.free ELSE 0,
                       !.unused     = r.free,
                       !.enable_fpr = g.fpr]

(* A guest reports no more free memory than it manages. *)
Plausible(d, r) ==
  /\ d \notin alive => r.kind = "absent"
  /\ r.kind \in {"usable", "unused"} => r.free <= hv[d].actual - Unmanaged

CheckVmMemoryStat(s) ==
  /\ s.actualBalloon # 0
  /\ s.available # 0
  /\ s.usable # 0 \/ s.unused # 0

------------------------------------------------------------------------------
(* The list of virtual machines and the event thread. *)

(* FindAddVMToList: InitAndCheckVM looks the domain up and reads its size. *)
FindAddVMToList(d, isWindows) ==
  /\ Running /\ LockFree /\ conn = "up"
  /\ d \in alive \ listed
  /\ isWindows => d \in Windows
  /\ listed' = listed \cup {d}
  /\ vm' = [vm EXCEPT ![d] = [NewVM EXCEPT !.isWindows = isWindows]]
  /\ stat' = [stat EXCEPT ![d] = GetVmInfo(NoStat, hv[d])]
  /\ UNCHANGED <<conn, change, pc, todo, stop, main, envVars>>

(***************************************************************************)
(* FindDeleteVMFromList, on the event that the machine stopped.  The event *)
(* names the machine, so d is the domain that stopped or, when the event   *)
(* is older than the list, the next run of the same machine (see VmList).  *)
(* An event that was received is handled after the loss of libvirtd, too.  *)
(***************************************************************************)
FindDeleteVMFromList(d) ==
  /\ Running /\ LockFree /\ conn \in {"up", "dead"}
  /\ d \in listed
  /\ listed' = listed \ {d}
  /\ vm' = [vm EXCEPT ![d] = NewVM]
  /\ stat' = [stat EXCEPT ![d] = NoStat]
  /\ UNCHANGED <<conn, change, pc, todo, stop, main, envVars>>

FreeAllVM ==
  /\ listed' = {}
  /\ vm' = [d \in Doms |-> NewVM]
  /\ stat' = [d \in Doms |-> NoStat]

(***************************************************************************)
(* DomainEventProcessThread notices the loss, deregisters its callback and *)
(* goes round its loop, unless memlinkd stops.                             *)
(***************************************************************************)
NoticeLoss ==
  /\ Running /\ ~stop /\ conn \in {"lost", "dead"}
  /\ conn' = "closing"
  /\ UNCHANGED <<listed, vm, stat, change, pc, todo, stop, main, envVars>>

(* ConnectLibvirt: the dead connection is closed ... *)
DropConnection ==
  /\ Running /\ conn = "closing"
  /\ conn' = "null"
  /\ UNCHANGED <<listed, vm, stat, change, pc, todo, stop, main, envVars>>

(* ... and a new one opened. *)
OpenConnection ==
  /\ Running /\ conn = "null"
  /\ conn' = "fresh"
  /\ UNCHANGED <<listed, vm, stat, change, pc, todo, stop, main, envVars>>

(***************************************************************************)
(* DomainEventProcessThread after a reconnection: events registered, the   *)
(* list emptied and the main thread told.  CollectAddCurrentVMs fills the  *)
(* list by FindAddVMToList; the main thread may come before it is done,    *)
(* which only adds behaviours.  With a connection that is lost again after *)
(* the registration the list stays empty.                                  *)
(***************************************************************************)
RebuildList ==
  /\ Running /\ LockFree /\ conn \in {"fresh", "lost"}
  /\ conn' = IF conn = "fresh" THEN "up" ELSE "dead"
  /\ FreeAllVM
  /\ change' = TRUE
  /\ UNCHANGED <<pc, todo, stop, main, envVars>>

(***************************************************************************)
(* main(): ATOMIC_XCHG of g_libvirtChange, then UpdateAllVmInfo.  GetVmInfo *)
(* succeeds for the machines in S; the others are passed over.             *)
(***************************************************************************)
UpdateAllVmInfo ==
  /\ main = "run" /\ LockFree
  /\ change
  /\ change' = FALSE
  /\ \E S \in SUBSET {d \in listed : Reachable(d)} :
       stat' = [d \in Doms |-> IF d \in S THEN GetVmInfo(stat[d], hv[d])
                               ELSE stat[d]]
  /\ UNCHANGED <<listed, vm, conn, pc, todo, stop, main, envVars>>

------------------------------------------------------------------------------
(* BalloonVmMemThread. *)

(* while (g_stopMemlinkd == 0) *)
TestStop ==
  /\ Running /\ pc = "head"
  /\ pc' = IF stop THEN "ended" ELSE "stats"
  /\ UNCHANGED <<listed, vm, stat, conn, change, todo, stop, main, envVars>>

(***************************************************************************)
(* UpdateAllVmInfoAndMemoryStats.  Without a connection the statistics of  *)
(* the previous pass stay; with a dead one they are only cleared.          *)
(***************************************************************************)
GetAllDomainsStats(r) ==
  /\ Running /\ pc = "stats"
  /\ \A d \in listed : Plausible(d, r[d])
  /\ conn \in {"lost", "dead", "closing"} =>
       \A d \in listed : r[d].kind = "absent"
  /\ stat' = [d \in Doms |->
                IF conn = "null" \/ d \notin listed THEN stat[d]
                ELSE GetOneDomainStats(ClearDomainStats(stat[d]), hv[d], r[d])]
  /\ pc' = "flags"
  /\ UNCHANGED <<listed, vm, conn, change, todo, stop, main, envVars>>

(* A bug to detect: balloons left by an earlier daemon are not looked for. *)
NoRecovery(v, s, memory) == v

(* A bug to detect: machines that are ballooning already are marked too. *)
MarkAll(v, s, memory) ==
  IF CheckVmMemoryStat(s) /\ memory > s.currentMem
  THEN [v EXCEPT !.ballooning = TRUE, !.incompleteBalloon = TRUE]
  ELSE v

(* A machine smaller than it should be has a balloon nobody tends. *)
MarkIncomplete(v, s, memory) ==
  IF CheckVmMemoryStat(s) /\ ~v.ballooning /\ memory > s.currentMem
  THEN [v EXCEPT !.ballooning = TRUE, !.incompleteBalloon = TRUE]
  ELSE v

UnderPressure(s) ==
  UsageAboveUpper(GuestUsed(s.available, s.usable, s.unused), s.available)

AtLeisure(s) ==
  UsageBelowLower(GuestUsed(s.available, s.usable, s.unused), s.available)

RecordPressure(v, s) ==
  IF /\ s.running /\ CheckVmMemoryStat(s)
     /\ v.needBalloonFlag = 0 /\ ~v.ballooning
     /\ UnderPressure(s)
  THEN [v EXCEPT !.needBalloonFlag = 1]
  ELSE v

(* The lock is taken and the loops before BalloonMainLoop run. *)
UpdateFlags ==
  /\ Running /\ pc = "flags"
  /\ vm' = [d \in Doms |->
              IF d \in listed
              THEN RecordPressure(MarkIncomplete(vm[d], stat[d], Memory[d]),
                                  stat[d])
              ELSE vm[d]]
  /\ pc' = "loop"
  /\ todo' = listed
  /\ UNCHANGED <<listed, stat, conn, change, stop, main, envVars>>

(* needBalloonFlag after DoBallooning looked at the pressure. *)
PressureCount(v, s) ==
  IF UnderPressure(s) THEN 1
  ELSE IF AtLeisure(s) /\ v.needBalloonFlag > 0 THEN v.needBalloonFlag + 1
  ELSE v.needBalloonFlag

(* The machine of this iteration of BalloonMainLoop. *)
Visit(d) ==
  /\ Running /\ pc = "loop" /\ d \in todo
  /\ todo' = todo \ {d}
  /\ UNCHANGED <<listed, stat, conn, change, pc, stop, main, alive>>

(* Nothing to do: the machine is left for the next pass. *)
Skip(d) ==
  /\ Visit(d)
  /\ \/ stat[d].enable_fpr
     \/ ~vm[d].ballooning /\ ~(stat[d].running /\ CheckVmMemoryStat(stat[d]))
     \/ vm[d].ballooning /\ stat[d].actualBalloon = 0
  /\ UNCHANGED <<vm, hv>>

MayBalloon(d) ==
  ~stat[d].enable_fpr /\ ~vm[d].ballooning
    /\ stat[d].running /\ CheckVmMemoryStat(stat[d])

(* DoBallooning, not long enough at leisure yet. *)
CountPressure(d) ==
  /\ Visit(d) /\ MayBalloon(d)
  /\ PressureCount(vm[d], stat[d]) < NEED_BALLOON_CHECK_TIMES
  /\ vm' = [vm EXCEPT ![d].needBalloonFlag = PressureCount(vm[d], stat[d])]
  /\ UNCHANGED hv

(* A bug to detect: the result of the call is not looked at. *)
AfterDoBallooningUnchecked(v, target, o) ==
  [v EXCEPT !.needBalloonFlag = 0, !.balloonTarget = target,
            !.ballooning = TRUE, !.ballooningDown = TRUE]

(* Only a call that succeeded starts the way down; the count starts over. *)
AfterDoBallooning(v, target, o) ==
  [v EXCEPT !.needBalloonFlag = 0,
            !.balloonTarget   = target,
            !.ballooning      = (o = "ok"),
            !.ballooningDown  = @ \/ (o = "ok")]

(* DoBallooning, the machine is asked to give memory up. *)
StartBallooning(d, o) ==
  LET s == stat[d]
      target == BalloonTarget(Memory[d], s.available,
                              GuestUsed(s.available, s.usable, s.unused))
  IN  /\ Visit(d) /\ MayBalloon(d) /\ Possible(d, o)
      /\ PressureCount(vm[d], s) >= NEED_BALLOON_CHECK_TIMES
      /\ vm' = [vm EXCEPT ![d] = AfterDoBallooning(@, target, o)]
      /\ hv' = [hv EXCEPT ![d] = SetVmBalloonTarget(@, target, o)]

(* A machine that is ballooning and whose size is known: BalloonCheck. *)
Checked(d) ==
  ~stat[d].enable_fpr /\ vm[d].ballooning /\ stat[d].actualBalloon # 0

GoingDown(v) == ~v.incompleteBalloon /\ v.ballooningDown
ComingBack(v) == ~v.incompleteBalloon /\ ~v.ballooningDown

(* Condition 1: the balloon is within 1 MiB of its target. *)
TargetReached(v, s) ==
  Sub64(s.actualBalloon, v.balloonTarget) < LOW_WATER_MARK

(* A bug to detect: the index is not taken modulo 2. *)
RecordActualNoMask(v, s) ==
  [v EXCEPT !.currentActualBalloon = [@ EXCEPT ![v.balloonI] = s.actualBalloon],
            !.balloonI = @ + 1]

RecordActual(v, s) ==
  [v EXCEPT !.currentActualBalloon = [@ EXCEPT ![v.balloonI] = s.actualBalloon],
            !.balloonI = (@ + 1) % 2]

(* Condition 2: two passes have seen less than 300 MiB of movement. *)
TooSlow(v) ==
  labs(v.currentActualBalloon[0] - v.currentActualBalloon[1])
    < LOW_BALLOON_SIZE_KB

(* BalloonCheck: the machine goes on giving memory up. *)
KeepBallooning(d) ==
  /\ Visit(d) /\ Checked(d) /\ GoingDown(vm[d])
  /\ ~TargetReached(vm[d], stat[d])
  /\ ~TooSlow(RecordActual(vm[d], stat[d]))
  /\ vm' = [vm EXCEPT ![d] = RecordActual(@, stat[d])]
  /\ UNCHANGED hv

(***************************************************************************)
(* BalloonCheck says -1: the first step back, to 2 MiB less than all.  The *)
(* state BalloonCheck leaves, and what the call makes of it.               *)
(***************************************************************************)
StopBalloon(v, s) ==
  IF GoingDown(v) /\ ~TargetReached(v, s)
  THEN [RecordActual(v, s) EXCEPT !.needBalloonFlag = 1]
  ELSE v

(* A bug to detect: the result of the call is not looked at. *)
ForgetFailure(v, o) ==
  [v EXCEPT !.ballooningDown = FALSE, !.balloonI = 0,
            !.currentActualBalloon = [i \in 0 .. 1 |-> 0],
            !.incompleteBalloon = FALSE]

(* A bug to detect: a machine is let go of when its call fails. *)
LetGoOnFailure(v, o) ==
  IF o = "ok" THEN ForgetFailure(v, o)
  ELSE [v EXCEPT !.ballooning = FALSE, !.ballooningDown = FALSE,
                 !.incompleteBalloon = FALSE]

AfterStepOne(v, o) ==
  IF o = "ok"
  THEN [v EXCEPT !.ballooningDown = FALSE, !.balloonI = 0,
                 !.currentActualBalloon = [i \in 0 .. 1 |-> 0],
                 !.incompleteBalloon = FALSE]
  ELSE [v EXCEPT !.incompleteBalloon = TRUE]

BackStepOne(d, o) ==
  /\ Visit(d) /\ Checked(d) /\ Possible(d, o)
  /\ \/ vm[d].incompleteBalloon
     \/ /\ GoingDown(vm[d])
        /\ \/ TargetReached(vm[d], stat[d])
           \/ TooSlow(RecordActual(vm[d], stat[d]))
  /\ vm' = [vm EXCEPT ![d] = AfterStepOne(StopBalloon(@, stat[d]), o)]
  /\ hv' = [hv EXCEPT ![d] = SetVmBalloonTarget(@, BackTarget(Memory[d]), o)]

(* How much of the machine's memory the balloon still holds. *)
Withheld(d) == Sub64(Memory[d], stat[d].actualBalloon)

(* BalloonCheck: all the memory is back. *)
BackDone(d) ==
  /\ Visit(d) /\ Checked(d) /\ ComingBack(vm[d])
  /\ Withheld(d) < LOW_WATER_MARK
  /\ vm' = [vm EXCEPT ![d].ballooning = FALSE]
  /\ UNCHANGED hv

(* BALLOONBACK_LEFT: the second step back, to all the memory. *)
BackStepTwo(d, o) ==
  /\ Visit(d) /\ Checked(d) /\ ComingBack(vm[d]) /\ Possible(d, o)
  /\ Withheld(d) >= LOW_WATER_MARK
  /\ Withheld(d) <= BALLOON_BACK_RESERVED_SIZE_KB
  /\ hv' = [hv EXCEPT ![d] = SetVmBalloonTarget(@, Memory[d], o)]
  /\ UNCHANGED vm

(* The first step back is still under way. *)
BackWait(d) ==
  /\ Visit(d) /\ Checked(d) /\ ComingBack(vm[d])
  /\ Withheld(d) > BALLOON_BACK_RESERVED_SIZE_KB
  /\ UNCHANGED <<vm, hv>>

(* The end of the pass: the lock is released and the thread sleeps. *)
EndPass ==
  /\ Running /\ pc = "loop" /\ todo = {}
  /\ pc' = "head"
  /\ UNCHANGED <<listed, vm, stat, conn, change, todo, stop, main, envVars>>

------------------------------------------------------------------------------
(* The life of the daemon. *)

(***************************************************************************)
(* main() up to its loop.  CoreInit returns when the event thread has      *)
(* collected the machines, and only then is BalloonVmMemThread created, so *)
(* no other thread sees the list before.  found: what was collected, which *)
(* may lack machines that run and hold some that stopped since; libvirtd   *)
(* may be gone again.  isWin: what CheckVMIsWindows found out.             *)
(***************************************************************************)
StartDaemon(isWin, found) ==
  /\ main \in {"none", "exited"}
  /\ isWin \subseteq Windows
  /\ main' = "run" /\ stop' = FALSE /\ change' = FALSE
  /\ conn' \in {"up", "dead"} /\ pc' = "head" /\ todo' = {}
  /\ listed' = found
  /\ vm' = [d \in Doms |-> IF d \in found
                           THEN [NewVM EXCEPT !.isWindows = (d \in isWin)]
                           ELSE NewVM]
  /\ stat' = [d \in Doms |-> IF d \in found
                             THEN GetVmInfo(NoStat, hv[d]) ELSE NoStat]
  /\ UNCHANGED envVars

SignalHandler ==
  /\ Running /\ ~stop
  /\ stop' = TRUE
  /\ UNCHANGED <<listed, vm, stat, conn, change, pc, todo, main, envVars>>

(***************************************************************************)
(* CoreExit, BalloonBackVmMem: ten attempts for every machine that is      *)
(* ballooning.  o[d]: "ok" if an attempt succeeded, "lost" if none did but *)
(* one took effect.                                                        *)
(***************************************************************************)
BalloonBackVmMem(o) ==
  /\ main = "run" /\ stop /\ LockFree
  /\ \A d \in listed : Possible(d, o[d])
  /\ hv' = [d \in Doms |->
              IF d \in listed /\ vm[d].ballooning
              THEN SetVmBalloonTarget(hv[d], Memory[d], o[d])
              ELSE hv[d]]
  /\ main' = "exiting"
  /\ UNCHANGED <<listed, vm, stat, conn, change, pc, todo, stop, alive>>

(* What is left of a process that is gone. *)
ProcessGone ==
  /\ FreeAllVM
  /\ conn' = "null" /\ change' = FALSE /\ pc' = "off" /\ todo' = {}
  /\ stop' = FALSE
  /\ UNCHANGED envVars

(* CoreExit, FreeAllVM; main() returns and every thread ends with it. *)
ExitDaemon ==
  /\ main = "exiting" /\ LockFree
  /\ main' = "exited"
  /\ ProcessGone

(* The daemon is killed, at any point. *)
Kill ==
  /\ Running
  /\ main' = "none"
  /\ ProcessGone

------------------------------------------------------------------------------
(* How a libvirt call turns out when nothing goes wrong ... *)
Usual(d) == IF Reachable(d) THEN "ok" ELSE "fail"

(* ... and whether the answer of a statistics call is complete. *)
Complete(r) ==
  \A d \in listed : r[d].kind \in {"absent", "partial"} => ~Reachable(d)

BalloonStep ==
  \/ TestStop
  \/ \E r \in [listed -> Readings] : Complete(r) /\ GetAllDomainsStats(r)
  \/ UpdateFlags
  \/ \E d \in todo : \/ Skip(d)
                     \/ CountPressure(d)
                     \/ StartBallooning(d, Usual(d))
                     \/ KeepBallooning(d)
                     \/ BackStepOne(d, Usual(d))
                     \/ BackDone(d)
                     \/ BackStepTwo(d, Usual(d))
                     \/ BackWait(d)
  \/ EndPass

EventStep ==
  \/ \E d \in Doms, w \in BOOLEAN : FindAddVMToList(d, w)
  \/ \E d \in Doms \ alive : FindDeleteVMFromList(d)
  \/ NoticeLoss
  \/ DropConnection
  \/ OpenConnection
  \/ RebuildList

MainStep ==
  \/ UpdateAllVmInfo
  \/ BalloonBackVmMem([d \in listed |-> Usual(d)])
  \/ ExitDaemon

(***************************************************************************)
(* What disturbs the daemon: statistics or calls that fail although the    *)
(* guest can be reached, guests that are suspended or reboot, the stop     *)
(* event of an earlier run, a first list that is not that of the machines  *)
(* that run, a libvirtd that goes away, a signal, a kill.                  *)
(***************************************************************************)
Fault ==
  \/ \E r \in [listed -> Readings] : ~Complete(r) /\ GetAllDomainsStats(r)
  \/ \E d \in todo, o \in Outcomes \ {"ok"} :
       /\ Reachable(d)
       /\ StartBallooning(d, o) \/ BackStepOne(d, o) \/ BackStepTwo(d, o)
  \/ \E o \in [listed -> Outcomes] :
       /\ \E d \in listed : Reachable(d) /\ o[d] # "ok"
       /\ BalloonBackVmMem(o)
  \/ \E d \in alive : DomainSuspend(d) \/ GuestReboot(d)
                      \/ FindDeleteVMFromList(d)
  \/ \E isWin \in SUBSET Windows, found \in SUBSET Doms :
       /\ StartDaemon(isWin, found)
       /\ found # alive \/ conn' # "up"
  \/ LibvirtdGone
  \/ SignalHandler
  \/ Kill

Environment ==
  \/ \E d \in Doms : \/ DomainStart(d) \/ DomainStop(d) \/ DomainResume(d)
                     \/ GuestMove(d)
  \/ \E isWin \in SUBSET Windows : StartDaemon(isWin, alive) /\ conn' = "up"

Normal == BalloonStep \/ EventStep \/ MainStep \/ Environment

Next == Normal \/ Fault

Spec == Init /\ [][Next]_vars

------------------------------------------------------------------------------
(* What the controller guarantees. *)

ControlTypes ==
  /\ listed \subseteq Doms
  /\ conn \in ConnStates
  /\ change \in BOOLEAN
  /\ pc \in PcStates
  /\ todo \subseteq Doms
  /\ stop \in BOOLEAN
  /\ main \in MainStates

VmTypes == vm \in [Doms -> VmInfo] /\ stat \in [Doms -> VmStat]

GuestTypes ==
  /\ alive \subseteq Doms
  /\ hv \in [Doms -> Guest]
  /\ \A d \in Doms : hv[d].target <= Memory[d] /\ hv[d].actual <= Memory[d]

(***************************************************************************)
(* Every variable has its type: the ring index of the two last sizes stays *)
(* an index, the pressure counter is reset before it reaches               *)
(* NEED_BALLOON_CHECK_TIMES, and a size asked of libvirt is never negative *)
(* or beyond the machine's memory.                                         *)
(***************************************************************************)
TypeOK == ControlTypes /\ VmTypes /\ GuestTypes

(* The size of the first step back, or more, has been asked for. *)
AskedBack(d) == hv[d].target >= BackTarget(Memory[d])

MachineFlags(d) ==
  /\ vm[d].ballooningDown \/ vm[d].incompleteBalloon => vm[d].ballooning
  /\ vm[d].ballooning /\ ComingBack(vm[d]) => AskedBack(d)
  /\ vm[d].ballooning /\ GoingDown(vm[d]) /\ main = "run" /\ d \in alive
       => hv[d].target = vm[d].balloonTarget

(***************************************************************************)
(* The flags of a machine mean what the code reads them for: a pass only   *)
(* visits machines of the list; the two flags that qualify `ballooning'    *)
(* are off without it; on the way back libvirt really was asked for the    *)
(* memory; on the way down, until the daemon exits, libvirt was last asked *)
(* for exactly the recorded target, which no failed or lost call, kill,    *)
(* reconnection or reboot in between may falsify.                          *)
(***************************************************************************)
FlagsTruthful ==
  /\ todo \subseteq listed
  /\ LockFree => todo = {}
  /\ \A d \in listed : MachineFlags(d)

(***************************************************************************)
(* The daemon stops tending a balloon (`ballooning' of a machine that      *)
(* stays in the list goes back to false) only when it has asked libvirt    *)
(* for the machine's memory back: BalloonCheck never gives a machine up    *)
(* while libvirt still holds a lowered target.                             *)
(***************************************************************************)
NeverForgets ==
  [][\A d \in listed \cap listed' :
       vm[d].ballooning /\ ~vm'[d].ballooning => AskedBack(d)]_vars

(***************************************************************************)
(* The comment at memlink_core.c 222: memory is given back in two steps.   *)
(* While the daemon is not on its way out, it asks libvirt for all the     *)
(* memory of a machine it is ballooning only when all but the last 2 MiB   *)
(* of it are back, so that a guest that reboots half way does not keep its *)
(* balloon.  What it compares is the size of its last reading.             *)
(***************************************************************************)
TwoStep ==
  [][main = "run" /\ main' = "run" =>
       \A d \in alive \cap alive' :
         /\ vm[d].ballooning
         /\ hv[d].target < Memory[d] /\ hv'[d].target = Memory[d]
         => Memory[d] - hv[d].actual <= BALLOON_BACK_RESERVED_SIZE_KB]_vars

(* The least the configuration and the code leave to a machine. *)
Reserve(d) ==
  MAX(BALLON_TARGET_RESERVED_KBYTES,
      (Memory[d] * g_balloonTargetMaxTotalPercent) \div 100)

ReportedFree(s) == IF s.usable # 0 THEN s.usable ELSE s.unused

(***************************************************************************)
(* Whenever the daemon lowers a target, it leaves the guest at least the   *)
(* reserve (README.md: balloon_target_max_total_percent) and at least what *)
(* the guest does not report as free.  The first step back, which may      *)
(* lower the target by its 2 MiB, is the exception.                        *)
(***************************************************************************)
LeavesEnough ==
  [][\A d \in alive \cap alive' :
       hv'[d].target < hv[d].target =>
         \/ hv'[d].target = BackTarget(Memory[d])
         \/ /\ hv'[d].target >= Reserve(d)
            /\ hv'[d].target >= Memory[d] - ReportedFree(stat[d])]_vars

(***************************************************************************)
(* memlink_driver.c 162: "windows VM is a kind of special VM, will not be  *)
(* ballooned".  A machine known to run Windows never gives memory up.      *)
(***************************************************************************)
WindowsNotBallooned ==
  \A d \in listed : vm[d].isWindows => ~vm[d].ballooningDown

(***************************************************************************)
(* memlink_core.c 348: "if vm is ballooning when stop memlinkd service,    *)
(* should balloon back".  When CoreExit is done, a machine of the list     *)
(* that was ballooning has been told to take its memory back.              *)
(***************************************************************************)
ExitGivesBack ==
  [][main = "exiting" /\ main' = "exited" =>
       \A d \in listed \cap alive :
         vm[d].ballooning => AskedBack(d)]_vars

------------------------------------------------------------------------------
(* The machines as BalloonProtocol sees them. *)

PhaseOf(d) ==
  CASE d \notin listed -> "out"
    [] d \in listed /\ ~vm[d].ballooning -> "idle"
    [] d \in listed /\ vm[d].ballooning /\ vm[d].incompleteBalloon -> "retry"
    [] d \in listed /\ vm[d].ballooning /\ GoingDown(vm[d]) -> "down"
    [] OTHER -> "back"

Phase == [d \in Doms |-> PhaseOf(d)]

Lowered == {d \in Doms : ~AskedBack(d)}

Protocol == INSTANCE BalloonProtocol WITH phase <- Phase, lowered <- Lowered

(***************************************************************************)
(* The controller, its four flags, counters, statistics, list, connection  *)
(* and threads keep the protocol of BalloonProtocol: every step of it, of  *)
(* libvirtd and of the guests is a step of the protocol or leaves phases   *)
(* and lowered targets alone.  So a machine that stays in the list is let  *)
(* go of only after libvirt was told to give it its memory back, and only  *)
(* a stop event, FreeAllVM or the end of the process drops it otherwise.   *)
(***************************************************************************)
KeepsProtocol == Protocol!Spec

==============================================================================
