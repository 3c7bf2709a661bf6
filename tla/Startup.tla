------------------------------- MODULE Startup -------------------------------
(***************************************************************************)
(* One memlinkd from its configuration to its end: main() after Daemonize, *)
(* CoreInit, CreateEventThread and CoreExit (main.c, memlink_core.c), the  *)
(* two threads it creates and what they share: the semaphore on the stack  *)
(* of CreateEventThread, g_stopMemlinkd, the mutex of g_vmlistHead and     *)
(* g_libvirtChange (util.c, libvirt_helper.c).                             *)
(*                                                                         *)
(* Here the machines are only a number of libvirt calls made with the      *)
(* mutex held, and the point is who waits for whom: a libvirt call may     *)
(* fail, take its time or never return.                                    *)
(***************************************************************************)
EXTENDS Config, Clock

CONSTANTS
  Files,        \* the contents /etc/memlinkd.conf may have
  Signals,      \* SIGHUP 1, SIGINT 2, SIGTERM 15
  Usecs,        \* the readings of the clock, tv_usec, that are looked at
  MaxMachines,  \* bound: machines found by one collection
  MaxLosses,    \* bound: how many times the connection is lost
  HangUnlocked, \* may a libvirt call never return, made without the mutex,
  HangLocked    \* and with it?

ASSUME StartupAssumption ==
  /\ Files \subseteq Seq([key : STRING, value : Int \cup {Malformed}])
                      \cup {NoFile}
  /\ Signals \subseteq Nat \ {0}
  /\ Usecs \subseteq UsecRange
  /\ MaxMachines \in Nat /\ MaxLosses \in Nat
  /\ HangUnlocked \in BOOLEAN /\ HangLocked \in BOOLEAN

VARIABLES
  values,   \* cfg of LoadCfgFile: the values read so far
  seen,     \* history: the version of the file each of them was read from
  cfg,      \* the settings: g_hostInfoPollTimeMs and its like
  main,     \* where the main thread is
  event,    \* where DomainEventProcessThread is
  balloon,  \* where BalloonVmMemThread is
  sem,      \* readySem
  stop,     \* g_stopMemlinkd: 0, 1 or a signal's number
  lock,     \* who holds the mutex of g_vmlistHead
  initFlag, \* of DomainEventProcessThread
  change,   \* g_libvirtChange
  left,     \* machines CollectAddCurrentVMs has still to add
  masked,   \* the main thread blocks all signals
  hung,     \* the threads whose libvirt call will not return
  losses,   \* environment: losses of the connection so far
  built,    \* history: the list has been collected
  gaveUp,   \* history: SemTimeWait timed out
  badPost   \* history: SemPost on a semaphore that no longer exists

vars == <<values, seen, cfg, main, event, balloon, sem, stop, lock, initFlag,
          change, left, masked, hung, losses, built, gaveUp, badPost>>

(***************************************************************************)
(* "load" LoadCfgFile; "create" CreateEventThread; "wait" in SemTimeWait;  *)
(* "late" it timed out; "giveup", "ready" before the SemDestroy of either  *)
(* case; "spawn" before BalloonVmMemThread is created; "loop" the loop of  *)
(* main(); "taken" and "update" UpdateAllVmInfo without and with the       *)
(* mutex; "core" CoreExit; "back" BalloonBackVmMem, with the mutex; "free" *)
(* before FreeAllVM; "end" at ERROR2; "exited".                            *)
(***************************************************************************)
MainStates == {"load", "create", "wait", "late", "giveup", "ready", "spawn",
               "loop", "taken", "update", "core", "back", "free", "end",
               "exited"}

(***************************************************************************)
(* "none" not created; "impl" virEventRegisterDefaultImpl; "head" the test *)
(* of g_stopMemlinkd; "connect"; "register"; "clear" before FreeAllVM;     *)
(* "collect" asking for the domains; "add" before FindAddVMToList;         *)
(* "adding" in it; "test" before, "post" and "tell" after the test of      *)
(* initFlag; "run" the inner loop; "handling" an event; "cleanup";         *)
(* "ended".                                                                *)
(***************************************************************************)
EventStates == {"none", "impl", "head", "connect", "register", "clear",
                "collect", "add", "adding", "test", "post", "tell", "run",
                "handling", "cleanup", "ended"}

(***************************************************************************)
(* "head" the test of g_stopMemlinkd; "want" before the first section;     *)
(* "stats" and "pass" the two sections with the mutex held.                *)
(***************************************************************************)
BalloonStates == {"none", "head", "want", "stats", "between", "pass", "ended"}

(* readySem: not initialised, its count, destroyed. *)
SemStates == {"none", "zero", "one", "gone"}

Threads == {"main", "event", "balloon"}

Init ==
  /\ values = <<>> /\ seen = <<>> /\ cfg = Default
  /\ main = "load" /\ event = "none" /\ balloon = "none"
  /\ sem = "none" /\ stop = 0 /\ lock = "free"
  /\ initFlag = FALSE /\ change = FALSE /\ left = 0
  /\ masked = FALSE /\ hung = {} /\ losses = 0
  /\ built = FALSE /\ gaveUp = FALSE /\ badPost = FALSE

cfgVars    == <<values, seen, cfg>>
threadVars == <<main, event, balloon>>
eventVars  == <<initFlag, left, losses, built, badPost>>

(* A thread takes a step: the process is there and its call returned. *)
Runs(t) == main # "exited" /\ t \notin hung

MainAt(from, to) == Runs("main") /\ main = from /\ main' = to
EventAt(from, to) == Runs("event") /\ event = from /\ event' = to
BalloonAt(from, to) == Runs("balloon") /\ balloon = from /\ balloon' = to

MutexLock(t) == lock = "free" /\ lock' = t
MutexUnlock(t) == lock = t /\ lock' = "free"

------------------------------------------------------------------------------
(* main(): the configuration. *)

(***************************************************************************)
(* GET_INT_VALUE_FROM_CFG for the next key; an error ends LoadCfgFile.     *)
(* Every key opens the file anew, and finds what the administrator has     *)
(* written to it by then.                                                  *)
(***************************************************************************)
ReadSetting ==
  /\ Runs("main") /\ main = "load" /\ Len(values) < Len(KeyOrder)
  /\ \E file \in Files :
       LET key   == KeyOrder[Len(values) + 1]
           value == GetIntegerValueFromCfg(file, key)
       IN  IF value = CFGOPEN_OR_MEMSET_ERROR
           THEN main' = "end" /\ values' = <<>> /\ seen' = <<>>
           ELSE /\ main' = main
                /\ values' = Append(values, OrDefault(key, value))
                /\ seen' = Append(seen, file)
  /\ UNCHANGED <<cfg, event, balloon, sem, stop, lock, change, masked,
                 hung, gaveUp, eventVars>>

ApplySettings ==
  /\ Len(values) = Len(KeyOrder)
  /\ MainAt("load", "create")
  /\ cfg' = InRangeOnly(cfg, [k \in Keys |->
              values[CHOOSE i \in DOMAIN KeyOrder : KeyOrder[i] = k]])
  /\ values' = <<>> /\ seen' = <<>>
  /\ UNCHANGED <<event, balloon, sem, stop, lock, change, masked, hung,
                 gaveUp, eventVars>>

------------------------------------------------------------------------------
(* CoreInit. *)

(* ThreadCreate failed in pthread_create, or before the signals are masked. *)
ThreadCreateFails == main' = "core" /\ masked' \in {masked, TRUE}

(* CreateEventThread: SemInit and ThreadCreate. *)
CreateEventThread ==
  /\ Runs("main") /\ main = "create"
  /\ \/ main' = "wait" /\ event' = "impl" /\ sem' = "zero" /\ UNCHANGED masked
     \/ ThreadCreateFails /\ sem' = "gone" /\ UNCHANGED event
     \/ main' = "core" /\ UNCHANGED <<event, sem, masked>>    \* SemInit fails
  /\ UNCHANGED <<cfgVars, balloon, stop, lock, change, hung, gaveUp, eventVars>>

(* A bug to detect: a wait that a signal interrupts is not taken up again. *)
SemWaitInterrupted ==
  /\ \/ sem = "one" /\ sem' = "zero"
     \/ stop # 0 /\ UNCHANGED sem
  /\ MainAt("wait", "ready")
  /\ UNCHANGED <<cfgVars, event, balloon, stop, lock, change, masked, hung,
                 gaveUp, eventVars>>

(***************************************************************************)
(* SemTimeWait ends well.  A signal only interrupts the wait, the loop     *)
(* around sem_timedwait goes on.                                           *)
(***************************************************************************)
SemTimeWait ==
  /\ sem = "one" /\ sem' = "zero"
  /\ MainAt("wait", "ready")
  /\ UNCHANGED <<cfgVars, event, balloon, stop, lock, change, masked, hung,
                 gaveUp, eventVars>>

(* A bug to detect: a wait without a limit, sem_wait. *)
WaitForEver == FALSE /\ UNCHANGED vars

(* The time g_initSemWaitTimeout is over and the count still 0. *)
SemTimeOut ==
  /\ sem = "zero"
  /\ MainAt("wait", "late")
  /\ gaveUp' = TRUE
  /\ UNCHANGED <<cfgVars, event, balloon, sem, stop, lock, change, masked,
                 hung, eventVars>>

GiveUp ==
  /\ MainAt("late", "giveup")
  /\ stop' = 1
  /\ UNCHANGED <<cfgVars, event, balloon, sem, lock, change, masked, hung,
                 gaveUp, eventVars>>

(* The end of CreateEventThread, whose stack readySem is on. *)
SemDestroy ==
  /\ MainAt("giveup", "core") \/ MainAt("ready", "spawn")
  /\ sem' = "gone"
  /\ UNCHANGED <<cfgVars, event, balloon, stop, lock, change, masked, hung,
                 gaveUp, eventVars>>

CreateBalloonThread ==
  /\ Runs("main") /\ main = "spawn"
  /\ \/ /\ cfg["balloon_enable"] = 1
        /\ main' = "loop" /\ balloon' = "head" /\ UNCHANGED masked
     \/ /\ cfg["balloon_enable"] = 1
        /\ ThreadCreateFails /\ UNCHANGED balloon
     \/ /\ cfg["balloon_enable"] # 1
        /\ main' = "loop" /\ UNCHANGED <<balloon, masked>>
  /\ UNCHANGED <<cfgVars, event, sem, stop, lock, change, hung, gaveUp,
                 eventVars>>

------------------------------------------------------------------------------
(* The loop of main() and CoreExit. *)

TestStop ==
  /\ stop # 0
  /\ MainAt("loop", "core")
  /\ UNCHANGED <<cfgVars, event, balloon, sem, stop, lock, change, masked,
                 hung, gaveUp, eventVars>>

(* ATOMIC_XCHG of g_libvirtChange ... *)
TakeChange ==
  /\ stop = 0 /\ change
  /\ change' = FALSE
  /\ MainAt("loop", "taken")
  /\ UNCHANGED <<cfgVars, event, balloon, sem, stop, lock, masked, hung, gaveUp,
                 eventVars>>

(* ... and UpdateAllVmInfo, with the mutex. *)
BeginUpdate ==
  /\ MainAt("taken", "update")
  /\ MutexLock("main")
  /\ UNCHANGED <<cfgVars, event, balloon, sem, stop, change, masked, hung,
                 gaveUp, eventVars>>

UpdateDone ==
  /\ MainAt("update", "loop")
  /\ MutexUnlock("main")
  /\ UNCHANGED <<cfgVars, event, balloon, sem, stop, change, masked, hung,
                 gaveUp, eventVars>>

(* CoreExit: BalloonBackVmMem only where ballooning is enabled. *)
BeginBack ==
  /\ \/ /\ cfg["balloon_enable"] = 1
        /\ MainAt("core", "back")
        /\ MutexLock("main")
     \/ /\ cfg["balloon_enable"] # 1
        /\ MainAt("core", "free")
        /\ UNCHANGED lock
  /\ UNCHANGED <<cfgVars, event, balloon, sem, stop, change, masked, hung,
                 gaveUp, eventVars>>

(* A bug to detect: BalloonBackVmMem returns with the mutex. *)
BackKeepsMutex ==
  /\ MainAt("back", "free")
  /\ UNCHANGED <<cfgVars, event, balloon, sem, stop, lock, change, masked, hung,
                 gaveUp, eventVars>>

BackDone ==
  /\ MainAt("back", "free")
  /\ MutexUnlock("main")
  /\ UNCHANGED <<cfgVars, event, balloon, sem, stop, change, masked, hung,
                 gaveUp, eventVars>>

(* FreeAllVM calls nothing that could wait, but takes the mutex. *)
FreeAllVM ==
  /\ MainAt("free", "end")
  /\ lock = "free"
  /\ UNCHANGED <<cfgVars, event, balloon, sem, stop, lock, change, masked,
                 hung, gaveUp, eventVars>>

(* ERROR2 and the return of main(), with which every thread is gone. *)
Exit ==
  /\ MainAt("end", "exited")
  /\ stop' = 1
  /\ UNCHANGED <<cfgVars, event, balloon, sem, lock, change, masked, hung,
                 gaveUp, eventVars>>

------------------------------------------------------------------------------
(* DomainEventProcessThread. *)

mainVars == <<cfgVars, main, balloon, stop, masked, hung, gaveUp>>

(* exit(EXIT_FAILURE) ends the process. *)
RegisterImpl ==
  /\ \/ EventAt("impl", "head") /\ UNCHANGED main
     \/ EventAt("impl", "ended") /\ main' = "exited"
  /\ UNCHANGED <<cfgVars, balloon, stop, masked, hung, gaveUp, sem, lock,
                 change, eventVars>>

EventHead ==
  /\ \/ stop = 0 /\ EventAt("head", "connect")
     \/ stop # 0 /\ EventAt("head", "ended")
  /\ UNCHANGED <<mainVars, sem, lock, change, eventVars>>

(* ConnectLibvirt tries until a connection is open. *)
Connect ==
  /\ EventAt("connect", "register")
  /\ UNCHANGED <<mainVars, sem, lock, change, eventVars>>

Register ==
  /\ EventAt("register", "clear") \/ EventAt("register", "cleanup")
  /\ UNCHANGED <<mainVars, sem, lock, change, eventVars>>

Clear ==
  /\ EventAt("clear", "collect")
  /\ lock = "free"
  /\ UNCHANGED <<mainVars, sem, lock, change, eventVars>>

Collect ==
  /\ EventAt("collect", "add")
  /\ left' \in 0 .. MaxMachines
  /\ UNCHANGED <<mainVars, sem, lock, change, initFlag, losses, built, badPost>>

(* A bug to detect: one machine too many is taken from domids. *)
BeginAddUnbounded ==
  /\ EventAt("add", "adding")
  /\ MutexLock("event")
  /\ UNCHANGED <<mainVars, sem, change, eventVars>>

BeginAdd ==
  /\ left > 0
  /\ EventAt("add", "adding")
  /\ MutexLock("event")
  /\ UNCHANGED <<mainVars, sem, change, eventVars>>

EndAdd ==
  /\ EventAt("adding", "add")
  /\ MutexUnlock("event")
  /\ left' = left - 1
  /\ UNCHANGED <<mainVars, sem, change, initFlag, losses, built, badPost>>

Collected ==
  /\ left = 0
  /\ EventAt("add", "test")
  /\ built' = TRUE
  /\ UNCHANGED <<mainVars, sem, lock, change, initFlag, left, losses, badPost>>

(* if (!initFlag && g_stopMemlinkd != 1) *)
TestReady ==
  /\ \/ ~initFlag /\ stop # 1 /\ EventAt("test", "post")
     \/ (initFlag \/ stop = 1) /\ EventAt("test", "tell")
  /\ UNCHANGED <<mainVars, sem, lock, change, eventVars>>

(* A bug to detect: every collection posts the semaphore. *)
PostAlways ==
  /\ EventAt("post", "run")
  /\ sem' = IF sem = "zero" THEN "one" ELSE sem
  /\ badPost' = (badPost \/ sem = "gone")
  /\ UNCHANGED <<mainVars, lock, change, initFlag, left, losses, built>>

SemPost ==
  /\ EventAt("post", "run")
  /\ initFlag' = TRUE
  /\ sem' = IF sem = "zero" THEN "one" ELSE sem
  /\ badPost' = (badPost \/ sem = "gone")
  /\ UNCHANGED <<mainVars, lock, change, left, losses, built>>

Tell ==
  /\ EventAt("tell", "run")
  /\ change' = TRUE
  /\ UNCHANGED <<mainVars, sem, lock, eventVars>>

(* An event arrives and the list is changed, with the mutex. *)
BeginEvent ==
  /\ EventAt("run", "handling")
  /\ MutexLock("event")
  /\ UNCHANGED <<mainVars, sem, change, eventVars>>

EndEvent ==
  /\ EventAt("handling", "run")
  /\ MutexUnlock("event")
  /\ UNCHANGED <<mainVars, sem, change, eventVars>>

(* The connection is lost. *)
LoseConnection ==
  /\ losses < MaxLosses
  /\ EventAt("run", "cleanup")
  /\ losses' = losses + 1
  /\ UNCHANGED <<mainVars, sem, lock, change, initFlag, left, built, badPost>>

Cleanup ==
  /\ EventAt("cleanup", "head")
  /\ UNCHANGED <<mainVars, sem, lock, change, eventVars>>

------------------------------------------------------------------------------
(* BalloonVmMemThread. *)

BalloonHead ==
  /\ \/ stop = 0 /\ BalloonAt("head", "want")
     \/ stop # 0 /\ BalloonAt("head", "ended")
  /\ UNCHANGED <<cfgVars, main, event, sem, stop, lock, change, masked, hung,
                 gaveUp, eventVars>>

(* The stop may have come since the test. *)
BeginStats ==
  /\ BalloonAt("want", "stats") /\ MutexLock("balloon")
  /\ UNCHANGED <<cfgVars, main, event, sem, stop, change, masked, hung, gaveUp,
                 eventVars>>

StatsDone ==
  /\ BalloonAt("stats", "between") /\ MutexUnlock("balloon")
  /\ UNCHANGED <<cfgVars, main, event, sem, stop, change, masked, hung, gaveUp,
                 eventVars>>

BeginPass ==
  /\ BalloonAt("between", "pass") /\ MutexLock("balloon")
  /\ UNCHANGED <<cfgVars, main, event, sem, stop, change, masked, hung, gaveUp,
                 eventVars>>

PassDone ==
  /\ BalloonAt("pass", "head") /\ MutexUnlock("balloon")
  /\ UNCHANGED <<cfgVars, main, event, sem, stop, change, masked, hung, gaveUp,
                 eventVars>>

------------------------------------------------------------------------------
(* The environment. *)

SignalHandler ==
  /\ main # "exited" /\ ~masked
  /\ \E s \in Signals : stop' = s
  /\ UNCHANGED <<cfgVars, threadVars, sem, lock, change, masked, hung, gaveUp,
                 eventVars>>

(***************************************************************************)
(* The threads that are in a libvirt call, without the mutex and with it.  *)
(* The calls of the main thread in "back" and "update", one per machine of *)
(* the list, are taken to return: the list itself is not modelled here.    *)
(***************************************************************************)
CallsUnlocked(t) ==
  t = "event" /\ event \in {"connect", "register", "collect", "run", "cleanup"}
CallsLocked(t) == t # "main" /\ lock = t

Hang(t) ==
  /\ Runs(t)
  /\ \/ HangUnlocked /\ CallsUnlocked(t)
     \/ HangLocked /\ CallsLocked(t)
  /\ hung' = hung \cup {t}
  /\ UNCHANGED <<cfgVars, threadVars, sem, stop, lock, change, masked, gaveUp,
                 eventVars>>

------------------------------------------------------------------------------
MainStep ==
  \/ ReadSetting \/ ApplySettings
  \/ CreateEventThread \/ SemTimeWait \/ SemTimeOut \/ GiveUp \/ SemDestroy
  \/ CreateBalloonThread
  \/ TestStop \/ TakeChange \/ BeginUpdate \/ UpdateDone
  \/ BeginBack \/ BackDone \/ FreeAllVM \/ Exit

EventStep ==
  \/ RegisterImpl \/ EventHead \/ Connect \/ Register \/ Clear \/ Collect
  \/ BeginAdd \/ EndAdd \/ Collected \/ TestReady \/ SemPost \/ Tell
  \/ BeginEvent \/ EndEvent \/ LoseConnection \/ Cleanup

BalloonStep == BalloonHead \/ BeginStats \/ StatsDone \/ BeginPass \/ PassDone

Environment ==
  \/ SignalHandler
  \/ \E t \in Threads : Hang(t)

Next == MainStep \/ EventStep \/ BalloonStep \/ Environment

Spec == Init /\ [][Next]_vars

(***************************************************************************)
(* Each thread is scheduled and a libvirt call that does not hang returns. *)
(* The event thread may wait for an event for ever.  The mutex is not      *)
(* fair, but the other threads release it and sleep or wait for an event,  *)
(* so the main thread, when it wants it, gets it in the end.               *)
(***************************************************************************)
FairSpec ==
  /\ Spec
  /\ WF_vars(MainStep) /\ WF_vars(BalloonStep)
  /\ WF_vars(EventStep /\ event # "run")
  /\ SF_vars(BeginBack) /\ SF_vars(FreeAllVM) /\ SF_vars(BeginUpdate)

------------------------------------------------------------------------------
(* Every variable has its type. *)
TypeOK ==
  /\ values \in Seq(Int) /\ seen \in Seq(Files) /\ cfg \in [Keys -> Int]
  /\ main \in MainStates /\ event \in EventStates /\ balloon \in BalloonStates
  /\ sem \in SemStates
  /\ stop \in Signals \cup {0, 1}
  /\ lock \in Threads \cup {"free"}
  /\ initFlag \in BOOLEAN /\ change \in BOOLEAN
  /\ left \in 0 .. MaxMachines
  /\ masked \in BOOLEAN
  /\ hung \subseteq Threads
  /\ losses \in 0 .. MaxLosses
  /\ built \in BOOLEAN /\ gaveUp \in BOOLEAN /\ badPost \in BOOLEAN

(***************************************************************************)
(* What a setting should be, given the lines of the file: the first number *)
(* written for its key if that is in its range (README.md: 120 to 10000    *)
(* and 0 to 100 percent) and the default otherwise.  Only a number that    *)
(* does not fit an int may be taken for another one.                       *)
(***************************************************************************)
Obeys(setting, key, file) ==
  LET range   == Lowest[key] .. Highest[key]
      numbers == {i \in DOMAIN file : /\ file[i].key = key
                                      /\ file[i].value # Malformed}
  IN  \/ numbers = {} /\ setting = Default[key]
      \/ \E i \in numbers :
           /\ \A j \in numbers : i <= j
           /\ \/ file[i].value \in range /\ setting = file[i].value
              \/ file[i].value \notin range /\ setting = Default[key]
              \/ file[i].value \notin IntValues /\ setting \in range

(***************************************************************************)
(* LoadCfgFile opens the file five times, and it may change in between and *)
(* disappear.  Each setting the daemon starts with is what the version of  *)
(* the file says that was there when its key was read: no number stands    *)
(* for an error or a missing line, none that fits an int is taken for      *)
(* another, and a setting is not mixed up with its neighbour's.  When one  *)
(* of the five readings fails, no setting is changed.                      *)
(***************************************************************************)
SettingsAsWritten ==
  [][main = "load" =>
       \/ main' \in {"load", "end"} /\ cfg' = Default
       \/ /\ main' = "create"
          /\ \A i \in DOMAIN KeyOrder :
               Obeys(cfg'[KeyOrder[i]], KeyOrder[i], seen[i])]_vars

(***************************************************************************)
(* The wait of SemTimeWait lasts exactly init_sem_wait_timeout, whatever   *)
(* the file says and whatever the clock shows, and sem_timedwait accepts   *)
(* the deadline: an error other than ETIMEDOUT would count as a post, and  *)
(* the daemon would go on without its list.                                *)
(***************************************************************************)
WaitIsTimed ==
  \A usec \in Usecs :
    LET ms == cfg["init_sem_wait_timeout"]
        ts == SemDeadline(usec, ms)
    IN  /\ ValidNsec(ts)
        /\ ts.tv_sec * MS_TO_S_RATE
             + (ts.tv_nsec - usec * US_TO_NS_RATE) \div MS_TO_NS_RATE = ms

(***************************************************************************)
(* The main thread naps between two rounds, to the beginning of a second   *)
(* no later than the configured time, unless host_info_poll_time is less   *)
(* than a second: then SleepApprox(0) asks for a negative time, nanosleep  *)
(* refuses and the loop of main() does not pause.                          *)
(***************************************************************************)
NapsBetweenRounds ==
  \A usec \in Usecs :
    LET seconds == cfg["host_info_poll_time"] \div MS_TO_S_RATE
        ts      == SleepApprox(usec, seconds)
    IN  /\ ValidNsec(ts)
        /\ (usec * US_TO_NS_RATE + ts.tv_nsec) % S_TO_NS_RATE = 0
        /\ ts.tv_sec < seconds \/ (ts.tv_sec = seconds /\ ts.tv_nsec = 0)
        /\ ts.tv_sec < 0 <=> cfg["host_info_poll_time"] < 1000 /\ usec # 0

(* CreateEventThread returned 0 and the daemon has not failed since. *)
Initialised ==
  main \in {"ready", "spawn", "loop", "taken", "update"} \/ balloon # "none"

(***************************************************************************)
(* CoreInit tells main() that the event thread is ready, and starts the    *)
(* balloon thread, only when the machines have been collected, although    *)
(* signals interrupt the wait, registrations fail and the connection is    *)
(* lost.                                                                   *)
(***************************************************************************)
ReadyMeansBuilt == Initialised => built

(***************************************************************************)
(* The semaphore lives on the stack of CreateEventThread, which returns:   *)
(* it is posted after its end only if the wait had timed out.  No          *)
(* reconnection posts it again.                                            *)
(***************************************************************************)
PostInTime == badPost => gaveUp

(***************************************************************************)
(* The mutex of g_vmlistHead is held by the thread that is in one of its   *)
(* sections and by nobody otherwise, so that no two threads work on the    *)
(* list and no way out of a section leaves it locked; and a call that      *)
(* never returns, made without the mutex, never keeps it from the others:  *)
(* that is why CoreExit gets it.                                           *)
(***************************************************************************)
MutexGuardsList ==
  main # "exited" =>
    /\ lock = "main" <=> main \in {"update", "back"}
    /\ lock = "event" <=> event \in {"adding", "handling"}
    /\ lock = "balloon" <=> balloon \in {"stats", "pass"}
    /\ ~HangLocked => lock \notin hung

(***************************************************************************)
(* The comment at memlink_driver.c 61: the timeout "is used to exit        *)
(* memlink while worst cases happened, such as libvirt didn't return".     *)
(***************************************************************************)
TimeoutExits == gaveUp ~> main = "exited"

(***************************************************************************)
(* A start comes to an end, whether the event thread posts, ends before it *)
(* does (a signal came) or hangs in libvirt; and a daemon that is told to  *)
(* stop does.                                                              *)
(***************************************************************************)
StopsWhenTold ==
  /\ main = "wait" ~> main # "wait"
  /\ stop # 0 ~> main = "exited"
===============================================================================
