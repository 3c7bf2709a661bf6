---------------------------- MODULE StartupProofs ----------------------------
(***************************************************************************)
(* Safety of the start and the end of memlinkd, for every set of           *)
(* configuration files, any number of machines and of lost connections,    *)
(* and calls that may hang anywhere.                                       *)
(***************************************************************************)
EXTENDS Startup, WellFoundedInduction, TLAPS

(* The keys of the file, spelled out. *)
LEMMA KeySet ==
  /\ Keys = {"host_info_poll_time", "init_sem_wait_timeout", "balloon_enable",
             "balloon_target_used_percent", "balloon_target_max_total_percent"}
  /\ Len(KeyOrder) = 5
  /\ \A i \in 1 .. 5 : KeyOrder[i] \in Keys
<1>1. Len(KeyOrder) = 5 BY DEF KeyOrder
<1>2. \A i \in 1 .. 5 : KeyOrder[i] \in Keys BY DEF Keys
<1>3. Keys = {KeyOrder[1], KeyOrder[2], KeyOrder[3], KeyOrder[4], KeyOrder[5]}
  <2>1. 1 .. 5 = {1, 2, 3, 4, 5} OBVIOUS
  <2> QED BY <2>1 DEF Keys
<1> QED BY <1>1, <1>2, <1>3 DEF KeyOrder

(* Each setting has a range, of no negative numbers, with its default. *)
LEMMA Ranges ==
  \A k \in Keys : /\ Lowest[k] \in Nat /\ Highest[k] \in Nat
                  /\ Default[k] \in Lowest[k] .. Highest[k]
<1>1. Default["host_info_poll_time"] = 1000
      /\ Lowest["host_info_poll_time"] = 100 /\ Highest["host_info_poll_time"]
         = 6000
  BY SMT DEF Default, Lowest, Highest
<1>2. Default["init_sem_wait_timeout"] = 600000
      /\ Lowest["init_sem_wait_timeout"] = 10000
      /\ Highest["init_sem_wait_timeout"] = 3600000
  BY SMT DEF Default, Lowest, Highest
<1>3. Default["balloon_enable"] = 1
      /\ Lowest["balloon_enable"] = 0 /\ Highest["balloon_enable"] = 1
  BY SMT DEF Default, Lowest, Highest
<1>4. Default["balloon_target_used_percent"] = 130
      /\ Lowest["balloon_target_used_percent"] = 120
      /\ Highest["balloon_target_used_percent"] = 10000
  BY SMT DEF Default, Lowest, Highest
<1>5. Default["balloon_target_max_total_percent"] = 50
      /\ Lowest["balloon_target_max_total_percent"] = 0
      /\ Highest["balloon_target_max_total_percent"] = 100
  BY SMT DEF Default, Lowest, Highest
<1> QED BY SMT, KeySet, <1>1, <1>2, <1>3, <1>4, <1>5

(* What GetIntegerValueFromCfg returns is a number, and so is what         *)
(* GET_INT_VALUE_FROM_CFG makes of it.                                     *)
LEMMA ValueType ==
  ASSUME NEW f, NEW k \in Keys
  PROVE  /\ GetIntegerValueFromCfg(f, k) \in Int
         /\ OrDefault(k, GetIntegerValueFromCfg(f, k)) \in Int
<1>1. \A v \in -LONG_MAX - 1 .. LONG_MAX : ToInt(v) \in Int
  BY SMT, ConfigAssumption DEF ToInt
<1>2. GetIntegerValueFromCfg(f, k) \in Int
  BY <1>1 DEF GetIntegerValueFromCfg, CFGOPEN_OR_MEMSET_ERROR
<1> QED BY <1>2, Ranges DEF OrDefault

(* The end of LoadCfgFile keeps the settings in their ranges. *)
LEMMA InRangeStays ==
  ASSUME NEW c, NEW v, \A k \in Keys : c[k] \in Lowest[k] .. Highest[k]
  PROVE  /\ InRangeOnly(c, v) \in [Keys -> Int]
         /\ \A k \in Keys : InRangeOnly(c, v)[k] \in Lowest[k] .. Highest[k]
<1>1. \A k \in Keys : \A x \in Lowest[k] .. Highest[k] : x \in Int
  BY Ranges
<1> QED BY <1>1 DEF InRangeOnly

(***************************************************************************)
(* The settings the daemon works with are in their ranges: what the other  *)
(* proofs here, and the assumptions on the percentages in BalloonMath,     *)
(* need of LoadCfgFile.                                                    *)
(***************************************************************************)
SettingsInRange == \A k \in Keys : cfg[k] \in Lowest[k] .. Highest[k]

(***************************************************************************)
(* The order of the handshake.  The semaphore counts, and CoreInit goes    *)
(* on, only after the list was built and initFlag set; once the semaphore  *)
(* is gone there is a reason why nobody posts it, or the wait timed out.   *)
(***************************************************************************)
Handshake ==
  /\ initFlag => built
  /\ event \in {"test", "post", "tell", "run", "handling"} => built
  /\ event = "post" => ~initFlag
  /\ event = "adding" => left > 0
  /\ main \in {"load", "create"} => event = "none"
  /\ sem = "one" \/ main = "ready" => initFlag
  /\ main \in {"late", "giveup"} => gaveUp
  /\ sem = "gone" => gaveUp \/ initFlag \/ event = "none"

IInv == TypeOK /\ SettingsInRange /\ Handshake /\ ReadyMeansBuilt /\ PostInTime

(* The first state satisfies the invariant. *)
LEMMA InitIInv == ASSUME Init PROVE IInv
<1>1. SettingsInRange BY Ranges DEF Init, SettingsInRange
<1>2. Default \in [Keys -> Int] BY SMT, KeySet, Ranges DEF Default
<1>3. TypeOK
  <2>1. values \in Seq(Int) /\ seen \in Seq(Files) /\ cfg \in [Keys -> Int]
    BY <1>2 DEF Init
  <2>2. /\ initFlag \in BOOLEAN /\ change \in BOOLEAN /\ masked \in BOOLEAN
        /\ built \in BOOLEAN /\ gaveUp \in BOOLEAN /\ badPost \in BOOLEAN
    BY DEF Init
  <2>3. left \in 0 .. MaxMachines /\ losses \in 0 .. MaxLosses /\ hung = {}
    BY StartupAssumption DEF Init
  <2>4. /\ main \in MainStates /\ event \in EventStates
        /\ balloon \in BalloonStates /\ sem \in SemStates
        /\ stop = 0 /\ lock = "free"
    BY DEF Init, MainStates, EventStates, BalloonStates, SemStates
  <2> QED BY <2>1, <2>2, <2>3, <2>4 DEF TypeOK
<1>4. Handshake /\ ReadyMeansBuilt /\ PostInTime
  BY DEF Init, Handshake, ReadyMeansBuilt, Initialised, PostInTime
<1> QED BY <1>1, <1>3, <1>4 DEF IInv

LEMMA ElementOf ==
  ASSUME NEW S, NEW s \in Seq(S), NEW i \in 1 .. Len(s)
  PROVE  s[i] \in S
OBVIOUS

(* One more value is read, or none. *)
LEMMA ReadType ==
  ASSUME values \in Seq(Int), seen \in Seq(Files), ReadSetting
  PROVE  values' \in Seq(Int) /\ seen' \in Seq(Files)
<1>1. Len(values) + 1 \in 1 .. 5 BY KeySet DEF ReadSetting
<1>2. KeyOrder[Len(values) + 1] \in Keys BY <1>1, KeySet
<1>3. \/ values' = <<>> /\ seen' = <<>>
      \/ \E f \in Files :
           LET k == KeyOrder[Len(values) + 1]
           IN  /\ values' = Append(values,
                                   OrDefault(k, GetIntegerValueFromCfg(f, k)))
               /\ seen' = Append(seen, f)
  BY DEF ReadSetting
<1>4. CASE values' = <<>> /\ seen' = <<>> BY <1>4
<1>5. ASSUME NEW f \in Files, NEW v \in Int,
             values' = Append(values, v), seen' = Append(seen, f)
      PROVE  values' \in Seq(Int) /\ seen' \in Seq(Files)
  BY <1>5
<1> QED BY <1>2, <1>3, <1>4, <1>5, ValueType, Zenon

(* Each step of the main thread: LoadCfgFile, CoreInit, main(), CoreExit. *)
LEMMA MainIInv ==
  ASSUME IInv, MainStep
  PROVE  TypeOK' /\ Handshake' /\ ReadyMeansBuilt' /\ PostInTime'
<1> USE DEF IInv, TypeOK, Handshake, ReadyMeansBuilt, Initialised, PostInTime,
        Runs, MainAt, EventAt, BalloonAt, MutexLock, MutexUnlock, cfgVars,
        threadVars, eventVars, mainVars, MainStates, EventStates, BalloonStates,
        SemStates, Threads
<1>1. CASE ReadSetting
  <2>1. values' \in Seq(Int) /\ seen' \in Seq(Files) BY <1>1, ReadType
  <2>2. /\ main' \in {"end", main}
        /\ UNCHANGED <<cfg, event, balloon, sem, stop, lock, change,
                       masked, hung, gaveUp, eventVars>>
    BY <1>1 DEF ReadSetting
  <2> QED BY <2>1, <2>2
<1>2. CASE ApplySettings
  <2>1. cfg' \in [Keys -> Int]
    BY <1>2, InRangeStays DEF ApplySettings, SettingsInRange
  <2>2. values' \in Seq(Int) /\ seen' \in Seq(Files)
    BY <1>2 DEF ApplySettings
  <2>3. /\ main = "load" /\ main' = "create"
        /\ UNCHANGED <<event, balloon, sem, stop, lock, change, masked,
                       hung, gaveUp, eventVars>>
    BY <1>2 DEF ApplySettings
  <2> QED BY <2>1, <2>2, <2>3
<1>3. CASE CreateEventThread
  <2>1. masked' \in BOOLEAN BY <1>3 DEF CreateEventThread, ThreadCreateFails
  <2>2. /\ main = "create" /\ main' \in {"wait", "core"}
        /\ \/ sem' = "zero" /\ event' = "impl"
           \/ sem' \in {"gone", sem} /\ event' = event
        /\ UNCHANGED <<cfgVars, balloon, stop, lock, change, hung, gaveUp,
                       eventVars>>
    BY <1>3 DEF CreateEventThread, ThreadCreateFails
  <2> QED BY <2>1, <2>2
<1>4. CASE SemTimeWait BY <1>4 DEF SemTimeWait
<1>5. CASE SemTimeOut BY <1>5 DEF SemTimeOut
<1>6. CASE GiveUp BY <1>6 DEF GiveUp
<1>7. CASE SemDestroy BY <1>7 DEF SemDestroy
<1>8. CASE CreateBalloonThread
  <2>1. masked' \in BOOLEAN BY <1>8 DEF CreateBalloonThread, ThreadCreateFails
  <2>2. /\ main = "spawn" /\ main' \in {"loop", "core"}
        /\ balloon' \in {"head", balloon}
        /\ UNCHANGED <<cfgVars, event, sem, stop, lock, change, hung, gaveUp,
                       eventVars>>
    BY <1>8 DEF CreateBalloonThread, ThreadCreateFails
  <2> QED BY <2>1, <2>2
<1>9. CASE TestStop BY <1>9 DEF TestStop
<1>10. CASE TakeChange
  <2>1. main = "loop" /\ main' = "taken" BY <1>10 DEF TakeChange
  <2>2. change' \in BOOLEAN BY <1>10 DEF TakeChange
  <2>3. UNCHANGED <<cfgVars, event, balloon, sem, stop, lock, masked, hung,
                    gaveUp, eventVars>>
    BY <1>10 DEF TakeChange
  <2> QED BY <2>1, <2>2, <2>3
<1>11. CASE BeginUpdate BY <1>11 DEF BeginUpdate
<1>12. CASE UpdateDone BY <1>12 DEF UpdateDone
<1>13. CASE BeginBack BY <1>13 DEF BeginBack
<1>14. CASE BackDone BY <1>14 DEF BackDone
<1>15. CASE FreeAllVM BY <1>15 DEF FreeAllVM
<1>16. CASE Exit BY <1>16 DEF Exit
<1> QED
  BY <1>1, <1>2, <1>3, <1>4, <1>5, <1>6, <1>7, <1>8, <1>9, <1>10, <1>11,
     <1>12, <1>13, <1>14, <1>15, <1>16 DEF MainStep

(* Each step of DomainEventProcessThread. *)
LEMMA EventIInv ==
  ASSUME IInv, EventStep
  PROVE  TypeOK' /\ Handshake' /\ ReadyMeansBuilt' /\ PostInTime'
<1> USE DEF IInv, TypeOK, Handshake, ReadyMeansBuilt, Initialised, PostInTime,
        Runs, MainAt, EventAt, BalloonAt, MutexLock, MutexUnlock, cfgVars,
        threadVars, eventVars, mainVars, MainStates, EventStates, BalloonStates,
        SemStates, Threads
<1>1. CASE RegisterImpl BY <1>1 DEF RegisterImpl
<1>2. CASE EventHead BY <1>2 DEF EventHead
<1>3. CASE Connect BY <1>3 DEF Connect
<1>4. CASE Register BY <1>4 DEF Register
<1>5. CASE Clear BY <1>5 DEF Clear
<1>6. CASE Collect BY <1>6 DEF Collect
<1>7. CASE BeginAdd BY <1>7 DEF BeginAdd
<1>8. CASE EndAdd
  BY <1>8, StartupAssumption DEF EndAdd
<1>9. CASE Collected BY <1>9 DEF Collected
<1>10. CASE TestReady BY <1>10 DEF TestReady
<1>11. CASE SemPost BY <1>11 DEF SemPost
<1>12. CASE Tell BY <1>12 DEF Tell
<1>13. CASE BeginEvent BY <1>13 DEF BeginEvent
<1>14. CASE EndEvent BY <1>14 DEF EndEvent
<1>15. CASE LoseConnection
  BY <1>15, StartupAssumption DEF LoseConnection
<1>16. CASE Cleanup BY <1>16 DEF Cleanup
<1> QED
  BY <1>1, <1>2, <1>3, <1>4, <1>5, <1>6, <1>7, <1>8, <1>9, <1>10, <1>11,
     <1>12, <1>13, <1>14, <1>15, <1>16 DEF EventStep

(* Each step of BalloonVmMemThread. *)
LEMMA BalloonIInv ==
  ASSUME IInv, BalloonStep
  PROVE  TypeOK' /\ Handshake' /\ ReadyMeansBuilt' /\ PostInTime'
<1> USE DEF IInv, TypeOK, Handshake, ReadyMeansBuilt, Initialised, PostInTime,
        Runs, MainAt, EventAt, BalloonAt, MutexLock, MutexUnlock, cfgVars,
        threadVars, eventVars, mainVars, MainStates, EventStates, BalloonStates,
        SemStates, Threads
<1>1. CASE BalloonHead BY <1>1 DEF BalloonHead
<1>2. CASE BeginStats BY <1>2 DEF BeginStats
<1>3. CASE StatsDone BY <1>3 DEF StatsDone
<1>4. CASE BeginPass BY <1>4 DEF BeginPass
<1>5. CASE PassDone BY <1>5 DEF PassDone
<1> QED BY <1>1, <1>2, <1>3, <1>4, <1>5 DEF BalloonStep

(* Signals and calls that hang. *)
LEMMA EnvironmentIInv ==
  ASSUME IInv, Environment
  PROVE  TypeOK' /\ Handshake' /\ ReadyMeansBuilt' /\ PostInTime'
<1> USE DEF IInv, TypeOK, Handshake, ReadyMeansBuilt, Initialised, PostInTime,
        Runs, MainAt, EventAt, BalloonAt, MutexLock, MutexUnlock, cfgVars,
        threadVars, eventVars, mainVars, MainStates, EventStates, BalloonStates,
        SemStates, Threads
<1>1. CASE SignalHandler BY <1>1 DEF SignalHandler
<1>2. ASSUME NEW t \in Threads, Hang(t)
      PROVE  TypeOK' /\ Handshake' /\ ReadyMeansBuilt' /\ PostInTime'
  BY <1>2 DEF Hang
<1> QED BY <1>1, <1>2 DEF Environment

(* The settings change in one place only. *)
LEMMA SettingsIInv ==
  ASSUME IInv, [Next]_vars
  PROVE  SettingsInRange'
<1>1. CASE ApplySettings
  BY <1>1, InRangeStays DEF IInv, ApplySettings, SettingsInRange
<1>2. CASE UNCHANGED cfg BY <1>2 DEF IInv, SettingsInRange
<1>3. ApplySettings \/ UNCHANGED cfg
  <2>1. MainStep => ApplySettings \/ UNCHANGED cfg
    BY DEF MainStep, ReadSetting, CreateEventThread, SemTimeWait, SemTimeOut,
       GiveUp, SemDestroy, CreateBalloonThread, TestStop, TakeChange,
       BeginUpdate, UpdateDone, BeginBack, BackDone, FreeAllVM, Exit, cfgVars
  <2>2. EventStep => UNCHANGED cfg
    BY DEF EventStep, RegisterImpl, EventHead, Connect, Register, Clear,
       Collect, BeginAdd, EndAdd, Collected, TestReady, SemPost, Tell,
       BeginEvent, EndEvent, LoseConnection, Cleanup, mainVars, cfgVars
  <2>3. BalloonStep => UNCHANGED cfg
    BY DEF BalloonStep, BalloonHead, BeginStats, StatsDone, BeginPass, PassDone,
       cfgVars
  <2>4. Environment => UNCHANGED cfg
    BY DEF Environment, SignalHandler, Hang, cfgVars
  <2> QED BY <2>1, <2>2, <2>3, <2>4 DEF Next, vars
<1> QED BY <1>1, <1>2, <1>3

(* Every step preserves the invariant. *)
LEMMA NextIInv == ASSUME IInv, [Next]_vars PROVE IInv'
<1>1. SettingsInRange' BY SettingsIInv
<1>2. TypeOK' /\ Handshake' /\ ReadyMeansBuilt' /\ PostInTime'
  <2>1. CASE UNCHANGED vars
    BY <2>1 DEF vars, IInv, TypeOK, Handshake, ReadyMeansBuilt, Initialised,
       PostInTime
  <2> QED BY <2>1, MainIInv, EventIInv, BalloonIInv, EnvironmentIInv DEF Next
<1> QED BY <1>1, <1>2 DEF IInv

(* The invariant holds throughout. *)
LEMMA IInvHolds == Spec => []IInv
<1>1. Init => IInv BY InitIInv
<1>2. IInv /\ [Next]_vars => IInv' BY NextIInv
<1> QED BY <1>1, <1>2, PTL DEF Spec

(* Every variable of a starting and stopping daemon keeps its type. *)
THEOREM TypeCorrect == Spec => []TypeOK
<1>1. IInv => TypeOK BY DEF IInv
<1> QED BY <1>1, IInvHolds, PTL

(***************************************************************************)
(* The settings are in their ranges whatever LoadCfgFile finds in the      *)
(* file.                                                                   *)
(***************************************************************************)
LEMMA SettingsStayInRange == Spec => []SettingsInRange
<1>1. IInv => SettingsInRange BY DEF IInv
<1> QED BY <1>1, IInvHolds, PTL

(***************************************************************************)
(* CoreInit succeeds, and the balloon thread exists, only with a list that *)
(* CollectAddCurrentVMs has built: the semaphore carries that fact from    *)
(* one thread to the other, over signals, failures and reconnections.      *)
(***************************************************************************)
THEOREM ReadyAlwaysMeansBuilt == Spec => []ReadyMeansBuilt
<1>1. IInv => ReadyMeansBuilt BY DEF IInv
<1> QED BY <1>1, IInvHolds, PTL

(***************************************************************************)
(* DomainEventProcessThread posts the semaphore of CreateEventThread after *)
(* its SemDestroy only when SemTimeWait had timed out.                     *)
(***************************************************************************)
THEOREM PostAlwaysInTime == Spec => []PostInTime
<1>1. IInv => PostInTime BY DEF IInv
<1> QED BY <1>1, IInvHolds, PTL

------------------------------------------------------------------------------
(* The configuration. *)

(* Every set of natural numbers that is not empty has a least one. *)
LEMMA LeastNumber ==
  ASSUME NEW S, S \subseteq Nat, S # {}
  PROVE  \E i \in S : \A j \in S : i <= j
<1> DEFINE R == OpToRel(<, Nat)
<1>1. PICK i \in S : \A j \in S : <<j, i>> \notin R
  <2>1. IsWellFoundedOn(R, Nat) BY NatLessThanWellFounded
  <2> HIDE DEF R
  <2> QED BY <2>1, WFMin
<1>2. \A j \in S : ~(j < i) BY <1>1 DEF OpToRel
<1> QED BY <1>2

(* No two settings have the same name. *)
LEMMA KeysDiffer ==
  \A i, j \in 1 .. 5 : KeyOrder[i] = KeyOrder[j] => i = j
<1>1. 1 .. 5 = {1, 2, 3, 4, 5} OBVIOUS
<1> QED BY <1>1 DEF KeyOrder

(* A number that fits an int is not changed by the assignment to one. *)
LEMMA FitsInt ==
  ASSUME NEW n \in IntValues
  PROVE  n \in Int /\ ToInt(n) = n
<1> DEFINE h == INT_RANGE \div 2
<1>1. h \in Nat /\ INT_RANGE = 2 * h /\ h > 0
  BY ConfigAssumption
<1> HIDE DEF h
<1>2. n \in Int /\ n + h \in 0 .. 2 * h - 1
  BY <1>1 DEF IntValues, h
<1>3. \A x \in 0 .. 2 * h - 1 : x % (2 * h) = x
  BY <1>1
<1> QED BY <1>1, <1>2, <1>3 DEF ToInt, h

(***************************************************************************)
(* GetIntegerValueFromCfg, GET_INT_VALUE_FROM_CFG and the comparison at    *)
(* the end of LoadCfgFile together do what Obeys says, for every file that *)
(* gives no error.                                                         *)
(***************************************************************************)
LEMMA OneSetting ==
  ASSUME NEW k \in Keys, NEW f \in Files, NEW s,
         GetIntegerValueFromCfg(f, k) # CFGOPEN_OR_MEMSET_ERROR,
         LET v == OrDefault(k, GetIntegerValueFromCfg(f, k))
         IN  s = IF v \in Lowest[k] .. Highest[k] THEN v ELSE Default[k]
  PROVE  Obeys(s, k, f)
<1> DEFINE range == Lowest[k] .. Highest[k]
           numbers == {i \in DOMAIN f : /\ f[i].key = k
                                        /\ f[i].value # Malformed}
           got == GetIntegerValueFromCfg(f, k)
           c == CHOOSE i \in numbers : \A j \in numbers : i <= j
           n == f[c].value
<1>1. f \in Seq([key : STRING, value : Int \cup {Malformed}])
  BY StartupAssumption DEF GetIntegerValueFromCfg
<1>2. Default[k] \in range /\ -1 \notin range /\ range \subseteq Int
  BY Ranges
<1>3. CASE numbers = {}
  <2>1. got = -1 BY <1>3 DEF GetIntegerValueFromCfg
  <2>2. s = Default[k] BY <1>2, <2>1 DEF OrDefault
  <2> QED BY <1>3, <2>2 DEF Obeys
<1>4. CASE numbers # {}
  <2>1. numbers \subseteq Nat BY <1>1
  <2>2. \E i \in numbers : \A j \in numbers : i <= j
    BY <1>4, <2>1, LeastNumber
  <2>3. c \in numbers /\ \A j \in numbers : c <= j BY <2>2
  <2>4. n \in Int
    <3> HIDE DEF c
    <3>1. f[c] \in [key : STRING, value : Int \cup {Malformed}]
      <4>1. c \in 1 .. Len(f) BY <1>1, <2>3
      <4> QED BY <1>1, <4>1, ElementOf, Zenon
    <3> QED BY <2>3, <3>1
  <2>5. got = ToInt(n) BY <1>4 DEF GetIntegerValueFromCfg
  <2> HIDE DEF c, n, got, numbers
  <2>6. s = IF OrDefault(k, got) \in range THEN OrDefault(k, got) ELSE Default[k]
    BY DEF got
  <2>7. \/ n \in range /\ s = n
        \/ n \notin range /\ s = Default[k]
        \/ n \notin IntValues /\ s \in range
    <3>1. CASE n \in IntValues
      BY <1>2, <2>5, <2>6, <3>1, FitsInt DEF OrDefault
    <3>2. CASE n \notin IntValues
      BY <1>2, <2>6, <3>2
    <3> QED BY <3>1, <3>2
  <2> QED BY <2>3, <2>7 DEF Obeys, numbers, n
<1> QED BY <1>3, <1>4

(* The values read so far and the files they are from; nothing is applied. *)
Loading ==
  main = "load" =>
    /\ cfg = Default
    /\ Len(seen) = Len(values) /\ Len(values) <= 5
    /\ \A i \in 1 .. Len(values) :
         LET v == GetIntegerValueFromCfg(seen[i], KeyOrder[i])
         IN  /\ v # CFGOPEN_OR_MEMSET_ERROR
             /\ values[i] = OrDefault(KeyOrder[i], v)

(* One more key is read. *)
LEMMA ReadLoading ==
  ASSUME TypeOK, Loading, ReadSetting
  PROVE  Loading'
<1>1. /\ values \in Seq(Int) /\ seen \in Seq(Files) /\ main = "load"
      /\ Len(values) < 5 /\ cfg' = cfg
  BY KeySet DEF TypeOK, ReadSetting
<1>2. CASE main' = "end" BY <1>2 DEF Loading
<1>3. CASE main' # "end"
  <2> DEFINE k == KeyOrder[Len(values) + 1]
  <2>1. PICK f \in Files :
          /\ GetIntegerValueFromCfg(f, k) # CFGOPEN_OR_MEMSET_ERROR
          /\ values' = Append(values, OrDefault(k, GetIntegerValueFromCfg(f, k)))
          /\ seen' = Append(seen, f)
    BY <1>3 DEF ReadSetting
  <2> DEFINE w == OrDefault(k, GetIntegerValueFromCfg(f, k))
  <2>2. w \in Int
    <3>1. k \in Keys BY <1>1, KeySet
    <3> QED BY <3>1, ValueType
  <2>3. /\ Len(values') = Len(values) + 1 /\ Len(seen') = Len(seen) + 1
        /\ values'[Len(values) + 1] = w /\ seen'[Len(seen) + 1] = f
        /\ \A i \in 1 .. Len(values) : values'[i] = values[i]
        /\ \A i \in 1 .. Len(seen) : seen'[i] = seen[i]
    <3> HIDE DEF w
    <3> QED BY <1>1, <2>1, <2>2 DEF w
  <2> QED BY <1>1, <2>1, <2>3 DEF Loading
<1> QED BY <1>2, <1>3

(* Nothing else touches the settings before they have all been read. *)
LEMMA LoadSteps ==
  ASSUME IInv, [Next]_vars
  PROVE  \/ ReadSetting \/ ApplySettings
         \/ /\ UNCHANGED <<values, seen, cfg>>
            /\ main' = main \/ (main # "load" /\ main' # "load")
<1> USE DEF MainAt, mainVars, cfgVars
<1>1. CASE MainStep
  <2>1. CASE CreateEventThread BY <2>1 DEF CreateEventThread, ThreadCreateFails
  <2>2. CASE SemTimeWait BY <2>2 DEF SemTimeWait
  <2>3. CASE SemTimeOut BY <2>3 DEF SemTimeOut
  <2>4. CASE GiveUp BY <2>4 DEF GiveUp
  <2>5. CASE SemDestroy BY <2>5 DEF SemDestroy
  <2>6. CASE CreateBalloonThread
    BY <2>6 DEF CreateBalloonThread, ThreadCreateFails
  <2>7. CASE TestStop \/ TakeChange BY <2>7 DEF TestStop, TakeChange
  <2>8. CASE BeginUpdate \/ UpdateDone BY <2>8 DEF BeginUpdate, UpdateDone
  <2>9. CASE BeginBack \/ BackDone BY <2>9 DEF BeginBack, BackDone
  <2>10. CASE FreeAllVM \/ Exit BY <2>10 DEF FreeAllVM, Exit
  <2> QED BY <1>1, <2>1, <2>2, <2>3, <2>4, <2>5, <2>6, <2>7, <2>8, <2>9, <2>10
          DEF MainStep
<1>2. CASE EventStep
  <2>1. CASE RegisterImpl
    <3>1. main # "load" BY <2>1 DEF RegisterImpl, EventAt, IInv, Handshake
    <3> QED BY <2>1, <3>1 DEF RegisterImpl
  <2> QED BY <1>2, <2>1
          DEF EventStep, EventHead, Connect, Register, Clear, Collect, BeginAdd,
              EndAdd, Collected, TestReady, SemPost, Tell, BeginEvent, EndEvent,
              LoseConnection, Cleanup
<1>3. CASE BalloonStep
  BY <1>3 DEF BalloonStep, BalloonHead, BeginStats, StatsDone, BeginPass,
              PassDone
<1>4. CASE Environment
  BY <1>4 DEF Environment, SignalHandler, Hang, threadVars
<1>5. CASE UNCHANGED vars BY <1>5 DEF vars
<1> QED BY <1>1, <1>2, <1>3, <1>4, <1>5 DEF Next

LEMMA NextLoading ==
  ASSUME IInv, Loading, [Next]_vars
  PROVE  Loading'
<1>1. CASE ReadSetting BY <1>1, ReadLoading DEF IInv
<1>2. CASE ApplySettings BY <1>2 DEF ApplySettings, MainAt, Loading
<1>3. CASE /\ UNCHANGED <<values, seen, cfg>>
           /\ main' = main \/ (main # "load" /\ main' # "load")
  BY <1>3 DEF Loading
<1> QED BY <1>1, <1>2, <1>3, LoadSteps

(* The step of SettingsAsWritten. *)
AsWritten ==
  main = "load" =>
    \/ main' \in {"load", "end"} /\ cfg' = Default
    \/ /\ main' = "create"
       /\ \A i \in DOMAIN KeyOrder :
            Obeys(cfg'[KeyOrder[i]], KeyOrder[i], seen[i])

LEMMA StepAsWritten ==
  ASSUME IInv, Loading, [Next]_vars
  PROVE  AsWritten
<1>1. CASE ReadSetting BY <1>1 DEF ReadSetting, AsWritten, Loading
<1>2. CASE ApplySettings
  <2>1. /\ main = "load" /\ main' = "create" /\ cfg = Default
        /\ Len(values) = 5 /\ Len(seen) = 5 /\ seen \in Seq(Files)
    BY <1>2, KeySet DEF ApplySettings, MainAt, Loading, IInv, TypeOK
  <2>2. DOMAIN KeyOrder = 1 .. 5 BY DEF KeyOrder
  <2>3. ASSUME NEW i \in 1 .. 5
        PROVE  Obeys(cfg'[KeyOrder[i]], KeyOrder[i], seen[i])
    <3>1. seen[i] \in Files
      <4>1. i \in 1 .. Len(seen) BY <2>1
      <4> QED BY <2>1, <4>1, ElementOf, Zenon
    <3> DEFINE k == KeyOrder[i]
               g == [x \in Keys |->
                       values[CHOOSE j \in DOMAIN KeyOrder : KeyOrder[j] = x]]
               v == values[CHOOSE j \in DOMAIN KeyOrder : KeyOrder[j] = k]
    <3>2. k \in Keys BY KeySet
    <3>3. cfg' = InRangeOnly(Default, g) BY <1>2, <2>1 DEF ApplySettings
    <3>4. (CHOOSE j \in DOMAIN KeyOrder : KeyOrder[j] = k) = i
      BY <2>2, KeysDiffer
    <3>5. g[k] = v BY <3>2
    <3>6. /\ GetIntegerValueFromCfg(seen[i], k) # CFGOPEN_OR_MEMSET_ERROR
          /\ v = OrDefault(k, GetIntegerValueFromCfg(seen[i], k))
      BY <2>1, <3>4 DEF Loading
    <3> HIDE DEF k, v, g
    <3>7. cfg'[k] = IF v \in Lowest[k] .. Highest[k] THEN v ELSE Default[k]
      BY <3>2, <3>3, <3>5 DEF InRangeOnly
    <3>8. Obeys(cfg'[k], k, seen[i]) BY <3>1, <3>2, <3>6, <3>7, OneSetting
    <3> QED BY <3>8 DEF k
  <2> QED BY <2>1, <2>2, <2>3 DEF AsWritten
<1>3. CASE /\ UNCHANGED <<values, seen, cfg>>
           /\ main' = main \/ (main # "load" /\ main' # "load")
  BY <1>3 DEF AsWritten, Loading
<1> QED BY <1>1, <1>2, <1>3, LoadSteps

(***************************************************************************)
(* LoadCfgFile leaves in every setting what the file said of it, whatever  *)
(* the versions of the file that its five readings meet, or leaves all     *)
(* settings alone.                                                         *)
(***************************************************************************)
THEOREM SettingsAlwaysAsWritten == Spec => SettingsAsWritten
<1>1. Init => Loading BY DEF Init, Loading
<1>2. IInv /\ Loading /\ [Next]_vars => Loading' BY NextLoading
<1>3. IInv /\ Loading /\ [Next]_vars => AsWritten BY StepAsWritten
<1> QED BY <1>1, <1>2, <1>3, IInvHolds, PTL
        DEF Spec, SettingsAsWritten, AsWritten

------------------------------------------------------------------------------
(* The mutex. *)

(* There is no balloon thread before CoreInit creates it. *)
Unborn ==
  main \in {"load", "create", "wait", "late", "giveup", "ready", "spawn"} =>
    balloon = "none"

MInv == hung \subseteq Threads /\ Handshake /\ Unborn /\ MutexGuardsList

(* The main thread goes into its sections and out of them. *)
LEMMA MainMutex ==
  ASSUME MInv, MainStep
  PROVE  Unborn' /\ MutexGuardsList'
<1> USE DEF MInv, Unborn, MutexGuardsList, Runs, MainAt, MutexLock,
        MutexUnlock, Threads
<1>1. CASE CreateEventThread
  <2>1. /\ main = "create" /\ main' \in {"wait", "core"}
        /\ event' \in {event, "impl"}
        /\ UNCHANGED <<balloon, lock, hung>>
    BY <1>1 DEF CreateEventThread, ThreadCreateFails
  <2> QED BY <2>1 DEF Handshake
<1>2. CASE CreateBalloonThread
  <2>1. /\ main = "spawn" /\ main' \in {"loop", "core"}
        /\ balloon' \in {balloon, "head"}
        /\ UNCHANGED <<event, lock, hung>>
    BY <1>2 DEF CreateBalloonThread, ThreadCreateFails
  <2> QED BY <2>1
<1>3. CASE ReadSetting
  <2>1. main' \in {"end", main} /\ UNCHANGED <<event, balloon, lock, hung>>
    BY <1>3 DEF ReadSetting
  <2> QED BY <1>3, <2>1 DEF ReadSetting
<1>4. CASE ApplySettings BY <1>4 DEF ApplySettings
<1>5. CASE SemTimeWait BY <1>5 DEF SemTimeWait
<1>6. CASE SemTimeOut BY <1>6 DEF SemTimeOut
<1>7. CASE GiveUp BY <1>7 DEF GiveUp
<1>8. CASE SemDestroy BY <1>8 DEF SemDestroy
<1>9. CASE TestStop BY <1>9 DEF TestStop
<1>10. CASE TakeChange BY <1>10 DEF TakeChange
<1>11. CASE BeginUpdate BY <1>11 DEF BeginUpdate
<1>12. CASE UpdateDone BY <1>12 DEF UpdateDone
<1>13. CASE BeginBack BY <1>13 DEF BeginBack
<1>14. CASE BackDone BY <1>14 DEF BackDone
<1>15. CASE FreeAllVM BY <1>15 DEF FreeAllVM
<1>16. CASE Exit BY <1>16 DEF Exit
<1> QED
  BY <1>1, <1>2, <1>3, <1>4, <1>5, <1>6, <1>7, <1>8, <1>9, <1>10, <1>11,
     <1>12, <1>13, <1>14, <1>15, <1>16 DEF MainStep

(* So do the two other threads. *)
LEMMA ThreadMutex ==
  ASSUME MInv, EventStep \/ BalloonStep
  PROVE  Unborn' /\ MutexGuardsList'
<1> USE DEF MInv, Unborn, MutexGuardsList, Runs, EventAt, BalloonAt, MutexLock,
        MutexUnlock, mainVars, Threads
<1>1. CASE RegisterImpl BY <1>1 DEF RegisterImpl, Handshake
<1>2. CASE EventHead BY <1>2 DEF EventHead
<1>3. CASE Connect \/ Register BY <1>3 DEF Connect, Register
<1>4. CASE Clear \/ Collect BY <1>4 DEF Clear, Collect
<1>5. CASE BeginAdd BY <1>5 DEF BeginAdd
<1>6. CASE EndAdd BY <1>6 DEF EndAdd
<1>7. CASE Collected BY <1>7 DEF Collected
<1>8. CASE TestReady BY <1>8 DEF TestReady
<1>9. CASE SemPost \/ Tell BY <1>9 DEF SemPost, Tell
<1>10. CASE BeginEvent BY <1>10 DEF BeginEvent
<1>11. CASE EndEvent BY <1>11 DEF EndEvent
<1>12. CASE LoseConnection \/ Cleanup BY <1>12 DEF LoseConnection, Cleanup
<1>13. CASE BalloonHead BY <1>13 DEF BalloonHead
<1>14. CASE StatsDone BY <1>14 DEF StatsDone
<1>15. CASE BeginPass BY <1>15 DEF BeginPass
<1>16. CASE PassDone BY <1>16 DEF PassDone
<1>17. CASE BeginStats BY <1>17 DEF BeginStats
<1> QED
  BY <1>1, <1>2, <1>3, <1>4, <1>5, <1>6, <1>7, <1>8, <1>9, <1>10, <1>11,
     <1>12, <1>13, <1>14, <1>15, <1>16, <1>17 DEF EventStep, BalloonStep

(* A call that hangs without the mutex is one of a thread without it. *)
LEMMA HangMutex ==
  ASSUME MInv, Environment
  PROVE  Unborn' /\ MutexGuardsList'
<1>1. CASE SignalHandler
  BY <1>1 DEF SignalHandler, threadVars, MInv, Unborn, MutexGuardsList
<1>2. ASSUME NEW t \in Threads, Hang(t)
      PROVE  Unborn' /\ MutexGuardsList'
  <2>1. /\ UNCHANGED <<main, event, balloon, lock>>
        /\ hung' = hung \cup {t}
        /\ HangLocked \/ CallsUnlocked(t)
    BY <1>2 DEF Hang, threadVars
  <2> QED BY <2>1 DEF MInv, Unborn, MutexGuardsList, CallsUnlocked
<1> QED BY <1>1, <1>2 DEF Environment

(***************************************************************************)
(* No two threads are in a section of g_vmlistHead.lock, the mutex is free *)
(* whenever nobody is in one, and a libvirt call that hangs without it     *)
(* never withholds it from the other threads.                              *)
(***************************************************************************)
THEOREM MutexAlwaysGuards == Spec => []MutexGuardsList
<1>1. Init => Unborn /\ MutexGuardsList
  BY DEF Init, Unborn, MutexGuardsList
<1>2. IInv /\ Unborn /\ MutexGuardsList /\ [Next]_vars
        => Unborn' /\ MutexGuardsList'
  <2> SUFFICES ASSUME IInv, Unborn, MutexGuardsList, [Next]_vars
               PROVE  Unborn' /\ MutexGuardsList'
    OBVIOUS
  <2>1. MInv BY DEF IInv, TypeOK, MInv
  <2>2. CASE UNCHANGED vars BY <2>2 DEF vars, Unborn, MutexGuardsList
  <2> QED BY <2>1, <2>2, MainMutex, ThreadMutex, HangMutex DEF Next
<1> QED BY <1>1, <1>2, IInvHolds, PTL DEF Spec

------------------------------------------------------------------------------
(* Time. *)

(* The deadline of SemTimeWait for any time and reading of the clock. *)
LEMMA DeadlineExact ==
  ASSUME NEW usec \in UsecRange, NEW ms \in Nat
  PROVE  LET ts == SemDeadline(usec, ms)
         IN  /\ ValidNsec(ts)
             /\ ts.tv_sec * 1000 + (ts.tv_nsec - usec * 1000) \div 1000000 = ms
<1> DEFINE q == ms \div 1000
           r == ms % 1000
           nsec == usec * 1000 + r * 1000000
<1>1. q \in Nat /\ r \in 0 .. 999 /\ ms = q * 1000 + r BY SMT
<1> HIDE DEF q, r
<1>2. SemDeadline(usec, ms) =
        IF nsec >= 1000000000
        THEN [tv_sec |-> q + 1, tv_nsec |-> nsec - 1000000000]
        ELSE [tv_sec |-> q, tv_nsec |-> nsec]
  BY SMT DEF SemDeadline, q, r, MS_TO_US_RATE, MS_TO_NS_RATE, S_TO_NS_RATE
<1>3. (r * 1000000) \div 1000000 = r BY SMT, <1>1
<1>4. (r * 1000000 - 1000000000) \div 1000000 = r - 1000 BY SMT, <1>1
<1>5. nsec \in Nat /\ nsec < 2000000000 BY SMT, <1>1 DEF UsecRange
<1>6. CASE nsec >= 1000000000
  <2>1. nsec - 1000000000 - usec * 1000 = r * 1000000 - 1000000000
    BY SMT, <1>1 DEF UsecRange
  <2> QED BY SMT, <1>1, <1>2, <1>4, <1>5, <1>6, <2>1
          DEF ValidNsec, S_TO_NS_RATE
<1>7. CASE nsec < 1000000000
  <2>1. nsec - usec * 1000 = r * 1000000 BY SMT, <1>1 DEF UsecRange
  <2> QED BY SMT, <1>1, <1>2, <1>3, <1>5, <1>7, <2>1
          DEF ValidNsec, S_TO_NS_RATE
<1> QED BY SMT, <1>5, <1>6, <1>7

(***************************************************************************)
(* SemTimeWait waits for the configured time to the millisecond, at any    *)
(* time of day and for any timeout LoadCfgFile may leave.                  *)
(***************************************************************************)
THEOREM WaitAlwaysTimed == Spec => []WaitIsTimed
<1>1. ASSUME SettingsInRange PROVE WaitIsTimed
  <2>1. cfg["init_sem_wait_timeout"] \in Nat
    BY SMT, <1>1, KeySet, Ranges DEF SettingsInRange, Lowest, Highest
  <2> QED
    BY SMT, <2>1, DeadlineExact, StartupAssumption
    DEF WaitIsTimed, MS_TO_S_RATE, US_TO_NS_RATE, MS_TO_NS_RATE
<1> QED BY <1>1, SettingsStayInRange, PTL

(***************************************************************************)
(* The nap of main() is one nanosleep accepts exactly for a poll time of a *)
(* second or more, at any time of day (or on the very second).             *)
(***************************************************************************)
THEOREM NapsAlwaysBetweenRounds == Spec => []NapsBetweenRounds
<1>1. ASSUME SettingsInRange, NEW usec \in Usecs
      PROVE  LET seconds == cfg["host_info_poll_time"] \div MS_TO_S_RATE
                 ts      == SleepApprox(usec, seconds)
             IN  /\ ValidNsec(ts)
                 /\ (usec * US_TO_NS_RATE + ts.tv_nsec) % S_TO_NS_RATE = 0
                 /\ \/ ts.tv_sec < seconds
                    \/ ts.tv_sec = seconds /\ ts.tv_nsec = 0
                 /\ ts.tv_sec < 0 <=>
                      cfg["host_info_poll_time"] < 1000 /\ usec # 0
  <2>1. cfg["host_info_poll_time"] \in Nat
    BY SMT, <1>1, KeySet, Ranges DEF SettingsInRange, Lowest, Highest
  <2>2. usec \in Nat /\ usec < 1000000
    BY SMT, StartupAssumption DEF UsecRange
  <2> DEFINE n == cfg["host_info_poll_time"]
             q == n \div 1000
  <2>3. q \in Nat /\ (q = 0 <=> n < 1000) BY SMT, <2>1
  <2> HIDE DEF n, q
  <2>4. n \div MS_TO_S_RATE = q BY SMT DEF q, MS_TO_S_RATE
  <2>5. CASE usec = 0
    <3>1. SleepApprox(usec, q) = [tv_sec |-> q, tv_nsec |-> 0]
      BY SMT, <2>5 DEF SleepApprox, US_TO_NS_RATE
    <3> QED BY SMT, <2>3, <2>4, <2>5, <3>1
            DEF n, ValidNsec, US_TO_NS_RATE, S_TO_NS_RATE
  <2>6. CASE usec # 0
    <3>1. SleepApprox(usec, q) =
            [tv_sec |-> q - 1, tv_nsec |-> 1000000000 - usec * 1000]
      BY SMT, <2>2, <2>6 DEF SleepApprox, US_TO_NS_RATE, S_TO_NS_RATE
    <3>2. (usec * 1000 + (1000000000 - usec * 1000)) % 1000000000 = 0
      BY SMT, <2>2
    <3> QED BY SMT, <2>2, <2>3, <2>4, <2>6, <3>1, <3>2
            DEF n, ValidNsec, US_TO_NS_RATE, S_TO_NS_RATE
  <2> QED BY SMT, <2>5, <2>6
<1>2. SettingsInRange => NapsBetweenRounds BY SMT, <1>1 DEF NapsBetweenRounds
<1> QED BY <1>2, SettingsStayInRange, PTL
===============================================================================
