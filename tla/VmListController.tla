--------------------------- MODULE VmListController ---------------------------
(***************************************************************************)
(* The list of machines and the event thread of VmList, seen from the      *)
(* balloon controller: what Balloon lets happen to its list, to its        *)
(* connection and to its domains while the balloon thread sleeps.  Balloon *)
(* takes a collection of the machines for one step and has no event queue, *)
(* no ids and no names.                                                    *)
(***************************************************************************)
EXTENDS VmList

CONSTANTS
  WORD, g_balloonTargetUsedPercent, g_balloonTargetMaxTotalPercent,
  Memory, Windows, NEED_BALLOON_CHECK_TIMES, Unmanaged, Levels, FreeLevels,
  FprKinds, StatKinds          \* as in Balloon

ASSUME ControllerAssumption ==
  /\ Memory \in [Domids -> Nat]
  /\ FALSE \in FprKinds

(* The machines are never ballooned: records as InitAndCheckVM leaves them. *)
AddedVM ==
  [isWindows            |-> FALSE,
   balloonTarget        |-> 0,
   currentActualBalloon |-> [i \in 0 .. 1 |-> 0],
   balloonI             |-> 0,
   ballooning           |-> FALSE,
   needBalloonFlag      |-> 1,
   ballooningDown       |-> FALSE,
   incompleteBalloon    |-> FALSE]

SizeRead(size, running) ==
  [currentMem |-> size, running |-> running, enable_fpr |-> FALSE,
   actualBalloon |-> 0, available |-> 0, usable |-> 0, unused |-> 0]

WholeGuest(d) == [target |-> Memory[d], actual |-> Memory[d], stuck |-> FALSE,
                  fpr |-> FALSE, running |-> TRUE]

(* The main thread and the balloon thread see nothing before SemPost. *)
ListSeen == {m.domid : m \in {e \in vmlist : initFlag}}

(* The list is being, or has been, built on the last connection opened. *)
Built == {"count", "ask", "add", "post", "run"}

ConnOf(told, c, at) ==
  CASE ~told \/ c = "null"                     -> "null"
    [] told /\ c = "up" /\ at \notin Built     -> "fresh"
    [] told /\ c = "up" /\ at \in Built        -> "up"
    [] told /\ c = "dead" /\ at \in Built      -> "dead"
    [] told /\ c = "dead" /\ at \in {"register", "free"} -> "lost"
    [] OTHER                                   -> "closing"

ConnSeen == ConnOf(initFlag, conn, pc)

(* Balloon announces a new list before it is complete. *)
ChangeSeen == initFlag /\ (change \/ pc \in {"count", "ask", "add", "post"})

StatSeen ==
  [d \in Domids |-> IF d \in ListSeen THEN SizeRead(Memory[d], TRUE)
                    ELSE SizeRead(0, FALSE)]

PcSeen   == IF initFlag THEN "head" ELSE "off"
MainSeen == IF initFlag THEN "run" ELSE "none"

VmSeen    == [d \in Domids |-> AddedVM]
GuestSeen == [d \in Domids |-> WholeGuest(d)]

Controller == INSTANCE Balloon
  WITH Doms <- Domids, listed <- ListSeen, vm <- VmSeen, stat <- StatSeen,
       conn <- ConnSeen, change <- ChangeSeen, pc <- PcSeen, todo <- {},
       stop <- FALSE, main <- MainSeen, alive <- ActiveIds, hv <- GuestSeen

(***************************************************************************)
(* Whatever the event thread, its queue of events and libvirtd do, call by *)
(* call, is something Balloon lets happen to the balloon controller: a     *)
(* list taken over when the daemon starts, a machine added or removed, a   *)
(* list emptied on a new connection and then announced, a connection lost, *)
(* closed and opened.  The balloon thread stands still here: this is about *)
(* what the event thread does to it, not about its passes.                 *)
(***************************************************************************)
ServesController == Controller!Spec
===============================================================================
