--------------------------- MODULE BalloonPressure ---------------------------
(***************************************************************************)
(* Balloon with a history: for how many passes in a row the usage of a     *)
(* guest has been below LOWER_LIMIT, as the daemon saw it.                 *)
(***************************************************************************)
EXTENDS Balloon

VARIABLE calm   \* calm[d]: passes in a row, up to NEED_BALLOON_CHECK_TIMES

(* A pass sees d at leisure when its statistics are valid and say so. *)
SeenAtLeisure(d) ==
  stat[d].running /\ CheckVmMemoryStat(stat[d]) /\ AtLeisure(stat[d])

RecordCalm ==
  calm' = [d \in Doms |->
             IF ~(d \in listed /\ SeenAtLeisure(d)) THEN 0
             ELSE MIN(calm[d] + 1, NEED_BALLOON_CHECK_TIMES)]

PInit == Init /\ calm = [d \in Doms |-> 0]

PNext ==
  /\ Normal
  /\ IF pc = "flags" /\ pc' = "loop" THEN RecordCalm ELSE UNCHANGED calm

PSpec == PInit /\ [][PNext]_<<vars, calm>>

(***************************************************************************)
(* memlink_core.c 129: "when loop N times, memory keep less than           *)
(* LOWER_LIMIT in N*interval s".  A machine starts to give memory up only  *)
(* when the passes that counted, all but the first of N, found its usage   *)
(* below LOWER_LIMIT one after the other.                                  *)
(***************************************************************************)
CalmBeforeBallooning ==
  [][\A d \in listed :
       ~vm[d].ballooningDown /\ vm'[d].ballooningDown
         => calm[d] >= NEED_BALLOON_CHECK_TIMES - 1]_<<vars, calm>>
==============================================================================
