--------------------------- MODULE BalloonProtocol ---------------------------
(***************************************************************************)
(* What the balloon controller promises about each machine, without its    *)
(* statistics, counters and connections: a machine it has a record of      *)
(* lends memory to the host, is asked to take it back, again if that       *)
(* fails, and is let go of, as long as the record lasts, only when it has  *)
(* been.  Memory nobody keeps account of comes only from a call whose      *)
(* answer was lost, from a record that was dropped (a machine's stop       *)
(* event; with all others at a reconnection and at the end of the daemon)  *)
(* or from a machine that started small; it is found again by Adopt.       *)
(***************************************************************************)
CONSTANT Doms

VARIABLES
  phase,    \* phase[d]: how the daemon deals with d
  lowered   \* the machines libvirt was last told to keep small

pvars == <<phase, lowered>>

(***************************************************************************)
(* "out"   there is no record of it;                                       *)
(* "idle"  not dealt with;                                                 *)
(* "down"  giving memory up;                                               *)
(* "retry" to be asked (again) to take its memory back;                    *)
(* "back"  taking its memory back.                                         *)
(***************************************************************************)
Phases == {"out", "idle", "down", "retry", "back"}

Init ==
  /\ phase = [d \in Doms |-> "out"]
  /\ lowered = {}

Becomes(d, p) == phase' = [phase EXCEPT ![d] = p]

(* Nothing happens to the targets of the machines other than d. *)
Only(d) == lowered' \ {d} = lowered \ {d}

(* An idle machine is told to give memory up. *)
Lend(d) ==
  /\ phase[d] = "idle"
  /\ Becomes(d, "down")
  /\ Only(d)

(***************************************************************************)
(* It is told, but the daemon does not learn that it was; or a machine     *)
(* nobody has a record of starts small.                                    *)
(***************************************************************************)
Slip(d) ==
  /\ phase[d] \in {"out", "idle"}
  /\ UNCHANGED phase
  /\ Only(d)

(* A machine is told to take (nearly) all its memory back ... *)
GiveBack(d) ==
  /\ phase[d] \in {"down", "retry"}
  /\ Becomes(d, "back")
  /\ lowered' = lowered \ {d}

(* ... or that fails, as far as the daemon can see. *)
GiveBackFails(d) ==
  /\ phase[d] \in {"down", "retry"}
  /\ Becomes(d, "retry")
  /\ lowered' \in {lowered, lowered \ {d}}

(***************************************************************************)
(* The machine is let go of, which needs that it has been told.  Nothing   *)
(* else makes a machine that is dealt with an idle one.                    *)
(***************************************************************************)
Finish(d) ==
  /\ phase[d] = "back" /\ d \notin lowered
  /\ Becomes(d, "idle")
  /\ UNCHANGED lowered

(* Idle machines are found to be smaller than they should be. *)
Adopt(S) ==
  /\ \A d \in S : phase[d] = "idle"
  /\ phase' = [d \in Doms |-> IF d \in S THEN "retry" ELSE phase[d]]
  /\ UNCHANGED lowered

(* Records of machines are made: nothing is known of their balloons yet. *)
Note(S) ==
  /\ \A d \in S : phase[d] = "out"
  /\ phase' = [d \in Doms |-> IF d \in S THEN "idle" ELSE phase[d]]
  /\ UNCHANGED lowered

(* The record of a machine is dropped ... *)
Forget(d) ==
  /\ Becomes(d, "out")
  /\ UNCHANGED lowered

(* ... or all records are. *)
ForgetAll ==
  /\ phase' = [d \in Doms |-> "out"]
  /\ UNCHANGED lowered

(* The machines that are dealt with are given their memory back at once. *)
GiveAllBack(S) ==
  /\ \A d \in S : phase[d] \notin {"out", "idle"}
  /\ lowered' = lowered \ S
  /\ UNCHANGED phase

(* The machine stops. *)
Stop(d) ==
  /\ lowered' = lowered \ {d}
  /\ UNCHANGED phase

Next ==
  \/ \E d \in Doms : \/ Lend(d) \/ Slip(d) \/ GiveBack(d) \/ GiveBackFails(d)
                     \/ Finish(d) \/ Forget(d) \/ Stop(d)
  \/ \E S \in SUBSET Doms : Adopt(S) \/ Note(S) \/ GiveAllBack(S)
  \/ ForgetAll

Spec == Init /\ [][Next]_pvars

==============================================================================
