------------------------------ MODULE MCBalloon ------------------------------
(***************************************************************************)
(* Instances of Balloon for TLC.  Sizes are in KiB and real: a guest of    *)
(* 8 GiB, 1 GiB of which its kernel does not manage.  2^64 is scaled down  *)
(* to 20000000, which is more than twice every size and keeps 100 times a  *)
(* size in TLC's integers.                                                 *)
(***************************************************************************)
EXTENDS BalloonFaults

CONSTANTS d1, d2

MCWord == 20000000
MCMemory == [d \in Doms |-> 8388608]
MCUnmanaged == 1048576

(***************************************************************************)
(* At full size a guest with this much free memory uses 10, 40 and 98 % of *)
(* what it manages.  With 10 % its target is 2317354.                      *)
(***************************************************************************)
MCFreeLevels == {6606028, 4404019, 100000}

(***************************************************************************)
(* Within 1 MiB of that target; two sizes less than 300 MiB apart; and the *)
(* sizes around the limits of 2 MiB and 1 MiB below the whole memory.      *)
(***************************************************************************)
MCLevels == {2318000, 5000000, 5200000, 8386560, 8387584, 8387585}

------------------------------------------------------------------------------
(* Fewer sizes, for the liveness run, which allows more disturbances. *)
LiveFreeLevels == {6606028, 100000}
LiveLevels == {2318000, 5000000, 8387584}

------------------------------------------------------------------------------
(***************************************************************************)
(* Two machines: one of 8 GiB, and one of 1 GiB, no larger than the        *)
(* reserve, whose target is always its whole memory.                       *)
(***************************************************************************)
TwoMemory == [d \in Doms |-> IF d = d1 THEN 8388608 ELSE 1048576]
TwoUnmanaged == 131072
TwoFreeLevels == {7500000, 800000}
TwoLevels == {1677721}

=============================================================================
