-------------------------- MODULE MCBalloonPressure --------------------------
(* One guest of 8 GiB, as in MCBalloon, that uses 10, 40 or 98 %.            *)
EXTENDS BalloonPressure

CONSTANT d1

MCWord == 20000000
MCMemory == [d \in Doms |-> 8388608]
MCUnmanaged == 1048576
MCFreeLevels == {6606028, 4404019, 100000}
MCLevels == {}

==============================================================================
