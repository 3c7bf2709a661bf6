-------------------------- MODULE MCVmListController --------------------------
(* The instance of VmList with three machines, beside a small Balloon. *)
EXTENDS MCVmList, VmListMissed, VmListController

MCMemory == [d \in Domids |-> 4096]
===============================================================================
