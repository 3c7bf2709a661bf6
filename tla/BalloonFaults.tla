---------------------------- MODULE BalloonFaults ----------------------------
(***************************************************************************)
(* Balloon with at most MaxFaults disturbances, which makes larger guests  *)
(* checkable, and with the fairness under which a guest gets its memory    *)
(* back.                                                                   *)
(***************************************************************************)
EXTENDS Balloon

CONSTANT MaxFaults   \* how many disturbances a behaviour has, at most

ASSUME FaultsAssumption == MaxFaults \in Nat

VARIABLE faults      \* the disturbances so far

fvars == <<vars, faults>>

FInit == Init /\ faults = 0

Undisturbed == Normal /\ UNCHANGED faults

Disturbed ==
  /\ faults < MaxFaults
  /\ Fault
  /\ faults' = faults + 1

FNext == Undisturbed \/ Disturbed

FSpec == FInit /\ [][FNext]_fvars

------------------------------------------------------------------------------
(***************************************************************************)
(* Every thread of the daemon is scheduled, and the event thread gets the  *)
(* lock: BalloonVmMemThread sleeps without it between two passes.  systemd *)
(* starts a daemon that was killed again (Restart=always in                *)
(* memlinkd.service) and libvirtd comes back, so that ConnectLibvirt,      *)
(* which retries for ever, succeeds.  A running guest moves its balloon to *)
(* the target, and a suspended one is resumed.                             *)
(***************************************************************************)
Restart ==
  /\ main = "none"
  /\ \E isWin \in SUBSET Windows : StartDaemon(isWin, alive)
  /\ conn' = "up"

Fairness ==
  /\ WF_fvars(BalloonStep /\ UNCHANGED faults)
  /\ WF_fvars((NoticeLoss \/ DropConnection \/ OpenConnection)
                /\ UNCHANGED faults)
  /\ SF_fvars(RebuildList /\ UNCHANGED faults)
  /\ WF_fvars(Restart /\ UNCHANGED faults)
  /\ \A d \in Doms :
       /\ SF_fvars((\E w \in BOOLEAN : FindAddVMToList(d, w))
                     /\ UNCHANGED faults)
       /\ WF_fvars(GuestMove(d) /\ UNCHANGED faults)
       /\ WF_fvars(DomainResume(d) /\ UNCHANGED faults)

FairSpec == FSpec /\ Fairness

(***************************************************************************)
(* The guest of d has been told to be smaller than its machine, or is so   *)
(* by more than the last 2 MiB: a reboot during the second step back can   *)
(* cost those, which is why the code makes that step so small.             *)
(***************************************************************************)
Squeezed(d) ==
  /\ d \in alive
  /\ \/ hv[d].target < Memory[d]
     \/ Memory[d] - hv[d].actual > BALLOON_BACK_RESERVED_SIZE_KB

(***************************************************************************)
(* However a guest came to be squeezed (ballooned by this daemon, by one   *)
(* that was killed, by a call whose answer was lost, or started that way), *)
(* it gets its memory back, through failed calls, reboots of the guest and *)
(* losses of libvirtd, unless the domain stops or the daemon is told to.   *)
(***************************************************************************)
GivenBack ==
  \A d \in Doms : Squeezed(d) ~> (~Squeezed(d) \/ stop \/ main = "exited")
==============================================================================
