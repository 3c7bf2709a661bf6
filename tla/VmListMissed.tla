----------------------------- MODULE VmListMissed -----------------------------
(***************************************************************************)
(* VmList with a history: the domains that a call of libvirt kept out of   *)
(* the list that is being, or has been, built.  The code does not try them *)
(* again.                                                                  *)
(***************************************************************************)
EXTENDS VmList

VARIABLE missed   \* domains that failed when they were last looked at

(* FindAddVMToList was called for domid. *)
Tried(domid) ==
  missed' = IF \E e \in vmlist' : e.domid = domid
            THEN missed \ {domid} ELSE missed \cup {domid}

(* The other steps of the event thread. *)
OtherStep ==
  \/ DropConnection \/ ConnectLibvirt \/ DomainEventsRegister \/ CollectDone
  \/ Ready \/ TakeChange \/ NoticeLoss \/ DomainEventsDeregister

MInit == Init /\ missed = {}

MNext ==
  \/ StartRebuild /\ missed' = {}
  \/ CountDomains /\ missed' = IF pc' = "ask" THEN {} ELSE ActiveIds
  \/ ListDomains /\ missed' = ActiveIds \ ids'
  \/ \E i \in ids : AddCurrentVM(i) /\ Tried(i)
  \/ /\ RunEvent
     /\ IF Head(events).type = "started" THEN Tried(Head(events).domid)
        ELSE UNCHANGED missed
  \/ (OtherStep \/ Environment) /\ UNCHANGED missed

MSpec == MInit /\ [][MNext]_<<vars, missed>>

(***************************************************************************)
(* What the list lacks has a cause: once it is built, a running machine    *)
(* (without huge pages) is in it with no event queued, or the last event   *)
(* queued for it is the start of its present run, or libvirt failed when   *)
(* this run was last looked at, or left it out of an answer that it did    *)
(* not fit in.  No event that is late, old or twice, and no loss of the    *)
(* connection loses a machine in any other way.                            *)
(***************************************************************************)
MissingHasCause ==
  conn = "up" /\ pc \in {"post", "run"} =>
    \A n \in Names \ HugePages :
      active[n] # 0 =>
        \/ Pending(n) = {} /\ \/ [domid |-> active[n], name |-> n] \in vmlist
                              \/ active[n] \in missed
        \/ \E i \in Pending(n) : /\ \A j \in Pending(n) : j <= i
                                 /\ events[i].type = "started"
                                 /\ events[i].domid = active[n]
===============================================================================
