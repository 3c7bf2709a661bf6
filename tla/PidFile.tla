------------------------------- MODULE PidFile -------------------------------
(***************************************************************************)
(* MEMLINKD_PID_FILE, /var/run/memlinkd.pid, and the processes that start  *)
(* memlinkd: systemd, which restarts it, and administrators.  Daemonize    *)
(* opens, locks and fills the file, the end of main() removes its name and *)
(* then closes it (main.c).                                                *)
(*                                                                         *)
(* The name of the file is bound to an inode, or to none.  lockf locks the *)
(* inode, for the process, until it closes a descriptor of it or ends.     *)
(***************************************************************************)
EXTENDS Integers

CONSTANTS
  Procs,    \* the processes: those that run memlinkd, one after the other
  MaxInodes \* bound: how many times the file is created

VARIABLES
  at,       \* at[p]: where the process is
  fd,       \* fd[p]: the inode it has open, or 0
  path,     \* the inode MEMLINKD_PID_FILE names, or 0
  inodes,   \* how many inodes there have been
  pid,      \* pid[i]: what the inode contains, a set of at most one process
  unlinked  \* history: a process has removed the name

vars == <<at, fd, path, inodes, pid, unlinked>>

(***************************************************************************)
(* "off" no memlinkd; "open", "lock", "clear" and "write" before those     *)
(* calls of Daemonize; "up" after it, until ERROR2: "unlink" and "close".  *)
(***************************************************************************)
States == {"off", "open", "lock", "clear", "write", "up", "unlink", "close"}

Inodes == 1 .. MaxInodes

Init ==
  /\ at = [p \in Procs |-> "off"]
  /\ fd = [p \in Procs |-> 0]
  /\ path = 0 /\ inodes = 0
  /\ pid = [i \in Inodes |-> {}]
  /\ unlinked = FALSE

Go(p, from, to) == at[p] = from /\ at' = [at EXCEPT ![p] = to]

(* The lock that lockf took on what p has open. *)
Holds(p) == fd[p] # 0 /\ at[p] \in {"clear", "write", "up", "unlink", "close"}

(* daemon(). *)
Start(p) ==
  /\ Go(p, "off", "open")
  /\ UNCHANGED <<fd, path, inodes, pid, unlinked>>

(* O_CREAT: the file of that name, or a new one. *)
Open(p) ==
  /\ Go(p, "open", "lock")
  /\ \/ path # 0 /\ UNCHANGED <<path, inodes>>
     \/ /\ path = 0 /\ inodes < MaxInodes
        /\ path' = inodes + 1 /\ inodes' = inodes + 1
  /\ fd' = [fd EXCEPT ![p] = path']
  /\ UNCHANGED <<pid, unlinked>>

(* F_TLOCK does not wait; who does not get the lock exits. *)
Lock(p) ==
  /\ \/ /\ \A q \in Procs : Holds(q) => fd[q] # fd[p]
        /\ Go(p, "lock", "clear")
        /\ UNCHANGED fd
     \/ /\ \E q \in Procs : Holds(q) /\ fd[q] = fd[p]
        /\ Go(p, "lock", "off")
        /\ fd' = [fd EXCEPT ![p] = 0]
  /\ UNCHANGED <<path, inodes, pid, unlinked>>

(***************************************************************************)
(* ftruncate and write; on an error the file is closed and -1 returned, so *)
(* that main() goes to ERROR2.                                             *)
(***************************************************************************)
Fill(p, from, to, content) ==
  /\ \/ /\ Go(p, from, to)
        /\ pid' = [pid EXCEPT ![fd[p]] = content]
        /\ UNCHANGED fd
     \/ /\ Go(p, from, "unlink")
        /\ fd' = [fd EXCEPT ![p] = 0]
        /\ UNCHANGED pid
  /\ UNCHANGED <<path, inodes, unlinked>>

Clear(p) == Fill(p, "clear", "write", {})
Write(p) == Fill(p, "write", "up", {p})

(* Stopped, or failed in LoadCfgFile or CoreInit. *)
Stop(p) ==
  /\ Go(p, "up", "unlink")
  /\ UNCHANGED <<fd, path, inodes, pid, unlinked>>

Unlink(p) ==
  /\ Go(p, "unlink", "close")
  /\ path' = 0
  /\ unlinked' = TRUE
  /\ UNCHANGED <<fd, inodes, pid>>

(* close, and the end of the process. *)
Close(p) ==
  /\ Go(p, "close", "off")
  /\ fd' = [fd EXCEPT ![p] = 0]
  /\ UNCHANGED <<path, inodes, pid, unlinked>>

(***************************************************************************)
(* Killed, ended by exit() in the event thread, or unable to open the      *)
(* file: the file stays.                                                   *)
(***************************************************************************)
Kill(p) ==
  /\ at[p] # "off"
  /\ at' = [at EXCEPT ![p] = "off"]
  /\ fd' = [fd EXCEPT ![p] = 0]
  /\ UNCHANGED <<path, inodes, pid, unlinked>>

Next ==
  \E p \in Procs :
    \/ Start(p) \/ Open(p) \/ Lock(p) \/ Clear(p) \/ Write(p)
    \/ Stop(p) \/ Unlink(p) \/ Close(p) \/ Kill(p)

Spec == Init /\ [][Next]_vars

------------------------------------------------------------------------------
(* Every variable has its type. *)
TypeOK ==
  /\ at \in [Procs -> States]
  /\ fd \in [Procs -> 0 .. MaxInodes]
  /\ path \in 0 .. MaxInodes /\ inodes \in 0 .. MaxInodes
  /\ pid \in [Inodes -> SUBSET Procs]
  /\ unlinked \in BOOLEAN

(***************************************************************************)
(* main.c 54, "check if already running", and 119, "memlinkd already       *)
(* running, so exit": there is one daemon.                                 *)
(***************************************************************************)
SingleInstance == \A p, q \in Procs : at[p] = "up" /\ at[q] = "up" => p = q

(***************************************************************************)
(* A daemon's file holds its PID and nobody else's, although others open   *)
(* the file, find it locked or fail to write it.                           *)
(***************************************************************************)
OwnPid == \A p \in Procs : at[p] = "up" => pid[fd[p]] = {p}

(***************************************************************************)
(* As long as nobody removed the name of the file, the lock does what it   *)
(* is for, over any number of kills and restarts: one daemon, and the file *)
(* systemd reads (PIDFile= of memlinkd.service) names it.                  *)
(***************************************************************************)
SafeUntilUnlink ==
  ~unlinked =>
    /\ SingleInstance
    /\ \A p \in Procs : at[p] = "up" => fd[p] = path /\ pid[path] = {p}
===============================================================================
