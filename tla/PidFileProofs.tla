---------------------------- MODULE PidFileProofs ----------------------------
(***************************************************************************)
(* For any number of processes and of inodes: a daemon's file holds its    *)
(* PID, and the lock excludes a second daemon until a name is removed.     *)
(***************************************************************************)
EXTENDS PidFile, TLAPS

(* Only inodes that exist are named or open, and who locks has one open. *)
Opened ==
  /\ path <= inodes
  /\ \A p \in Procs : /\ fd[p] <= inodes
                      /\ at[p] \in {"lock", "clear", "write", "up"} => fd[p] # 0
                      /\ at[p] \in {"off", "open"} => fd[p] = 0

(* Of the processes that have an inode open, at most one holds its lock. *)
Exclusive ==
  \A p, q \in Procs : Holds(p) /\ Holds(q) /\ fd[p] = fd[q] => p = q

(* Before the name is first removed there is only one inode. *)
OneInode ==
  ~unlinked => /\ \A p \in Procs : at[p] # "close"
               /\ \A p \in Procs : fd[p] \in {0, path}

IInv == TypeOK /\ Opened /\ Exclusive /\ OwnPid /\ OneInode

(* The first state satisfies the invariant. *)
LEMMA InitIInv == ASSUME MaxInodes \in Nat, Init PROVE IInv
<1>1. TypeOK
  <2>1. pid \in [Inodes -> SUBSET Procs] BY DEF Init
  <2>2. at \in [Procs -> States] /\ unlinked \in BOOLEAN BY DEF Init, States
  <2>3. fd \in [Procs -> 0 .. MaxInodes] /\ path = 0 /\ inodes = 0 BY DEF Init
  <2> QED BY <2>1, <2>2, <2>3 DEF TypeOK
<1>2. Opened /\ Exclusive /\ OwnPid /\ OneInode
  BY DEF Init, Opened, Exclusive, OwnPid, OneInode, Holds
<1> QED BY <1>1, <1>2 DEF IInv

(* Every step of a process preserves it: what a call of main.c does to the *)
(* file, for each of them.                                                 *)
LEMMA NextIInv ==
  ASSUME MaxInodes \in Nat, IInv, [Next]_vars
  PROVE  IInv'
<1> USE DEF IInv
<1>1. CASE UNCHANGED vars
  BY <1>1 DEF vars, TypeOK, Opened, Exclusive, OwnPid, OneInode, Holds
<1>2. ASSUME NEW p \in Procs,
             Start(p) \/ Stop(p)
      PROVE  IInv'
  <2>1. TypeOK' /\ Opened' BY <1>2 DEF Start, Stop, Go, TypeOK, Opened, States
  <2>2. Exclusive'
    BY <1>2 DEF Start, Stop, Go, TypeOK, Opened, Exclusive, Holds
  <2>3. OwnPid' /\ OneInode'
    BY <1>2 DEF Start, Stop, Go, TypeOK, OwnPid, OneInode
  <2> QED BY <2>1, <2>2, <2>3
<1>3. ASSUME NEW p \in Procs, Open(p)
      PROVE  IInv'
  <2>1. TypeOK' /\ Opened' BY <1>3 DEF Open, Go, TypeOK, Opened, States
  <2>2. Exclusive' BY <1>3 DEF Open, Go, TypeOK, Opened, Exclusive, Holds
  <2>3. OwnPid' BY <1>3 DEF Open, Go, TypeOK, OwnPid
  <2>4. OneInode' BY <1>3 DEF Open, Go, TypeOK, Opened, OneInode
  <2> QED BY <2>1, <2>2, <2>3, <2>4
<1>4. ASSUME NEW p \in Procs, Lock(p)
      PROVE  IInv'
  <2>1. TypeOK' /\ Opened' BY <1>4 DEF Lock, Go, TypeOK, Opened, States
  <2>2. Exclusive' BY <1>4 DEF Lock, Go, TypeOK, Opened, Exclusive, Holds
  <2>3. OwnPid'
    <3>1. \A q \in Procs : at'[q] = "up" => at[q] = "up" /\ fd'[q] = fd[q]
      BY <1>4 DEF Lock, Go, TypeOK
    <3>2. pid' = pid BY <1>4 DEF Lock
    <3> QED BY <3>1, <3>2 DEF OwnPid
  <2>4. OneInode' BY <1>4 DEF Lock, Go, TypeOK, OneInode
  <2> QED BY <2>1, <2>2, <2>3, <2>4
<1>5. ASSUME NEW p \in Procs, Clear(p) \/ Write(p)
      PROVE  IInv'
  <2>1. TypeOK'
    <3>1. fd[p] \in Inodes
      BY <1>5 DEF Clear, Write, Fill, Go, TypeOK, Opened, Inodes
    <3>2. /\ at' \in [Procs -> States] /\ fd' \in [Procs -> 0 .. MaxInodes]
          /\ UNCHANGED <<path, inodes, unlinked>>
      BY <1>5 DEF Clear, Write, Fill, Go, TypeOK, States
    <3>3. PICK c \in SUBSET Procs : \/ pid' = pid
                                    \/ pid' = [pid EXCEPT ![fd[p]] = c]
      BY <1>5 DEF Clear, Write, Fill
    <3>4. pid' \in [Inodes -> SUBSET Procs] BY <3>1, <3>3 DEF TypeOK
    <3> QED BY <3>2, <3>4 DEF TypeOK
  <2>2. Opened' BY <1>5 DEF Clear, Write, Fill, Go, TypeOK, Opened
  <2>3. Exclusive'
    BY <1>5 DEF Clear, Write, Fill, Go, TypeOK, Opened, Exclusive, Holds
  <2>4. OwnPid'
    <3> SUFFICES ASSUME NEW q \in Procs, at'[q] = "up"
                 PROVE  pid'[fd'[q]] = {q}
      BY DEF OwnPid
    <3>1. fd[p] \in Inodes /\ Holds(p)
      BY <1>5 DEF Clear, Write, Fill, Go, TypeOK, Opened, Holds, Inodes
    <3>2. CASE q = p
      <4>1. Write(p) /\ pid' = [pid EXCEPT ![fd[p]] = {p}] /\ fd' = fd
        BY <1>5, <3>2 DEF Clear, Write, Fill, Go, TypeOK
      <4>2. DOMAIN pid = Inodes BY DEF TypeOK
      <4>3. pid'[fd[p]] = {p} BY <3>1, <4>1, <4>2
      <4> QED BY <3>2, <4>1, <4>3
    <3>3. CASE q # p
      <4>1. at[q] = "up" /\ fd'[q] = fd[q] /\ Holds(q)
        BY <1>5, <3>3 DEF Clear, Write, Fill, Go, TypeOK, Opened, Holds
      <4>2. fd[q] # fd[p] BY <3>1, <3>3, <4>1 DEF Exclusive
      <4>3. fd[q] \in Inodes /\ DOMAIN pid = Inodes
        BY <4>1 DEF Holds, TypeOK, Inodes
      <4>4. PICK c : pid' = pid \/ pid' = [pid EXCEPT ![fd[p]] = c]
        BY <1>5 DEF Clear, Write, Fill
      <4>5. pid'[fd[q]] = pid[fd[q]] BY <4>2, <4>3, <4>4
      <4> QED BY <4>1, <4>5 DEF OwnPid
    <3> QED BY <3>2, <3>3
  <2>5. OneInode' BY <1>5 DEF Clear, Write, Fill, Go, TypeOK, OneInode
  <2> QED BY <2>1, <2>2, <2>3, <2>4, <2>5
<1>6. ASSUME NEW p \in Procs, Unlink(p)
      PROVE  IInv'
  <2>1. TypeOK' /\ Opened' BY <1>6 DEF Unlink, Go, TypeOK, Opened, States
  <2>2. Exclusive' BY <1>6 DEF Unlink, Go, TypeOK, Opened, Exclusive, Holds
  <2>3. OwnPid' /\ OneInode' BY <1>6 DEF Unlink, Go, TypeOK, OwnPid, OneInode
  <2> QED BY <2>1, <2>2, <2>3
<1>7. ASSUME NEW p \in Procs, Close(p) \/ Kill(p)
      PROVE  IInv'
  <2>1. TypeOK' /\ Opened' BY <1>7 DEF Close, Kill, Go, TypeOK, Opened, States
  <2>2. Exclusive'
    BY <1>7 DEF Close, Kill, Go, TypeOK, Opened, Exclusive, Holds
  <2>3. OwnPid' /\ OneInode'
    BY <1>7 DEF Close, Kill, Go, TypeOK, OwnPid, OneInode
  <2> QED BY <2>1, <2>2, <2>3
<1> QED BY <1>1, <1>2, <1>3, <1>4, <1>5, <1>6, <1>7 DEF Next

(* The invariant holds throughout. *)
LEMMA IInvHolds == ASSUME MaxInodes \in Nat PROVE Spec => []IInv
<1>1. Init => IInv BY InitIInv
<1>2. IInv /\ [Next]_vars => IInv' BY NextIInv
<1> QED BY <1>1, <1>2, PTL DEF Spec

(***************************************************************************)
(* What Daemonize wrote stays: while a daemon runs, the file it has open   *)
(* holds its PID, whatever other instances try.                            *)
(***************************************************************************)
THEOREM PidIsOwn == ASSUME MaxInodes \in Nat PROVE Spec => []OwnPid
<1>1. IInv => OwnPid BY DEF IInv
<1> QED BY <1>1, IInvHolds, PTL

(***************************************************************************)
(* lockf keeps a second daemon out, and the name leads to the file of the  *)
(* first, over any number of kills and restarts, until main.c 155 is       *)
(* executed for the first time: the run that finds two daemons needs it.   *)
(***************************************************************************)
THEOREM LockExcludes == ASSUME MaxInodes \in Nat PROVE Spec => []SafeUntilUnlink
<1>1. IInv => SafeUntilUnlink
  BY DEF IInv, TypeOK, Opened, Exclusive, OwnPid, OneInode, Holds,
         SafeUntilUnlink, SingleInstance
<1> QED BY <1>1, IInvHolds, PTL
===============================================================================
