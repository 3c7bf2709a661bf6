----------------------------- MODULE VmListProofs -----------------------------
(***************************************************************************)
(* The list of machines, for any set of machines and any number of starts  *)
(* and of lost connections: it is well formed and holds no machine that    *)
(* is gone, and, where no call fails and nothing starts between the two    *)
(* questions of CollectAddCurrentVMs, it lacks none.                       *)
(***************************************************************************)
EXTENDS VmList, FiniteSetTheorems, SequenceTheorems, WellFoundedInduction,
        TLAPS

(* The search of a command line. *)

(* A set of numbers has a least one. *)
LEMMA Least ==
  ASSUME NEW S \in SUBSET Nat, S # {}
  PROVE  \E x \in S : \A y \in S : x <= y
<1> DEFINE R == OpToRel(<, Nat)
<1>1. IsWellFoundedOn(R, Nat) BY NatLessThanWellFounded
<1>2. \A x, y \in Nat : x < y => <<x, y>> \in R BY DEF OpToRel
<1> HIDE DEF R
<1>3. PICK x \in S : \A y \in S : ~(<<y, x>> \in R) BY <1>1, WFMin
<1>4. \A y \in S : x \in Nat /\ y \in Nat OBVIOUS
<1>5. \A y \in S : ~(y < x) BY <1>2, <1>3, <1>4
<1>6. \A y \in S : x <= y BY <1>4, <1>5
<1> QED BY <1>6

(* The word of n bytes at k. *)
LEMMA Word ==
  ASSUME NEW s \in Seq(Nat), NEW k \in Nat \ {0}, NEW n \in Nat,
         k + n - 1 <= Len(s)
  PROVE  LET w == SubSeq(s, k, k + n - 1)
         IN  /\ w \in Seq(Nat) /\ Len(w) = n
             /\ \A i \in 1 .. n : w[i] = s[k + i - 1]
OBVIOUS

(* strlen measures to the next 0 or to the end, and not beyond. *)
LEMMA StrlenEnds ==
  ASSUME NEW line \in Seq(Nat), NEW p \in 1 .. Len(line)
  PROVE  /\ strlen(line, p) \in 0 .. Len(line) + 1 - p
         /\ \/ p + strlen(line, p) = Len(line) + 1
            \/ line[p + strlen(line, p)] = 0
<1> DEFINE ends == {k \in 0 .. Len(line) + 1 - p :
                      p + k = Len(line) + 1 \/ line[p + k] = 0}
<1>1. ends \in SUBSET Nat OBVIOUS
<1>2. ends # {}
  <2>1. Len(line) + 1 - p \in ends OBVIOUS
  <2> QED BY <2>1
<1>3. \E k \in ends : \A j \in ends : k <= j
  <2> HIDE DEF ends
  <2> QED BY <1>1, <1>2, Least
<1>4. strlen(line, p) = CHOOSE k \in ends : \A j \in ends : k <= j
  BY DEF strlen
<1>5. strlen(line, p) \in ends
  <2> HIDE DEF ends
  <2> QED BY <1>3, <1>4
<1> QED BY <1>5

(* A byte other than 0 is in an argument. *)
LEMMA InArgument ==
  ASSUME NEW line \in Seq(Nat), NEW k \in 1 .. Len(line), line[k] # 0
  PROVE  \E p \in Arguments(line) : p <= k /\ \A j \in p .. k : line[j] # 0
<1> DEFINE S == {d \in 0 .. k - 1 : d = k - 1 \/ line[k - d - 1] = 0}
<1>1. S \in SUBSET Nat /\ S # {}
  <2>1. S \in SUBSET Nat OBVIOUS
  <2>2. k - 1 \in S OBVIOUS
  <2> HIDE DEF S
  <2> QED BY <2>1, <2>2
<1>2. PICK d \in S : \A e \in S : d <= e
  <2> HIDE DEF S
  <2> QED BY <1>1, Least
<1>3. d \in 0 .. k - 1 /\ (d = k - 1 \/ line[k - d - 1] = 0) BY <1>2
<1>4. ASSUME NEW j \in k - d .. k PROVE line[j] # 0
  <2>1. CASE j = k BY <2>1
  <2>2. CASE j # k
    <3>1. k - 1 - j \in 0 .. k - 1 /\ k - 1 - j < d BY <1>3, <1>4, <2>2
    <3>2. k - 1 - j \notin S
      <4> HIDE DEF S
      <4> QED BY <1>2, <1>3, <3>1
    <3>3. k - (k - 1 - j) - 1 = j BY <1>3, <1>4
    <3> QED BY <3>1, <3>2, <3>3
  <2> QED BY <2>1, <2>2
<1>5. k - d \in Arguments(line)
  <2>1. k - d \in 1 .. Len(line) /\ k - d \in k - d .. k BY <1>3
  <2>2. line[k - d] # 0 BY <1>4, <2>1
  <2>3. k - d = 1 \/ line[k - d - 1] = 0 BY <1>3
  <2> QED BY <2>1, <2>2, <2>3 DEF Arguments
<1> QED BY <1>3, <1>4, <1>5

(* The loop finds a word without zeros that stands in the line. *)
LEMMA WordFound ==
  ASSUME NEW line \in Seq(Nat), NEW token \in Seq(Nat \ {0}), token # <<>>,
         NEW k \in 1 .. Len(line) + 1 - Len(token),
         \A i \in 1 .. Len(token) : line[k + i - 1] = token[i]
  PROVE  ContainToken(line, token)
<1>1. Len(token) \in Nat /\ Len(token) > 0 /\ Len(line) \in Nat OBVIOUS
<1>2. \A j \in k .. k + Len(token) - 1 : line[j] # 0
  <2> SUFFICES ASSUME NEW j \in k .. k + Len(token) - 1 PROVE line[j] # 0
    OBVIOUS
  <2>1. j - k + 1 \in 1 .. Len(token) /\ k + (j - k + 1) - 1 = j BY <1>1
  <2>2. token[j - k + 1] # 0 BY <2>1
  <2> QED BY <2>1, <2>2
<1>3. k \in 1 .. Len(line) /\ line[k] # 0 BY <1>1, <1>2
<1>4. PICK p \in Arguments(line) : p <= k /\ \A j \in p .. k : line[j] # 0
  BY <1>3, InArgument
<1>5. p \in 1 .. Len(line) BY DEF Arguments
<1>6. k + Len(token) <= p + strlen(line, p)
  <2> DEFINE e == p + strlen(line, p)
  <2>1. strlen(line, p) \in Nat /\ (e = Len(line) + 1 \/ line[e] = 0)
    BY <1>5, StrlenEnds
  <2> HIDE DEF e
  <2>2. e \in Nat /\ p <= e BY <1>5, <2>1 DEF e
  <2>3. CASE e = Len(line) + 1 BY <1>1, <2>3 DEF e
  <2>4. CASE line[e] = 0
    <3>1. e \notin p .. k /\ e \notin k .. k + Len(token) - 1
      BY <1>2, <1>4, <2>4
    <3>2. e >= k + Len(token) BY <1>1, <1>5, <2>2, <3>1
    <3> QED BY <3>2 DEF e
  <2> QED BY <2>1, <2>3, <2>4
<1>7. SubSeq(line, k, k + Len(token) - 1) = token
  <2> DEFINE s == SubSeq(line, k, k + Len(token) - 1)
  <2>1. Len(s) = Len(token) /\ s \in Seq(Nat) /\ token \in Seq(Nat)
    BY <1>1, Word
  <2>2. \A i \in 1 .. Len(token) : s[i] = token[i] BY <1>1, Word
  <2> HIDE DEF s
  <2>3. s = token BY <2>1, <2>2, SeqEqual
  <2> QED BY <2>3 DEF s
<1>8. k \in p .. p + strlen(line, p) - Len(token)
  BY <1>1, <1>4, <1>5, <1>6, StrlenEnds
<1> QED BY <1>4, <1>7, <1>8 DEF ContainToken, strstr

(* CheckString finds a word in the part of the file that the buffer holds. *)
LEMMA CheckFinds ==
  ASSUME NEW file \in Seq(Nat), NEW token \in Seq(Nat \ {0}), token # <<>>,
         Occurs(token, file, MEMLINK_ARG_MAX - 1)
  PROVE  CheckString(file, {token}, TRUE) = 1
<1> DEFINE n == IF Len(file) < MEMLINK_ARG_MAX THEN Len(file)
                ELSE MEMLINK_ARG_MAX - 1
           line == GetOneLineFromFile(file, MEMLINK_ARG_MAX)
<1>1. /\ MEMLINK_ARG_MAX \in Nat \ {0} /\ Len(file) \in Nat
      /\ Len(token) \in Nat /\ Len(token) > 0
  BY CommandLineAssumption
<1>2. n \in 0 .. Len(file) /\ n <= MEMLINK_ARG_MAX - 1 BY <1>1
<1>3. PICK k \in 1 .. Len(file) + 1 - Len(token) :
        /\ k + Len(token) - 1 <= MEMLINK_ARG_MAX - 1
        /\ SubSeq(file, k, k + Len(token) - 1) = token
  BY DEF Occurs
<1>4. /\ line \in Seq(Nat) /\ Len(line) = n
      /\ \A i \in 1 .. n : line[i] = file[i]
  <2>1. line = SubSeq(file, 1, n) BY DEF GetOneLineFromFile
  <2> HIDE DEF n, line
  <2> QED BY <1>2, <2>1
<1>5. k + Len(token) - 1 <= n BY <1>1, <1>3
<1> HIDE DEF n, line
<1>6. ASSUME NEW i \in 1 .. Len(token) PROVE line[k + i - 1] = token[i]
  <2>1. token[i] = file[k + i - 1]
    <3> DEFINE s == SubSeq(file, k, k + Len(token) - 1)
    <3>1. k \in Nat /\ k + Len(token) - 1 <= Len(file) BY <1>1, <1>3
    <3>2. s[i] = file[k + i - 1] BY <1>1, <3>1, Word
    <3> QED BY <1>3, <3>2
  <2>2. k + i - 1 \in 1 .. n BY <1>1, <1>2, <1>3, <1>5
  <2> QED BY <1>4, <2>1, <2>2
<1>7. k \in 1 .. Len(line) + 1 - Len(token) BY <1>1, <1>2, <1>3, <1>4, <1>5
<1>8. ContainToken(line, token) BY <1>4, <1>6, <1>7, WordFound
<1>9. line # <<>> BY <1>1, <1>7
<1> QED BY <1>8, <1>9 DEF CheckString, ContainOneOfTokens, line

(* It finds nothing else: a word it finds stands in that part of the file. *)
LEMMA CheckSound ==
  ASSUME NEW file \in Seq(Nat), NEW token \in Seq(Nat \ {0}), token # <<>>,
         CheckString(file, {token}, TRUE) = 1
  PROVE  Occurs(token, file, MEMLINK_ARG_MAX - 1)
<1> DEFINE n == IF Len(file) < MEMLINK_ARG_MAX THEN Len(file)
                ELSE MEMLINK_ARG_MAX - 1
           line == GetOneLineFromFile(file, MEMLINK_ARG_MAX)
<1>1. /\ MEMLINK_ARG_MAX \in Nat \ {0} /\ Len(file) \in Nat
      /\ Len(token) \in Nat /\ Len(token) > 0
  BY CommandLineAssumption
<1>2. n \in 0 .. Len(file) /\ n <= MEMLINK_ARG_MAX - 1 BY <1>1
<1>3. line = SubSeq(file, 1, n) BY DEF GetOneLineFromFile
<1>4. ContainToken(line, token)
  BY DEF CheckString, ContainOneOfTokens
<1> HIDE DEF n, line
<1>5. /\ line \in Seq(Nat) /\ Len(line) = n
      /\ \A i \in 1 .. n : line[i] = file[i]
  BY <1>2, <1>3
<1>6. PICK p \in Arguments(line) : strstr(line, p, token)
  BY <1>4 DEF ContainToken
<1>7. p \in 1 .. n BY <1>5 DEF Arguments
<1>8. PICK k \in p .. p + strlen(line, p) - Len(token) :
        SubSeq(line, k, k + Len(token) - 1) = token
  BY <1>6 DEF strstr
<1>9. strlen(line, p) \in 0 .. n + 1 - p BY <1>5, <1>7, StrlenEnds
<1>10. k \in Nat /\ 1 <= k /\ k + Len(token) - 1 <= n
  BY <1>1, <1>2, <1>7, <1>8, <1>9
<1>11. SubSeq(file, k, k + Len(token) - 1) = SubSeq(line, k, k + Len(token) - 1)
  <2> DEFINE a == SubSeq(file, k, k + Len(token) - 1)
             b == SubSeq(line, k, k + Len(token) - 1)
  <2>1. Len(line) = n BY <1>5
  <2>2. k \in Nat \ {0} BY <1>10
  <2>3. /\ k \in Nat \ {0} /\ k + Len(token) - 1 <= Len(file)
        /\ k + Len(token) - 1 <= Len(line)
    BY <1>1, <1>2, <1>10, <2>1, <2>2
  <2>4. a \in Seq(Nat) /\ Len(a) = Len(token) BY <1>1, <2>3, Word
  <2>5. b \in Seq(Nat) /\ Len(b) = Len(token) BY <1>1, <1>5, <2>3, Word
  <2>6. ASSUME NEW i \in 1 .. Len(token) PROVE a[i] = b[i]
    <3>1. a[i] = file[k + i - 1] /\ b[i] = line[k + i - 1]
      BY <1>1, <1>5, <2>3, <2>6, Word
    <3>2. k + i - 1 \in 1 .. n BY <1>1, <1>2, <1>10, <2>6
    <3> QED BY <1>5, <3>1, <3>2
  <2> HIDE DEF a, b
  <2>7. a = b BY <2>4, <2>5, <2>6, SeqEqual
  <2> QED BY <2>7 DEF a, b
<1>12. k \in 1 .. Len(file) + 1 - Len(token)
       /\ k + Len(token) - 1 <= MEMLINK_ARG_MAX - 1
  BY <1>1, <1>2, <1>10
<1> QED BY <1>8, <1>11, <1>12 DEF Occurs
------------------------------------------------------------------------------
(* The operations on the list. *)

(* The ids of the running machines are few: at most one per start. *)
LEMMA ActiveFew ==
  ASSUME active \in [Names -> 0 .. MaxDomid]
  PROVE  /\ ActiveIds \subseteq Domids
         /\ IsFiniteSet(ActiveIds)
         /\ Cardinality(ActiveIds) \in 0 .. MaxDomid
<1>1. ActiveIds \subseteq Domids
  BY VmListAssumption DEF ActiveIds, Domids
<1>2. IsFiniteSet(Domids) /\ Cardinality(Domids) = MaxDomid
  BY VmListAssumption, FS_Interval DEF Domids
<1>3. /\ IsFiniteSet(ActiveIds) /\ Cardinality(ActiveIds) <= MaxDomid
  BY <1>1, <1>2, FS_Subset
<1>4. Cardinality(ActiveIds) \in Nat BY <1>3, FS_CardinalityType
<1> QED BY <1>1, <1>3, <1>4, VmListAssumption

(* Each operation on the list keeps its type and count its length. *)
Counted ==
  /\ vmlist \subseteq Entry
  /\ IsFiniteSet(vmlist)
  /\ count = Cardinality(vmlist)

(* FindAddVMToList adds the running machine of that id, once, or nothing. *)
LEMMA AddOne ==
  ASSUME Counted, NEW domid \in Domids, FindAddVMToList(domid)
  PROVE  /\ Counted'
         /\ \/ vmlist' = vmlist
            \/ /\ ~InList(domid) /\ conn = "up"
               /\ \E n \in Names :
                    /\ active[n] = domid
                    /\ vmlist' = vmlist \cup {[domid |-> domid, name |-> n]}
<1>1. CASE vmlist' = vmlist /\ count' = count BY <1>1 DEF Counted
<1>2. ASSUME ~InList(domid), NEW n \in Names, InitAndCheckVM(domid, n),
             vmlist' = vmlist \cup {[domid |-> domid, name |-> n]},
             count' = count + 1
      PROVE  Counted' /\ conn = "up" /\ active[n] = domid
  <2> DEFINE e == [domid |-> domid, name |-> n]
  <2>1. e \in Entry /\ e \notin vmlist BY <1>2 DEF Entry, InList
  <2>2. IsFiniteSet(vmlist') /\ Cardinality(vmlist') = Cardinality(vmlist) + 1
    BY <1>2, <2>1, FS_AddElement DEF Counted
  <2> QED BY <1>2, <2>1, <2>2 DEF Counted, InitAndCheckVM
<1> QED BY <1>1, <1>2 DEF FindAddVMToList

(* FindDeleteVMFromList removes one entry of the event's name, or there is *)
(* none.                                                                   *)
LEMMA DeleteOne ==
  ASSUME Counted, NEW e \in Event, FindDeleteVMFromList(e)
  PROVE  /\ Counted'
         /\ \/ \E m \in vmlist : m.name = e.name /\ vmlist' = vmlist \ {m}
            \/ vmlist' = vmlist /\ \A m \in vmlist : m.name # e.name
<1>1. CASE UNCHANGED <<vmlist, count>> /\ \A m \in vmlist : m.name # e.name
  BY <1>1 DEF Counted
<1>2. ASSUME NEW m \in vmlist, m.name = e.name, vmlist' = vmlist \ {m},
             count' = count - 1
      PROVE  Counted'
  <2>1. IsFiniteSet(vmlist') /\ Cardinality(vmlist') = Cardinality(vmlist) - 1
    BY <1>2, FS_RemoveElement DEF Counted
  <2> QED BY <1>2, <2>1 DEF Counted
<1> QED BY <1>1, <1>2 DEF FindDeleteVMFromList

(* FreeAllVM leaves an empty list and a count of 0. *)
LEMMA FreeEmpties == ASSUME Counted, FreeAllVM PROVE Counted' /\ vmlist' = {}
<1>1. Cardinality(vmlist) \in Nat BY FS_CardinalityType DEF Counted
<1> QED BY <1>1, FS_EmptySet DEF Counted, FreeAllVM

------------------------------------------------------------------------------
(* The parts of the invariant. *)

(* How far the event thread has come. *)
Phases ==
  /\ pc \in {"free", "count", "ask", "add", "post", "run"} => registered
  /\ pc \in {"connect", "register"} => ~registered
  /\ ~registered => events = <<>>
  /\ pc \in {"count", "ask"} => vmlist = {}

(* An id is given out once: what is known of it is of one machine, and no  *)
(* later than the machine's present run.                                   *)
Dated(x, runs, next) ==
  /\ x.domid < next
  /\ runs[x.name] # 0 => x.domid <= runs[x.name]
  /\ \A n \in Names : runs[n] = x.domid => n = x.name

Ids ==
  /\ \A n \in Names : active[n] < nextId
  /\ \A n, o \in Names : active[n] = active[o] /\ active[n] # 0 => n = o
  /\ \A i \in ids : i < nextId
  /\ \A m \in vmlist : Dated(m, active, nextId)
  /\ \A i \in DOMAIN events : Dated(events[i], active, nextId)

(* What CollectAddCurrentVMs has still to add is no later run of a machine *)
(* it has added.                                                           *)
Snapshot ==
  pc = "add" =>
    \A m \in vmlist : active[m.name] # m.domid => active[m.name] \notin ids

(* The start of a later run of a listed machine is queued behind the stop  *)
(* of the run the list knows.                                              *)
Ordered ==
  Collecting =>
    \A m \in vmlist : \A i \in DOMAIN events :
      /\ events[i].type = "started" /\ events[i].name = m.name
      /\ events[i].domid > m.domid
      => \E j \in DOMAIN events : /\ j < i /\ events[j].type = "stopped"
                                  /\ events[j].name = m.name

(* No domain and no machine is listed twice. *)
Unique == \A m, e \in vmlist : m.domid = e.domid \/ m.name = e.name => m = e

IInv ==
  /\ TypeOK /\ Counted /\ Phases /\ Ids /\ Snapshot /\ Ordered /\ Unique
  /\ NoGhost

(* The first state satisfies the invariant. *)
LEMMA InitIInv == ASSUME Init PROVE IInv
<1>1. TypeOK
  <2>1. active \in [Names -> 0 .. MaxDomid] /\ nextId \in 1 .. (MaxDomid + 1)
        /\ domNum \in 0 .. MaxDomid /\ losses \in 0 .. MaxLosses
    BY VmListAssumption DEF Init
  <2>2. registered \in BOOLEAN /\ initFlag \in BOOLEAN /\ change \in BOOLEAN
    BY DEF Init
  <2>3. events \in Seq(Event) BY DEF Init
  <2> QED BY <2>1, <2>2, <2>3 DEF Init, TypeOK, PcStates
<1>2. Counted BY FS_EmptySet DEF Init, Counted
<1>3. Phases /\ Ids BY DEF Init, Phases, Ids, Dated
<1>4. Snapshot /\ Ordered /\ Unique /\ NoGhost
  BY DEF Init, Snapshot, Ordered, Unique, NoGhost, Collecting
<1> QED BY <1>1, <1>2, <1>3, <1>4 DEF IInv

------------------------------------------------------------------------------
(* The environment. *)

(* A queued event is appended, or nothing is. *)
LEMMA QueueAppends ==
  ASSUME events \in Seq(Event), NEW e \in Event, Queue(e)
  PROVE  /\ events' \in Seq(Event)
         /\ \A i \in DOMAIN events : i \in DOMAIN events' /\ events'[i] = events[i]
         /\ \A i \in DOMAIN events' : \/ i \in DOMAIN events
                                      \/ i = Len(events) + 1 /\ events'[i] = e
         /\ conn = "up" /\ registered =>
              /\ Len(events) + 1 \in DOMAIN events'
              /\ events'[Len(events) + 1] = e
         /\ ~registered => events' = events
BY DEF Queue

(* A machine that starts gets an id that nothing has seen. *)
LEMMA StartsIInv ==
  ASSUME IInv, NEW n \in Names, MachineStarts(n)
  PROVE  IInv'
<1> DEFINE e == [type |-> "started", name |-> n, domid |-> nextId]
<1>1. /\ e \in Event /\ Queue(e) /\ active[n] = 0 /\ nextId \in Domids
      /\ UNCHANGED <<threadVars, conn, losses>>
      /\ active' = [active EXCEPT ![n] = nextId] /\ nextId' = nextId + 1
  BY DEF MachineStarts, Event
<1>2. /\ \A o \in Names : active'[o] = IF o = n THEN nextId ELSE active[o]
      /\ UNCHANGED <<vmlist, count, pc, ids, domNum, registered, conn,
                     initFlag, change>>
  BY <1>1 DEF IInv, TypeOK, threadVars, readyVars
<1> HIDE DEF e
<1>3. TypeOK'
  BY <1>1, <1>2, QueueAppends, VmListAssumption
     DEF IInv, TypeOK, Domids
<1>4. Counted' /\ Unique' BY <1>2 DEF IInv, Counted, Unique
<1>5. Phases' BY <1>1, <1>2, QueueAppends DEF IInv, TypeOK, Phases
<1>6. Ids'
  <2>1. \A x \in Entry \cup Event :
          Dated(x, active, nextId) => Dated(x, active', nextId')
    BY <1>1, <1>2 DEF IInv, TypeOK, Dated, Domids, Entry, Event
  <2>2. Dated(e, active', nextId')
    BY <1>1, <1>2 DEF e, IInv, TypeOK, Ids, Dated, Domids
  <2>3. \A m \in vmlist' : Dated(m, active', nextId')
    BY <1>2, <2>1 DEF IInv, TypeOK, Ids
  <2>4. \A i \in DOMAIN events' : Dated(events'[i], active', nextId')
    <3>1. \A i \in DOMAIN events : events[i] \in Event BY DEF IInv, TypeOK
    <3> QED BY <1>1, <2>1, <2>2, <3>1, QueueAppends DEF IInv, TypeOK, Ids
  <2>5. /\ \A o \in Names : active'[o] < nextId'
        /\ \A o, q \in Names : active'[o] = active'[q] /\ active'[o] # 0 => o = q
        /\ \A i \in ids' : i < nextId'
    BY <1>1, <1>2 DEF IInv, TypeOK, Ids, Domids
  <2> QED BY <2>3, <2>4, <2>5 DEF Ids
<1>7. Snapshot'
  BY <1>1, <1>2 DEF IInv, TypeOK, Ids, Snapshot, Entry, Domids
<1>8. NoGhost'
  <2> SUFFICES ASSUME Collecting, NEW m \in vmlist
               PROVE  \/ active'[m.name] = m.domid
                      \/ \E i \in DOMAIN events' : /\ events'[i].name = m.name
                                                   /\ events'[i].type = "stopped"
    BY <1>2 DEF NoGhost, Collecting, Pending
  <2>1. m.name \in Names /\ m.domid # 0 BY DEF IInv, TypeOK, Entry, Domids
  <2>2. \A i \in DOMAIN events : i \in DOMAIN events' /\ events'[i] = events[i]
    BY <1>1, QueueAppends DEF IInv, TypeOK
  <2>3. \/ active[m.name] = m.domid
        \/ \E i \in DOMAIN events : /\ events[i].name = m.name
                                    /\ events[i].type = "stopped"
    BY DEF IInv, NoGhost, Pending
  <2>4. CASE active[m.name] = m.domid BY <1>1, <1>2, <2>1, <2>4
  <2> QED BY <2>2, <2>3, <2>4
<1>9. Ordered'
  <2> SUFFICES ASSUME Collecting', NEW m \in vmlist', NEW i \in DOMAIN events',
                      events'[i].type = "started", events'[i].name = m.name,
                      events'[i].domid > m.domid
               PROVE  \E j \in DOMAIN events' :
                        /\ j < i /\ events'[j].type = "stopped"
                        /\ events'[j].name = m.name
    BY DEF Ordered
  <2>1. Collecting /\ m \in vmlist BY <1>2 DEF Collecting
  <2>2. CASE i \in DOMAIN events
    BY <1>1, <2>1, <2>2, QueueAppends DEF IInv, TypeOK, Ordered
  <2>3. CASE i = Len(events) + 1 /\ events'[i] = e
    <3>1. m.name = n /\ m.domid # 0
      BY <2>1, <2>3 DEF e, IInv, TypeOK, Entry, Domids
    <3>2. PICK j \in DOMAIN events : /\ events[j].name = n
                                     /\ events[j].type = "stopped"
      BY <1>1, <2>1, <3>1 DEF IInv, NoGhost, Pending
    <3>3. j < i BY <2>3, <3>2 DEF IInv, TypeOK
    <3> QED BY <1>1, <3>1, <3>2, <3>3, QueueAppends DEF IInv, TypeOK
  <2> QED BY <1>1, <2>2, <2>3, QueueAppends DEF IInv, TypeOK
<1> QED BY <1>3, <1>4, <1>5, <1>6, <1>7, <1>8, <1>9 DEF IInv

(* A machine that stops and is listed has its stop queued. *)
LEMMA StopsIInv ==
  ASSUME IInv, NEW n \in Names, MachineStops(n)
  PROVE  IInv'
<1> DEFINE e == [type |-> "stopped", name |-> n, domid |-> active[n]]
<1>1. /\ e \in Event /\ Queue(e) /\ active[n] # 0
      /\ UNCHANGED <<threadVars, conn, nextId, losses>>
      /\ active' = [active EXCEPT ![n] = 0]
  BY DEF MachineStops, Event, IInv, TypeOK, Domids
<1>2. /\ \A o \in Names : active'[o] = IF o = n THEN 0 ELSE active[o]
      /\ UNCHANGED <<vmlist, count, pc, ids, domNum, registered, conn,
                     initFlag, change>>
  BY <1>1 DEF IInv, TypeOK, threadVars, readyVars
<1>3. \A i \in DOMAIN events : events[i] \in Event BY DEF IInv, TypeOK
<1>4. Dated(e, active', nextId')
  BY <1>1, <1>2 DEF IInv, TypeOK, Ids, Dated
<1>5. e.type = "stopped" /\ e.name = n OBVIOUS
<1> HIDE DEF e
<1>6. TypeOK'
  BY <1>1, <1>2, QueueAppends, VmListAssumption DEF IInv, TypeOK
<1>7. Counted' /\ Unique' BY <1>2 DEF IInv, Counted, Unique
<1>8. Phases' BY <1>1, <1>2, QueueAppends DEF IInv, TypeOK, Phases
<1>9. Ids'
  <2>1. \A x \in Entry \cup Event :
          Dated(x, active, nextId) => Dated(x, active', nextId')
    BY <1>1, <1>2 DEF IInv, TypeOK, Dated, Domids, Entry, Event
  <2>2. \A m \in vmlist' : Dated(m, active', nextId')
    BY <1>2, <2>1 DEF IInv, TypeOK, Ids
  <2>3. \A i \in DOMAIN events' : Dated(events'[i], active', nextId')
    BY <1>1, <1>3, <1>4, <2>1, QueueAppends DEF IInv, TypeOK, Ids
  <2>4. /\ \A o \in Names : active'[o] < nextId'
        /\ \A o, q \in Names : active'[o] = active'[q] /\ active'[o] # 0 => o = q
        /\ \A i \in ids' : i < nextId'
    BY <1>1, <1>2 DEF IInv, TypeOK, Ids
  <2> QED BY <2>2, <2>3, <2>4 DEF Ids
<1>10. Snapshot' BY <1>2 DEF IInv, TypeOK, Snapshot, Entry, Domids
<1>11. NoGhost'
  <2> SUFFICES ASSUME Collecting, NEW m \in vmlist
               PROVE  \/ active'[m.name] = m.domid
                      \/ \E i \in DOMAIN events' : /\ events'[i].name = m.name
                                                   /\ events'[i].type = "stopped"
    BY <1>2 DEF NoGhost, Collecting, Pending
  <2>1. CASE m.name = n
    BY <1>1, <1>5, <2>1, QueueAppends DEF IInv, TypeOK, Collecting, Phases
  <2>2. CASE m.name # n
    BY <1>1, <1>2, <2>2, QueueAppends
       DEF IInv, TypeOK, NoGhost, Pending, Entry
  <2> QED BY <2>1, <2>2
<1>12. Ordered'
  <2>1. \A i \in DOMAIN events' : events'[i].type = "started" =>
          i \in DOMAIN events
    BY <1>1, <1>5, QueueAppends DEF IInv, TypeOK
  <2> SUFFICES ASSUME Collecting', NEW m \in vmlist', NEW i \in DOMAIN events',
                      events'[i].type = "started", events'[i].name = m.name,
                      events'[i].domid > m.domid
               PROVE  \E j \in DOMAIN events' :
                        /\ j < i /\ events'[j].type = "stopped"
                        /\ events'[j].name = m.name
    BY DEF Ordered
  <2>2. Collecting /\ m \in vmlist BY <1>2 DEF Collecting
  <2>3. \A j \in DOMAIN events : j \in DOMAIN events' /\ events'[j] = events[j]
    BY <1>1, QueueAppends DEF IInv, TypeOK
  <2>4. i \in DOMAIN events BY <2>1
  <2>5. PICK j \in DOMAIN events : /\ j < i /\ events[j].type = "stopped"
                                   /\ events[j].name = m.name
    BY <2>2, <2>3, <2>4 DEF IInv, Ordered
  <2> QED BY <2>3, <2>5
<1> QED BY <1>6, <1>7, <1>8, <1>9, <1>10, <1>11, <1>12 DEF IInv

(* With the connection every claim about it is gone. *)
LEMMA GoneIInv == ASSUME IInv, LibvirtdGone PROVE IInv'
<1>1. /\ conn' = "dead" /\ losses' \in 0 .. MaxLosses
      /\ UNCHANGED <<vmlist, count, pc, ids, domNum, registered, events, active,
                     nextId, initFlag, change>>
  BY VmListAssumption DEF LibvirtdGone, threadVars, readyVars, IInv, TypeOK
<1> QED BY <1>1 DEF IInv, TypeOK, Counted, Phases, Ids, Snapshot, Unique,
           NoGhost, Ordered, Collecting

------------------------------------------------------------------------------
(* The event thread outside of its work on the list. *)

(* Steps that leave the list, the ids and the machines alone, and the      *)
(* events too, or discard them.                                            *)
LEMMA QuietIInv ==
  ASSUME IInv, TypeOK', Phases',
         UNCHANGED <<vmlist, count, active, nextId>>,
         ids' \subseteq ids,
         events' \in {events, <<>>},
         Collecting' => Collecting /\ events' = events,
         pc' = "add" => pc = "add"
  PROVE  IInv'
<1>1. Counted' /\ Unique' /\ Snapshot' BY DEF IInv, Counted, Unique, Snapshot
<1>2. Ids' BY DEF IInv, Ids
<1>3. Ordered' /\ NoGhost' BY DEF IInv, Ordered, NoGhost, Pending
<1> QED BY <1>1, <1>2, <1>3 DEF IInv

(* A new connection has no events. *)
LEMMA ConnectIInv ==
  ASSUME IInv, DropConnection \/ ConnectLibvirt
  PROVE  IInv'
<1> USE DEF DropConnection, ConnectLibvirt, threadVars, readyVars, worldVars
<1>1. TypeOK' BY DEF IInv, TypeOK, PcStates
<1>2. Phases' BY DEF IInv, Phases
<1> QED BY <1>1, <1>2, QuietIInv DEF Collecting

(* The callback is registered before the list is built, or the loop starts again. *)
LEMMA RegisterIInv == ASSUME IInv, DomainEventsRegister PROVE IInv'
<1>1. /\ pc = "register" /\ registered' \in BOOLEAN /\ pc' \in {"free", "cleanup"}
      /\ pc' = "free" => registered'
      /\ UNCHANGED <<vmlist, count, ids, domNum, conn, events, readyVars,
                     worldVars>>
  BY DEF DomainEventsRegister
<1>2. TypeOK' BY <1>1 DEF IInv, TypeOK, PcStates, readyVars, worldVars
<1>3. Phases' BY <1>1 DEF IInv, Phases
<1> QED BY <1>1, <1>2, <1>3, QuietIInv DEF Collecting, readyVars, worldVars

(* Without a callback the queue is gone. *)
LEMMA DeregisterIInv == ASSUME IInv, DomainEventsDeregister PROVE IInv'
<1>1. /\ pc' = "connect" /\ ~registered' /\ events' = <<>>
      /\ UNCHANGED <<vmlist, count, ids, domNum, conn, readyVars, worldVars>>
  BY DEF DomainEventsDeregister
<1>2. TypeOK'
  <2>1. registered' \in BOOLEAN BY DEF DomainEventsDeregister
  <2>2. events' \in Seq(Event) BY <1>1
  <2> QED BY <1>1, <2>1, <2>2 DEF IInv, TypeOK, PcStates, readyVars, worldVars
<1>3. Phases' BY <1>1 DEF Phases
<1> QED BY <1>1, <1>2, <1>3, QuietIInv DEF Collecting, readyVars, worldVars

(* virConnectNumOfDomains. *)
LEMMA CountIInv == ASSUME IInv, CountDomains PROVE IInv'
<1> USE DEF CountDomains, readyVars, worldVars
<1>1. domNum' \in 0 .. MaxDomid BY ActiveFew, VmListAssumption DEF IInv, TypeOK
<1>2. TypeOK' BY <1>1 DEF IInv, TypeOK, PcStates
<1>3. Phases' BY DEF IInv, Phases
<1> QED BY <1>2, <1>3, QuietIInv DEF Collecting

(* The ends of the collection and of the inner loop. *)
LEMMA MoveIInv == ASSUME IInv, CollectDone \/ NoticeLoss PROVE IInv'
<1> USE DEF CollectDone, NoticeLoss, readyVars, worldVars
<1>1. TypeOK' BY DEF IInv, TypeOK, PcStates
<1>2. Phases' BY DEF IInv, Phases
<1> QED BY <1>1, <1>2, QuietIInv DEF Collecting

(* The main thread is told, and takes notice. *)
LEMMA ReadyIInv == ASSUME IInv, Ready \/ TakeChange PROVE IInv'
<1>1. /\ initFlag' \in BOOLEAN /\ change' \in BOOLEAN
      /\ pc' = pc \/ (pc = "post" /\ pc' = "run")
      /\ UNCHANGED <<vmlist, count, ids, domNum, registered, conn, events,
                     active, nextId, losses>>
  BY DEF IInv, TypeOK, Ready, TakeChange, worldVars
<1>2. TypeOK' BY <1>1 DEF IInv, TypeOK, PcStates
<1>3. Phases' BY <1>1 DEF IInv, Phases
<1> QED BY <1>1, <1>2, <1>3, QuietIInv DEF Collecting

------------------------------------------------------------------------------
(* The event thread's work on the list. *)

(* FreeAllVM: nothing of the previous connection is kept. *)
LEMMA RebuildIInv == ASSUME IInv, StartRebuild PROVE IInv'
<1>1. Counted' /\ vmlist' = {} BY FreeEmpties DEF IInv, StartRebuild
<1>2. /\ pc = "free" /\ pc' = "count"
      /\ UNCHANGED <<ids, domNum, registered, conn, events, active, nextId,
                     losses, initFlag, change>>
  BY DEF StartRebuild, readyVars, worldVars
<1>3. count' \in Int BY <1>1, FS_CardinalityType DEF Counted
<1>4. TypeOK' BY <1>1, <1>2, <1>3 DEF IInv, TypeOK, PcStates
<1>5. Phases' /\ Ids' BY <1>1, <1>2 DEF IInv, Phases, Ids
<1>6. Snapshot' /\ Unique' /\ Ordered' /\ NoGhost'
  BY <1>1, <1>2 DEF Snapshot, Unique, Ordered, NoGhost
<1> QED BY <1>1, <1>4, <1>5, <1>6 DEF IInv

(* virConnectListDomains: a snapshot of ids that were given out. *)
LEMMA ListIInv == ASSUME IInv, ListDomains PROVE IInv'
<1>1. /\ pc = "ask" /\ pc' = "add" /\ ids' \subseteq ActiveIds
      /\ UNCHANGED <<vmlist, count, domNum, registered, conn, events, active,
                     nextId, losses, initFlag, change>>
  BY DEF ListDomains, readyVars, worldVars
<1>2. vmlist' = {} BY <1>1 DEF IInv, Phases
<1>3. TypeOK' BY <1>1, ActiveFew DEF IInv, TypeOK, PcStates
<1>4. \A i \in ids' : i < nextId'
  BY <1>1 DEF IInv, Ids, ActiveIds
<1>5. Ids' BY <1>1, <1>4 DEF IInv, Ids
<1>6. Phases' BY <1>1 DEF IInv, Phases
<1>7. Counted' BY <1>1 DEF IInv, Counted
<1>8. Snapshot' /\ Unique' /\ Ordered' /\ NoGhost'
  BY <1>2 DEF Snapshot, Unique, Ordered, NoGhost
<1> QED BY <1>3, <1>5, <1>6, <1>7, <1>8 DEF IInv

(* A running machine that is added is listed once.  A collected id is not  *)
(* a later run of a machine in the list, and the start of a later run      *)
(* comes after the stop of the one in the list.                            *)
LEMMA AddUnique ==
  ASSUME IInv, NEW n \in Names, NEW domid \in Domids, active[n] = domid,
         ~InList(domid), conn = "up",
         \/ pc = "add" /\ domid \in ids
         \/ /\ pc = "run" /\ events # <<>> /\ Head(events).type = "started"
            /\ Head(events).domid = domid,
         vmlist' = vmlist \cup {[domid |-> domid, name |-> n]}
  PROVE  Unique'
<1>1. SUFFICES ASSUME NEW m \in vmlist, m.name = n
               PROVE  FALSE
  BY <1>1 DEF IInv, Unique, InList, TypeOK, Entry
<1>2. m.domid # domid BY DEF InList
<1>3. CASE pc = "add" /\ domid \in ids
  BY <1>1, <1>2, <1>3 DEF IInv, Snapshot
<1>4. CASE /\ pc = "run" /\ events # <<>> /\ Head(events).type = "started"
           /\ Head(events).domid = domid
  <2>1. 1 \in DOMAIN events /\ Head(events) = events[1]
    BY <1>4 DEF IInv, TypeOK
  <2>2. events[1].name = n BY <1>4, <2>1 DEF IInv, Ids, Dated
  <2>3. m.domid < domid
    BY <1>1, <1>2 DEF IInv, TypeOK, Ids, Dated, Entry, Domids
  <2>4. PICK j \in DOMAIN events : j < 1
    BY <1>1, <1>4, <2>1, <2>2, <2>3 DEF IInv, Ordered, Collecting
  <2> QED BY <2>4 DEF IInv, TypeOK
<1> QED BY <1>3, <1>4

(* What adding an entry means for the parts of the invariant about it. *)
LEMMA AddedEntry ==
  ASSUME IInv, NEW n \in Names, NEW domid \in Domids, active[n] = domid,
         UNCHANGED <<active, nextId>>
  PROVE  LET m == [domid |-> domid, name |-> n]
         IN  /\ m \in Entry /\ m.name = n /\ m.domid = domid
             /\ Dated(m, active, nextId)
             /\ \A i \in DOMAIN events : events[i].name = n =>
                  ~(events[i].domid > domid)
<1>1. \A i \in DOMAIN events : events[i] \in Event BY DEF IInv, TypeOK
<1> DEFINE m == [domid |-> domid, name |-> n]
<1>2. m \in Entry /\ m.name = n /\ m.domid = domid BY DEF Entry
<1>3. domid # 0 /\ domid \in Nat BY DEF Domids
<1>4. Dated(m, active, nextId)
  BY <1>3 DEF IInv, TypeOK, Ids, Dated
<1>5. ASSUME NEW i \in DOMAIN events, events[i].name = n
      PROVE  ~(events[i].domid > domid)
  <2>1. events[i].domid \in Nat BY <1>1 DEF Event, Domids
  <2>2. Dated(events[i], active, nextId) BY DEF IInv, Ids
  <2> QED BY <1>3, <1>5, <2>1, <2>2 DEF Dated
<1> QED BY <1>2, <1>4, <1>5

(* The collection adds one id of the snapshot. *)
LEMMA AddIInv ==
  ASSUME IInv, NEW domid \in ids, AddCurrentVM(domid)
  PROVE  IInv'
<1>1. /\ pc = "add" /\ domid \in Domids /\ FindAddVMToList(domid)
      /\ ids' = ids \ {domid}
      /\ UNCHANGED <<pc, domNum, registered, conn, events, active, nextId, losses, initFlag, change>>
  BY DEF AddCurrentVM, readyVars, worldVars, IInv, TypeOK
<1>2. /\ Counted'
      /\ \/ vmlist' = vmlist
         \/ /\ ~InList(domid) /\ conn = "up"
            /\ \E n \in Names :
                 /\ active[n] = domid
                 /\ vmlist' = vmlist \cup {[domid |-> domid, name |-> n]}
  BY <1>1, AddOne DEF IInv
<1>3. TypeOK'
  <2>1. vmlist' \subseteq Entry /\ count' \in Int
    BY <1>2, FS_CardinalityType DEF Counted
  <2> QED BY <1>1, <2>1 DEF IInv, TypeOK
<1>4. Phases' BY <1>1 DEF IInv, Phases
<1>5. CASE vmlist' = vmlist
  <2>1. Ids' /\ Snapshot' /\ Unique' BY <1>1, <1>5 DEF IInv, Ids, Snapshot, Unique
  <2>2. Ordered' /\ NoGhost'
    BY <1>1, <1>5 DEF IInv, Ordered, NoGhost, Collecting, Pending
  <2> QED BY <1>2, <1>3, <1>4, <2>1, <2>2 DEF IInv
<1>6. ASSUME ~InList(domid), conn = "up", NEW n \in Names, active[n] = domid,
             vmlist' = vmlist \cup {[domid |-> domid, name |-> n]}
      PROVE  IInv'
  <2> DEFINE m == [domid |-> domid, name |-> n]
  <2>1. /\ m \in Entry /\ m.name = n /\ m.domid = domid
        /\ Dated(m, active, nextId)
        /\ \A i \in DOMAIN events : events[i].name = n => ~(events[i].domid > domid)
    BY <1>1, <1>6, AddedEntry
  <2>2. vmlist' = vmlist \cup {m} BY <1>6
  <2> HIDE DEF m
  <2>3. Unique' BY <1>1, <1>6, AddUnique
  <2>4. Ids' BY <1>1, <2>1, <2>2 DEF IInv, Ids
  <2>5. Snapshot' BY <1>1, <1>6, <2>1, <2>2 DEF IInv, Snapshot
  <2>6. Ordered' BY <1>1, <2>1, <2>2 DEF IInv, Ordered, Collecting
  <2>7. NoGhost'
    BY <1>1, <1>6, <2>1, <2>2 DEF IInv, NoGhost, Collecting, Pending
  <2> QED BY <1>2, <1>3, <1>4, <2>3, <2>4, <2>5, <2>6, <2>7 DEF IInv
<1> QED BY <1>2, <1>5, <1>6

(* The queue without its head. *)
LEMMA TailShifts ==
  ASSUME events \in Seq(Event), events # <<>>, events' = Tail(events)
  PROVE  /\ events' \in Seq(Event)
         /\ Head(events) = events[1] /\ events[1] \in Event
         /\ \A i \in DOMAIN events' : /\ i + 1 \in DOMAIN events
                                      /\ events'[i] = events[i + 1]
         /\ \A i \in DOMAIN events :
              i # 1 => /\ i - 1 \in DOMAIN events'
                       /\ events'[i - 1] = events[i]
OBVIOUS

(* An event is handled: a start adds its machine if that still runs, a     *)
(* stop removes the machine of its name.                                   *)
LEMMA EventIInv == ASSUME IInv, RunEvent PROVE IInv'
<1>1. /\ pc = "run" /\ events # <<>> /\ events' = Tail(events)
      /\ ProcessDomainEvent(Head(events))
      /\ UNCHANGED <<pc, ids, domNum, registered, conn, active, nextId, losses, initFlag, change>>
  BY DEF RunEvent, readyVars, worldVars
<1>2. /\ events' \in Seq(Event) /\ events \in Seq(Event)
      /\ Head(events) = events[1] /\ events[1] \in Event
      /\ \A i \in DOMAIN events' : /\ i + 1 \in DOMAIN events
                                   /\ events'[i] = events[i + 1]
      /\ \A i \in DOMAIN events :
           i # 1 => /\ i - 1 \in DOMAIN events'
                    /\ events'[i - 1] = events[i]
  BY <1>1, TailShifts DEF IInv, TypeOK
<1>3. \A i \in DOMAIN events' : Dated(events'[i], active', nextId')
  BY <1>1, <1>2 DEF IInv, Ids
<1>4. Phases' BY <1>1 DEF IInv, Phases
<1>5. Snapshot' BY <1>1 DEF Snapshot
<1>6. Counted' => TypeOK'
  <2>1. Counted' => vmlist' \subseteq Entry /\ count' \in Int
    BY FS_CardinalityType DEF Counted
  <2> QED BY <1>1, <1>2, <2>1 DEF IInv, TypeOK
<1>7. CASE events[1].type = "started"
  <2> DEFINE domid == events[1].domid
  <2>1. domid \in Domids /\ FindAddVMToList(domid)
    BY <1>1, <1>2, <1>7 DEF ProcessDomainEvent, Event
  <2>2. /\ Counted'
        /\ \/ vmlist' = vmlist
           \/ /\ ~InList(domid) /\ conn = "up"
              /\ \E n \in Names :
                   /\ active[n] = domid
                   /\ vmlist' = vmlist \cup {[domid |-> domid, name |-> n]}
    BY <2>1, AddOne DEF IInv
  <2>3. \A i \in DOMAIN events : events[i].type = "stopped" =>
          i - 1 \in DOMAIN events' /\ events'[i - 1] = events[i]
    BY <1>2, <1>7
  <2>4. Collecting' => \A m \in vmlist :
          /\ \/ active'[m.name] = m.domid
             \/ \E i \in Pending(m.name)' : events'[i].type = "stopped"
          /\ \A i \in DOMAIN events' :
               /\ events'[i].type = "started" /\ events'[i].name = m.name
               /\ events'[i].domid > m.domid
               => \E j \in DOMAIN events' : /\ j < i /\ events'[j].type = "stopped"
                                            /\ events'[j].name = m.name
    <3> SUFFICES ASSUME Collecting', NEW m \in vmlist
                 PROVE  /\ \/ active'[m.name] = m.domid
                           \/ \E i \in Pending(m.name)' :
                                events'[i].type = "stopped"
                        /\ \A i \in DOMAIN events' :
                             /\ events'[i].type = "started"
                             /\ events'[i].name = m.name
                             /\ events'[i].domid > m.domid
                             => \E j \in DOMAIN events' :
                                  /\ j < i /\ events'[j].type = "stopped"
                                  /\ events'[j].name = m.name
      OBVIOUS
    <3>1. Collecting BY <1>1 DEF Collecting
    <3>2. \/ active'[m.name] = m.domid
          \/ \E i \in Pending(m.name)' : events'[i].type = "stopped"
      BY <1>1, <2>3, <3>1 DEF IInv, NoGhost, Pending
    <3>3. ASSUME NEW i \in DOMAIN events', events'[i].type = "started",
                 events'[i].name = m.name, events'[i].domid > m.domid
          PROVE  \E j \in DOMAIN events' : /\ j < i /\ events'[j].type = "stopped"
                                           /\ events'[j].name = m.name
      <4>1. i + 1 \in DOMAIN events /\ events'[i] = events[i + 1]
        BY <1>2, <3>3
      <4>2. PICK j \in DOMAIN events : /\ j < i + 1 /\ events[j].type = "stopped"
                                       /\ events[j].name = m.name
        BY <3>1, <3>3, <4>1 DEF IInv, Ordered
      <4>3. i \in Int /\ j \in Int BY <1>2, <3>3
      <4> QED BY <2>3, <4>2, <4>3
    <3> QED BY <3>2, <3>3
  <2>5. CASE vmlist' = vmlist
    <3>1. Ids' /\ Unique' BY <1>1, <1>3, <2>5 DEF IInv, Ids, Unique
    <3>2. Ordered' /\ NoGhost' BY <2>4, <2>5 DEF Ordered, NoGhost
    <3> QED BY <1>4, <1>5, <1>6, <2>2, <3>1, <3>2 DEF IInv
  <2>6. ASSUME ~InList(domid), conn = "up", NEW n \in Names, active[n] = domid,
               vmlist' = vmlist \cup {[domid |-> domid, name |-> n]}
        PROVE  IInv'
    <3> DEFINE m == [domid |-> domid, name |-> n]
    <3>1. /\ m \in Entry /\ m.name = n /\ m.domid = domid
          /\ Dated(m, active, nextId)
          /\ \A i \in DOMAIN events : events[i].name = n => ~(events[i].domid > domid)
      BY <1>1, <2>1, <2>6, AddedEntry
    <3>2. vmlist' = vmlist \cup {m} BY <2>6
    <3>3. Unique' BY <1>1, <1>2, <1>7, <2>1, <2>6, AddUnique
    <3> HIDE DEF m
    <3>4. Ids' BY <1>1, <1>3, <3>1, <3>2 DEF IInv, Ids
    <3>5. \A i \in DOMAIN events' : events'[i].name = m.name =>
            ~(events'[i].domid > m.domid)
      BY <1>2, <3>1
    <3>6. Ordered' BY <2>4, <3>2, <3>5 DEF Ordered
    <3>7. active'[m.name] = m.domid BY <1>1, <2>6, <3>1
    <3>8. NoGhost' BY <2>4, <3>2, <3>7 DEF NoGhost
    <3> QED BY <1>4, <1>5, <1>6, <2>2, <3>3, <3>4, <3>6, <3>8 DEF IInv
  <2> QED BY <2>2, <2>5, <2>6
<1>8. CASE events[1].type = "stopped"
  <2> DEFINE n == events[1].name
  <2>1. FindDeleteVMFromList(events[1])
    BY <1>1, <1>2, <1>8 DEF ProcessDomainEvent
  <2>2. /\ Counted'
        /\ \/ \E m \in vmlist : m.name = n /\ vmlist' = vmlist \ {m}
           \/ vmlist' = vmlist /\ \A m \in vmlist : m.name # n
    BY <1>2, <2>1, DeleteOne DEF IInv
  <2>3. vmlist' \subseteq vmlist /\ \A m \in vmlist' : m.name # n
    BY <2>2 DEF IInv, Unique
  <2> HIDE DEF n
  <2>4. \A i \in DOMAIN events : events[i].name # n =>
          i - 1 \in DOMAIN events' /\ events'[i - 1] = events[i]
    BY <1>2 DEF n
  <2>5. Ids' /\ Unique' BY <1>1, <1>3, <2>3 DEF IInv, Ids, Unique
  <2>6. NoGhost'
    BY <1>1, <2>3, <2>4 DEF IInv, NoGhost, Collecting, Pending
  <2>7. Ordered'
    <3> SUFFICES ASSUME Collecting', NEW m \in vmlist', NEW i \in DOMAIN events',
                        events'[i].type = "started", events'[i].name = m.name,
                        events'[i].domid > m.domid
                 PROVE  \E j \in DOMAIN events' :
                          /\ j < i /\ events'[j].type = "stopped"
                          /\ events'[j].name = m.name
      BY DEF Ordered
    <3>1. i + 1 \in DOMAIN events /\ events'[i] = events[i + 1] BY <1>2
    <3>2. Collecting /\ m \in vmlist BY <1>1, <2>3 DEF Collecting
    <3>3. PICK j \in DOMAIN events : /\ j < i + 1 /\ events[j].type = "stopped"
                                     /\ events[j].name = m.name
      BY <3>1, <3>2 DEF IInv, Ordered
    <3>4. i \in Int /\ j \in Int BY <1>2
    <3> QED BY <2>3, <2>4, <3>3, <3>4
  <2> QED BY <1>4, <1>5, <1>6, <2>2, <2>5, <2>6, <2>7 DEF IInv
<1> QED BY <1>2, <1>7, <1>8 DEF Event

------------------------------------------------------------------------------
(* The theorems. *)

(* Every step preserves the invariant. *)
LEMMA NextIInv == ASSUME IInv, [Next]_vars PROVE IInv'
<1>1. CASE UNCHANGED vars
  BY <1>1 DEF vars, threadVars, readyVars, worldVars, IInv, TypeOK, Counted,
     Phases, Ids, Snapshot, Ordered, Unique, NoGhost, Collecting, Pending
<1>2. CASE EventThread
  BY <1>2, ConnectIInv, RegisterIInv, RebuildIInv, CountIInv, ListIInv,
     MoveIInv, ReadyIInv, AddIInv, EventIInv, DeregisterIInv DEF EventThread
<1>3. CASE Environment
  BY <1>3, StartsIInv, StopsIInv, GoneIInv DEF Environment
<1> QED BY <1>1, <1>2, <1>3, ReadyIInv DEF Next

(* The invariant holds throughout. *)
LEMMA IInvHolds == Spec => []IInv
<1>1. Init => IInv BY InitIInv
<1>2. IInv /\ [Next]_vars => IInv' BY NextIInv
<1> QED BY <1>1, <1>2, PTL DEF Spec

(* Every variable of the list and of the event thread keeps its type; a    *)
(* truncated or failed enumeration included.                               *)
THEOREM TypeCorrect == Spec => []TypeOK
<1>1. IInv => TypeOK BY DEF IInv
<1> QED BY <1>1, IInvHolds, PTL

(***************************************************************************)
(* count is the length of the list, and FindAddVMToList never lists a      *)
(* domain or a machine twice, although it compares only ids.               *)
(***************************************************************************)
THEOREM ListAlwaysSound == Spec => []ListSound
<1>1. IInv => ListSound BY DEF IInv, Counted, Unique, ListSound
<1> QED BY <1>1, IInvHolds, PTL

(* A readable command line is answered with 1 exactly when the word stands *)
(* in the part of it that the buffer holds, whatever its arguments are.    *)
THEOREM HugePagesExact ==
  HugePages = {n \in Names : Occurs(prealloc, CmdLine[n], MEMLINK_ARG_MAX - 1)}
<1> SUFFICES ASSUME NEW n \in Names
             PROVE  1 \in CheckVMHasHugePage(n)
                    <=> Occurs(prealloc, CmdLine[n], MEMLINK_ARG_MAX - 1)
  BY DEF HugePages
<1>1. /\ CmdLine[n] \in Seq(Nat)
      /\ prealloc \in Seq(Nat \ {0}) /\ prealloc # <<>>
  BY VmListAssumption, CommandLineAssumption
<1>2. 1 \in CheckVMHasHugePage(n)
      <=> CheckString(CmdLine[n], {prealloc}, TRUE) = 1
  BY DEF CheckVMHasHugePage, CheckString
<1> QED BY <1>1, <1>2, CheckFinds, CheckSound

(* Where command lines can be read, InitAndCheckVM refuses such a machine. *)
LEMMA HugeRefused ==
  ASSUME ~CmdLineMayFail, NEW n \in Names, NEW domid, InitAndCheckVM(domid, n)
  PROVE  ~Occurs(prealloc, CmdLine[n], MEMLINK_ARG_MAX - 1)
<1>1. /\ CmdLine[n] \in Seq(Nat)
      /\ prealloc \in Seq(Nat \ {0}) /\ prealloc # <<>>
  BY VmListAssumption, CommandLineAssumption
<1>2. \A rc \in CheckVMHasHugePage(n) :
        rc = CheckString(CmdLine[n], {prealloc}, TRUE)
  BY VmListAssumption DEF CheckVMHasHugePage
<1>3. CheckString(CmdLine[n], {prealloc}, TRUE) # 1
  <2>1. PICK rc \in CheckVMHasHugePage(n) : ~(rc > 0) BY DEF InitAndCheckVM
  <2>2. rc # 1 BY <2>1
  <2> QED BY <1>2, <2>2
<1> QED BY <1>1, <1>3, CheckFinds

(* What FindAddVMToList adds was checked. *)
LEMMA AddKeepsOut ==
  ASSUME HugePagesStayOut, NEW domid, FindAddVMToList(domid)
  PROVE  HugePagesStayOut'
<1>1. CASE vmlist' = vmlist BY <1>1 DEF HugePagesStayOut
<1>2. ASSUME NEW n \in Names, InitAndCheckVM(domid, n),
             vmlist' = vmlist \cup {[domid |-> domid, name |-> n]}
      PROVE  HugePagesStayOut'
  <2>1. [domid |-> domid, name |-> n].name = n OBVIOUS
  <2> QED BY <1>2, <2>1, HugeRefused DEF HugePagesStayOut
<1> QED BY <1>1, <1>2 DEF FindAddVMToList

(***************************************************************************)
(* Where command lines can be read, no machine with the word prealloc in   *)
(* the part of its command line that the buffer holds is ever in the list. *)
(***************************************************************************)
THEOREM HugePagesKeptOut == Spec => []HugePagesStayOut
<1>1. Init => HugePagesStayOut BY DEF Init, HugePagesStayOut
<1>2. ASSUME HugePagesStayOut, [Next]_vars PROVE HugePagesStayOut'
  <2>1. CASE vmlist' \subseteq vmlist BY <1>2, <2>1 DEF HugePagesStayOut
  <2>2. ASSUME ~(vmlist' \subseteq vmlist)
        PROVE  \E domid : FindAddVMToList(domid)
    <3>1. RunEvent \/ \E i \in ids : AddCurrentVM(i)
      BY <1>2, <2>2
         DEF Next, EventThread, Environment, vars, threadVars, MachineStarts,
             MachineStops, LibvirtdGone, DropConnection, ConnectLibvirt,
             DomainEventsRegister, StartRebuild, FreeAllVM, CountDomains,
             ListDomains, CollectDone, Ready, TakeChange, NoticeLoss,
             DomainEventsDeregister
    <3> QED BY <2>2, <3>1 DEF RunEvent, AddCurrentVM, ProcessDomainEvent,
               FindDeleteVMFromList
  <2> QED BY <1>2, <2>1, <2>2, AddKeepsOut
<1> QED BY <1>1, <1>2, PTL DEF Spec

(* An entry whose domain is gone has the stop of its machine queued.       *)
THEOREM NeverAGhost == Spec => []NoGhost
<1>1. IInv => NoGhost BY DEF IInv
<1> QED BY <1>1, IInvHolds, PTL
===============================================================================
