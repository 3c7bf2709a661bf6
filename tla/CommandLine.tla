----------------------------- MODULE CommandLine -----------------------------
(***************************************************************************)
(* How util.c learns from the command line of a machine's QEMU whether it  *)
(* has huge pages or runs Windows.  /proc/<pid>/cmdline is a sequence of   *)
(* bytes, each argument followed by a 0; the other bytes are any numbers.  *)
(***************************************************************************)
EXTENDS Integers, Sequences

CONSTANTS
  MEMLINK_ARG_MAX,  \* 13072 in the code: the buffer for the command line
  prealloc          \* the bytes of that word

ASSUME CommandLineAssumption ==
  /\ MEMLINK_ARG_MAX \in Nat \ {0}
  /\ prealloc \in Seq(Nat \ {0}) /\ prealloc # <<>>

(***************************************************************************)
(* GetOneLineFromFile: what fits into max bytes with a 0 behind it.  An    *)
(* empty file is an error.                                                 *)
(***************************************************************************)
GetOneLineFromFile(file, max) ==
  SubSeq(file, 1, IF Len(file) < max THEN Len(file) ELSE max - 1)

(* The argument at p ends before the next 0, or with the line. *)
strlen(line, p) ==
  LET ends == {k \in 0 .. Len(line) + 1 - p :
                 p + k = Len(line) + 1 \/ line[p + k] = 0}
  IN  CHOOSE k \in ends : \A j \in ends : k <= j

strstr(line, p, token) ==
  \E k \in p .. p + strlen(line, p) - Len(token) :
    SubSeq(line, k, k + Len(token) - 1) = token

(* A bug to detect: only the first argument is searched. *)
SearchFirst(line, token) ==
  strstr(line, 1, token)

(***************************************************************************)
(* The inner loop of ContainOneOfTokens passes over the zeros and searches *)
(* each argument, from its first byte, for the token.                      *)
(***************************************************************************)
Arguments(line) ==
  {p \in 1 .. Len(line) : line[p] # 0 /\ (p = 1 \/ line[p - 1] = 0)}

ContainToken(line, token) ==
  \E p \in Arguments(line) : strstr(line, p, token)

ContainOneOfTokens(line, tokens) ==
  IF \E token \in tokens : ContainToken(line, token) THEN 1 ELSE 0

(***************************************************************************)
(* CheckString: -1 when the process or its command line is not found; the  *)
(* pid comes from libvirt's file for the machine (GetQEMUPidByVMName).     *)
(***************************************************************************)
CheckString(file, tokens, readable) ==
  LET line == GetOneLineFromFile(file, MEMLINK_ARG_MAX)
  IN  IF readable /\ line # <<>> THEN ContainOneOfTokens(line, tokens) ELSE -1

(* The word stands somewhere in the first `limit' bytes. *)
Occurs(token, bytes, limit) ==
  \E k \in 1 .. Len(bytes) + 1 - Len(token) :
    /\ k + Len(token) - 1 <= limit
    /\ SubSeq(bytes, k, k + Len(token) - 1) = token
===============================================================================
