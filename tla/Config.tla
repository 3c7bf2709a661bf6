-------------------------------- MODULE Config --------------------------------
(***************************************************************************)
(* /etc/memlinkd.conf as memlink_driver.c reads it.  A line is what the    *)
(* code tells apart: which of the five keys it begins with (strncmp with   *)
(* the key's length, so that a longer name with that beginning counts too, *)
(* and a comment never does) and the integer behind the `=', or Malformed  *)
(* when there is no `=' or anything else behind it.                        *)
(***************************************************************************)
EXTENDS Integers, Sequences

CONSTANTS
  INT_RANGE,  \* 2^32: an int holds INT_RANGE values
  LONG_MAX,   \* 2^63 - 1
  Malformed,  \* the value of a line that CheckAllDigits refuses
  NoFile      \* the file cannot be opened

ASSUME ConfigAssumption ==
  /\ INT_RANGE \in Nat /\ INT_RANGE % 2 = 0
  /\ INT_RANGE > 7200000
  /\ LONG_MAX \in Nat /\ LONG_MAX > INT_RANGE
  /\ Malformed \notin Int
  /\ NoFile \notin Seq([key : STRING, value : Int \cup {Malformed}])

(* The settings, in the order in which LoadCfgFile reads them. *)
KeyOrder == <<"host_info_poll_time", "init_sem_wait_timeout", "balloon_enable",
              "balloon_target_used_percent",
              "balloon_target_max_total_percent">>

Keys == {KeyOrder[i] : i \in 1 .. 5}

Default ==
  [host_info_poll_time              |-> 1000,
   init_sem_wait_timeout            |-> 600000,
   balloon_enable                   |-> 1,
   balloon_target_used_percent      |-> 130,
   balloon_target_max_total_percent |-> 50]

Lowest ==
  [host_info_poll_time              |-> 100,
   init_sem_wait_timeout            |-> 10000,
   balloon_enable                   |-> 0,
   balloon_target_used_percent      |-> 120,
   balloon_target_max_total_percent |-> 0]

Highest ==
  [host_info_poll_time              |-> 6000,
   init_sem_wait_timeout            |-> 3600000,
   balloon_enable                   |-> 1,
   balloon_target_used_percent      |-> 10000,
   balloon_target_max_total_percent |-> 100]

CFGOPEN_OR_MEMSET_ERROR == -2

(* The values of an int. *)
IntValues == -(INT_RANGE \div 2) .. INT_RANGE \div 2 - 1

(* A long assigned to an int: the low bits, as two's complement. *)
ToInt(v) == ((v + INT_RANGE \div 2) % INT_RANGE) - INT_RANGE \div 2

(***************************************************************************)
(* GetIntegerValueFromCfg: the first line of the key that has an integer   *)
(* decides; malformed ones are passed over.  strtol reports a number that  *)
(* does not fit a long (ERANGE).  It is assigned to an int first, so the   *)
(* comparison with INT_MIN and INT_MAX refuses nothing.  (errno is not     *)
(* reset before, but an ERANGE of an earlier key has ended LoadCfgFile.)   *)
(***************************************************************************)
GetIntegerValueFromCfg(file, key) ==
  LET usable == {i \in DOMAIN file : /\ file[i].key = key
                                     /\ file[i].value # Malformed}
      value  == file[CHOOSE i \in usable : \A j \in usable : i <= j].value
  IN  IF file = NoFile THEN CFGOPEN_OR_MEMSET_ERROR
      ELSE IF usable = {} THEN -1
      ELSE IF value \in -LONG_MAX - 1 .. LONG_MAX THEN ToInt(value)
      ELSE CFGOPEN_OR_MEMSET_ERROR

(* A bug to detect: 0 stands for a missing setting too, as with atoi. *)
ZeroMeansUnset(key, value) == IF value <= 0 THEN Default[key] ELSE value

(* GET_INT_VALUE_FROM_CFG: -1 stands for a setting that is not there. *)
OrDefault(key, value) == IF value = -1 THEN Default[key] ELSE value

(* The end of LoadCfgFile: a value out of its range leaves the setting. *)
InRangeOnly(cfg, values) ==
  [k \in Keys |-> IF values[k] \in Lowest[k] .. Highest[k]
                  THEN values[k] ELSE cfg[k]]

===============================================================================
