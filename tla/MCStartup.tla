------------------------------ MODULE MCStartup ------------------------------
(***************************************************************************)
(* Instances of Startup for TLC.  2^32 is scaled down to 2^24, which holds *)
(* every range of a setting, and 2^63 to 2^27.                             *)
(***************************************************************************)
EXTENDS Startup

MCIntRange == 16777216
MCLongMax == 134217727

Set(key, value) == [key |-> key, value |-> value]

(***************************************************************************)
(* No file; the file of the package; ballooning off and on, with the       *)
(* shortest poll time and a timeout that is no whole number of seconds;    *)
(* values just outside their ranges, and a malformed line before a good    *)
(* one; a percentage that wraps around to a negative number and one that   *)
(* wraps around to 100; the two numbers that stand for something else; a   *)
(* number beyond a long.                                                   *)
(***************************************************************************)
MCFiles ==
  {NoFile,
   <<Set("balloon_target_used_percent", 130),
     Set("balloon_target_max_total_percent", 50)>>,
   <<Set("host_info_poll_time", 100), Set("init_sem_wait_timeout", 10999),
     Set("balloon_enable", 0), Set("balloon_enable", 1)>>,
   <<Set("host_info_poll_time", 99), Set("init_sem_wait_timeout", 3600001),
     Set("balloon_enable", -3), Set("balloon_target_used_percent", 119),
     Set("balloon_target_max_total_percent", Malformed),
     Set("balloon_target_max_total_percent", 100)>>,
   <<Set("balloon_target_used_percent", 16777216 - 7),
     Set("balloon_target_max_total_percent", 16777216 + 100)>>,
   <<Set("balloon_target_max_total_percent", -1)>>,
   <<Set("host_info_poll_time", -2)>>,
   <<Set("init_sem_wait_timeout", 134217728)>>}

HangFiles == {<<>>}

===============================================================================
