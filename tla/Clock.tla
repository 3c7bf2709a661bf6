-------------------------------- MODULE Clock --------------------------------
(***************************************************************************)
(* The two places where util.c turns the wall clock into a timespec: the   *)
(* deadline of SemTimeWait and the nap of SleepApprox.  `usec' is tv_usec  *)
(* of gettimeofday; seconds are counted from the tv_sec it returned.       *)
(***************************************************************************)
EXTENDS Integers

S_TO_NS_RATE == 1000000000
MS_TO_NS_RATE == 1000000
MS_TO_US_RATE == 1000
US_TO_NS_RATE == 1000
MS_TO_S_RATE == 1000

(* tv_usec is less than a second. *)
UsecRange == {n \in Nat : n < 1000000}

(* What sem_timedwait and nanosleep accept; they refuse anything else. *)
ValidNsec(ts) == 0 <= ts.tv_nsec /\ ts.tv_nsec < S_TO_NS_RATE

(* A bug to detect: the nanoseconds are not carried into the seconds. *)
DeadlineNoCarry(usec, ms) ==
  [tv_sec  |-> ms \div MS_TO_US_RATE,
   tv_nsec |-> usec * MS_TO_US_RATE + (ms % MS_TO_US_RATE) * MS_TO_NS_RATE]

(* The deadline SemTimeWait computes for a wait of ms. *)
SemDeadline(usec, ms) ==
  LET sec  == ms \div MS_TO_US_RATE
      nsec == usec * MS_TO_US_RATE + (ms % MS_TO_US_RATE) * MS_TO_NS_RATE
  IN  IF nsec >= S_TO_NS_RATE
      THEN [tv_sec |-> sec + 1, tv_nsec |-> nsec - S_TO_NS_RATE]
      ELSE [tv_sec |-> sec, tv_nsec |-> nsec]

(* A bug to detect: the second that is broken into is not given back. *)
NapNoBorrow(usec, seconds) ==
  [tv_sec |-> seconds, tv_nsec |-> (-(usec * US_TO_NS_RATE)) % S_TO_NS_RATE]

(***************************************************************************)
(* The nap of SleepApprox: to the beginning of a second of the wall clock. *)
(* Its loop runs at most once, as usec is less than a second.              *)
(***************************************************************************)
SleepApprox(usec, seconds) ==
  LET nsec == -(usec * US_TO_NS_RATE)
  IN  IF nsec < 0
      THEN [tv_sec |-> seconds - 1, tv_nsec |-> nsec + S_TO_NS_RATE]
      ELSE [tv_sec |-> seconds, tv_nsec |-> nsec]
===============================================================================
