----------------------------- MODULE BalloonMath -----------------------------
(***************************************************************************)
(* The arithmetic of memlinkd's balloon policy (memlink_core.c, util.c):   *)
(* the thresholds, the unsigned comparisons, the memory pressure of a      *)
(* guest and the size a guest is ballooned to.  All sizes are in KiB.      *)
(*                                                                         *)
(* The #defines keep the values they have in the code.  The two            *)
(* percentages are the configuration parameters of /etc/memlinkd.conf.     *)
(***************************************************************************)
EXTENDS Integers

CONSTANTS
  WORD,                            \* 2^64 in the code: the modulus of uint64_t
  g_balloonTargetUsedPercent,      \* balloon_target_used_percent
  g_balloonTargetMaxTotalPercent   \* balloon_target_max_total_percent

(***************************************************************************)
(* What LoadCfgFile leaves in the two percentages (memlink_driver.c 538,   *)
(* 543): a value outside these ranges is ignored and the default kept.     *)
(***************************************************************************)
ASSUME ConfigAssumption ==
  /\ WORD \in Nat \ {0}
  /\ g_balloonTargetUsedPercent \in 120 .. 10000
  /\ g_balloonTargetMaxTotalPercent \in 0 .. 100

UPPER_LIMIT == 50
LOWER_LIMIT == 30
LOW_WATER_MARK == 1024
LOW_BALLOON_SIZE_KB == 300 * 1024
BALLON_TARGET_RESERVED_KBYTES == 1024 * 1024
BALLOON_BACK_RESERVED_SIZE_KB == 2 * 1024

MAX(a, b) == IF a > b THEN a ELSE b
MIN(a, b) == IF a < b THEN a ELSE b
labs(x) == IF x < 0 THEN -x ELSE x

(***************************************************************************)
(* a - b where one operand is a uint64_t: the difference wraps around.     *)
(* For a and b in 0 .. WORD - 1.                                           *)
(***************************************************************************)
Sub64(a, b) == IF a >= b THEN a - b ELSE (a - b) + WORD

(* The low 64 bits of n as an int64_t, where n is at least -WORD / 2. *)
Signed64(n) == IF 2 * n >= WORD THEN n - WORD ELSE n

(***************************************************************************)
(* guestUsedMemory: MemTotal - MemAvailable, or MemTotal - MemFree when    *)
(* the guest does not report MemAvailable.                                 *)
(***************************************************************************)
GuestUsed(available, usable, unused) ==
  Sub64(available, IF usable # 0 THEN usable ELSE unused)

(***************************************************************************)
(* guestUsagePercent > UPPER_LIMIT and guestUsagePercent < LOWER_LIMIT.    *)
(* The code computes the percentage in a float; the model is exact, so the *)
(* two may differ by the rounding of a value within 2^-23 of a limit.      *)
(***************************************************************************)
UsageAboveUpper(used, total) == used * 100 > UPPER_LIMIT * total
UsageBelowLower(used, total) == used * 100 < LOWER_LIMIT * total

(* A bug to detect: memory the guest kernel does not manage is left out. *)
TargetWithoutUnmanaged(memory, total, used) ==
  MIN(MAX(MAX((used * g_balloonTargetUsedPercent) \div 100,
              BALLON_TARGET_RESERVED_KBYTES),
          (memory * g_balloonTargetMaxTotalPercent) \div 100),
      memory)

(* A bug to detect: the reserve of 1 GiB is left out. *)
TargetWithoutReserve(memory, total, used) ==
  MIN(MAX((((memory - total) + used) * g_balloonTargetUsedPercent) \div 100,
          (memory * g_balloonTargetMaxTotalPercent) \div 100),
      memory)

(***************************************************************************)
(* balloonTarget of a guest with `memory' KiB of which the guest kernel    *)
(* manages `total' and uses `used'.  memparam.minGuarantee is 0 in every   *)
(* VirtualMachineInfo (nothing assigns it), so its MAX is dropped.         *)
(***************************************************************************)
BalloonTarget(memory, total, used) ==
  LET inUse    == Signed64((memory - total) + used)
      scaled   == MAX((inUse * g_balloonTargetUsedPercent) \div 100,
                      BALLON_TARGET_RESERVED_KBYTES)
      floored  == MAX(scaled, (memory * g_balloonTargetMaxTotalPercent) \div 100)
  IN  MIN(floored, memory)

(* A bug to detect: all the memory is given back at once. *)
BackInOneStep(memory) == memory

(* The target of the first of the two steps that give the memory back. *)
BackTarget(memory) == memory - BALLOON_BACK_RESERVED_SIZE_KB
==============================================================================
