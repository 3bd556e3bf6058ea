-------------------------------- MODULE Ticks -------------------------------
(***************************************************************************)
(* The counter of kernel/klib/uptime/uptime.c, a uint32_t that the timer   *)
(* interrupt increments: 497 days to the wrap.                             *)
(***************************************************************************)
EXTENDS Integers

CONSTANTS
  W   \* the counter counts modulo W (2^32 in the code)

ASSUME WAssumption == W \in Nat \ {0, 1}

\* pit_uptime_handler's ++ticks.
Ticked(t) == (t + 1) % W
=============================================================================
