-------------------------------- MODULE Sleep -------------------------------
(***************************************************************************)
(* sleep (kernel/utils.c) over the tick counter of uptime.c: a loop that   *)
(* compares a deadline, ticks + n, with the counter, both uint32_t.  The   *)
(* timer interrupt may fall between any two steps of it.                   *)
(***************************************************************************)
EXTENDS Ticks

VARIABLES
  ticks,   \* the counter
  pc,      \* where sleep is
  now,     \* sleep's last reading
  dest,    \* its deadline
  asked,   \* its argument
  start,   \* history: the counter when the deadline was computed
  elapsed, \* history: ticks since then
  polled   \* the loop has read the counter since the last tick

vars == <<ticks, pc, now, dest, asked, start, elapsed, polled>>

Init ==
  /\ ticks = 0
  /\ pc = "awake"
  /\ now = 0 /\ dest = 0 /\ asked = 0
  /\ start = 0 /\ elapsed = 0
  /\ polled = TRUE

\* Bound: more than any sleep may last.
MaxElapsed == W + 1

Asleep == pc \in {"test", "read"}

\* pit_uptime_handler.  The loop goes round many times between two ticks.
PitUptimeHandler ==
  /\ Asleep => polled
  /\ ticks' = Ticked(ticks)
  /\ elapsed' = IF Asleep /\ elapsed < MaxElapsed THEN elapsed + 1 ELSE elapsed
  /\ polled' = IF Asleep THEN FALSE ELSE polled
  /\ UNCHANGED <<pc, now, dest, asked, start>>

Call(n) ==
  /\ pc = "awake"
  /\ asked' = n
  /\ now' = ticks
  /\ dest' = (ticks + n) % W
  /\ start' = ticks
  /\ elapsed' = 0
  /\ polled' = TRUE
  /\ pc' = "test"
  /\ UNCHANGED ticks

\* Mutant of Test: the loop goes on at the deadline.
TestInclusive ==
  /\ pc = "test"
  /\ pc' = IF dest >= now THEN "read" ELSE "done"
  /\ UNCHANGED <<ticks, now, dest, asked, start, elapsed, polled>>

Test ==
  /\ pc = "test"
  /\ pc' = IF dest > now THEN "read" ELSE "done"
  /\ UNCHANGED <<ticks, now, dest, asked, start, elapsed, polled>>

Read ==
  /\ pc = "read"
  /\ now' = ticks
  /\ polled' = TRUE
  /\ pc' = "test"
  /\ UNCHANGED <<ticks, dest, asked, start, elapsed>>

\* The variables of the call end.
Return ==
  /\ pc = "done"
  /\ pc' = "awake"
  /\ now' = 0 /\ dest' = 0 /\ asked' = 0 /\ start' = 0 /\ elapsed' = 0
  /\ polled' = TRUE
  /\ UNCHANGED ticks

Loop == Test \/ Read \/ Return
Next == PitUptimeHandler \/ Loop \/ \E n \in 0 .. W - 1 : Call(n)

Spec == Init /\ [][Next]_vars

-----------------------------------------------------------------------------
TypeOK ==
  /\ ticks \in 0 .. W - 1 /\ now \in 0 .. W - 1 /\ dest \in 0 .. W - 1
  /\ pc \in {"awake", "test", "read", "done"}
  /\ asked \in 0 .. W - 1 /\ start \in 0 .. W - 1
  /\ elapsed \in 0 .. MaxElapsed
  /\ polled \in BOOLEAN

\* sleep(n) lasts n ticks, or one more when the tick falls after its last
\* look; but a deadline past the end of the counter makes it return at once.
Wrapped == start + asked >= W
SleepLength ==
  pc = "done" => IF Wrapped THEN elapsed <= 1
                            ELSE elapsed \in asked .. asked + 1
=============================================================================
