------------------------------- MODULE Ticks -------------------------------
(***************************************************************************)
(* The arithmetic of the scheduler (engine/scheduler.py) and of the rings'   *)
(* capacity (engine/rings.py).  Times are monotonic and may be relative to   *)
(* any instant.                                                             *)
(***************************************************************************)
EXTENDS Integers

\* DueTable.due: a monitor that is due runs once, its schedule moves past now
\* on its own grid, and the slots that are jumped over count as overruns.
IsDue(next, now)              == next <= now
Overruns(next, now, interval) == (now - next) \div interval
Advanced(next, now, interval) == next + (Overruns(next, now, interval) + 1) * interval

\* Scheduler.run: a loop that woke at now for the tick planned at next plans
\* the one after it; a tick that is past already is planned from now.
NextTick(next, now, tick) == IF next + tick <= now THEN now + tick ELSE next + tick

\* RingStore.configure: a ring that a window of w seconds is read from.
\* A ring of one point per interval.
CapacityPerInterval(w, interval) == (w + interval - 1) \div interval
Ceiling(w, interval)  == (w + interval - 1) \div interval
Capacity(w, interval) == Ceiling(w, interval) + 2
=============================================================================
