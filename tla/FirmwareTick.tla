---------------------------- MODULE FirmwareTick ----------------------------
(***************************************************************************)
(* firmware/src/main.cpp: the schedule of loop().  millis() and next_tick  *)
(* are words that wrap; loop() is called for ever and may be blocked for   *)
(* any length of time between two reads of the clock.  The stubbed meter   *)
(* reading and the serial output of a tick are left out.                   *)
(***************************************************************************)
EXTENDS Integers

CONSTANTS
    W,                 \* size of a word: 2^32 in the firmware
    TICK_INTERVAL_MS,
    BootTimes,         \* readings of millis() when loop() is first called
    ShortPasses,       \* durations of a call of loop() that is not blocked
    Blocked,           \* durations of one that is
    MaxLag             \* bound: how far the schedule may fall behind

ASSUME TickAssumption ==
    /\ W \in Nat /\ TICK_INTERVAL_MS \in 1..(W \div 2)
    /\ BootTimes \subseteq 0..MaxLag
    /\ ShortPasses \subseteq 0..(TICK_INTERVAL_MS - 1)
    /\ Blocked \subseteq Nat
    /\ MaxLag \in Nat /\ MaxLag < W \div 2

VARIABLES
    millis,      \* the clock, a word
    next_tick,   \* when the next tick is due, a word
    lag          \* history: real time since the next tick of the schedule
                 \* 0, TICK_INTERVAL_MS, 2 * TICK_INTERVAL_MS, ... fell due

vars == <<millis, next_tick, lag>>

(* (int32_t)(now - next): the difference of two words read as a signed one. *)
SignedDelta(now, next) ==
    LET d == (now - next) % W
    IN  IF d < W \div 2 THEN d ELSE d - W

BugDirectCompare(now, next) == now >= next

IsDue(now, next) == SignedDelta(now, next) >= 0

BugFromNow == (millis + TICK_INTERVAL_MS) % W

(* next_tick += TICK_INTERVAL_MS *)
NextTick == (next_tick + TICK_INTERVAL_MS) % W

(* Power-up: next_tick is a static, millis() has run since the reset. *)
Init ==
    /\ millis \in BootTimes
    /\ next_tick = 0
    /\ lag = millis

(* One call of loop(), after which d milliseconds go by until the next one. *)
Pass(d) ==
    /\ next_tick' = IF IsDue(millis, next_tick) THEN NextTick ELSE next_tick
    /\ lag' = lag + d - (IF IsDue(millis, next_tick) THEN TICK_INTERVAL_MS ELSE 0)
    /\ lag' <= MaxLag
    /\ millis' = (millis + d) % W

(* The power fails or the watchdog bites: all of it starts over. *)
Reset ==
    /\ millis' \in BootTimes
    /\ next_tick' = 0
    /\ lag' = millis'

Loop == \E d \in ShortPasses \cup Blocked : Pass(d)

Next == Loop \/ Reset

(* The Arduino core calls loop() again and again. *)
Spec == Init /\ [][Next]_vars /\ WF_vars(Loop)

-----------------------------------------------------------------------------
(* "The signed delta survives the uint32_t millis() wrap": the words tell how late
   the schedule really is, whichever of the two has wrapped, so nothing drifts, no
   tick is put off and none fires before its time, however many were missed. *)
OnSchedule ==
    /\ SignedDelta(millis, next_tick) = lag
    /\ lag >= -TICK_INTERVAL_MS

(* The missed ticks of a blocked loop are made up for: once loop() is not blocked
   and the device stays up, the schedule is again and again ahead of the clock. *)
CatchesUp ==
    <>[][\E d \in ShortPasses : Pass(d)]_vars => []<>(lag < 0)
=============================================================================
