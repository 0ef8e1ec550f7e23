------------------------- MODULE FirmwareTickProofs -------------------------
(***************************************************************************)
(* The schedule of the firmware's loop() for every word size, interval and *)
(* bound on the lag.                                                       *)
(***************************************************************************)
EXTENDS FirmwareTick, TLAPS

(* The words and the real lag belong together: both are words, and the clock is
   the due time plus the lag, up to a whole number of wraps. *)
TickInv ==
    /\ millis \in 0..(W - 1) /\ next_tick \in 0..(W - 1)
    /\ lag \in (-TICK_INTERVAL_MS)..MaxLag
    /\ \E wraps \in Int : millis = next_tick + lag + wraps * W

(* What % does, without %. *)
LEMMA Residue ==
    ASSUME NEW x \in Int
    PROVE  /\ x % W \in 0..(W - 1)
           /\ \E q \in Int : x = q * W + (x % W)
  <1>1. W \in Nat /\ W > 0
    BY TickAssumption
  <1>2. x % W \in 0..(W - 1)
    BY <1>1
  <1>3. x = (x \div W) * W + (x % W) /\ x \div W \in Int
    BY <1>1
  <1> QED BY <1>2, <1>3

(* A residue is unique. *)
LEMMA ResidueUnique ==
    ASSUME NEW r \in 0..(W - 1), NEW s \in 0..(W - 1), NEW k \in Int, r = s + k * W
    PROVE  r = s
  <1>1. W \in Nat /\ W > 0
    BY TickAssumption
  <1>2. ~(k >= 1)
    <2> SUFFICES ASSUME k >= 1 PROVE FALSE
      OBVIOUS
    <2>1. (k - 1) * W >= 0
      BY <1>1
    <2>2. k * W = (k - 1) * W + W
      BY <1>1
    <2> QED BY <1>1, <2>1, <2>2
  <1>3. ~(k <= -1)
    <2> SUFFICES ASSUME k <= -1 PROVE FALSE
      OBVIOUS
    <2>1. (-1 - k) * W >= 0
      BY <1>1
    <2>2. k * W = -((-1 - k) * W) - W
      BY <1>1
    <2> QED BY <1>1, <2>1, <2>2
  <1> QED BY <1>1, <1>2, <1>3

(* The signed difference of the two words is the lag: a lag of less than half
   the word, either way, survives every wrap. *)
LEMMA DeltaIsLag ==
    ASSUME TickInv
    PROVE  SignedDelta(millis, next_tick) = lag
  <1> DEFINE d == (millis - next_tick) % W
             h == W \div 2
  <1>1. /\ W \in Nat /\ W > 0 /\ h \in Nat /\ 2 * h <= W
        /\ TICK_INTERVAL_MS \in Nat /\ TICK_INTERVAL_MS <= h /\ MaxLag \in Nat /\ MaxLag < h
    BY TickAssumption
  <1>2. PICK wraps \in Int : millis = next_tick + lag + wraps * W
    BY DEF TickInv
  <1>3. millis \in Int /\ next_tick \in Int /\ lag \in Int
    BY <1>1 DEF TickInv
  <1>4. d \in 0..(W - 1) /\ \E q \in Int : millis - next_tick = q * W + d
    <2>1. millis - next_tick \in Int
      BY <1>3
    <2> QED BY <2>1, Residue, Zenon
  <1>5. PICK q \in Int : millis - next_tick = q * W + d
    BY <1>4
  <1>6. wraps * W \in Int /\ q * W \in Int /\ (wraps - q) * W = wraps * W - q * W
    BY <1>1
  <1> HIDE DEF d, h
  <1>7. CASE lag >= 0
    <2>1. lag \in 0..(W - 1) /\ lag < h
      BY <1>1, <1>7 DEF TickInv
    <2>2. d = lag + (wraps - q) * W
      BY <1>2, <1>3, <1>4, <1>5, <1>6
    <2>3. d = lag
      BY <1>4, <2>1, <2>2, ResidueUnique
    <2> QED BY <2>1, <2>3 DEF SignedDelta, d, h
  <1>8. CASE lag < 0
    <2>1. lag + W \in 0..(W - 1) /\ lag + W >= h
      BY <1>1, <1>3, <1>8 DEF TickInv
    <2>2. (wraps - q - 1) * W = wraps * W - q * W - W
      BY <1>1
    <2>3. d = (lag + W) + (wraps - q - 1) * W
      BY <1>1, <1>2, <1>3, <1>4, <1>5, <1>6, <2>2
    <2>4. d = lag + W
      BY <1>4, <2>1, <2>3, ResidueUnique
    <2> QED BY <1>1, <1>3, <2>1, <2>4 DEF SignedDelta, d, h
  <1> QED BY <1>3, <1>7, <1>8

(* Power-up, and every reset, starts the schedule in step with the clock. *)
LEMMA BootInStep ==
    ASSUME NEW m \in BootTimes
    PROVE  /\ m \in 0..(W - 1) /\ 0 \in 0..(W - 1)
           /\ m \in (-TICK_INTERVAL_MS)..MaxLag
           /\ m = 0 + m + 0 * W
  BY TickAssumption

(* A call of loop(), however long it blocks, keeps the words in step. *)
LEMMA PassInStep ==
    ASSUME TickInv, NEW d \in ShortPasses \cup Blocked, Pass(d)
    PROVE  TickInv'
  <1> DEFINE due == lag >= 0
             used == IF due THEN TICK_INTERVAL_MS ELSE 0
  <1>1. /\ W \in Nat /\ W > 0 /\ TICK_INTERVAL_MS \in Nat /\ MaxLag \in Nat
        /\ d \in Nat
    BY TickAssumption
  <1>2. millis \in Int /\ next_tick \in Int /\ lag \in Int /\ used \in Int
    BY <1>1 DEF TickInv
  <1>3. IsDue(millis, next_tick) <=> due
    BY DeltaIsLag DEF IsDue
  <1>4. /\ millis' = (millis + d) % W
        /\ next_tick' = (next_tick + used) % W
        /\ lag' = lag + d - used
        /\ lag' <= MaxLag
    <2>1. next_tick' = IF due THEN (next_tick + TICK_INTERVAL_MS) % W ELSE next_tick
      BY <1>3 DEF Pass, NextTick
    <2>2. next_tick = (next_tick + 0) % W
      <3>1. (next_tick + 0) % W \in 0..(W - 1)
        BY <1>2, Residue
      <3>2. PICK q \in Int : next_tick + 0 = q * W + ((next_tick + 0) % W)
        BY <1>2, Residue
      <3> QED BY <1>1, <3>1, <3>2, ResidueUnique DEF TickInv
    <2> QED BY <1>3, <2>1, <2>2 DEF Pass
  <1>5. /\ millis' \in 0..(W - 1)
        /\ next_tick' \in 0..(W - 1)
        /\ \E q \in Int : millis + d = q * W + millis'
        /\ \E q \in Int : next_tick + used = q * W + next_tick'
    <2>1. millis + d \in Int /\ next_tick + used \in Int
      BY <1>1, <1>2
    <2> HIDE DEF used
    <2>2. /\ (millis + d) % W \in 0..(W - 1)
          /\ \E q \in Int : millis + d = q * W + ((millis + d) % W)
      BY <2>1, Residue, Zenon
    <2>3. /\ (next_tick + used) % W \in 0..(W - 1)
          /\ \E q \in Int : next_tick + used = q * W + ((next_tick + used) % W)
      BY <2>1, Residue, Zenon
    <2> QED BY <1>4, <2>2, <2>3, Zenon
  <1>6. lag' \in (-TICK_INTERVAL_MS)..MaxLag
    BY <1>1, <1>2, <1>4 DEF TickInv
  <1>7. \E wraps \in Int : millis' = next_tick' + lag' + wraps * W
    <2>1. PICK a \in Int : millis = next_tick + lag + a * W
      BY DEF TickInv
    <2>2. PICK b \in Int : millis + d = b * W + millis'
      BY <1>5
    <2>3. PICK c \in Int : next_tick + used = c * W + next_tick'
      BY <1>5
    <2>4. /\ (a - b + c) * W = a * W - b * W + c * W
          /\ a * W \in Int /\ b * W \in Int /\ c * W \in Int /\ a - b + c \in Int
      BY <1>1
    <2>5. millis' \in Int /\ next_tick' \in Int /\ lag' \in Int
      BY <1>1, <1>5, <1>6
    <2> HIDE DEF used
    <2>6. millis' = next_tick' + lag' + (a - b + c) * W
      BY <1>1, <1>2, <1>4, <2>1, <2>2, <2>3, <2>4, <2>5
    <2> QED BY <2>4, <2>6
  <1> QED BY <1>5, <1>6, <1>7 DEF TickInv

(* The words and the lag stay in step for ever. *)
THEOREM TickInvariant == Spec => []TickInv
  <1>1. Init => TickInv
    BY BootInStep DEF Init, TickInv
  <1>2. TickInv /\ [Next]_vars => TickInv'
    <2> SUFFICES ASSUME TickInv, [Next]_vars PROVE TickInv'
      OBVIOUS
    <2>1. CASE Loop
      BY <2>1, PassInStep DEF Loop
    <2>2. CASE Reset
      BY <2>2, BootInStep DEF Reset, TickInv
    <2>3. CASE UNCHANGED vars
      BY <2>3 DEF vars, TickInv
    <2> QED BY <2>1, <2>2, <2>3 DEF Next
  <1> QED BY <1>1, <1>2, PTL DEF Spec

(* "The signed delta survives the uint32_t millis() wrap", for every word size
   and every interval and delay of less than half of it. *)
THEOREM ScheduleSafety == Spec => []OnSchedule
  <1>1. TickInv => OnSchedule
    BY DeltaIsLag, TickAssumption DEF TickInv, OnSchedule
  <1> QED BY <1>1, TickInvariant, PTL
=============================================================================
