--------------------------- MODULE RlcTimerProofs ---------------------------
(* For every width of the callers' frame counters, every skew between them    *)
(* and every duration: a timer of the RLC entities is never found running     *)
(* too late, and found expired early only where a counter wrapped or the      *)
(* caller is behind the one that started the timer.                           *)
EXTENDS RlcTimer, TLAPS

\* A caller's frame number is one of the counter's.
LEMMA FrameOfType ==
  ASSUME TimerTypeOK, NEW c \in Callers
  PROVE  FrameOf(c) \in 0 .. FrameModulo - 1
BY ModuloAssumption, DurationAssumption DEF TimerTypeOK, FrameOf, Wrap, Callers

\* The fields of the timer and the counters stay in range.
LEMMA TimerTypeStep ==
  ASSUME TimerTypeOK, [TimerNext]_timer_vars
  PROVE  TimerTypeOK'
<1> USE ModuloAssumption, DurationAssumption DEF TimerTypeOK, Wrap, TimerOff
<1>1. CASE Tick
  BY <1>1 DEF Tick
<1>2. CASE Start
  BY <1>2 DEF Start, Started, FrameOf
<1>3. CASE Stop
  BY <1>3 DEF Stop
<1>4. ASSUME NEW c \in Callers, Expire(c) PROVE TimerTypeOK'
  <2>1. FrameOf(c) \in 0 .. FrameModulo - 1
    BY <1>4, FrameOfType
  <2>2. CASE Started(c)
    BY <1>4, <2>1, <2>2 DEF Expire, Started
  <2>3. CASE timer' = TimerOff /\ elapsed' = 0
    BY <1>4, <2>3 DEF Expire
  <2> QED BY <1>4, <2>2, <2>3 DEF Expire
<1>5. CASE UNCHANGED timer_vars
  BY <1>5 DEF timer_vars
<1> QED BY <1>1, <1>2, <1>3, <1>4, <1>5 DEF TimerNext

\* Every step keeps frame_start, frame_time_out and frame_rx in line with the
\* clock, up to the skew of the caller that started the timer.
LEMMA TimerInvStep ==
  ASSUME TimerTypeOK, TimerInv, [TimerNext]_timer_vars
  PROVE  TimerInv'
<1> USE ModuloAssumption, DurationAssumption DEF TimerTypeOK
<1>1. CASE Tick
  <2> SUFFICES ASSUME timer.running PROVE TimerInv'
    BY <1>1 DEF Tick, TimerInv
  <2>1. PICK c \in Callers :
          LET f == timer.frame_start + elapsed - c
          IN  frame \in {f, f - FrameModulo, f + FrameModulo}
    BY DEF TimerInv
  <2>2. elapsed' = elapsed + 1 /\ elapsed < MaxElapsed /\ timer' = timer
    BY <1>1 DEF Tick
  <2>3. frame' = IF frame + 1 >= FrameModulo THEN frame + 1 - FrameModulo ELSE frame + 1
    BY <1>1 DEF Tick, Wrap
  <2>4. timer.frame_start \in 0 .. FrameModulo - 1 /\ c \in 0 .. Skew
    BY DEF TimerInv, Callers
  <2>5. LET f == timer.frame_start + elapsed' - c
        IN  frame' \in {f, f - FrameModulo, f + FrameModulo}
    BY <2>1, <2>2, <2>3, <2>4
  <2> QED BY <2>2, <2>5 DEF TimerInv, Callers
<1>2. CASE Start
  <2>1. FrameOf(0) = frame
    BY DEF FrameOf, Wrap
  <2>2. 0 \in Callers /\ frame = frame + 0 - 0
    BY DEF Callers
  <2> QED BY <1>2, <2>1, <2>2 DEF Start, Started, TimerInv
<1>3. CASE Stop
  BY <1>3 DEF Stop, TimerOff, TimerInv
<1>4. ASSUME NEW c \in Callers, Expire(c) PROVE TimerInv'
  <2>1. CASE Started(c)
    <3>1. c \in 0 .. Skew /\ FrameOf(c) \in 0 .. FrameModulo - 1
      BY FrameOfType DEF Callers
    <3>2. frame \in {FrameOf(c) + 0 - c, FrameOf(c) + 0 - c + FrameModulo}
      BY <3>1 DEF FrameOf, Wrap
    <3>3. /\ timer'.frame_start = FrameOf(c) /\ elapsed' = 0 /\ frame' = frame
          /\ timer'.frame_time_out = Wrap(FrameOf(c) + TimeOut, IntModulo)
      BY <1>4, <2>1 DEF Expire, Started
    <3> QED BY <3>1, <3>2, <3>3 DEF TimerInv, Callers
  <2>2. CASE timer' = TimerOff
    BY <2>2 DEF TimerOff, TimerInv
  <2> QED BY <1>4, <2>1, <2>2 DEF Expire
<1>5. CASE UNCHANGED timer_vars
  BY <1>5 DEF timer_vars, TimerInv, Wrap
<1> QED BY <1>1, <1>2, <1>3, <1>4, <1>5 DEF TimerNext

\* What a caller's frame number is, by its own count of the frames since the
\* start: it has wrapped or it has not.
LEMMA FrameSinceStart ==
  ASSUME TimerTypeOK, TimerInv, timer.running, Skew <= elapsed, NEW c \in Callers
  PROVE  \E t \in elapsed - Skew .. elapsed + Skew :
           /\ timer.frame_start + t < FrameModulo => FrameOf(c) = timer.frame_start + t
           /\ timer.frame_start + t >= FrameModulo
                => FrameOf(c) = timer.frame_start + t - FrameModulo
<1> USE ModuloAssumption, DurationAssumption DEF TimerTypeOK
<1>1. PICK d \in Callers :
        LET f == timer.frame_start + elapsed - d
        IN  frame \in {f, f - FrameModulo, f + FrameModulo}
  BY DEF TimerInv
<1>2. timer.frame_start \in 0 .. FrameModulo - 1 /\ c \in 0 .. Skew /\ d \in 0 .. Skew
  BY DEF TimerInv, Callers
<1>3. elapsed + c - d \in elapsed - Skew .. elapsed + Skew
  BY <1>2
<1>4. FrameOf(c) = IF frame + c >= FrameModulo THEN frame + c - FrameModulo ELSE frame + c
  BY <1>2 DEF FrameOf, Wrap
<1>5. FrameOf(c) \in 0 .. FrameModulo - 1
  BY FrameOfType
<1>6. /\ timer.frame_start + (elapsed + c - d) < FrameModulo
          => FrameOf(c) = timer.frame_start + (elapsed + c - d)
      /\ timer.frame_start + (elapsed + c - d) >= FrameModulo
          => FrameOf(c) = timer.frame_start + (elapsed + c - d) - FrameModulo
  BY <1>1, <1>2, <1>4, <1>5
<1> QED BY <1>3, <1>6

\* Type correctness of the timer.
THEOREM TimerTypeCorrect == TimerSpec => []TimerTypeOK
<1>1. TimerInit => TimerTypeOK
  BY ModuloAssumption, DurationAssumption DEF TimerInit, TimerTypeOK, TimerOff
<1>2. TimerTypeOK /\ [TimerNext]_timer_vars => TimerTypeOK'
  BY TimerTypeStep
<1> QED BY <1>1, <1>2, PTL DEF TimerSpec

\* TimerInv holds in every state.
LEMMA TimerInvAlways == TimerSpec => []TimerInv
<1>1. TimerInit => TimerInv
  BY DEF TimerInit, TimerInv, TimerOff
<1>2. TimerTypeOK /\ TimerInv /\ [TimerNext]_timer_vars => TimerInv'
  BY TimerInvStep
<1> QED BY <1>1, <1>2, TimerTypeCorrect, PTL DEF TimerSpec

\* A poll finds the timer expired before its duration has passed only where a
\* frame counter wrapped since the start, or the caller is behind the one that
\* started the timer.
THEOREM TimerEarlyOnlyAtWrap == TimerSpec => []NeverEarlyUnwrapped
<1>1. TimerTypeOK /\ TimerInv => NeverEarlyUnwrapped
  <2> SUFFICES ASSUME TimerTypeOK, TimerInv, timer.running, Skew <= elapsed,
                      elapsed + Skew < TimeOut,
                      timer.frame_start + elapsed + Skew < FrameModulo,
                      NEW c \in Callers
               PROVE  ~Expired(FrameOf(c))
    BY DEF NeverEarlyUnwrapped
  <2> USE ModuloAssumption, DurationAssumption DEF TimerTypeOK
  <2>1. PICK t \in elapsed - Skew .. elapsed + Skew :
          timer.frame_start + t < FrameModulo => FrameOf(c) = timer.frame_start + t
    BY FrameSinceStart
  <2>2. FrameOf(c) = timer.frame_start + t /\ t \in 0 .. TimeOut - 1
    BY <2>1
  <2>3. timer.frame_time_out = Wrap(timer.frame_start + TimeOut, IntModulo)
    BY DEF TimerInv
  <2> QED BY <2>2, <2>3 DEF Wrap, Expired
<1> QED BY <1>1, TimerTypeCorrect, TimerInvAlways, PTL

\* No poll misses the expiry, whichever of the two counters wrapped since the
\* start, the callers' or the timer's fields.
THEOREM TimerNeverLate == TimerSpec => []NeverLate
<1>1. TimerTypeOK /\ TimerInv => NeverLate
  <2> SUFFICES ASSUME TimerTypeOK, TimerInv, timer.running, TimeOut + Skew <= elapsed,
                      NEW c \in Callers
               PROVE  Expired(FrameOf(c))
    BY DEF NeverLate
  <2> USE ModuloAssumption, DurationAssumption DEF TimerTypeOK
  <2>1. PICK t \in elapsed - Skew .. elapsed + Skew :
          /\ timer.frame_start + t < FrameModulo => FrameOf(c) = timer.frame_start + t
          /\ timer.frame_start + t >= FrameModulo
               => FrameOf(c) = timer.frame_start + t - FrameModulo
    BY FrameSinceStart
  <2>2. t \in TimeOut .. FrameModulo - 1
    BY <2>1
  <2>3. timer.frame_time_out = Wrap(timer.frame_start + TimeOut, IntModulo)
    BY DEF TimerInv
  <2> QED BY <2>1, <2>2, <2>3 DEF Wrap, Expired
<1> QED BY <1>1, TimerTypeCorrect, TimerInvAlways, PTL
=============================================================================
