------------------------------ MODULE RlcTimer ------------------------------
(***************************************************************************)
(* The frame-counting timers of the RLC entities: t-Reordering of UM        *)
(* (rlc_um_dar.c) and, with the same fields and the same test, the timers   *)
(* of AM.  A timer keeps the frame it was started in and the frame it ends  *)
(* in as 32-bit numbers; a caller compares them with its own frame number.  *)
(*                                                                         *)
(* In the eNB of the softmodem the receiving procedures pass frame_rx and   *)
(* the transmitting ones frame_tx, which is up to one frame ahead; both     *)
(* count modulo 1024.  oaisim reduces its count by the length of the        *)
(* simulation and passes frame or frame + 1.  The UE of the softmodem does  *)
(* not reduce the count, which then wraps with the timer's fields.          *)
(***************************************************************************)
EXTENDS Integers

CONSTANTS
  IntModulo,    \* uint32_t arithmetic: 2^32
  FrameModulo,  \* where the callers' frame counters wrap: 1024 in the eNB
  TimeOut,      \* time_out, in frames
  Skew,         \* how far frame_tx may be ahead of frame_rx: 1 in the eNB
  MaxElapsed    \* bound: a running timer is polled at least this often

ASSUME ModuloAssumption ==
  /\ FrameModulo \in Nat \ {0} /\ IntModulo \in Nat /\ FrameModulo <= IntModulo
ASSUME DurationAssumption ==
  /\ TimeOut \in 1 .. IntModulo - 1 /\ Skew \in Nat
  /\ MaxElapsed \in Nat /\ TimeOut + Skew <= MaxElapsed /\ MaxElapsed + Skew < FrameModulo

VARIABLES
  frame,    \* frame_rx
  timer,    \* running, frame_start, frame_time_out
  elapsed   \* frames since the timer was started, as a clock would count

timer_vars == <<frame, timer, elapsed>>

\* A caller, by how far its frame number is ahead of frame_rx.
Callers == 0 .. Skew

\* Mutant of Wrap: the counter is not wrapped.
WrapNever(x, modulo) == x

Wrap(x, modulo) == IF x >= modulo THEN x - modulo ELSE x

FrameOf(c) == Wrap(frame + c, FrameModulo)

TimerOff == [running |-> FALSE, frame_start |-> 0, frame_time_out |-> 0]

\* Mutants of Expired: case 1 blind to a counter that wrapped; a caller's
\* frame compared with the start alone.
ExpiredUnwrapped(f) ==
  \/ timer.frame_start < timer.frame_time_out /\ f >= timer.frame_time_out
  \/ /\ timer.frame_start > timer.frame_time_out
     /\ f < timer.frame_start /\ f >= timer.frame_time_out
ExpiredSinceStart(f) ==
  \/ timer.frame_start < timer.frame_time_out /\ f # timer.frame_start
  \/ /\ timer.frame_start > timer.frame_time_out
     /\ f < timer.frame_start /\ f >= timer.frame_time_out

\* The test of rlc_um_check_timer_dar_time_out, case 1 and case 2.
Expired(f) ==
  \/ /\ timer.frame_start < timer.frame_time_out
     /\ f >= timer.frame_time_out \/ f < timer.frame_start
  \/ /\ timer.frame_start > timer.frame_time_out
     /\ f < timer.frame_start /\ f >= timer.frame_time_out

TimerInit == frame \in 0 .. FrameModulo - 1 /\ timer = TimerOff /\ elapsed = 0

Started(c) ==
  /\ timer' = [running |-> TRUE, frame_start |-> FrameOf(c),
               frame_time_out |-> Wrap(FrameOf(c) + TimeOut, IntModulo)]
  /\ elapsed' = 0

\* Reception of a PDU leaves a gap: rlc_um_start_timer_reordering.
Start == ~timer.running /\ Started(0) /\ UNCHANGED frame

\* rlc_um_stop_and_reset_timer_reordering: VR(UR) passed VR(UX).
Stop == timer.running /\ timer' = TimerOff /\ elapsed' = 0 /\ UNCHANGED frame

\* A poll that finds the timer expired resets it, and starts it again if a
\* PDU is still awaited.
Expire(c) ==
  /\ timer.running /\ Expired(FrameOf(c))
  /\ Started(c) \/ (timer' = TimerOff /\ elapsed' = 0)
  /\ UNCHANGED frame

\* The next frame begins; the MAC polls a running timer every TTI.
Tick ==
  /\ timer.running => elapsed < MaxElapsed
  /\ frame' = Wrap(frame + 1, FrameModulo)
  /\ elapsed' = IF timer.running THEN elapsed + 1 ELSE 0
  /\ UNCHANGED timer

TimerNext == Tick \/ Start \/ Stop \/ \E c \in Callers : Expire(c)

TimerSpec == TimerInit /\ [][TimerNext]_timer_vars

-----------------------------------------------------------------------------
(* Properties.                                                              *)

\* The timer's fields are frame numbers and 32-bit numbers.
TimerTypeOK ==
  /\ frame \in 0 .. FrameModulo - 1 /\ elapsed \in 0 .. MaxElapsed
  /\ timer \in [running : BOOLEAN, frame_start : 0 .. IntModulo - 1,
                frame_time_out : 0 .. IntModulo - 1]

\* "Configured timer duration in frames": no caller's poll finds the timer
\* expired before that many frames have passed, the callers' skew allowed for.
NeverEarly ==
  timer.running /\ elapsed + Skew < TimeOut => \A c \in Callers : ~Expired(FrameOf(c))

\* Where the duration is kept to: no poll finds the timer expired early if
\* the frame counters did not wrap since it was started and the caller is not
\* behind the one that started it.
NeverEarlyUnwrapped ==
  /\ timer.running /\ Skew <= elapsed /\ elapsed + Skew < TimeOut
  /\ timer.frame_start + elapsed + Skew < FrameModulo
  => \A c \in Callers : ~Expired(FrameOf(c))

\* Once the duration has passed for every caller any poll finds the timer
\* expired, also when the frame counters or the timer's fields wrapped
\* meanwhile.
NeverLate ==
  timer.running /\ TimeOut + Skew <= elapsed => \A c \in Callers : Expired(FrameOf(c))

\* What ties the timer's fields and frame_rx to the clock: the caller that
\* started the timer was some c frames ahead.
TimerInv ==
  timer.running =>
    /\ timer.frame_start < FrameModulo
    /\ timer.frame_time_out = Wrap(timer.frame_start + TimeOut, IntModulo)
    /\ \E c \in Callers :
         LET f == timer.frame_start + elapsed - c
         IN  frame \in {f, f - FrameModulo, f + FrameModulo}
=============================================================================
