------------------------------ MODULE RlcUmDar ------------------------------
(***************************************************************************)
(* The receiving side of an RLC UM entity: duplicate avoidance and         *)
(* reordering ("DAR"), t-Reordering and SDU reassembly, as coded in        *)
(* openair2/LAYER2/RLC/UM_v9.3.0 (rlc_um_dar.c, rlc_um_reassembly.c and    *)
(* the entry points of rlc_um.c).                                          *)
(*                                                                         *)
(* The entity is called by the MAC threads of the softmodem:               *)
(* rlc_um_mac_data_indication brings a PDU and then polls the timer,       *)
(* rlc_um_mac_status_indication only polls the timer.  The state is        *)
(* guarded by lock_dar_buffer, but the timer is tested before the lock is  *)
(* tried; every loop of the code is one step per iteration, so a thread    *)
(* may be interleaved wherever another one can see it.                     *)
(***************************************************************************)
EXTENDS Integers, Sequences, SequencesExt

CONSTANTS
  SnModulo,     \* rx_sn_modulo: 32 or 1024
  WindowSize,   \* rx_um_window_size: 16 or 512
  T_Reordering, \* t_reordering.time_out, in frames
  Threads,      \* the MAC threads that call into the entity
  RxThreads,    \* those of them that bring PDUs
  Pdus,         \* the UMD PDUs that may arrive, without their SN
  SduMaxSize,   \* RLC_SDU_MAX_SIZE_DATA_PLANE or _CONTROL_PLANE
  MaxLi,        \* RLC_UM_SEGMENT_NB_MAX_LI_PER_PDU
  NoPdu,        \* an empty slot of dar_buffer (NULL)
  NoThread      \* lock_dar_buffer is free

ASSUME WindowAssumption == WindowSize \in Nat \ {0} /\ SnModulo = 2 * WindowSize
ASSUME TimeOutAssumption == T_Reordering \in Nat
ASSUME ThreadsAssumption == Threads # {} /\ RxThreads \subseteq Threads
ASSUME NullAssumption == NoPdu \notin Pdus /\ NoThread \notin Threads

VARIABLES
  vr_ur, vr_ux, vr_uh,  \* the state variables of 36.322
  dar_buffer,           \* the reception buffer, indexed by SN
  t_reordering,         \* running, and whether frame_time_out is reached
  output_sdu,           \* the bytes of output_sdu_in_construction
  missing,              \* reassembly_missing_sn_detected
  last_sn,              \* last_reassemblied_sn
  data_ind,             \* the SDUs this step hands to PDCP (rlc_data_ind)
  lock,                 \* the holder of lock_dar_buffer
  pc,                   \* where each thread is
  rx_pdu,               \* the PDU and SN each thread is processing
  loop                  \* sn and end_snP of rlc_um_try_reassembly

rx_vars    == <<vr_ur, vr_ux, vr_uh, dar_buffer, t_reordering>>
sdu_vars   == <<output_sdu, missing, last_sn, data_ind>>
vars       == <<vr_ur, vr_ux, vr_uh, dar_buffer, t_reordering, output_sdu,
                missing, last_sn, data_ind, lock, pc, rx_pdu, loop>>

SN == 0 .. SnModulo - 1

-----------------------------------------------------------------------------
(* Sequence number arithmetic.                                             *)

\* The C remainder x % rx_sn_modulo for every x the code applies it to,
\* -rx_sn_modulo < x < 2 * rx_sn_modulo: a negative x is left negative.
CRem(x) == IF x >= SnModulo THEN x - SnModulo ELSE x

\* Mutant of Succ: the wrap is forgotten.
SuccUnwrapped(sn) == sn + 1

Succ(sn) == CRem(sn + 1)

\* Mutant of Edge: the window reaches one SN too low.
EdgeTooLow(uh) == CRem(uh - WindowSize - 1 + SnModulo)

\* Lower edge of the reordering window, brought back into SN.
Edge(uh) == IF uh - WindowSize < 0 THEN uh - WindowSize + SnModulo ELSE uh - WindowSize

\* -2: sn below lower; -1: sn above higher; 0: strictly between;
\*  1: sn = lower; 2: sn = higher; 3: all equal.
rlc_um_in_window(uh, lower, sn, higher) ==
  LET modulus == uh - WindowSize
      l == CRem(lower - modulus)
      s == CRem(sn - modulus)
      h == CRem(higher - modulus)
  IN  CASE l > s           -> -2
        [] l <= s /\ h < s -> -1
        [] l = s /\ h = s  -> 3
        [] l = s /\ h > s  -> 1
        [] l < s /\ h = s  -> 2
        [] l < s /\ s < h  -> 0

rlc_um_in_reordering_window(uh, sn) ==
  CRem(sn - (uh - WindowSize)) \in 0 .. WindowSize - 1

-----------------------------------------------------------------------------
(* t-Reordering.  Frames are abstracted to whether the frame counter has    *)
(* reached frame_time_out.                                                  *)

TimerStopped == [running |-> FALSE, due |-> FALSE]
\* Mutant of TimerStarted: the running flag is not set.
TimerStartedIdle == TimerStopped

TimerStarted == [running |-> TRUE,  due |-> FALSE]

-----------------------------------------------------------------------------
(* Reassembly of one PDU.  A PDU is the list of its data fields (one per    *)
(* length indicator, and the remainder); first says that its first byte is  *)
(* the first byte of an SDU, last that its last byte is the last of one:    *)
(* together they are the FI field.                                          *)

\* rlc_um_reassembly: append, or erase the SDU that would not fit.
Appended(sdu, bytes) == IF Len(sdu) + Len(bytes) <= SduMaxSize THEN sdu \o bytes ELSE <<>>

\* rlc_um_read_length_indicators gives up on a PDU with MaxLi indicators.
Readable(pdu) == Len(pdu.data) - 1 < MaxLi

\* Mutant of Completed: a missing PDU is not noticed.
CompletedBlindly(pdu, sdu, miss) ==
  IF pdu.first THEN pdu.data
  ELSE <<Appended(sdu, Head(pdu.data))>> \o Tail(pdu.data)

\* The data fields completed with what was in construction; the leading
\* field is skipped when it continues an SDU of which a PDU is missing.
Completed(pdu, sdu, miss) ==
  LET fields == [i \in DOMAIN pdu.data |-> Appended(<<>>, pdu.data[i])]
  IN  IF ~Readable(pdu) THEN <<>>
      ELSE IF pdu.first THEN fields
      ELSE IF miss THEN Tail(fields)
      ELSE <<Appended(sdu, Head(pdu.data))>> \o Tail(fields)

\* rlc_um_send_sdu hands over only a non-empty SDU.
Sent(pdu, sdu, miss) ==
  LET done == Completed(pdu, sdu, miss)
  IN  SelectSeq(IF pdu.last \/ done = <<>> THEN done ELSE Front(done),
                LAMBDA s : Len(s) > 0)

InConstruction(pdu, sdu, miss) ==
  LET done == Completed(pdu, sdu, miss)
  IN  IF done = <<>> THEN sdu ELSE IF pdu.last THEN <<>> ELSE Last(done)

\* Mutant of StillMissing: the flag is never cleared.
MissingForEver(pdu, miss) == miss

StillMissing(pdu, miss) ==
  miss /\ (Readable(pdu) => ~pdu.first /\ ~pdu.last /\ Len(pdu.data) = 1)

-----------------------------------------------------------------------------
(* Initial state: rlc_um_init and rlc_um_configure.                         *)
Init ==
  /\ vr_ur = 0 /\ vr_ux = 0 /\ vr_uh = 0
  /\ dar_buffer = [sn \in SN |-> NoPdu]
  /\ t_reordering = TimerStopped
  /\ output_sdu = <<>> /\ missing = FALSE /\ last_sn = SnModulo - 1
  /\ data_ind = <<>>
  /\ lock = NoThread
  /\ pc = [t \in Threads |-> "idle"]
  /\ rx_pdu = [t \in Threads |-> [sn |-> 0, pdu |-> NoPdu]]
  /\ loop = [sn |-> 0, end |-> 0]

Goto(t, label) == pc' = [pc EXCEPT ![t] = label]

\* rlc_um_try_reassembly is entered: it returns at once on an empty range.
EnterReassembly(t, start, end, body, after) ==
  /\ loop' = [sn |-> start, end |-> end]
  /\ Goto(t, IF start = end THEN after ELSE body)

\* One iteration of rlc_um_try_reassembly's loop.
TryReassembly(t, body, after) ==
  LET sn  == loop.sn
      pdu == dar_buffer[sn]
      sdu == IF Succ(last_sn) = sn THEN output_sdu ELSE <<>>
      nxt == Succ(sn)
  IN  /\ pc[t] = body
      /\ \/ /\ pdu # NoPdu
            /\ output_sdu' = InConstruction(pdu, sdu, missing)
            /\ data_ind' = Sent(pdu, sdu, missing)
            /\ missing' = StillMissing(pdu, missing)
            /\ last_sn' = sn
            /\ dar_buffer' = [dar_buffer EXCEPT ![sn] = NoPdu]
         \/ /\ pdu = NoPdu
            /\ output_sdu' = <<>> /\ data_ind' = <<>> /\ missing' = TRUE
            /\ UNCHANGED <<last_sn, dar_buffer>>
      /\ loop' = [loop EXCEPT !.sn = nxt]
      /\ Goto(t, IF nxt \in {vr_uh, loop.end} THEN after ELSE body)
      /\ UNCHANGED <<vr_ur, vr_ux, vr_uh, t_reordering, lock, rx_pdu>>

NoIndication == data_ind' = <<>> /\ UNCHANGED <<output_sdu, missing, last_sn>>

-----------------------------------------------------------------------------
(* rlc_um_receive_process_dar.                                              *)

\* rlc_um_mac_data_indication with one transport block.
DataIndication(t, sn, pdu) ==
  /\ pc[t] = "idle"
  /\ rx_pdu' = [rx_pdu EXCEPT ![t] = [sn |-> sn, pdu |-> pdu]]
  /\ Goto(t, "receive")
  /\ NoIndication
  /\ UNCHANGED <<rx_vars, lock, loop>>

\* Mutant of Garbage: PDUs below VR(UR) are stored.
GarbageNever(sn) == FALSE

\* The lower part of the window, already passed by VR(UR).
Garbage(sn) == rlc_um_in_window(vr_uh, vr_uh - WindowSize, sn, vr_ur) \in {0, 1}

Duplicate(sn) == /\ dar_buffer[sn] # NoPdu
                 /\ rlc_um_in_window(vr_uh, vr_ur, sn, vr_uh) = 0

\* Mutant of Discard: the early return forgets to release the lock.
DiscardLocked(t) ==
  /\ pc[t] = "receive" /\ lock = NoThread
  /\ Garbage(rx_pdu[t].sn) \/ Duplicate(rx_pdu[t].sn)
  /\ lock' = t
  /\ Goto(t, "poll")
  /\ NoIndication
  /\ UNCHANGED <<rx_vars, rx_pdu, loop>>

\* The PDU is freed and the lock released: nothing of the entity changed.
Discard(t) ==
  /\ pc[t] = "receive" /\ lock = NoThread
  /\ Garbage(rx_pdu[t].sn) \/ Duplicate(rx_pdu[t].sn)
  /\ Goto(t, "poll")
  /\ NoIndication
  /\ UNCHANGED <<rx_vars, lock, rx_pdu, loop>>

\* The PDU is stored (over a stale one, which is freed); one outside the
\* reordering window moves VR(UH), and what falls out of the window is
\* reassembled first.
Store(t) ==
  LET sn == rx_pdu[t].sn
      uh == IF rlc_um_in_reordering_window(vr_uh, sn) THEN vr_uh ELSE Succ(sn)
      pull == /\ ~rlc_um_in_reordering_window(vr_uh, sn)
              /\ ~rlc_um_in_reordering_window(uh, vr_ur)
  IN  /\ pc[t] = "receive" /\ lock = NoThread
      /\ ~Garbage(sn) /\ ~Duplicate(sn)
      /\ lock' = t
      /\ dar_buffer' = [dar_buffer EXCEPT ![sn] = rx_pdu[t].pdu]
      /\ vr_uh' = uh
      /\ \/ pull  /\ EnterReassembly(t, vr_ur, Edge(uh), "pull", "pulled")
         \/ ~pull /\ Goto(t, "advance") /\ UNCHANGED loop
      /\ NoIndication
      /\ UNCHANGED <<vr_ur, vr_ux, t_reordering, rx_pdu>>

\* VR(UR) := VR(UH) - UM_Window_Size, after the pull's reassembly.
Pulled(t) ==
  /\ pc[t] = "pulled"
  /\ vr_ur' = Edge(vr_uh)
  /\ Goto(t, "advance")
  /\ NoIndication
  /\ UNCHANGED <<vr_ux, vr_uh, dar_buffer, t_reordering, lock, rx_pdu, loop>>

\* The received PDU is the one VR(UR) waits for: enter the do ... while.
Advance(t) ==
  LET hit == rx_pdu[t].sn = vr_ur /\ dar_buffer[vr_ur] # NoPdu
  IN  /\ pc[t] = "advance"
      /\ vr_ur' = IF hit THEN Succ(vr_ur) ELSE vr_ur
      /\ Goto(t, IF hit THEN "advancing" ELSE "timers")
      /\ NoIndication
      /\ UNCHANGED <<vr_ux, vr_uh, dar_buffer, t_reordering, lock, rx_pdu, loop>>

\* The while condition of the loop, then rlc_um_try_reassembly(sn, vr_ur).
Advancing(t) ==
  /\ pc[t] = "advancing"
  /\ \/ /\ dar_buffer[vr_ur] # NoPdu /\ vr_ur # vr_uh
        /\ vr_ur' = Succ(vr_ur)
        /\ UNCHANGED <<pc, loop>>
     \/ /\ dar_buffer[vr_ur] = NoPdu \/ vr_ur = vr_uh
        /\ EnterReassembly(t, rx_pdu[t].sn, vr_ur, "deliver", "timers")
        /\ UNCHANGED vr_ur
  /\ NoIndication
  /\ UNCHANGED <<vr_ux, vr_uh, dar_buffer, t_reordering, lock, rx_pdu>>

\* Mutant of Passed: t-Reordering runs on.
PassedNever == FALSE

\* VR(UX) left the window, or VR(UR) reached it.
Passed == \/ vr_uh # vr_ux /\ ~rlc_um_in_reordering_window(vr_uh, vr_ux)
          \/ rlc_um_in_window(vr_uh, vr_ur, vr_ux, vr_uh) \in {-2, 1}

\* t-Reordering is stopped when it guards nothing any more, and started when
\* a PDU is awaited; the lock is released.
Timers(t) ==
  LET still   == t_reordering.running /\ ~Passed
      restart == ~still /\ rlc_um_in_window(vr_uh, vr_ur, vr_uh, vr_uh) = 2
  IN  /\ pc[t] = "timers"
      /\ t_reordering' = IF restart THEN TimerStarted
                         ELSE IF still THEN t_reordering ELSE TimerStopped
      /\ vr_ux' = IF restart THEN vr_uh ELSE vr_ux
      /\ lock' = NoThread
      /\ Goto(t, "poll")
      /\ NoIndication
      /\ UNCHANGED <<vr_ur, vr_uh, dar_buffer, rx_pdu, loop>>

-----------------------------------------------------------------------------
(* rlc_um_check_timer_dar_time_out.                                         *)

\* rlc_um_mac_status_indication: the scheduler polls the entity each TTI.
StatusIndication(t) ==
  /\ pc[t] = "idle"
  /\ Goto(t, "poll")
  /\ NoIndication
  /\ UNCHANGED <<rx_vars, lock, rx_pdu, loop>>

\* The timer is tested without the lock.
PollTimer(t) ==
  /\ pc[t] = "poll"
  /\ Goto(t, IF t_reordering.running /\ t_reordering.due THEN "expired" ELSE "idle")
  /\ NoIndication
  /\ UNCHANGED <<rx_vars, lock, rx_pdu, loop>>

\* pthread_mutex_trylock fails: the expiry is left to a later poll.
TryLockBusy(t) ==
  /\ pc[t] = "expired" /\ lock # NoThread
  /\ Goto(t, "idle")
  /\ NoIndication
  /\ UNCHANGED <<rx_vars, lock, rx_pdu, loop>>

\* Mutant of TryLock: the result of pthread_mutex_trylock is ignored.
TryLockIgnored(t) ==
  /\ pc[t] = "expired"
  /\ lock' = t
  /\ loop' = [loop EXCEPT !.sn = vr_ur]
  /\ vr_ur' = vr_ux
  /\ Goto(t, "skip")
  /\ NoIndication
  /\ UNCHANGED <<vr_ux, vr_uh, dar_buffer, t_reordering, rx_pdu>>

\* The lock is taken: old_vr_ur is kept, VR(UR) := VR(UX).
TryLock(t) ==
  /\ pc[t] = "expired" /\ lock = NoThread
  /\ lock' = t
  /\ loop' = [loop EXCEPT !.sn = vr_ur]
  /\ vr_ur' = vr_ux
  /\ Goto(t, "skip")
  /\ NoIndication
  /\ UNCHANGED <<vr_ux, vr_uh, dar_buffer, t_reordering, rx_pdu>>

\* while the slot of VR(UR) is filled; then rlc_um_try_reassembly(old_vr_ur, vr_ur).
Skip(t) ==
  /\ pc[t] = "skip"
  /\ \/ /\ dar_buffer[vr_ur] # NoPdu
        /\ vr_ur' = Succ(vr_ur)
        /\ UNCHANGED <<pc, loop>>
     \/ /\ dar_buffer[vr_ur] = NoPdu
        /\ EnterReassembly(t, loop.sn, vr_ur, "flush", "rearm")
        /\ UNCHANGED vr_ur
  /\ NoIndication
  /\ UNCHANGED <<vr_ux, vr_uh, dar_buffer, t_reordering, lock, rx_pdu>>

Rearm(t) ==
  LET restart == rlc_um_in_window(vr_uh, vr_ur, vr_uh, vr_uh) = 2
  IN  /\ pc[t] = "rearm"
      /\ t_reordering' = IF restart THEN TimerStarted ELSE TimerStopped
      /\ vr_ux' = IF restart THEN vr_uh ELSE vr_ux
      /\ lock' = NoThread
      /\ Goto(t, "idle")
      /\ NoIndication
      /\ UNCHANGED <<vr_ur, vr_uh, dar_buffer, rx_pdu, loop>>

\* The frame counter reaches frame_time_out.  With time_out = 0 frame_start
\* equals frame_time_out, which satisfies neither case of the test.
FramesPass ==
  /\ t_reordering.running /\ ~t_reordering.due
  /\ T_Reordering > 0
  /\ t_reordering' = [t_reordering EXCEPT !.due = TRUE]
  /\ NoIndication
  /\ UNCHANGED <<vr_ur, vr_ux, vr_uh, dar_buffer, lock, pc, rx_pdu, loop>>

-----------------------------------------------------------------------------

\* What thread t does once it is inside the entity.
Inside(t) ==
  \/ Discard(t) \/ Store(t) \/ TryReassembly(t, "pull", "pulled") \/ Pulled(t)
  \/ Advance(t) \/ Advancing(t) \/ TryReassembly(t, "deliver", "timers") \/ Timers(t)
  \/ PollTimer(t) \/ TryLockBusy(t) \/ TryLock(t) \/ Skip(t)
  \/ TryReassembly(t, "flush", "rearm") \/ Rearm(t)

Step(t) == StatusIndication(t) \/ Inside(t)

Next ==
  \/ FramesPass
  \/ \E t \in Threads : Step(t)
  \/ \E t \in RxThreads, sn \in SN, pdu \in Pdus : DataIndication(t, sn, pdu)

Spec == Init /\ [][Next]_vars

\* Every thread goes on, the MAC polls the entity each TTI, frames pass.
Fairness == WF_vars(FramesPass) /\ \A t \in Threads : WF_vars(Step(t))

LiveSpec == Spec /\ Fairness

-----------------------------------------------------------------------------
(* Properties.                                                              *)

\* How far b is ahead of a, going round the SN space.
Dist(a, b) == IF b >= a THEN b - a ELSE b - a + SnModulo

Labels == {"idle", "receive", "pull", "pulled", "advance", "advancing", "deliver",
           "timers", "poll", "expired", "skip", "flush", "rearm"}

Locked == {"pull", "pulled", "advance", "advancing", "deliver", "timers",
           "skip", "flush", "rearm"}

\* Type correctness of the receiving entity's fields and of the callers' locals.
TypeOK ==
  /\ vr_ur \in SN /\ vr_ux \in SN /\ vr_uh \in SN
  /\ dar_buffer \in [SN -> Pdus \cup {NoPdu}]
  /\ t_reordering \in [running : BOOLEAN, due : BOOLEAN]
  /\ missing \in BOOLEAN /\ last_sn \in SN
  /\ lock \in Threads \cup {NoThread}
  /\ pc \in [Threads -> Labels]
  /\ rx_pdu \in [Threads -> [sn : SN, pdu : Pdus \cup {NoPdu}]]
  /\ loop \in [sn : SN, end : SN]

\* No thread is inside the code that the lock guards.
Quiescent == lock = NoThread

\* Where t-Reordering holds and where the window is while no thread is inside:
\* VR(UR) is at most a window behind VR(UH); every buffered PDU lies in
\* [VR(UR), VR(UH)); a running timer guards a VR(UX) in [VR(UR), VR(UH)].
UrInWindow == Dist(vr_ur, vr_uh) <= WindowSize

BufferInWindow ==
  \A sn \in SN : dar_buffer[sn] # NoPdu =>
     sn # vr_uh /\ Dist(sn, vr_uh) <= Dist(vr_ur, vr_uh)

UxInWindow == t_reordering.running => Dist(vr_ux, vr_uh) <= Dist(vr_ur, vr_uh)

\* Between calls the reordering window is consistent: no PDU is buffered where
\* no later reassembly would find it (it would leak and be delivered as a
\* stale PDU when the SN comes round again), and the timer never refers to
\* an SN behind VR(UR).
WindowConsistent == Quiescent => UrInWindow /\ BufferInWindow /\ UxInWindow

\* Whenever a PDU is awaited (VR(UH) > VR(UR)) t-Reordering is running, so
\* that the PDUs buffered behind the gap are not held for ever.
GapIsTimed == Quiescent /\ vr_ur # vr_uh => t_reordering.running

\* VR(UR) and VR(UH) never move backwards, by reception or by expiry.
MovesForward == Dist(vr_ur, vr_ur') <= WindowSize /\ Dist(vr_uh, vr_uh') <= WindowSize

Forward == [][MovesForward]_vars

\* A buffered PDU is reassembled, or replaced by a copy of itself, in the end:
\* none stays in the reception buffer for ever.
EventuallyReassembled == \A sn \in SN : dar_buffer[sn] # NoPdu ~> dar_buffer[sn] = NoPdu

\* A thread that holds lock_dar_buffer releases it: the unbounded loops over
\* dar_buffer (the while of the expiry, the do ... while of the reception and
\* rlc_um_try_reassembly) all end.
LockReleased == \A t \in Threads : lock = t ~> lock # t

\* At most the holder of the lock is in the code it guards.
LockGuards == \A t \in Threads : pc[t] \in Locked <=> lock = t

-----------------------------------------------------------------------------
(* The inductive invariant behind WindowConsistent and GapIsTimed, for one   *)
(* thread: what the window looks like inside each loop.                      *)

SingleThread == \A t, u \in Threads : t = u

\* The SN from which dar_buffer may still be filled.
Low(t) == CASE pc[t] \in {"deliver", "skip", "flush"} -> loop.sn
            [] pc[t] = "advancing"                     -> rx_pdu[t].sn
            [] OTHER                                   -> vr_ur

\* dar_buffer is empty outside [low, VR(UH)).
FilledFrom(low) == \A sn \in SN : dar_buffer[sn] # NoPdu =>
                      sn # vr_uh /\ Dist(sn, vr_uh) <= Dist(low, vr_uh)

\* While the window is pulled the buffer is filled in [low, edge) and
\* [edge, VR(UH)), which together may be the whole SN space.
FilledAround(low, edge) == \A sn \in SN : dar_buffer[sn] # NoPdu =>
                              \/ Dist(edge, sn) < WindowSize
                              \/ Dist(sn, edge) \in 1 .. Dist(low, edge)

WindowInv(t) ==
  /\ pc[t] \notin {"pull", "pulled"} => /\ Dist(Low(t), vr_uh) <= WindowSize
                                        /\ Dist(vr_ur, vr_uh) <= Dist(Low(t), vr_uh)
                                        /\ FilledFrom(Low(t))
  /\ pc[t] = "pull" => /\ loop.end = Edge(vr_uh)
                       /\ Dist(loop.sn, loop.end) \in 1 .. WindowSize
                       /\ FilledAround(loop.sn, loop.end)
  /\ pc[t] = "pulled" => FilledAround(Edge(vr_uh), Edge(vr_uh))
  /\ pc[t] \in {"pull", "pulled"} => Dist(vr_ur, Edge(vr_uh)) <= WindowSize
  /\ pc[t] = "advancing" => rx_pdu[t].sn # vr_ur
  /\ pc[t] \in {"deliver", "flush"} => loop.end = vr_ur /\ loop.sn # vr_ur
  /\ pc[t] \notin Locked => UxInWindow /\ (vr_ur # vr_uh => t_reordering.running)
  /\ pc[t] = "expired" => t_reordering.running

\* In every state of every loop the buffer is filled only where the rest of
\* the loop, or a later reassembly, will look.
WindowInvariant == \A t \in Threads : WindowInv(t)
=============================================================================
