--------------------------- MODULE RlcUmDarProofs ---------------------------
(* Theorems about RlcUmDar, for every SN modulus, set of threads and PDUs.   *)
EXTENDS RlcUmDar, TLAPS

-----------------------------------------------------------------------------
(* Sequence number arithmetic.                                               *)

\* An incremented SN (vr_ur, vr_uh, the cursor of a reassembly) is an SN.
LEMMA SuccType == \A sn \in SN : Succ(sn) \in SN
  BY WindowAssumption DEF Succ, CRem, SN

\* The lower edge of the reordering window is an SN.
LEMMA EdgeType == \A uh \in SN : Edge(uh) \in SN
  BY WindowAssumption DEF Edge, SN

\* The SN space is not empty: it holds the initial values.
LEMMA SnType == 0 \in SN /\ SnModulo - 1 \in SN /\ SN \subseteq Int
  BY WindowAssumption DEF SN

\* Dist measures how far one SN is ahead of another.
LEMMA DistType == \A a, b \in SN : Dist(a, b) \in 0 .. SnModulo - 1 /\ (Dist(a, b) = 0 <=> a = b)
  BY WindowAssumption DEF Dist, SN

\* Incrementing an SN brings it one nearer to any other.
LEMMA DistSucc == \A a, h \in SN : a # h => Dist(Succ(a), h) = Dist(a, h) - 1
  BY WindowAssumption DEF Dist, Succ, CRem, SN

\* rlc_um_in_reordering_window is (VR(UH) - UM_Window_Size) <= SN < VR(UH),
\* although its remainder leaves negative operands negative.
LEMMA ReorderingWindow ==
  \A h, x \in SN : rlc_um_in_reordering_window(h, x) <=> Dist(x, h) \in 1 .. WindowSize
  BY WindowAssumption DEF rlc_um_in_reordering_window, CRem, Dist, SN

\* What rlc_um_in_window answers for bounds that lie in the window: the test
\* for a PDU behind VR(UR), the test for an awaited PDU and the test of VR(UX).
LEMMA BehindUr ==
  \A h, r, x \in SN : Dist(r, h) <= WindowSize =>
     (rlc_um_in_window(h, h - WindowSize, x, r) \in {0, 1}
        <=> Dist(x, h) \in Dist(r, h) + 1 .. WindowSize)
  BY WindowAssumption DEF rlc_um_in_window, CRem, Dist, SN

\* rlc_um_in_window returns 2 for (VR(UR), VR(UH), VR(UH)) iff a PDU is awaited.
LEMMA Awaited ==
  \A h, r \in SN : Dist(r, h) <= WindowSize => (rlc_um_in_window(h, r, h, h) = 2 <=> r # h)
  BY WindowAssumption DEF rlc_um_in_window, CRem, Dist, SN

\* A timer that is not stopped in receive_process_dar guards a VR(UX) not behind VR(UR).
LEMMA NotPassed ==
  \A h, r, x \in SN :
     /\ Dist(r, h) <= WindowSize
     /\ h = x \/ rlc_um_in_reordering_window(h, x)
     /\ rlc_um_in_window(h, r, x, h) \notin {-2, 1}
     => Dist(x, h) <= Dist(r, h)
  BY WindowAssumption DEF rlc_um_in_window, rlc_um_in_reordering_window, CRem, Dist, SN

\* A PDU outside the window moves VR(UH) from h to u.  VR(UR) = r that stays
\* in the window still has every buffered SN between it and u ...
LEMMA KeptWindow ==
  \A h, r, s, x \in SN :
     /\ Dist(r, h) <= WindowSize /\ Dist(s, h) \notin 1 .. WindowSize
     /\ Dist(r, Succ(s)) \in 1 .. WindowSize
     => /\ s # Succ(s) /\ Dist(s, Succ(s)) <= Dist(r, Succ(s))
        /\ x # h /\ Dist(x, h) <= Dist(r, h) => x # Succ(s) /\ Dist(x, Succ(s)) <= Dist(r, Succ(s))
  BY WindowAssumption DEF Dist, Succ, CRem, SN

\* ... and one that falls out is less than a window behind the new edge.
LEMMA PulledWindow ==
  \A h, r, s, x \in SN :
     /\ Dist(r, h) <= WindowSize /\ Dist(s, h) \notin 1 .. WindowSize
     /\ Dist(r, Succ(s)) \notin 1 .. WindowSize
     => /\ Dist(r, Edge(Succ(s))) \in 1 .. WindowSize
        /\ Dist(Edge(Succ(s)), s) < WindowSize
        /\ x # h /\ Dist(x, h) <= Dist(r, h) =>
             \/ Dist(Edge(Succ(s)), x) < WindowSize
             \/ Dist(x, Edge(Succ(s))) \in 1 .. Dist(r, Edge(Succ(s)))
  BY WindowAssumption DEF Dist, Succ, CRem, Edge, SN

\* From the edge to VR(UH) is a window, from VR(UH) to the edge too.
LEMMA EdgeDist ==
  \A h, x \in SN : /\ Dist(Edge(h), h) = WindowSize /\ Dist(h, Edge(h)) = WindowSize
                   /\ Dist(Edge(h), x) < WindowSize => x # h /\ Dist(x, h) <= WindowSize
  BY WindowAssumption DEF Dist, Edge, SN

-----------------------------------------------------------------------------
(* Type correctness and the lock.                                            *)

\* What the lock protects needs the types, and conversely nothing: proved
\* together because a reassembly step is only taken by the lock's holder.
LEMMA TypeInit == Init => TypeOK
  <1> SUFFICES ASSUME Init PROVE TypeOK
    OBVIOUS
  <1> USE DEF Init
  <1>1. dar_buffer \in [SN -> Pdus \cup {NoPdu}]
    OBVIOUS
  <1>2. t_reordering \in [running : BOOLEAN, due : BOOLEAN]
    BY DEF TimerStopped
  <1>3. rx_pdu \in [Threads -> [sn : SN, pdu : Pdus \cup {NoPdu}]]
    BY SnType
  <1>4. pc \in [Threads -> Labels] /\ loop \in [sn : SN, end : SN]
    BY SnType DEF Labels
  <1> QED
    BY <1>1, <1>2, <1>3, <1>4, SnType DEF TypeOK

\* One iteration of rlc_um_try_reassembly keeps the entity well typed.
LEMMA TypeReassembly ==
  ASSUME TypeOK, NEW t \in Threads, NEW body \in Labels, NEW after \in Labels,
         TryReassembly(t, body, after)
  PROVE  TypeOK'
  <1> USE DEF TypeOK, TryReassembly, Goto
  <1>1. loop.sn \in SN /\ Succ(loop.sn) \in SN
    BY SuccType
  <1>2. loop' \in [sn : SN, end : SN] /\ pc' \in [Threads -> Labels]
    BY <1>1
  <1>3. missing' \in BOOLEAN
    BY DEF StillMissing
  <1>4. last_sn' \in SN /\ dar_buffer' \in [SN -> Pdus \cup {NoPdu}]
    BY <1>1
  <1> QED
    BY <1>2, <1>3, <1>4

\* Every step of every thread keeps the entity's fields well typed.
LEMMA TypeStep == TypeOK /\ [Next]_vars => TypeOK'
  <1> SUFFICES ASSUME TypeOK, [Next]_vars PROVE TypeOK'
    OBVIOUS
  <1>t. TimerStarted \in [running : BOOLEAN, due : BOOLEAN]
        /\ TimerStopped \in [running : BOOLEAN, due : BOOLEAN]
    BY DEF TimerStarted, TimerStopped
  <1>1. CASE FramesPass
    BY <1>1 DEF TypeOK, FramesPass, NoIndication
  <1>2. ASSUME NEW t \in Threads, NEW sn \in SN, NEW pdu \in Pdus, DataIndication(t, sn, pdu)
        PROVE  TypeOK'
    BY <1>2 DEF TypeOK, DataIndication, NoIndication, Goto, rx_vars, Labels
  <1>3. ASSUME NEW t \in Threads, Step(t)
        PROVE  TypeOK'
    <2> USE DEF TypeOK, NoIndication, Goto
    <2>l. "pull" \in Labels /\ "pulled" \in Labels /\ "deliver" \in Labels
          /\ "timers" \in Labels /\ "flush" \in Labels /\ "rearm" \in Labels
      BY DEF Labels
    <2>u. /\ Succ(vr_ur) \in SN /\ Edge(vr_uh) \in SN
          /\ rx_pdu[t].sn \in SN /\ rx_pdu[t].pdu \in Pdus \cup {NoPdu}
      BY SuccType, EdgeType
    <2>1. CASE StatusIndication(t)
      BY <2>1 DEF StatusIndication, rx_vars, Labels
    <2>2. CASE Discard(t)
      BY <2>2 DEF Discard, rx_vars, Labels
    <2>3. CASE Store(t)
      <3> DEFINE uh == IF rlc_um_in_reordering_window(vr_uh, rx_pdu[t].sn)
                       THEN vr_uh ELSE Succ(rx_pdu[t].sn)
      <3>1. uh \in SN /\ Edge(uh) \in SN
        BY <2>u, SuccType, EdgeType
      <3>2. vr_uh' \in SN
        BY <2>3, <3>1 DEF Store
      <3>3. dar_buffer' \in [SN -> Pdus \cup {NoPdu}]
        BY <2>3, <2>u DEF Store
      <3>4. pc' \in [Threads -> Labels] /\ loop' \in [sn : SN, end : SN]
        BY <2>3, <3>1 DEF Store, EnterReassembly, Labels
      <3> QED
        BY <2>3, <3>2, <3>3, <3>4 DEF Store
    <2>4. CASE TryReassembly(t, "pull", "pulled")
      BY <2>4, <2>l, TypeReassembly
    <2>5. CASE Pulled(t)
      BY <2>5, <2>u DEF Pulled, Labels
    <2>6. CASE Advance(t)
      BY <2>6, <2>u DEF Advance, Labels
    <2>7. CASE Advancing(t)
      BY <2>7, <2>u DEF Advancing, EnterReassembly, Labels
    <2>8. CASE TryReassembly(t, "deliver", "timers")
      BY <2>8, <2>l, TypeReassembly
    <2>9. CASE Timers(t)
      <3>1. vr_ux' \in SN /\ lock' \in Threads \cup {NoThread} /\ pc' \in [Threads -> Labels]
        BY <2>9 DEF Timers, Labels
      <3>2. t_reordering' \in [running : BOOLEAN, due : BOOLEAN]
        BY <2>9, <1>t DEF Timers
      <3> QED
        BY <2>9, <3>1, <3>2 DEF Timers
    <2>10. CASE PollTimer(t)
      BY <2>10 DEF PollTimer, rx_vars, Labels
    <2>11. CASE TryLockBusy(t)
      BY <2>11 DEF TryLockBusy, rx_vars, Labels
    <2>12. CASE TryLock(t)
      BY <2>12 DEF TryLock, Labels
    <2>13. CASE Skip(t)
      BY <2>13, <2>u DEF Skip, EnterReassembly, Labels
    <2>14. CASE TryReassembly(t, "flush", "rearm")
      BY <2>14, <2>l, TypeReassembly
    <2>15. CASE Rearm(t)
      <3>1. vr_ux' \in SN /\ lock' \in Threads \cup {NoThread} /\ pc' \in [Threads -> Labels]
        BY <2>15 DEF Rearm, Labels
      <3>2. t_reordering' \in [running : BOOLEAN, due : BOOLEAN]
        BY <2>15, <1>t DEF Rearm
      <3> QED
        BY <2>15, <3>1, <3>2 DEF Rearm
    <2> QED
      BY <1>3, <2>1, <2>2, <2>3, <2>4, <2>5, <2>6, <2>7, <2>8, <2>9, <2>10, <2>11,
         <2>12, <2>13, <2>14, <2>15 DEF Step, Inside
  <1>4. CASE UNCHANGED vars
    BY <1>4 DEF TypeOK, vars
  <1> QED
    BY <1>1, <1>2, <1>3, <1>4, ThreadsAssumption DEF Next

\* The receiving entity is type correct for every modulus, set of threads
\* and PDUs: no SN, cursor or buffer index of rlc_um_dar.c leaves its range.
THEOREM TypeCorrect == Spec => []TypeOK
  BY TypeInit, TypeStep, PTL DEF Spec
-----------------------------------------------------------------------------
(* lock_dar_buffer, for any number of threads.                               *)

\* Every step keeps lock_dar_buffer in line with the places of the threads.
LEMMA LockStep == TypeOK /\ LockGuards /\ [Next]_vars => LockGuards'
  <1> SUFFICES ASSUME TypeOK, LockGuards, [Next]_vars,
                      NEW u \in Threads
               PROVE  pc'[u] \in Locked <=> lock' = u
    BY DEF LockGuards
  <1>p. pc \in [Threads -> Labels] /\ (pc[u] \in Locked <=> lock = u)
    BY DEF TypeOK, LockGuards
  <1>1. CASE FramesPass
    BY <1>1, <1>p DEF FramesPass
  <1>2. ASSUME NEW t \in Threads, NEW sn \in SN, NEW pdu \in Pdus, DataIndication(t, sn, pdu)
        PROVE  pc'[u] \in Locked <=> lock' = u
    BY <1>2, <1>p DEF DataIndication, Goto, Locked
  <1>3. ASSUME NEW t \in Threads, Step(t)
        PROVE  pc'[u] \in Locked <=> lock' = u
    <2>t. pc[t] \in Locked <=> lock = t
      BY DEF LockGuards
    <2> USE <1>p, <2>t, NullAssumption DEF Goto, EnterReassembly, Locked
    <2>1. CASE StatusIndication(t) \/ Discard(t) \/ PollTimer(t) \/ TryLockBusy(t)
      BY <2>1 DEF StatusIndication, Discard, PollTimer, TryLockBusy
    <2>2. CASE Store(t)
      BY <2>2 DEF Store
    <2>3. CASE Pulled(t) \/ Advance(t) \/ Advancing(t)
      BY <2>3 DEF Pulled, Advance, Advancing
    <2>4. CASE Timers(t) \/ Rearm(t)
      BY <2>4 DEF Timers, Rearm
    <2>5. CASE TryLock(t)
      BY <2>5 DEF TryLock
    <2>6. CASE Skip(t)
      BY <2>6 DEF Skip
    <2>7. CASE \/ TryReassembly(t, "pull", "pulled") \/ TryReassembly(t, "deliver", "timers")
               \/ TryReassembly(t, "flush", "rearm")
      BY <2>7 DEF TryReassembly
    <2> QED
      BY <1>3, <2>1, <2>2, <2>3, <2>4, <2>5, <2>6, <2>7 DEF Step, Inside
  <1>4. CASE UNCHANGED vars
    BY <1>4, <1>p DEF vars
  <1> QED
    BY <1>1, <1>2, <1>3, <1>4, ThreadsAssumption DEF Next

\* Initially no thread is inside and the lock is free.
LEMMA LockInit == Init => LockGuards
  BY NullAssumption DEF Init, LockGuards, Locked

\* Whatever the number of MAC threads, only the holder of lock_dar_buffer is in
\* the part of rlc_um_dar.c that the lock guards.
THEOREM LockSafe == Spec => []LockGuards
  <1>1. Init => TypeOK /\ LockGuards
    BY TypeInit, LockInit
  <1>2. TypeOK /\ LockGuards /\ [Next]_vars => (TypeOK /\ LockGuards)'
    BY TypeStep, LockStep
  <1> QED
    BY <1>1, <1>2, PTL DEF Spec
-----------------------------------------------------------------------------
(* The reordering window, when the MAC calls come from one thread.           *)

\* The empty reception buffer satisfies the inductive invariant.
LEMMA WindowInit == Init => WindowInvariant
  BY SnType, WindowAssumption
  DEF Init, WindowInvariant, WindowInv, Low, FilledFrom, UxInWindow, Dist, Locked,
      TimerStopped

\* One iteration of the reassembly loop that delivers [loop.sn, VR(UR)).
LEMMA WindowReassembly ==
  ASSUME TypeOK, NEW t \in Threads, WindowInv(t),
         NEW body \in {"deliver", "flush"}, NEW after \in {"timers", "rearm"},
         TryReassembly(t, body, after)
  PROVE  WindowInv(t)'
  <1> DEFINE c == loop.sn
  <1>0. c \in SN /\ vr_ur \in SN /\ vr_uh \in SN /\ pc \in [Threads -> Labels]
        /\ dar_buffer \in [SN -> Pdus \cup {NoPdu}] /\ loop \in [sn : SN, end : SN]
    BY DEF TypeOK
  <1>1. /\ Dist(c, vr_uh) <= WindowSize /\ Dist(vr_ur, vr_uh) <= Dist(c, vr_uh)
        /\ FilledFrom(c) /\ loop.end = vr_ur /\ c # vr_ur /\ pc[t] = body
    BY DEF WindowInv, Low, TryReassembly
  <1>2. c # vr_uh /\ Dist(Succ(c), vr_uh) = Dist(c, vr_uh) - 1 /\ Succ(c) \in SN
        /\ Dist(vr_ur, vr_uh) <= Dist(Succ(c), vr_uh)
    <2>1. c # vr_uh
      BY <1>0, <1>1, DistType
    <2>2. Dist(Succ(c), vr_uh) = Dist(c, vr_uh) - 1 /\ Succ(c) \in SN
      BY <2>1, <1>0, DistSucc, SuccType
    <2>3. Dist(vr_ur, vr_uh) # Dist(c, vr_uh)
      BY <1>0, <1>1, WindowAssumption DEF Dist, SN
    <2> QED
      BY <1>0, <1>1, <2>1, <2>2, <2>3, DistType
  <1>3. \A sn \in SN : dar_buffer'[sn] # NoPdu => dar_buffer[sn] # NoPdu /\ sn # c
    BY <1>0 DEF TryReassembly
  <1>4. \A sn \in SN : dar_buffer'[sn] # NoPdu =>
           sn # vr_uh /\ Dist(sn, vr_uh) <= Dist(Succ(c), vr_uh)
    <2> SUFFICES ASSUME NEW sn \in SN, dar_buffer'[sn] # NoPdu
                 PROVE  sn # vr_uh /\ Dist(sn, vr_uh) <= Dist(Succ(c), vr_uh)
      OBVIOUS
    <2>1. sn # c /\ sn # vr_uh /\ Dist(sn, vr_uh) <= Dist(c, vr_uh)
      BY <1>1, <1>3 DEF FilledFrom
    <2>2. Dist(sn, vr_uh) # Dist(c, vr_uh)
      BY <1>0, <2>1, WindowAssumption DEF Dist, SN
    <2> QED
      BY <2>1, <2>2, <1>0, <1>2, DistType
  <1>5. /\ vr_ur' = vr_ur /\ vr_uh' = vr_uh /\ loop'.sn = Succ(c) /\ loop'.end = vr_ur
        /\ pc'[t] = IF Succ(c) \in {vr_uh, vr_ur} THEN after ELSE body
    BY <1>0, <1>1 DEF TryReassembly, Goto
  <1>6. Succ(c) = vr_uh => vr_ur = vr_uh
    BY <1>0, <1>2, DistType
  <1>7. Low(t)' = Succ(c)
    BY <1>5, <1>6 DEF Low
  <1>8. /\ Dist(Low(t), vr_uh)' <= WindowSize /\ Dist(vr_ur, vr_uh)' <= Dist(Low(t), vr_uh)'
        /\ FilledFrom(Low(t))'
    <2>1. Dist(Low(t), vr_uh)' = Dist(Succ(c), vr_uh) /\ Dist(vr_ur, vr_uh)' = Dist(vr_ur, vr_uh)
      BY <1>5, <1>7 DEF Dist
    <2>2. Dist(Succ(c), vr_uh) <= WindowSize
      BY <1>0, <1>1, <1>2, DistType, WindowAssumption
    <2>3. FilledFrom(Low(t))'
      BY <1>4, <1>5, <1>7 DEF FilledFrom, Dist
    <2> QED
      BY <2>1, <2>2, <2>3, <1>2
  <1>9. /\ pc'[t] \notin {"pull", "pulled", "advancing", "expired"} /\ pc'[t] \in Locked
        /\ pc'[t] \in {"deliver", "flush"} => loop'.end = vr_ur' /\ loop'.sn # vr_ur'
    BY <1>5 DEF Locked
  <1> QED
    BY <1>8, <1>9 DEF WindowInv
\* One iteration of the loop that reassembles what falls out of the window.
LEMMA PullReassembly ==
  ASSUME TypeOK, NEW t \in Threads, WindowInv(t), TryReassembly(t, "pull", "pulled")
  PROVE  WindowInv(t)'
  <1> DEFINE c == loop.sn
             e == Edge(vr_uh)
  <1>0. c \in SN /\ vr_uh \in SN /\ e \in SN /\ pc \in [Threads -> Labels]
        /\ dar_buffer \in [SN -> Pdus \cup {NoPdu}] /\ loop \in [sn : SN, end : SN]
    BY EdgeType DEF TypeOK
  <1>1. loop.end = e /\ Dist(c, e) \in 1 .. WindowSize /\ FilledAround(c, e) /\ pc[t] = "pull"
    BY DEF WindowInv, TryReassembly
  <1>2. Dist(Succ(c), e) = Dist(c, e) - 1 /\ Succ(c) \in SN /\ Succ(c) # vr_uh
    <2>1. c # e
      BY <1>0, <1>1, DistType
    <2>2. Dist(Succ(c), e) = Dist(c, e) - 1 /\ Succ(c) \in SN
      BY <2>1, <1>0, DistSucc, SuccType
    <2> QED
      BY <2>2, <1>0, <1>1, EdgeDist, WindowAssumption
  <1>3. \A sn \in SN : dar_buffer'[sn] # NoPdu =>
           \/ Dist(e, sn) < WindowSize
           \/ Dist(sn, e) \in 1 .. Dist(Succ(c), e)
    <2> SUFFICES ASSUME NEW sn \in SN, dar_buffer'[sn] # NoPdu, ~(Dist(e, sn) < WindowSize)
                 PROVE  Dist(sn, e) \in 1 .. Dist(Succ(c), e)
      OBVIOUS
    <2>1. dar_buffer[sn] # NoPdu /\ sn # c
      BY <1>0 DEF TryReassembly
    <2>2. Dist(sn, e) \in 1 .. Dist(c, e)
      BY <2>1, <1>1 DEF FilledAround
    <2>3. Dist(sn, e) # Dist(c, e)
      BY <2>1, <1>0, WindowAssumption DEF Dist, SN
    <2> QED
      BY <2>2, <2>3, <1>0, <1>2, DistType
  <1>4. /\ vr_uh' = vr_uh /\ e' = e /\ loop'.sn = Succ(c) /\ loop'.end = e
        /\ pc'[t] = IF Succ(c) = e THEN "pulled" ELSE "pull"
    BY <1>0, <1>1, <1>2 DEF TryReassembly, Goto, Edge
  <1>5. FilledAround(loop.sn, loop.end)'
    BY <1>3, <1>4 DEF FilledAround, Dist
  <1>6. pc'[t] = "pull" => Dist(loop.sn, loop.end)' \in 1 .. WindowSize
    <2>1. Dist(loop.sn, loop.end)' = Dist(Succ(c), e)
      BY <1>4 DEF Dist
    <2> QED
      BY <2>1, <1>0, <1>1, <1>2, <1>4, DistType, WindowAssumption
  <1>7. pc'[t] = "pulled" => FilledAround(Edge(vr_uh), Edge(vr_uh))'
    BY <1>4, <1>5
  <1>8. pc'[t] \in {"pull", "pulled"}
    BY <1>4
  <1>9. (Dist(vr_ur, Edge(vr_uh)) <= WindowSize)'
    BY <1>1, <1>4 DEF WindowInv, TryReassembly, Dist
  <1> QED
    BY <1>4, <1>5, <1>6, <1>7, <1>8, <1>9 DEF WindowInv, Locked

\* A PDU is stored: VR(UH) may move and the window be pulled.
LEMMA WindowStore ==
  ASSUME TypeOK, NEW t \in Threads, WindowInv(t), Store(t)
  PROVE  WindowInv(t)'
  <1> DEFINE sn == rx_pdu[t].sn
             inside == rlc_um_in_reordering_window(vr_uh, sn)
             uh == IF inside THEN vr_uh ELSE Succ(sn)
             pull == ~inside /\ ~rlc_um_in_reordering_window(uh, vr_ur)
  <1>0. sn \in SN /\ vr_uh \in SN /\ vr_ur \in SN /\ pc \in [Threads -> Labels]
        /\ dar_buffer \in [SN -> Pdus \cup {NoPdu}] /\ loop \in [sn : SN, end : SN]
        /\ Succ(sn) \in SN
    BY SuccType DEF TypeOK
  <1>1. Dist(vr_ur, vr_uh) <= WindowSize /\ FilledFrom(vr_ur) /\ ~Garbage(sn)
    BY DEF Store, WindowInv, Low
  <1>2. \A s \in SN : dar_buffer'[s] # NoPdu => dar_buffer[s] # NoPdu \/ s = sn
    BY <1>0 DEF Store
  <1>3. vr_uh' = uh /\ vr_ur' = vr_ur
    BY DEF Store
  <1>4. CASE inside
    <2>1. Dist(sn, vr_uh) \in 1 .. WindowSize
      BY <1>4, <1>0, ReorderingWindow
    <2>2. sn # vr_uh /\ Dist(sn, vr_uh) <= Dist(vr_ur, vr_uh)
      BY <2>1, <1>0, <1>1, BehindUr, DistType DEF Garbage
    <2>3. pc'[t] = "advance" /\ vr_uh' = vr_uh
      BY <1>4, <1>0, <1>3 DEF Store, Goto
    <2>4. FilledFrom(vr_ur)'
      BY <2>2, <2>3, <1>1, <1>2, <1>3 DEF FilledFrom, Dist
    <2>5. Dist(vr_ur, vr_uh)' = Dist(vr_ur, vr_uh) /\ Low(t)' = vr_ur'
      BY <2>3, <1>3 DEF Dist, Low
    <2> QED
      BY <2>3, <2>4, <2>5, <1>0, <1>1, <1>3, DistType DEF WindowInv, Locked
  <1>5. CASE ~inside /\ ~pull
    <2>1. Dist(sn, vr_uh) \notin 1 .. WindowSize /\ Dist(vr_ur, Succ(sn)) \in 1 .. WindowSize
      BY <1>5, <1>0, ReorderingWindow
    <2>2. pc'[t] = "advance" /\ vr_uh' = Succ(sn)
      BY <1>5, <1>0, <1>3 DEF Store, Goto
    <2>3. \A s \in SN : dar_buffer'[s] # NoPdu =>
             s # Succ(sn) /\ Dist(s, Succ(sn)) <= Dist(vr_ur, Succ(sn))
      BY <2>1, <1>0, <1>1, <1>2, KeptWindow DEF FilledFrom
    <2>4. FilledFrom(vr_ur)'
      BY <2>2, <2>3, <1>3 DEF FilledFrom, Dist
    <2>5. Dist(vr_ur, vr_uh)' = Dist(vr_ur, Succ(sn)) /\ Low(t)' = vr_ur'
      BY <2>2, <1>3 DEF Dist, Low
    <2> QED
      BY <2>1, <2>2, <2>4, <2>5, <1>0, <1>3, DistType DEF WindowInv, Locked
  <1>6. CASE pull
    <2> DEFINE e == Edge(Succ(sn))
    <2>1. Dist(sn, vr_uh) \notin 1 .. WindowSize /\ Dist(vr_ur, Succ(sn)) \notin 1 .. WindowSize
      BY <1>6, <1>0, ReorderingWindow
    <2>2. Dist(vr_ur, e) \in 1 .. WindowSize /\ e \in SN /\ vr_ur # e
      BY <2>1, <1>0, <1>1, PulledWindow, EdgeType, DistType
    <2>3. pc'[t] = "pull" /\ vr_uh' = Succ(sn) /\ loop' = [sn |-> vr_ur, end |-> e]
      BY <1>6, <2>2, <1>0, <1>3 DEF Store, Goto, EnterReassembly
    <2>4. \A s \in SN : dar_buffer'[s] # NoPdu =>
             Dist(e, s) < WindowSize \/ Dist(s, e) \in 1 .. Dist(vr_ur, e)
      BY <2>1, <1>0, <1>1, <1>2, PulledWindow DEF FilledFrom
    <2>5. FilledAround(loop.sn, loop.end)'
      BY <2>3, <2>4 DEF FilledAround, Dist
    <2>6. (Dist(loop.sn, loop.end) \in 1 .. WindowSize)' /\ loop'.end = Edge(vr_uh)'
      BY <2>2, <2>3 DEF Dist, Edge
    <2>7. (Dist(vr_ur, Edge(vr_uh)) <= WindowSize)'
      BY <2>2, <2>3, <2>6, <1>0, <1>3, DistType, WindowAssumption DEF Dist
    <2> QED
      BY <2>3, <2>5, <2>6, <2>7 DEF WindowInv, Locked
  <1> QED
    BY <1>4, <1>5, <1>6
\* A step that leaves the window alone and stays between two loops.
LEMMA WindowKept ==
  ASSUME NEW t \in Threads, WindowInv(t), UNCHANGED rx_vars, UNCHANGED loop,
         pc[t] \notin Locked, pc'[t] \notin Locked,
         pc'[t] = "expired" => t_reordering.running
  PROVE  WindowInv(t)'
  <1>1. pc'[t] \notin {"pull", "pulled", "deliver", "skip", "flush", "advancing"}
        /\ pc[t] \notin {"pull", "pulled", "deliver", "skip", "flush", "advancing"}
    BY DEF Locked
  <1>2. Low(t) = vr_ur /\ Low(t)' = vr_ur'
    BY <1>1 DEF Low
  <1> QED
    BY <1>1, <1>2 DEF WindowInv, FilledFrom, UxInWindow, Dist, rx_vars

\* Every step of the only thread keeps the inductive invariant.
LEMMA WindowStep ==
  ASSUME SingleThread, TypeOK, LockGuards, WindowInvariant, [Next]_vars
  PROVE  WindowInvariant'
  <1> SUFFICES ASSUME NEW t \in Threads PROVE WindowInv(t)'
    BY DEF WindowInvariant
  <1>i. WindowInv(t)
    BY DEF WindowInvariant
  <1>p. vr_ur \in SN /\ vr_ux \in SN /\ vr_uh \in SN /\ pc \in [Threads -> Labels]
        /\ dar_buffer \in [SN -> Pdus \cup {NoPdu}] /\ loop \in [sn : SN, end : SN]
        /\ rx_pdu[t].sn \in SN
    BY DEF TypeOK
  <1>1. CASE FramesPass
    <2>1. Low(t)' = Low(t) /\ pc' = pc /\ t_reordering'.running = t_reordering.running
      BY <1>1 DEF FramesPass, Low, TypeOK
    <2> QED
      BY <1>1, <1>i, <2>1 DEF FramesPass, WindowInv, FilledFrom, FilledAround, UxInWindow, Dist, Edge
  <1>2. ASSUME NEW sn \in SN, NEW pdu \in Pdus, DataIndication(t, sn, pdu)
        PROVE  WindowInv(t)'
    BY <1>2, <1>i, <1>p, WindowKept DEF DataIndication, Goto, Locked
  <1>3. CASE Step(t)
    <2>1. CASE StatusIndication(t)
      BY <2>1, <1>i, <1>p, WindowKept DEF StatusIndication, Goto, Locked
    <2>2. CASE Discard(t)
      BY <2>2, <1>i, <1>p, WindowKept DEF Discard, Goto, Locked
    <2>3. CASE Store(t)
      BY <2>3, <1>i, WindowStore
    <2>4. CASE TryReassembly(t, "pull", "pulled")
      BY <2>4, <1>i, PullReassembly
    <2>5. CASE Pulled(t)
      <3>1. vr_ur' = Edge(vr_uh) /\ vr_uh' = vr_uh /\ dar_buffer' = dar_buffer
            /\ pc'[t] = "advance" /\ Low(t)' = vr_ur'
        BY <2>5, <1>p DEF Pulled, Goto, Low
      <3>2. \A sn \in SN : dar_buffer[sn] # NoPdu => Dist(Edge(vr_uh), sn) < WindowSize
        BY <2>5, <1>i, <1>p, EdgeType, DistType DEF Pulled, WindowInv, FilledAround
      <3>3. Dist(vr_ur, vr_uh)' = WindowSize /\ Dist(Low(t), vr_uh)' = WindowSize
        BY <3>1, <1>p, EdgeDist DEF Dist
      <3>4. FilledFrom(Low(t))'
        BY <3>1, <3>2, <3>3, <1>p, EdgeDist DEF FilledFrom, Dist
      <3> QED
        BY <3>1, <3>3, <3>4, WindowAssumption DEF WindowInv, Locked
    <2>6. CASE Advance(t)
      <3>1. Dist(vr_ur, vr_uh) <= WindowSize /\ FilledFrom(vr_ur)
        BY <2>6, <1>i DEF Advance, WindowInv, Low
      <3>2. CASE rx_pdu[t].sn = vr_ur /\ dar_buffer[vr_ur] # NoPdu
        <4>1. /\ vr_ur' = Succ(vr_ur) /\ vr_uh' = vr_uh /\ dar_buffer' = dar_buffer
              /\ pc'[t] = "advancing" /\ Low(t)' = vr_ur /\ rx_pdu'[t].sn = vr_ur
          BY <2>6, <3>2, <1>p DEF Advance, Goto, Low
        <4>2. vr_ur # vr_uh
          BY <3>1, <3>2, <1>p DEF FilledFrom
        <4>3. Dist(Succ(vr_ur), vr_uh) = Dist(vr_ur, vr_uh) - 1 /\ Succ(vr_ur) # vr_ur
          BY <4>2, <1>p, DistSucc, DistType
        <4>4. Dist(vr_ur, vr_uh)' = Dist(Succ(vr_ur), vr_uh) /\ Dist(Low(t), vr_uh)' = Dist(vr_ur, vr_uh)
          BY <4>1 DEF Dist
        <4>5. FilledFrom(Low(t))'
          BY <4>1, <3>1 DEF FilledFrom, Dist
        <4> QED
          BY <4>1, <4>3, <4>4, <4>5, <3>1, <1>p, DistType DEF WindowInv, Locked
      <3>3. CASE ~(rx_pdu[t].sn = vr_ur /\ dar_buffer[vr_ur] # NoPdu)
        <4>1. /\ vr_ur' = vr_ur /\ vr_uh' = vr_uh /\ dar_buffer' = dar_buffer
              /\ pc'[t] = "timers" /\ Low(t)' = vr_ur
          BY <2>6, <3>3, <1>p DEF Advance, Goto, Low
        <4>2. FilledFrom(Low(t))' /\ Dist(Low(t), vr_uh)' = Dist(vr_ur, vr_uh)
              /\ Dist(vr_ur, vr_uh)' = Dist(vr_ur, vr_uh)
          BY <4>1, <3>1 DEF FilledFrom, Dist
        <4> QED
          BY <4>1, <4>2, <3>1, <1>p, DistType DEF WindowInv, Locked
      <3> QED
        BY <3>2, <3>3
    <2>7. CASE Advancing(t)
      <3> DEFINE sn == rx_pdu[t].sn
      <3>1. /\ Dist(sn, vr_uh) <= WindowSize /\ Dist(vr_ur, vr_uh) <= Dist(sn, vr_uh)
            /\ FilledFrom(sn) /\ sn # vr_ur
        BY <2>7, <1>i DEF Advancing, WindowInv, Low
      <3>2. CASE dar_buffer[vr_ur] # NoPdu /\ vr_ur # vr_uh
        <4>1. /\ vr_ur' = Succ(vr_ur) /\ vr_uh' = vr_uh /\ dar_buffer' = dar_buffer
              /\ pc'[t] = "advancing" /\ Low(t)' = sn /\ rx_pdu'[t].sn = sn
          BY <2>7, <3>2, <1>p DEF Advancing, Low
        <4>2. Dist(Succ(vr_ur), vr_uh) = Dist(vr_ur, vr_uh) - 1
          BY <3>2, <1>p, DistSucc
        <4>3. Succ(vr_ur) # sn
          BY <4>2, <3>1, <1>p, DistType
        <4>4. FilledFrom(Low(t))' /\ Dist(Low(t), vr_uh)' = Dist(sn, vr_uh)
              /\ Dist(vr_ur, vr_uh)' = Dist(Succ(vr_ur), vr_uh)
          BY <4>1, <3>1 DEF FilledFrom, Dist
        <4> QED
          BY <4>1, <4>2, <4>3, <4>4, <3>1, <1>p, DistType DEF WindowInv, Locked
      <3>3. CASE dar_buffer[vr_ur] = NoPdu \/ vr_ur = vr_uh
        <4>1. /\ vr_ur' = vr_ur /\ vr_uh' = vr_uh /\ dar_buffer' = dar_buffer
              /\ pc'[t] = "deliver" /\ loop' = [sn |-> sn, end |-> vr_ur] /\ Low(t)' = sn
          BY <2>7, <3>1, <3>3, <1>p DEF Advancing, EnterReassembly, Goto, Low
        <4>2. FilledFrom(Low(t))' /\ Dist(Low(t), vr_uh)' = Dist(sn, vr_uh)
              /\ Dist(vr_ur, vr_uh)' = Dist(vr_ur, vr_uh)
          BY <4>1, <3>1 DEF FilledFrom, Dist
        <4> QED
          BY <4>1, <4>2, <3>1 DEF WindowInv, Locked
      <3> QED
        BY <3>2, <3>3
    <2>8. CASE TryReassembly(t, "deliver", "timers") \/ TryReassembly(t, "flush", "rearm")
      BY <2>8, <1>i, WindowReassembly
    <2>9. CASE Timers(t)
      <3>1. Dist(vr_ur, vr_uh) <= WindowSize /\ FilledFrom(vr_ur)
        BY <2>9, <1>i DEF Timers, WindowInv, Low
      <3>2. /\ vr_ur' = vr_ur /\ vr_uh' = vr_uh /\ dar_buffer' = dar_buffer
            /\ pc'[t] = "poll" /\ Low(t)' = vr_ur
        BY <2>9, <1>p DEF Timers, Goto, Low
      <3>3. FilledFrom(Low(t))' /\ Dist(Low(t), vr_uh)' = Dist(vr_ur, vr_uh)
            /\ Dist(vr_ur, vr_uh)' = Dist(vr_ur, vr_uh)
        BY <3>1, <3>2 DEF FilledFrom, Dist
      <3>4. rlc_um_in_window(vr_uh, vr_ur, vr_uh, vr_uh) = 2 <=> vr_ur # vr_uh
        BY <3>1, <1>p, Awaited
      <3>5. UxInWindow' /\ (vr_ur # vr_uh => t_reordering.running)'
        <4>1. CASE vr_ux' = vr_uh /\ t_reordering' = TimerStarted
          <5>1. Dist(vr_ux, vr_uh)' = Dist(vr_uh, vr_uh)
            BY <4>1, <3>2 DEF Dist
          <5>2. Dist(vr_uh, vr_uh) = 0 /\ Dist(vr_ur, vr_uh) \in Nat
            BY <1>p, DistType, WindowAssumption
          <5>3. (Dist(vr_ux, vr_uh) <= Dist(vr_ur, vr_uh))'
            BY <5>1, <5>2, <3>3
          <5> QED
            BY <5>3, <4>1 DEF UxInWindow, TimerStarted
        <4>2. CASE t_reordering' = TimerStopped /\ vr_ur = vr_uh
          BY <4>2, <3>2 DEF UxInWindow, TimerStopped
        <4>3. CASE /\ t_reordering.running /\ t_reordering' = t_reordering /\ vr_ux' = vr_ux
                   /\ vr_uh = vr_ux \/ rlc_um_in_reordering_window(vr_uh, vr_ux)
                   /\ rlc_um_in_window(vr_uh, vr_ur, vr_ux, vr_uh) \notin {-2, 1}
          BY <4>3, <3>1, <3>2, <1>p, NotPassed DEF UxInWindow, Dist
        <4> QED
          BY <2>9, <3>4, <4>1, <4>2, <4>3 DEF Timers, Passed
      <3> QED
        BY <3>1, <3>2, <3>3, <3>5, <1>p, DistType DEF WindowInv
    <2>10. CASE PollTimer(t)
      BY <2>10, <1>i, <1>p, WindowKept DEF PollTimer, Goto, Locked
    <2>11. CASE TryLockBusy(t)
      BY <2>11, <1>i, <1>p, WindowKept DEF TryLockBusy, Goto, Locked
    <2>12. CASE TryLock(t)
      <3>1. /\ Dist(vr_ur, vr_uh) <= WindowSize /\ FilledFrom(vr_ur)
            /\ Dist(vr_ux, vr_uh) <= Dist(vr_ur, vr_uh)
        BY <2>12, <1>i DEF TryLock, WindowInv, Low, Locked, UxInWindow
      <3>2. /\ vr_ur' = vr_ux /\ vr_uh' = vr_uh /\ dar_buffer' = dar_buffer
            /\ pc'[t] = "skip" /\ loop'.sn = vr_ur /\ Low(t)' = vr_ur
        BY <2>12, <1>p DEF TryLock, Goto, Low
      <3>3. FilledFrom(Low(t))' /\ Dist(Low(t), vr_uh)' = Dist(vr_ur, vr_uh)
            /\ Dist(vr_ur, vr_uh)' = Dist(vr_ux, vr_uh)
        BY <3>1, <3>2 DEF FilledFrom, Dist
      <3> QED
        BY <3>1, <3>2, <3>3 DEF WindowInv, Locked
    <2>13. CASE Skip(t)
      <3> DEFINE old == loop.sn
      <3>1. /\ Dist(old, vr_uh) <= WindowSize /\ Dist(vr_ur, vr_uh) <= Dist(old, vr_uh)
            /\ FilledFrom(old) /\ old \in SN
        BY <2>13, <1>i, <1>p DEF Skip, WindowInv, Low
      <3>2. CASE dar_buffer[vr_ur] # NoPdu
        <4>1. /\ vr_ur' = Succ(vr_ur) /\ vr_uh' = vr_uh /\ dar_buffer' = dar_buffer
              /\ pc'[t] = "skip" /\ Low(t)' = old
          BY <2>13, <3>2, <1>p DEF Skip, Low
        <4>2. Dist(Succ(vr_ur), vr_uh) = Dist(vr_ur, vr_uh) - 1
          BY <3>1, <3>2, <1>p, DistSucc DEF FilledFrom
        <4>3. FilledFrom(Low(t))' /\ Dist(Low(t), vr_uh)' = Dist(old, vr_uh)
              /\ Dist(vr_ur, vr_uh)' = Dist(Succ(vr_ur), vr_uh)
          BY <4>1, <3>1 DEF FilledFrom, Dist
        <4> QED
          BY <4>1, <4>2, <4>3, <3>1, <1>p, DistType DEF WindowInv, Locked
      <3>3. CASE dar_buffer[vr_ur] = NoPdu
        <4>1. /\ vr_ur' = vr_ur /\ vr_uh' = vr_uh /\ dar_buffer' = dar_buffer
              /\ loop' = [sn |-> old, end |-> vr_ur] /\ Low(t)' = old
              /\ pc'[t] = IF old = vr_ur THEN "rearm" ELSE "flush"
          BY <2>13, <3>3, <1>p DEF Skip, EnterReassembly, Goto, Low
        <4>2. FilledFrom(Low(t))' /\ Dist(Low(t), vr_uh)' = Dist(old, vr_uh)
              /\ Dist(vr_ur, vr_uh)' = Dist(vr_ur, vr_uh)
          BY <4>1, <3>1 DEF FilledFrom, Dist
        <4> QED
          BY <4>1, <4>2, <3>1 DEF WindowInv, Locked
      <3> QED
        BY <3>2, <3>3
    <2>14. CASE Rearm(t)
      <3>1. Dist(vr_ur, vr_uh) <= WindowSize /\ FilledFrom(vr_ur)
        BY <2>14, <1>i DEF Rearm, WindowInv, Low
      <3>2. /\ vr_ur' = vr_ur /\ vr_uh' = vr_uh /\ dar_buffer' = dar_buffer
            /\ pc'[t] = "idle" /\ Low(t)' = vr_ur
        BY <2>14, <1>p DEF Rearm, Goto, Low
      <3>3. FilledFrom(Low(t))' /\ Dist(Low(t), vr_uh)' = Dist(vr_ur, vr_uh)
            /\ Dist(vr_ur, vr_uh)' = Dist(vr_ur, vr_uh)
        BY <3>1, <3>2 DEF FilledFrom, Dist
      <3>4. rlc_um_in_window(vr_uh, vr_ur, vr_uh, vr_uh) = 2 <=> vr_ur # vr_uh
        BY <3>1, <1>p, Awaited
      <3>5. UxInWindow' /\ (vr_ur # vr_uh => t_reordering.running)'
        <4>1. CASE vr_ux' = vr_uh /\ t_reordering' = TimerStarted
          <5>1. Dist(vr_ux, vr_uh)' = Dist(vr_uh, vr_uh)
            BY <4>1, <3>2 DEF Dist
          <5>2. Dist(vr_uh, vr_uh) = 0 /\ Dist(vr_ur, vr_uh) \in Nat
            BY <1>p, DistType, WindowAssumption
          <5>3. (Dist(vr_ux, vr_uh) <= Dist(vr_ur, vr_uh))'
            BY <5>1, <5>2, <3>3
          <5> QED
            BY <5>3, <4>1 DEF UxInWindow, TimerStarted
        <4>2. CASE t_reordering' = TimerStopped /\ vr_ur = vr_uh
          BY <4>2, <3>2 DEF UxInWindow, TimerStopped
        <4> QED
          BY <2>14, <3>4, <4>1, <4>2 DEF Rearm
      <3> QED
        BY <3>1, <3>2, <3>3, <3>5, <1>p, DistType DEF WindowInv
    <2> QED
      BY <1>3, <2>1, <2>2, <2>3, <2>4, <2>5, <2>6, <2>7, <2>8, <2>9, <2>10, <2>11,
         <2>12, <2>13, <2>14 DEF Step, Inside
  <1>4. CASE UNCHANGED vars
    <2>1. Low(t)' = Low(t)
      BY <1>4 DEF Low, vars
    <2> QED
      BY <1>4, <1>i, <2>1 DEF vars, WindowInv, FilledFrom, FilledAround, UxInWindow, Dist, Edge
  <1> QED
    BY <1>1, <1>2, <1>3, <1>4, ThreadsAssumption DEF Next, SingleThread

\* The state between two calls, from the inductive invariant.
LEMMA WindowInvariantImplies ==
  TypeOK /\ LockGuards /\ WindowInvariant => WindowConsistent /\ GapIsTimed
  <1> SUFFICES ASSUME TypeOK, LockGuards, WindowInvariant, Quiescent
               PROVE  /\ UrInWindow /\ BufferInWindow /\ UxInWindow
                      /\ vr_ur # vr_uh => t_reordering.running
    BY DEF WindowConsistent, GapIsTimed
  <1>1. PICK t \in Threads : TRUE
    BY ThreadsAssumption
  <1>2. pc[t] \notin Locked
    BY NullAssumption DEF LockGuards, Quiescent
  <1>3. WindowInv(t) /\ Low(t) = vr_ur
    BY <1>2 DEF WindowInvariant, Low, Locked
  <1> QED
    BY <1>2, <1>3 DEF WindowInv, Locked, UrInWindow, BufferInWindow, FilledFrom

\* The inductive invariant holds in every state, for one thread.
LEMMA WindowAlways ==
  ASSUME SingleThread
  PROVE  Spec => [](TypeOK /\ LockGuards /\ WindowInvariant)
  <1>1. Init => TypeOK /\ LockGuards /\ WindowInvariant
    BY TypeInit, LockInit, WindowInit
  <1>2. TypeOK /\ LockGuards /\ WindowInvariant /\ [Next]_vars
        => (TypeOK /\ LockGuards /\ WindowInvariant)'
    BY TypeStep, LockStep, WindowStep
  <1> QED
    BY <1>1, <1>2, PTL DEF Spec

\* Called from one thread, the receiving entity keeps the whole invariant, in the
\* middle of its loops too.
THEOREM WindowInvariantHolds == SingleThread => (Spec => []WindowInvariant)
  <1> SUFFICES ASSUME SingleThread PROVE Spec => []WindowInvariant
    OBVIOUS
  <1> QED
    BY WindowAlways, PTL

\* Called from one thread (the simulator), the receiving entity keeps its
\* reordering window consistent whatever PDUs arrive and in whatever order.
THEOREM WindowSafe == SingleThread => (Spec => []WindowConsistent)
  <1> SUFFICES ASSUME SingleThread PROVE Spec => []WindowConsistent
    OBVIOUS
  <1> QED
    BY WindowAlways, WindowInvariantImplies, PTL

\* Called from one thread, the entity never waits for a PDU without
\* t-Reordering running.
THEOREM GapSafe == SingleThread => (Spec => []GapIsTimed)
  <1> SUFFICES ASSUME SingleThread PROVE Spec => []GapIsTimed
    OBVIOUS
  <1> QED
    BY WindowAlways, WindowInvariantImplies, PTL

\* From a step's invariant, VR(UR) and VR(UH) only move forward.
LEMMA ForwardStep ==
  ASSUME SingleThread, TypeOK, LockGuards, WindowInvariant, [Next]_vars
  PROVE  [MovesForward]_vars
  <1>p. vr_ur \in SN /\ vr_ux \in SN /\ vr_uh \in SN
    BY DEF TypeOK
  <1>0. \A a \in SN : Dist(a, a) <= WindowSize /\ Dist(a, Succ(a)) <= WindowSize
    BY WindowAssumption DEF Dist, Succ, CRem, SN
  <1>s. ASSUME UNCHANGED <<vr_ur, vr_uh>> PROVE MovesForward
    BY <1>s, <1>0, <1>p DEF MovesForward
  <1>1. CASE FramesPass
    BY <1>1, <1>s DEF FramesPass
  <1>2. ASSUME NEW t \in Threads, NEW sn \in SN, NEW pdu \in Pdus, DataIndication(t, sn, pdu)
        PROVE  MovesForward
    BY <1>2, <1>s DEF DataIndication, rx_vars
  <1>3. ASSUME NEW t \in Threads, Step(t) PROVE MovesForward
    <2>i. WindowInv(t) /\ rx_pdu[t].sn \in SN
      BY DEF WindowInvariant, TypeOK
    <2>1. CASE StatusIndication(t) \/ Discard(t) \/ PollTimer(t) \/ TryLockBusy(t)
      BY <2>1, <1>s DEF StatusIndication, Discard, PollTimer, TryLockBusy, rx_vars
    <2>2. CASE \/ TryReassembly(t, "pull", "pulled") \/ TryReassembly(t, "deliver", "timers")
               \/ TryReassembly(t, "flush", "rearm") \/ Timers(t) \/ Rearm(t)
      BY <2>2, <1>s DEF TryReassembly, Timers, Rearm
    <2>3. CASE Store(t)
      <3> DEFINE sn == rx_pdu[t].sn
      <3>1. vr_ur' = vr_ur /\ vr_uh' = IF rlc_um_in_reordering_window(vr_uh, sn)
                                       THEN vr_uh ELSE Succ(sn)
        BY <2>3 DEF Store
      <3>2. \A h, x \in SN : Dist(x, h) \notin 1 .. WindowSize => Dist(h, Succ(x)) <= WindowSize
        BY WindowAssumption DEF Dist, Succ, CRem, SN
      <3> QED
        BY <3>1, <3>2, <1>0, <1>p, <2>i, ReorderingWindow DEF MovesForward
    <2>4. CASE Pulled(t)
      BY <2>4, <2>i, <1>0, <1>p DEF Pulled, WindowInv, MovesForward
    <2>5. CASE Advance(t) \/ Advancing(t) \/ Skip(t)
      BY <2>5, <1>0, <1>p DEF Advance, Advancing, Skip, MovesForward
    <2>6. CASE TryLock(t)
      <3>1. Dist(vr_ur, vr_uh) <= WindowSize /\ Dist(vr_ux, vr_uh) <= Dist(vr_ur, vr_uh)
        BY <2>6, <2>i DEF TryLock, WindowInv, Low, Locked, UxInWindow
      <3>2. Dist(vr_ur, vr_ux) <= WindowSize
        BY <3>1, <1>p, WindowAssumption DEF Dist, SN
      <3> QED
        BY <2>6, <3>2, <1>0, <1>p DEF TryLock, MovesForward
    <2> QED
      BY <1>3, <2>1, <2>2, <2>3, <2>4, <2>5, <2>6 DEF Step, Inside
  <1> QED
    BY <1>1, <1>2, <1>3, ThreadsAssumption DEF Next

\* Called from one thread, VR(UR) and VR(UH) never move backwards: an SN
\* that was passed is not waited for, nor reassembled, a second time.
THEOREM ForwardSafe == SingleThread => (Spec => Forward)
  <1> SUFFICES ASSUME SingleThread PROVE Spec => Forward
    OBVIOUS
  <1>1. TypeOK /\ LockGuards /\ WindowInvariant /\ [Next]_vars => [MovesForward]_vars
    BY ForwardStep
  <1> QED
    BY <1>1, WindowAlways, PTL DEF Spec, Forward
=============================================================================
