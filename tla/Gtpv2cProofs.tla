----------------------------- MODULE Gtpv2cProofs -----------------------------
(***************************************************************************)
(* Proofs about Gtpv2c, for any number of requests, any T3, N3 and latency  *)
(* of the timer service, and any loss, delay and reordering of datagrams.   *)
(***************************************************************************)
EXTENDS Gtpv2c, DataLemmas

OsStates == {"off", "running", "disarmed", "queued"}
Heaps == UNION {[D -> Int] : D \in SUBSET Seqs}
Timers == [heap : Heaps, active : Seqs \cup {NoTimer}, os : [Seqs -> OsStates],
           loop : BOOLEAN, aborted : {"no", "timer", "tunnel"}]

\* Every timer of the heap has its time, so that there is an earliest one.
HeapBounded(T) == \E b \in Int : \A t \in Timed(T) : b <= T.heap[t]

\* The active timer is in the heap, and no other is set up in the timer service;
\* only the loop of nwGtpv2cProcessTimeout leaves timers without an active one, and
\* a timer that is active in it was started by a callback of this loop.
ActiveSound(T) ==
  /\ T.active # NoTimer => T.active \in Timed(T)
  /\ \A t \in Seqs : T.os[t] # "off" => t = T.active
  /\ ~T.loop /\ Timed(T) # {} => T.active # NoTimer
  /\ T.loop /\ T.active # NoTimer => T.heap[T.active] \in 1 .. T3

TimersSound ==
  /\ tm \in [Nodes -> Timers]
  /\ \A n \in Nodes : HeapBounded(tm[n])
  /\ \A n \in Nodes : tm[n].aborted = "no" => ActiveSound(tm[n])

\* Transactions and their timers, in the loop too.
Transactions ==
  /\ next \in 1 .. MaxRequests + 1
  /\ DOMAIN tx \subseteq 1 .. next - 1 /\ tx \in [DOMAIN tx -> Nat]
  /\ DOMAIN rx \subseteq Seqs /\ rx \in [DOMAIN rx -> {"waiting", "answered"}]
  /\ tm["mme"].aborted = "no" => Timed(tm["mme"]) = DOMAIN tx
  /\ tm["sgw"].aborted = "no" =>
       Timed(tm["sgw"]) = {s \in DOMAIN rx : rx[s] = "answered"}

\* What the applications were told.
Outcomes ==
  /\ told \in [Seqs -> Nat] /\ app \in [Seqs -> {0, 1}]
  /\ \A s \in Seqs : told[s] = IF s < next /\ s \notin DOMAIN tx THEN 1 ELSE 0
  /\ \A s \in Seqs : app[s] = 1 => s \in DOMAIN rx /\ rx[s] = "waiting"

GtpInvariant == TimersSound /\ Transactions /\ Outcomes

\* The timer service serves the active timer, and the others end less than T3 before
\* it: a callback may have left a later timer active than the first.
ActiveServed(T) ==
  T.active # NoTimer =>
    /\ T.os[T.active] \in {"running", "queued"}
    /\ ~T.loop => \A t \in Timed(T) : T.heap[t] + T3 > T.heap[T.active]

ServedInvariant ==
  \A n \in Nodes :
    /\ \A t \in Timed(tm[n]) : tm[n].heap[t] > -(T3 + Latency)
    /\ tm[n].aborted = "no" => ActiveServed(tm[n])
-----------------------------------------------------------------------------
(* What the operations on timers return.                                    *)

LEMMA GtpFacts ==
  /\ MaxRequests \in Nat /\ T3 \in Nat /\ T3 >= 1 /\ N3 \in Nat /\ Latency \in Nat
  /\ NoTimer \notin Seqs /\ T3 * N3 \in Nat /\ Seqs \subseteq Nat
BY GtpAssumption DEF Seqs

LEMMA EmptyHeap ==
  ASSUME NEW D, NEW f \in [D -> Int]
  PROVE  f = <<>> <=> D = {}
<1>1. DOMAIN f = D /\ DOMAIN <<>> = {}
  OBVIOUS
<1>2. ASSUME D = {}
      PROVE  f = <<>>
  BY <1>2, SMT
<1> QED
  BY <1>1, <1>2, Zenon

\* The heap is a function from some of the timers to their times.
LEMMA HeapFacts ==
  ASSUME NEW T \in Timers
  PROVE  /\ Timed(T) \subseteq Seqs /\ T.heap \in [Timed(T) -> Int]
         /\ T.heap = <<>> <=> Timed(T) = {}
<1>1. PICK D \in SUBSET Seqs : T.heap \in [D -> Int]
  BY DEF Timers, Heaps
<1>2. T.heap = <<>> <=> D = {}
  BY <1>1, EmptyHeap
<1> QED
  BY <1>1, <1>2 DEF Timed

LEMMA HeapIntro ==
  ASSUME NEW D \in SUBSET Seqs, NEW f \in [D -> Int]
  PROVE  f \in Heaps
BY DEF Heaps

\* nwGtpv2cTmrMinHeapPeek finds the earliest timer.
LEMMA FirstFacts ==
  ASSUME NEW T \in Timers, HeapBounded(T), Timed(T) # {}
  PROVE  /\ First(T) \in Timed(T)
         /\ \A u \in Timed(T) : T.heap[First(T)] <= T.heap[u]
<1>1. Timed(T) \subseteq Seqs /\ T.heap \in [Timed(T) -> Int]
  BY HeapFacts
<1> DEFINE S == {T.heap[t] : t \in Timed(T)}
           m == Min(S)
           R == {t \in Timed(T) : T.heap[t] = m}
           r == Min(R)
<1>2. m \in S /\ \A x \in S : m <= x
  <2>1. S \subseteq Int /\ S # {}
    BY <1>1
  <2>2. PICK b \in Int : \A t \in Timed(T) : b <= T.heap[t]
    BY DEF HeapBounded
  <2>3. \A x \in S : b <= x
    BY <2>2
  <2> HIDE DEF S
  <2> QED
    BY <2>1, <2>3, MinIsLeast
<1>3. R # {} /\ R \subseteq Int /\ \A x \in R : 0 <= x
  BY <1>1, <1>2 DEF Seqs
<1>4. r \in R /\ \A x \in R : r <= x
  <2>1. 0 \in Int
    OBVIOUS
  <2> HIDE DEF R
  <2> QED
    BY <1>3, <2>1, MinIsLeast
<1>5. r \in Timed(T) /\ T.heap[r] = m
  BY <1>4
<1>6. \A u \in Timed(T) : T.heap[u] \in S /\ T.heap[u] \in Int /\ u \in Int
  BY <1>1 DEF Seqs
<1>7. \A u \in Timed(T) : T.heap[u] = m => u \in R
  OBVIOUS
<1> HIDE DEF m, r, R, S
<1>8. \A u \in Timed(T) : T.heap[r] < T.heap[u] \/ (T.heap[r] = T.heap[u] /\ r <= u)
  BY <1>2, <1>4, <1>5, <1>6, <1>7
<1>9. /\ First(T) \in Timed(T)
      /\ \A u \in Timed(T) : \/ T.heap[First(T)] < T.heap[u]
                             \/ T.heap[First(T)] = T.heap[u] /\ First(T) <= u
  BY <1>5, <1>8 DEF First
<1> QED
  BY <1>1, <1>9

LEMMA DropFacts ==
  ASSUME NEW f, NEW x
  PROVE  /\ DOMAIN Drop(f, x) = DOMAIN f \ {x}
         /\ Drop(f, x) = [y \in DOMAIN f \ {x} |-> f[y]]
         /\ \A y \in DOMAIN f \ {x} : Drop(f, x)[y] = f[y]
BY DEF Drop, Restrict

LEMMA WithFacts ==
  ASSUME NEW f, NEW x, NEW v
  PROVE  /\ DOMAIN With(f, x, v) = DOMAIN f \cup {x}
         /\ With(f, x, v)[x] = v
         /\ \A y \in DOMAIN f \ {x} : With(f, x, v)[y] = f[y]
         /\ With(f, x, v) = [y \in DOMAIN f \cup {x} |-> With(f, x, v)[y]]
BY DEF With

LEMMA RemovedFacts ==
  ASSUME NEW T \in Timers, NEW t \in Seqs
  PROVE  /\ Removed(T, t) \in Timers
         /\ Timed(Removed(T, t)) = Timed(T) \ {t}
         /\ \A u \in Timed(T) \ {t} : Removed(T, t).heap[u] = T.heap[u]
         /\ Removed(T, t).active = T.active /\ Removed(T, t).os = T.os
         /\ Removed(T, t).loop = T.loop /\ Removed(T, t).aborted = T.aborted
         /\ HeapBounded(T) => HeapBounded(Removed(T, t))
<1>1. /\ Removed(T, t).heap = Drop(T.heap, t)
      /\ Removed(T, t).active = T.active /\ Removed(T, t).os = T.os
      /\ Removed(T, t).loop = T.loop /\ Removed(T, t).aborted = T.aborted
  BY DEF Removed, Timers
<1>2. Timed(T) \subseteq Seqs /\ T.heap \in [Timed(T) -> Int]
  BY HeapFacts
<1>3. Drop(T.heap, t) \in [Timed(T) \ {t} -> Int]
  BY <1>2 DEF Timed, Drop, Restrict
<1>4. Drop(T.heap, t) \in Heaps
  BY <1>2, <1>3, HeapIntro
<1>5. Removed(T, t) \in Timers
  BY <1>4 DEF Removed, Timers
<1>6. /\ Timed(Removed(T, t)) = Timed(T) \ {t}
      /\ \A u \in Timed(T) \ {t} : Removed(T, t).heap[u] = T.heap[u]
  BY <1>1 DEF Timed, Drop, Restrict
<1> QED
  BY <1>1, <1>5, <1>6 DEF HeapBounded

LEMMA ArmFacts ==
  ASSUME NEW T \in Timers, NEW t \in Seqs, NEW left \in Int
  PROVE  /\ Arm(T, t, left) \in Timers
         /\ Arm(T, t, left).heap = T.heap /\ Arm(T, t, left).active = t
         /\ Arm(T, t, left).os =
              [T.os EXCEPT ![t] = IF left = 0 THEN "disarmed" ELSE "running"]
         /\ Arm(T, t, left).loop = T.loop /\ Arm(T, t, left).aborted = T.aborted
BY DEF Arm, Timers, OsStates

LEMMA DisarmFacts ==
  ASSUME NEW T \in Timers, NEW t \in Seqs
  PROVE  /\ Disarm(T, t) \in Timers
         /\ Disarm(T, t).heap = T.heap /\ Disarm(T, t).active = T.active
         /\ Disarm(T, t).loop = T.loop
         /\ T.os[t] \in {"running", "disarmed"} =>
              /\ Disarm(T, t).os = [T.os EXCEPT ![t] = "off"]
              /\ Disarm(T, t).aborted = T.aborted
         /\ T.os[t] \notin {"running", "disarmed"} =>
              Disarm(T, t).os = T.os /\ Disarm(T, t).aborted = "timer"
BY DEF Disarm, Timers, OsStates
\* What nwGtpv2cStartTimer does to the heap, and which timer is active then.
LEMMA StartTimerFacts ==
  ASSUME NEW T \in Timers, NEW t \in Seqs \ Timed(T), NEW time \in Nat,
         T.aborted = "no", ActiveSound(T), HeapBounded(T),
         NEW U, U = StartTimer(T, t, time)
  PROVE  /\ U \in Timers /\ HeapBounded(U) /\ U.loop = T.loop
         /\ Timed(U) = Timed(T) \cup {t} /\ U.heap[t] = time
         /\ \A u \in Timed(T) : U.heap[u] = T.heap[u]
         /\ \/ /\ T.active # NoTimer /\ T.heap[T.active] <= time
               /\ U.active = T.active /\ U.os = T.os /\ U.aborted = "no"
            \/ /\ T.active # NoTimer => T.heap[T.active] > time
               /\ U.aborted = "no" =>
                    /\ U.active = t
                    /\ \A u \in Seqs \ {t} : U.os[u] = "off"
                    /\ U.os[t] = IF time = 0 THEN "disarmed" ELSE "running"
<1> DEFINE V == [T EXCEPT !.heap = With(@, t, time)]
<1>1. Timed(T) \subseteq Seqs /\ T.heap \in [Timed(T) -> Int]
  BY HeapFacts
<1>2. With(T.heap, t, time) \in [Timed(T) \cup {t} -> Int]
  BY <1>1 DEF With, Timed
<1>3. With(T.heap, t, time) \in Heaps
  BY <1>1, <1>2, HeapIntro
<1>4. /\ V \in Timers /\ V.heap = With(T.heap, t, time) /\ V.active = T.active
      /\ V.os = T.os /\ V.loop = T.loop /\ V.aborted = T.aborted
  BY <1>3 DEF Timers
<1>5. /\ Timed(V) = Timed(T) \cup {t} /\ V.heap[t] = time
      /\ \A u \in Timed(T) : V.heap[u] = T.heap[u]
  BY <1>4 DEF Timed, With
<1>6. HeapBounded(V)
  <2>1. PICK b \in Int : \A u \in Timed(T) : b <= T.heap[u]
    BY DEF HeapBounded
  <2>2. PICK c \in Int : c <= b /\ c <= time
    <3>1. CASE b <= time
      BY <3>1
    <3>2. CASE b > time
      BY <3>2
    <3> QED
      BY <3>1, <3>2
  <2>3. \A u \in Timed(V) : c <= V.heap[u]
    BY <1>1, <1>5, <2>1, <2>2
  <2> QED
    BY <2>3 DEF HeapBounded
<1> HIDE DEF V
<1>7. StartTimer(T, t, time) =
        IF T.active = NoTimer THEN Arm(V, t, time)
        ELSE IF T.heap[T.active] > time THEN Arm(Disarm(V, T.active), t, time)
        ELSE V
  BY DEF StartTimer, V
<1>8. CASE T.active = NoTimer
  <2>1. U = Arm(V, t, time)
    BY <1>7, <1>8
  <2>2. /\ U \in Timers /\ U.heap = V.heap /\ U.active = t
        /\ U.os = [V.os EXCEPT ![t] = IF time = 0 THEN "disarmed" ELSE "running"]
        /\ U.loop = V.loop /\ U.aborted = V.aborted
    BY <2>1, <1>4, ArmFacts
  <2>3. \A u \in Seqs : T.os[u] = "off"
    BY <1>8, GtpFacts DEF ActiveSound, Timers
  <2>4. T.os \in [Seqs -> OsStates]
    BY DEF Timers
  <2> QED
    BY <2>2, <2>3, <2>4, <1>4, <1>5, <1>6, <1>8 DEF Timed, HeapBounded
<1>9. CASE T.active # NoTimer /\ T.heap[T.active] > time
  <2> DEFINE W == Disarm(V, T.active)
  <2>1. U = Arm(W, t, time)
    BY <1>7, <1>9
  <2>2. T.active \in Seqs
    BY <1>9 DEF Timers
  <2>3. /\ W \in Timers /\ W.heap = V.heap /\ W.loop = V.loop
        /\ W.aborted = "no" => W.os = [V.os EXCEPT ![T.active] = "off"]
    BY <2>2, <1>4, DisarmFacts
  <2> HIDE DEF W
  <2>4. /\ U \in Timers /\ U.heap = V.heap /\ U.active = t
        /\ U.os = [W.os EXCEPT ![t] = IF time = 0 THEN "disarmed" ELSE "running"]
        /\ U.loop = V.loop /\ U.aborted = W.aborted
    BY <2>1, <2>3, ArmFacts
  <2>5. \A u \in Seqs : u # T.active => T.os[u] = "off"
    BY DEF ActiveSound
  <2>6. T.os \in [Seqs -> OsStates]
    BY DEF Timers
  <2> QED
    BY <2>2, <2>3, <2>4, <2>5, <2>6, <1>4, <1>5, <1>6, <1>9 DEF Timed, HeapBounded
<1>10. CASE T.active # NoTimer /\ ~(T.heap[T.active] > time)
  <2>1. T.heap[T.active] \in Int
    BY <1>10, <1>1 DEF ActiveSound
  <2> QED
    BY <2>1, <1>7, <1>10, <1>4, <1>5, <1>6
<1> QED
  BY <1>8, <1>9, <1>10
\* nwGtpv2cStartTimer keeps the active timer sound; in the loop it is called with T3.
LEMMA StartTimerSound ==
  ASSUME NEW T \in Timers, NEW t \in Seqs \ Timed(T), NEW time \in Nat,
         T.aborted = "no", ActiveSound(T), HeapBounded(T), T.loop => time = T3,
         NEW U, U = StartTimer(T, t, time), U.aborted = "no"
  PROVE  ActiveSound(U)
<1>1. /\ U \in Timers /\ U.loop = T.loop
      /\ Timed(U) = Timed(T) \cup {t} /\ U.heap[t] = time
      /\ \A u \in Timed(T) : U.heap[u] = T.heap[u]
      /\ \/ /\ T.active # NoTimer /\ U.active = T.active /\ U.os = T.os
         \/ U.active = t /\ \A u \in Seqs \ {t} : U.os[u] = "off"
  BY StartTimerFacts
<1>2. CASE T.active # NoTimer /\ U.active = T.active /\ U.os = T.os
  BY <1>1, <1>2 DEF ActiveSound
<1>3. CASE U.active = t /\ \A u \in Seqs \ {t} : U.os[u] = "off"
  BY <1>1, <1>3, GtpFacts DEF ActiveSound
<1> QED
  BY <1>1, <1>2, <1>3

LEMMA StartTimerServed ==
  ASSUME NEW T \in Timers, NEW t \in Seqs \ Timed(T), NEW time \in Nat \ {0},
         T.aborted = "no", ActiveSound(T), HeapBounded(T), ActiveServed(T),
         NEW U, U = StartTimer(T, t, time), U.aborted = "no"
  PROVE  ActiveServed(U)
<1>1. /\ U.loop = T.loop
      /\ Timed(U) = Timed(T) \cup {t} /\ U.heap[t] = time
      /\ \A u \in Timed(T) : U.heap[u] = T.heap[u]
  BY StartTimerFacts
<1>2. \/ /\ T.active # NoTimer /\ T.heap[T.active] <= time
         /\ U.active = T.active /\ U.os = T.os
      \/ /\ T.active # NoTimer => T.heap[T.active] > time
         /\ U.active = t /\ U.os[t] = "running"
  BY StartTimerFacts
<1>3. Timed(T) \subseteq Seqs /\ T.heap \in [Timed(T) -> Int]
  BY HeapFacts
<1>4. T.active # NoTimer => T.active \in Timed(T)
  BY DEF ActiveSound
<1>5. CASE /\ T.active # NoTimer /\ T.heap[T.active] <= time
           /\ U.active = T.active /\ U.os = T.os
  BY <1>1, <1>3, <1>4, <1>5, GtpFacts DEF ActiveServed
<1>6. CASE /\ T.active # NoTimer => T.heap[T.active] > time
           /\ U.active = t /\ U.os[t] = "running"
  <2>1. ASSUME ~U.loop, NEW u \in Timed(U)
        PROVE  U.heap[u] + T3 > U.heap[U.active]
    <3>1. CASE u = t
      BY <3>1, <1>1, <1>6, GtpFacts
    <3>2. CASE u \in Timed(T)
      <4>1. T.active # NoTimer
        BY <2>1, <1>1, <3>2 DEF ActiveSound
      <4>2. T.heap[u] + T3 > T.heap[T.active]
        BY <2>1, <1>1, <3>2, <4>1 DEF ActiveServed
      <4> QED
        BY <4>1, <4>2, <3>2, <1>1, <1>3, <1>4, <1>6, GtpFacts
    <3> QED
      BY <2>1, <3>1, <3>2, <1>1
  <2> QED
    BY <2>1, <1>6 DEF ActiveServed
<1> QED
  BY <1>2, <1>5, <1>6

LEMMA ArmFirstType ==
  ASSUME NEW T \in Timers, HeapBounded(T)
  PROVE  /\ ArmFirst(T) \in Timers /\ ArmFirst(T).heap = T.heap
         /\ ArmFirst(T).aborted = T.aborted
<1>1. /\ Timed(T) \subseteq Seqs /\ T.heap \in [Timed(T) -> Int]
      /\ T.heap = <<>> <=> Timed(T) = {}
  BY HeapFacts
<1>2. CASE Timed(T) = {}
  BY <1>1, <1>2 DEF ArmFirst
<1>3. CASE Timed(T) # {}
  <2>1. First(T) \in Seqs /\ T.heap[First(T)] \in Int
    BY <1>1, <1>3, FirstFacts
  <2>2. ArmFirst(T) = Arm(T, First(T), T.heap[First(T)])
    BY <1>1, <1>3 DEF ArmFirst
  <2>3. ASSUME NEW f \in Seqs, NEW left \in Int
        PROVE  /\ Arm(T, f, left) \in Timers /\ Arm(T, f, left).heap = T.heap
               /\ Arm(T, f, left).aborted = T.aborted
    BY DEF Arm, Timers, OsStates
  <2> QED
    BY <2>1, <2>2, <2>3
<1> QED
  BY <1>2, <1>3

\* The first entry of the heap becomes the active timer, when there is no other.
LEMMA ArmFirstFacts ==
  ASSUME NEW T \in Timers, HeapBounded(T), T.active = NoTimer, ~T.loop,
         \A u \in Seqs : T.os[u] = "off", NEW U, U = ArmFirst(T)
  PROVE  /\ U \in Timers /\ U.heap = T.heap /\ U.loop = T.loop /\ U.aborted = T.aborted
         /\ ActiveSound(U)
         /\ (Timed(T) # {} => T.heap[First(T)] # 0) => ActiveServed(U)
<1>1. /\ Timed(T) \subseteq Seqs /\ T.heap \in [Timed(T) -> Int]
      /\ T.heap = <<>> <=> Timed(T) = {}
  BY HeapFacts
<1>2. CASE Timed(T) = {}
  <2>1. U = T
    BY <1>1, <1>2 DEF ArmFirst
  <2> QED
    BY <2>1, <1>2 DEF ActiveSound, ActiveServed
<1>3. CASE Timed(T) # {}
  <2> DEFINE f == First(T)
  <2>1. /\ f \in Timed(T) /\ f \in Seqs /\ T.heap[f] \in Int
        /\ \A u \in Timed(T) : T.heap[f] <= T.heap[u]
    BY <1>1, <1>3, FirstFacts
  <2>2. U = Arm(T, f, T.heap[f])
    BY <1>1, <1>3 DEF ArmFirst
  <2> HIDE DEF f
  <2>3. /\ U \in Timers /\ U.heap = T.heap /\ U.active = f
        /\ U.os = [T.os EXCEPT ![f] = IF T.heap[f] = 0 THEN "disarmed" ELSE "running"]
        /\ U.loop = T.loop /\ U.aborted = T.aborted
    BY <2>1, <2>2, ArmFacts
  <2>4. T.os \in [Seqs -> OsStates]
    BY DEF Timers
  <2>5. ActiveSound(U)
    BY <2>1, <2>3, <2>4, GtpFacts DEF ActiveSound, Timed
  <2>6. ASSUME T.heap[f] # 0
        PROVE  ActiveServed(U)
    <3>1. U.os[f] = "running"
      BY <2>1, <2>3, <2>4, <2>6
    <3>2. \A u \in Timed(U) : U.heap[u] + T3 > U.heap[f]
      BY <2>1, <2>3, <1>1, GtpFacts DEF Timed
    <3> QED
      BY <3>1, <3>2, <2>3 DEF ActiveServed
  <2> QED
    BY <2>3, <2>5, <2>6, <1>3 DEF f
<1> QED
  BY <1>2, <1>3

\* nwGtpv2cStopTimer: the timer leaves the heap; if it was the active one, another
\* becomes active or the loop begins.
LEMMA StopTimerFacts ==
  ASSUME NEW T \in Timers, NEW t \in Timed(T), HeapBounded(T),
         T.aborted = "no", ~T.loop, ActiveSound(T), NEW U, U = StopTimer(T, t)
  PROVE  /\ U \in Timers /\ HeapBounded(U) /\ Timed(U) = Timed(T) \ {t}
         /\ \A u \in Timed(U) : U.heap[u] = T.heap[u]
         /\ U.aborted = "no" => ActiveSound(U)
         /\ /\ U.aborted = "no" /\ ActiveServed(T)
            /\ \A u \in Timed(T) : T.heap[u] # 0
            => ActiveServed(U)
<1> DEFINE R == Removed(T, t)
           D == Disarm(R, t)
           V == [D EXCEPT !.active = NoTimer]
<1>1. Timed(T) \subseteq Seqs /\ T.heap \in [Timed(T) -> Int] /\ t \in Seqs
  BY HeapFacts
<1>2. /\ R \in Timers /\ Timed(R) = Timed(T) \ {t}
      /\ \A u \in Timed(T) \ {t} : R.heap[u] = T.heap[u]
      /\ R.active = T.active /\ R.os = T.os /\ R.loop = T.loop /\ R.aborted = T.aborted
      /\ HeapBounded(R)
  BY <1>1, RemovedFacts
<1> HIDE DEF R
<1>3. CASE T.active # t
  <2>1. U = R
    BY <1>3 DEF StopTimer, R
  <2>2. ActiveSound(U)
    BY <2>1, <1>2, <1>3 DEF ActiveSound
  <2>3. ASSUME ActiveServed(T)
        PROVE  ActiveServed(U)
    <3>1. T.active \in Timed(R)
      BY <1>2, <1>3 DEF ActiveSound
    <3> QED
      BY <3>1, <2>1, <2>3, <1>2, <1>3 DEF ActiveServed
  <2> QED
    BY <2>1, <2>2, <2>3, <1>2
<1>4. CASE T.active = t
  <2>1. /\ D \in Timers /\ D.heap = R.heap /\ D.loop = R.loop
        /\ D.aborted = "no" => D.os = [R.os EXCEPT ![t] = "off"]
    BY <1>1, <1>2, DisarmFacts
  <2> HIDE DEF D
  <2>2. /\ V \in Timers /\ V.heap = D.heap /\ V.active = NoTimer /\ V.os = D.os
        /\ V.loop = D.loop /\ V.aborted = D.aborted
    BY <2>1 DEF Timers
  <2> HIDE DEF V
  <2>3. V.aborted = "no" => \A u \in Seqs : V.os[u] = "off"
    <3>1. T.os \in [Seqs -> OsStates]
      BY DEF Timers
    <3>2. \A u \in Seqs : u # t => T.os[u] = "off"
      BY <1>4 DEF ActiveSound
    <3> QED
      BY <3>1, <3>2, <2>1, <2>2, <1>1, <1>2
  <2>4. /\ Timed(V) = Timed(R) /\ HeapBounded(V)
        /\ V.heap = <<>> <=> Timed(V) = {}
        /\ \A u \in Timed(V) : V.heap[u] = T.heap[u]
    BY <2>1, <2>2, <1>2, HeapFacts DEF Timed, HeapBounded
  <2>5. CASE V.heap # <<>> /\ V.heap[First(V)] < 0
    <3>1. U = [V EXCEPT !.loop = TRUE]
      BY <2>5, <1>4 DEF StopTimer, V, D, R
    <3>2. /\ U \in Timers /\ U.heap = V.heap /\ U.active = NoTimer /\ U.os = V.os
          /\ U.loop = TRUE /\ U.aborted = V.aborted
      BY <3>1, <2>2 DEF Timers
    <3>3. U.aborted = "no" => ActiveSound(U) /\ ActiveServed(U)
      BY <3>2, <2>3 DEF ActiveSound, ActiveServed
    <3> QED
      BY <3>2, <3>3, <2>4, <1>2 DEF Timed, HeapBounded
  <2>6. CASE ~(V.heap # <<>> /\ V.heap[First(V)] < 0)
    <3>1. U = ArmFirst(V)
      BY <2>6, <1>4 DEF StopTimer, V, D, R
    <3>2. ~V.loop
      BY <2>2, <2>1, <1>2
    <3>3. CASE V.aborted = "no"
      <4>1. /\ U \in Timers /\ U.heap = V.heap /\ U.loop = V.loop
            /\ U.aborted = V.aborted /\ ActiveSound(U)
            /\ (Timed(V) # {} => V.heap[First(V)] # 0) => ActiveServed(U)
        BY <3>1, <3>2, <3>3, <2>2, <2>3, <2>4, ArmFirstFacts
      <4>2. ASSUME \A u \in Timed(T) : T.heap[u] # 0
            PROVE  Timed(V) # {} => V.heap[First(V)] # 0
        <5>1. Timed(V) # {} => First(V) \in Timed(V)
          BY <2>2, <2>4, FirstFacts
        <5> QED
          BY <5>1, <4>2, <2>4, <1>2
      <4> QED
        BY <4>1, <4>2, <2>4, <1>2 DEF Timed, HeapBounded
    <3>4. CASE V.aborted # "no"
      <4>1. U \in Timers /\ U.heap = V.heap /\ U.aborted = V.aborted
        BY <3>1, <2>2, <2>4, ArmFirstType
      <4> QED
        BY <4>1, <3>4, <2>4, <1>2 DEF Timed, HeapBounded
    <3> QED
      BY <3>3, <3>4
  <2> QED
    BY <2>5, <2>6
<1> QED
  BY <1>3, <1>4
-----------------------------------------------------------------------------
(* The steps of a stack.  Each changes the timers of one node.              *)

LEMMA GtpInitInvariant == GtpInit => GtpInvariant /\ ServedInvariant
<1> SUFFICES ASSUME GtpInit PROVE GtpInvariant /\ ServedInvariant
  OBVIOUS
<1>1. <<>> \in [{} -> Int] /\ DOMAIN <<>> = {}
  OBVIOUS
<1>2. NoTimers \in Timers /\ Timed(NoTimers) = {}
  <2>1. <<>> \in Heaps
    BY <1>1, HeapIntro
  <2> QED
    BY <2>1, <1>1 DEF NoTimers, Timers, OsStates, Timed
<1>3. ActiveSound(NoTimers) /\ ActiveServed(NoTimers) /\ HeapBounded(NoTimers)
  <2>1. 0 \in Int
    OBVIOUS
  <2>2. HeapBounded(NoTimers)
    BY <2>1, <1>2 DEF HeapBounded
  <2> QED
    BY <2>2, <1>2 DEF ActiveSound, ActiveServed, NoTimers
<1>4. \A n \in Nodes : tm[n] = NoTimers
  BY DEF GtpInit
<1>5. TimersSound /\ ServedInvariant
  <2>1. tm \in [Nodes -> Timers]
    BY <1>2 DEF GtpInit
  <2> QED
    BY <2>1, <1>2, <1>3, <1>4 DEF TimersSound, ServedInvariant
<1>6. Transactions
  <2>1. Timed(tm["mme"]) = {} /\ Timed(tm["sgw"]) = {}
    BY <1>2, <1>4 DEF Nodes
  <2>2. next = 1 /\ tx = <<>> /\ rx = <<>>
    BY DEF GtpInit
  <2>3. tx \in [{} -> Nat] /\ rx \in [{} -> {"waiting", "answered"}]
    BY <2>2
  <2> QED
    BY <2>1, <2>2, <2>3, <1>1, GtpFacts DEF Transactions
<1>7. Outcomes
  <2>1. \A s \in Seqs : ~(s < 1)
    BY DEF Seqs
  <2> QED
    BY <2>1, <1>1 DEF GtpInit, Outcomes
<1> QED
  BY <1>5, <1>6, <1>7 DEF GtpInvariant

\* What the invariant says when a stack takes a step.
LEMMA Before ==
  ASSUME GtpInvariant, NoneAborted, NEW n \in Nodes
  PROVE  /\ tm[n] \in Timers /\ HeapBounded(tm[n]) /\ tm[n].aborted = "no"
         /\ ActiveSound(tm[n])
         /\ Timed(tm["mme"]) = DOMAIN tx
         /\ Timed(tm["sgw"]) = {s \in DOMAIN rx : rx[s] = "answered"}
BY DEF GtpInvariant, TimersSound, NoneAborted, Transactions, Nodes

\* One node has new timers, which are sound.
LEMMA OneNodeSound ==
  ASSUME GtpInvariant, NEW n \in Nodes, NEW U \in Timers, HeapBounded(U),
         U.aborted = "no" => ActiveSound(U), tm' = [tm EXCEPT ![n] = U]
  PROVE  TimersSound' /\ tm'[n] = U /\ \A m \in Nodes : m # n => tm'[m] = tm[m]
<1>1. tm \in [Nodes -> Timers]
  BY DEF GtpInvariant, TimersSound
<1>2. tm'[n] = U /\ \A m \in Nodes : m # n => tm'[m] = tm[m]
  BY <1>1
<1>3. tm' \in [Nodes -> Timers]
  BY <1>1
<1> QED
  BY <1>2, <1>3 DEF TimersSound, GtpInvariant

LEMMA OneNodeServed ==
  ASSUME GtpInvariant, ServedInvariant, NEW n \in Nodes, NEW U,
         \A t \in Timed(U) : U.heap[t] > -(T3 + Latency),
         U.aborted = "no" => ActiveServed(U), tm' = [tm EXCEPT ![n] = U]
  PROVE  ServedInvariant'
<1>1. tm \in [Nodes -> Timers]
  BY DEF GtpInvariant, TimersSound
<1>2. tm'[n] = U /\ \A m \in Nodes : m # n => tm'[m] = tm[m]
  BY <1>1
<1> QED
  BY <1>2 DEF ServedInvariant
-----------------------------------------------------------------------------
(* nwGtpv2cHandleUlpInitialReq                                              *)

LEMMA InitialReqTimer ==
  ASSUME GtpInvariant, InitialReq
  PROVE  /\ next \in Seqs \ Timed(tm["mme"]) /\ T3 \in Nat
         /\ tm["mme"] \in Timers /\ HeapBounded(tm["mme"]) /\ ~tm["mme"].loop
         /\ tm["mme"].aborted = "no" /\ ActiveSound(tm["mme"])
         /\ Timed(tm["mme"]) = DOMAIN tx
         /\ tm' = [tm EXCEPT !["mme"] = StartTimer(tm["mme"], next, T3)]
<1>1. NoneAborted /\ ~tm["mme"].loop /\ next <= MaxRequests
  BY DEF InitialReq, Ready
<1>2. /\ tm["mme"] \in Timers /\ HeapBounded(tm["mme"]) /\ tm["mme"].aborted = "no"
      /\ ActiveSound(tm["mme"]) /\ Timed(tm["mme"]) = DOMAIN tx
  BY <1>1, Before DEF Nodes
<1>3. next \in 1 .. MaxRequests + 1 /\ DOMAIN tx \subseteq 1 .. next - 1
  BY DEF GtpInvariant, Transactions
<1>4. next \in Seqs /\ next \notin DOMAIN tx
  BY <1>1, <1>3, GtpFacts DEF Seqs
<1>5. tm' = [tm EXCEPT !["mme"] = StartTimer(tm["mme"], next, T3)]
  BY DEF InitialReq
<1> QED
  BY <1>1, <1>2, <1>4, <1>5, GtpFacts

LEMMA InitialReqKeeps ==
  ASSUME GtpInvariant, InitialReq
  PROVE  GtpInvariant'
<1> DEFINE T == tm["mme"]
           U == StartTimer(T, next, T3)
<1>1. /\ next \in Seqs \ Timed(T) /\ T3 \in Nat /\ T \in Timers /\ HeapBounded(T)
      /\ ~T.loop /\ T.aborted = "no" /\ ActiveSound(T) /\ Timed(T) = DOMAIN tx
      /\ tm' = [tm EXCEPT !["mme"] = U]
  BY InitialReqTimer
<1> HIDE DEF T
<1>2. U \in Timers /\ HeapBounded(U) /\ Timed(U) = Timed(T) \cup {next}
  BY <1>1, StartTimerFacts
<1>3. U.aborted = "no" => ActiveSound(U)
  BY <1>1, StartTimerSound
<1> HIDE DEF U
<1>4. TimersSound' /\ tm'["mme"] = U /\ tm'["sgw"] = tm["sgw"]
  BY <1>1, <1>2, <1>3, OneNodeSound DEF Nodes
<1>5. /\ next' = next + 1 /\ tx' = With(tx, next, N3) /\ rx' = rx /\ app' = app
      /\ told' = told
  BY DEF InitialReq
<1>6. /\ DOMAIN tx' = DOMAIN tx \cup {next} /\ tx' \in [DOMAIN tx' -> Nat]
      /\ next' \in 1 .. MaxRequests + 1 /\ DOMAIN tx' \subseteq 1 .. next' - 1
  <2>1. /\ next \in 1 .. MaxRequests + 1
        /\ DOMAIN tx \subseteq 1 .. next - 1 /\ tx \in [DOMAIN tx -> Nat]
    BY DEF GtpInvariant, Transactions
  <2>2. /\ DOMAIN With(tx, next, N3) = DOMAIN tx \cup {next}
        /\ With(tx, next, N3) \in [DOMAIN tx \cup {next} -> Nat]
    BY <2>1, GtpFacts DEF With
  <2> QED
    BY <2>1, <2>2, <1>1, <1>5, GtpFacts DEF Seqs
<1>7. Transactions'
  BY <1>1, <1>2, <1>4, <1>5, <1>6 DEF Transactions, GtpInvariant
<1>8. Outcomes'
  <2>1. \A s \in Seqs : s \in Nat /\ (s < next + 1 <=> s < next \/ s = next)
    BY <1>1 DEF Seqs
  <2>2. ~(next < next)
    BY <1>1 DEF Seqs
  <2> QED
    BY <2>1, <2>2, <1>1, <1>5, <1>6 DEF Outcomes, GtpInvariant
<1> QED
  BY <1>4, <1>7, <1>8 DEF GtpInvariant

LEMMA InitialReqServes ==
  ASSUME GtpInvariant, ServedInvariant, InitialReq
  PROVE  ServedInvariant'
<1> DEFINE T == tm["mme"]
           U == StartTimer(T, next, T3)
<1>1. /\ next \in Seqs \ Timed(T) /\ T3 \in Nat \ {0} /\ T \in Timers /\ HeapBounded(T)
      /\ T.aborted = "no" /\ ActiveSound(T) /\ tm' = [tm EXCEPT !["mme"] = U]
  BY InitialReqTimer, GtpFacts
<1>2. ActiveServed(T) /\ \A t \in Timed(T) : T.heap[t] > -(T3 + Latency)
  BY <1>1 DEF ServedInvariant, Nodes
<1> HIDE DEF T
<1>3. U.aborted = "no" => ActiveServed(U)
  BY <1>1, <1>2, StartTimerServed
<1>4. /\ Timed(U) = Timed(T) \cup {next} /\ U.heap[next] = T3
      /\ \A u \in Timed(T) : U.heap[u] = T.heap[u]
  BY <1>1, StartTimerFacts
<1>5. \A t \in Timed(U) : U.heap[t] > -(T3 + Latency)
  BY <1>2, <1>4, GtpFacts
<1> HIDE DEF U
<1> QED
  BY <1>1, <1>3, <1>5, OneNodeServed DEF Nodes
-----------------------------------------------------------------------------
(* Callbacks.  T is what the timers of the node are when the callback is made. *)

\* The transaction s of the MME ends: its application has been told once.
LEMMA RequestEnds ==
  ASSUME GtpInvariant, NEW s \in DOMAIN tx, tx' = Drop(tx, s), Tell(s),
         UNCHANGED <<next, rx, app>>
  PROVE  /\ Outcomes' /\ next' \in 1 .. MaxRequests + 1
         /\ DOMAIN tx' = DOMAIN tx \ {s} /\ DOMAIN tx' \subseteq 1 .. next' - 1
         /\ tx' \in [DOMAIN tx' -> Nat]
<1>1. /\ next \in 1 .. MaxRequests + 1
      /\ DOMAIN tx \subseteq 1 .. next - 1 /\ tx \in [DOMAIN tx -> Nat]
  BY DEF GtpInvariant, Transactions
<1>2. DOMAIN tx' = DOMAIN tx \ {s} /\ tx' \in [DOMAIN tx \ {s} -> Nat]
  BY <1>1 DEF Drop, Restrict
<1>3. s \in Seqs /\ s < next
  BY <1>1, GtpFacts DEF Seqs
<1>4. Outcomes
  BY DEF GtpInvariant
<1>5. told[s] = 0 /\ told \in [Seqs -> Nat]
  BY <1>3, <1>4 DEF Outcomes
<1>6. /\ told' \in [Seqs -> Nat] /\ told'[s] = 1
      /\ \A r \in Seqs \ {s} : told'[r] = told[r]
  BY <1>3, <1>5 DEF Tell
<1>7. Outcomes'
  BY <1>2, <1>3, <1>4, <1>6 DEF Outcomes
<1> QED
  BY <1>1, <1>2, <1>7

\* nwGtpv2cTrxnPeerRspWaitTimeout keeps the invariant.
LEMMA PeerRspWaitTimeoutKeeps ==
  ASSUME GtpInvariant, NEW T \in Timers, HeapBounded(T), T.aborted = "no",
         ActiveSound(T), NEW s \in DOMAIN tx, Timed(T) = DOMAIN tx \ {s},
         PeerRspWaitTimeout(T, s)
  PROVE  GtpInvariant'
<1>1. /\ next \in 1 .. MaxRequests + 1
      /\ DOMAIN tx \subseteq 1 .. next - 1 /\ tx \in [DOMAIN tx -> Nat]
  BY DEF GtpInvariant, Transactions
<1>2. s \in Seqs \ Timed(T) /\ T3 \in Nat
  BY <1>1, GtpFacts DEF Seqs
<1>3. UNCHANGED <<next, rx, app>>
  BY DEF PeerRspWaitTimeout
<1>4. CASE /\ tx[s] > 0 /\ tx' = [tx EXCEPT ![s] = @ - 1] /\ told' = told
           /\ tm' = [tm EXCEPT !["mme"] = StartTimer(T, s, T3)]
  <2> DEFINE U == StartTimer(T, s, T3)
  <2>0. U \in Timers /\ HeapBounded(U) /\ Timed(U) = Timed(T) \cup {s}
    BY <1>2, StartTimerFacts
  <2>1. Timed(U) = DOMAIN tx
    BY <2>0
  <2>2. U.aborted = "no" => ActiveSound(U)
    BY <1>2, StartTimerSound
  <2> HIDE DEF U
  <2>3. TimersSound' /\ tm'["mme"] = U /\ tm'["sgw"] = tm["sgw"]
    BY <1>4, <2>0, <2>2, OneNodeSound DEF Nodes, U
  <2>4. DOMAIN tx' = DOMAIN tx /\ tx' \in [DOMAIN tx' -> Nat]
    BY <1>1, <1>4
  <2>5. Transactions'
    BY <2>1, <2>3, <2>4, <1>1, <1>3 DEF Transactions, GtpInvariant
  <2>6. Outcomes'
    BY <2>4, <1>3, <1>4 DEF Outcomes, GtpInvariant
  <2> QED
    BY <2>3, <2>5, <2>6 DEF GtpInvariant
<1>5. CASE tx' = Drop(tx, s) /\ Tell(s) /\ tm' = [tm EXCEPT !["mme"] = T]
  <2>1. TimersSound' /\ tm'["mme"] = T /\ tm'["sgw"] = tm["sgw"]
    BY <1>5, OneNodeSound DEF Nodes
  <2>2. /\ Outcomes' /\ next' \in 1 .. MaxRequests + 1
        /\ DOMAIN tx' = DOMAIN tx \ {s} /\ DOMAIN tx' \subseteq 1 .. next' - 1
        /\ tx' \in [DOMAIN tx' -> Nat]
    BY <1>3, <1>5, RequestEnds
  <2>3. Transactions'
    BY <2>1, <2>2, <1>3 DEF Transactions, GtpInvariant
  <2> QED
    BY <2>1, <2>2, <2>3 DEF GtpInvariant
<1> QED
  BY <1>4, <1>5 DEF PeerRspWaitTimeout

LEMMA PeerRspWaitTimeoutServes ==
  ASSUME GtpInvariant, ServedInvariant, NEW T \in Timers, HeapBounded(T),
         T.aborted = "no", ActiveSound(T), NEW s \in DOMAIN tx,
         Timed(T) = DOMAIN tx \ {s}, PeerRspWaitTimeout(T, s), ActiveServed(T),
         \A t \in Timed(T) : T.heap[t] > -(T3 + Latency)
  PROVE  ServedInvariant'
<1>1. s \in Seqs \ Timed(T) /\ T3 \in Nat \ {0}
  <2>1. next \in 1 .. MaxRequests + 1 /\ DOMAIN tx \subseteq 1 .. next - 1
    BY DEF GtpInvariant, Transactions
  <2> QED
    BY <2>1, GtpFacts DEF Seqs
<1>2. CASE tm' = [tm EXCEPT !["mme"] = StartTimer(T, s, T3)]
  <2> DEFINE U == StartTimer(T, s, T3)
  <2>1. U.aborted = "no" => ActiveServed(U)
    BY <1>1, StartTimerServed
  <2>2. /\ Timed(U) = Timed(T) \cup {s} /\ U.heap[s] = T3
        /\ \A u \in Timed(T) : U.heap[u] = T.heap[u]
    BY <1>1, StartTimerFacts
  <2>3. \A t \in Timed(U) : U.heap[t] > -(T3 + Latency)
    BY <2>2, GtpFacts
  <2> HIDE DEF U
  <2> QED
    BY <1>2, <2>1, <2>3, OneNodeServed DEF Nodes, U
<1>3. CASE tm' = [tm EXCEPT !["mme"] = T]
  BY <1>3, OneNodeServed DEF Nodes
<1> QED
  BY <1>2, <1>3 DEF PeerRspWaitTimeout

\* nwGtpv2cTrxnDuplicateRequestWaitTimeout keeps the invariant.
LEMMA DuplicateRequestWaitTimeoutKeeps ==
  ASSUME GtpInvariant, NEW T \in Timers, HeapBounded(T), T.aborted = "no",
         ActiveSound(T), NEW s \in {r \in DOMAIN rx : rx[r] = "answered"},
         Timed(T) = {r \in DOMAIN rx : rx[r] = "answered"} \ {s},
         DuplicateRequestWaitTimeout(T, s)
  PROVE  GtpInvariant'
<1>1. /\ rx' = Drop(rx, s) /\ tm' = [tm EXCEPT !["sgw"] = T]
      /\ next' = next /\ tx' = tx /\ app' = app /\ told' = told
  BY DEF DuplicateRequestWaitTimeout
<1>2. TimersSound' /\ tm'["sgw"] = T /\ tm'["mme"] = tm["mme"]
  BY <1>1, OneNodeSound DEF Nodes
<1>3. /\ DOMAIN rx' = DOMAIN rx \ {s}
      /\ \A r \in DOMAIN rx' : rx'[r] = rx[r]
      /\ rx' = [r \in DOMAIN rx' |-> rx[r]]
  BY <1>1 DEF Drop, Restrict
<1>4. Transactions /\ Outcomes
  BY DEF GtpInvariant
<1>5. rx' \in [DOMAIN rx' -> {"waiting", "answered"}]
  BY <1>3, <1>4 DEF Transactions
<1>6. Transactions'
  BY <1>1, <1>2, <1>3, <1>4, <1>5 DEF Transactions
<1>7. Outcomes'
  BY <1>1, <1>3, <1>4 DEF Outcomes
<1> QED
  BY <1>2, <1>6, <1>7 DEF GtpInvariant
-----------------------------------------------------------------------------
(* nwGtpv2cProcessTimeout, up to its loop and in it.                        *)

\* The timers the callback of timer t is given when its message is taken.
TimedOut(n, t) ==
  [Removed([tm[n] EXCEPT !.os[t] = "off"], t) EXCEPT !.active = NoTimer, !.loop = TRUE]

\* A message of the timer service is that of the active timer, and what the callback
\* is given.
LEMMA ProcessTimeoutTimer ==
  ASSUME GtpInvariant, NEW n \in Nodes, NEW t \in Seqs, ProcessTimeout(n, t),
         NEW T, T = TimedOut(n, t)
  PROVE  /\ t \in Timed(tm[n]) /\ Callback(n, T, t)
         /\ T \in Timers /\ HeapBounded(T) /\ T.aborted = "no"
         /\ ActiveSound(T) /\ ActiveServed(T) /\ Timed(T) = Timed(tm[n]) \ {t}
         /\ \A u \in Timed(T) : T.heap[u] = tm[n].heap[u]
<1> DEFINE V == [tm[n] EXCEPT !.os[t] = "off"]
           R == Removed(V, t)
<1>1. NoneAborted /\ tm[n].os[t] = "queued"
  BY DEF ProcessTimeout, Ready
<1>2. tm[n] \in Timers /\ HeapBounded(tm[n]) /\ tm[n].aborted = "no" /\ ActiveSound(tm[n])
  BY <1>1, Before
<1>3. /\ V \in Timers /\ V.heap = tm[n].heap /\ V.active = tm[n].active
      /\ V.aborted = tm[n].aborted /\ V.os = [tm[n].os EXCEPT ![t] = "off"]
  BY <1>2 DEF Timers, OsStates
<1>4. tm[n].active = t /\ t \in Timed(tm[n]) /\ \A u \in Seqs : V.os[u] = "off"
  <2>1. tm[n].active = t
    BY <1>1, <1>2 DEF ActiveSound
  <2>2. t \in Timed(tm[n])
    BY <1>2, <2>1, GtpFacts DEF ActiveSound
  <2>3. tm[n].os \in [Seqs -> OsStates]
    BY <1>2 DEF Timers
  <2>4. \A u \in Seqs : u # t => tm[n].os[u] = "off"
    BY <1>2, <2>1 DEF ActiveSound
  <2> QED
    BY <2>1, <2>2, <2>3, <2>4, <1>3
<1>5. Callback(n, T, t)
  BY <1>3, <1>4 DEF ProcessTimeout, TimedOut
<1>6. Timed(V) = Timed(tm[n]) /\ HeapBounded(V)
  BY <1>2, <1>3 DEF Timed, HeapBounded
<1> HIDE DEF V
<1>7. /\ R \in Timers /\ Timed(R) = Timed(V) \ {t}
      /\ \A u \in Timed(V) \ {t} : R.heap[u] = V.heap[u]
      /\ R.os = V.os /\ R.aborted = V.aborted /\ HeapBounded(R)
  BY <1>3, <1>6, RemovedFacts
<1>8. T = [R EXCEPT !.active = NoTimer, !.loop = TRUE]
  BY DEF R, V, TimedOut
<1> HIDE DEF R
<1>9. /\ T \in Timers /\ T.heap = R.heap /\ T.active = NoTimer /\ T.loop = TRUE
      /\ T.os = R.os /\ T.aborted = R.aborted
  BY <1>7, <1>8 DEF Timers
<1>10. ActiveSound(T) /\ ActiveServed(T)
  BY <1>4, <1>7, <1>9 DEF ActiveSound, ActiveServed
<1>11. /\ Timed(T) = Timed(tm[n]) \ {t} /\ HeapBounded(T)
       /\ \A u \in Timed(T) : T.heap[u] = tm[n].heap[u]
  BY <1>3, <1>6, <1>7, <1>9 DEF Timed, HeapBounded
<1> QED
  BY <1>2, <1>3, <1>4, <1>5, <1>7, <1>9, <1>10, <1>11

\* In the loop the first timer, if it is due, is not the active one.
LEMMA ProcessDueTimer ==
  ASSUME GtpInvariant, NEW n \in Nodes, ProcessDue(n),
         NEW t, t = First(tm[n]), NEW T, T = Removed(tm[n], t)
  PROVE  /\ t \in Timed(tm[n]) /\ Callback(n, T, t)
         /\ T \in Timers /\ HeapBounded(T) /\ T.aborted = "no"
         /\ ActiveSound(T) /\ (ActiveServed(tm[n]) => ActiveServed(T))
         /\ Timed(T) = Timed(tm[n]) \ {t}
         /\ \A u \in Timed(T) : T.heap[u] = tm[n].heap[u]
<1>1. NoneAborted /\ tm[n].loop /\ tm[n].heap # <<>> /\ tm[n].heap[t] <= 0
  BY DEF ProcessDue, Due
<1>2. tm[n] \in Timers /\ HeapBounded(tm[n]) /\ tm[n].aborted = "no" /\ ActiveSound(tm[n])
  BY <1>1, Before
<1>3. t \in Timed(tm[n]) /\ t \in Seqs /\ tm[n].heap[t] \in Int
  BY <1>1, <1>2, HeapFacts, FirstFacts
<1>4. Callback(n, T, t)
  BY DEF ProcessDue
<1>5. /\ T \in Timers /\ Timed(T) = Timed(tm[n]) \ {t}
      /\ \A u \in Timed(tm[n]) \ {t} : T.heap[u] = tm[n].heap[u]
      /\ T.active = tm[n].active /\ T.os = tm[n].os /\ T.loop = tm[n].loop
      /\ T.aborted = tm[n].aborted /\ HeapBounded(T)
  BY <1>2, <1>3, RemovedFacts
<1>6. tm[n].active # t
  <2>1. tm[n].active # NoTimer => tm[n].heap[tm[n].active] >= 1
    BY <1>1, <1>2, GtpFacts DEF ActiveSound
  <2> QED
    BY <2>1, <1>1, <1>3, GtpFacts
<1>7. ActiveSound(T)
  <2>1. T.active # NoTimer => T.active \in Timed(T) /\ T.heap[T.active] \in 1 .. T3
    BY <1>1, <1>2, <1>5, <1>6 DEF ActiveSound
  <2> QED
    BY <2>1, <1>1, <1>2, <1>5 DEF ActiveSound
<1>8. ActiveServed(tm[n]) => ActiveServed(T)
  BY <1>1, <1>5 DEF ActiveServed
<1> QED
  BY <1>2, <1>3, <1>4, <1>5, <1>7, <1>8

\* The callback of either node keeps the invariant.
LEMMA CallbackKeeps ==
  ASSUME GtpInvariant, NoneAborted, NEW n \in Nodes, NEW t \in Timed(tm[n]),
         NEW T \in Timers, HeapBounded(T), T.aborted = "no", ActiveSound(T),
         Timed(T) = Timed(tm[n]) \ {t}, Callback(n, T, t)
  PROVE  GtpInvariant'
<1>1. /\ Timed(tm["mme"]) = DOMAIN tx
      /\ Timed(tm["sgw"]) = {s \in DOMAIN rx : rx[s] = "answered"}
  BY Before
<1>2. CASE n = "mme"
  <2>1. t \in DOMAIN tx /\ Timed(T) = DOMAIN tx \ {t} /\ PeerRspWaitTimeout(T, t)
    BY <1>1, <1>2 DEF Callback
  <2> QED
    BY <2>1, PeerRspWaitTimeoutKeeps
<1>3. CASE n = "sgw"
  <2>1. /\ t \in {s \in DOMAIN rx : rx[s] = "answered"}
        /\ Timed(T) = {s \in DOMAIN rx : rx[s] = "answered"} \ {t}
        /\ DuplicateRequestWaitTimeout(T, t)
    BY <1>1, <1>3 DEF Callback
  <2> QED
    BY <2>1, DuplicateRequestWaitTimeoutKeeps
<1> QED
  BY <1>2, <1>3 DEF Nodes

LEMMA CallbackServes ==
  ASSUME GtpInvariant, ServedInvariant, NoneAborted, NEW n \in Nodes,
         NEW t \in Timed(tm[n]), NEW T \in Timers, HeapBounded(T), T.aborted = "no",
         ActiveSound(T), ActiveServed(T), Timed(T) = Timed(tm[n]) \ {t},
         \A u \in Timed(T) : T.heap[u] = tm[n].heap[u], Callback(n, T, t)
  PROVE  ServedInvariant'
<1>1. Timed(tm["mme"]) = DOMAIN tx
  BY Before
<1>2. \A u \in Timed(T) : T.heap[u] > -(T3 + Latency)
  BY DEF ServedInvariant
<1>3. CASE n = "mme"
  <2>1. t \in DOMAIN tx /\ Timed(T) = DOMAIN tx \ {t} /\ PeerRspWaitTimeout(T, t)
    BY <1>1, <1>3 DEF Callback
  <2> QED
    BY <2>1, <1>2, PeerRspWaitTimeoutServes
<1>4. CASE n = "sgw"
  <2>1. tm' = [tm EXCEPT ![n] = T]
    BY <1>4 DEF Callback, DuplicateRequestWaitTimeout
  <2> QED
    BY <2>1, <1>2, OneNodeServed
<1> QED
  BY <1>3, <1>4 DEF Nodes
\* The loop ends: no timer is due, and one is active if there is any.
LEMMA ProcessEndTimer ==
  ASSUME GtpInvariant, NEW n \in Nodes, ProcessEnd(n)
  PROVE  \E U \in Timers :
           /\ tm' = [tm EXCEPT ![n] = U] /\ U.heap = tm[n].heap /\ U.aborted = "no"
           /\ HeapBounded(U) /\ ActiveSound(U)
           /\ ActiveServed(tm[n]) => ActiveServed(U)
<1> DEFINE T == [tm[n] EXCEPT !.loop = FALSE]
<1>1. NoneAborted /\ tm[n].loop /\ ~Due(n)
  BY DEF ProcessEnd
<1>2. tm[n] \in Timers /\ HeapBounded(tm[n]) /\ tm[n].aborted = "no" /\ ActiveSound(tm[n])
  BY <1>1, Before
<1>3. /\ T \in Timers /\ T.heap = tm[n].heap /\ T.active = tm[n].active
      /\ T.os = tm[n].os /\ T.loop = FALSE /\ T.aborted = "no"
  BY <1>2 DEF Timers
<1>4. tm' = [tm EXCEPT ![n] = IF T.active = NoTimer THEN ArmFirst(T) ELSE T]
  BY DEF ProcessEnd
<1> HIDE DEF T
<1>5. HeapBounded(T) /\ Timed(T) = Timed(tm[n])
  BY <1>2, <1>3 DEF HeapBounded, Timed
<1>6. \A t \in Timed(T) : T.heap[t] \in Int /\ T.heap[t] > 0
  <2>1. T.heap \in [Timed(T) -> Int] /\ (T.heap = <<>> <=> Timed(T) = {})
    BY <1>3, HeapFacts
  <2>2. CASE Timed(T) = {}
    BY <2>2
  <2>3. CASE Timed(T) # {}
    <3>1. /\ First(T) \in Timed(T)
          /\ \A u \in Timed(T) : T.heap[First(T)] <= T.heap[u]
      BY <2>3, <1>3, <1>5, FirstFacts
    <3>2. First(T) = First(tm[n])
      BY <1>3, <1>5 DEF First
    <3>3. ~(T.heap[First(T)] <= 0)
      BY <3>2, <2>1, <2>3, <1>1, <1>3 DEF Due
    <3> QED
      BY <3>1, <3>3, <2>1
  <2> QED
    BY <2>2, <2>3
<1>7. CASE T.active = NoTimer
  <2> DEFINE U == ArmFirst(T)
  <2>1. \A u \in Seqs : T.os[u] = "off"
    BY <1>2, <1>3, <1>7, GtpFacts DEF ActiveSound, Timers
  <2>2. Timed(T) # {} => T.heap[First(T)] # 0
    BY <1>3, <1>5, <1>6, FirstFacts
  <2>3. /\ U \in Timers /\ U.heap = T.heap /\ U.aborted = T.aborted
        /\ ActiveSound(U) /\ ActiveServed(U)
    BY <2>1, <2>2, <1>3, <1>5, <1>7, ArmFirstFacts
  <2> HIDE DEF U
  <2>4. HeapBounded(U)
    BY <2>3, <1>5 DEF HeapBounded, Timed
  <2>5. tm' = [tm EXCEPT ![n] = U]
    BY <1>4, <1>7 DEF U
  <2> QED
    BY <2>3, <2>4, <2>5, <1>3
<1>8. CASE T.active # NoTimer
  <2>1. T.active \in Timed(T) /\ T.heap[T.active] \in 1 .. T3
    BY <1>1, <1>2, <1>3, <1>5, <1>8 DEF ActiveSound
  <2>2. ActiveSound(T)
    BY <2>1, <1>2, <1>3, <1>5, <1>8 DEF ActiveSound
  <2>3. \A t \in Timed(T) : T.heap[t] + T3 > T.heap[T.active]
    BY <2>1, <1>6, GtpFacts
  <2>4. ActiveServed(tm[n]) => ActiveServed(T)
    BY <2>3, <1>3, <1>8 DEF ActiveServed
  <2>5. tm' = [tm EXCEPT ![n] = T]
    BY <1>4, <1>8
  <2> QED
    BY <2>2, <2>4, <2>5, <1>3, <1>5
<1> QED
  BY <1>7, <1>8

\* A timer of the service expires.
LEMMA ExpireTimer ==
  ASSUME GtpInvariant, NEW n \in Nodes, NEW t \in Seqs, Expire(n, t)
  PROVE  \E U \in Timers :
           /\ tm' = [tm EXCEPT ![n] = U] /\ U.heap = tm[n].heap /\ U.aborted = "no"
           /\ HeapBounded(U) /\ ActiveSound(U)
           /\ ActiveServed(tm[n]) => ActiveServed(U)
<1> DEFINE U == [tm[n] EXCEPT !.os[t] = "queued"]
<1>1. NoneAborted /\ tm[n].os[t] = "running"
  BY DEF Expire
<1>2. tm[n] \in Timers /\ HeapBounded(tm[n]) /\ tm[n].aborted = "no" /\ ActiveSound(tm[n])
  BY <1>1, Before
<1>3. /\ U \in Timers /\ U.heap = tm[n].heap /\ U.active = tm[n].active
      /\ U.os = [tm[n].os EXCEPT ![t] = "queued"] /\ U.loop = tm[n].loop
      /\ U.aborted = "no"
  BY <1>2 DEF Timers, OsStates
<1>4. tm' = [tm EXCEPT ![n] = U]
  BY DEF Expire
<1> HIDE DEF U
<1>5. tm[n].os \in [Seqs -> OsStates] /\ tm[n].active = t
  BY <1>1, <1>2 DEF Timers, ActiveSound
<1>6. \A u \in Seqs : u # t => U.os[u] = tm[n].os[u]
  BY <1>3, <1>5
<1>7. ActiveSound(U)
  BY <1>2, <1>3, <1>5, <1>6 DEF ActiveSound, Timed
<1>8. ActiveServed(tm[n]) => ActiveServed(U)
  BY <1>3, <1>5 DEF ActiveServed, Timed
<1>9. HeapBounded(U)
  BY <1>2, <1>3 DEF HeapBounded, Timed
<1> QED
  BY <1>3, <1>4, <1>7, <1>8, <1>9

\* A step that changes the timers of one node and not its heap.
LEMMA SameHeapKeeps ==
  ASSUME GtpInvariant, NEW n \in Nodes, NEW U \in Timers, tm' = [tm EXCEPT ![n] = U],
         U.heap = tm[n].heap, U.aborted = "no" => tm[n].aborted = "no",
         HeapBounded(U), U.aborted = "no" => ActiveSound(U),
         UNCHANGED <<next, tx, rx, app, told>>
  PROVE  GtpInvariant'
<1>1. TimersSound' /\ tm'[n] = U /\ \A m \in Nodes : m # n => tm'[m] = tm[m]
  BY OneNodeSound
<1>2. \A m \in Nodes : Timed(tm'[m]) = Timed(tm[m])
  BY <1>1 DEF Timed
<1>3. \A m \in Nodes : tm'[m].aborted = "no" => tm[m].aborted = "no"
  BY <1>1
<1>4. Transactions'
  BY <1>2, <1>3 DEF Transactions, Nodes, GtpInvariant
<1>5. Outcomes'
  BY DEF Outcomes, GtpInvariant
<1> QED
  BY <1>1, <1>4, <1>5 DEF GtpInvariant

\* The timer service and the loop keep the invariant.
LEMMA WakeKeeps ==
  ASSUME GtpInvariant, NEW n \in Nodes, Wake(n)
  PROVE  GtpInvariant'
<1>1. ASSUME NEW t \in Seqs, Expire(n, t)
      PROVE  GtpInvariant'
  <2>1. UNCHANGED <<next, tx, rx, app, net, told>> /\ tm[n].aborted = "no"
    BY <1>1 DEF Expire, NoneAborted
  <2>2. PICK U \in Timers :
          /\ tm' = [tm EXCEPT ![n] = U] /\ U.heap = tm[n].heap /\ U.aborted = "no"
          /\ HeapBounded(U) /\ ActiveSound(U)
    BY <1>1, ExpireTimer
  <2> QED
    BY <2>1, <2>2, SameHeapKeeps
<1>2. ASSUME NEW t \in Seqs, ProcessTimeout(n, t)
      PROVE  GtpInvariant'
  <2>1. NoneAborted
    BY <1>2 DEF ProcessTimeout, Ready
  <2>2. PICK T : T = TimedOut(n, t)
    OBVIOUS
  <2>3. /\ t \in Timed(tm[n]) /\ Callback(n, T, t)
        /\ T \in Timers /\ HeapBounded(T) /\ T.aborted = "no"
        /\ ActiveSound(T) /\ ActiveServed(T) /\ Timed(T) = Timed(tm[n]) \ {t}
        /\ \A u \in Timed(T) : T.heap[u] = tm[n].heap[u]
    BY <1>2, <2>2, ProcessTimeoutTimer
  <2> QED
    BY <2>1, <2>3, CallbackKeeps
<1>3. ASSUME ProcessDue(n)
      PROVE  GtpInvariant'
  <2>1. NoneAborted
    BY <1>3 DEF ProcessDue
  <2>2. PICK t, T : t = First(tm[n]) /\ T = Removed(tm[n], t)
    OBVIOUS
  <2>3. /\ t \in Timed(tm[n]) /\ Callback(n, T, t)
        /\ T \in Timers /\ HeapBounded(T) /\ T.aborted = "no"
        /\ ActiveSound(T) /\ (ActiveServed(tm[n]) => ActiveServed(T))
        /\ Timed(T) = Timed(tm[n]) \ {t}
        /\ \A u \in Timed(T) : T.heap[u] = tm[n].heap[u]
    BY <1>3, <2>2, ProcessDueTimer
  <2> QED
    BY <2>1, <2>3, CallbackKeeps
<1>4. ASSUME ProcessEnd(n)
      PROVE  GtpInvariant'
  <2>1. UNCHANGED <<next, tx, rx, app, net, told>> /\ tm[n].aborted = "no"
    BY <1>4 DEF ProcessEnd, NoneAborted
  <2>2. PICK U \in Timers :
          /\ tm' = [tm EXCEPT ![n] = U] /\ U.heap = tm[n].heap /\ U.aborted = "no"
          /\ HeapBounded(U) /\ ActiveSound(U)
    BY <1>4, ProcessEndTimer
  <2> QED
    BY <2>1, <2>2, SameHeapKeeps
<1> QED
  BY <1>1, <1>2, <1>3, <1>4 DEF Wake

LEMMA WakeServes ==
  ASSUME GtpInvariant, ServedInvariant, NEW n \in Nodes, Wake(n)
  PROVE  ServedInvariant'
<1>1. /\ tm[n].aborted = "no" => ActiveServed(tm[n])
      /\ \A t \in Timed(tm[n]) : tm[n].heap[t] > -(T3 + Latency)
  BY DEF ServedInvariant
<1>2. ASSUME NEW U \in Timers, tm' = [tm EXCEPT ![n] = U], U.heap = tm[n].heap,
             ActiveServed(tm[n]) => ActiveServed(U), tm[n].aborted = "no"
      PROVE  ServedInvariant'
  <2>1. ActiveServed(U) /\ \A t \in Timed(U) : U.heap[t] > -(T3 + Latency)
    BY <1>1, <1>2 DEF Timed
  <2> QED
    BY <1>2, <2>1, OneNodeServed
<1>3. ASSUME NEW t \in Seqs, Expire(n, t)
      PROVE  ServedInvariant'
  <2>1. tm[n].aborted = "no"
    BY <1>3 DEF Expire, NoneAborted
  <2> QED
    BY <1>2, <1>3, <2>1, ExpireTimer
<1>4. ASSUME NEW t \in Seqs, ProcessTimeout(n, t)
      PROVE  ServedInvariant'
  <2>1. NoneAborted
    BY <1>4 DEF ProcessTimeout, Ready
  <2>2. PICK T : T = TimedOut(n, t)
    OBVIOUS
  <2>3. /\ t \in Timed(tm[n]) /\ Callback(n, T, t)
        /\ T \in Timers /\ HeapBounded(T) /\ T.aborted = "no"
        /\ ActiveSound(T) /\ ActiveServed(T) /\ Timed(T) = Timed(tm[n]) \ {t}
        /\ \A u \in Timed(T) : T.heap[u] = tm[n].heap[u]
    BY <1>4, <2>2, ProcessTimeoutTimer
  <2> QED
    BY <2>1, <2>3, CallbackServes
<1>5. ASSUME ProcessDue(n)
      PROVE  ServedInvariant'
  <2>1. NoneAborted
    BY <1>5 DEF ProcessDue
  <2>2. ActiveServed(tm[n])
    BY <2>1, <1>1 DEF NoneAborted
  <2>3. PICK t, T : t = First(tm[n]) /\ T = Removed(tm[n], t)
    OBVIOUS
  <2>4. /\ t \in Timed(tm[n]) /\ Callback(n, T, t)
        /\ T \in Timers /\ HeapBounded(T) /\ T.aborted = "no"
        /\ ActiveSound(T) /\ (ActiveServed(tm[n]) => ActiveServed(T))
        /\ Timed(T) = Timed(tm[n]) \ {t}
        /\ \A u \in Timed(T) : T.heap[u] = tm[n].heap[u]
    BY <1>5, <2>3, ProcessDueTimer
  <2> QED
    BY <2>1, <2>2, <2>4, CallbackServes
<1>6. ASSUME ProcessEnd(n)
      PROVE  ServedInvariant'
  <2>1. tm[n].aborted = "no"
    BY <1>6 DEF ProcessEnd, NoneAborted
  <2> QED
    BY <1>2, <1>6, <2>1, ProcessEndTimer
<1> QED
  BY <1>3, <1>4, <1>5, <1>6 DEF Wake
-----------------------------------------------------------------------------
(* Datagrams, the applications and time.                                    *)

\* nwGtpv2cHandleTriggeredRsp: the request ends and its timer is stopped.
LEMMA TriggeredRspKeeps ==
  ASSUME GtpInvariant, NEW s \in Seqs, TriggeredRsp(s)
  PROVE  /\ GtpInvariant'
         /\ ServedInvariant /\ ~Coincide => ServedInvariant'
<1> DEFINE T == tm["mme"]
           U == StopTimer(T, s)
<1>1. /\ NoneAborted /\ ~T.loop /\ s \in DOMAIN tx
      /\ Coincide \/ \A t \in Timed(T) : T.heap[t] # 0
      /\ tx' = Drop(tx, s) /\ Tell(s) /\ UNCHANGED <<next, rx, app>>
      /\ tm' = [tm EXCEPT !["mme"] = U]
  BY DEF TriggeredRsp, Ready
<1>2. /\ T \in Timers /\ HeapBounded(T) /\ T.aborted = "no" /\ ActiveSound(T)
      /\ Timed(T) = DOMAIN tx
  BY <1>1, Before DEF Nodes
<1>3. s \in Timed(T)
  BY <1>1, <1>2
<1>4. ServedInvariant =>
        ActiveServed(T) /\ \A t \in Timed(T) : T.heap[t] > -(T3 + Latency)
  BY <1>2 DEF ServedInvariant, Nodes
<1> HIDE DEF T
<1>5. /\ U \in Timers /\ HeapBounded(U) /\ Timed(U) = Timed(T) \ {s}
      /\ \A u \in Timed(U) : U.heap[u] = T.heap[u]
      /\ U.aborted = "no" => ActiveSound(U)
      /\ /\ U.aborted = "no" /\ ActiveServed(T)
         /\ \A u \in Timed(T) : T.heap[u] # 0
         => ActiveServed(U)
  BY <1>1, <1>2, <1>3, StopTimerFacts
<1> HIDE DEF U
<1>6. TimersSound' /\ tm'["mme"] = U /\ tm'["sgw"] = tm["sgw"]
  BY <1>1, <1>5, OneNodeSound DEF Nodes
<1>7. /\ Outcomes' /\ next' \in 1 .. MaxRequests + 1
      /\ DOMAIN tx' = DOMAIN tx \ {s} /\ DOMAIN tx' \subseteq 1 .. next' - 1
      /\ tx' \in [DOMAIN tx' -> Nat]
  BY <1>1, RequestEnds
<1>8. Transactions'
  BY <1>1, <1>2, <1>5, <1>6, <1>7 DEF Transactions, GtpInvariant
<1>9. GtpInvariant'
  BY <1>6, <1>7, <1>8 DEF GtpInvariant
<1>10. ASSUME ServedInvariant, ~Coincide
       PROVE  ServedInvariant'
  <2>1. U.aborted = "no" => ActiveServed(U)
    BY <1>1, <1>4, <1>5, <1>10
  <2>2. \A t \in Timed(U) : U.heap[t] > -(T3 + Latency)
    BY <1>4, <1>5, <1>10
  <2> QED
    BY <2>1, <2>2, <1>1, <1>10, OneNodeServed DEF Nodes
<1> QED
  BY <1>9, <1>10

\* nwGtpv2cHandleInitialReq: a request that is new to the S-GW.
LEMMA InitialReqIndKeeps ==
  ASSUME GtpInvariant, NEW s \in Seqs, InitialReqInd(s)
  PROVE  GtpInvariant'
<1>1. /\ s \notin DOMAIN rx /\ rx' = With(rx, s, "waiting")
      /\ app' = [app EXCEPT ![s] = @ + 1]
      /\ tm' = tm /\ next' = next /\ tx' = tx /\ told' = told
  BY DEF InitialReqInd
<1>2. Transactions /\ Outcomes /\ TimersSound
  BY DEF GtpInvariant
<1>3. /\ DOMAIN rx' = DOMAIN rx \cup {s} /\ rx'[s] = "waiting"
      /\ \A r \in DOMAIN rx : rx'[r] = rx[r]
      /\ rx' = [r \in DOMAIN rx' |-> rx'[r]]
  BY <1>1 DEF With
<1>4. rx' \in [DOMAIN rx' -> {"waiting", "answered"}]
  BY <1>2, <1>3 DEF Transactions
<1>5. Transactions'
  <2>1. {r \in DOMAIN rx' : rx'[r] = "answered"} = {r \in DOMAIN rx : rx[r] = "answered"}
    BY <1>1, <1>3
  <2> QED
    BY <2>1, <1>1, <1>2, <1>3, <1>4 DEF Transactions
<1>6. Outcomes'
  <2>1. app[s] = 0 /\ app \in [Seqs -> {0, 1}]
    BY <1>1, <1>2 DEF Outcomes
  <2>2. app' \in [Seqs -> {0, 1}] /\ \A r \in Seqs \ {s} : app'[r] = app[r]
    BY <2>1, <1>1
  <2> QED
    BY <2>2, <1>1, <1>2, <1>3 DEF Outcomes
<1>7. TimersSound'
  BY <1>1, <1>2 DEF TimersSound
<1> QED
  BY <1>5, <1>6, <1>7 DEF GtpInvariant

\* nwGtpv2cHandleUlpTriggeredRsp: the answer is held for T3 * N3.
LEMMA AnswerKeeps ==
  ASSUME GtpInvariant, NEW s \in Seqs, Answer(s)
  PROVE  /\ GtpInvariant'
         /\ ServedInvariant /\ N3 # 0 => ServedInvariant'
<1> DEFINE T == tm["sgw"]
           U == StartTimer(T, s, T3 * N3)
<1>1. /\ NoneAborted /\ ~T.loop /\ app[s] > 0
      /\ app' = [app EXCEPT ![s] = @ - 1] /\ rx' = [rx EXCEPT ![s] = "answered"]
      /\ UNCHANGED <<next, tx, told>> /\ tm' = [tm EXCEPT !["sgw"] = U]
  BY DEF Answer, Ready
<1>2. /\ T \in Timers /\ HeapBounded(T) /\ T.aborted = "no" /\ ActiveSound(T)
      /\ Timed(T) = {r \in DOMAIN rx : rx[r] = "answered"}
  BY <1>1, Before DEF Nodes
<1>3. ServedInvariant =>
        ActiveServed(T) /\ \A t \in Timed(T) : T.heap[t] > -(T3 + Latency)
  BY <1>2 DEF ServedInvariant, Nodes
<1>4. Transactions /\ Outcomes
  BY DEF GtpInvariant
<1>5. app[s] = 1 /\ s \in DOMAIN rx /\ rx[s] = "waiting"
  BY <1>1, <1>4 DEF Outcomes
<1>6. s \in Seqs \ Timed(T) /\ T3 * N3 \in Nat
  BY <1>2, <1>5, GtpFacts
<1> HIDE DEF T
<1>7. /\ U \in Timers /\ HeapBounded(U) /\ Timed(U) = Timed(T) \cup {s}
      /\ U.heap[s] = T3 * N3 /\ \A u \in Timed(T) : U.heap[u] = T.heap[u]
  BY <1>2, <1>6, StartTimerFacts
<1>8. U.aborted = "no" => ActiveSound(U)
  BY <1>1, <1>2, <1>6, StartTimerSound
<1>9. ServedInvariant /\ N3 # 0 /\ U.aborted = "no" => ActiveServed(U)
  <2>1. N3 # 0 => T3 * N3 \in Nat \ {0}
    BY GtpFacts
  <2> QED
    BY <2>1, <1>2, <1>3, <1>6, StartTimerServed
<1> HIDE DEF U
<1>10. TimersSound' /\ tm'["sgw"] = U /\ tm'["mme"] = tm["mme"]
  BY <1>1, <1>7, <1>8, OneNodeSound DEF Nodes
<1>11. /\ DOMAIN rx' = DOMAIN rx /\ rx'[s] = "answered"
       /\ \A r \in DOMAIN rx : r # s => rx'[r] = rx[r]
       /\ rx' \in [DOMAIN rx' -> {"waiting", "answered"}]
  BY <1>1, <1>4, <1>5 DEF Transactions
<1>12. Transactions'
  <2>1. {r \in DOMAIN rx' : rx'[r] = "answered"} = Timed(T) \cup {s}
    BY <1>2, <1>5, <1>11
  <2> QED
    BY <2>1, <1>1, <1>4, <1>7, <1>10, <1>11 DEF Transactions
<1>13. Outcomes'
  <2>1. app \in [Seqs -> {0, 1}]
    BY <1>4 DEF Outcomes
  <2>2. /\ app' \in [Seqs -> {0, 1}] /\ app'[s] = 0
        /\ \A r \in Seqs \ {s} : app'[r] = app[r]
    BY <2>1, <1>1, <1>5
  <2> QED
    BY <2>2, <1>1, <1>4, <1>11 DEF Outcomes
<1>14. GtpInvariant'
  BY <1>10, <1>12, <1>13 DEF GtpInvariant
<1>15. ASSUME ServedInvariant, N3 # 0
       PROVE  ServedInvariant'
  <2>1. \A t \in Timed(U) : U.heap[t] > -(T3 + Latency)
    <3>1. T3 * N3 > -(T3 + Latency)
      BY GtpFacts
    <3> QED
      BY <3>1, <1>3, <1>7, <1>15
  <2> QED
    BY <2>1, <1>1, <1>9, <1>15, OneNodeServed DEF Nodes
<1> QED
  BY <1>14, <1>15

\* Time passes.  Every timer has a unit less, and the active timer of a stack is not
\* overdue by more than the latency of the timer service.
LEMMA TickKeeps ==
  ASSUME GtpInvariant, Tick
  PROVE  /\ GtpInvariant'
         /\ ServedInvariant => ServedInvariant'
<1>1. /\ NoneAborted /\ \A n \in Nodes : Prompt(n)
      /\ tm' = [n \in Nodes |->
                  [tm[n] EXCEPT !.heap = [t \in DOMAIN @ |-> @[t] - 1]]]
      /\ UNCHANGED <<next, tx, rx, app, told>>
  BY DEF Tick
<1>2. ASSUME NEW n \in Nodes
      PROVE  /\ tm'[n] \in Timers /\ Timed(tm'[n]) = Timed(tm[n])
             /\ \A t \in Timed(tm[n]) : tm'[n].heap[t] = tm[n].heap[t] - 1
             /\ tm'[n].active = tm[n].active /\ tm'[n].os = tm[n].os
             /\ tm'[n].loop = tm[n].loop /\ tm'[n].aborted = tm[n].aborted
  <2> DEFINE h == [t \in Timed(tm[n]) |-> tm[n].heap[t] - 1]
  <2>1. tm[n] \in Timers
    BY <1>1, Before
  <2>2. Timed(tm[n]) \subseteq Seqs /\ tm[n].heap \in [Timed(tm[n]) -> Int]
    BY <2>1, HeapFacts
  <2>3. h \in [Timed(tm[n]) -> Int]
    BY <2>2
  <2>4. h \in Heaps
    BY <2>2, <2>3, HeapIntro
  <2>5. tm'[n] = [tm[n] EXCEPT !.heap = h]
    BY <1>1 DEF Timed
  <2> HIDE DEF h
  <2>6. /\ tm'[n] \in Timers /\ tm'[n].heap = h
        /\ tm'[n].active = tm[n].active /\ tm'[n].os = tm[n].os
        /\ tm'[n].loop = tm[n].loop /\ tm'[n].aborted = tm[n].aborted
    BY <2>1, <2>4, <2>5 DEF Timers
  <2> QED
    BY <2>6 DEF h, Timed
<1>3. ASSUME NEW n \in Nodes
      PROVE  /\ tm[n].heap \in [Timed(tm[n]) -> Int] /\ HeapBounded(tm'[n])
             /\ ActiveSound(tm[n]) /\ ~tm[n].loop /\ ActiveSound(tm'[n])
  <2>1. /\ tm[n] \in Timers /\ HeapBounded(tm[n]) /\ ActiveSound(tm[n])
        /\ ~tm[n].loop /\ tm[n].heap \in [Timed(tm[n]) -> Int]
    BY <1>1, Before, HeapFacts DEF Prompt
  <2>2. HeapBounded(tm'[n])
    <3>1. PICK b \in Int : \A t \in Timed(tm[n]) : b <= tm[n].heap[t]
      BY <2>1 DEF HeapBounded
    <3>2. b - 1 \in Int /\ \A t \in Timed(tm'[n]) : b - 1 <= tm'[n].heap[t]
      BY <3>1, <1>2, <2>1
    <3> QED
      BY <3>2 DEF HeapBounded
  <2>3. ActiveSound(tm'[n])
    BY <2>1, <1>2 DEF ActiveSound
  <2> QED
    BY <2>1, <2>2, <2>3
<1>4. GtpInvariant'
  <2>1. TimersSound'
    <3>1. tm' \in [Nodes -> Timers]
      BY <1>1, <1>2
    <3> QED
      BY <3>1, <1>3 DEF TimersSound
  <2>2. Transactions'
    BY <1>1, <1>2 DEF Transactions, GtpInvariant, Nodes
  <2>3. Outcomes'
    BY <1>1 DEF Outcomes, GtpInvariant
  <2> QED
    BY <2>1, <2>2, <2>3 DEF GtpInvariant
<1>5. ASSUME ServedInvariant, NEW n \in Nodes
      PROVE  /\ \A t \in Timed(tm'[n]) : tm'[n].heap[t] > -(T3 + Latency)
             /\ ActiveServed(tm'[n])
  <2>1. ActiveServed(tm[n])
    BY <1>1, <1>5 DEF ServedInvariant, NoneAborted
  <2>2. ActiveServed(tm'[n])
    BY <2>1, <1>2, <1>3, GtpFacts DEF ActiveServed, ActiveSound
  <2>3. ASSUME NEW t \in Timed(tm[n])
        PROVE  tm[n].heap[t] - 1 > -(T3 + Latency)
    <3>1. tm[n].active # NoTimer /\ tm[n].active \in Timed(tm[n])
      BY <1>3 DEF ActiveSound
    <3>2. /\ tm[n].os[tm[n].active] \in {"running", "queued"}
          /\ tm[n].heap[t] + T3 > tm[n].heap[tm[n].active]
      BY <3>1, <2>1, <1>3 DEF ActiveServed
    <3>3. tm[n].heap[tm[n].active] > -Latency
      BY <3>1, <3>2, <1>1 DEF Prompt
    <3> QED
      BY <3>1, <3>2, <3>3, <1>3, GtpFacts
  <2> QED
    BY <2>2, <2>3, <1>2
<1>6. ASSUME ServedInvariant
      PROVE  ServedInvariant'
  BY <1>5, <1>6 DEF ServedInvariant
<1> QED
  BY <1>4, <1>6

LEMMA InitialReqAgainKeeps ==
  ASSUME GtpInvariant, InitialReqAgain
  PROVE  /\ GtpInvariant'
         /\ ServedInvariant => ServedInvariant'
<1> DEFINE U == [tm["mme"] EXCEPT !.aborted = "tunnel"]
<1>1. tm["mme"] \in Timers /\ HeapBounded(tm["mme"]) /\ tm["mme"].aborted = "no"
  BY Before DEF InitialReqAgain, Ready, Nodes
<1>2. U \in Timers /\ U.heap = tm["mme"].heap /\ U.aborted = "tunnel"
  BY <1>1 DEF Timers
<1>3. /\ tm' = [tm EXCEPT !["mme"] = U]
      /\ UNCHANGED <<next, tx, rx, app, told>>
  BY DEF InitialReqAgain
<1> HIDE DEF U
<1>4. HeapBounded(U)
  BY <1>1, <1>2 DEF HeapBounded, Timed
<1>5. GtpInvariant'
  BY <1>2, <1>3, <1>4, SameHeapKeeps DEF Nodes
<1>6. ASSUME ServedInvariant
      PROVE  ServedInvariant'
  <2>1. \A t \in Timed(U) : U.heap[t] > -(T3 + Latency)
    BY <1>2, <1>6 DEF ServedInvariant, Timed, Nodes
  <2> QED
    BY <2>1, <1>2, <1>3, <1>6, OneNodeServed DEF Nodes
<1> QED
  BY <1>5, <1>6
LEMMA OnlyNetChanges ==
  ASSUME UNCHANGED <<tm, next, tx, rx, app, told>>
  PROVE  /\ GtpInvariant => GtpInvariant'
         /\ ServedInvariant => ServedInvariant'
BY DEF GtpInvariant, TimersSound, Transactions, Outcomes, ServedInvariant

LEMMA GtpStepKeeps == GtpInvariant /\ [GtpNext]_gtp_vars => GtpInvariant'
<1> SUFFICES ASSUME GtpInvariant, [GtpNext]_gtp_vars
             PROVE  GtpInvariant'
  OBVIOUS
<1>1. ASSUME NEW s \in Seqs, TriggeredRspIgnored(s)
      PROVE  GtpInvariant'
  BY <1>1, OnlyNetChanges DEF TriggeredRspIgnored
<1>2. ASSUME NEW s \in Seqs, RepeatedReq(s)
      PROVE  GtpInvariant'
  BY <1>2, OnlyNetChanges DEF RepeatedReq
<1>3. CASE UNCHANGED gtp_vars
  BY <1>3, OnlyNetChanges DEF gtp_vars
<1> QED
  BY <1>1, <1>2, <1>3, InitialReqKeeps, InitialReqAgainKeeps, TriggeredRspKeeps,
     InitialReqIndKeeps, AnswerKeeps, WakeKeeps, TickKeeps DEF GtpNext

LEMMA GtpStepServes ==
  ASSUME ~Coincide, N3 # 0
  PROVE  GtpInvariant /\ ServedInvariant /\ [GtpNext]_gtp_vars => ServedInvariant'
<1> SUFFICES ASSUME GtpInvariant, ServedInvariant, [GtpNext]_gtp_vars
             PROVE  ServedInvariant'
  OBVIOUS
<1>1. ASSUME NEW s \in Seqs,
             TriggeredRspIgnored(s) \/ RepeatedReq(s) \/ InitialReqInd(s)
      PROVE  ServedInvariant'
  <2>1. tm' = tm
    BY <1>1 DEF TriggeredRspIgnored, RepeatedReq, InitialReqInd
  <2> QED
    BY <2>1 DEF ServedInvariant
<1>2. CASE UNCHANGED gtp_vars
  BY <1>2, OnlyNetChanges DEF gtp_vars
<1> QED
  BY <1>1, <1>2, InitialReqServes, InitialReqAgainKeeps, TriggeredRspKeeps,
     AnswerKeeps, WakeServes, TickKeeps DEF GtpNext

-----------------------------------------------------------------------------
(* Theorems.                                                                *)

LEMMA GtpInvariantHolds == GtpSpec => []GtpInvariant
<1>1. GtpInit => GtpInvariant
  BY GtpInitInvariant
<1> QED
  BY <1>1, GtpStepKeeps, PTL DEF GtpSpec

\* However datagrams are lost and timers expire, the timers of both stacks are those
\* of their transactions: no callback of nwGtpv2cProcessTimeout is given a transaction
\* that nwGtpv2cTrxnDelete has freed.
THEOREM TransactionsSafe == GtpSpec => []TransactionsTimed
<1>1. GtpInvariant => TransactionsTimed
  BY DEF GtpInvariant, Transactions, TransactionsTimed, Alive
<1> QED
  BY <1>1, GtpInvariantHolds, PTL

\* A request ends once for the application of the MME, by nwGtpv2cHandleTriggeredRsp
\* or by nwGtpv2cTrxnPeerRspWaitTimeout, and nwGtpv2cHandleInitialReq never passes on a
\* request that the application of the S-GW has yet to answer.
THEOREM OutcomeSafe == GtpSpec => []OneOutcome
<1>1. GtpInvariant => OneOutcome
  BY DEF GtpInvariant, Outcomes, OneOutcome
<1> QED
  BY <1>1, GtpInvariantHolds, PTL

\* With an answer that does not stop a timer at the microsecond of the next one, and
\* maxRetries not 0 (the code sets 2), the active timer is always served by the timer
\* service between two messages of a stack.
THEOREM TimersSafe ==
  ASSUME ~Coincide, N3 # 0
  PROVE  GtpSpec => []TimersServed
<1>1. GtpInit => GtpInvariant /\ ServedInvariant
  BY GtpInitInvariant
<1>2. GtpInvariant /\ ServedInvariant /\ [GtpNext]_gtp_vars => ServedInvariant'
  BY GtpStepServes
<1>3. GtpInvariant /\ ServedInvariant => TimersServed
  <2> SUFFICES ASSUME GtpInvariant, ServedInvariant, NEW n \in Nodes, Alive(n)
               PROVE  /\ tm[n].heap # <<>> =>
                           /\ tm[n].active \in Timed(tm[n])
                           /\ tm[n].os[tm[n].active] \in {"running", "queued"}
                      /\ \A t \in Seqs : tm[n].os[t] # "off" => t = tm[n].active
    BY DEF TimersServed
  <2>1. /\ tm[n] \in Timers /\ ActiveSound(tm[n]) /\ ActiveServed(tm[n]) /\ ~tm[n].loop
    BY DEF GtpInvariant, TimersSound, ServedInvariant, Alive
  <2>2. tm[n].heap = <<>> <=> Timed(tm[n]) = {}
    BY <2>1, HeapFacts
  <2> QED
    BY <2>1, <2>2 DEF ActiveSound, ActiveServed
<1> QED
  BY <1>1, <1>2, <1>3, GtpStepKeeps, PTL DEF GtpSpec

\* Under the same conditions no timer is overdue by T3 more than the latency of the
\* timer service, although nwGtpv2cStartTimer, called by a callback in the loop of
\* nwGtpv2cProcessTimeout, may make a timer active that is not the first.
THEOREM LatenessSafe ==
  ASSUME ~Coincide, N3 # 0
  PROVE  GtpSpec => []LateByLessThanT3
<1>1. GtpInit => GtpInvariant /\ ServedInvariant
  BY GtpInitInvariant
<1>2. GtpInvariant /\ ServedInvariant /\ [GtpNext]_gtp_vars => ServedInvariant'
  BY GtpStepServes
<1>3. ServedInvariant => LateByLessThanT3
  BY DEF ServedInvariant, LateByLessThanT3
<1> QED
  BY <1>1, <1>2, <1>3, GtpStepKeeps, PTL DEF GtpSpec
=============================================================================
