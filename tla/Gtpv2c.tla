-------------------------------- MODULE Gtpv2c --------------------------------
(***************************************************************************)
(* The GTPv2-C stack on S11 (openair-cn/GTPV2-C/nwgtpv2c-0.11): an MME sends*)
(* requests and repeats them until they are answered, an S-GW recognises    *)
(* repeated requests and repeats its answer (NwGtpv2cTrxn.c, NwGtpv2c.c).   *)
(* Both multiplex their timers on one timer of the ITTI timer service: a    *)
(* heap of times, of which the earliest ought to be the active one.         *)
(*                                                                         *)
(* A stack is used by one task, which handles one message at a time; the    *)
(* timer service queues its message for the task from a thread of its own.  *)
(* The loop of nwGtpv2cProcessTimeout is one step per timer.  A transaction *)
(* and its timer are named by the sequence number.  UDP loses, delays and   *)
(* reorders.                                                                *)
(***************************************************************************)
EXTENDS Integers, Functions

CONSTANTS
  MaxRequests,  \* bound: requests sent
  T3,           \* t3Timer
  N3,           \* maxRetries
  Latency,      \* bound: how late the timer service and its message may be
  Coincide,     \* may a timer be stopped at the very microsecond of the next time
  NoTimer       \* activeTimerInfo is NULL

ASSUME GtpAssumption ==
  /\ MaxRequests \in Nat /\ T3 \in Nat \ {0} /\ N3 \in Nat /\ Latency \in Nat
  /\ Coincide \in BOOLEAN /\ NoTimer \notin 1 .. MaxRequests

VARIABLES
  tm,        \* the timers of each stack
  next,      \* requests sent; seqNum
  tx,        \* outstandingTxSeqNumMap of the MME: retries left
  rx,        \* outstandingRxSeqNumMap of the S-GW: "waiting" or "answered"
  app,       \* indications that the S-GW application has not answered
  net,       \* datagrams on their way
  told       \* how often the MME's application was told the end of each request

gtp_vars == <<tm, next, tx, rx, app, net, told>>

Nodes == {"mme", "sgw"}
Seqs == 1 .. MaxRequests
-----------------------------------------------------------------------------
(* Timers.  heap is the time left until the tvTimeout of each timer that is in *)
(* the heap; os is what the timer service has of each timer: "off", "running",*)
(* "disarmed" (set up with the time 0, which disarms a POSIX timer) or      *)
(* "queued" (it expired, and its message waits in the queue of the task).   *)

NoTimers == [heap |-> <<>>, active |-> NoTimer, os |-> [t \in Seqs |-> "off"],
             loop |-> FALSE, aborted |-> "no"]

Timed(T) == DOMAIN T.heap
Drop(f, x) == Restrict(f, DOMAIN f \ {x})

\* nwGtpv2cTmrMinHeapInsert, and insertion in the maps of transactions.
With(f, x, v) == [y \in DOMAIN f \cup {x} |-> IF y = x THEN v ELSE f[y]]

\* nwGtpv2cTmrMinHeapPeek: the earliest timer.  Of several the heap decides, which is
\* here the one started first.
First(T) ==
  CHOOSE t \in Timed(T) : \A u \in Timed(T) :
    T.heap[t] < T.heap[u] \/ (T.heap[t] = T.heap[u] /\ t <= u)

\* nwGtpv2cTmrMinHeapRemove
Removed(T, t) == [T EXCEPT !.heap = Drop(@, t)]

\* tmrStartCallback: s11_mme_start_timer_wrapper, timer_setup.  The wrapper of the S-GW
\* does not hand the timer's id to the stack, which needs it to stop a timer only; the
\* S-GW starts timers of one length and stops none.
Arm(T, t, left) ==
  [T EXCEPT !.active = t, !.os[t] = IF left = 0 THEN "disarmed" ELSE "running"]

\* tmrStopCallback: s11_mme_stop_timer_wrapper, timer_remove.  It fails when the
\* timer has expired, which the callers assert that it does not.
Disarm(T, t) ==
  IF T.os[t] \in {"running", "disarmed"} THEN [T EXCEPT !.os[t] = "off"]
                                         ELSE [T EXCEPT !.aborted = "timer"]

\* nwGtpv2cStartTimer
StartTimer(T, t, time) ==
  LET U == [T EXCEPT !.heap = With(@, t, time)]
  IN  IF T.active = NoTimer THEN Arm(U, t, time)
      ELSE IF T.heap[T.active] > time THEN Arm(Disarm(U, T.active), t, time)
      ELSE U

\* The first entry of the heap is made the active timer.
ArmFirst(T) ==
  IF T.heap = <<>> THEN T ELSE Arm(T, First(T), T.heap[First(T)])

\* Mutant of StopTimer: the next timer is not started.
StopTimerOnly(T, t) ==
  LET U == Removed(T, t)
  IN  IF T.active # t THEN U ELSE [Disarm(U, t) EXCEPT !.active = NoTimer]

\* nwGtpv2cStopTimer: an overdue next timer is processed at once.
StopTimer(T, t) ==
  LET U == Removed(T, t)
      V == [Disarm(U, t) EXCEPT !.active = NoTimer]
  IN  IF T.active # t THEN U
      ELSE IF V.heap # <<>> /\ V.heap[First(V)] < 0 THEN [V EXCEPT !.loop = TRUE]
      ELSE ArmFirst(V)

-----------------------------------------------------------------------------
(* Transactions.                                                            *)

Req(s) == [type |-> "req", seq |-> s]
Rsp(s) == [type |-> "rsp", seq |-> s]

GtpInit ==
  /\ tm = [n \in Nodes |-> NoTimers]
  /\ next = 1 /\ tx = <<>> /\ rx = <<>>
  /\ app = [s \in Seqs |-> 0] /\ net = {}
  /\ told = [s \in Seqs |-> 0]

\* The task of a stack takes its next message.  Once a stack has aborted, what the
\* other does is not followed.
NoneAborted == \A n \in Nodes : tm[n].aborted = "no"
Ready(n) == NoneAborted /\ ~tm[n].loop

Tell(s) == told' = [told EXCEPT ![s] = @ + 1]
SendReq(s) == net' = net \cup {Req(s)}

\* nwGtpv2cHandleUlpInitialReq, of a UE context that has no tunnel yet.
InitialReq ==
  /\ Ready("mme") /\ next <= MaxRequests
  /\ next' = next + 1
  /\ SendReq(next)
  /\ tm' = [tm EXCEPT !["mme"] = StartTimer(@, next, T3)]
  /\ tx' = With(tx, next, N3)
  /\ UNCHANGED <<rx, app, told>>

\* The local TEID is the address of the UE context, and the MME removes no tunnel:
\* at the second request of a UE context nwGtpv2cCreateLocalTunnel asserts.
InitialReqAgain ==
  /\ Ready("mme") /\ next \in 2 .. MaxRequests
  /\ tm' = [tm EXCEPT !["mme"].aborted = "tunnel"]
  /\ UNCHANGED <<next, tx, rx, app, net, told>>

\* Mutant of PeerRspWaitTimeout: retries are not counted.
PeerRspWaitTimeoutForever(T, s) ==
  /\ SendReq(s)
  /\ tm' = [tm EXCEPT !["mme"] = StartTimer(T, s, T3)]
  /\ UNCHANGED <<next, tx, rx, app, told>>

\* Mutant of PeerRspWaitTimeout: a failed transaction stays in the map.
PeerRspWaitTimeoutKept(T, s) ==
  /\ \/ /\ tx[s] > 0
        /\ SendReq(s)
        /\ tx' = [tx EXCEPT ![s] = @ - 1]
        /\ tm' = [tm EXCEPT !["mme"] = StartTimer(T, s, T3)]
        /\ UNCHANGED told
     \/ /\ tx[s] = 0
        /\ Tell(s)
        /\ tm' = [tm EXCEPT !["mme"] = T]
        /\ UNCHANGED <<tx, net>>
  /\ UNCHANGED <<next, rx, app>>

\* nwGtpv2cTrxnPeerRspWaitTimeout, nwGtpv2cTrxnSendMsgRetransmission.  The timer of
\* s has left the heap: T.
PeerRspWaitTimeout(T, s) ==
  /\ \/ /\ tx[s] > 0
        /\ SendReq(s)
        /\ tx' = [tx EXCEPT ![s] = @ - 1]
        /\ tm' = [tm EXCEPT !["mme"] = StartTimer(T, s, T3)]
        /\ UNCHANGED told
     \/ /\ tx[s] = 0
        /\ tx' = Drop(tx, s)
        /\ Tell(s)
        /\ tm' = [tm EXCEPT !["mme"] = T]
        /\ UNCHANGED net
  /\ UNCHANGED <<next, rx, app>>

\* nwGtpv2cTrxnDuplicateRequestWaitTimeout
DuplicateRequestWaitTimeout(T, s) ==
  /\ rx' = Drop(rx, s)
  /\ tm' = [tm EXCEPT !["sgw"] = T]
  /\ UNCHANGED <<next, tx, app, net, told>>

Callback(n, T, s) ==
  IF n = "mme" THEN PeerRspWaitTimeout(T, s) ELSE DuplicateRequestWaitTimeout(T, s)

\* nwGtpv2cProcessTimeout on TIMER_HAS_EXPIRED, up to its loop.
ProcessTimeout(n, t) ==
  /\ Ready(n) /\ tm[n].os[t] = "queued"
  /\ LET T == [tm[n] EXCEPT !.os[t] = "off"]
     IN  IF T.active = t
         THEN Callback(n, [Removed(T, t) EXCEPT !.active = NoTimer, !.loop = TRUE], t)
         ELSE /\ tm' = [tm EXCEPT ![n] = T]
              /\ UNCHANGED <<next, tx, rx, app, net, told>>

\* Mutant of Due: one timer only is processed.
DueNone(n) == FALSE

\* The loop: every timer whose time has come, then the next one is started if the
\* callbacks have started none.
Due(n) == tm[n].heap # <<>> /\ tm[n].heap[First(tm[n])] <= 0
ProcessDue(n) ==
  /\ tm[n].loop /\ NoneAborted /\ Due(n)
  /\ LET t == First(tm[n]) IN Callback(n, Removed(tm[n], t), t)

ProcessEnd(n) ==
  /\ tm[n].loop /\ NoneAborted /\ ~Due(n)
  /\ LET T == [tm[n] EXCEPT !.loop = FALSE]
     IN  tm' = [tm EXCEPT ![n] = IF T.active = NoTimer THEN ArmFirst(T) ELSE T]
  /\ UNCHANGED <<next, tx, rx, app, net, told>>

\* A datagram arrives.  One that is lost never does.
Receive(m) == m \in net /\ net' = net \ {m}

\* Mutant of TriggeredRsp: the transaction is deleted and its timer goes on.
TriggeredRspUnstopped(s) ==
  /\ Ready("mme") /\ Receive(Rsp(s)) /\ s \in DOMAIN tx
  /\ tx' = Drop(tx, s) /\ Tell(s)
  /\ UNCHANGED <<tm, next, rx, app>>

\* nwGtpv2cHandleTriggeredRsp, nwGtpv2cTrxnDelete: the answer of a request that
\* waits for it; any other is ignored.
TriggeredRsp(s) ==
  /\ Ready("mme") /\ Receive(Rsp(s)) /\ s \in DOMAIN tx
  /\ Coincide \/ \A t \in Timed(tm["mme"]) : tm["mme"].heap[t] # 0
  /\ tx' = Drop(tx, s) /\ Tell(s)
  /\ tm' = [tm EXCEPT !["mme"] = StopTimer(@, s)]
  /\ UNCHANGED <<next, rx, app>>
TriggeredRspIgnored(s) ==
  /\ Ready("mme") /\ Receive(Rsp(s)) /\ s \notin DOMAIN tx
  /\ UNCHANGED <<tm, next, tx, rx, app, told>>

\* nwGtpv2cHandleInitialReq, nwGtpv2cTrxnOutstandingRxNew: a new request is passed
\* on, a repeated one is answered again if it has been answered.
InitialReqInd(s) ==
  /\ Ready("sgw") /\ Receive(Req(s)) /\ s \notin DOMAIN rx
  /\ rx' = With(rx, s, "waiting")
  /\ app' = [app EXCEPT ![s] = @ + 1]
  /\ UNCHANGED <<tm, next, tx, told>>
RepeatedReq(s) ==
  /\ Ready("sgw") /\ s \in DOMAIN rx /\ Req(s) \in net
  /\ net' = (net \ {Req(s)}) \cup IF rx[s] = "answered" THEN {Rsp(s)} ELSE {}
  /\ UNCHANGED <<tm, next, tx, rx, app, told>>

\* nwGtpv2cHandleUlpTriggeredRsp: the application of the S-GW answers.
Answer(s) ==
  /\ Ready("sgw") /\ app[s] > 0
  /\ app' = [app EXCEPT ![s] = @ - 1]
  /\ net' = net \cup {Rsp(s)}
  /\ rx' = [rx EXCEPT ![s] = "answered"]
  /\ tm' = [tm EXCEPT !["sgw"] = StartTimer(@, s, T3 * N3)]
  /\ UNCHANGED <<next, tx, told>>

-----------------------------------------------------------------------------
(* The environment.                                                         *)

\* timer_handle_signal: a timer of the service expires.
Expire(n, t) ==
  /\ NoneAborted /\ tm[n].os[t] = "running" /\ tm[n].heap[t] <= 0
  /\ tm' = [tm EXCEPT ![n].os[t] = "queued"]
  /\ UNCHANGED <<next, tx, rx, app, net, told>>

\* Time passes.  Steps take none, and an expiry and its message little.
Prompt(n) ==
  /\ ~tm[n].loop
  /\ \A t \in Timed(tm[n]) :
       tm[n].os[t] \in {"running", "queued"} => tm[n].heap[t] > -Latency
Tick ==
  /\ NoneAborted /\ \A n \in Nodes : Prompt(n)
  /\ \E n \in Nodes : tm[n].heap # <<>>
  /\ tm' = [n \in Nodes |->
              [tm[n] EXCEPT !.heap = [t \in DOMAIN @ |-> @[t] - 1]]]
  /\ UNCHANGED <<next, tx, rx, app, net, told>>

\* The timer service delivers, and a task handles what it delivered.
Wake(n) == \/ \E t \in Seqs : Expire(n, t)
           \/ \E t \in Seqs : ProcessTimeout(n, t)
           \/ ProcessDue(n) \/ ProcessEnd(n)

GtpNext ==
  \/ InitialReq
  \/ InitialReqAgain
  \/ \E s \in Seqs : TriggeredRsp(s)
  \/ \E s \in Seqs : TriggeredRspIgnored(s)
  \/ \E s \in Seqs : InitialReqInd(s)
  \/ \E s \in Seqs : RepeatedReq(s)
  \/ \E s \in Seqs : Answer(s)
  \/ \E n \in Nodes : Wake(n)
  \/ Tick

\* Time passes, and the timer service and the tasks go on.
GtpFairness == WF_gtp_vars(Tick) /\ \A n \in Nodes : WF_gtp_vars(Wake(n))

GtpSpec == GtpInit /\ [][GtpNext]_gtp_vars /\ GtpFairness
-----------------------------------------------------------------------------
(* Properties.                                                              *)

Alive(n) == tm[n].aborted = "no" /\ ~tm[n].loop

\* A stack with a timer in its heap is woken up again: the active timer is in the
\* heap, and the timer service runs it or has its message queued; the service has no
\* other.
TimersServed ==
  \A n \in Nodes : Alive(n) =>
    /\ tm[n].heap # <<>> => /\ tm[n].active \in Timed(tm[n])
                            /\ tm[n].os[tm[n].active] \in {"running", "queued"}
    /\ \A t \in Seqs : tm[n].os[t] # "off" => t = tm[n].active

\* A callback never meets a transaction that is gone, and none waits without a timer:
\* the timers are those of the requests that are outstanding and of the answered
\* ones that are held.
TransactionsTimed ==
  /\ Alive("mme") => Timed(tm["mme"]) = DOMAIN tx
  /\ Alive("sgw") => Timed(tm["sgw"]) = {s \in DOMAIN rx : rx[s] = "answered"}

\* The application is told the end of each request once, with an answer or a failure,
\* and not while it is outstanding; the
\* application of the S-GW never sees a request again that it has yet to answer.
OneOutcome ==
  /\ \A s \in Seqs : s < next => told[s] = IF s \in DOMAIN tx THEN 0 ELSE 1
  /\ \A s \in Seqs : app[s] <= 1

\* A retransmission is less than T3 later than it should be, although the callback of
\* one timer may leave a later timer active than the first of the heap.
LateByLessThanT3 ==
  \A n \in Nodes : tm[n].aborted = "no" =>
    \A t \in Timed(tm[n]) : tm[n].heap[t] > -(T3 + Latency)

\* Every request ends, with an answer or a failure, unless the stack aborts.
EveryRequestEnds ==
  \A s \in Seqs : s \in DOMAIN tx ~> (s \notin DOMAIN tx \/ ~NoneAborted)

\* nwGtpv2cStopTimer and nwGtpv2cStartTimer assert that the timer service could stop
\* the active timer.
TimerStops == \A n \in Nodes : tm[n].aborted # "timer"
=============================================================================
