# A TLA+ verification of the OpenAirInterface LTE stack

The repository is an LTE eNB and UE in software (PHY, MAC, RLC, PDCP, RRC), an
EPC (MME, S-GW/P-GW, S1AP, S11, NAS, GTP) and the programs that run them (the
real-time `lte-softmodem`, the simulator `oaisim`). This project models the
protocol logic that is hard to test: sequence-number windows, timers, buffers
shared between threads, and what is lost or reordered between two peers. It has
four parts so far: the RLC unacknowledged mode (UM) bearer (sender, channel,
receiver, their locking and their timer); the two sides of RLC acknowledged mode
(AM); the COUNT that two PDCP entities keep in step; and the GTPv2-C stack
between MME and S-GW with its timers.

## Inventory of the system

| Component | State | Operations | What is hard | What makes it correct |
|---|---|---|---|---|
| RLC UM receiver (`LAYER2/RLC/UM_v9.3.0/rlc_um_dar.c`, `rlc_um_reassembly.c`) | VR(UR), VR(UX), VR(UH), reception buffer by SN, t-Reordering, SDU in construction, the flag of a missing PDU, a lock | PDU from MAC, timer poll at every TTI | two MAC threads, the timer tested outside the lock, modular windows, loss, duplication, reordering | consistent window, gaps timed, loops end, SDUs whole, ordered, once |
| RLC UM sender (`rlc_um_segment.c`, `rlc_um.c`) | queue of SDUs with what remains of each, occupancy reported to MAC | SDU from PDCP, grant, PDU request | 1.5-byte length indicators, two passes over the queue that must agree | the PDU fits and holds exactly what left the queue |
| RLC timers (`rlc_um_dar.c`, AM `rlc_am_timer_*.c`) | running, first and last frame | start, stop, poll | wrap of the frame counter, callers with different counters | neither early nor late |
| RLC AM receiver (`LAYER2/RLC/AM_v9.3.0/rlc_am_receiver.c`, `rlc_am_rx_list.c`, `rlc_am_status_report.c`) | VR(R), VR(H), VR(X), VR(MS), sorted list of PDUs and segments, status request, t-StatusProhibit | PDU from MAC, status report within a grant, timer | overlapping segments, the sort across the wrap, reports cut short by the grant | bytes up once and in order, reports true |
| RLC AM sender (`rlc_am.c`, `rlc_am_segment.c`, `rlc_am_retransmit.c`, `rlc_am_segments_holes.c`, `rlc_am_in_sdu.c`) | VT(A), VT(S), VT(MS), POLL_SN, retransmission buffer with holes, ring of SDUs, counters, t-PollRetransmit | SDU, grant, status report, timer | repeated and partial NACKs, slots and descriptors used again, many counters kept by hand | nothing freed that the peer has not got, each SDU confirmed once |
| RLC TM, dispatcher (`TM_v9.3.0`, `rlc.c`, `rlc_mac.c`, `rlc_rrc.c`) | entities by bearer | look-up and dispatch | - | each bearer's calls reach its entity |
| PDCP (`PDCP_v10.1.0`) | next SN and HFN of both directions, last SN submitted, security context | data request, data indication | loss around the wrap, the reordering window, HFN advanced on receipt | both ends use the same COUNT |
| MAC (`LAYER2/MAC`) | UE list, HARQ and random-access state, BSR, timing advance | scheduler per subframe, RA messages, PHY indications | races between RA and scheduling, time-outs | one UE per RNTI, RA terminates |
| RRC (`RRC/LITE`) | UE state, pending transactions, timers T300-T310 | messages, timers, reconfiguration | hand-over, re-establishment | both ends apply the same configuration |
| ITTI (`common/utils/itti`) | queue per task, memory pools, timers | send, receive, timer | lock-free queues, time-out against removal | no message lost or freed twice |
| NAS (`openair-cn/NAS`) | EMM and ESM contexts, FSM, timers T3410-T3470 | attach, detach, authentication, security mode | retransmission, colliding procedures | one context per UE, retries bounded |
| MME application, S1AP, S11, SGW-LITE | UE and bearer contexts, TEIDs, associations | attach and session messages, releases | partial failure of a session set-up | both sides hold the same bearers |
| GTPv2-C (`nwgtpv2c-0.11`) | outstanding requests and their retries, answers held for repeated requests, heap of timers of which one is active | request, response, time-out | a late response against an expiry, one service timer for all, loss and repetition | every request ends, once; no timer forgotten |
| PHY (`openair1`), drivers, GTP-U, SCTP, UDP, S6a, crypto, log and traffic tools | - | signal processing, I/O | - | not protocol logic |

Interactions: the PHY threads of the softmodem call the MAC (`rx_sdu`, the
scheduler); the MAC calls RLC synchronously (`mac_rlc_status_ind`,
`mac_rlc_data_req`, `mac_rlc_data_ind`) in the receiving and in the transmitting
threads at once; RLC calls PDCP (`rlc_data_ind`) and PDCP calls RLC
(`rlc_data_req`); RRC, S1AP, GTP and NAS exchange ITTI messages between tasks.
`PROJECT.json` lists every component with its sources and the hazards at their
lines.

## Modules

| Module | Models | State and actions |
|---|---|---|
| `RlcUmDar` | the receiving entity and the threads in it | the fields of `rlc_um_entity_t`; one action per entry point and one per loop iteration: `DataIndication`, `Discard`, `Store`, `Pulled`, `Advance`, `Advancing`, `Timers` (`rlc_um_receive_process_dar`), `StatusIndication`, `PollTimer`, `TryLock`, `TryLockBusy`, `Skip`, `Rearm` (`rlc_um_check_timer_dar_time_out`), `TryReassembly` (`rlc_um_try_reassembly`), `FramesPass` |
| `RlcUmTx` | the sending entity | `input_sdus`, `buffer_occupancy`; `DataReq`, `MacStatus`, `NothingToSend`, `Segment` |
| `RlcUmLink` | `RlcUmTx`, a channel and `RlcUmDar` | `Submit`, `Offer`, `Transmit`, `Lose`, `Arrive`, `Receiver` |
| `RlcUmService` | what the bearer promises PDCP: SDUs whole, in order, at most once | `Submit`, `Deliver` |
| `RlcTimer` | a frame-counting timer and the callers' frame numbers | `Start`, `Stop`, `Expire`, `Tick` |
| `RlcAmRx` | the AM receiver | `vr_r`, `vr_h`, `vr_x`, `vr_ms`, the receiver buffer as a sequence, `status_requested`, t-StatusProhibit; `Receive` (out of window, dropped, placed), `SendStatus`, `ProhibitExpires` |
| `RlcAmTx` | the AM sender | `vt_a`, `vt_s`, `pdu_retrans_buffer`, `input_sdus` and its two indices, the retransmission counters, polling; `DataReq`, `DataReqDropped`, `PollTimeOut`, `GetPdus` (four cases), `ReceiveStatus`, `StatusStep` (one SN of a report) |
| `RlcAmTxLink` | `RlcAmTx` with a peer and a lossy link | `Submit`, `Request`, `Lose`, `Arrive`, `Report`, `LoseReport`, `DeliverReport`, `Process`, `TimeOut` |
| `PdcpCount` | COUNT at the two ends of a bearer | `DataReq`, `Lose` (RLC), `DataInd` |
| `Gtpv2c` | the stacks of MME and S-GW, UDP, the ITTI timer service | transactions and timers of each stack; `InitialReq`, `TriggeredRsp`, `InitialReqInd`, `RepeatedReq`, `Answer`, `Expire`, `ProcessTimeout`, `ProcessDue`, `ProcessEnd`, `Tick` |
| `RlcUmDarProofs`, `RlcUmTxProofs`, `RlcTimerProofs`, `RlcAmRxProofs`, `RlcAmTxProofs`, `PdcpCountProofs`, `Gtpv2cProofs` | the theorems on the module of that name (`RlcAmTxProofs` also on `RlcAmTxLink`) | |
| `DataLemmas` | lemmas on operators that several proofs need: least and greatest element, induction up to a number and over a finite set, what a fold over a sequence computes, sums over a finite set | |
| `MC*` | small instances for TLC | |

How the abstraction is made:

- A PDU is the list of its data fields and two booleans for the FI field; the
  receiver's parsing of length indicators becomes that list. In `RlcUmLink` the
  list is computed from what the sender wrote, byte by byte, so a disagreement
  between the sender's layout and the receiver's reading is visible, and a byte
  of the PDU that was never written appears as `Stray`.
- Bytes of an SDU are `<<number, position>>`; `RlcUmTx` counts bytes only.
- Frames are abstracted in `RlcUmDar` to whether `frame_time_out` is reached
  (`due`), which `FramesPass` sets; `RlcTimer` checks when the code's comparison
  really says so.
- A locked section is cut into a step per loop iteration, because the other
  thread reads the timer, and tries the lock, without holding it.
- The sender's operations hold `lock_input_sdus` throughout and are one step.
- In RLC AM a PDU is its range of bytes; the receiver's list holds PDUs and
  segments, the sender's buffer holds for each SN its size, its holes, its SDUs
  and its flags. The byte layout of length indicators is left out: it is the same
  scheme that `RlcUmTx` models for UM. The peer of `RlcAmTxLink` is what
  `RlcAmRx` shows the receiver to be (truthful reports, overlaps dropped).
- A status report is processed one SN per step (`StatusStep`), the calls the
  code makes for that SN included; nothing else happens until the report ends.
- In `Gtpv2c` a task handles one message per step, `nwGtpv2cProcessTimeout` one
  timer per step, and the timer service runs beside the task. `heap` is the time
  each timer has left, so the model needs no clock.
- `SuccUnwrapped`, `EdgeTooLow` and the other definitions marked "Mutant of"
  are deliberate errors used to show that the properties can fail; no
  specification uses them.

## Runs

| Run | Instance | Shows |
|---|---|---|
| `um_dar` | SN space 8, window 4, one caller, any SN at any time | type, `WindowConsistent`, `GapIsTimed`, the inductive `WindowInvariant`, `Forward`, and that every buffered PDU is reassembled in the end |
| `um_dar_threads` | SN space 4, window 2, two callers | `LockGuards`, and `LockReleased`: all loops end and unlock |
| `um_tx` | SDUs of 1-4 bytes, queue up to 4, grants 0-16, 5- and 10-bit SNs | occupancy exact, PDU fits, the two passes agree, the grant is used, every PDU carries data, and with 5-bit SNs (`FiveBitExact`) no byte of a PDU belongs to no SDU |
| `um_link` | SDUs of 2, 1, 2 bytes, grants 2, 3, 6, SN space 4, one receiving thread | `ImplementsService` (refinement of `RlcUmService`) and `StoredIsDelivered` |
| `um_link_threads` | two receiver threads | violation of `NotDeliveredBefore`, see findings |
| `timer` | fields modulo 32, counters modulo 9, `frame_tx` one ahead, duration 4 | `NeverLate` for every caller wherever a counter wraps; `NeverEarlyUnwrapped`: early only after a counter wrapped |
| `am_rx` | SN space 6, window 3, PDUs of 3 bytes and all their segments, 8 PDUs, grants 3, 4, 8, 20 bytes | until a PDU is misplaced: `OrderKept`, bytes go up once and in order; `StatusIsTruthful`, `NacksAreMissing`: a report neither acknowledges what is missing nor asks for what is there |
| `am_tx` | SN space 6, window 3, ring of 3 descriptors, 4 SDUs of 2 bytes, grants 2 and 4, one report on its way | `WindowHolds`, `RetransmissionFound`, `CountersExact`, `AckedIsReceived`, and until a descriptor in use is overwritten `AccountedUntilOverwritten` (1.4 million states) |
| `am_tx_full` | the same | violation of `ReportsAreHeard`, see findings |
| `gtp` | 2 requests, T3 3, N3 2, the service up to 1 late | `TimersServed`, `TransactionsTimed`, `OneOutcome`, `LateByLessThanT3`, and `EveryRequestEnds` |
| `gtp_race` | the same | violation of `TimerStops`, see findings |
| `pdcp` | SN space 8, window 4, HFN up to 3, 3 PDUs in RLC; bearers of all kinds | `InStep` on SRBs and 12-bit UM bearers, `AgreeUntilCrossed` and `NoneRefused` on AM bearers |

Seven more configurations are kept beside these. Each checks the plain form of a
property that a run above checks up to the point where the code breaks it, and TLC
finds it violated:

| Configuration (module) | Property | What TLC shows |
|---|---|---|
| `MCRlcUmTxStray.cfg` (`MCRlcUmTx`) | `NoStrayBytes` | with 10-bit SNs a PDU without room for another length indicator is not made shorter (`rlc_um_segment.c:237`; 231: "reduce the size of the PDU"): up to two bytes that were never written go out, and the receiver appends them to the last SDU |
| `MCRlcTimerEarly.cfg` (`MCRlcTimer`) | `NeverEarly` | the counters of the eNB wrap at 1024, `frame_time_out` does not: a timer started shortly before the wrap expires as soon as a caller is in frame 0; `frame_tx` is ahead, so that may be at once (`rlc_um_dar.c:699`; `rlc_um_entity.h:51`: "Configured timer duration in frames.") |
| `MCRlcAmRxOrder.cfg` (`MCRlcAmRx`) | `InSequence` | VR(R) is 7 of 8, SN 1 and then SN 0 arrive: SN 0 is appended to the list, behind SN 1 (`rlc_am_rx_list.c:404`). Reassembly does not see it there; when the peer repeats it, the copy moves the window past the first one, which goes up a second time, out of order (`rlc_am_receiver.c:384`: "in sequence if not delivered before") |
| `MCRlcAmTxRing.cfg` (`MCRlcAmTx`) | `SdusAccounted` | `rlc_am_data_req` takes a descriptor whose SDU is sent and not acknowledged: `mem_block` is NULL by then and `flags.segmented` is never set (`rlc_am.c:954`). The SDU is never confirmed, and the acknowledgements of its PDUs are counted for the new one. A ring of 128 and a window of 512 PDUs make this ordinary load |
| `MCPdcpCountWrap.cfg` (`MCPdcpCount`) | `CountsAgree` | on an AM bearer, after the loss of the last SN before a wrap, `next_pdcp_rx_sn` is increased by one instead of set to the SN received plus one (`pdcp_sequence_manager.c:236`), and the following PDUs raise the HFN again |
| `MCPdcpCountGtpu.cfg` (`MCPdcpCount`) | `CountsAgree` | in an eNB built with `LINK_PDCP_TO_GTPV1U`, `last_submitted_pdcp_rx_sn` is not kept (`pdcp.c:708-722`; `pdcp.h:163`: "SN of the last PDCP SDU delivered to upper layers"): PDUs in order are taken for ones out of the window and deciphered with the HFN before |
| `MCPdcpCountShort.cfg` (`MCPdcpCount`) | `CountsAgree` | a bearer with 7-bit SNs is sent with the long header (`pdcp.c:246`) and read with the short one (`pdcp.c:536`); the RRC configures 12 bits |

Bounds and why they suffice. SNs are wrapped by a space of 8 (or 4): the code
uses the modulus and the window only in `x % modulo` and comparisons, so every
relative position of four numbers occurs, and the theorems cover all sizes. SDUs
up to 4 bytes and grants up to 16 pass through every branch of the length-
indicator arithmetic, whose pattern repeats every two indicators (3 bytes). Five
bytes in three SDUs and grants of 2, 3 and 6 give up to five PDUs, which wraps an
SN space of 4 and splits and concatenates SDUs. `MaxQueued` bounds the queue,
`MaxElapsed` how long a running timer may stay unpolled. In `timer` the counters
wrap before the fields, as 1024 does before 2^32; a timer started at any frame is
polled at any age up to 7 of 9 frames. The same theorems hold for a counter as wide
as the fields, which the UE of the softmodem has.

For AM, 8 PDUs wrap an SN space of 6 with a window of 3, and 3 bytes are the
fewest with a hole in the middle; the grants cut a report before its first NACK,
in the middle of the NACKs of a PDU, after it, and not at all. Every PDU of the
window may arrive, also those that the walks across the wrap put in a wrong place.
`misplaced` counts the PDUs that arrive from the first of these on, and
`MaxMisplaced` bounds it: 1 in `am_rx`, whose properties speak of what is before.

In `am_tx` four SDUs of two bytes and grants of 2 and 4 split and concatenate
SDUs; up to eight PDUs share six SNs, and the fourth SDU takes the descriptor of
the first, acknowledged or not. `MaxCount` bounds `retx_count` when a PDU is sent or
a report arrives: 0 allows a NACK, its retransmission in parts and a second NACK.
`MaxAfter` bounds the PDUs held then, once a descriptor is overwritten, to 2.
`MaxReports` bounds the reports on their way. `MaxRetx` is larger than any count
reached, so the branch that gives up an SDU
is not taken: with a small one `CountersExact` and `SdusAccounted` fail, because
the code then frees an SDU without reducing the occupancy and keeps its PDUs. Two
GTP requests are the fewest whose timers compete for the one service timer; T3 3
with `Latency` 1 puts a third event between any two. In `pdcp` the HFN grows three
times, and up to an SN space less one (on AM a window less one) of PDUs is lost in
a row, any of them: RLC UM loses PDUs on the way, RLC AM refuses SDUs that have
their SN already. `SnWidth` stands for the 16 bits of `pdcp_sn_t`. The theorems hold
for every size.

In `RlcUmLink` a PDU arrives at most a window before or after the highest one
heard. That is what HARQ delay and UM sequence numbering assume of each other; a
PDU from further away cannot be told from a new one by any receiver. Deadlock is
not checked for the link: PDCP submits finitely many SDUs and the run may stop.
The same holds for `am_rx`, `am_tx`, `gtp` and `pdcp`, whose inputs are finite.

Fairness: `WF` on every thread's next step and on `FramesPass`. The MAC polls
each bearer with `mac_rlc_status_ind` whenever it schedules, threads of the softmodem are
not stopped for ever inside RLC, and frames pass. Nothing is assumed of PDUs:
they need never arrive. The code takes the lock without fairness guarantees and
none is assumed of it beyond weak fairness; `LockReleased` speaks of the holder.
In `Gtpv2c`, `WF` on `Tick` (time passes) and on `Wake` of each stack (the timer
service delivers, the task reads its queue); none on datagrams or on the S-GW's
application, so an answer need never come.

## What is proved

With TLAPS, for every window size, SN space, set of PDUs and duration that the
named assumptions allow:

- `TypeCorrect`, `LockSafe` for any number of threads: the fields keep their
  types (in particular every index into `dar_buffer` is in range), and a thread
  is in guarded code exactly when it holds the lock.
- `WindowSafe`, `GapSafe`, `ForwardSafe` for a single caller (`SingleThread`,
  as in `oaisim`; the softmodem's eNB and UE both have a receiving and a
  transmitting thread): between calls the window is consistent and any
  gap is timed, and VR(UR), VR(UH) never move backwards. `WindowInvariantHolds`
  states the invariant behind them, which also speaks of the middle of a loop.
- `TimerTypeCorrect`, and for counters of any width up to that of the fields and any
  number of frames between the callers: `TimerNeverLate`, every poll after the
  duration finds the timer expired, and `TimerEarlyOnlyAtWrap`, a poll before it
  does so only when a counter has wrapped since the start, or when the caller is
  behind the one that started the timer.
- `InStepSafe` for SRBs and 12-bit UM bearers, every SN space and pattern of
  loss within `Lose`: sender and receiver of PDCP use the same COUNT for every PDU,
  and the ends agree. For AM bearers, `WindowAdmits`: no PDU is refused, and
  `AmAgrees`: the ends agree until a PDU with the last SN before a wrap is lost. The
  bearers that break this are in the table above.
- `RxTypesSafe`, `OrderSafe` of `RlcAmRxProofs` for every
  window, PDU size and number of PDUs, whatever PDUs and segments of PDUs arrive,
  repeated and out of order: the list is sorted in the window and its segments do not
  overlap, and exactly the bytes before VR(R) go up, once and in sequence.
  `StatusTruthfulSafe`, `NacksMissingSafe` for every grant: a status report, cut off
  wherever its grant ends, acknowledges only bytes that have been received and asks
  only for bytes that have not. All four hold until a PDU is misplaced, and
  `MCRlcAmRxOrder.cfg` shows what happens then; `StatusTruthfulSafe` assumes a window of two
  SNs or more, because in a window of one the ACK_SN VR(R) - 1, which a report ends
  with when the first PDU of the window is incomplete, is VR(R) + 1.
- `WindowSafe`, `RetransmissionSafe` of `RlcAmTxProofs` for every window, grant,
  SDU and status report, also one that no peer would send: the retransmission
  buffer holds what VT(A), VT(S) and the ACKs say, and the PDU to repeat is one
  that is held. `LinkWindowSafe`, `LinkRetransmissionSafe` carry this over to
  `RlcAmTxLink` with any number of reports, in any order.
- `LinkAckedSafe`: what the sender acknowledges and frees, the peer has received,
  with any number of PDUs and reports lost or on their way. It assumes
  `~Reordering` (a report that overtakes an older one breaks it, see "Also met") and
  a window of two SNs or more (ACK_SN may be VT(A) - 1, which in a window of one is
  VT(A) + 1).
- `TxCountersSafe`, `LinkCountersSafe`: the number of PDUs and bytes to retransmit and
  the buffer occupancy are those of the buffers. `LinkSdusSafe`: an SDU is confirmed
  once, and not while a PDU with a part of it waits for acknowledgement. They speak
  of behaviours in which no PDU is given up (`NoneGivenUp`): `rlc_am_nack_pdu`, when
  it gives a PDU up, frees its SDUs although bytes of the last one may still wait for
  transmission, and takes them out of no counter. `LinkSdusSafe` holds until
  `rlc_am_data_req` overwrites a descriptor in use; `MCRlcAmTxRing.cfg` shows that it does.
- `OccupancySafe`, `PduFitsSafe`, `FiveBitSafe`, `PassesAgreeSafe`, `GrantSafe`,
  `ProgressSafe` for all SDUs, grants, queues and both SN lengths: everything that
  `um_tx` checks of segmentation.
- `TransactionsSafe`, `OutcomeSafe` for any number of requests, T3, N3 and latency:
  timers and transactions correspond, and a request ends once. `TimersSafe`,
  `LatenessSafe` in addition assume `~Coincide` (without it they fail, see "Also
  met") and `N3 # 0`: the code sets `maxRetries = 2`, and with no retries an answer
  would be held for a time of 0, which disarms the timer.

`WindowConsistent` only speaks of states in which nobody is inside. It becomes
inductive as `WindowInvariant`: while a loop runs, the buffer may be filled from
the loop's own position (`Low`), not from VR(UR), up to VR(UH); while the window
is being pulled, VR(UH) has already jumped and the filled part is described
around the new lower edge (`FilledAround`), because together the two parts may be
the whole circle. A thread that has seen the timer expired (`expired`) relies on
the timer still running, which is the conjunct that fails with a second thread.
The lemmas on `Dist` turn window tests on the circle into inequalities
(`ReorderingWindow`, `BehindUr`, `Awaited`, `NotPassed`). `ForwardSafe` follows
step by step: the only assignment that could go back is VR(UR) := VR(UX), and
`WindowInvariant` bounds VR(UX) from below.

For PDCP, `InStep` says only what happened to the last PDU. `CountInvariant`
adds what makes it inductive: the PDUs in RLC follow each other and the sender
(`Chain`), the first of them is ahead of what the receiver expects by exactly the
PDUs lost (`Expected`), and on an AM bearer the last SN submitted is behind it by one
more (`LastKept`). After a loss across a wrap of an AM bearer (`crossed`) only `Chain`
and `LastKept` remain, which is enough for `NoneRefused`; before it the receiver is on
the same side of the wrap as what it gets next (`InWindow`). `Following` and
`ChainTail` carry the chain from one PDU to the next over the wrap.

For the AM receiver, `ListInOrder` and `InSequence` each need the other, and neither
says what a mark means. `RxInvariant` numbers the PDUs of the list by their place in the
stream and not by their SN, and says of the list (`ListSound`): it is in the window
(`InWindow`), in the order of the stream (`Sorted`), a marked segment has its
neighbours, marked (`Complete`), a whole PDU is marked (`Wholes`), and the head is
not a complete PDU that is next. `OrderOf` translates the comparisons of SNs on
either side of VR(R), as the walks make them, into the order of the stream. From
there: each of the three walks ends at a place where the PDU fits (`UnwrappedFits`,
`BeforeWrapFits`, `AfterWrapFits`; the second and third need that `Misplaced` is
false, and `KeptStep` carries the invariant along while it is), insertion and marking keep the list sorted and complete (`InsertedKeeps`,
`MarkedKeeps`), the elements that `Reassembled` takes are whole PDUs because the run
is the longest one (`TakenWhole`), and the two folds over that run, one that moves
VR(R) and one that passes bytes on, arrive at the same PDU (`VrRun`, `PassedRun`). A status
report is a fold over the list, with a fold over each gap in it, that may end at any
NACK. `Reported` says what has been told after each element: all up to the PDU of the
element (`Closed`), or all before it and its bytes up to the end of the element
(`Open`), or the report has ended and all before its ACK_SN is told (`Ended`). That
nothing is asked for that is there rests on `HoleIs`: in a sorted list, what is
between an element and its successor is nowhere in the list.

For the AM sender, `TxInvariant` adds to `WindowHolds` and `RetransmissionFound` the
shape of the fields (`TxFields`) and `CursorPassed`: while a report is processed, what
is before its cursor has been visited, so the window moves only at the cursor. The
report's contents are not constrained at all, because the code trusts a report only
as far as it tests it. `AckAtVtA`, the one long case, follows VT(A) over PDUs already
acknowledged.

With a peer, a report is true when it is written and old when it arrives.
`LinkInvariant` therefore says of each report on its way, as seen from the VT(A) of
now (`ReportsSound`): it does not reach past VT(S), it NACKs what of its range is still
missing, and it does not speak against what is acknowledged, what the report in process
will acknowledge, or what a report before it will (`Spared`). `ReportMoved` and
`SparedMoved` carry this along when VT(A) moves; `CtrlSound` says the same of the rest
of the report in process. For the
counters, `CountInvariant` has each counter as a sum over the held slots or over the
ring of SDUs (`SlotCounters`, `SduCounter`), and a step changes one slot, or moves bytes
of some SDUs into a new PDU; the lemmas on `Total` in `DataLemmas` say what that does
to a sum whose order of summation is a choice. `Accounts` relates the three places in
which an SDU is known: the PDUs that name it (`UsersKnown`), its count of them
(`UsersCounted`), and the confirmations (`MuisFree`, `MuisUnique`, `MuisOpen`). It is
kept for as long as an SDU takes a free descriptor (`LinkTakesFree`).

For the UM sender, the two passes over the queue are folds. `FoldLeftTrace` gives
the sequence of values that a fold goes through, and `InductionUpTo` what each of
them is. `StopsIn` names the SDU in which the first pass stops; `CountedIs` and
`FilledIs` show that the pass that fills the PDU, in what room the first one left
it, stops in the same SDU with at least one byte of it (`Layout`). All six theorems
are arithmetic from there. `NothingLeft` is the reason for `GrantIsUsed`: a PDU
smaller than the grant empties the queue.

For GTPv2-C, `GtpInvariant` says which timers a stack has for which transactions and
that its times have a least element (`HeapBounded`; a heap of which nothing else is
known need not have a first timer). `ServedInvariant` adds that the active timer is
known to the timer service and that no other is due more than T3 before it: a
callback in the loop of `nwGtpv2cProcessTimeout` starts timers while others are due,
and may make one active that is not the first, so "the active timer is the first"
is not an invariant.

Assumptions: `WindowAssumption` (the SN space is twice the window, as
`rlc_um_configure` sets it; 32/16 and 1024/512), `TimeOutAssumption`,
`ThreadsAssumption`, `NullAssumption`, `ModuloAssumption` (the counters are no wider
than the fields), `DurationAssumption` (a timer is polled before a counter has gone
round), `PdcpSnAssumption` (the SN space is twice the reordering window, and an SN
fits its type),
`PdcpBearerAssumption`, `TxWindowAssumption` and `TxSizeAssumption` (a segment has
room for its header and a byte, the limit of retransmissions is a natural), `SnLengthAssumption` and `SizesAssumption` (SDUs are
not empty), `AmWindowAssumption` (the SN space is twice the window, 1024 and 512),
`MisplacedAssumption` and
`PduSizeAssumption` (a PDU has a byte, and fewer than the code for "to the end"), and
`GtpAssumption`.
TLC evaluates all of them.

Only model-checked: liveness (`EventuallyReassembled`, `LockReleased`,
`EveryRequestEnds`, which need fairness), and of the UM bearer end to end the
refinement of `RlcUmService` and `StoredIsDelivered`.

## Findings

1. `um_link_threads`. An expiry is decided before the lock is taken and not
   decided again: VR(UR) may move backwards and an SDU be delivered twice.
2. `am_tx_full`. The window test of a status report excludes ACK_SN = VT(MS). With
   a full window that the peer has received, every report says just that: all
   are ignored, t-PollRetransmit is not stopped and the sender sends nothing new.
3. `gtp_race`. A response handled between the expiry of its timer in the timer
   service and the message of that expiry stops a timer that no longer exists;
   the stack asserts that stopping succeeds.

### Also met

Seen while modelling, besides what the table of configurations under "Runs" shows.
Where a value is given, changing that constant makes TLC show it.

RLC UM:

- VR(UR), pulled onto a PDU that was received earlier, waits for t-Reordering
  (`rlc_um_dar.c:1190`), although the comment at 1183 says it moves on.
- `T_Reordering = 0` (the first entry of the table): the timer never expires and
  `EventuallyReassembled` fails.
- A PDU with as many length indicators as the receiver's limit is stored and its
  SDUs are dropped (`rlc_um_dar.c:158`): `MaxLi = 2` with three SDUs in a PDU
  breaks `StoredIsDelivered`.
- t-Reordering is not stopped when VR(UX), VR(UR) and VR(UH) become equal; the
  expiry that follows changes nothing, as `Forward` and `WindowConsistent` show.

RLC AM, receiver:

- Segments next to the end of a walk across the wrap are not checked for overlap
  (`rlc_am_rx_list.c:394-443`); `Misplaced` includes them.
- A whole copy of a PDU of which segments are stored is dropped
  (`rlc_am_rx_list.c:572-581`; the comment in `rlc_am_receiver.c:305-314` asks for
  the duplicate bytes only to be discarded).
- A lone last segment makes the report acknowledge one SN less than it could.
- t-Reordering never expires (`rlc_am_timer_reordering.c:43`), and its stop test
  compares the SN just received instead of VR(X) (`rlc_am_receiver.c:422`).

RLC AM, sender:

- A report that a newer one overtook is applied although it is stale:
  `Reordering = TRUE`, `MaxReports = 2` breaks `AckedIsReceived`.
- `retx_count` grows with every NACK, pending or not, and is an `int8_t`; a whole
  copy is sent at every opportunity until it is acknowledged (`rlc_am.c:407`).
- A new PDU passes `rlc_am_pdu_polling` twice (`rlc_am_segment.c:595`,
  `rlc_am_retransmit.c:308`), a retransmitted segment gets no poll bit (`rlc_am_segment.c:85`).
- `rlc_am_remove_hole` and `rlc_am_add_hole` are off by one at some borders
  (`rlc_am_segments_holes.c:115`, 127, 154-159); the model has the holes the code
  computes.

GTPv2-C:

- A timer armed for the very time it is (`Coincide = TRUE`) is armed with 0, which
  disarms it: `TimersServed` fails and no timer of that stack is served again.
- The S-GW holds an answer for T3 * N3, the time at which the last copy of the
  request is sent: a copy that arrives later is taken for a new request.
- A request the S-GW's application never answers keeps its transaction for ever.
- A second request of a UE context ends in an assertion, because the TEID is the
  address of the context (`InitialReqAgain`).
- The MME's S11 task does not pass a failed request (RSP_FAILURE_IND) on.

PDCP:

- The COUNT of the last SN before a wrap has the new HFN, on both ends alike.
- A PDU whose SN is refused is deciphered and delivered all the same.

## Not modelled, and why

- MBMS bearers (window size 0) and the FSM states NULL and suspend: once READY,
  `rlc_um_fsm_notify_event` refuses another configuration, so a bearer is
  configured once.
- Exhaustion of the memory pool: the process ends.
- Statistics, traces, and the header bits once FI and LIs are read.
- RLC AM: the softmodem's threads. Its receiving and transmitting threads call an
  entity at once, and AM locks only `input_sdus`: the processing of a status report
  may free a PDU that `rlc_am_get_pdus` is about to repeat. `RlcAmRx` and `RlcAmTx`
  take a handler for one step, which is so in `oaisim`, where one thread calls both
  sides. Results on them carry over to the softmodem only where handlers do not overlap.
- RLC AM: two status reports in one frame. `rlc_am_nack_pdu` clears the holes of a PDU
  at the first NACK in a frame (`rlc_am_retransmit.c:77`), `AddHole` at the first in a
  report; a second report in the same frame adds to the holes, towards the assertion
  on their number (`rlc_am_segments_holes.c:347`), which the model does not have.
- RLC AM: pollByte, re-establishment, the layout of length indicators, the
  NULL and suspend states.
- GTPv2-C: the ids of the timer service. `s11_sgw_start_timer_wrapper` does not store
  the id (`s11_sgw.c:139-169`), so the S-GW could stop no timer; it never has to.
- GTPv2-C: echo, triggered requests, the tunnel API and the parsing of information
  elements; restart of a node, for which the code has no recovery.
- PDCP: header compression, the ciphers, the FIFO to the IP interface, and
  configuration.
- PHY and signal processing (`openair1`), generated codecs and tables (ASN.1,
  twiddle factors), kernel drivers, the vendored 802.11 code and the simulation
  tools: most of the repository's lines, and none of its protocol logic.
- The remaining components of the inventory, see the plan.

## Plan

1. Theorems on the UM bearer end to end (`ImplementsService`, `StoredIsDelivered`)
   from `WindowInvariant` and the layout of a PDU (`Layout`).
2. AM end to end: `RlcAmTx` with `RlcAmRx` in place of the abstract peer, and an
   abstract service (reliable, in order) that they implement.
3. ITTI queues and memory pools; S11 with SGW-LITE session contexts.
4. S1AP contexts, EMM attach with its timers.
5. MAC random access, RRC connection states.
