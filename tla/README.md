# TLA+ models of SDTL (eswb serial data transfer layer)

This directory holds TLA+ specifications of the SDTL transport in
`src/src/lib/services/sdtl/sdtl.c` and of its EQRB driver
`src/src/lib/services/eqrb/drivers/sdtl.c`, the TLC configurations that
check them, and `PROJECT.json`, which maps every definition to the source
lines it models and lists the runs, mutants, findings and hazards.

## 1. The system

SDTL multiplexes logical channels over one byte stream (serial line).

| Part | Code | State | Operations |
|---|---|---|---|
| Framer + RX loop | `sdtl_service_rx_thread`, `bbee_frm_process_rx_buf`, `bbee_frm_compose_frame` | framer decode state | read bytes, deliver each good frame to `sdtl_got_frame_handler`; a frame with a bad CRC is dropped |
| Validation / channel resolution | `validate_base_header`, `resolve_channel_*` | channel table | drop malformed frames or frames for unknown channels |
| Channel state record | `ch_state_read`, `ch_state_set_rx`, `ch_state_alter_cond_flags`, `ch_state_return_condition` | eswb topic `{rx_state, last_received_seq, condition_flags}` | read; read-modify-write |
| RX dispatcher (RX thread) | `sdtl_got_frame_handler`, `rx_process_data`, `rx_process_ack`, `rx_process_cmd` | snapshot of the channel state | DATA: re-ACK a trailing duplicate, answer CANCELED / NO_RECEIVER, or push to `data_fifo`; ACK: push to `ack_fifo`; CMD: set condition flags, push OOB entries |
| TX engine (application thread) | `channel_send_data`, `send_data`, `wait_ack`, `generate_seq_code`, `channel_send_cmd` | `tx_seq_num`, `ack_fifo` | fragment, send, wait for ACK with timeout, retry forever |
| RX API (application thread) | `channel_recv_data`, `wait_data`, `sdtl_channel_recv_arm_timeout` | `data_fifo`, `armed_timeout_us` | set WAIT_DATA, flush, pop/classify/ACK/copy, record SEQ_DONE or RCV_CANCELED |
| Service lifecycle / registry | `sdtl_service_init/start/stop`, `srv_reg_*`, `sdtl_channel_create/open/close` | registry of 4 services, channel table | create topics and FIFOs, start the RX thread |
| EQRB driver | `eqrb_drv_sdtl_*` | none | map send/recv/command results to EQRB codes |

Interactions: per peer, one RX thread and one or more application threads
share a channel handle. The RX thread and the application thread meet in
the channel state topic (read without a lock held across the dispatch) and
in the two eswb FIFOs (bounded, overwrite the oldest entry, reader
underrun). Both threads write frames through `send_ack`/`media_tx` using the
handle's single `tx_frame_buf`.

The hard behaviours are: lost frames and the retries they cause; ACK timers
that expire while the answer is still travelling; the RX thread deciding on
a state snapshot that the receiver changes before the decision is used;
receive calls that end in the middle of a sequence and are called again;
bounded FIFOs; 16-bit sequence codes and 8-bit fragment counters; and
eventual termination of the unbounded retry loop.

## 2. Modules

### `SdtlReliable` (+ `MC_SdtlReliable`)

One reliable channel, data from peer A to peer B, four threads: A's
sender (`channel_send_data`), A's RX thread (ACK path), B's RX thread
(DATA path) and B's receiver (`channel_recv_data`). The medium is two
in-order queues of frames; `LoseAB`/`LoseBA` destroy the head frame (a
frame damaged on the line fails its CRC and the framer drops it). Payload
bytes are abstracted to the identity `<<message, offset, size>>` of the
fragment they come from, which is all the properties need to tell a
correct buffer from a spliced one.

| Action | Code |
|---|---|
| `SendData` | entry of `channel_send_data`: `generate_seq_code`, `wait_ack_reset`, first fragment |
| `AckReceived` | `wait_ack` returned an entry; the switch on `ack_sh.code`, next fragment or return, `tx_seq_num++` |
| `AckTimeout` | `wait_ack` timed out: retry the same fragment |
| `AckUnderrun` | `wait_ack` saw an ack_fifo underrun: `SDTL_ESWB_ERR` |
| `RxAckA` | `rx_process_ack` |
| `RxRead` | `sdtl_got_frame_handler` up to `ch_state_read` (line 211) |
| `RxDispatch` | `rx_process_data` on the snapshot |
| `RecvArmTimeout` | `sdtl_channel_recv_arm_timeout` |
| `RecvData`, `RecvFlush` | entry of `channel_recv_data`: WAIT_DATA, `wait_data_reset` |
| `RecvPop` | one loop iteration: `wait_data` classification (`Classify`) and the switch |
| `RecvTimeout`, `RecvUnderrun` | `wait_data` returned TIMEDOUT / RX_FIFO_OVERFLOW |
| `RecvFinish` | exit: clear armed timeout, SEQ_DONE or RCV_CANCELED, `*br` |

`txSeqNum` is kept modulo 2^16: it is read only by `generate_seq_code`,
whose 16-bit result does not see the 32-bit wrap. `ClockOffsets` is the set
of values `tv_nsec >> 10` may take when a sequence code is generated.

Timers: an ACK timer expiry when no answer is pending is always allowed;
an expiry while an answer is still on the medium, in a FIFO or being
processed (`AnswerPending`) is an *early timeout*, counted against
`MaxEarlyTimeouts`. The real timeout (80 ms + size-dependent) can be beaten
by scheduling delays and a slow line, so early timeouts happen; separating
them lets the runs show what holds with and without them.

Fairness: weak fairness on every step of a call that is in progress and on
the RX threads (threads that can run eventually run; a timer that is armed
eventually expires). Starting a call (`SendData`, `RecvData`,
`RecvArmTimeout`) and the medium's losses are not fair: an application may
stop calling, and losses are bounded by `MaxLoss`.

Condition flags and CMD frames are in `SdtlOob`; not in this module (A never receives a
CMD in this topology, so the condition checks always pass), the unreliable
path, traffic in both directions on one channel.

### `SdtlOob`

Out-of-band commands on one reliable channel: peer A's `channel_send_cmd`
thread and RX thread (GOT_CMD path); peer B's RX thread (`rx_process_cmd`),
a receiver blocked in `channel_recv_data`, a sender blocked in
`channel_send_data` (its frames are never answered, so it waits until a
condition ends it) and the application calling
`sdtl_channel_reset_condition`. The channel state topic is the record
`chState = [rx_state, condition_flags]`; `raised` is the set of flags set
by commands since the last reset (ghost state for the property).

The topic accessors are a read and a separate write
(`eswb_topic_read`, then `eswb_topic_update`), so every read-modify-write
is two actions with the value read kept in a local (`rxLocal`,
`recvLocal`):

| Action | Code |
|---|---|
| `SendCmd` | `channel_send_cmd` entry: `generate_seq_code`, `send_cmd` (no `wait_ack_reset`) |
| `CmdAckReceived`, `CmdAckTimeout`, `CmdAckUnderrun` | the loop's `wait_ack` results: GOT_CMD → OK, TIMEDOUT → resend, other → error; `CmdReturn` is the exit with `tx_cmd_seq_num++` |
| `RxAckA` | `rx_process_ack` on A |
| `RxCmdRead` | `rx_process_cmd`: the `rx_cmd_last_seq_code` filter (a repeat is only ACKed), then the read half of `ch_state_alter_cond_flags` |
| `RxCmdAlter` | its write half |
| `RxCmdPush` | zero-size entry on `data_fifo`, OUT_BAND_EVENT on `ack_fifo`, GOT_CMD answer |
| `RecvData`, `RecvEnterWrite` | `channel_recv_data` entry: `ch_state_set_rx(WAIT_DATA)` read / write |
| `RecvFlush`, `RecvCheck`, `RecvPop`, `RecvUnderrun` | `wait_data_reset`; the loop-top condition check; `wait_data`'s OOB branch; FIFO underrun |
| `RecvExitRead`, `RecvExitWrite` | `ch_state_set_rx(RCV_CANCELED)` read / write on exit |
| `ResetCondition`, `ResetWrite` | `sdtl_channel_reset_condition` read / write |
| `SendDataB`, `SendCondition`, `SendAckPop`, `SendTimeoutB`, `SendUnderrunB` | `channel_send_data` on B: ack flush, condition check, `wait_ack`'s OUT_BAND_EVENT branch, retry, underrun |

Fairness is the same as in `SdtlReliable`: steps of calls in progress and
of the RX threads are weakly fair; starting a call, resetting and losing a
frame are not.

### `EqrbSdtl`

The EQRB driver (`eqrb_drv_sdtl_*`) on peer B's end of one reliable
channel. Peer A is an environment that over-approximates a correct peer:
it sends one-fragment messages and RESET commands, retransmits any of them,
ACKs commands through its own `rx_cmd_last_seq_code` filter and answers
B's DATA with any of `AnswerCodes`; `aAcked` records the messages it
answered GOT_PKT. B's RX thread handles one frame per step (the state-topic
race is `SdtlOob`'s subject). B's application makes up to `MaxOps` driver
calls, one at a time (spec 5). `calls` logs every call's
`[op, seq, rv, br]` for the properties.

| Action | Code |
|---|---|
| `EqrbConnect`, `EqrbDisconnect` | `eqrb_drv_sdtl_connect` (open may fail → `media_err`), `eqrb_drv_sdtl_disconnect` (returns ok, closes nothing) |
| `EqrbSend`, `SendAckPop`, `SendAckTimeout`, `SendAckUnderrun`, `SendReturn` | `eqrb_drv_sdtl_send` → `channel_send_data` of one fragment: ack flush, condition check, `wait_ack` (OOB entry → `return_condition`; `default: break` accepts any OK entry), retry on timeout, then the driver's result mapping |
| `EqrbResetRemote`, `CmdAckPop`, `CmdAckTimeout`, `CmdAckUnderrun`, `CmdReturn` | `eqrb_cmd_reset_remote` → `channel_send_cmd(RESET)`; an APP_RESET/APP_CANCEL from `wait_ack` ends the loop with OK (721-725); `tx_cmd_seq_num++` on exit |
| `EqrbResetLocal`, `EqrbCheckState` | `sdtl_channel_reset_condition`; `sdtl_channel_check_reset_condition` |
| `EqrbRecv`, `RecvCheck`, `RecvPop`, `RecvTimeout`, `RecvUnderrun`, `RecvReturn` | `eqrb_drv_sdtl_recv`: arm the timeout, `channel_recv_data` (WAIT_DATA, flush, condition check, pop), exit with SEQ_DONE or RCV_CANCELED/0 and `armed_timeout_us = 0`; FIFO underrun maps to ok with `*br` unset |
| `RxData`, `RxAck`, `RxCmd` | `rx_process_data`, `rx_process_ack`, `rx_process_cmd` |
| `LoseAB`, `LoseBA` | frame loss, at most `MaxLoss` |

B's ACK timers expire only when no answer to its frame is in flight
(`AnswerPendingB`); early expiry is `SdtlReliable`'s subject. Fairness:
A's and B's RX threads and the steps of a call in progress are weakly fair;
new calls, A's new frames and retries, and losses are not.

### `SdtlChannel` and the refinement

`SdtlChannel` states what one reliable channel promises its two
applications without frames, FIFOs or timers: messages are returned by
recv_data in the order they were sent and only after their send began;
send_data returns OK only for a message already returned to the receiver
and may instead end with an error; a send in progress eventually returns.
A message may be returned more than once: finding 2 shows the code does
that, so this is the at-least-once channel the code provides, not spec 8.4's
at-most-once.

`SdtlReliable` defines `Channel == INSTANCE SdtlChannel WITH ...`, mapping
`msgs` to the number of send_data calls, `busy` to A's sender waiting in
`wait_ack`, `outcome` to the result of each call (OK, an error, or pending),
and `delivered` to the messages of the OK recv_data results in order, plus
the one B is returning. B ACKs the last fragment before `RecvFinish`
records the result, so that last term is needed. `ChannelSpec`
(`Channel!Spec`, with its fairness) is checked in the live run.
`ChannelSafe` (its safety part) is checked in the core run, where RX
timeouts and short buffers make some sends livelock.

### `SdtlService` (+ `MC_SdtlService`)

The service layer of one process: the registry `sdtl_srv_reg`
(`RegSize` = `SDTL_SERVICE_REG_RECORDS_MAX` = 4 slots), and per service the
lifecycle phase, the channel table (`chans`, in `channels[]` order), how
many leading `channel_handles[]` are set (`opened`), the RX thread, and
the control thread's position inside `srv_reg_add` (`pc`, `slot`).

| Action | Code |
|---|---|
| `sdtl_service_init` | a fresh name gets an object with an empty table (`calloc`: all handles NULL) |
| `sdtl_channel_create` | CH_EXIST, NO_MEM at `max_channels_num`, otherwise append |
| `sdtl_service_start` | media open failure; `sdtl_channel_open` failing at channel k+1 (handles 1..k written, older ones kept, media left open); `pthread_create` failure; or RX thread running and `srv_reg_add` begun |
| `RegScan`, `RegWrite` | `srv_reg_add`'s scan for a NULL slot (a full registry ends it, and start still returns OK) and its write |
| `sdtl_service_stop`, `RegDelete` | cancel and join the RX thread and close the channels; then, as a separate last step, `srv_reg_delete`, after which stop returns |
| `sdtl_got_frame_handler` | `validate_base_header` (type and length consistency), then `resolve_channel_handle_by_id`, which dereferences each handle it scans |
| `RxMediaEof` | `media->read` error or EOF ends the RX loop |
| `eqrb_drv_sdtl_connect` | `sdtl_service_lookup`, then `sdtl_channel_open` (NO_SERVICE on NULL, NO_CHANNEL_LOCAL for an unknown name) |

Channels are created only while the service is not running (spec 3). Each
name is inited once: a second init of an unregistered name depends on
`eswb_mkdir` of an existing directory, which is outside `src/`.
`SerialSetup = TRUE` keeps the control calls of different services from
overlapping, as in the tests. The setup run sets it FALSE, so the scans
and writes of two `srv_reg_add` calls interleave. No fairness: the properties are safety
properties.

### `SdtlUnreliable`

The rel = 0 paths of one unreliable channel, data from A to B, on an
in-order medium that loses frames:

- A's `channel_send_data` writes one DATA frame per fragment, with no ACK
  wait, retry or condition check (`SendData`, `SendNext`, `Emit`).
- B's RX thread pushes every DATA frame onto `data_fifo` (`RxData`).
  `sdtl_got_frame_handler` fills only `rx_state` of the local state it
  passes, so `rx_process_data`'s trailing-frame test reads an
  uninitialised `last_received_seq`. That undefined read is a
  nondeterministic drop of a LAST frame, bounded by `MaxSeqGarbage`.
- B's `channel_recv_data` does not touch the state record and does not
  flush. It pops and classifies entries with `wait_data` (`Classify`),
  copies accepted fragments, and on `OK_MISSED_PKT_IN_SEQ` runs
  `RESET_SEQ` (`RecvPop`). It ends on FIFO underrun, on `RX_BUF_SMALL`,
  or on the LAST fragment (`RecvUnderrun`, `RecvFinish`).

The seq_code of a message is its number. The module has one run,
`unrel_splice`: two 2-fragment messages, one loss, no garbage drops, and
`UnrelIntact`.

## 3. Runs

| Run | Cfg | Expect | Checks | Shows |
|---|---|---|---|---|
| core | `SdtlReliable_core.cfg` | pass | DeliveredIntact, AckedImpliesCopied, ChannelSafe | With up to 2 lost frames, armed RX timeouts and buffers shorter than the message, an OK recv returns exactly one whole message, the sender passes a fragment only after it was copied, and every step is a step of `SdtlChannel` |
| early | `SdtlReliable_early.cfg` | pass | TypeOK, PiecesInPlace | With 2 early ACK timeouts and 1-entry FIFOs (both readers overrun), every copied piece lands at its own offset |
| live | `SdtlReliable_live.cfg` | pass | SendReturns, ChannelSpec | Without armed RX timeouts and with a buffer that holds the message, every send_data returns, and the channel implements `SdtlChannel` with its liveness |
| restart_livelock | `..._restart_livelock.cfg` | violation | SendReturns | see finding 1 |
| stale_dispatch | `..._stale_dispatch.cfg` | violation | AtMostOnce | see finding 2 |
| unrel_splice | `SdtlUnreliable_splice.cfg` | violation | UnrelIntact | see finding 3 |
| oob | `SdtlOob_cancel.cfg` | pass | TypeOK, CmdReturns, RecvCancelled, SendCancelled | With 2 RESET/CANCEL commands, 1 lost frame, one-entry FIFOs that overrun and one early ACK timer expiry, every send_cmd returns (repeats are re-ACKed) and a condition flag visible to a blocked recv_data or send_data ends it |
| oob_state_rmw | `SdtlOob_state_rmw.cfg` | violation | StateTopicKept | see finding 4 |
| eqrb | `EqrbSdtl_driver.cfg` | pass | TypeOK, EqrbCallsReturn | With 1-entry FIFOs, one lost frame, one retry by A, A answering GOT_PKT, CANCELED or NO_RECEIVER, and connect failing or not, every driver call returns and no FIFO holds more than its size |
| eqrb_reset_crossing | `EqrbSdtl_reset_crossing.cfg` | violation | EqrbSendAcked | see finding 5 |
| eqrb_recv_twice | `EqrbSdtl_recv_twice.cfg` | violation | EqrbRecvOnce | see finding 6 |
| setup | `SdtlService_setup.cfg` | pass | TypeOK, DispatchResolves | Three services whose control calls overlap: init, channel creation, starts that fail at media, channel or thread, stop and restart, and unlocked registry updates, with frames dispatched and EQRB connects in between. No RX thread follows a NULL channel handle |

Bounds: one-byte fragments and messages of 1 or 2 bytes give both
single-fragment (FIRST|LAST) and multi-fragment sequences, the only shapes
the replay filter and the cnt check tell apart; 2-3 send and receive calls
let a stale frame of one message meet the next one; 2 losses let both a
DATA and an ACK frame of the same exchange be lost. Fragment counters
never exceed 1 at these sizes, so the modulo-256 wrap is not exercised.
In `EqrbSdtl`, 4 driver calls allow connect, a command or reset and a
send or two receives, which is the shortest sequence in which a stale
answer from one call reaches the next; larger instances (6 calls, 2 A
messages, 2-entry FIFOs) did not finish within the run budget.
In `SdtlService`, 8 lifecycle calls over 3 services and 2 channels reach
several cases: a start that fails after opening one channel, followed by a
restart that opens both; a channel created between a stop and a restart;
three registrations, one of which a stop removes, leaving a hole that
a later start refills; and two starts whose registry scans interleave; 2 frames and 2 connects probe
each state. The registry has its code size, 4.
`CHECK_DEADLOCK FALSE` everywhere: the bounded applications stop calling,
and the real system then idles.

### Findings

1. **Receiver restart livelock** (spec/code divergence, `sdtl.c:516`).
   The armed RX timeout applies to every pop, not only the first (spec
   4.5). A recv that times out after fragment 0 is called again with
   `prev_pkt_num = -1`, classifies the retried fragment 1 as `OK_OMIT`,
   never ACKs it, and `send_data` retries forever.
2. **Duplicate delivery through a stale state snapshot** (`sdtl.c:211`).
   The RX thread decides on a copy of the channel state. A retransmitted
   single-fragment message read while B was still in WAIT_DATA is pushed
   after B finished, restarted and flushed, and is returned a second time
   (spec 8.4).
3. **Spliced message on an unreliable channel after one lost frame**
   (`sdtl.c:537`). `wait_data` matches fragments by the 8-bit counter
   alone, never by `seq_code`, and ignores the FIRST flag once a sequence
   has begun. Suppose message 1's LAST fragment is lost. Then message 2's
   fragment 0 is skipped as `OK_REPEATED` and its fragment 1 is copied, so
   recv_data returns OK with fragment 0 of message 1 and fragment 1 of
   message 2. Spec 4.5 says the receiver waits for the next FIRST_PKT, and
   spec 1 says the whole message is delivered. One loss suffices, with no
   timing.
4. **Lost condition flag / reverted WAIT_DATA** (`sdtl.c:763`, `787`).
   `ch_state_set_rx` and `ch_state_alter_cond_flags` each write back the
   whole record they read. A RESET set between recv_data's read and write
   is lost; its OOB entry is then flushed and recv_data blocks (spec 8.6).
   In the mirror order the RX thread puts IDLE back over WAIT_DATA.
5. **Crossing RESETs make EQRB send succeed unacknowledged** (`sdtl.c:721`,
   `660`). B's `reset_remote` ends with OK on A's out-of-band APP_RESET
   while A's GOT_CMD for B's command is still travelling. After
   `reset_local_state` and the next send, that GOT_CMD arrives after the
   ack flush and is taken as the message's ACK: the driver returns ok for
   a message A never received. No loss and no early timer are needed.
6. **A timed-out EQRB recv re-delivers a message** (`sdtl.c:973`). The
   driver always arms a timeout. A recv that times out records
   RCV_CANCELED with `last_received_seq = 0`, wiping the replay filter, so
   A's retransmission of a message an earlier recv returned (its ACK lost
   or late) is returned again (spec 8.4).

Also seen while modelling, not kept as runs: on the reliable path, the
classification of finding 3 splices messages too. send_data takes any
GOT_PKT as the current fragment's ACK (`sdtl.c:648`, "TODO check pkt
num"), so one early ACK timeout lets recv_data return fragment 0 of
message 1 followed by fragment 1 of message 2. `DeliveredIntact` fails in
`SdtlReliable` with `MaxEarlyTimeouts = 1`, while `PiecesInPlace` (the
early run) still holds. In `SdtlOob`,
`SendNeverFakeAcked` is violated. After `reset_condition`, a leftover
OUT_BAND_EVENT entry makes `wait_ack` return OK (`sdtl.c:481`), and
`channel_send_data`'s `default: break` counts it as the fragment's ACK
(`sdtl.c:660`), so send_data returns OK with nothing acknowledged.
Finding 5 shows the same `default: break` with no reset needed.
In `SdtlService`, `ConnectToStarted` (stated, in no run) is violated
with `SerialSetup = FALSE`: two starts both scan slot 1 free, the second write
overwrites the first, and a started service is never found
(`sdtl.c:1040`, the FIXME). It is also violated with five services:
`srv_reg_add` drops the fifth silently and `sdtl_service_start` still
returns OK. `tx_seq_num + clock` can
repeat a sequence code, so the replay filter drops a new message and
send_data returns OK for bytes never delivered (`sdtl.c:590`);
`channel_send_cmd` never drains `ack_fifo`, so a duplicate GOT_CMD left by
an early retry ends the next send_cmd before the peer saw it (`sdtl.c:712`);
only fragments
after the first are checked against the receive buffer (`sdtl.c:930`):
with 2-byte fragments and a 1-byte buffer the first copy writes past the
buffer, and `offset <= s` fails after 7 steps (the core run keeps one-byte
fragments, so there every buffer holds one fragment), and a zero-length send is
indistinguishable from the OOB marker and is never ACKed (`sdtl.c:527`;
message lengths start at 1).

## 4. Plan (remaining sittings)

1. (done) `SdtlOob`.
2. (done) `EqrbSdtl`. Left out: B sending and receiving from two threads
   (`wait_ack` clearing the receive timeout, `sdtl.c:476`), which spec 5
   rules out for one channel.
3. (done) `SdtlChannel`, refined by `SdtlReliable`.
4. (done) `SdtlService`. The stop window, between channel close and
   `srv_reg_delete`, is reached: a connect inside it succeeds on a
   service with no RX thread. No property is stated about it, because
   the spec states nothing about lookups during stop.
5. (done) `SdtlUnreliable`, the rel = 0 paths. Left out: traffic in both
   directions on one channel, an armed timeout on an unreliable recv.

## 5. Not modelled

Byte-level framing and CRC (library outside `src/`; its effect is frame
loss), media drivers (I/O), statistics topics, debug output, memory
allocation failures, the EQRB server/client start functions (parameter
allocation and task start), and payload bytes (abstracted to fragment identity).
Service statistics are not modelled. The RX thread copies its thread-local
framer counters into `rx_stat`, so they fall back to 0 on a restart
(`sdtl.c:391`, against spec 8.7), but no property of the protocol depends
on them. eswb topic and directory creation in `sdtl_service_init` and
`sdtl_channel_create` is abstracted to the channel table.
