------------------------------- MODULE EqrbSdtl -------------------------------
(***************************************************************************)
(* The EQRB media driver over SDTL                                         *)
(* (src/src/lib/services/eqrb/drivers/sdtl.c) on one RELIABLE channel used *)
(* in both directions, from endpoint B's side.                              *)
(*                                                                         *)
(*  - B's application thread makes the driver calls one at a time (spec   *)
(*    section 5: one application thread at a time per channel): connect,  *)
(*    send, recv, command(reset_remote | reset_local_state), check_state,  *)
(*    disconnect.  Each call runs the SDTL channel call it wraps and maps  *)
(*    its result to an EQRB code.                                          *)
(*  - B's RX thread dispatches A's DATA, ACK and CMD frames to B's FIFOs   *)
(*    and state topic.  Each frame is handled in one step here; the split *)
(*    read-modify-write of the topic is the subject of SdtlOob.            *)
(*  - Peer A is an environment that over-approximates a correct SDTL peer: *)
(*    it sends one-fragment messages and RESET commands, retries them at   *)
(*    any time, answers every CMD (its rx_process_cmd filter is kept) and  *)
(*    answers B's DATA frames with any ACK code its receiver may send.     *)
(***************************************************************************)
EXTENDS Integers, Sequences, FiniteSets

CONSTANTS
    FifoSize,      \* FIFO_SIZE of B's data_fifo and ack_fifo
    MaxOps,        \* bound: driver calls of B's application
    MaxAMsgs,      \* bound: messages A sends (their seq codes are 1..MaxAMsgs)
    MaxACmds,      \* bound: RESET commands A sends (cmd seq codes 1..MaxACmds)
    MaxARetries,   \* bound: retransmissions by A
    MaxLoss,       \* bound: frames destroyed on the medium
    AnswerCodes,   \* ACK codes A's RX thread may answer B's DATA with
    OpenResults    \* whether sdtl_service_lookup/sdtl_channel_open succeed

ASSUME /\ FifoSize \in Nat \ {0}
       /\ {MaxOps, MaxAMsgs, MaxACmds, MaxARetries, MaxLoss} \subseteq Nat
       /\ AnswerCodes \subseteq {"GOT_PKT", "CANCELED", "NO_RECEIVER"}
       /\ OpenResults \subseteq BOOLEAN /\ OpenResults # {}

VARIABLES
    wireAB, wireBA,      \* frames in flight, in order
    losses,
    aMsg, aMsgs,         \* A's message being sent (0: none), messages started
    aCmd, aCmds,         \* A's RESET being sent (0: none), commands started
    aRetries,
    aRxCmdLastSeq,       \* A's rx_cmd_last_seq_code
    aAcked,              \* seq codes of B's DATA frames A answered GOT_PKT
    aCmdSeen,            \* cmd seq codes of B's CMDs A took as new
    chState,             \* B's state topic [rx_state, last_received_seq, condition_flags]
    rxCmdLastSeq,        \* B's chh->rx_cmd_last_seq_code
    dataFifo, dataOverrun,
    ackFifo, ackOverrun,
    appPc,               \* B's application thread, see AppPcs
    cur,                 \* seq code of the send or command in progress
    armed,               \* chh->armed_timeout_us > 0
    txSeqNum, txCmdSeqNum,
    ops,                 \* driver calls made so far
    calls                \* history of driver calls: [op, seq, rv, br]

peerA == <<aMsg, aMsgs, aCmd, aCmds, aRetries, aRxCmdLastSeq, aAcked, aCmdSeen>>
rxB   == <<chState, rxCmdLastSeq, dataFifo, dataOverrun, ackFifo, ackOverrun>>
appB  == <<appPc, cur, armed, txSeqNum, txCmdSeqNum, ops, calls>>
vars  == <<wireAB, wireBA, losses, peerA, rxB, appB>>

-----------------------------------------------------------------------------

AppPcs == {"closed", "idle", "send_wait", "cmd_wait", "recv_check", "recv_pop", "done"}
Flags  == {"APP_RESET", "APP_CANCEL"}
OOB    == 0     \* the zero-size data_fifo entry rx_process_cmd pushes

Data(s) == [type |-> "DATA", seq |-> s, code |-> "NONE"]
Ack(c)  == [type |-> "ACK", seq |-> 0, code |-> c]
Cmd(s)  == [type |-> "CMD", seq |-> s, code |-> "RESET"]

generate_seq_code(seqNum) ==
    LET c == seqNum % 65536 IN IF c = 0 THEN 65535 ELSE c

(* ch_state_return_condition                                               *)
return_condition(flags) ==
    IF "APP_RESET" \in flags THEN "APP_RESET"
    ELSE IF "APP_CANCEL" \in flags THEN "APP_CANCEL"
    ELSE "OK"

Cond == return_condition(chState.condition_flags)

(* Mutant: a push that never drops an entry (no bound on the FIFO).        *)
FifoPushUnbounded(q, e) == Append(q, e)

(* eswb FIFO push: a full FIFO drops its oldest entry; the reader sees an  *)
(* underrun on its next pop.                                               *)
FifoPush(q, e) == IF Len(q) < FifoSize THEN Append(q, e) ELSE Append(Tail(q), e)
FifoOverran(q) == Len(q) = FifoSize

(* The driver's result mappings.                                           *)
eqrb_drv_sdtl_send_rv(rv) ==
    CASE rv = "OK" -> "ok"
      [] rv \in {"REMOTE_RX_CANCELED", "REMOTE_RX_NO_CLIENT"} -> "remote_need_reset"
      [] rv = "APP_RESET" -> "reset_cmd"
      [] OTHER -> "err"

eqrb_drv_sdtl_recv_rv(rv) ==
    CASE rv \in {"OK", "RX_FIFO_OVERFLOW"} -> "ok"
      [] rv = "APP_RESET" -> "reset_cmd"
      [] rv = "TIMEDOUT" -> "timedout"
      [] OTHER -> "err"

eqrb_drv_sdtl_command_rv(rv) == IF rv = "OK" THEN "ok" ELSE "err"

eqrb_drv_sdtl_check_state_rv(rv) ==
    IF rv \in Flags THEN "reset_cmd" ELSE "ok"

Log(op, seq, rv, br) == calls' = Append(calls, [op |-> op, seq |-> seq, rv |-> rv, br |-> br])

-----------------------------------------------------------------------------
(* Peer A (environment) *)

PeerUnchanged(v) == UNCHANGED <<wireBA, losses, rxB, appB>> /\ UNCHANGED v

ASendMsg ==
    /\ aMsg = 0 /\ aMsgs < MaxAMsgs
    /\ aMsg' = aMsgs + 1 /\ aMsgs' = aMsgs + 1
    /\ wireAB' = Append(wireAB, Data(aMsgs + 1))
    /\ PeerUnchanged(<<aCmd, aCmds, aRetries, aRxCmdLastSeq, aAcked, aCmdSeen>>)

ASendCmd ==
    /\ aCmd = 0 /\ aCmds < MaxACmds
    /\ aCmd' = aCmds + 1 /\ aCmds' = aCmds + 1
    /\ wireAB' = Append(wireAB, Cmd(aCmds + 1))
    /\ PeerUnchanged(<<aMsg, aMsgs, aRetries, aRxCmdLastSeq, aAcked, aCmdSeen>>)

(* A's ACK timer expired: the same frame again.                            *)
ARetry ==
    /\ aRetries < MaxARetries
    /\ \/ aMsg # 0 /\ wireAB' = Append(wireAB, Data(aMsg))
       \/ aCmd # 0 /\ wireAB' = Append(wireAB, Cmd(aCmd))
    /\ aRetries' = aRetries + 1
    /\ PeerUnchanged(<<aMsg, aMsgs, aCmd, aCmds, aRxCmdLastSeq, aAcked, aCmdSeen>>)

(* A's RX thread takes B's next frame: an ACK ends A's call in progress, a *)
(* CMD goes through rx_process_cmd's filter and is ACKed, a DATA frame is  *)
(* answered as A's receiver state allows.                                  *)
ARx ==
    /\ wireBA # <<>>
    /\ wireBA' = Tail(wireBA)
    /\ LET f == Head(wireBA) IN
         \/ /\ f.type = "ACK"
            /\ IF f.code = "GOT_CMD" THEN aCmd' = 0 /\ UNCHANGED aMsg
                                     ELSE aMsg' = 0 /\ UNCHANGED aCmd
            /\ UNCHANGED <<wireAB, aRxCmdLastSeq, aAcked, aCmdSeen>>
         \/ /\ f.type = "CMD"
            /\ aRxCmdLastSeq' = f.seq
            /\ aCmdSeen' = IF f.seq # aRxCmdLastSeq THEN aCmdSeen \cup {f.seq} ELSE aCmdSeen
            /\ wireAB' = Append(wireAB, Ack("GOT_CMD"))
            /\ UNCHANGED <<aMsg, aCmd, aAcked>>
         \/ /\ f.type = "DATA"
            /\ \E c \in AnswerCodes :
                 /\ wireAB' = Append(wireAB, Ack(c))
                 /\ aAcked' = IF c = "GOT_PKT" THEN aAcked \cup {f.seq} ELSE aAcked
            /\ UNCHANGED <<aMsg, aCmd, aRxCmdLastSeq, aCmdSeen>>
    /\ UNCHANGED <<losses, aMsgs, aCmds, aRetries, rxB, appB>>

-----------------------------------------------------------------------------
(* B's RX thread: sdtl_got_frame_handler with rx_process_data,             *)
(* rx_process_ack and rx_process_cmd.                                      *)

RxUnchanged(v) == UNCHANGED <<losses, peerA, appB>> /\ UNCHANGED v

(* Every A message is one fragment, FIRST|LAST.                            *)
RxData ==
    /\ wireAB # <<>> /\ Head(wireAB).type = "DATA"
    /\ wireAB' = Tail(wireAB)
    /\ LET f == Head(wireAB) IN
         IF f.seq = chState.last_received_seq
         THEN wireBA' = Append(wireBA, Ack("GOT_PKT")) /\ UNCHANGED <<dataFifo, dataOverrun>>
         ELSE CASE chState.rx_state = "WAIT_DATA" ->
                     /\ dataFifo' = FifoPush(dataFifo, f.seq)
                     /\ dataOverrun' = (dataOverrun \/ FifoOverran(dataFifo))
                     /\ UNCHANGED wireBA
                [] chState.rx_state = "RCV_CANCELED" ->
                     wireBA' = Append(wireBA, Ack("CANCELED")) /\ UNCHANGED <<dataFifo, dataOverrun>>
                [] OTHER ->
                     wireBA' = Append(wireBA, Ack("NO_RECEIVER")) /\ UNCHANGED <<dataFifo, dataOverrun>>
    /\ RxUnchanged(<<chState, rxCmdLastSeq, ackFifo, ackOverrun>>)

RxAck ==
    /\ wireAB # <<>> /\ Head(wireAB).type = "ACK"
    /\ wireAB' = Tail(wireAB)
    /\ ackFifo' = FifoPush(ackFifo, Head(wireAB).code)
    /\ ackOverrun' = (ackOverrun \/ FifoOverran(ackFifo))
    /\ RxUnchanged(<<wireBA, chState, rxCmdLastSeq, dataFifo, dataOverrun>>)

RxCmd ==
    /\ wireAB # <<>> /\ Head(wireAB).type = "CMD"
    /\ wireAB' = Tail(wireAB)
    /\ wireBA' = Append(wireBA, Ack("GOT_CMD"))
    /\ LET f == Head(wireAB) IN
         IF f.seq # rxCmdLastSeq
         THEN /\ rxCmdLastSeq' = f.seq
              /\ chState' = [chState EXCEPT !.condition_flags = @ \cup {"APP_RESET"}]
              /\ dataFifo' = FifoPush(dataFifo, OOB)
              /\ dataOverrun' = (dataOverrun \/ FifoOverran(dataFifo))
              /\ ackFifo' = FifoPush(ackFifo, "OUT_BAND_EVENT")
              /\ ackOverrun' = (ackOverrun \/ FifoOverran(ackFifo))
         ELSE UNCHANGED rxB
    /\ RxUnchanged(<<>>)

-----------------------------------------------------------------------------
(* B's application thread: the driver calls.                               *)

AppUnchanged(v) == UNCHANGED <<losses, peerA>> /\ UNCHANGED v

(* Some answer to B's own DATA or CMD frame is still on its way, so an ACK *)
(* timer expiry now would be early; B's timers expire only when none is.  *)
AnswerPendingB ==
    \/ \E i \in DOMAIN wireBA : wireBA[i].type \in {"DATA", "CMD"}
    \/ \E i \in DOMAIN wireAB : wireAB[i].type = "ACK"

(* eqrb_drv_sdtl_connect: sdtl_service_lookup, sdtl_channel_open (a fresh *)
(* calloc'ed handle); either failing gives eqrb_media_err.                *)
EqrbConnect ==
    /\ appPc = "closed" /\ ops < MaxOps
    /\ \E opened \in OpenResults :
         /\ appPc' = IF opened THEN "idle" ELSE "closed"
         /\ Log("connect", 0, IF opened THEN "ok" ELSE "media_err", FALSE)
    /\ ops' = ops + 1
    /\ AppUnchanged(<<wireAB, wireBA, rxB, cur, armed, txSeqNum, txCmdSeqNum>>)

(* eqrb_drv_sdtl_disconnect returns ok and closes nothing.                 *)
EqrbDisconnect ==
    /\ appPc = "idle" /\ ops < MaxOps
    /\ appPc' = "done" /\ ops' = ops + 1
    /\ Log("disconnect", 0, "ok", FALSE)
    /\ AppUnchanged(<<wireAB, wireBA, rxB, cur, armed, txSeqNum, txCmdSeqNum>>)

(* eqrb_drv_sdtl_send -> channel_send_data of a one-fragment message:      *)
(* wait_ack_reset, then the condition check before the first transmission. *)
EqrbSend ==
    /\ appPc = "idle" /\ ops < MaxOps
    /\ ops' = ops + 1
    /\ ackFifo' = <<>> /\ ackOverrun' = FALSE
    /\ LET s == generate_seq_code(txSeqNum) IN
         IF Cond # "OK"
         THEN /\ Log("send", s, eqrb_drv_sdtl_send_rv(Cond), FALSE)
              /\ UNCHANGED <<wireBA, appPc, cur>>
         ELSE /\ wireBA' = Append(wireBA, Data(s))
              /\ appPc' = "send_wait" /\ cur' = s
              /\ UNCHANGED calls
    /\ AppUnchanged(<<wireAB, chState, rxCmdLastSeq, dataFifo, dataOverrun, armed,
                      txSeqNum, txCmdSeqNum>>)

(* channel_send_data returns rv; tx_seq_num advances only past the loop.   *)
SendReturn(rv) ==
    /\ Log("send", cur, eqrb_drv_sdtl_send_rv(rv), FALSE)
    /\ txSeqNum' = IF rv = "OK" THEN (txSeqNum + 1) % 65536 ELSE txSeqNum
    /\ appPc' = "idle" /\ cur' = 0

(* The result of one wait_ack on a popped entry: an OUT_BAND_EVENT entry   *)
(* yields the condition (SDTL_OK once reset), any other SDTL_OK.           *)
WaitAckRv(e) == IF e = "OUT_BAND_EVENT" THEN Cond ELSE "OK"

(* wait_ack popped an entry (and cleared armed_timeout_us): the switch on  *)
(* rv and on ack_sh.code; "default: break" ends the fragment with SDTL_OK. *)
SendAckPop ==
    /\ appPc = "send_wait" /\ ackFifo # <<>> /\ ~ackOverrun
    /\ ackFifo' = Tail(ackFifo) /\ armed' = FALSE
    /\ LET e == Head(ackFifo) IN
         SendReturn(CASE WaitAckRv(e) # "OK" -> WaitAckRv(e)
                      [] e = "CANCELED"       -> "REMOTE_RX_CANCELED"
                      [] e = "NO_RECEIVER"    -> "REMOTE_RX_NO_CLIENT"
                      [] OTHER                -> "OK")
    /\ AppUnchanged(<<wireAB, wireBA, chState, rxCmdLastSeq, dataFifo, dataOverrun,
                      ackOverrun, txCmdSeqNum, ops>>)

(* wait_ack timed out: the condition check, then the fragment again.       *)
SendAckTimeout ==
    /\ appPc = "send_wait" /\ ackFifo = <<>> /\ ~ackOverrun /\ ~AnswerPendingB
    /\ armed' = FALSE
    /\ IF Cond # "OK"
         THEN SendReturn(Cond) /\ UNCHANGED wireBA
         ELSE wireBA' = Append(wireBA, Data(cur)) /\ UNCHANGED <<calls, txSeqNum, appPc, cur>>
    /\ AppUnchanged(<<wireAB, rxB, txCmdSeqNum, ops>>)

(* wait_ack saw an ack_fifo underrun: SDTL_ESWB_ERR.                       *)
SendAckUnderrun ==
    /\ appPc = "send_wait" /\ ackOverrun
    /\ ackOverrun' = FALSE /\ armed' = FALSE
    /\ SendReturn("ESWB_ERR")
    /\ AppUnchanged(<<wireAB, wireBA, chState, rxCmdLastSeq, dataFifo, dataOverrun,
                      ackFifo, txCmdSeqNum, ops>>)

(* eqrb_drv_sdtl_command(eqrb_cmd_reset_remote) -> channel_send_cmd(RESET) *)
EqrbResetRemote ==
    /\ appPc = "idle" /\ ops < MaxOps
    /\ ops' = ops + 1
    /\ cur' = generate_seq_code(txCmdSeqNum)
    /\ wireBA' = Append(wireBA, Cmd(generate_seq_code(txCmdSeqNum)))
    /\ appPc' = "cmd_wait"
    /\ AppUnchanged(<<wireAB, rxB, armed, txSeqNum, txCmdSeqNum, calls>>)

(* Every exit of the loop advances tx_cmd_seq_num.                         *)
CmdReturn(rv) ==
    /\ Log("command", cur, eqrb_drv_sdtl_command_rv(rv), FALSE)
    /\ txCmdSeqNum' = (txCmdSeqNum + 1) % 65536
    /\ appPc' = "idle" /\ cur' = 0

(* wait_ack popped an entry: APP_RESET / APP_CANCEL end the loop with      *)
(* SDTL_OK, so does GOT_CMD; any other SDTL_OK entry sends the CMD again.  *)
CmdAckPop ==
    /\ appPc = "cmd_wait" /\ ackFifo # <<>> /\ ~ackOverrun
    /\ ackFifo' = Tail(ackFifo) /\ armed' = FALSE
    /\ LET e == Head(ackFifo) IN
         IF WaitAckRv(e) \in Flags \/ e = "GOT_CMD"
         THEN CmdReturn("OK") /\ UNCHANGED wireBA
         ELSE wireBA' = Append(wireBA, Cmd(cur)) /\ UNCHANGED <<calls, txCmdSeqNum, appPc, cur>>
    /\ AppUnchanged(<<wireAB, chState, rxCmdLastSeq, dataFifo, dataOverrun, ackOverrun,
                      txSeqNum, ops>>)

(* wait_ack timed out: the CMD again, same cmd_seq_code.                   *)
CmdAckTimeout ==
    /\ appPc = "cmd_wait" /\ ackFifo = <<>> /\ ~ackOverrun /\ ~AnswerPendingB
    /\ armed' = FALSE
    /\ wireBA' = Append(wireBA, Cmd(cur))
    /\ AppUnchanged(<<wireAB, rxB, appPc, cur, txSeqNum, txCmdSeqNum, ops, calls>>)

(* wait_ack saw an underrun: SDTL_ESWB_ERR ends the loop ("default").      *)
CmdAckUnderrun ==
    /\ appPc = "cmd_wait" /\ ackOverrun
    /\ ackOverrun' = FALSE /\ armed' = FALSE
    /\ CmdReturn("ESWB_ERR")
    /\ AppUnchanged(<<wireAB, wireBA, chState, rxCmdLastSeq, dataFifo, dataOverrun,
                      ackFifo, txSeqNum, ops>>)

(* eqrb_drv_sdtl_command(eqrb_cmd_reset_local_state) ->                    *)
(* sdtl_channel_reset_condition: every condition flag cleared.             *)
EqrbResetLocal ==
    /\ appPc = "idle" /\ ops < MaxOps
    /\ ops' = ops + 1
    /\ chState' = [chState EXCEPT !.condition_flags = {}]
    /\ Log("command", 0, "ok", FALSE)
    /\ AppUnchanged(<<wireAB, wireBA, rxCmdLastSeq, dataFifo, dataOverrun, ackFifo,
                      ackOverrun, appPc, cur, armed, txSeqNum, txCmdSeqNum>>)

(* eqrb_drv_sdtl_check_state: sdtl_channel_check_reset_condition.          *)
EqrbCheckState ==
    /\ appPc = "idle" /\ ops < MaxOps
    /\ ops' = ops + 1
    /\ Log("check_state", 0, eqrb_drv_sdtl_check_state_rv(Cond), FALSE)
    /\ AppUnchanged(<<wireAB, wireBA, rxB, appPc, cur, armed, txSeqNum, txCmdSeqNum>>)

(* Mutant: recv without sdtl_channel_recv_arm_timeout.                     *)
EqrbRecvNoArm ==
    /\ appPc = "idle" /\ ops < MaxOps
    /\ ops' = ops + 1
    /\ chState' = [chState EXCEPT !.rx_state = "WAIT_DATA"]
    /\ dataFifo' = <<>> /\ dataOverrun' = FALSE
    /\ appPc' = "recv_check"
    /\ AppUnchanged(<<wireAB, wireBA, rxCmdLastSeq, ackFifo, ackOverrun, cur, armed,
                      txSeqNum, txCmdSeqNum, calls>>)

(* eqrb_drv_sdtl_recv: sdtl_channel_recv_arm_timeout, then                 *)
(* channel_recv_data: ch_state_set_rx(WAIT_DATA, last_received_seq) and    *)
(* wait_data_reset.                                                        *)
EqrbRecv ==
    /\ appPc = "idle" /\ ops < MaxOps
    /\ ops' = ops + 1
    /\ armed' = TRUE
    /\ chState' = [chState EXCEPT !.rx_state = "WAIT_DATA"]
    /\ dataFifo' = <<>> /\ dataOverrun' = FALSE
    /\ appPc' = "recv_check"
    /\ AppUnchanged(<<wireAB, wireBA, rxCmdLastSeq, ackFifo, ackOverrun, cur,
                      txSeqNum, txCmdSeqNum, calls>>)

(* Exit of channel_recv_data: armed_timeout_us = 0, ch_state_set_rx with   *)
(* SEQ_DONE and the message's seq_code, or RCV_CANCELED and 0; *br only on *)
(* SDTL_OK.  The driver maps rv.                                           *)
RecvReturn(rv, s) ==
    /\ armed' = FALSE
    /\ chState' = IF rv = "OK"
                    THEN [chState EXCEPT !.rx_state = "SEQ_DONE", !.last_received_seq = s]
                    ELSE [chState EXCEPT !.rx_state = "RCV_CANCELED", !.last_received_seq = 0]
    /\ Log("recv", s, eqrb_drv_sdtl_recv_rv(rv), rv = "OK")
    /\ appPc' = "idle"

(* Top of the loop: a condition flag ends the call.                        *)
RecvCheck ==
    /\ appPc = "recv_check"
    /\ IF Cond # "OK"
         THEN RecvReturn(Cond, 0)
         ELSE appPc' = "recv_pop" /\ UNCHANGED <<armed, chState, calls>>
    /\ AppUnchanged(<<wireAB, wireBA, rxCmdLastSeq, dataFifo, dataOverrun, ackFifo,
                      ackOverrun, cur, txSeqNum, txCmdSeqNum, ops>>)

(* wait_data popped an entry.  The zero-size one yields the condition; a   *)
(* message is FIRST|LAST: SDTL_OK_FIRST_PACKET, GOT_PKT ACK, copy, done.   *)
RecvPop ==
    /\ appPc = "recv_pop" /\ dataFifo # <<>> /\ ~dataOverrun
    /\ dataFifo' = Tail(dataFifo)
    /\ LET e == Head(dataFifo) IN
         IF e = OOB
         THEN /\ IF Cond # "OK" THEN RecvReturn(Cond, 0)
                 ELSE appPc' = "recv_check" /\ UNCHANGED <<armed, chState, calls>>
              /\ UNCHANGED wireBA
         ELSE /\ wireBA' = Append(wireBA, Ack("GOT_PKT"))
              /\ RecvReturn("OK", e)
    /\ AppUnchanged(<<wireAB, rxCmdLastSeq, dataOverrun, ackFifo, ackOverrun, cur,
                      txSeqNum, txCmdSeqNum, ops>>)

(* The armed timer of the pop expired: SDTL_TIMEDOUT.                      *)
RecvTimeout ==
    /\ appPc = "recv_pop" /\ armed /\ dataFifo = <<>> /\ ~dataOverrun
    /\ RecvReturn("TIMEDOUT", 0)
    /\ AppUnchanged(<<wireAB, wireBA, rxCmdLastSeq, dataFifo, dataOverrun, ackFifo,
                      ackOverrun, cur, txSeqNum, txCmdSeqNum, ops>>)

(* The pop saw an underrun: SDTL_RX_FIFO_OVERFLOW, which the driver maps   *)
(* to eqrb_rv_ok without a byte count.                                     *)
RecvUnderrun ==
    /\ appPc = "recv_pop" /\ dataOverrun
    /\ dataOverrun' = FALSE
    /\ RecvReturn("RX_FIFO_OVERFLOW", 0)
    /\ AppUnchanged(<<wireAB, wireBA, rxCmdLastSeq, dataFifo, ackFifo, ackOverrun, cur,
                      txSeqNum, txCmdSeqNum, ops>>)

-----------------------------------------------------------------------------
(* The medium loses frames (bad CRC at the framer).                        *)

LoseAB ==
    /\ losses < MaxLoss /\ wireAB # <<>>
    /\ wireAB' = Tail(wireAB) /\ losses' = losses + 1
    /\ UNCHANGED <<wireBA, peerA, rxB, appB>>

LoseBA ==
    /\ losses < MaxLoss /\ wireBA # <<>>
    /\ wireBA' = Tail(wireBA) /\ losses' = losses + 1
    /\ UNCHANGED <<wireAB, peerA, rxB, appB>>

-----------------------------------------------------------------------------

(* Nothing connected yet; B's channel exists with a zero-initialised state *)
(* topic and empty FIFOs (sdtl_channel_create).                            *)
Init ==
    /\ wireAB = <<>> /\ wireBA = <<>> /\ losses = 0
    /\ aMsg = 0 /\ aMsgs = 0 /\ aCmd = 0 /\ aCmds = 0 /\ aRetries = 0
    /\ aRxCmdLastSeq = 0 /\ aAcked = {} /\ aCmdSeen = {}
    /\ chState = [rx_state |-> "IDLE", last_received_seq |-> 0, condition_flags |-> {}]
    /\ rxCmdLastSeq = 0
    /\ dataFifo = <<>> /\ dataOverrun = FALSE /\ ackFifo = <<>> /\ ackOverrun = FALSE
    /\ appPc = "closed" /\ cur = 0 /\ armed = FALSE
    /\ txSeqNum = 0 /\ txCmdSeqNum = 0 /\ ops = 0 /\ calls = <<>>

PeerA   == ASendMsg \/ ASendCmd \/ ARetry \/ ARx
RxB     == RxData \/ RxAck \/ RxCmd
Driver  == EqrbConnect \/ EqrbDisconnect \/ EqrbSend \/ EqrbResetRemote \/ EqrbResetLocal
           \/ EqrbCheckState \/ EqrbRecv
InCall  == SendAckPop \/ SendAckTimeout \/ SendAckUnderrun \/ CmdAckPop \/ CmdAckTimeout
           \/ CmdAckUnderrun \/ RecvCheck \/ RecvPop \/ RecvTimeout \/ RecvUnderrun
Medium  == LoseAB \/ LoseBA

Next == PeerA \/ RxB \/ Driver \/ InCall \/ Medium

(* The RX threads of both peers run, a call in progress runs and its       *)
(* timers fire; the application's next call, A's new messages, commands    *)
(* and retries, and losses are not fair.                                   *)
Fairness == WF_vars(ARx) /\ WF_vars(RxB) /\ WF_vars(InCall)

Spec     == Init /\ [][Next]_vars
FairSpec == Spec /\ Fairness

-----------------------------------------------------------------------------
(* Properties *)

EqrbCodes == {"ok", "media_err", "remote_need_reset", "reset_cmd", "timedout", "err"}
Frames    == [type : {"DATA", "ACK", "CMD"}, seq : 0..65535,
              code : {"NONE", "RESET", "GOT_PKT", "CANCELED", "NO_RECEIVER", "GOT_CMD"}]

TypeOK ==
    /\ wireAB \in Seq(Frames) /\ wireBA \in Seq(Frames)
    /\ chState \in [rx_state : {"IDLE", "WAIT_DATA", "SEQ_DONE", "RCV_CANCELED"},
                    last_received_seq : 0..65535, condition_flags : SUBSET Flags]
    /\ dataFifo \in Seq(0..MaxAMsgs) /\ Len(dataFifo) <= FifoSize
    /\ ackFifo \in Seq({"GOT_PKT", "CANCELED", "NO_RECEIVER", "GOT_CMD", "OUT_BAND_EVENT"})
    /\ Len(ackFifo) <= FifoSize
    /\ appPc \in AppPcs /\ armed \in BOOLEAN /\ ops \in 0..MaxOps
    /\ \A i \in DOMAIN calls : calls[i].rv \in EqrbCodes

(* send returns ok only for a message A's receiver answered GOT_PKT: an    *)
(* ACK left over from an earlier send, or an out-of-band entry, is never  *)
(* taken for the acknowledgement of this one.                             *)
EqrbSendAcked ==
    \A i \in DOMAIN calls :
        calls[i].op = "send" /\ calls[i].rv = "ok" => calls[i].seq \in aAcked

(* No message of A is returned by two recv calls, however often A          *)
(* retransmits it (spec 8.4): the replay filter must survive the calls in  *)
(* between, timed-out ones included.                                       *)
EqrbRecvOnce ==
    \A i, j \in DOMAIN calls :
        /\ i < j /\ calls[i].op = "recv" /\ calls[j].op = "recv"
        /\ calls[i].br /\ calls[j].br
        => calls[i].seq # calls[j].seq

(* Every driver call returns: send and command retry until answered or     *)
(* cancelled, and recv's armed timeout ends a wait for data that never     *)
(* comes (nothing else clears armed_timeout_us while recv runs).           *)
EqrbCallsReturn == (appPc \in {"send_wait", "cmd_wait", "recv_check", "recv_pop"}) ~> (appPc = "idle")

=============================================================================
