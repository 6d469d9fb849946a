------------------------------- MODULE SdtlOob -------------------------------
(***************************************************************************)
(* Out-of-band commands on one RELIABLE SDTL channel                       *)
(* (src/src/lib/services/sdtl/sdtl.c).                                     *)
(*                                                                         *)
(*  - A's application thread runs channel_send_cmd (RESET or CANCEL):      *)
(*    CMD frame, wait on A's ack_fifo with a timer, retry until GOT_CMD.   *)
(*  - B's RX thread runs rx_process_cmd: a CMD with a new cmd_seq_code     *)
(*    sets a condition flag (ch_state_alter_cond_flags: read the channel   *)
(*    state topic, write it back), pushes a zero-size entry onto data_fifo *)
(*    and an OUT_BAND_EVENT entry onto ack_fifo, and ACKs with GOT_CMD.    *)
(*  - B's receiver thread runs channel_recv_data, whose ch_state_set_rx    *)
(*    calls are read-then-write of the same topic, and                     *)
(*    sdtl_channel_reset_condition between calls.                          *)
(*  - B's sender thread runs channel_send_data of one-fragment messages to *)
(*    a peer whose answers do not arrive (the line is down or the peer's   *)
(*    answers are lost), so only an out-of-band event can end the call.    *)
(*                                                                         *)
(* Each eswb_read / eswb_update_topic is atomic (the topic has a lock); a  *)
(* read-modify-write of the state record is two steps.                     *)
(***************************************************************************)
EXTENDS Integers, Sequences, FiniteSets

CONSTANTS
    CmdCodes,         \* cmd_code values A's application passes to send_cmd
    ClockOffsets,     \* values of (timespec.tv_nsec >> 10) in generate_seq_code
    FifoSize,         \* FIFO_SIZE of data_fifo and ack_fifo
    MaxCmds,          \* bound: send_cmd calls of A
    MaxRecvs,         \* bound: recv_data calls of B
    MaxSendsB,        \* bound: send_data calls of B
    MaxResets,        \* bound: reset_condition calls of B
    MaxLoss,          \* bound: frames destroyed on the medium
    MaxEarlyTimeouts  \* bound: ACK timer expiries while the answer is on its way

ASSUME /\ CmdCodes \subseteq {"RESET", "CANCEL"} /\ ClockOffsets \subseteq Nat
       /\ FifoSize \in Nat \ {0}
       /\ {MaxCmds, MaxRecvs, MaxSendsB, MaxResets, MaxLoss, MaxEarlyTimeouts} \subseteq Nat

VARIABLES
    wireAB, wireBA,   \* CMD frames A -> B, GOT_CMD ACK frames B -> A
    losses, earlyTimeouts,
    cmdPc,            \* A's send_cmd: "idle" | "wait_ack"
    cmdTx,            \* the CMD being sent: [id, seq, code]
    txCmdSeqNum,      \* chh->tx_cmd_seq_num of A, mod 2^16 (read only by generate_seq_code)
    ackFifoA, ackOverrunA,
    cmds,             \* history of send_cmd calls: [code, rv]
    rxPc,             \* B's RX thread: "read" | "alter" | "push"
    rxFrame,          \* CMD frame being processed
    rxLocal,          \* the state record rx_process_cmd read (ch_state_alter_cond_flags)
    rxCmdLastSeq,     \* chh->rx_cmd_last_seq_code of B
    processed,        \* ids of CMD frames B took the new-seq-code branch for
    chState,          \* B's state topic: [rx_state, condition_flags]
    raised,           \* flags written by rx_process_cmd and not reset since
    dataFifo, dataOverrun,
    recvPc,           \* B's receiver thread, see RecvPcs
    recvLocal,        \* the state record ch_state_set_rx / reset read
    recvRv,           \* rv of the recv_data call in progress
    recvs,            \* history of recv_data results
    resets,           \* reset_condition calls so far
    sendPc,           \* B's send_data: "idle" | "wait_ack"
    ackFifoB, ackOverrunB,
    sendsB            \* history of B's send_data results

cmdA   == <<cmdPc, cmdTx, txCmdSeqNum, ackFifoA, ackOverrunA, cmds>>
rxB    == <<rxPc, rxFrame, rxLocal, rxCmdLastSeq, processed>>
recvB  == <<recvPc, recvLocal, recvRv, recvs, resets>>
sendB  == <<sendPc, ackFifoB, ackOverrunB, sendsB>>
vars   == <<wireAB, wireBA, losses, earlyTimeouts, cmdA, rxB, chState, raised,
            dataFifo, dataOverrun, recvB, sendB>>

-----------------------------------------------------------------------------

RxStates  == {"IDLE", "WAIT_DATA", "SEQ_DONE", "RCV_CANCELED"}
CondOf    == [c \in {"RESET", "CANCEL"} |-> IF c = "RESET" THEN "APP_RESET" ELSE "APP_CANCEL"]
RecvPcs   == {"idle", "enter_read", "enter_write", "flush", "check", "pop",
              "exit_read", "exit_write", "reset_write"}
NoCmd     == [id |-> 0, seq |-> 0, code |-> "RESET"]
NoState   == [rx_state |-> "IDLE", condition_flags |-> {}]

generate_seq_code(seqNum, clk) ==
    LET c == (seqNum + clk) % 65536 IN IF c = 0 THEN 65535 ELSE c

(* ch_state_return_condition                                               *)
return_condition(flags) ==
    IF "APP_RESET" \in flags THEN "APP_RESET"
    ELSE IF "APP_CANCEL" \in flags THEN "APP_CANCEL"
    ELSE "OK"

(* Mutant: a push that never drops an entry (no bound on the FIFO).        *)
FifoPushUnbounded(q, e) == Append(q, e)

(* eswb FIFO push: a full FIFO drops its oldest entry; the reader sees an  *)
(* underrun on its next pop.                                               *)
FifoPush(q, e) == IF Len(q) < FifoSize THEN Append(q, e) ELSE Append(Tail(q), e)
FifoOverran(q) == Len(q) = FifoSize

-----------------------------------------------------------------------------
(* A: channel_send_cmd *)

(* Entry: a seq code from tx_cmd_seq_num, the CMD frame is sent.  Unlike   *)
(* channel_send_data there is no wait_ack_reset: ack_fifo is not drained.  *)
SendCmd ==
    /\ cmdPc = "idle"
    /\ Len(cmds) < MaxCmds
    /\ \E code \in CmdCodes, clk \in ClockOffsets :
         LET c == [id |-> Len(cmds) + 1, seq |-> generate_seq_code(txCmdSeqNum, clk),
                   code |-> code]
         IN /\ cmdTx' = c
            /\ wireAB' = Append(wireAB, c)
            /\ cmds' = Append(cmds, [code |-> code, rv |-> "PENDING"])
    /\ cmdPc' = "wait_ack"
    /\ UNCHANGED <<wireBA, losses, earlyTimeouts, txCmdSeqNum, ackFifoA, ackOverrunA,
                   rxB, chState, raised, dataFifo, dataOverrun, recvB, sendB>>

CmdReturn(rv) ==
    /\ cmds' = [cmds EXCEPT ![Len(cmds)].rv = rv]
    /\ txCmdSeqNum' = (txCmdSeqNum + 1) % 65536
    /\ cmdPc' = "idle"
    /\ cmdTx' = NoCmd

(* wait_ack popped a GOT_CMD entry (the only code A's ack_fifo receives    *)
(* here): the loop ends with SDTL_OK.  Its cnt is not looked at.           *)
CmdAckReceived ==
    /\ cmdPc = "wait_ack" /\ ackFifoA # <<>> /\ ~ackOverrunA
    /\ ackFifoA' = Tail(ackFifoA)
    /\ CmdReturn("OK")
    /\ UNCHANGED <<wireAB, wireBA, losses, earlyTimeouts, ackOverrunA,
                   rxB, chState, raised, dataFifo, dataOverrun, recvB, sendB>>

(* Some answer to the CMD is still on its way.                             *)
AnswerPendingA == wireAB # <<>> \/ wireBA # <<>> \/ rxPc # "read"

(* wait_ack timed out: the same CMD (same cmd_seq_code) is sent again.     *)
CmdAckTimeout ==
    /\ cmdPc = "wait_ack" /\ ackFifoA = <<>> /\ ~ackOverrunA
    /\ AnswerPendingA => earlyTimeouts < MaxEarlyTimeouts
    /\ earlyTimeouts' = IF AnswerPendingA THEN earlyTimeouts + 1 ELSE earlyTimeouts
    /\ wireAB' = Append(wireAB, cmdTx)
    /\ UNCHANGED <<wireBA, losses, cmdA, rxB, chState, raised, dataFifo, dataOverrun,
                   recvB, sendB>>

(* wait_ack saw an underrun: SDTL_ESWB_ERR ends the loop ("default").      *)
CmdAckUnderrun ==
    /\ cmdPc = "wait_ack" /\ ackOverrunA
    /\ ackOverrunA' = FALSE
    /\ CmdReturn("ESWB_ERR")
    /\ UNCHANGED <<wireAB, wireBA, losses, earlyTimeouts, ackFifoA,
                   rxB, chState, raised, dataFifo, dataOverrun, recvB, sendB>>

(* A's RX thread: rx_process_ack *)
RxAckA ==
    /\ wireBA # <<>>
    /\ ackFifoA' = FifoPush(ackFifoA, Head(wireBA))
    /\ ackOverrunA' = (ackOverrunA \/ FifoOverran(ackFifoA))
    /\ wireBA' = Tail(wireBA)
    /\ UNCHANGED <<wireAB, losses, earlyTimeouts, cmdPc, cmdTx, txCmdSeqNum, cmds,
                   rxB, chState, raised, dataFifo, dataOverrun, recvB, sendB>>

-----------------------------------------------------------------------------
(* B's RX thread: rx_process_cmd *)

(* Mutant: a repeated CMD is filtered out without re-sending its ACK.      *)
RxCmdReadNoReAck ==
    /\ rxPc = "read" /\ wireAB # <<>>
    /\ wireAB' = Tail(wireAB)
    /\ LET f == Head(wireAB) IN
         IF f.seq # rxCmdLastSeq
         THEN /\ rxCmdLastSeq' = f.seq /\ processed' = processed \cup {f.id}
              /\ rxFrame' = f /\ rxLocal' = chState /\ rxPc' = "alter"
         ELSE UNCHANGED <<rxPc, rxFrame, rxLocal, rxCmdLastSeq, processed>>
    /\ UNCHANGED <<wireBA, losses, earlyTimeouts, cmdA, chState, raised,
                   dataFifo, dataOverrun, recvB, sendB>>

(* A CMD with a new cmd_seq_code is recorded and ch_state_alter_cond_flags *)
(* reads the state topic; a repeated one is only ACKed again.              *)
RxCmdRead ==
    /\ rxPc = "read" /\ wireAB # <<>>
    /\ wireAB' = Tail(wireAB)
    /\ LET f == Head(wireAB) IN
         IF f.seq # rxCmdLastSeq
         THEN /\ rxCmdLastSeq' = f.seq /\ processed' = processed \cup {f.id}
              /\ rxFrame' = f /\ rxLocal' = chState /\ rxPc' = "alter"
              /\ UNCHANGED wireBA
         ELSE /\ wireBA' = Append(wireBA, "GOT_CMD")
              /\ UNCHANGED <<rxPc, rxFrame, rxLocal, rxCmdLastSeq, processed>>
    /\ UNCHANGED <<losses, earlyTimeouts, cmdA, chState, raised,
                   dataFifo, dataOverrun, recvB, sendB>>

(* ch_state_alter_cond_flags writes back the record it read, flag added.   *)
RxCmdAlter ==
    /\ rxPc = "alter"
    /\ LET flag == CondOf[rxFrame.code] IN
         /\ chState' = [rxLocal EXCEPT !.condition_flags = @ \cup {flag}]
         /\ raised' = raised \cup {flag}
    /\ rxPc' = "push"
    /\ UNCHANGED <<wireAB, wireBA, losses, earlyTimeouts, cmdA, rxFrame, rxLocal,
                   rxCmdLastSeq, processed, dataFifo, dataOverrun, recvB, sendB>>

(* Zero-size entry to data_fifo, OUT_BAND_EVENT to ack_fifo, GOT_CMD ACK.  *)
RxCmdPush ==
    /\ rxPc = "push"
    /\ dataFifo' = FifoPush(dataFifo, "OOB")
    /\ dataOverrun' = (dataOverrun \/ FifoOverran(dataFifo))
    /\ ackFifoB' = FifoPush(ackFifoB, "OUT_BAND_EVENT")
    /\ ackOverrunB' = (ackOverrunB \/ FifoOverran(ackFifoB))
    /\ wireBA' = Append(wireBA, "GOT_CMD")
    /\ rxPc' = "read" /\ rxFrame' = NoCmd /\ rxLocal' = NoState
    /\ UNCHANGED <<wireAB, losses, earlyTimeouts, cmdA, rxCmdLastSeq, processed,
                   chState, raised, recvB, sendPc, sendsB>>

-----------------------------------------------------------------------------
(* B's receiver thread: channel_recv_data (rel = 1, no armed timeout) and  *)
(* sdtl_channel_reset_condition.                                           *)

RecvUnchanged == UNCHANGED <<wireAB, wireBA, losses, earlyTimeouts, cmdA, rxB, raised, sendB>>

(* Entry: ch_state_set_rx(WAIT_DATA) reads the state topic ...             *)
RecvData ==
    /\ recvPc = "idle" /\ Len(recvs) < MaxRecvs
    /\ recvLocal' = chState
    /\ recvPc' = "enter_write"
    /\ UNCHANGED <<chState, dataFifo, dataOverrun, recvRv, recvs, resets>>
    /\ RecvUnchanged

(* ... and writes back the record it read with rx_state = WAIT_DATA.       *)
RecvEnterWrite ==
    /\ recvPc = "enter_write"
    /\ chState' = [recvLocal EXCEPT !.rx_state = "WAIT_DATA"]
    /\ recvPc' = "flush"
    /\ UNCHANGED <<dataFifo, dataOverrun, recvLocal, recvRv, recvs, resets>>
    /\ RecvUnchanged

(* wait_data_reset                                                         *)
RecvFlush ==
    /\ recvPc = "flush"
    /\ dataFifo' = <<>> /\ dataOverrun' = FALSE
    /\ recvPc' = "check"
    /\ UNCHANGED <<chState, recvLocal, recvRv, recvs, resets>>
    /\ RecvUnchanged

(* Mutant: the condition check at the top of the loop is missing.          *)
RecvCheckSkipped ==
    /\ recvPc = "check"
    /\ recvPc' = "pop"
    /\ UNCHANGED <<chState, dataFifo, dataOverrun, recvLocal, recvRv, recvs, resets>>
    /\ RecvUnchanged

(* Top of the loop: ch_state_return_condition; a set flag ends the call.   *)
RecvCheck ==
    /\ recvPc = "check"
    /\ LET c == return_condition(chState.condition_flags) IN
         IF c # "OK" THEN recvRv' = c /\ recvPc' = "exit_read"
                     ELSE recvPc' = "pop" /\ UNCHANGED recvRv
    /\ UNCHANGED <<chState, dataFifo, dataOverrun, recvLocal, recvs, resets>>
    /\ RecvUnchanged

(* wait_data popped the zero-size entry: the condition code it returns     *)
(* ends the call; SDTL_OK (flags already reset) with no sequence started  *)
(* goes round the loop again.                                              *)
RecvPop ==
    /\ recvPc = "pop" /\ dataFifo # <<>> /\ ~dataOverrun
    /\ dataFifo' = Tail(dataFifo)
    /\ LET c == return_condition(chState.condition_flags) IN
         IF c # "OK" THEN recvRv' = c /\ recvPc' = "exit_read"
                     ELSE recvPc' = "check" /\ UNCHANGED recvRv
    /\ UNCHANGED <<chState, dataOverrun, recvLocal, recvs, resets>>
    /\ RecvUnchanged

(* eswb_fifo_pop reported an underrun: SDTL_RX_FIFO_OVERFLOW.              *)
RecvUnderrun ==
    /\ recvPc = "pop" /\ dataOverrun
    /\ dataOverrun' = FALSE
    /\ recvRv' = "RX_FIFO_OVERFLOW" /\ recvPc' = "exit_read"
    /\ UNCHANGED <<chState, dataFifo, recvLocal, recvs, resets>>
    /\ RecvUnchanged

(* Exit: ch_state_set_rx(RCV_CANCELED) reads ...                           *)
RecvExitRead ==
    /\ recvPc = "exit_read"
    /\ recvLocal' = chState
    /\ recvPc' = "exit_write"
    /\ UNCHANGED <<chState, dataFifo, dataOverrun, recvRv, recvs, resets>>
    /\ RecvUnchanged

(* ... and writes back; the call returns its rv.                           *)
RecvExitWrite ==
    /\ recvPc = "exit_write"
    /\ chState' = [recvLocal EXCEPT !.rx_state = "RCV_CANCELED"]
    /\ recvs' = Append(recvs, recvRv)
    /\ recvPc' = "idle" /\ recvRv' = "NONE" /\ recvLocal' = NoState
    /\ UNCHANGED <<dataFifo, dataOverrun, resets>>
    /\ RecvUnchanged

(* sdtl_channel_reset_condition: ch_state_alter_cond_flags(0xFF, 0) reads  *)
ResetCondition ==
    /\ recvPc = "idle" /\ resets < MaxResets
    /\ recvLocal' = chState
    /\ resets' = resets + 1
    /\ recvPc' = "reset_write"
    /\ UNCHANGED <<chState, dataFifo, dataOverrun, recvRv, recvs>>
    /\ RecvUnchanged

(* ... and writes back the record with every flag cleared.                 *)
ResetWrite ==
    /\ recvPc = "reset_write"
    /\ chState' = [recvLocal EXCEPT !.condition_flags = {}]
    /\ raised' = {}
    /\ recvPc' = "idle" /\ recvLocal' = NoState
    /\ UNCHANGED <<wireAB, wireBA, losses, earlyTimeouts, cmdA, rxB, sendB,
                   dataFifo, dataOverrun, recvRv, recvs, resets>>

-----------------------------------------------------------------------------
(* B's sender thread: channel_send_data of a one-fragment message, rel = 1 *)

SendUnchanged == UNCHANGED <<wireAB, wireBA, losses, earlyTimeouts, cmdA, rxB, chState,
                             raised, dataFifo, dataOverrun, recvB>>

(* Mutant: the send loop never looks at the condition flags.               *)
SendConditionNone == "OK"

(* The check before each (re)transmission, line 628.                       *)
SendCondition == return_condition(chState.condition_flags)

(* Entry: wait_ack_reset, then the condition check; the DATA frame goes to *)
(* a peer that will not answer.                                            *)
SendDataB ==
    /\ sendPc = "idle" /\ Len(sendsB) < MaxSendsB
    /\ ackFifoB' = <<>> /\ ackOverrunB' = FALSE
    /\ IF SendCondition # "OK"
         THEN sendsB' = Append(sendsB, SendCondition) /\ UNCHANGED sendPc
         ELSE sendPc' = "wait_ack" /\ UNCHANGED sendsB
    /\ SendUnchanged

(* wait_ack popped the OUT_BAND_EVENT entry and returns the condition.  If *)
(* the flags were reset meanwhile that is SDTL_OK, and the entry's code    *)
(* falls into "default: break": the fragment counts as acknowledged.       *)
SendAckPop ==
    /\ sendPc = "wait_ack" /\ ackFifoB # <<>> /\ ~ackOverrunB
    /\ ackFifoB' = Tail(ackFifoB)
    /\ sendsB' = Append(sendsB, return_condition(chState.condition_flags))
    /\ sendPc' = "idle"
    /\ UNCHANGED ackOverrunB
    /\ SendUnchanged

(* wait_ack timed out: the condition check, then the fragment again.       *)
SendTimeoutB ==
    /\ sendPc = "wait_ack" /\ ackFifoB = <<>> /\ ~ackOverrunB
    /\ IF SendCondition # "OK"
         THEN sendsB' = Append(sendsB, SendCondition) /\ sendPc' = "idle"
         ELSE UNCHANGED <<sendsB, sendPc>>
    /\ UNCHANGED <<ackFifoB, ackOverrunB>>
    /\ SendUnchanged

(* wait_ack saw an underrun: SDTL_ESWB_ERR.                                *)
SendUnderrunB ==
    /\ sendPc = "wait_ack" /\ ackOverrunB
    /\ ackOverrunB' = FALSE
    /\ sendsB' = Append(sendsB, "ESWB_ERR") /\ sendPc' = "idle"
    /\ UNCHANGED ackFifoB
    /\ SendUnchanged

-----------------------------------------------------------------------------
(* The medium loses frames (bad CRC at the framer).                        *)

LoseAB ==
    /\ losses < MaxLoss /\ wireAB # <<>>
    /\ wireAB' = Tail(wireAB) /\ losses' = losses + 1
    /\ UNCHANGED <<wireBA, earlyTimeouts, cmdA, rxB, chState, raised, dataFifo,
                   dataOverrun, recvB, sendB>>

LoseBA ==
    /\ losses < MaxLoss /\ wireBA # <<>>
    /\ wireBA' = Tail(wireBA) /\ losses' = losses + 1
    /\ UNCHANGED <<wireAB, earlyTimeouts, cmdA, rxB, chState, raised, dataFifo,
                   dataOverrun, recvB, sendB>>

-----------------------------------------------------------------------------

(* An opened channel: calloc'ed handle, zero-initialised state topic.      *)
Init ==
    /\ wireAB = <<>> /\ wireBA = <<>> /\ losses = 0 /\ earlyTimeouts = 0
    /\ cmdPc = "idle" /\ cmdTx = NoCmd /\ txCmdSeqNum = 0
    /\ ackFifoA = <<>> /\ ackOverrunA = FALSE /\ cmds = <<>>
    /\ rxPc = "read" /\ rxFrame = NoCmd /\ rxLocal = NoState
    /\ rxCmdLastSeq = 0 /\ processed = {}
    /\ chState = NoState /\ raised = {}
    /\ dataFifo = <<>> /\ dataOverrun = FALSE
    /\ recvPc = "idle" /\ recvLocal = NoState /\ recvRv = "NONE" /\ recvs = <<>> /\ resets = 0
    /\ sendPc = "idle" /\ ackFifoB = <<>> /\ ackOverrunB = FALSE /\ sendsB = <<>>

CmdSenderA == SendCmd \/ CmdAckReceived \/ CmdAckTimeout \/ CmdAckUnderrun
RxThreadA  == RxAckA
RxThreadB  == RxCmdRead \/ RxCmdAlter \/ RxCmdPush
ReceiverB  == RecvData \/ RecvEnterWrite \/ RecvFlush \/ RecvCheck \/ RecvPop
              \/ RecvUnderrun \/ RecvExitRead \/ RecvExitWrite \/ ResetCondition \/ ResetWrite
SenderB    == SendDataB \/ SendAckPop \/ SendTimeoutB \/ SendUnderrunB
Medium     == LoseAB \/ LoseBA

Next == CmdSenderA \/ RxThreadA \/ RxThreadB \/ ReceiverB \/ SenderB \/ Medium

(* A call in progress keeps running and its timers fire; starting a call   *)
(* and losing a frame are not fair.                                        *)
Fairness ==
    /\ WF_vars(CmdAckReceived) /\ WF_vars(CmdAckTimeout) /\ WF_vars(CmdAckUnderrun)
    /\ WF_vars(RxThreadA) /\ WF_vars(RxThreadB)
    /\ WF_vars(RecvEnterWrite) /\ WF_vars(RecvFlush) /\ WF_vars(RecvCheck)
    /\ WF_vars(RecvPop) /\ WF_vars(RecvUnderrun) /\ WF_vars(RecvExitRead)
    /\ WF_vars(RecvExitWrite) /\ WF_vars(ResetWrite)
    /\ WF_vars(SendAckPop) /\ WF_vars(SendTimeoutB) /\ WF_vars(SendUnderrunB)

Spec     == Init /\ [][Next]_vars
FairSpec == Spec /\ Fairness

-----------------------------------------------------------------------------
(* Properties *)

StateRec == [rx_state : RxStates, condition_flags : SUBSET {"APP_RESET", "APP_CANCEL"}]
CmdRec   == [id : Nat, seq : 0..65535, code : {"RESET", "CANCEL"}]

TypeOK ==
    /\ wireAB \in Seq(CmdRec) /\ wireBA \in Seq({"GOT_CMD"})
    /\ cmdPc \in {"idle", "wait_ack"} /\ cmdTx \in CmdRec /\ txCmdSeqNum \in 0..65535
    /\ ackFifoA \in Seq({"GOT_CMD"}) /\ Len(ackFifoA) <= FifoSize
    /\ rxPc \in {"read", "alter", "push"} /\ rxLocal \in StateRec
    /\ rxCmdLastSeq \in 0..65535 /\ processed \subseteq 1..MaxCmds
    /\ chState \in StateRec /\ recvLocal \in StateRec
    /\ dataFifo \in Seq({"OOB"}) /\ Len(dataFifo) <= FifoSize
    /\ ackFifoB \in Seq({"OUT_BAND_EVENT"}) /\ Len(ackFifoB) <= FifoSize
    /\ recvPc \in RecvPcs /\ sendPc \in {"idle", "wait_ack"}

Cond == return_condition(chState.condition_flags)

(* Every send_cmd call returns: B answers every copy of a CMD, new or      *)
(* repeated, so the retry loop ends.                                       *)
CmdReturns == (cmdPc = "wait_ack") ~> (cmdPc = "idle")

(* Cancellation of a blocked recv_data (spec 8.6): once a condition flag  *)
(* is visible while the call waits for data, the call returns.            *)
RecvCancelled == (recvPc \in {"check", "pop"} /\ Cond # "OK") ~> (recvPc = "idle")

(* Cancellation of a blocked send_data (spec 8.6): once a condition flag  *)
(* is visible while the call waits for its ACK, the call returns.         *)
SendCancelled == (sendPc = "wait_ack" /\ Cond # "OK") ~> (sendPc = "idle")

(* No read-modify-write of the state topic undoes another thread's write  *)
(* (ch_state_set_rx by the application, ch_state_alter_cond_flags by the  *)
(* RX thread): the condition flags are exactly those raised by commands   *)
(* since the last reset_condition, and while recv_data waits for data the *)
(* topic says WAIT_DATA, so B's DATA frames are queued, not refused.      *)
StateTopicKept ==
    /\ chState.condition_flags = raised
    /\ recvPc \in {"flush", "check", "pop"} => chState.rx_state = "WAIT_DATA"

(* B's send_data returns SDTL_OK only on a GOT_PKT ACK; none arrives here, *)
(* so an out-of-band entry must never complete it.                         *)
SendNeverFakeAcked == \A i \in DOMAIN sendsB : sendsB[i] # "OK"

====
