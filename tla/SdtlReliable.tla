---------------------------- MODULE SdtlReliable ----------------------------
(***************************************************************************)
(* One RELIABLE SDTL channel between two peers, data flowing from peer A   *)
(* to peer B (src/src/lib/services/sdtl/sdtl.c).                           *)
(*                                                                         *)
(*  - A's application thread runs channel_send_data: fragments a message,  *)
(*    writes DATA frames, waits on A's ack_fifo with a timer, retries.     *)
(*  - A's RX thread (sdtl_service_rx_thread) turns ACK frames read from   *)
(*    the medium into ack_fifo entries (rx_process_ack).                   *)
(*  - B's RX thread reads the channel state record and dispatches each     *)
(*    DATA frame (rx_process_data): re-ACK a trailing duplicate, answer    *)
(*    CANCELED / NO_RECEIVER, or push it onto B's data_fifo.               *)
(*  - B's application thread runs channel_recv_data: sets WAIT_DATA,       *)
(*    flushes data_fifo, pops and classifies entries (wait_data), ACKs and *)
(*    copies accepted fragments, and records SEQ_DONE or RCV_CANCELED.     *)
(*                                                                         *)
(* The medium is in order and loses whole frames (a frame whose bytes are  *)
(* damaged fails its CRC and is discarded by the framer).  Payload bytes   *)
(* are abstracted to the identity of the fragment they come from:          *)
(* <<message, offset, size>>.                                              *)
(***************************************************************************)
EXTENDS Integers, Sequences, SequencesExt, FiniteSets

CONSTANTS
    MsgLens,          \* lengths (bytes) A's application passes to send_data
    MaxPayload,       \* channel->max_payload_size (MTU - sizeof data header)
    RecvBufSizes,     \* buffer lengths B's application passes to recv_data
    RecvArming,       \* subset of BOOLEAN: may B arm the RX timeout before a call
    ClockOffsets,     \* values of (timespec.tv_nsec >> 10) in generate_seq_code
    FifoSize,         \* FIFO_SIZE of data_fifo and ack_fifo
    MaxSends,         \* bound: send_data calls of A
    MaxRecvs,         \* bound: recv_data calls of B
    MaxLoss,          \* bound: frames destroyed on the medium
    MaxEarlyTimeouts  \* bound: ACK timer expiries while the answer is still on its way

ASSUME /\ MsgLens \subseteq Nat /\ MaxPayload \in Nat \ {0}
       /\ RecvBufSizes \subseteq Nat /\ RecvArming \subseteq BOOLEAN
       /\ ClockOffsets \subseteq Nat /\ FifoSize \in Nat \ {0}
       /\ {MaxSends, MaxRecvs, MaxLoss, MaxEarlyTimeouts} \subseteq Nat

VARIABLES
    wireAB, wireBA,   \* frames on the medium, per direction, in order
    losses,           \* frames destroyed so far
    earlyTimeouts,    \* premature ACK timer expiries so far
    txPc,             \* A's sender: "idle" | "wait_ack"
    tx,               \* A's sender locals (offset, l, pktn_in_seq, flags, seq_code, dsize)
    txSeqNum,         \* chh->tx_seq_num of A, mod 2^16: it is only read by
                      \* generate_seq_code, whose u16 result ignores the u32 wrap
    ackFifo,          \* A's ack_fifo
    ackOverrun,       \* A's ack_fifo reader was overrun by its writer
    sends,            \* history of send_data calls: [len, rv]
    rxPc,             \* B's RX thread: "read" | "dispatch"
    rxFrame,          \* frame B's RX thread is dispatching
    rxSnap,           \* channel state B's RX thread read (ch_state_read, line 211)
    chState,          \* B's rx_state record: [rx_state, last_received_seq, condition_flags]
    dataFifo,         \* B's data_fifo
    dataOverrun,      \* B's data_fifo reader was overrun by its writer
    appPc,            \* B's receiver: "idle" | "flush" | "wait" | "finish"
    app,              \* B's receiver locals (s, l, offset, prev_pkt_num, sequence_started, ...)
    armed,            \* chh->armed_timeout_us > 0 on B
    recvs             \* history of recv_data calls: [rv, got, br]

medium   == <<wireAB, wireBA, losses, earlyTimeouts>>
senderA  == <<txPc, tx, txSeqNum, ackFifo, ackOverrun, sends>>
rxB      == <<rxPc, rxFrame, rxSnap>>
appB     == <<chState, dataFifo, dataOverrun, appPc, app, armed, recvs>>
vars     == <<medium, senderA, rxB, appB>>

-----------------------------------------------------------------------------
(* Values *)

RxStates  == {"IDLE", "WAIT_DATA", "SEQ_DONE", "RCV_CANCELED"}
AckCodes  == {"GOT_PKT", "CANCELED", "NO_RECEIVER", "OUT_BAND_EVENT", "GOT_CMD"}
CondFlags == {"APP_RESET", "APP_CANCEL"}

NoFrame == [type |-> "NONE"]
NoTx    == [msg |-> 0, seq |-> 0, cnt |-> 0, flags |-> {}, l |-> 0, off |-> 0, dsize |-> 0]
NoSnap  == [rx_state |-> "IDLE", last_received_seq |-> 0, condition_flags |-> {}]
NoRecv  == [s |-> 0, l |-> 0, offset |-> 0, prev |-> -1, started |-> FALSE,
            got |-> <<>>, seq |-> 0, rv |-> "NONE"]

MinOf(a, b) == IF a < b THEN a ELSE b

(* my_min and the 16-bit seq_code arithmetic of generate_seq_code:         *)
(* seq_num + (tv_nsec >> 10) truncated to u16, 0 replaced by 0xFFFF.     *)
generate_seq_code(seqNum, clk) ==
    LET c == (seqNum + clk) % 65536 IN IF c = 0 THEN 65535 ELSE c

(* The DATA frame send_data builds for the sender's current fragment.      *)
DataFrame(t) ==
    [type |-> "DATA", seq |-> t.seq, cnt |-> t.cnt, flags |-> t.flags,
     size |-> t.dsize, msg |-> t.msg, off |-> t.off]

AckFrame(code, cnt) == [type |-> "ACK", code |-> code, cnt |-> cnt]

(* Mutant: a push that never drops an entry (no bound on the FIFO).        *)
FifoPushUnbounded(q, e) == Append(q, e)

(* eswb FIFO push: a full FIFO drops its oldest entry and the reader sees  *)
(* an underrun on its next pop.                                            *)
FifoPush(q, e) == IF Len(q) < FifoSize THEN Append(q, e) ELSE Append(Tail(q), e)
FifoOverran(q) == Len(q) = FifoSize

(* ch_state_return_condition                                               *)
return_condition(flags) ==
    IF "APP_RESET" \in flags THEN "APP_RESET"
    ELSE IF "APP_CANCEL" \in flags THEN "APP_CANCEL"
    ELSE "OK"

-----------------------------------------------------------------------------
(* A: channel_send_data (rel = 1) *)

(* Size and LAST flag of the fragment at the sender's current offset.      *)
NextFragment(t) ==
    LET d == MinOf(MaxPayload, t.l)
    IN [t EXCEPT !.dsize = d, !.flags = IF d = t.l THEN @ \cup {"LAST"} ELSE @]

SendResult(rv) == sends' = [sends EXCEPT ![Len(sends)].rv = rv]

(* Entry: seq code, drain stale ACKs (wait_ack_reset), send fragment 0.    *)
(* A never receives a CMD in this topology, so the condition check before *)
(* each fragment (line 628) always passes.                                 *)
SendData ==
    /\ txPc = "idle"
    /\ Len(sends) < MaxSends
    /\ \E len \in MsgLens, clk \in ClockOffsets :
         LET t == NextFragment([NoTx EXCEPT !.msg = Len(sends) + 1,
                                            !.seq = generate_seq_code(txSeqNum, clk),
                                            !.flags = {"FIRST"}, !.l = len])
         IN /\ tx' = t
            /\ wireAB' = Append(wireAB, DataFrame(t))
            /\ sends' = Append(sends, [len |-> len, rv |-> "PENDING"])
    /\ ackFifo' = <<>>
    /\ ackOverrun' = FALSE
    /\ txPc' = "wait_ack"
    /\ UNCHANGED <<wireBA, losses, earlyTimeouts, txSeqNum, rxB, appB>>

(* Mutant: NO_RECEIVER falls into the "default: break" like other codes.  *)
AckReceivedNoClientIgnored ==
    /\ txPc = "wait_ack"
    /\ ackFifo # <<>>
    /\ ~ackOverrun
    /\ ackFifo' = Tail(ackFifo)
    /\ LET a == Head(ackFifo)
           t == [tx EXCEPT !.flags = @ \ {"FIRST"}, !.cnt = (@ + 1) % 256,
                           !.l = @ - tx.dsize, !.off = @ + tx.dsize]
       IN \/ /\ a.code = "CANCELED"
             /\ SendResult("REMOTE_RX_CANCELED")
             /\ txPc' = "idle" /\ tx' = NoTx
             /\ UNCHANGED <<wireAB, txSeqNum>>
          \/ /\ a.code # "CANCELED" /\ t.l > 0
             /\ tx' = NextFragment(t)
             /\ wireAB' = Append(wireAB, DataFrame(NextFragment(t)))
             /\ UNCHANGED <<txPc, sends, txSeqNum>>
          \/ /\ a.code # "CANCELED" /\ t.l = 0
             /\ txSeqNum' = (txSeqNum + 1) % 65536
             /\ SendResult("OK")
             /\ txPc' = "idle" /\ tx' = NoTx
             /\ UNCHANGED wireAB
    /\ UNCHANGED <<wireBA, losses, earlyTimeouts, ackOverrun, rxB, appB>>

(* wait_ack popped an entry.  CANCELED and NO_RECEIVER end the call; every *)
(* other code (GOT_PKT, and the "default: break" for anything else) moves  *)
(* on to the next fragment without looking at the ACK's cnt.              *)
AckReceived ==
    /\ txPc = "wait_ack"
    /\ ackFifo # <<>>
    /\ ~ackOverrun
    /\ ackFifo' = Tail(ackFifo)
    /\ LET a == Head(ackFifo)
           t == [tx EXCEPT !.flags = @ \ {"FIRST"}, !.cnt = (@ + 1) % 256,
                           !.l = @ - tx.dsize, !.off = @ + tx.dsize]
           n == NextFragment(t)
       IN \/ /\ a.code = "CANCELED"
             /\ SendResult("REMOTE_RX_CANCELED")
             /\ txPc' = "idle" /\ tx' = NoTx
             /\ UNCHANGED <<wireAB, txSeqNum>>
          \/ /\ a.code = "NO_RECEIVER"
             /\ SendResult("REMOTE_RX_NO_CLIENT")
             /\ txPc' = "idle" /\ tx' = NoTx
             /\ UNCHANGED <<wireAB, txSeqNum>>
          \/ /\ a.code \notin {"CANCELED", "NO_RECEIVER"}
             /\ t.l > 0
             /\ tx' = n
             /\ wireAB' = Append(wireAB, DataFrame(n))
             /\ UNCHANGED <<txPc, sends, txSeqNum>>
          \/ /\ a.code \notin {"CANCELED", "NO_RECEIVER"}
             /\ t.l = 0
             /\ txSeqNum' = (txSeqNum + 1) % 65536
             /\ SendResult("OK")
             /\ txPc' = "idle" /\ tx' = NoTx
             /\ UNCHANGED wireAB
    /\ UNCHANGED <<wireBA, losses, earlyTimeouts, ackOverrun, rxB, appB>>

(* Some answer to the fragment being retried is still on its way.          *)
AnswerPending ==
    \/ \E i \in DOMAIN wireAB : wireAB[i].type = "DATA"
    \/ wireBA # <<>>
    \/ ackFifo # <<>>
    \/ rxPc = "dispatch"
    \/ appPc = "wait" /\ dataFifo # <<>>

(* eswb_fifo_pop timed out: retries++, the same fragment is sent again.    *)
(* A timer expiry while an answer is pending is an early timeout.          *)
AckTimeout ==
    /\ txPc = "wait_ack"
    /\ ackFifo = <<>>
    /\ ~ackOverrun
    /\ AnswerPending => earlyTimeouts < MaxEarlyTimeouts
    /\ earlyTimeouts' = IF AnswerPending THEN earlyTimeouts + 1 ELSE earlyTimeouts
    /\ wireAB' = Append(wireAB, DataFrame(tx))
    /\ UNCHANGED <<wireBA, losses, senderA, rxB, appB>>

(* eswb_fifo_pop reported an underrun: SDTL_ESWB_ERR ends the call.        *)
AckUnderrun ==
    /\ txPc = "wait_ack"
    /\ ackOverrun
    /\ ackOverrun' = FALSE
    /\ SendResult("ESWB_ERR")
    /\ txPc' = "idle" /\ tx' = NoTx
    /\ UNCHANGED <<medium, txSeqNum, ackFifo, rxB, appB>>

-----------------------------------------------------------------------------
(* A's RX thread: an ACK frame is pushed onto ack_fifo (rx_process_ack). *)

RxAckA ==
    /\ wireBA # <<>>
    /\ LET f == Head(wireBA) IN
         /\ ackFifo' = FifoPush(ackFifo, [code |-> f.code, cnt |-> f.cnt])
         /\ ackOverrun' = (ackOverrun \/ FifoOverran(ackFifo))
    /\ wireBA' = Tail(wireBA)
    /\ UNCHANGED <<wireAB, losses, earlyTimeouts, txPc, tx, txSeqNum, sends, rxB, appB>>

-----------------------------------------------------------------------------
(* B's RX thread: sdtl_got_frame_handler and rx_process_data *)

(* Frame read, validated, channel resolved, channel state read.           *)
RxRead ==
    /\ rxPc = "read"
    /\ wireAB # <<>>
    /\ rxFrame' = Head(wireAB)
    /\ wireAB' = Tail(wireAB)
    /\ rxSnap' = chState
    /\ rxPc' = "dispatch"
    /\ UNCHANGED <<wireBA, losses, earlyTimeouts, senderA, appB>>

SendAckB(code, cnt) == wireBA' = Append(wireBA, AckFrame(code, cnt))

(* Mutant: the replay filter is missing.                                   *)
IsTrailerNever(f, snap) == FALSE

(* rx_process_data's replay filter: the frame repeats the trailing fragment *)
(* of the sequence B's receiver last completed.                            *)
IsTrailer(f, snap) == "LAST" \in f.flags /\ f.seq = snap.last_received_seq

(* rx_process_data on the state read at RxRead, which B's application may *)
(* have changed since.                                                     *)
RxDispatch ==
    /\ rxPc = "dispatch"
    /\ LET f == rxFrame
           trailer == IsTrailer(f, rxSnap)
       IN \/ /\ trailer
             /\ SendAckB("GOT_PKT", f.cnt)
             /\ UNCHANGED <<dataFifo, dataOverrun>>
          \/ /\ ~trailer /\ rxSnap.rx_state = "RCV_CANCELED"
             /\ SendAckB("CANCELED", f.cnt)
             /\ UNCHANGED <<dataFifo, dataOverrun>>
          \/ /\ ~trailer /\ rxSnap.rx_state \in {"IDLE", "SEQ_DONE"}
             /\ SendAckB("NO_RECEIVER", f.cnt)
             /\ UNCHANGED <<dataFifo, dataOverrun>>
          \/ /\ ~trailer /\ rxSnap.rx_state = "WAIT_DATA"
             /\ dataFifo' = FifoPush(dataFifo, [f EXCEPT !.type = "SUB"])
             /\ dataOverrun' = (dataOverrun \/ FifoOverran(dataFifo))
             /\ UNCHANGED wireBA
    /\ rxPc' = "read"
    /\ rxFrame' = NoFrame
    /\ rxSnap' = NoSnap
    /\ UNCHANGED <<wireAB, losses, earlyTimeouts, senderA, chState, appPc, app, armed, recvs>>

-----------------------------------------------------------------------------
(* B: sdtl_channel_recv_arm_timeout and channel_recv_data (rel = 1) *)

RecvArmTimeout ==
    /\ appPc = "idle"
    /\ TRUE \in RecvArming
    /\ ~armed
    /\ armed' = TRUE
    /\ UNCHANGED <<medium, senderA, rxB, chState, dataFifo, dataOverrun, appPc, app, recvs>>

(* Entry: ch_state_set_rx(WAIT_DATA, last_received_seq kept).              *)
RecvData ==
    /\ appPc = "idle"
    /\ Len(recvs) < MaxRecvs
    /\ \E s \in RecvBufSizes : app' = [NoRecv EXCEPT !.s = s, !.l = s]
    /\ chState' = [chState EXCEPT !.rx_state = "WAIT_DATA"]
    /\ appPc' = "flush"
    /\ UNCHANGED <<medium, senderA, rxB, dataFifo, dataOverrun, armed, recvs>>

(* wait_data_reset: stale entries are dropped.                             *)
RecvFlush ==
    /\ appPc = "flush"
    /\ dataFifo' = <<>>
    /\ dataOverrun' = FALSE
    /\ appPc' = "wait"
    /\ UNCHANGED <<medium, senderA, rxB, chState, app, armed, recvs>>

(* l is a size_t: a negative model value stands for a wrapped, huge value. *)
BufTooSmall(l, size) == l >= 0 /\ l < size

(* Mutant: the dc == 0 (repeated fragment) case is missing.               *)
ClassifyNoRepeat(e, a) ==
    IF e.size = 0 THEN return_condition(chState.condition_flags)
    ELSE IF a.prev # -1
         THEN LET dc == (e.cnt - (a.prev % 256)) % 256 IN
              CASE dc > 1 -> "OK_MISSED_PKT_IN_SEQ"
                [] OTHER  -> IF BufTooSmall(a.l, e.size) THEN "RX_BUF_SMALL" ELSE "OK"
         ELSE IF "FIRST" \in e.flags THEN "OK_FIRST_PACKET" ELSE "OK_OMIT"

(* Mutant: any fragment may open a sequence (FIRST flag not checked).      *)
ClassifyAnyFirst(e, a) ==
    IF e.size = 0 THEN return_condition(chState.condition_flags)
    ELSE IF a.prev # -1
         THEN LET dc == (e.cnt - (a.prev % 256)) % 256 IN
              CASE dc > 1 -> "OK_MISSED_PKT_IN_SEQ"
                [] dc = 0 -> "OK_REPEATED"
                [] OTHER  -> IF BufTooSmall(a.l, e.size) THEN "RX_BUF_SMALL" ELSE "OK"
         ELSE "OK_FIRST_PACKET"

(* wait_data: classification of a popped entry against prev_pkt_num.       *)
Classify(e, a) ==
    IF e.size = 0 THEN return_condition(chState.condition_flags)
    ELSE IF a.prev # -1
         THEN LET dc == (e.cnt - (a.prev % 256)) % 256 IN
              CASE dc > 1 -> "OK_MISSED_PKT_IN_SEQ"
                [] dc = 0 -> "OK_REPEATED"
                [] OTHER  -> IF BufTooSmall(a.l, e.size) THEN "RX_BUF_SMALL" ELSE "OK"
         ELSE IF "FIRST" \in e.flags THEN "OK_FIRST_PACKET" ELSE "OK_OMIT"

(* One iteration of the receive loop on a popped entry.  Accepted          *)
(* fragments are ACKed, copied to d + offset, and LAST ends the loop.      *)
RecvPop ==
    /\ appPc = "wait"
    /\ dataFifo # <<>>
    /\ ~dataOverrun
    /\ dataFifo' = Tail(dataFifo)
    /\ LET e  == Head(dataFifo)
           rv == Classify(e, app)
           started == app.started \/ rv = "OK_FIRST_PACKET"
           copied == [app EXCEPT !.started = TRUE,
                                 !.prev = IF rv = "OK" THEN @ + 1 ELSE 0,
                                 !.offset = @ + e.size, !.l = @ - e.size,
                                 !.got = Append(@, [msg |-> e.msg, off |-> e.off, size |-> e.size]),
                                 !.seq = e.seq]
       IN \/ /\ rv \in {"RX_BUF_SMALL", "APP_RESET", "APP_CANCEL"}
             /\ app' = [app EXCEPT !.rv = rv]
             /\ appPc' = "finish"
             /\ UNCHANGED wireBA
          \/ /\ rv = "OK_REPEATED"
             /\ SendAckB("GOT_PKT", e.cnt)
             /\ UNCHANGED <<app, appPc>>
          \/ /\ rv \in {"OK_OMIT", "OK_MISSED_PKT_IN_SEQ"}
             /\ UNCHANGED <<wireBA, app, appPc>>
          \/ /\ rv \in {"OK", "OK_FIRST_PACKET"}
             /\ ~started
             /\ UNCHANGED <<wireBA, app, appPc>>
          \/ /\ rv \in {"OK", "OK_FIRST_PACKET"}
             /\ started
             /\ SendAckB("GOT_PKT", e.cnt)
             /\ IF "LAST" \in e.flags
                  THEN app' = [copied EXCEPT !.rv = "OK"] /\ appPc' = "finish"
                  ELSE app' = copied /\ UNCHANGED appPc
    /\ UNCHANGED <<wireAB, losses, earlyTimeouts, senderA, rxB, chState, dataOverrun, armed, recvs>>

(* eswb_fifo_pop with the armed timeout found nothing: SDTL_TIMEDOUT.      *)
RecvTimeout ==
    /\ appPc = "wait"
    /\ armed
    /\ dataFifo = <<>>
    /\ ~dataOverrun
    /\ app' = [app EXCEPT !.rv = "TIMEDOUT"]
    /\ appPc' = "finish"
    /\ UNCHANGED <<medium, senderA, rxB, chState, dataFifo, dataOverrun, armed, recvs>>

(* eswb_fifo_pop reported an underrun: SDTL_RX_FIFO_OVERFLOW.              *)
RecvUnderrun ==
    /\ appPc = "wait"
    /\ dataOverrun
    /\ dataOverrun' = FALSE
    /\ app' = [app EXCEPT !.rv = "RX_FIFO_OVERFLOW"]
    /\ appPc' = "finish"
    /\ UNCHANGED <<medium, senderA, rxB, chState, dataFifo, armed, recvs>>

(* Exit: armed timeout cleared, SEQ_DONE with the last entry's seq_code on *)
(* success, RCV_CANCELED with seq 0 otherwise; *br set only on success.    *)
RecvFinish ==
    /\ appPc = "finish"
    /\ armed' = FALSE
    /\ chState' = IF app.rv = "OK"
                    THEN [chState EXCEPT !.rx_state = "SEQ_DONE", !.last_received_seq = app.seq]
                    ELSE [chState EXCEPT !.rx_state = "RCV_CANCELED", !.last_received_seq = 0]
    /\ recvs' = Append(recvs, [rv |-> app.rv, got |-> app.got,
                               br |-> IF app.rv = "OK" THEN app.offset ELSE -1])
    /\ app' = NoRecv
    /\ appPc' = "idle"
    /\ UNCHANGED <<medium, senderA, rxB, dataFifo, dataOverrun>>

-----------------------------------------------------------------------------
(* The medium: the frame at the head of a direction is damaged and the    *)
(* framer discards it (bbee_frm_inv_crc).                                  *)

LoseAB ==
    /\ losses < MaxLoss
    /\ wireAB # <<>>
    /\ wireAB' = Tail(wireAB)
    /\ losses' = losses + 1
    /\ UNCHANGED <<wireBA, earlyTimeouts, senderA, rxB, appB>>

LoseBA ==
    /\ losses < MaxLoss
    /\ wireBA # <<>>
    /\ wireBA' = Tail(wireBA)
    /\ losses' = losses + 1
    /\ UNCHANGED <<wireAB, earlyTimeouts, senderA, rxB, appB>>

-----------------------------------------------------------------------------

Init ==
    /\ wireAB = <<>> /\ wireBA = <<>>
    /\ losses = 0 /\ earlyTimeouts = 0
    /\ txPc = "idle" /\ tx = NoTx /\ txSeqNum = 0
    /\ ackFifo = <<>> /\ ackOverrun = FALSE /\ sends = <<>>
    /\ rxPc = "read" /\ rxFrame = NoFrame /\ rxSnap = NoSnap
    /\ chState = [rx_state |-> "IDLE", last_received_seq |-> 0, condition_flags |-> {}]
    /\ dataFifo = <<>> /\ dataOverrun = FALSE
    /\ appPc = "idle" /\ app = NoRecv /\ armed = FALSE /\ recvs = <<>>

SenderA   == SendData \/ AckReceived \/ AckTimeout \/ AckUnderrun
RxThreadA == RxAckA
RxThreadB == RxRead \/ RxDispatch
ReceiverB == RecvArmTimeout \/ RecvData \/ RecvFlush \/ RecvPop
             \/ RecvTimeout \/ RecvUnderrun \/ RecvFinish
Medium    == LoseAB \/ LoseBA

Next == SenderA \/ RxThreadA \/ RxThreadB \/ ReceiverB \/ Medium

(* Threads that are able to run eventually do; the ACK and RX timers fire *)
(* when nothing arrives.  Starting a call and the medium are not fair.    *)
Fairness ==
    /\ WF_vars(AckReceived) /\ WF_vars(AckTimeout) /\ WF_vars(AckUnderrun)
    /\ WF_vars(RxAckA) /\ WF_vars(RxRead) /\ WF_vars(RxDispatch)
    /\ WF_vars(RecvFlush) /\ WF_vars(RecvPop) /\ WF_vars(RecvTimeout)
    /\ WF_vars(RecvUnderrun) /\ WF_vars(RecvFinish)

Spec     == Init /\ [][Next]_vars
FairSpec == Spec /\ Fairness

-----------------------------------------------------------------------------
(* Properties *)

Frame    == [type : {"DATA"}, seq : 0..65535, cnt : 0..255, flags : SUBSET {"FIRST", "LAST"},
             size : Nat, msg : Nat, off : Nat]
SubEntry == [type : {"SUB"}, seq : 0..65535, cnt : 0..255, flags : SUBSET {"FIRST", "LAST"},
             size : Nat, msg : Nat, off : Nat]
Piece    == [msg : Nat, off : Nat, size : Nat]

TypeOK ==
    /\ wireAB \in Seq(Frame)
    /\ wireBA \in Seq([type : {"ACK"}, code : AckCodes, cnt : 0..255])
    /\ txPc \in {"idle", "wait_ack"}
    /\ txSeqNum \in 0..65535
    /\ ackFifo \in Seq([code : AckCodes, cnt : 0..255]) /\ Len(ackFifo) <= FifoSize
    /\ sends \in Seq([len : MsgLens, rv : {"PENDING", "OK", "REMOTE_RX_CANCELED",
                                           "REMOTE_RX_NO_CLIENT", "ESWB_ERR"}])
    /\ rxPc \in {"read", "dispatch"}
    /\ rxFrame \in Frame \cup {NoFrame}
    /\ chState \in [rx_state : RxStates, last_received_seq : 0..65535,
                    condition_flags : SUBSET CondFlags]
    /\ rxSnap \in [rx_state : RxStates, last_received_seq : 0..65535,
                   condition_flags : SUBSET CondFlags]
    /\ dataFifo \in Seq(SubEntry) /\ Len(dataFifo) <= FifoSize
    /\ appPc \in {"idle", "flush", "wait", "finish"}
    /\ app.got \in Seq(Piece)
    /\ armed \in BOOLEAN
    /\ recvs \in Seq([rv : STRING, got : Seq(Piece), br : Int])

(* The fragments send_data cuts message m into, as the receiver must copy *)
(* them.                                                                   *)
FragsOf(m) ==
    LET len == sends[m].len
        n   == IF len = 0 THEN 1 ELSE (len + MaxPayload - 1) \div MaxPayload
    IN [i \in 1..n |-> [msg |-> m, off |-> (i - 1) * MaxPayload,
                        size |-> MinOf(MaxPayload, len - (i - 1) * MaxPayload)]]

(* Every fragment B's receiver has copied into an application buffer.     *)
Copied == ToSet(app.got) \cup UNION {ToSet(recvs[i].got) : i \in DOMAIN recvs}

OkRecvs == {i \in DOMAIN recvs : recvs[i].rv = "OK"}

(* channel_recv_data returns SDTL_OK only with the bytes of exactly one     *)
(* message, all of its fragments in order and nothing else (spec 8.3, 8.5). *)
DeliveredIntact ==
    \A i \in OkRecvs : \E m \in DOMAIN sends :
        /\ recvs[i].got = FragsOf(m)
        /\ recvs[i].br = sends[m].len

(* Every piece copied into a receive buffer lands at the offset it has in  *)
(* the message it came from, so a returned buffer never has bytes shifted, *)
(* skipped or repeated (wait_data's cnt check, spec 8.5).                 *)
PiecesInPlace ==
    /\ \A i \in DOMAIN app.got : app.got[i].off = (i - 1) * MaxPayload
    /\ \A r \in OkRecvs : \A i \in DOMAIN recvs[r].got :
          recvs[r].got[i].off = (i - 1) * MaxPayload

(* No message is returned by recv_data twice, however often the sender     *)
(* retransmits its final fragment (spec 8.4; rx_process_data trailer rule). *)
AtMostOnce ==
    \A i, j \in OkRecvs :
        i # j => recvs[i].got[1].msg # recvs[j].got[1].msg

(* The sender moves past a fragment (and send_data returns SDTL_OK) only     *)
(* after the receiver has copied that fragment: wait_ack's GOT_PKT answers  *)
(* are never taken for a fragment they do not acknowledge.                  *)
AckedImpliesCopied ==
    /\ \A m \in DOMAIN sends :
          sends[m].rv = "OK" => \A i \in DOMAIN FragsOf(m) : FragsOf(m)[i] \in Copied
    /\ txPc = "wait_ack" =>
          \A i \in DOMAIN FragsOf(tx.msg) :
              FragsOf(tx.msg)[i].off < tx.off => FragsOf(tx.msg)[i] \in Copied

(* Every send_data call returns: the retry loop ends on an answer.         *)
SendReturns == (txPc = "wait_ack") ~> (txPc = "idle")

(* Refinement: under the run's conditions the channel is the at-least-once,  *)
(* in-order channel of SdtlChannel.  A send_data call is message Len(sends); *)
(* its outcome is its rv, every error code counting as ERR; a recv_data call *)
(* that returns SDTL_OK delivers the message its first piece comes from,   *)
(* from the step that copies and ACKs the LAST fragment (the exit steps     *)
(* after it cannot change the result).                                     *)
OutcomeOf(rv) == CASE rv = "PENDING" -> "PENDING" [] rv = "OK" -> "OK" [] OTHER -> "ERR"

OkRecvSeq ==
    SelectSeq(recvs, LAMBDA r : r.rv = "OK")
    \o (IF appPc = "finish" /\ app.rv = "OK" THEN <<app>> ELSE <<>>)

Channel == INSTANCE SdtlChannel
             WITH msgs      <- Len(sends),
                  busy      <- txPc = "wait_ack",
                  outcome   <- [m \in DOMAIN sends |-> OutcomeOf(sends[m].rv)],
                  delivered <- [i \in DOMAIN OkRecvSeq |-> OkRecvSeq[i].got[1].msg]

(* send_data, recv_data and the RX threads together implement SdtlChannel:  *)
(* recv_data returns messages only after their send began and never an      *)
(* older one after a newer one, send_data returns OK only for a message     *)
(* recv_data has returned, and every send_data call returns.               *)
ChannelSpec == Channel!Spec

(* The safety part of the same refinement, for runs where B arms its RX     *)
(* timeout or passes a short buffer (so send_data need not return): even   *)
(* then recv_data returns only sent messages, in order, and send_data       *)
(* returns OK only for a message recv_data has returned.                    *)
ChannelSafe == Channel!Init /\ [][Channel!Next]_Channel!avars

=============================================================================
