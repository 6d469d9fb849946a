--------------------------- MODULE SdtlUnreliable ---------------------------
(***************************************************************************)
(* One UNRELIABLE SDTL channel, data from peer A to peer B                 *)
(* (src/src/lib/services/sdtl/sdtl.c, the rel == 0 paths).                 *)
(*                                                                         *)
(*  - A's application thread runs channel_send_data: one DATA frame per    *)
(*    fragment, no ACK wait, no retry, no condition check.                 *)
(*  - B's RX thread (sdtl_got_frame_handler) treats the channel as always  *)
(*    in WAIT_DATA and pushes every DATA frame onto data_fifo.             *)
(*  - B's application thread runs channel_recv_data: no state record, no   *)
(*    flush; it pops and classifies entries (wait_data), copies accepted   *)
(*    fragments, and on a missed fragment starts over (RESET_SEQ).         *)
(*                                                                         *)
(* The medium is in order and loses whole frames.  Payload bytes are      *)
(* abstracted to <<message, offset, size>>; the seq_code of a message is   *)
(* its number (generate_seq_code collisions are SdtlReliable's subject).   *)
(***************************************************************************)
EXTENDS Integers, Sequences, SequencesExt

CONSTANTS
    MsgLens,        \* lengths A's application passes to send_data (> 0)
    MaxPayload,     \* channel->max_payload_size
    RecvBufSizes,   \* buffer lengths B's application passes to recv_data
    FifoSize,       \* FIFO_SIZE of data_fifo
    MaxSends,       \* bound: send_data calls of A
    MaxRecvs,       \* bound: recv_data calls of B
    MaxLoss,        \* bound: frames destroyed on the medium
    MaxSeqGarbage   \* bound: LAST frames the uninitialised seq compare swallows

ASSUME /\ MsgLens \subseteq Nat \ {0} /\ MaxPayload \in Nat \ {0}
       /\ RecvBufSizes \subseteq Nat /\ FifoSize \in Nat \ {0}

VARIABLES
    wire,         \* DATA frames A -> B, in order
    losses,       \* frames destroyed so far
    garbage,      \* LAST frames dropped by the uninitialised-seq compare so far
    txPc,         \* A's sender: "idle" | "sending"
    tx,           \* A's sender locals: the fragment just sent
    sends,        \* history of send_data calls: [len, rv]
    dataFifo,     \* B's data_fifo
    dataOverrun,  \* B's data_fifo reader was overrun by its writer
    appPc,        \* B's receiver: "idle" | "wait" | "finish"
    app,          \* B's receiver locals: s, l, offset, prev_pkt_num, got, rv
    recvs         \* history of recv_data calls: [rv, got, br]

vars == <<wire, losses, garbage, txPc, tx, sends, dataFifo, dataOverrun, appPc, app, recvs>>

NoTx   == [msg |-> 0, cnt |-> 0, flags |-> {}, l |-> 0, off |-> 0, dsize |-> 0]
NoRecv == [s |-> 0, l |-> 0, offset |-> 0, prev |-> -1, got |-> <<>>, rv |-> "NONE"]

MinOf(a, b) == IF a < b THEN a ELSE b

(* send_data: the DATA frame of the sender's current fragment.            *)
DataFrame(t) ==
    [seq |-> t.msg, cnt |-> t.cnt, flags |-> t.flags, size |-> t.dsize,
     msg |-> t.msg, off |-> t.off]

(* dsize = my_min(max_payload_size, l) and the LAST flag when it is l.     *)
NextFragment(t) ==
    LET d == MinOf(MaxPayload, t.l)
    IN [t EXCEPT !.dsize = d, !.flags = IF d = t.l THEN @ \cup {"LAST"} ELSE @]

(* eswb FIFO push: a full FIFO drops its oldest entry and the reader sees  *)
(* an underrun on its next pop.                                            *)
FifoPush(q, e) == IF Len(q) < FifoSize THEN Append(q, e) ELSE Append(Tail(q), e)

-----------------------------------------------------------------------------
(* A: channel_send_data (rel = 0) *)

(* The fragment t is written; after the LAST one send_data returns its rv, *)
(* SDTL_OK (media write errors are not modelled).                          *)
Emit(t) ==
    /\ wire' = Append(wire, DataFrame(t))
    /\ IF "LAST" \in t.flags
         THEN txPc' = "idle" /\ tx' = NoTx
              /\ sends' = [sends EXCEPT ![Len(sends)].rv = "OK"]
         ELSE txPc' = "sending" /\ tx' = t /\ UNCHANGED sends

SendData ==
    /\ txPc = "idle"
    /\ Len(sends) < MaxSends
    /\ \E len \in MsgLens :
         LET t == NextFragment([NoTx EXCEPT !.msg = Len(sends) + 1,
                                           !.flags = {"FIRST"}, !.l = len])
         IN /\ sends' = Append(sends, [len |-> len,
                                       rv |-> IF "LAST" \in t.flags THEN "OK" ELSE "PENDING"])
            /\ wire' = Append(wire, DataFrame(t))
            /\ IF "LAST" \in t.flags THEN txPc' = "idle" /\ tx' = NoTx
                                     ELSE txPc' = "sending" /\ tx' = t
    /\ UNCHANGED <<losses, garbage, dataFifo, dataOverrun, appPc, app, recvs>>

(* Next loop iteration: FIRST cleared, pktn_in_seq++, l and offset moved. *)
SendNext ==
    /\ txPc = "sending"
    /\ Emit(NextFragment([tx EXCEPT !.cnt = @ + 1, !.flags = @ \ {"FIRST"},
                                    !.l = @ - tx.dsize, !.off = @ + tx.dsize]))
    /\ UNCHANGED <<losses, garbage, dataFifo, dataOverrun, appPc, app, recvs>>

-----------------------------------------------------------------------------
(* B's RX thread: sdtl_got_frame_handler with rel = 0 gives rx_process_data *)
(* a local state whose rx_state is WAIT_DATA and whose last_received_seq   *)
(* is never written.  A LAST frame whose seq_code equals that value is     *)
(* answered with an ACK and not pushed; any other frame is pushed.         *)
RxData ==
    /\ wire # <<>>
    /\ wire' = Tail(wire)
    /\ LET f == Head(wire) IN
         \/ /\ dataFifo' = FifoPush(dataFifo, f)
            /\ dataOverrun' = (dataOverrun \/ Len(dataFifo) = FifoSize)
            /\ UNCHANGED garbage
         \/ /\ "LAST" \in f.flags /\ garbage < MaxSeqGarbage
            /\ garbage' = garbage + 1
            /\ UNCHANGED <<dataFifo, dataOverrun>>
    /\ UNCHANGED <<losses, txPc, tx, sends, appPc, app, recvs>>

-----------------------------------------------------------------------------
(* B: channel_recv_data (rel = 0) *)

(* wait_data: classification of a popped entry against prev_pkt_num.       *)
Classify(e, a) ==
    IF a.prev # -1
    THEN LET dc == (e.cnt - (a.prev % 256)) % 256 IN
         CASE dc > 1 -> "OK_MISSED_PKT_IN_SEQ"
           [] dc = 0 -> "OK_REPEATED"
           [] OTHER  -> IF a.l < e.size THEN "RX_BUF_SMALL" ELSE "OK"
    ELSE IF "FIRST" \in e.flags THEN "OK_FIRST_PACKET" ELSE "OK_OMIT"

(* Entry: l = s, offset = 0, prev_pkt_num = -1; nothing else for rel = 0.  *)
RecvData ==
    /\ appPc = "idle"
    /\ Len(recvs) < MaxRecvs
    /\ \E s \in RecvBufSizes : app' = [NoRecv EXCEPT !.s = s, !.l = s]
    /\ appPc' = "wait"
    /\ UNCHANGED <<wire, losses, garbage, txPc, tx, sends, dataFifo, dataOverrun, recvs>>

(* One loop iteration on a popped entry.  sequence_started is set exactly  *)
(* when prev_pkt_num # -1, so it is not kept apart.                        *)
RecvPop ==
    /\ appPc = "wait"
    /\ dataFifo # <<>> /\ ~dataOverrun
    /\ dataFifo' = Tail(dataFifo)
    /\ LET e  == Head(dataFifo)
           rv == Classify(e, app)
           copied == [app EXCEPT !.prev = IF rv = "OK" THEN @ + 1 ELSE 0,
                                 !.offset = @ + e.size, !.l = @ - e.size,
                                 !.got = Append(@, [msg |-> e.msg, off |-> e.off, size |-> e.size])]
       IN \/ /\ rv = "RX_BUF_SMALL"
             /\ app' = [app EXCEPT !.rv = rv] /\ appPc' = "finish"
          \/ /\ rv \in {"OK_REPEATED", "OK_OMIT"}
             /\ UNCHANGED <<app, appPc>>
          \/ /\ rv = "OK_MISSED_PKT_IN_SEQ"                \* RESET_SEQ()
             /\ app' = [app EXCEPT !.l = app.s, !.offset = 0, !.prev = -1, !.got = <<>>]
             /\ UNCHANGED appPc
          \/ /\ rv \in {"OK", "OK_FIRST_PACKET"}
             /\ IF "LAST" \in e.flags
                  THEN app' = [copied EXCEPT !.rv = "OK"] /\ appPc' = "finish"
                  ELSE app' = copied /\ UNCHANGED appPc
    /\ UNCHANGED <<wire, losses, garbage, txPc, tx, sends, dataOverrun, recvs>>

(* eswb_fifo_pop reported an underrun: SDTL_RX_FIFO_OVERFLOW.              *)
RecvUnderrun ==
    /\ appPc = "wait"
    /\ dataOverrun
    /\ dataOverrun' = FALSE
    /\ app' = [app EXCEPT !.rv = "RX_FIFO_OVERFLOW"]
    /\ appPc' = "finish"
    /\ UNCHANGED <<wire, losses, garbage, txPc, tx, sends, dataFifo, recvs>>

(* Exit: armed timeout cleared, *br = offset only on SDTL_OK.              *)
RecvFinish ==
    /\ appPc = "finish"
    /\ recvs' = Append(recvs, [rv |-> app.rv, got |-> app.got,
                               br |-> IF app.rv = "OK" THEN app.offset ELSE -1])
    /\ app' = NoRecv
    /\ appPc' = "idle"
    /\ UNCHANGED <<wire, losses, garbage, txPc, tx, sends, dataFifo, dataOverrun>>

(* A frame is damaged on the line and the framer discards it.             *)
LoseFrame ==
    /\ losses < MaxLoss /\ wire # <<>>
    /\ wire' = Tail(wire)
    /\ losses' = losses + 1
    /\ UNCHANGED <<garbage, txPc, tx, sends, dataFifo, dataOverrun, appPc, app, recvs>>

-----------------------------------------------------------------------------

Init ==
    /\ wire = <<>> /\ losses = 0 /\ garbage = 0
    /\ txPc = "idle" /\ tx = NoTx /\ sends = <<>>
    /\ dataFifo = <<>> /\ dataOverrun = FALSE
    /\ appPc = "idle" /\ app = NoRecv /\ recvs = <<>>

Next ==
    \/ SendData \/ SendNext \/ RxData
    \/ RecvData \/ RecvPop \/ RecvUnderrun \/ RecvFinish
    \/ LoseFrame

Spec == Init /\ [][Next]_vars

-----------------------------------------------------------------------------
(* Properties *)

(* The pieces g are the whole of message m, each at its own offset.        *)
WholeMessage(g, m) ==
    /\ g # <<>>
    /\ \A k \in DOMAIN g : g[k].msg = m
    /\ g[1].off = 0
    /\ \A k \in 1..(Len(g) - 1) : g[k + 1].off = g[k].off + g[k].size
    /\ g[Len(g)].off + g[Len(g)].size = sends[m].len

(* An unreliable recv_data that returns SDTL_OK returns one whole message  *)
(* of A (spec 1: SDTL delivers the whole message; 4.5: after a missed      *)
(* fragment an unreliable receiver waits for the next FIRST_PKT): the      *)
(* fragments wait_data accepts never mix two of A's send_data calls.      *)
UnrelIntact ==
    \A i \in DOMAIN recvs :
        recvs[i].rv = "OK" => \E m \in DOMAIN sends : WholeMessage(recvs[i].got, m)

=============================================================================
