----------------------------- MODULE SdtlChannel -----------------------------
(***************************************************************************)
(* What one reliable SDTL channel promises its two applications, stated   *)
(* without frames, fragments, FIFOs or timers.  A sender makes one         *)
(* send_data call at a time; a receiver's recv_data calls return messages. *)
(*                                                                         *)
(*  - A message is returned by recv_data only after its send_data call     *)
(*    has begun, and messages are returned in the order they were sent.    *)
(*  - send_data returns OK only for a message that has been returned to    *)
(*    the receiver; it may instead end with an error (CANCELED,            *)
(*    NO_CLIENT, a FIFO underrun) whether or not the message arrived.      *)
(*  - A send_data call in progress eventually returns.                     *)
(*                                                                         *)
(* The same message may be returned more than once: the replay filter of  *)
(* rx_process_data does not rule that out (see the stale_dispatch run),    *)
(* so this is the at-least-once, in-order channel the code provides, not   *)
(* the at-most-once one spec 8.4 asks for.                                 *)
(***************************************************************************)
EXTENDS Naturals, Sequences, SequencesExt

VARIABLES
    msgs,       \* send_data calls begun; message m is the m-th
    busy,       \* a send_data call is in progress (it is message msgs)
    outcome,    \* outcome[m] \in {"PENDING", "OK", "ERR"}
    delivered   \* the messages recv_data returned with OK, in return order

avars == <<msgs, busy, outcome, delivered>>

Init ==
    /\ msgs = 0 /\ busy = FALSE
    /\ outcome = <<>> /\ delivered = <<>>

Send ==
    /\ ~busy
    /\ msgs' = msgs + 1
    /\ busy' = TRUE
    /\ outcome' = Append(outcome, "PENDING")
    /\ UNCHANGED delivered

ReturnOk ==
    /\ busy
    /\ msgs \in ToSet(delivered)
    /\ busy' = FALSE
    /\ outcome' = [outcome EXCEPT ![msgs] = "OK"]
    /\ UNCHANGED <<msgs, delivered>>

ReturnErr ==
    /\ busy
    /\ busy' = FALSE
    /\ outcome' = [outcome EXCEPT ![msgs] = "ERR"]
    /\ UNCHANGED <<msgs, delivered>>

Deliver ==
    /\ \E m \in 1..msgs :
         /\ delivered = <<>> \/ Last(delivered) <= m
         /\ delivered' = Append(delivered, m)
    /\ UNCHANGED <<msgs, busy, outcome>>

Next == Send \/ ReturnOk \/ ReturnErr \/ Deliver

Spec == Init /\ [][Next]_avars /\ WF_avars(ReturnOk \/ ReturnErr)

=============================================================================
