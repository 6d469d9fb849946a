----------------------------- MODULE SdtlService -----------------------------
(***************************************************************************)
(* The SDTL service layer of one process (src/src/lib/services/sdtl/       *)
(* sdtl.c): the process-wide registry sdtl_srv_reg, each service's         *)
(* lifecycle (sdtl_service_init / _start / _stop), its channel table       *)
(* (sdtl_channel_create, the channel_handles the start loop opens), its RX *)
(* thread's validation and channel resolution of every frame               *)
(* (sdtl_got_frame_handler), and the EQRB driver's connect, which finds a  *)
(* service by name and opens a channel on it.                              *)
(*                                                                         *)
(* Each service is driven by its own control thread; with SerialSetup the  *)
(* control calls of different services never overlap (as in the tests).   *)
(* A channel is named by its id.  Failures of media open, channel open and *)
(* pthread_create are nondeterministic outcomes of a start.                *)
(***************************************************************************)
EXTENDS Naturals, Sequences, SequencesExt, FiniteSets

CONSTANTS
    Services,     \* service names (one service object per name)
    NoSvc,        \* a NULL registry slot
    RegSize,      \* SDTL_SERVICE_REG_RECORDS_MAX
    ChIds,        \* channel ids (and names) the applications configure
    MaxChannels,  \* max_channels_num given to sdtl_service_init
    SerialSetup,  \* control calls of different services never overlap
    MaxCalls,     \* bound: lifecycle calls
    MaxConns,     \* bound: EQRB connect calls
    MaxFrames     \* bound: frames the RX threads dispatch

ASSUME /\ NoSvc \notin Services /\ RegSize \in Nat \ {0}
       /\ SerialSetup \in BOOLEAN /\ 0 \notin ChIds

Unknown == 0   \* a ch_id no channel of the service has

VARIABLES
    phase,    \* [s -> "none" | "inited" | "started" | "stopped"]
    chans,    \* [s -> channels[0 .. channels_num-1] as a sequence of ids]
    opened,   \* [s -> how many leading channel_handles[] are non-NULL]
    rx,       \* [s -> "none" | "running" | "exited"]: the RX thread
    reg,      \* sdtl_srv_reg[1..RegSize]
    pc,       \* [s -> "idle" | "reg_scan" | "reg_write" | "reg_del"]: inside
              \* srv_reg_add, or sdtl_service_stop before srv_reg_delete
    slot,     \* [s -> the free slot srv_reg_add's scan found]
    calls,    \* lifecycle calls made
    frames,   \* frames dispatched
    rxFault,  \* an RX thread dereferenced a NULL channel handle
    conns     \* history of EQRB connects: [svc, ch, rv, up]

vars == <<phase, chans, opened, rx, reg, pc, slot, calls, frames, rxFault, conns>>

Registered(s) == \E i \in 1..RegSize : reg[i] = s

(* The control thread of s may enter a call.                               *)
CtlFree(s) ==
    /\ pc[s] = "idle" /\ calls < MaxCalls
    /\ SerialSetup => \A t \in Services : pc[t] = "idle"

-----------------------------------------------------------------------------
(* sdtl_service_init of a fresh name: the lookup finds nothing and a new   *)
(* object with an empty channel table is made.  A registered name returns  *)
(* SDTL_SERVICE_EXIST and changes nothing.  Each name is inited once: a   *)
(* second init of an unregistered name depends on eswb_mkdir of an         *)
(* existing directory, which is outside src/.                              *)
sdtl_service_init(s) ==
    /\ CtlFree(s)
    /\ phase[s] = "none" /\ ~Registered(s)
    /\ phase' = [phase EXCEPT ![s] = "inited"]
    /\ calls' = calls + 1
    /\ UNCHANGED <<chans, opened, rx, reg, pc, slot, frames, rxFault, conns>>

(* sdtl_channel_create: SDTL_CH_EXIST for a known id, SDTL_NO_MEM when the *)
(* table is full, otherwise the channel is appended (channels_num++).      *)
(* Channels are created while the service is not running (spec 3).         *)
sdtl_channel_create(s, c) ==
    /\ CtlFree(s)
    /\ phase[s] \in {"inited", "stopped"}
    /\ calls' = calls + 1
    /\ IF c \notin ToSet(chans[s]) /\ Len(chans[s]) < MaxChannels
         THEN chans' = [chans EXCEPT ![s] = Append(@, c)]
         ELSE UNCHANGED chans
    /\ UNCHANGED <<phase, opened, rx, reg, pc, slot, frames, rxFault, conns>>

(* Mutant: the start loop runs one channel past channels_num.              *)
OpenedPastEnd(s, k) == k + 1

(* Mutant: the start loop stops one channel short.                         *)
OpenedShort(s, k) == IF k > 0 THEN k - 1 ELSE 0

(* channel_handles[] after the start loop opened the first k channels:     *)
(* handles a previous start set stay in place.                            *)
OpenedAfter(s, k) == IF k > opened[s] THEN k ELSE opened[s]

(* sdtl_service_start up to srv_reg_add: media open, channel_open of every *)
(* channel into channel_handles[i] (the loop returns at the first failure, *)
(* leaving the media open), pthread_create of the RX thread.               *)
sdtl_service_start(s) ==
    /\ CtlFree(s)
    /\ phase[s] \in {"inited", "stopped"}
    /\ calls' = calls + 1
    /\ \/ UNCHANGED <<phase, opened, rx, pc>>                        \* media open failed
       \/ \E k \in 0..(Len(chans[s]) - 1) :                          \* channel k+1 failed
            /\ opened' = [opened EXCEPT ![s] = OpenedAfter(s, k)]
            /\ UNCHANGED <<phase, rx, pc>>
       \/ /\ opened' = [opened EXCEPT ![s] = OpenedAfter(s, Len(chans[s]))]
          /\ \/ UNCHANGED <<phase, rx, pc>>                          \* pthread_create failed
             \/ /\ rx' = [rx EXCEPT ![s] = "running"]
                /\ phase' = [phase EXCEPT ![s] = "started"]
                /\ pc' = [pc EXCEPT ![s] = "reg_scan"]
    /\ UNCHANGED <<chans, reg, slot, frames, rxFault, conns>>

(* srv_reg_add, the scan for a NULL slot.  A full registry ends the scan   *)
(* with nothing written and sdtl_service_start still returns SDTL_OK.      *)
RegScan(s) ==
    /\ pc[s] = "reg_scan"
    /\ LET free == {i \in 1..RegSize : reg[i] = NoSvc} IN
         IF free = {}
         THEN pc' = [pc EXCEPT ![s] = "idle"] /\ UNCHANGED slot
         ELSE /\ slot' = [slot EXCEPT ![s] = CHOOSE i \in free : \A j \in free : i <= j]
              /\ pc' = [pc EXCEPT ![s] = "reg_write"]
    /\ UNCHANGED <<phase, chans, opened, rx, reg, calls, frames, rxFault, conns>>

(* srv_reg_add, the write into the slot the scan found; start returns OK.  *)
RegWrite(s) ==
    /\ pc[s] = "reg_write"
    /\ reg' = [reg EXCEPT ![slot[s]] = s]
    /\ pc' = [pc EXCEPT ![s] = "idle"]
    /\ UNCHANGED <<phase, chans, opened, rx, slot, calls, frames, rxFault, conns>>

(* srv_reg_delete: the registry with the first slot holding s cleared.    *)
srv_reg_delete(s) ==
    IF Registered(s)
    THEN LET i == CHOOSE i \in 1..RegSize : reg[i] = s /\ \A j \in 1..(i - 1) : reg[j] # s
         IN [reg EXCEPT ![i] = NoSvc]
    ELSE reg

(* sdtl_service_stop up to srv_reg_delete: pthread_cancel and pthread_join *)
(* of the RX thread, sdtl_channel_close of every handle (eswb_disconnect   *)
(* is unsupported and its error ignored, so the handles stay set).         *)
sdtl_service_stop(s) ==
    /\ CtlFree(s)
    /\ phase[s] = "started"
    /\ calls' = calls + 1
    /\ rx' = [rx EXCEPT ![s] = "none"]
    /\ pc' = [pc EXCEPT ![s] = "reg_del"]
    /\ UNCHANGED <<phase, chans, opened, reg, slot, frames, rxFault, conns>>

(* The last step of sdtl_service_stop: srv_reg_delete; stop returns OK.    *)
RegDelete(s) ==
    /\ pc[s] = "reg_del"
    /\ reg' = srv_reg_delete(s)
    /\ phase' = [phase EXCEPT ![s] = "stopped"]
    /\ pc' = [pc EXCEPT ![s] = "idle"]
    /\ UNCHANGED <<chans, opened, rx, slot, calls, frames, rxFault, conns>>

-----------------------------------------------------------------------------
(* The RX thread of s.                                                     *)

(* resolve_channel_handle_by_id scans channel_handles[0 .. channels_num-1] *)
(* and reads ->channel->cfg.id of each until one matches: the scan reaches *)
(* entry min(match, channels_num).                                         *)
ScanReach(s, c) ==
    IF c \in ToSet(chans[s])
    THEN CHOOSE i \in DOMAIN chans[s] : chans[s][i] = c
    ELSE Len(chans[s])

(* validate_base_header: a DATA, ACK or CMD frame whose length matches its *)
(* header (DATA: payload_size + header, ACK and CMD: the header alone) is  *)
(* SDTL_OK; a mismatch is NON_CONSIST_FRM_LEN, any other type              *)
(* INVALID_FRAME_TYPE.                                                     *)
FrameTypes == {"DATA", "ACK", "CMD", "OTHER"}

validate_base_header(type, lenFits) == type \in {"DATA", "ACK", "CMD"} /\ lenFits

(* One frame: validate_base_header drops a frame whose length does not fit *)
(* its type; a valid frame's channel is resolved, and a NULL handle on the *)
(* way is dereferenced.  rx_process_* of the resolved channel is modelled  *)
(* in SdtlReliable, SdtlOob and EqrbSdtl.                                  *)
sdtl_got_frame_handler(s) ==
    /\ rx[s] = "running" /\ frames < MaxFrames
    /\ frames' = frames + 1
    /\ \E c \in ChIds \cup {Unknown}, type \in FrameTypes, lenFits \in BOOLEAN :
         rxFault' = (rxFault \/ (validate_base_header(type, lenFits) /\ ScanReach(s, c) > opened[s]))
    /\ UNCHANGED <<phase, chans, opened, rx, reg, pc, slot, calls, conns>>

(* media->read returned an error or MEDIA_EOF: the RX loop ends.           *)
RxMediaEof(s) ==
    /\ rx[s] = "running"
    /\ rx' = [rx EXCEPT ![s] = "exited"]
    /\ UNCHANGED <<phase, chans, opened, reg, pc, slot, calls, frames, rxFault, conns>>

-----------------------------------------------------------------------------
(* sdtl_channel_open as a connect meets it: SDTL_NO_SERVICE for the NULL a *)
(* failed lookup gives, SDTL_NO_CHANNEL_LOCAL for a name the table lacks.  *)
(* Its allocation and eswb failures are left out of connect.               *)
sdtl_channel_open_ok(found, s, c) == found /\ c \in ToSet(chans[s])

(* eqrb_drv_sdtl_connect: sdtl_service_lookup, then sdtl_channel_open,     *)
(* which fails with SDTL_NO_SERVICE on NULL and SDTL_NO_CHANNEL_LOCAL for  *)
(* an unknown name.  up records whether s had returned from a successful   *)
(* start, not yet stopped, and has the channel.                            *)
eqrb_drv_sdtl_connect(s, c) ==
    /\ Len(conns) < MaxConns
    /\ LET ok == sdtl_channel_open_ok(Registered(s), s, c)
           up == phase[s] = "started" /\ pc[s] = "idle" /\ c \in ToSet(chans[s])
       IN conns' = Append(conns, [svc |-> s, ch |-> c, rv |-> IF ok THEN "ok" ELSE "media_err",
                                  up |-> up])
    /\ UNCHANGED <<phase, chans, opened, rx, reg, pc, slot, calls, frames, rxFault>>

-----------------------------------------------------------------------------

Init ==
    /\ phase = [s \in Services |-> "none"]
    /\ chans = [s \in Services |-> <<>>]
    /\ opened = [s \in Services |-> 0]
    /\ rx = [s \in Services |-> "none"]
    /\ reg = [i \in 1..RegSize |-> NoSvc]
    /\ pc = [s \in Services |-> "idle"]
    /\ slot = [s \in Services |-> 1]
    /\ calls = 0 /\ frames = 0 /\ rxFault = FALSE /\ conns = <<>>

Next ==
    \/ \E s \in Services :
         \/ sdtl_service_init(s) \/ sdtl_service_start(s) \/ RegScan(s) \/ RegWrite(s)
         \/ sdtl_service_stop(s) \/ RegDelete(s) \/ sdtl_got_frame_handler(s) \/ RxMediaEof(s)
         \/ \E c \in ChIds : sdtl_channel_create(s, c) \/ eqrb_drv_sdtl_connect(s, c)

Spec == Init /\ [][Next]_vars

-----------------------------------------------------------------------------
(* Properties *)

TypeOK ==
    /\ phase \in [Services -> {"none", "inited", "started", "stopped"}]
    /\ chans \in [Services -> Seq(ChIds)]
    /\ \A s \in Services : opened[s] \in 0..Len(chans[s])
    /\ rx \in [Services -> {"none", "running", "exited"}]
    /\ reg \in [1..RegSize -> Services \cup {NoSvc}]
    /\ pc \in [Services -> {"idle", "reg_scan", "reg_write", "reg_del"}]
    /\ slot \in [Services -> 1..RegSize]

(* The RX thread never follows a NULL channel handle: every channel the    *)
(* table holds while the thread runs was opened by the start loop, across  *)
(* failed starts, restarts and channels created between stop and start.   *)
DispatchResolves == ~rxFault

(* An EQRB connect to a service whose sdtl_service_start returned SDTL_OK, *)
(* not stopped since, finds it in the registry and opens the channel: a   *)
(* started service is never missing from sdtl_srv_reg.  The code breaks   *)
(* it (README, Also seen): overlapping srv_reg_add calls overwrite a slot  *)
(* (the FIXME at line 1037), and a fifth service is silently not added.   *)
ConnectToStarted ==
    \A i \in DOMAIN conns : conns[i].up => conns[i].rv = "ok"

=============================================================================
