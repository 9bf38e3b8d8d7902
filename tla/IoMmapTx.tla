------------------------------ MODULE IoMmapTx ------------------------------
(***************************************************************************)
(* The PACKET_MMAP transmit path of one interface                          *)
(* (src/code/bngblaster/src/io/io_packet_mmap.c): the main-loop job        *)
(* io_packet_mmap_tx_job, or, when the interface has a TX thread, the      *)
(* loop of io_packet_mmap_thread_tx_run_fn.  Both fill the kernel TX ring  *)
(* from the cursor slot, control traffic first and streams after, and     *)
(* then notify the kernel with one zero-length sendto.                     *)
(*                                                                         *)
(* One burst iteration is one step (pc = "burst"), so the kernel and, for  *)
(* the TX thread, the main loop queueing control packets into the thread   *)
(* TXQ interleave with the loop.  The kernel side follows Linux's          *)
(* tpacket_snd: on a sendto it takes the SEND_REQUEST frames from its own  *)
(* head in ring order, stopping at the first frame of another status; an   *)
(* error may end the call after a prefix.  A taken frame is SENDING until  *)
(* its skb is freed and the slot is AVAILABLE again.  poll() does not      *)
(* transmit.                                                               *)
(*                                                                         *)
(* Frames are numbered in the order they are written into the ring; the    *)
(* packet bytes are abstracted to that number.                             *)
(***************************************************************************)
EXTENDS Naturals, Sequences

CONSTANTS
    FrameNr,     \* io->req.tp_frame_nr
    IoBurst,     \* interface->config->io_burst
    Modes,       \* possible values of threaded: io->thread != NULL
    MaxCtrl,     \* control packets produced in a behaviour (model bound)
    MaxStream    \* stream packets that become due in a behaviour (model bound)

ASSUME FrameNr \in Nat \ {0} /\ IoBurst \in Nat \ {0} /\ Modes \subseteq BOOLEAN
ASSUME MaxCtrl \in Nat /\ MaxStream \in Nat

Slots == 0..FrameNr-1

VARIABLES
    pc,           \* "idle" between jobs / loop iterations, "burst", "notify"
    burst,        \* remaining burst of the current job
    ctrl,         \* still in the control-traffic part of the burst
    status,       \* tp_status of each ring frame
    frame,        \* number of the frame held by each slot
    cursor,       \* io->cursor
    queued,       \* io->queued
    khead,        \* the kernel's TX ring head
    ctrl_q,       \* control packets waiting in bbl_tx's queue or the TXQ
    stream_due,   \* stream packets bbl_stream_io_send_iter would return
    traffic_on,   \* g_traffic && !g_init_phase && interface UP
    produced,     \* frames written into the ring so far
    ctrl_made,    \* control packets produced so far
    stream_made,  \* stream packets made due so far
    wire,         \* frame numbers the kernel took, in order
    threaded      \* the interface has a TX thread (io->thread != NULL)

io_vars == <<pc, burst, ctrl, status, frame, cursor, queued, khead, ctrl_q,
             stream_due, traffic_on, produced, ctrl_made, stream_made, wire,
             threaded>>

env_vars == <<ctrl_made, stream_made, threaded>>

(* A cursor advance without the wrap (mutant).                             *)
NextCursorNoWrap(c) == c + 1

(* io->cursor = (io->cursor + 1) % io->req.tp_frame_nr                     *)
NextCursor(c) == (c + 1) % FrameNr

(* A burst that writes without checking the slot status (mutant).          *)
SlotFreeUnchecked == TRUE

(* tphdr->tp_status == TP_STATUS_AVAILABLE for the cursor slot.            *)
SlotFree == status[cursor] = "AVAILABLE"

(* Writing the next frame into the cursor slot: tp_len, SEND_REQUEST,      *)
(* io->queued++, burst--, cursor advance.                                  *)
WriteFrame ==
    /\ status' = [status EXCEPT ![cursor] = "SEND_REQUEST"]
    /\ frame' = [frame EXCEPT ![cursor] = produced + 1]
    /\ produced' = produced + 1
    /\ queued' = queued + 1
    /\ burst' = burst - 1
    /\ cursor' = NextCursor(cursor)

-----------------------------------------------------------------------------
(* Start of a job (main loop) or of a loop iteration (thread).             *)

(* The cursor slot is free: open a burst of io_burst, control first.      *)
BurstStart ==
    /\ pc = "idle" /\ SlotFree
    /\ pc' = "burst" /\ burst' = IoBurst /\ ctrl' = TRUE
    /\ UNCHANGED <<status, frame, cursor, queued, khead, ctrl_q, stream_due,
                   traffic_on, produced, wire>>

(* The main-loop job skipping the notify when no slot is free (mutant).    *)
NoBufferMainSkipNotify ==
    /\ ~threaded /\ pc = "idle" /\ ~SlotFree
    /\ UNCHANGED <<pc, burst, ctrl, status, frame, cursor, queued, khead,
                   ctrl_q, stream_due, traffic_on, produced, wire>>

(* Main-loop job, no free slot: poll the kernel, count no_buffer, and go   *)
(* on to the notify.                                                       *)
NoBufferMain ==
    /\ ~threaded /\ pc = "idle" /\ ~SlotFree
    /\ pc' = "notify"
    /\ UNCHANGED <<burst, ctrl, status, frame, cursor, queued, khead, ctrl_q,
                   stream_due, traffic_on, produced, wire>>

(* TX thread, no free slot: count no_buffer, poll the kernel and continue  *)
(* with the next loop iteration, without a notify.                         *)
NoBufferThread ==
    /\ threaded /\ pc = "idle" /\ ~SlotFree
    /\ UNCHANGED <<pc, burst, ctrl, status, frame, cursor, queued, khead,
                   ctrl_q, stream_due, traffic_on, produced, wire>>

-----------------------------------------------------------------------------
(* One iteration of while(burst).                                          *)

(* The slot under the cursor is not free: count no_buffer, end the burst.  *)
BurstSlotBusy ==
    /\ pc = "burst" /\ burst > 0 /\ ~SlotFree
    /\ pc' = "notify"
    /\ UNCHANGED <<burst, ctrl, status, frame, cursor, queued, khead, ctrl_q,
                   stream_due, traffic_on, produced, wire>>

(* Control part: bbl_tx (main loop) or bbl_txq_read_slot (thread) yields a *)
(* control packet, which is copied into the slot.                          *)
BurstCtrl ==
    /\ pc = "burst" /\ burst > 0 /\ SlotFree /\ ctrl /\ ctrl_q > 0
    /\ WriteFrame
    /\ ctrl_q' = ctrl_q - 1
    /\ UNCHANGED <<pc, ctrl, khead, stream_due, traffic_on, wire>>

(* No control packet left: switch to streams and retry the same slot.      *)
BurstCtrlDone ==
    /\ pc = "burst" /\ burst > 0 /\ SlotFree /\ ctrl /\ ctrl_q = 0
    /\ ctrl' = FALSE
    /\ UNCHANGED <<pc, burst, status, frame, cursor, queued, khead, ctrl_q,
                   stream_due, traffic_on, produced, wire>>

(* Traffic stopped, init phase or interface down: bbl_stream_io_stop      *)
(* resets the streams of this IO and the burst ends.                       *)
BurstStop ==
    /\ pc = "burst" /\ burst > 0 /\ SlotFree /\ ~ctrl /\ ~traffic_on
    /\ pc' = "notify" /\ stream_due' = 0
    /\ UNCHANGED <<burst, ctrl, status, frame, cursor, queued, khead, ctrl_q,
                   traffic_on, produced, wire>>

(* bbl_stream_io_send_iter has no stream due: the burst ends.              *)
BurstNoStream ==
    /\ pc = "burst" /\ burst > 0 /\ SlotFree /\ ~ctrl /\ traffic_on
    /\ stream_due = 0
    /\ pc' = "notify"
    /\ UNCHANGED <<burst, ctrl, status, frame, cursor, queued, khead, ctrl_q,
                   stream_due, traffic_on, produced, wire>>

(* A due stream's packet is copied into the slot.                          *)
BurstStream ==
    /\ pc = "burst" /\ burst > 0 /\ SlotFree /\ ~ctrl /\ traffic_on
    /\ stream_due > 0
    /\ WriteFrame
    /\ stream_due' = stream_due - 1
    /\ UNCHANGED <<pc, ctrl, khead, ctrl_q, traffic_on, wire>>

(* The burst is used up.                                                   *)
BurstEnd ==
    /\ pc = "burst" /\ burst = 0
    /\ pc' = "notify"
    /\ UNCHANGED <<burst, ctrl, status, frame, cursor, queued, khead, ctrl_q,
                   stream_due, traffic_on, produced, wire>>

-----------------------------------------------------------------------------
(* The kernel notify after the burst, and the kernel itself.               *)

(* The number of SEND_REQUEST frames from the kernel head on, in ring      *)
(* order: what one sendto hands to the driver.                             *)
RECURSIVE ReqRun(_)
ReqRun(k) ==
    IF k < FrameNr /\ status[(khead + k) % FrameNr] = "SEND_REQUEST"
    THEN ReqRun(k + 1) ELSE k

(* tpacket_snd takes the first k SEND_REQUEST frames from its head.        *)
KernelTake(k) ==
    /\ status' = [i \in Slots |->
                    IF (i - khead + FrameNr) % FrameNr < k THEN "SENDING"
                    ELSE status[i]]
    /\ wire' = wire \o [j \in 1..k |-> frame[(khead + j - 1) % FrameNr]]
    /\ khead' = (khead + k) % FrameNr

(* Nothing was queued since the last successful notify.                   *)
NotifySkip ==
    /\ pc = "notify" /\ queued = 0
    /\ pc' = "idle"
    /\ UNCHANGED <<burst, ctrl, status, frame, cursor, queued, khead, ctrl_q,
                   stream_due, traffic_on, produced, wire>>

(* sendto succeeds: the kernel takes every requested frame; queued = 0.    *)
NotifyOK ==
    /\ pc = "notify" /\ queued > 0
    /\ KernelTake(ReqRun(0))
    /\ queued' = 0 /\ pc' = "idle"
    /\ UNCHANGED <<burst, ctrl, frame, cursor, ctrl_q, stream_due, traffic_on,
                   produced>>

(* A failed sendto that also clears queued (mutant).                       *)
NotifyFailClears ==
    /\ pc = "notify" /\ queued > 0
    /\ \E k \in {k \in 0..ReqRun(0) : k < ReqRun(0) \/ k = 0} : KernelTake(k)
    /\ queued' = 0 /\ pc' = "idle"
    /\ UNCHANGED <<burst, ctrl, frame, cursor, ctrl_q, stream_due, traffic_on,
                   produced>>

(* sendto fails, possibly after the kernel took a prefix of the frames:    *)
(* io_errors++, queued is kept for the next notify.                        *)
NotifyFail ==
    /\ pc = "notify" /\ queued > 0
    /\ \E k \in {k \in 0..ReqRun(0) : k < ReqRun(0) \/ k = 0} : KernelTake(k)
    /\ pc' = "idle"
    /\ UNCHANGED <<burst, ctrl, frame, cursor, queued, ctrl_q, stream_due,
                   traffic_on, produced>>

(* The driver is done with a frame; its slot is AVAILABLE again.           *)
KernelComplete(i) ==
    /\ status[i] = "SENDING"
    /\ status' = [status EXCEPT ![i] = "AVAILABLE"]
    /\ UNCHANGED <<pc, burst, ctrl, frame, cursor, queued, khead, ctrl_q,
                   stream_due, traffic_on, produced, wire>>

-----------------------------------------------------------------------------
(* Environment.  On the main loop, control packets, stream due times and   *)
(* the traffic flag change between jobs; a TX thread runs concurrently     *)
(* with the main loop that fills its TXQ and with the stream timers.       *)
EnvMayAct == threaded \/ pc = "idle"

CtrlArrive ==
    /\ EnvMayAct /\ ctrl_made < MaxCtrl
    /\ ctrl_q' = ctrl_q + 1 /\ ctrl_made' = ctrl_made + 1
    /\ UNCHANGED <<pc, burst, ctrl, status, frame, cursor, queued, khead,
                   stream_due, traffic_on, produced, stream_made, wire, threaded>>

StreamBecomesDue ==
    /\ EnvMayAct /\ stream_made < MaxStream
    /\ stream_due' = stream_due + 1 /\ stream_made' = stream_made + 1
    /\ UNCHANGED <<pc, burst, ctrl, status, frame, cursor, queued, khead,
                   ctrl_q, traffic_on, produced, ctrl_made, wire, threaded>>

TrafficToggle ==
    /\ EnvMayAct
    /\ traffic_on' = ~traffic_on
    /\ UNCHANGED <<pc, burst, ctrl, status, frame, cursor, queued, khead,
                   ctrl_q, stream_due, produced, ctrl_made, stream_made, wire, threaded>>

-----------------------------------------------------------------------------
IoTxInit ==
    /\ pc = "idle" /\ burst = 0 /\ ctrl = TRUE
    /\ status = [i \in Slots |-> "AVAILABLE"] /\ frame = [i \in Slots |-> 0]
    /\ cursor = 0 /\ queued = 0 /\ khead = 0
    /\ ctrl_q = 0 /\ stream_due = 0 /\ traffic_on \in BOOLEAN
    /\ produced = 0 /\ ctrl_made = 0 /\ stream_made = 0 /\ wire = << >>
    /\ threaded \in Modes

(* One step of the TX job or TX thread loop.                               *)
JobStep ==
    \/ BurstStart \/ NoBufferMain \/ NoBufferThread
    \/ BurstSlotBusy \/ BurstCtrl \/ BurstCtrlDone \/ BurstStop
    \/ BurstNoStream \/ BurstStream \/ BurstEnd
    \/ NotifySkip \/ NotifyOK \/ NotifyFail

IoTxJobNext == JobStep /\ UNCHANGED env_vars

IoTxNext ==
    \/ IoTxJobNext
    \/ \E i \in Slots : KernelComplete(i) /\ UNCHANGED env_vars
    \/ CtrlArrive \/ StreamBecomesDue \/ TrafficToggle

(* The job timer / thread loop runs forever, the driver completes every    *)
(* frame it took, and sendto does not fail forever.                        *)
IoTxFairness ==
    /\ WF_io_vars(IoTxJobNext)
    /\ SF_io_vars(NotifyOK /\ UNCHANGED env_vars)
    /\ \A i \in Slots : WF_io_vars(KernelComplete(i) /\ UNCHANGED env_vars)

IoTxSpec == IoTxInit /\ [][IoTxNext]_io_vars /\ IoTxFairness

-----------------------------------------------------------------------------
IoTxTypeOK ==
    /\ pc \in {"idle", "burst", "notify"} /\ burst \in 0..IoBurst
    /\ ctrl \in BOOLEAN
    /\ status \in [Slots -> {"AVAILABLE", "SEND_REQUEST", "SENDING"}]
    /\ frame \in [Slots -> 0..MaxCtrl + MaxStream]
    /\ cursor \in Slots /\ khead \in Slots
    /\ queued \in 0..MaxCtrl + MaxStream
    /\ ctrl_q \in 0..MaxCtrl /\ stream_due \in 0..MaxStream
    /\ traffic_on \in BOOLEAN /\ produced \in 0..MaxCtrl + MaxStream
    /\ wire \in Seq(1..MaxCtrl + MaxStream)
    /\ threaded \in BOOLEAN

(* Spec 4.C, io_packet_mmap_tx_job / _thread_tx_run_fn: a frame marked     *)
(* SEND_REQUEST always has a kernel notify pending (io->queued > 0), also  *)
(* after a sendto that failed part-way.                                    *)
NotifyPending ==
    (\E i \in Slots : status[i] = "SEND_REQUEST") => queued > 0

(* The abstract transmit FIFO, with the ring's frames as its packets:     *)
(* produced counts the frames accepted, wire is its output.                *)
Fifo == INSTANCE TxFifo WITH Capacity <- FrameNr, accepted <- produced,
                              out <- wire

(* Spec 4.C and 8.8: the ring implements the FIFO.  The kernel puts every  *)
(* frame written into the ring on the wire exactly once, in the order it   *)
(* was written, never more than FrameNr of them waiting: no slot is        *)
(* overwritten before the kernel took it (the status test of the burst),   *)
(* none is taken twice, and what went out is never taken back.             *)
TxImplementsFifo == Fifo!FifoSpec

(* Spec 4.C: every control packet queued for the interface and every frame *)
(* written into the ring is eventually handed to the kernel, provided      *)
(* sendto does not fail forever.                                           *)
EventuallySent == <>[](ctrl_q = 0 /\ Len(wire) = produced)

(* The same for an interface whose TX runs in io_packet_mmap_tx_job on the *)
(* main loop: a no_buffer job still notifies, so a failed sendto is        *)
(* retried by the next job.                                                *)
AllSent == ~threaded => EventuallySent

====
