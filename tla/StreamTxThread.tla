--------------------------- MODULE StreamTxThread ---------------------------
(***************************************************************************)
(* The transmit side of one stream with or without a TX thread.  When the  *)
(* stream's interface has TX threads, bbl_stream_add_jobs puts the         *)
(* stream's TX timer on the chosen thread's timer root                     *)
(* (src/code/bngblaster/src/bbl_stream.c), so bbl_stream_tx_job runs on   *)
(* that thread while bbl_stream_reset, bbl_stream_ctrl (stop), the traffic *)
(* flag and the session change on the main loop.  The job is then two     *)
(* kinds of step: the gate (bbl_stream_can_send, the close checks and      *)
(* bbl_stream_send_window), and one step per io_send of its send loop;     *)
(* main-loop steps interleave between them.  Without a thread the job is  *)
(* one step, StreamTx's TxJob.  The gate's reads of reset and stop are     *)
(* taken together.                                                         *)
(***************************************************************************)
EXTENDS StreamTx

CONSTANT Modes   \* possible values of stream->thread # NULL

ASSUME Modes \subseteq BOOLEAN /\ Modes # {}

VARIABLES
    threaded,  \* stream->thread # NULL
    job,       \* the running send loop: packets left, its BBL timestamp
    stale      \* history: packets sent since the last reset request while
               \* that request was not yet applied

thread_vars == <<tx_vars, threaded, job, stale>>

NoJob == [left |-> 0, ts |-> 0]

(* The gate passed: build the template if needed, compute the window and   *)
(* stamp the BBL header with now; the loop runs in the next steps.         *)
ThreadTxSendStart ==
    /\ ~g_init_phase /\ ~reset /\ SessionAllows
    /\ ~WindowClosed
    /\ LET w == SendWindow(now)
       IN  /\ buf' = TRUE
           /\ wait' = w.wait
           /\ wait_start' = w.wait_start
           /\ send_window_start' = w.window_start
           /\ job' = [left |-> w.packets, ts |-> now]
    /\ first_sendable' = IF first_sendable = NoTime THEN now ELSE first_sendable
    /\ UNCHANGED <<reset, tx_epoch, flow_seq, packets_tx, send_window_packets,
                   ring_free, wire>>

(* bbl_stream_tx_job on the TX thread, up to its send loop.                *)
ThreadTxJob ==
    /\ threaded /\ job.left = 0
    /\ ~tx_timer_fired
    /\ tx_timer_fired' = TRUE
    /\ \/ (TxInitPhase \/ TxApplyReset \/ TxNotReady \/ TxClosed)
          /\ UNCHANGED job
       \/ ThreadTxSendStart
    /\ UNCHANGED <<now, g_init_phase, g_traffic, session_ready, session_active,
                   stop, threaded, stale>>

(* io_send fails (ring full): the job returns with the rest unsent.        *)
ThreadIoSendFail ==
    /\ job.left > 0 /\ ring_free = 0
    /\ job' = NoJob
    /\ UNCHANGED <<tx_vars, threaded, stale>>

(* One pass of the send loop that does not count the packet down (mutant). *)
ThreadIoSendNoCount ==
    /\ job.left > 0 /\ ring_free > 0
    /\ wire' = Append(wire, [seq |-> flow_seq, epoch |-> tx_epoch, ts |-> job.ts])
    /\ ring_free' = ring_free - 1
    /\ send_window_packets' = send_window_packets + 1
    /\ packets_tx' = packets_tx + 1
    /\ flow_seq' = flow_seq + 1
    /\ stale' = IF reset THEN stale + 1 ELSE stale
    /\ UNCHANGED <<now, tx_timer_fired, g_init_phase, g_traffic, session_ready,
                   session_active, reset, stop, buf, send_window_start, wait,
                   wait_start, tx_epoch, first_sendable, threaded, job>>

(* One pass of the send loop: the current flow_seq is stamped and the      *)
(* copy handed to io_send; send_window_packets, packets_tx and flow_seq    *)
(* count up, packets counts down.                                          *)
ThreadIoSend ==
    /\ job.left > 0 /\ ring_free > 0
    /\ wire' = Append(wire, [seq |-> flow_seq, epoch |-> tx_epoch, ts |-> job.ts])
    /\ ring_free' = ring_free - 1
    /\ send_window_packets' = send_window_packets + 1
    /\ packets_tx' = packets_tx + 1
    /\ flow_seq' = flow_seq + 1
    /\ job' = [job EXCEPT !.left = @ - 1]
    /\ stale' = IF reset THEN stale + 1 ELSE stale
    /\ UNCHANGED <<now, tx_timer_fired, g_init_phase, g_traffic, session_ready,
                   session_active, reset, stop, buf, send_window_start, wait,
                   wait_start, tx_epoch, first_sendable, threaded>>

(* bbl_stream_tx_job on the main loop: one step.                           *)
MainTxJob == ~threaded /\ TxJob /\ UNCHANGED <<threaded, job, stale>>

(* bbl_stream_reset on the main loop; the stale count restarts.            *)
ThreadReset == Reset /\ stale' = 0 /\ UNCHANGED <<threaded, job>>

(* The rest of the environment, on the main loop, the clock or the kernel. *)
ThreadEnv ==
    /\ \/ Tick \/ EndInitPhase \/ ToggleTraffic \/ SessionChange
       \/ KernelDrain \/ StopVerified
    /\ UNCHANGED <<threaded, job, stale>>

ThreadInit == TxInit /\ threaded \in Modes /\ job = NoJob /\ stale = 0

ThreadNext ==
    \/ MainTxJob \/ ThreadTxJob \/ ThreadIoSend \/ ThreadIoSendFail
    \/ ThreadReset \/ ThreadEnv

ThreadSpec == ThreadInit /\ [][ThreadNext]_thread_vars

-----------------------------------------------------------------------------
ThreadTxTypeOK ==
    /\ TxTypeOK
    /\ threaded \in BOOLEAN
    /\ job \in [left : 0..MaxPpi, ts : 0..MaxTime]
    /\ stale \in Nat

(* Spec 8.1 and the reset hazard of bbl_stream_reset with a TX thread: a   *)
(* reset requested while the thread is inside its send loop lets at most   *)
(* the rest of that one send window (io_stream_max_ppi packets) out with   *)
(* the old numbering; the next TX job restarts flow_seq at 1.              *)
StaleAfterResetBounded == stale <= MaxPpi

====
