------------------------------ MODULE StreamTx ------------------------------
(***************************************************************************)
(* The transmit side of one traffic stream (src/code/bngblaster/src/       *)
(* bbl_stream.c): the sendability gate bbl_stream_can_send, the pacing     *)
(* algorithm bbl_stream_send_window and the periodic TX job                *)
(* bbl_stream_tx_job that stamps flow_seq into the cached template and     *)
(* hands copies to the TX ring through io_send.                            *)
(*                                                                         *)
(* The clock counts TicksPerSec units per second, Period units making one *)
(* period of the stream's TX timer; the code arms that timer at 1/pps      *)
(* seconds (bbl_stream_add, SEC / config->pps), so TicksPerSec =           *)
(* PPS * Period in the model configurations.  The timer fires at most once *)
(* per period, at any instant of it: it may fire late or not at all (a     *)
(* busy main loop or TX thread), which is what the send window corrects.   *)
(* The job reads CLOCK_MONOTONIC when it runs, so a window may open at any *)
(* instant of a period.                                                    *)
(*                                                                         *)
(* The session state machines (PPP, DHCP, ...) are an environment: their   *)
(* per-type address prerequisites checked by bbl_stream_can_send are       *)
(* abstracted into session_ready, and session_traffic.active /             *)
(* streams.active into session_active.                                     *)
(***************************************************************************)
EXTENDS Naturals, Sequences

CONSTANTS
    PPS,          \* stream->config->pps (whole packets per second)
    TicksPerSec,  \* clock units per second
    Period,       \* clock units per TX timer period
    StartDelay,   \* stream->config->start_delay in seconds, 0 = none
    MaxPackets,   \* stream->config->max_packets, 0 = unlimited
    MaxPpi,       \* g_ctx->config.io_stream_max_ppi
    RawStream,    \* stream->config->stream_group_id = 0 (no session)
    RingSize,     \* TX ring slots io_send can fill before the kernel drains
    MaxTime       \* bound on the clock (model bound)

ASSUME /\ PPS \in Nat \ {0} /\ TicksPerSec \in Nat \ {0} /\ Period \in Nat \ {0}
       /\ StartDelay \in Nat /\ MaxPackets \in Nat
       /\ MaxPpi \in Nat \ {0} /\ RawStream \in BOOLEAN
       /\ RingSize \in Nat \ {0} /\ MaxTime \in Nat

VARIABLES
    now,                 \* CLOCK_MONOTONIC, in clock units
    tx_timer_fired,      \* the TX timer already fired in this period
    g_init_phase,        \* global init phase flag
    g_traffic,           \* global traffic start/stop flag
    session_ready,       \* per-type address prerequisites of can_send hold
    session_active,      \* session_traffic.active / streams.active
    reset,               \* stream->reset, set by bbl_stream_reset
    stop,                \* stream->stop
    buf,                 \* stream->buf # NULL (template built)
    flow_seq,            \* stream->flow_seq
    packets_tx,          \* stream->packets_tx
    send_window_packets, \* stream->send_window_packets
    send_window_start,   \* stream->send_window_start
    wait,                \* stream->wait (start delay window running)
    wait_start,          \* stream->wait_start
    ring_free,           \* free slots of the TX ring behind io_send
    wire,                \* packets handed to the ring, in order
    tx_epoch,            \* history: resets applied by can_send
    first_sendable       \* history: time of the first send_window call

tx_vars == <<now, tx_timer_fired, g_init_phase, g_traffic, session_ready,
             session_active, reset, stop, buf, flow_seq, packets_tx,
             send_window_packets, send_window_start, wait, wait_start,
             ring_free, wire, tx_epoch, first_sendable>>

NoTime == MaxTime + 1   \* first_sendable before the first send_window call

Packet == [seq : Nat, epoch : Nat, ts : 0..MaxTime]

Min2(a, b) == IF a <= b THEN a ELSE b

-----------------------------------------------------------------------------
(* A rounding-up variant of ElapsedSec (mutant).                          *)
ElapsedSecRoundedUp(t, t0) == (t - t0 + TicksPerSec - 1) \div TicksPerSec

(* timespec_sub(...).tv_sec: whole seconds elapsed since t0.               *)
ElapsedSec(t, t0) == (t - t0) \div TicksPerSec

(* packets_expected with the nanoseconds not scaled to seconds (mutant).  *)
ExpectedUnscaled(t) == (t - send_window_start) * PPS

(* packets_expected = tv_sec * pps + pps * tv_nsec / 1e9, truncated.       *)
Expected(t) == ((t - send_window_start) * PPS) \div TicksPerSec

(* The packets a running window owes: expected - sent, and 1 when the     *)
(* window is not behind (packets starts at 1 and is only overwritten when *)
(* packets_expected > send_window_packets).                                *)
Backlog(t) ==
    IF Expected(t) > send_window_packets
    THEN Expected(t) - send_window_packets ELSE 1

(* max_packets clamp with an off-by-one (mutant).                          *)
CapToMaxOffByOne(n) ==
    IF MaxPackets > 0 /\ packets_tx + n > MaxPackets
    THEN IF packets_tx < MaxPackets THEN MaxPackets - packets_tx + 1 ELSE 0
    ELSE n

(* The optional max_packets clamp of bbl_stream_send_window.               *)
CapToMax(n) ==
    IF MaxPackets > 0 /\ packets_tx + n > MaxPackets
    THEN IF packets_tx < MaxPackets THEN MaxPackets - packets_tx ELSE 0
    ELSE n

(***************************************************************************)
(* bbl_stream_send_window: the number of packets to send now and the new   *)
(* wait / window anchors.  The start delay branch returns 0 both on the    *)
(* call that opens the wait window and while it is running; after it the  *)
(* call falls through.  A fresh window sends 1; a running one sends its    *)
(* backlog, at most io_stream_max_ppi; the max_packets clamp comes last.   *)
(***************************************************************************)
SendWindow(t) ==
    LET waiting == /\ StartDelay > 0 /\ packets_tx = 0
                   /\ ~(wait /\ ElapsedSec(t, wait_start) >= StartDelay)
        window  == IF send_window_packets = 0 THEN 1 ELSE Min2(Backlog(t), MaxPpi)
    IN  IF waiting
        THEN [packets |-> 0, wait |-> TRUE,
              wait_start |-> IF wait THEN wait_start ELSE t,
              window_start |-> send_window_start]
        ELSE [packets |-> CapToMax(window), wait |-> wait,
              wait_start |-> wait_start,
              window_start |-> IF send_window_packets = 0 THEN t
                               ELSE send_window_start]

(* io_send ignoring a full ring (mutant).                                  *)
SentIgnoringRing(w) == w.packets

(* io_send fails once the ring is full and the TX job returns at the       *)
(* first failure: min(packets, free slots) packets go out.                 *)
Sent(w) == Min2(w.packets, ring_free)

(* The session-independent part of bbl_stream_can_send's verdict.          *)
SessionAllows == RawStream \/ session_ready

(* bbl_stream_can_send's FREE label: drop the template, close the window.  *)
Free == /\ buf' = FALSE
        /\ send_window_packets' = 0

(* The send window is closed by a global or per-stream stop, or by an      *)
(* inactive session (bbl_stream_tx_job "Close send window").              *)
WindowClosed == ~g_traffic \/ stop \/ (~RawStream /\ ~session_active)

-----------------------------------------------------------------------------
(***************************************************************************)
(* bbl_stream_tx_job, with bbl_stream_can_send and the template build      *)
(* folded in.  The template build is assumed to succeed (encode errors are a           *)
(* configuration matter).                                                  *)
(***************************************************************************)
TxInitPhase ==
    /\ g_init_phase
    /\ UNCHANGED <<reset, buf, flow_seq, send_window_packets, tx_epoch>>
    /\ UNCHANGED <<packets_tx, send_window_start, wait, wait_start,
                   ring_free, wire, first_sendable>>

(* Applying a reset without restarting flow_seq (mutant).                  *)
TxApplyResetKeepSeq ==
    /\ ~g_init_phase /\ reset
    /\ reset' = FALSE /\ Free
    /\ tx_epoch' = tx_epoch + 1
    /\ UNCHANGED <<flow_seq, packets_tx, send_window_start, wait, wait_start,
                   ring_free, wire, first_sendable>>

TxApplyReset ==
    /\ ~g_init_phase /\ reset
    /\ reset' = FALSE /\ flow_seq' = 1 /\ Free
    /\ tx_epoch' = tx_epoch + 1
    /\ UNCHANGED <<packets_tx, send_window_start, wait, wait_start,
                   ring_free, wire, first_sendable>>

TxNotReady ==
    /\ ~g_init_phase /\ ~reset /\ ~SessionAllows
    /\ Free
    /\ UNCHANGED <<reset, flow_seq, tx_epoch>>
    /\ UNCHANGED <<packets_tx, send_window_start, wait, wait_start,
                   ring_free, wire, first_sendable>>

TxClosed ==
    /\ ~g_init_phase /\ ~reset /\ SessionAllows
    /\ WindowClosed
    /\ buf' = TRUE /\ send_window_packets' = 0
    /\ UNCHANGED <<reset, flow_seq, tx_epoch>>
    /\ UNCHANGED <<packets_tx, send_window_start, wait, wait_start,
                   ring_free, wire, first_sendable>>

TxSend ==
    /\ ~g_init_phase /\ ~reset /\ SessionAllows
    /\ ~WindowClosed
    /\ LET w == SendWindow(now)
           k == Sent(w)
       IN  /\ buf' = TRUE
           /\ wait' = w.wait
           /\ wait_start' = w.wait_start
           /\ send_window_start' = w.window_start
           /\ send_window_packets' = send_window_packets + k
           /\ packets_tx' = packets_tx + k
           /\ flow_seq' = flow_seq + k
           /\ ring_free' = ring_free - k
           /\ wire' = wire \o [i \in 1..k |->
                         [seq |-> flow_seq + i - 1, epoch |-> tx_epoch, ts |-> now]]
    /\ first_sendable' = IF first_sendable = NoTime THEN now ELSE first_sendable
    /\ UNCHANGED <<reset, tx_epoch>>

TxJob ==
    /\ ~tx_timer_fired
    /\ tx_timer_fired' = TRUE
    /\ \/ TxInitPhase \/ TxApplyReset \/ TxNotReady \/ TxClosed \/ TxSend
    /\ UNCHANGED <<now, g_init_phase, g_traffic, session_ready, session_active, stop>>

ResetTx == reset' = TRUE /\ stop' = FALSE /\ UNCHANGED flow_seq

-----------------------------------------------------------------------------
(* Environment of the stream: clock, control socket, session, kernel.      *)

(* The clock advances one unit; the timer re-arms when a new TX timer       *)
(* period begins.                                                          *)
Tick ==
    /\ now < MaxTime
    /\ now' = now + 1
    /\ tx_timer_fired' = (tx_timer_fired /\ (now + 1) % Period # 0)
    /\ UNCHANGED <<g_init_phase, g_traffic, session_ready, session_active,
                   reset, stop, buf, flow_seq, packets_tx, send_window_packets,
                   send_window_start, wait, wait_start, ring_free, wire,
                   tx_epoch, first_sendable>>

EnvVars == <<now, tx_timer_fired, reset, stop, buf, flow_seq, packets_tx,
             send_window_packets, send_window_start, wait, wait_start,
             ring_free, wire, tx_epoch, first_sendable>>

(* The global init phase ends once (all interfaces up).                    *)
EndInitPhase ==
    /\ g_init_phase /\ g_init_phase' = FALSE
    /\ UNCHANGED <<g_traffic, session_ready, session_active>>
    /\ UNCHANGED EnvVars

(* Traffic start / stop through the control socket.                        *)
ToggleTraffic ==
    /\ g_traffic' = ~g_traffic
    /\ UNCHANGED <<g_init_phase, session_ready, session_active>>
    /\ UNCHANGED EnvVars

(* The session gains or loses its addresses, or its traffic is toggled.    *)
SessionChange ==
    /\ ~RawStream
    /\ \E r, a \in BOOLEAN :
          /\ <<r, a>> # <<session_ready, session_active>>
          /\ session_ready' = r /\ session_active' = a
    /\ UNCHANGED <<g_init_phase, g_traffic>>
    /\ UNCHANGED EnvVars

(* The kernel transmits the queued frames and frees the ring.              *)
KernelDrain ==
    /\ ring_free < RingSize
    /\ ring_free' = RingSize
    /\ UNCHANGED <<now, tx_timer_fired, g_init_phase, g_traffic, session_ready,
                   session_active, reset, stop, buf, flow_seq, packets_tx,
                   send_window_packets, send_window_start, wait, wait_start,
                   wire, tx_epoch, first_sendable>>

(* bbl_stream_reset through the control socket (TX half only here).        *)
Reset ==
    /\ ResetTx
    /\ UNCHANGED <<now, tx_timer_fired, g_init_phase, g_traffic, session_ready,
                   session_active, buf, packets_tx,
                   send_window_packets, send_window_start, wait, wait_start,
                   ring_free, wire, tx_epoch, first_sendable>>

(* bbl_stream_ctrl stops a verified stream when traffic_stop_verified.     *)
StopVerified ==
    /\ ~stop /\ stop' = TRUE
    /\ UNCHANGED <<now, tx_timer_fired, g_init_phase, g_traffic, session_ready,
                   session_active, reset, buf, flow_seq, packets_tx,
                   send_window_packets, send_window_start, wait, wait_start,
                   ring_free, wire, tx_epoch, first_sendable>>

TxInit ==
    /\ now = 0 /\ tx_timer_fired = FALSE
    /\ g_init_phase = TRUE /\ g_traffic \in BOOLEAN
    /\ session_ready = FALSE /\ session_active \in BOOLEAN
    /\ reset = FALSE /\ stop = FALSE /\ buf = FALSE
    /\ flow_seq = 1 /\ packets_tx = 0
    /\ send_window_packets = 0 /\ send_window_start = 0
    /\ wait = FALSE /\ wait_start = 0
    /\ ring_free = RingSize /\ wire = << >>
    /\ tx_epoch = 0 /\ first_sendable = NoTime

TxNext ==
    \/ TxJob \/ Tick \/ EndInitPhase \/ ToggleTraffic \/ SessionChange
    \/ KernelDrain \/ Reset \/ StopVerified

TxSpec == TxInit /\ [][TxNext]_tx_vars

-----------------------------------------------------------------------------
TxTypeOK ==
    /\ now \in 0..MaxTime /\ tx_timer_fired \in BOOLEAN
    /\ {g_init_phase, g_traffic, session_ready, session_active} \subseteq BOOLEAN
    /\ {reset, stop, buf, wait} \subseteq BOOLEAN
    /\ flow_seq \in Nat \ {0} /\ packets_tx \in Nat
    /\ send_window_packets \in Nat /\ send_window_start \in 0..MaxTime
    /\ wait_start \in 0..MaxTime /\ ring_free \in 0..RingSize
    /\ wire \in Seq(Packet) /\ tx_epoch \in Nat
    /\ first_sendable \in 0..NoTime

PeriodStart(t) == t - (t % Period)

(* Pacing, bbl_stream_send_window: a window that opened late in a timer    *)
(* period can run ahead of pps * (now - send_window_start), since a job    *)
(* that is not behind still sends 1 packet (line 957).  It is never more   *)
(* than one packet ahead of the rate counted from the start of the period  *)
(* in which the window opened, whatever the timer lateness, ring           *)
(* back-pressure, max_ppi clamps, stops and restarts.                      *)
RateBound ==
    send_window_packets > 0 =>
        send_window_packets * TicksPerSec
            <= (now - PeriodStart(send_window_start)) * PPS + TicksPerSec

(* Spec 8.5, max_packets: the stream never emits more than max_packets,    *)
(* however the catch-up backlog and io_stream_max_ppi combine.             *)
MaxPacketsCap ==
    MaxPackets > 0 => packets_tx <= MaxPackets

(* Spec 8.4, start_delay: no packet leaves before start_delay seconds      *)
(* after the stream first became sendable (its first send_window call).    *)
StartDelayRespected ==
    Len(wire) > 0 => wire[1].ts - first_sendable >= StartDelay * TicksPerSec

====
